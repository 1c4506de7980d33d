------------------------------ MODULE Envelope ------------------------------
(***************************************************************************)
(* Sizes of the envelope encryption (EnvelopeEncryptionService): every     *)
(* document version gets its own Fernet key, and that key, encrypted again *)
(* with the master key, is what document_versions.encryption_key_id holds. *)
(* Contents are abstracted away; lengths matter, because the column is     *)
(* a VARCHAR of a fixed width.                                             *)
(***************************************************************************)
EXTENDS Naturals

\* Length of n bytes written in padded base64.
Base64Length(n) == 4 * ((n + 2) \div 3)

\* Length of the Fernet token of n bytes: version byte, 8-byte timestamp,
\* 16-byte IV, the text padded to whole 16-byte blocks (at least one byte of
\* padding) and a 32-byte HMAC, all in base64.
FernetLength(n) == Base64Length(1 + 8 + 16 + 16 * (n \div 16 + 1) + 32)

\* Fernet.generate_key(): 32 random bytes in base64.
DekLength == Base64Length(32)

\* generate_dek: the DEK encrypted under the KEK.
WrappedDekLength == FernetLength(DekLength)
=============================================================================
