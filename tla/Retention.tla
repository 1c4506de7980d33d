------------------------------ MODULE Retention -----------------------------
(***************************************************************************)
(* The retention rules of domain/entities/retention_policy.py. A policy is *)
(* identified with its content; time counts whole days, the unit of        *)
(* retention_days, and every comparison keeps the code's strictness.       *)
(***************************************************************************)
EXTENDS Naturals

Modes == {"COMPLIANCE", "GOVERNANCE"}

\* retention_days is at least 1: CreateRetentionPolicyRequest refuses less.
Policy == [mode : Modes, days : Nat \ {0}, allow : BOOLEAN]

Expiry(p, created) == created + p.days

Expired(p, created, now) == now >= Expiry(p, created)

\* RetentionPolicy.can_delete, without the wording of the refusal.
CanDelete(p, created, now) ==
  \/ p.mode = "COMPLIANCE" /\ Expired(p, created, now) /\ p.allow
  \/ p.mode = "GOVERNANCE" /\ (Expired(p, created, now) \/ p.allow)
=============================================================================
