----------------------------- MODULE Documents ------------------------------
(***************************************************************************)
(* The life of a document row: upload, edit, delete, restore, retention    *)
(* policies and legal holds, as DocumentService and the legal-hold and     *)
(* retention routers run them.                                             *)
(*                                                                         *)
(* Every repository call of the code opens a session, commits and closes   *)
(* it, so a request is a sequence of transactions with other requests in   *)
(* between. A request reads the row once, changes its private copy (snap)  *)
(* and writes the copy back, all columns together, without looking at the  *)
(* row again. One action below is one transaction, with the local code     *)
(* that follows it up to the next await.                                   *)
(*                                                                         *)
(* A refused request that has changed nothing is not a step.               *)
(***************************************************************************)
EXTENDS Naturals, FiniteSets, Retention, Envelope

CONSTANTS
  Docs,           \* ids that uuid4 can give to documents
  Holds,          \* ids that uuid4 can give to legal holds
  Policies,       \* the retention policies an administrator may create
  Tenants,
  Titles,         \* stands for title, tags and metadata: what an edit changes
  Reqs,           \* slots for HTTP requests in progress
  MaxTime,        \* bound: the last day of a behaviour
  KeyColumnWidths, \* widths of document_versions.encryption_key_id: the declared one, and
                   \* others that a migration may give it
  None            \* "no row", "no policy", "no hold", "nothing read"

ASSUME PoliciesAssumption == Policies \subseteq Policy
ASSUME MaxTimeAssumption  == MaxTime \in Nat
ASSUME WidthAssumption    == KeyColumnWidths \subseteq Nat
ASSUME NoneAssumption     ==
  None \notin Docs \cup Holds \cup Policies \cup Tenants \cup Titles

VARIABLES
  docs,      \* table documents
  holds,     \* table legal_holds
  policies,  \* table retention_policies
  now,       \* today
  trail,     \* what the audit events of each document say of it
  pc,        \* the transaction each request performs next
  call,      \* what each request was asked to do
  snap,      \* the private copy of the row each request works on
  contended, \* history: documents that two requests have handled at once
  partial    \* history: documents a request abandoned after its first commit

vars == <<docs, holds, policies, now, trail, pc, call, snap, contended, partial>>
history == <<contended, partial>>

-----------------------------------------------------------------------------
(* Types *)

\* The values of DocumentStatus that the code ever assigns.
Status == {"PROCESSING", "ACTIVE", "DELETED"}

\* current: whether current_version_id points at a version; hold: the
\* legal_hold_active flag, a cache of "some legal hold on it is active".
Row == [tenant : Tenants, status : Status, current : BOOLEAN,
        policy : Policies \cup {None}, hold : BOOLEAN, title : Titles,
        created : 0 .. MaxTime]

HoldRow == [doc : Docs, active : BOOLEAN]

Ops == {"upload", "update", "delete", "restore", "apply", "place", "release"}

\* Operations that end with an audit event.
Audited == {"upload", "update", "delete", "restore"}

Call == [op : Ops, doc : Docs, tenant : Tenants, hold : Holds \cup {None},
         purge : BOOLEAN]

\* What a reader of a document's audit trail learns: the operations recorded,
\* and the status and title that the last event about each one leaves.
Trail == [events : SUBSET Audited, status : Status, title : Titles \cup {None}]

Steps == {"idle", "version", "check", "write", "audit", "insert", "list", "reread"}

ASSUME NoneIsNothing == None \notin Row \cup HoldRow \cup Call

\* Every variable keeps its type: in particular no request writes "nothing" back
\* over a row, and no hold or event refers to a document outside the tables.
TypeOK ==
  /\ docs \in [Docs -> Row \cup {None}]
  /\ holds \in [Holds -> HoldRow \cup {None}]
  /\ policies \subseteq Policies
  /\ now \in 0 .. MaxTime
  /\ trail \in [Docs -> Trail]
  /\ pc \in [Reqs -> Steps]
  /\ call \in [Reqs -> Call \cup {None}]
  /\ snap \in [Reqs -> Row \cup {None}]
  /\ contended \subseteq Docs
  /\ partial \subseteq Docs

-----------------------------------------------------------------------------
(* Derived state *)

Exists(d) == docs[d] # None

\* DocumentService._get_or_raise: the row, if it is the caller's tenant's.
Visible(d, t) == Exists(d) /\ docs[d].tenant = t

\* Requests in progress that handle document d.
On(d) == {r \in Reqs : pc[r] # "idle" /\ call[r].doc = d}

\* LegalHoldRepository.list_active_by_document.
ActiveHolds(d) ==
  {h \in Holds : holds[h] # None /\ holds[h].doc = d /\ holds[h].active}

\* A fresh uuid: neither stored nor given to a request in progress.
FreshHold(h) ==
  /\ holds[h] = None
  /\ \A r \in Reqs : pc[r] # "idle" => call[r].hold # h

-----------------------------------------------------------------------------
(* Requests *)

Init ==
  /\ docs = [d \in Docs |-> None]
  /\ holds = [h \in Holds |-> None]
  /\ policies = {}
  /\ now = 0
  /\ trail = [d \in Docs |-> [events |-> {}, status |-> "PROCESSING", title |-> None]]
  /\ pc = [r \in Reqs |-> "idle"]
  /\ call = [r \in Reqs |-> None]
  /\ snap = [r \in Reqs |-> None]
  /\ contended = {}
  /\ partial = {}

Request(op, d, t) ==
  [op |-> op, doc |-> d, tenant |-> t, hold |-> None, purge |-> FALSE]

\* Request r arrives with call c, keeps copy s and goes on with transaction at.
Begin(r, c, s, at) ==
  /\ pc[r] = "idle"
  /\ pc' = [pc EXCEPT ![r] = at]
  /\ call' = [call EXCEPT ![r] = c]
  /\ snap' = [snap EXCEPT ![r] = s]
  /\ contended' = contended \cup {d \in {c.doc} : On(d) # {}}
  /\ UNCHANGED partial

Advance(r, s, at) ==
  /\ pc' = [pc EXCEPT ![r] = at]
  /\ snap' = [snap EXCEPT ![r] = s]
  /\ UNCHANGED <<call, contended, partial>>

\* The request ends; its local variables go with it.
Close(r) ==
  /\ pc' = [pc EXCEPT ![r] = "idle"]
  /\ call' = [call EXCEPT ![r] = None]
  /\ snap' = [snap EXCEPT ![r] = None]
  /\ UNCHANGED contended

Finish(r) == Close(r) /\ UNCHANGED partial

Abandon(r) == Close(r) /\ partial' = partial \cup {call[r].doc}

-----------------------------------------------------------------------------
(* First transactions *)

\* upload_document: the blob and its storage_objects row are stored before;
\* here the row is created, PROCESSING and without a version. Its policy must
\* exist (foreign key).
StartUpload(r, d, t, p, ti) ==
  LET row == [tenant |-> t, status |-> "PROCESSING", current |-> FALSE,
              policy |-> p, hold |-> FALSE, title |-> ti, created |-> now]
  IN  /\ ~Exists(d)
      /\ p \in policies \cup {None}
      /\ Begin(r, Request("upload", d, t), row, "version")
      /\ docs' = [docs EXCEPT ![d] = row]
      /\ UNCHANGED <<holds, policies, now, trail>>

Edited(row, ti) == [row EXCEPT !.title = ti]

\* update_document: whatever the status of the document.
StartUpdate(r, d, t, ti) ==
  /\ Visible(d, t)
  /\ Begin(r, Request("update", d, t), Edited(docs[d], ti), "write")
  /\ UNCHANGED <<docs, holds, policies, now, trail>>

\* Mutant: the flag is not looked at.
HoldPermitsAlways(row, purge) == TRUE

HoldPermits(row, purge) == ~row.hold \/ purge

\* Document.soft_delete.
SoftDeleted(row) == [row EXCEPT !.status = "DELETED"]

\* delete_document: the hold is judged by the flag just read; a document with
\* a policy must first have the policy fetched.
StartDelete(r, d, t, purge) ==
  LET c == [Request("delete", d, t) EXCEPT !.purge = purge]
  IN  /\ Visible(d, t)
      /\ HoldPermits(docs[d], purge)
      /\ \/ /\ docs[d].policy = None
            /\ Begin(r, c, SoftDeleted(docs[d]), "write")
         \/ /\ docs[d].policy # None
            /\ Begin(r, c, docs[d], "check")
      /\ UNCHANGED <<docs, holds, policies, now, trail>>

\* Mutant: whatever is not ACTIVE can be restored.
RestorableUnfinished(row) == row.status # "ACTIVE"

Restorable(row) == row.status = "DELETED"

\* restore_document: ACTIVE again, whatever it was before the deletion.
StartRestore(r, d, t) ==
  /\ Visible(d, t)
  /\ Restorable(docs[d])
  /\ Begin(r, Request("restore", d, t), [docs[d] EXCEPT !.status = "ACTIVE"], "write")
  /\ UNCHANGED <<docs, holds, policies, now, trail>>

\* apply_retention_policy: any existing policy may replace any other.
StartApply(r, d, t, p) ==
  /\ Visible(d, t)
  /\ p \in policies
  /\ Begin(r, Request("apply", d, t), [docs[d] EXCEPT !.policy = p], "write")
  /\ UNCHANGED <<docs, holds, policies, now, trail>>

\* place_legal_hold: the flag comes first, the hold itself after it.
StartPlace(r, d, t, h) ==
  /\ Visible(d, t)
  /\ FreshHold(h)
  /\ Begin(r, [Request("place", d, t) EXCEPT !.hold = h],
           [docs[d] EXCEPT !.hold = TRUE], "write")
  /\ UNCHANGED <<docs, holds, policies, now, trail>>

\* release_legal_hold: any stored hold, of any tenant, released before or not.
\* The read of the hold is merged with the write that releases it: all that the
\* read keeps, the document's id, never changes.
StartRelease(r, h, t) ==
  /\ holds[h] # None
  /\ Begin(r, [Request("release", holds[h].doc, t) EXCEPT !.hold = h], None, "list")
  /\ holds' = [holds EXCEPT ![h].active = FALSE]
  /\ UNCHANGED <<docs, policies, now, trail>>

-----------------------------------------------------------------------------
(* Later transactions *)

\* create_version: the wrapped key must fit its column. The copy then becomes
\* ACTIVE and current.
CreateVersion(r) ==
  /\ pc[r] = "version"
  /\ \E width \in KeyColumnWidths : WrappedDekLength <= width
  /\ Advance(r, [snap[r] EXCEPT !.status = "ACTIVE", !.current = TRUE], "write")
  /\ UNCHANGED <<docs, holds, policies, now, trail>>

\* The database refuses the row (value too long): the upload ends in an error
\* and nothing removes the document it has created.
RefuseVersion(r) ==
  /\ pc[r] = "version"
  /\ \E width \in KeyColumnWidths : WrappedDekLength > width
  /\ Finish(r)
  /\ UNCHANGED <<docs, holds, policies, now, trail>>

\* Mutant: GOVERNANCE binds nobody.
RetentionPermitsGovernance(row, purge) ==
  row.policy.mode = "GOVERNANCE" \/ CanDelete(row.policy, row.created, now) \/ purge

RetentionPermits(row, purge) == CanDelete(row.policy, row.created, now) \/ purge

\* delete_document has fetched the policy: deletion allowed.
CheckRetention(r) ==
  /\ pc[r] = "check"
  /\ RetentionPermits(snap[r], call[r].purge)
  /\ Advance(r, SoftDeleted(snap[r]), "write")
  /\ UNCHANGED <<docs, holds, policies, now, trail>>

\* RetentionPolicyViolationError.
RefuseRetention(r) ==
  /\ pc[r] = "check"
  /\ ~RetentionPermits(snap[r], call[r].purge)
  /\ Finish(r)
  /\ UNCHANGED <<docs, holds, policies, now, trail>>

\* Mutants: a column forgotten, two columns swapped.
WrittenWithoutTitle(row, copy) ==
  [row EXCEPT !.status = copy.status, !.current = copy.current,
              !.policy = copy.policy, !.hold = copy.hold]
WrittenWithoutCurrent(row, copy) ==
  [row EXCEPT !.status = copy.status, !.policy = copy.policy,
              !.hold = copy.hold, !.title = copy.title]
WrittenSwapped(row, copy) ==
  [row EXCEPT !.status = copy.title, !.title = copy.status]

\* DocumentRepository.update: every column but tenant and creation time comes
\* from the copy.
Written(row, copy) ==
  [row EXCEPT !.status = copy.status, !.current = copy.current,
              !.policy = copy.policy, !.hold = copy.hold, !.title = copy.title]

AfterWrite(op) == IF op = "place" THEN "insert" ELSE "audit"

Write(r) ==
  /\ pc[r] = "write"
  /\ docs' = [docs EXCEPT ![call[r].doc] = Written(@, snap[r])]
  /\ \/ call[r].op \in {"apply", "release"} /\ Finish(r)
     \/ call[r].op \in Audited \cup {"place"} /\ Advance(r, snap[r], AfterWrite(call[r].op))
  /\ UNCHANGED <<holds, policies, now, trail>>

\* Mutant: privileged purges leave no event.
RecordedUnlessPurge(tr, c, s) ==
  [tr EXCEPT !.events = @ \cup {o \in {c.op} : ~c.purge},
             !.status = IF c.op = "update" THEN @ ELSE s.status,
             !.title = IF c.op \in {"upload", "update"} THEN s.title ELSE @]

\* The trail once request c, whose copy was s, has recorded its event. The
\* payload of DOCUMENT_CREATED and DOCUMENT_UPDATED carries what was submitted.
Recorded(tr, c, s) ==
  [events |-> tr.events \cup {c.op},
   status |-> IF c.op = "update" THEN tr.status ELSE s.status,
   title  |-> IF c.op \in {"upload", "update"} THEN s.title ELSE tr.title]

\* _write_audit.
WriteAudit(r) ==
  /\ pc[r] = "audit"
  /\ trail' = [trail EXCEPT ![call[r].doc] = Recorded(@, call[r], snap[r])]
  /\ Finish(r)
  /\ UNCHANGED <<docs, holds, policies, now>>

\* LegalHoldRepository.create, the end of place_legal_hold. No event.
InsertHold(r) ==
  /\ pc[r] = "insert"
  /\ holds' = [holds EXCEPT ![call[r].hold] = [doc |-> call[r].doc, active |-> TRUE]]
  /\ Finish(r)
  /\ UNCHANGED <<docs, policies, now, trail>>

\* Mutants: the hold just released counted as remaining; released holds counted.
LastHoldOffByOne(d) == Cardinality(ActiveHolds(d)) <= 1
LastHoldEver(d) == {h \in Holds : holds[h] # None /\ holds[h].doc = d} = {}

LastHold(d) == ActiveHolds(d) = {}

\* release_legal_hold: does any active hold remain on the document?
ListActive(r) ==
  /\ pc[r] = "list"
  /\ \/ LastHold(call[r].doc) /\ Advance(r, snap[r], "reread")
     \/ ~LastHold(call[r].doc) /\ Finish(r)
  /\ UNCHANGED <<docs, holds, policies, now, trail>>

\* None remains: read the document to clear its flag. It may belong to another
\* tenant than the caller, who then gets 404, the hold being released already.
Reread(r) ==
  LET d == call[r].doc
  IN  /\ pc[r] = "reread"
      /\ \/ /\ Visible(d, call[r].tenant)
            /\ Advance(r, [docs[d] EXCEPT !.hold = FALSE], "write")
         \/ /\ ~Visible(d, call[r].tenant)
            /\ Abandon(r)
      /\ UNCHANGED <<docs, holds, policies, now, trail>>

\* Whether request r has committed something already.
Committed(r) ==
  \/ pc[r] \in {"version", "audit", "insert", "list", "reread"}
  \/ pc[r] = "write" /\ call[r].op \in {"upload", "release"}

\* A request dies between two transactions: an exception of the database, the
\* storage or the client, a cancelled task, the process killed.
Fail(r) ==
  /\ pc[r] # "idle"
  /\ \/ Committed(r) /\ Abandon(r)
     \/ ~Committed(r) /\ Finish(r)
  /\ UNCHANGED <<docs, holds, policies, now, trail>>

-----------------------------------------------------------------------------
(* Single-transaction operations and time *)

CreatePolicy(p) ==
  /\ p \notin policies
  /\ policies' = policies \cup {p}
  /\ UNCHANGED <<docs, holds, now, trail, pc, call, snap, history>>

Tick ==
  /\ now < MaxTime
  /\ now' = now + 1
  /\ UNCHANGED <<docs, holds, policies, trail, pc, call, snap, history>>

-----------------------------------------------------------------------------
(* Specification *)

Start(r) ==
  \/ \E d \in Docs, t \in Tenants :
       \/ \E p \in Policies \cup {None}, ti \in Titles : StartUpload(r, d, t, p, ti)
       \/ \E ti \in Titles : StartUpdate(r, d, t, ti)
       \/ \E purge \in BOOLEAN : StartDelete(r, d, t, purge)
       \/ StartRestore(r, d, t)
       \/ \E p \in Policies : StartApply(r, d, t, p)
       \/ \E h \in Holds : StartPlace(r, d, t, h)
  \/ \E h \in Holds, t \in Tenants : StartRelease(r, h, t)

Continue(r) ==
  \/ CreateVersion(r)
  \/ RefuseVersion(r)
  \/ CheckRetention(r)
  \/ RefuseRetention(r)
  \/ Write(r)
  \/ WriteAudit(r)
  \/ InsertHold(r)
  \/ ListActive(r)
  \/ Reread(r)

Next ==
  \/ \E r \in Reqs : Start(r) \/ Continue(r) \/ Fail(r)
  \/ \E p \in Policies : CreatePolicy(p)
  \/ Tick

Spec == Init /\ [][Next]_vars

\* The event loop resumes every request whose transaction has ended: a request
\* in progress goes on. Nothing obliges clients to send requests, or requests
\* to fail.
Fairness == \A r \in Reqs : WF_vars(Continue(r))

FairSpec == Spec /\ Fairness

-----------------------------------------------------------------------------
(* Safety *)

\* A document on which a legal hold is active carries the flag that blocks its
\* deletion, wherever a request stopped or died on the way. Place sets the flag
\* before the hold exists and release clears it after the hold has ended, so no
\* crash leaves a hold without its flag. Claimed for documents whose requests
\* never overlapped: the write-back of a stale copy can undo the flag.
HoldCovered ==
  \A d \in Docs \ contended : ActiveHolds(d) # {} => Exists(d) /\ docs[d].hold

\* Conversely the flag never blocks a document for nothing: a hold is active,
\* or the place or release that will settle the flag is still running, or such
\* a request was abandoned half way.
FlagJustified ==
  \A d \in Docs \ (contended \cup partial) :
    Exists(d) /\ docs[d].hold =>
      \/ ActiveHolds(d) # {}
      \/ \E r \in On(d) : call[r].op \in {"place", "release"}

\* The trail of document d records operation op, or a request is about to record it.
Told(d, op) ==
  \/ op \in trail[d].events
  \/ \E r \in On(d) : call[r].op = op /\ pc[r] = "audit"

\* A deletion leaves a trace under every interleaving: the trail of a DELETED
\* document records a deletion, or the deletion is about to record it, or a
\* request on the document was abandoned. Copies travel between requests, so a
\* row can be DELETED by a request that is not a delete at all.
DeletedAudited ==
  \A d \in Docs \ partial :
    Exists(d) /\ docs[d].status = "DELETED" => Told(d, "delete")

\* An upload whose version is refused leaves a document without content, and restore
\* makes any deleted document ACTIVE. That is the only way to an ACTIVE document that
\* has nothing to download, under every interleaving: its trail records a deletion and
\* a restoration, or they are about to be recorded, or a request was abandoned.
EmptyActiveTold ==
  \A d \in Docs \ partial :
    Exists(d) /\ docs[d].status = "ACTIVE" /\ ~docs[d].current =>
      Told(d, "delete") /\ Told(d, "restore")

\* Between requests, the audit trail and the row tell the same story: replaying
\* the recorded events gives the status the row has, and its title, unless none was
\* recorded because the upload was refused. A document without events is PROCESSING.
\* Operations that record nothing (holds, policies, refused uploads) must not disturb
\* this.
TrailMatchesRow ==
  \A d \in Docs \ (contended \cup partial) :
    Exists(d) /\ On(d) = {} =>
      trail[d].status = docs[d].status /\ trail[d].title \in {docs[d].title, None}

-----------------------------------------------------------------------------
(* Action properties *)

\* This step writes DELETED over another status of the document of request r.
Deletes(r) ==
  LET d == call[r].doc
  IN  /\ pc[r] = "write"
      /\ docs[d].status # "DELETED"
      /\ docs'[d].status = "DELETED"

\* The write that deletes a document still finds no active hold on it, unless
\* the caller asked for a privileged purge: the flag was judged transactions
\* earlier, but without overlap nothing can have moved since.
DeletionRespectsHold ==
  [][\A r \in Reqs :
       Deletes(r) /\ call[r].doc \notin contended =>
         call[r].purge \/ ActiveHolds(call[r].doc) = {}]_vars

\* Nor does it meet a retention policy that forbids it at the time of the write.
DeletionRespectsRetention ==
  [][\A r \in Reqs :
       Deletes(r) /\ call[r].doc \notin contended =>
         LET row == docs[call[r].doc]
         IN  \/ call[r].purge
             \/ row.policy = None
             \/ CanDelete(row.policy, row.created, now)]_vars

-----------------------------------------------------------------------------
(* Liveness *)

\* A flag that has outlived the document's holds is cleared in the end, or a
\* new hold takes it over, unless a request was abandoned or two overlapped.
FlagSettles ==
  \A d \in Docs :
    (Exists(d) /\ docs[d].hold /\ ActiveHolds(d) = {})
      ~> (Exists(d) /\ (~docs[d].hold \/ ActiveHolds(d) # {} \/ d \in contended \cup partial))

-----------------------------------------------------------------------------
(* The abstract register of legal holds *)

\* A privileged purge of document d is in progress.
Purging(d) == \E r \in On(d) : call[r].op = "delete" /\ call[r].purge

Entered(d) ==
  [held    |-> {h \in ActiveHolds(d) : d \notin contended},
   blocked |-> d \notin contended /\ Exists(d) /\ docs[d].hold,
   deleted |-> d \notin contended /\ Exists(d) /\ docs[d].status = "DELETED",
   purging |-> d \notin contended /\ Purging(d)]

Register == INSTANCE HoldRegister
  WITH register <- [d \in Docs |-> Entered(d)], loose <- contended

\* The requests, with all their transactions, copies and failures, do nothing that
\* the atomic register of holds does not do: no hold appears on an unblocked document,
\* no block goes while a hold is left, no blocked document is deleted but by a purge.
KeepsRegister == Register!Spec

-----------------------------------------------------------------------------
(* What the documentation says and the code does not do *)

\* README: "Legal holds block everything". A document on which a hold is active
\* is not deleted by an ordinary, non-purge request.
HoldsBlockDeletion ==
  [][\A r \in Reqs :
       Deletes(r) => call[r].purge \/ ActiveHolds(call[r].doc) = {}]_vars

\* README: "Upload legal documents (PDF, DOCX, TXT, images) with automatic envelope
\* encryption". An upload that is not abandoned leaves its document ACTIVE (or it has
\* been deleted, or another request has interfered): nothing stays PROCESSING.
UploadFinishes ==
  \A d \in Docs :
    (Exists(d) /\ docs[d].status = "PROCESSING")
      ~> (Exists(d) /\ (docs[d].status # "PROCESSING" \/ d \in contended \cup partial))
=============================================================================
