-------------------------- MODULE DocumentsProofs ---------------------------
(***************************************************************************)
(* Theorems about Documents, for every value of its constants.             *)
(*                                                                         *)
(* An action changes the tables, or the requests, or both. Each proof that *)
(* an invariant is kept treats the two halves apart: the lemmas say what   *)
(* Begin, Advance and Close do to the requests, and each action adds what  *)
(* it does to the tables.                                                  *)
(*                                                                         *)
(*   1. Types (TypeInv).                                                   *)
(*   2. Legal holds and retention policies protect documents whose         *)
(*      requests do not overlap (HoldInv): HoldCovered,                    *)
(*      DeletionRespectsHold and DeletionRespectsRetention.                *)
(*   3. Documents implements HoldRegister (RegisterInv).                   *)
(***************************************************************************)
EXTENDS Documents, TLAPS

-----------------------------------------------------------------------------
(* 1. TYPES *)

(* What a request in progress remembers fits the transaction it is at. TypeOK
   is not inductive without it: None is in the types of call and snap, and a
   request must not act on None. *)
Fits(c, s, at) ==
  /\ c \in Call
  /\ at \in {"version", "check", "write", "audit", "insert"} => s \in Row
  /\ at = "version" => c.op = "upload"
  /\ at = "check" => c.op = "delete" /\ s.policy # None
  /\ at = "audit" => c.op \in Audited
  /\ at = "insert" => c.op = "place"
  /\ at \in {"list", "reread"} => c.op = "release"
  /\ c.op = "place" => c.hold \in Holds

RequestOK(r) == pc[r] # "idle" => Fits(call[r], snap[r], pc[r]) /\ Exists(call[r].doc)

TablesOK ==
  /\ docs \in [Docs -> Row \cup {None}]
  /\ holds \in [Holds -> HoldRow \cup {None}]
  /\ policies \subseteq Policies
  /\ now \in 0 .. MaxTime
  /\ trail \in [Docs -> Trail]
  /\ \A h \in Holds : holds[h] # None => Exists(holds[h].doc)

TypeInv == TypeOK /\ TablesOK /\ \A r \in Reqs : RequestOK(r)

Untouched == UNCHANGED <<docs, holds, policies, now, trail>>

RowsStay == \A d \in Docs : Exists(d) => Exists(d)'

-----------------------------------------------------------------------------
(* What the building blocks of the actions do to the requests *)

LEMMA BeginTyped ==
  ASSUME TypeInv, NEW r \in Reqs, NEW c, NEW s \in Row \cup {None},
         NEW at \in Steps \ {"idle"},
         Begin(r, c, s, at), Fits(c, s, at), TablesOK', RowsStay, Exists(c.doc)'
  PROVE  TypeInv'
<1>1. /\ pc' \in [Reqs -> Steps]
      /\ call' \in [Reqs -> Call \cup {None}]
      /\ snap' \in [Reqs -> Row \cup {None}]
      /\ contended' \subseteq Docs
      /\ partial' \subseteq Docs
  BY DEF TypeInv, TypeOK, Begin, Fits, Call
<1>2. RequestOK(r)'
  BY DEF TypeInv, TypeOK, Begin, RequestOK
<1>3. ASSUME NEW q \in Reqs, q # r PROVE RequestOK(q)'
  <2>1. pc'[q] = pc[q] /\ call'[q] = call[q] /\ snap'[q] = snap[q]
    BY <1>3 DEF TypeInv, TypeOK, Begin
  <2>2. pc[q] # "idle" => Fits(call[q], snap[q], pc[q]) /\ Exists(call[q].doc)
    BY DEF TypeInv, RequestOK
  <2>3. pc[q] # "idle" => call[q].doc \in Docs
    BY <2>2 DEF Fits, Call
  <2>. QED
    BY <2>1, <2>2, <2>3 DEF RequestOK, RowsStay, Exists
<1>. QED
  BY <1>1, <1>2, <1>3 DEF TypeInv, TypeOK, TablesOK

LEMMA AdvanceTyped ==
  ASSUME TypeInv, NEW r \in Reqs, NEW s \in Row \cup {None},
         NEW at \in Steps \ {"idle"}, pc[r] # "idle",
         Advance(r, s, at), Fits(call[r], s, at), TablesOK', RowsStay
  PROVE  TypeInv'
<1>1. /\ pc' \in [Reqs -> Steps]
      /\ call' = call
      /\ snap' \in [Reqs -> Row \cup {None}]
      /\ contended' \subseteq Docs
      /\ partial' \subseteq Docs
  BY DEF TypeInv, TypeOK, Advance
<1>2. ASSUME NEW q \in Reqs PROVE RequestOK(q)'
  <2>1. pc[q] # "idle" => Fits(call[q], snap[q], pc[q]) /\ Exists(call[q].doc)
    BY DEF TypeInv, RequestOK
  <2>2. pc[q] # "idle" => call[q].doc \in Docs /\ Exists(call[q].doc)'
    BY <1>1, <2>1 DEF Fits, Call, RowsStay, Exists
  <2>3. CASE q = r
    BY <1>1, <2>2, <2>3 DEF RequestOK, TypeInv, TypeOK, Advance, Exists
  <2>4. CASE q # r
    <3>1. pc'[q] = pc[q] /\ call'[q] = call[q] /\ snap'[q] = snap[q]
      BY <2>4 DEF TypeInv, TypeOK, Advance
    <3>. QED
      BY <2>1, <2>2, <3>1 DEF RequestOK, Exists
  <2>. QED
    BY <2>3, <2>4
<1>. QED
  BY <1>1, <1>2 DEF TypeInv, TypeOK, TablesOK

LEMMA CloseTyped ==
  ASSUME TypeInv, NEW r \in Reqs, pc[r] # "idle",
         Finish(r) \/ Abandon(r), TablesOK', RowsStay
  PROVE  TypeInv'
<1>1. call[r].doc \in Docs
  BY DEF TypeInv, RequestOK, Fits, Call
<1>2. /\ pc' \in [Reqs -> Steps]
      /\ call' \in [Reqs -> Call \cup {None}]
      /\ snap' \in [Reqs -> Row \cup {None}]
      /\ contended' \subseteq Docs
      /\ partial' \subseteq Docs
      /\ pc'[r] = "idle"
  BY <1>1 DEF TypeInv, TypeOK, Finish, Abandon, Close, Steps
<1>3. ASSUME NEW q \in Reqs PROVE RequestOK(q)'
  <2>1. CASE q = r
    BY <1>2, <2>1 DEF RequestOK
  <2>2. CASE q # r
    <3>1. pc'[q] = pc[q] /\ call'[q] = call[q] /\ snap'[q] = snap[q]
      BY <2>2 DEF TypeInv, TypeOK, Finish, Abandon, Close
    <3>2. pc[q] # "idle" => Fits(call[q], snap[q], pc[q]) /\ Exists(call[q].doc)
      BY DEF TypeInv, RequestOK
    <3>3. pc[q] # "idle" => call[q].doc \in Docs
      BY <3>2 DEF Fits, Call
    <3>. QED
      BY <3>1, <3>2, <3>3 DEF RequestOK, RowsStay, Exists
  <2>. QED
    BY <2>1, <2>2
<1>. QED
  BY <1>2, <1>3 DEF TypeInv, TypeOK, TablesOK

LEMMA UntouchedTyped ==
  ASSUME TypeInv, Untouched
  PROVE  TablesOK' /\ RowsStay
  BY DEF TypeInv, TablesOK, Untouched, RowsStay, Exists

LEMMA RequestTyped ==
  ASSUME NEW op \in Ops, NEW d \in Docs, NEW t \in Tenants
  PROVE  /\ Request(op, d, t) \in Call
         /\ Request(op, d, t).op = op
         /\ Request(op, d, t).doc = d
         /\ Request(op, d, t).tenant = t
         /\ \A purge \in BOOLEAN : [Request(op, d, t) EXCEPT !.purge = purge] \in Call
         /\ \A h \in Holds : [Request(op, d, t) EXCEPT !.hold = h] \in Call
  BY DEF Request, Call

-----------------------------------------------------------------------------
(* Typing of the first transactions *)

LEMMA StartUploadTyped ==
  ASSUME TypeInv, NEW r \in Reqs, NEW d \in Docs, NEW t \in Tenants,
         NEW p \in Policies \cup {None}, NEW ti \in Titles,
         StartUpload(r, d, t, p, ti)
  PROVE  TypeInv'
<1>. DEFINE row == [tenant |-> t, status |-> "PROCESSING", current |-> FALSE,
                    policy |-> p, hold |-> FALSE, title |-> ti, created |-> now]
            c == Request("upload", d, t)
<1>1. row \in Row
  BY DEF Row, Status, TypeInv, TypeOK
<1>2. c \in Call /\ c.op = "upload" /\ c.doc = d
  BY RequestTyped DEF Ops
<1>3. Begin(r, c, row, "version")
  BY DEF StartUpload
<1>4. docs' = [docs EXCEPT ![d] = row] /\ UNCHANGED <<holds, policies, now, trail>>
  BY DEF StartUpload
<1>. HIDE DEF row, c
<1>5. row # None
  BY <1>1, NoneIsNothing
<1>6. RowsStay /\ Exists(d)'
  BY <1>4, <1>5 DEF RowsStay, Exists, TypeInv, TypeOK
<1>7. TablesOK'
  BY <1>1, <1>4, <1>6 DEF TablesOK, RowsStay, TypeInv, HoldRow, Exists
<1>8. Fits(c, row, "version")
  BY <1>1, <1>2 DEF Fits
<1>9. "version" \in Steps \ {"idle"}
  BY DEF Steps
<1>. QED
  BY <1>1, <1>2, <1>3, <1>6, <1>7, <1>8, <1>9, BeginTyped

LEMMA RowOfVisible ==
  ASSUME TypeInv, NEW d \in Docs, NEW t \in Tenants, Visible(d, t)
  PROVE  docs[d] \in Row /\ Exists(d)
  BY DEF TypeInv, TypeOK, Visible, Exists

(* The requests that read a row and keep a changed copy of it. *)
LEMMA StartReadTyped ==
  ASSUME TypeInv, NEW r \in Reqs, NEW d \in Docs, NEW t \in Tenants,
         \/ \E ti \in Titles : StartUpdate(r, d, t, ti)
         \/ \E purge \in BOOLEAN : StartDelete(r, d, t, purge)
         \/ StartRestore(r, d, t)
         \/ \E p \in Policies : StartApply(r, d, t, p)
         \/ \E h \in Holds : StartPlace(r, d, t, h)
  PROVE  TypeInv'
<1>1. Visible(d, t) /\ Untouched
  BY DEF StartUpdate, StartDelete, StartRestore, StartApply, StartPlace, Untouched
<1>2. docs[d] \in Row /\ Exists(d)
  BY <1>1, RowOfVisible
<1>3. TablesOK' /\ RowsStay /\ Exists(d)'
  BY <1>1, <1>2, UntouchedTyped DEF RowsStay
<1>4. "write" \in Steps \ {"idle"} /\ "check" \in Steps \ {"idle"}
  BY DEF Steps
<1>5. ASSUME NEW op \in Ops \ {"upload", "release", "place"} PROVE Request(op, d, t).op = op
  BY RequestTyped
<1>6. ASSUME NEW op \in {"update", "restore", "apply"}, NEW s \in Row,
             Begin(r, Request(op, d, t), s, "write")
      PROVE  TypeInv'
  <2>1. Request(op, d, t) \in Call /\ Request(op, d, t).op = op /\ Request(op, d, t).doc = d
    BY RequestTyped DEF Ops
  <2>2. Fits(Request(op, d, t), s, "write")
    BY <2>1 DEF Fits
  <2>. QED
    BY <1>3, <1>4, <1>6, <2>1, <2>2, BeginTyped
<1>7. ASSUME NEW ti \in Titles, StartUpdate(r, d, t, ti) PROVE TypeInv'
  <2>1. Edited(docs[d], ti) \in Row
    BY <1>2 DEF Edited, Row
  <2>. QED
    BY <1>6, <1>7, <2>1 DEF StartUpdate
<1>8. ASSUME NEW purge \in BOOLEAN, StartDelete(r, d, t, purge) PROVE TypeInv'
  <2>. DEFINE c == [Request("delete", d, t) EXCEPT !.purge = purge]
  <2>1. c \in Call /\ c.op = "delete" /\ c.doc = d
    BY RequestTyped DEF Ops, Request
  <2>2. SoftDeleted(docs[d]) \in Row
    BY <1>2 DEF SoftDeleted, Row, Status
  <2>3. \/ Begin(r, c, SoftDeleted(docs[d]), "write")
        \/ docs[d].policy # None /\ Begin(r, c, docs[d], "check")
    BY <1>8 DEF StartDelete
  <2>. HIDE DEF c
  <2>4. Fits(c, SoftDeleted(docs[d]), "write")
    BY <2>1, <2>2 DEF Fits
  <2>5. docs[d].policy # None => Fits(c, docs[d], "check")
    BY <1>2, <2>1 DEF Fits
  <2>. QED
    BY <1>2, <1>3, <1>4, <2>1, <2>2, <2>3, <2>4, <2>5, BeginTyped
<1>9. CASE StartRestore(r, d, t)
  <2>1. [docs[d] EXCEPT !.status = "ACTIVE"] \in Row
    BY <1>2 DEF Row, Status
  <2>. QED
    BY <1>6, <1>9, <2>1 DEF StartRestore
<1>10. ASSUME NEW p \in Policies, StartApply(r, d, t, p) PROVE TypeInv'
  <2>1. [docs[d] EXCEPT !.policy = p] \in Row
    BY <1>2 DEF Row
  <2>. QED
    BY <1>6, <1>10, <2>1 DEF StartApply
<1>11. ASSUME NEW h \in Holds, StartPlace(r, d, t, h) PROVE TypeInv'
  <2>. DEFINE c == [Request("place", d, t) EXCEPT !.hold = h]
              s == [docs[d] EXCEPT !.hold = TRUE]
  <2>1. c \in Call /\ c.op = "place" /\ c.doc = d /\ c.hold = h
    BY RequestTyped DEF Ops, Request
  <2>2. s \in Row
    BY <1>2 DEF Row
  <2>3. Begin(r, c, s, "write")
    BY <1>11 DEF StartPlace
  <2>. HIDE DEF c, s
  <2>4. Fits(c, s, "write")
    BY <2>1, <2>2 DEF Fits
  <2>. QED
    BY <1>3, <1>4, <2>1, <2>2, <2>3, <2>4, BeginTyped
<1>. QED
  BY <1>7, <1>8, <1>9, <1>10, <1>11

LEMMA StartReleaseTyped ==
  ASSUME TypeInv, NEW r \in Reqs, NEW h \in Holds, NEW t \in Tenants,
         StartRelease(r, h, t)
  PROVE  TypeInv'
<1>1. PICK d \in Docs : holds[h] \in HoldRow /\ holds[h].doc = d /\ Exists(d)
  BY DEF StartRelease, TypeInv, TypeOK, TablesOK, HoldRow
<1>. DEFINE c == [Request("release", d, t) EXCEPT !.hold = h]
<1>2. c \in Call /\ c.op = "release" /\ c.doc = d
  BY RequestTyped DEF Ops, Request
<1>3. Begin(r, c, None, "list") /\ "list" \in Steps \ {"idle"}
  BY <1>1 DEF StartRelease, Steps
<1>4. /\ [holds[h] EXCEPT !.active = FALSE] \in HoldRow
      /\ [holds[h] EXCEPT !.active = FALSE].doc = d
  BY <1>1 DEF HoldRow
<1>5. /\ holds' = [holds EXCEPT ![h] = [holds[h] EXCEPT !.active = FALSE]]
      /\ UNCHANGED <<docs, policies, now, trail>>
  BY DEF StartRelease
<1>6. RowsStay /\ Exists(d)'
  BY <1>1, <1>5 DEF RowsStay, Exists
<1>7. TablesOK'
  BY <1>1, <1>4, <1>5 DEF TablesOK, TypeInv, Exists
<1>. HIDE DEF c
<1>8. Fits(c, None, "list")
  BY <1>2 DEF Fits
<1>. QED
  BY <1>1, <1>2, <1>3, <1>6, <1>7, <1>8, BeginTyped

-----------------------------------------------------------------------------
(* Typing of the later transactions *)

LEMMA ContinueTyped ==
  ASSUME TypeInv, NEW r \in Reqs, Continue(r)
  PROVE  TypeInv'
<1>1. pc[r] # "idle"
  BY DEF Continue, CreateVersion, RefuseVersion, CheckRetention, RefuseRetention,
         Write, WriteAudit, InsertHold, ListActive, Reread
<1>2. Fits(call[r], snap[r], pc[r]) /\ Exists(call[r].doc)
  BY <1>1 DEF TypeInv, RequestOK
<1>3. PICK d \in Docs : call[r].doc = d
  BY <1>2 DEF Fits, Call
<1>4. {"write", "audit", "insert", "list", "reread"} \subseteq Steps \ {"idle"}
  BY DEF Steps
<1>5. snap[r] \in Row \cup {None}
  BY DEF TypeInv, TypeOK
<1>6. CASE CreateVersion(r)
  <2>. DEFINE s == [snap[r] EXCEPT !.status = "ACTIVE", !.current = TRUE]
  <2>1. s \in Row
    BY <1>2, <1>6 DEF CreateVersion, Fits, Row, Status
  <2>2. Advance(r, s, "write") /\ Untouched
    BY <1>6 DEF CreateVersion, Untouched
  <2>. HIDE DEF s
  <2>3. Fits(call[r], s, "write")
    BY <1>2, <2>1 DEF Fits
  <2>. QED
    BY <1>1, <1>4, <2>1, <2>2, <2>3, UntouchedTyped, AdvanceTyped
<1>7. CASE CheckRetention(r)
  <2>1. SoftDeleted(snap[r]) \in Row
    BY <1>2, <1>7 DEF CheckRetention, SoftDeleted, Fits, Row, Status
  <2>2. Advance(r, SoftDeleted(snap[r]), "write") /\ Untouched
    BY <1>7 DEF CheckRetention, Untouched
  <2>3. Fits(call[r], SoftDeleted(snap[r]), "write")
    BY <1>2, <2>1 DEF Fits
  <2>. QED
    BY <1>1, <1>4, <2>1, <2>2, <2>3, UntouchedTyped, AdvanceTyped
<1>8. CASE RefuseVersion(r) \/ RefuseRetention(r)
  BY <1>1, <1>8, UntouchedTyped, CloseTyped DEF RefuseVersion, RefuseRetention, Untouched
<1>9. CASE Write(r)
  <2>1. docs[d] \in Row /\ snap[r] \in Row
    BY <1>2, <1>3, <1>9 DEF Write, Fits, TypeInv, TypeOK, Exists
  <2>2. Written(docs[d], snap[r]) \in Row
    BY <2>1 DEF Written, Row
  <2>3. docs' = [docs EXCEPT ![d] = Written(docs[d], snap[r])]
        /\ UNCHANGED <<holds, policies, now, trail>>
    BY <1>3, <1>9 DEF Write
  <2>4. Written(docs[d], snap[r]) # None
    BY <2>2, NoneIsNothing
  <2>5. RowsStay
    BY <2>3, <2>4 DEF RowsStay, Exists, TypeInv, TypeOK
  <2>6. TablesOK'
    BY <2>2, <2>3, <2>5 DEF TablesOK, RowsStay, TypeInv, HoldRow, Exists
  <2>7. CASE Finish(r)
    BY <1>1, <2>5, <2>6, <2>7, CloseTyped
  <2>8. CASE call[r].op \in Audited \cup {"place"} /\ Advance(r, snap[r], AfterWrite(call[r].op))
    <3>1. Fits(call[r], snap[r], AfterWrite(call[r].op))
      BY <1>2, <2>1, <2>8 DEF Fits, AfterWrite, Audited
    <3>2. AfterWrite(call[r].op) \in Steps \ {"idle"}
      BY <1>4 DEF AfterWrite
    <3>. QED
      BY <1>1, <1>5, <2>5, <2>6, <2>8, <3>1, <3>2, AdvanceTyped
  <2>. QED
    BY <1>9, <2>7, <2>8 DEF Write
<1>10. CASE WriteAudit(r)
  <2>1. snap[r] \in Row /\ call[r].op \in Audited
    BY <1>2, <1>10 DEF WriteAudit, Fits
  <2>2. trail[d] \in Trail
    BY DEF TypeInv, TypeOK
  <2>3. Recorded(trail[d], call[r], snap[r]) \in Trail
    BY <2>1, <2>2 DEF Recorded, Trail, Row
  <2>4. /\ trail' = [trail EXCEPT ![d] = Recorded(trail[d], call[r], snap[r])]
        /\ UNCHANGED <<docs, holds, policies, now>>
    BY <1>3, <1>10 DEF WriteAudit
  <2>5. TablesOK' /\ RowsStay
    BY <2>3, <2>4 DEF TablesOK, TypeInv, RowsStay, Exists
  <2>. QED
    BY <1>1, <1>10, <2>5, CloseTyped DEF WriteAudit
<1>11. CASE InsertHold(r)
  <2>1. PICK h \in Holds : call[r].hold = h
    BY <1>2, <1>11 DEF InsertHold, Fits
  <2>2. [doc |-> d, active |-> TRUE] \in HoldRow
    BY DEF HoldRow
  <2>3. /\ holds' = [holds EXCEPT ![h] = [doc |-> d, active |-> TRUE]]
        /\ UNCHANGED <<docs, policies, now, trail>>
    BY <1>3, <1>11, <2>1 DEF InsertHold
  <2>4. TablesOK' /\ RowsStay
    BY <1>2, <1>3, <2>2, <2>3 DEF TablesOK, TypeInv, RowsStay, Exists
  <2>. QED
    BY <1>1, <1>11, <2>4, CloseTyped DEF InsertHold
<1>12. CASE ListActive(r)
  <2>1. TablesOK' /\ RowsStay
    BY <1>12, UntouchedTyped DEF ListActive, Untouched
  <2>2. Fits(call[r], snap[r], "reread")
    BY <1>2, <1>12 DEF ListActive, Fits
  <2>. QED
    BY <1>1, <1>4, <1>5, <1>12, <2>1, <2>2, AdvanceTyped, CloseTyped DEF ListActive
<1>13. CASE Reread(r)
  <2>. DEFINE s == [docs[d] EXCEPT !.hold = FALSE]
  <2>1. TablesOK' /\ RowsStay
    BY <1>13, UntouchedTyped DEF Reread, Untouched
  <2>2. s \in Row
    BY <1>2, <1>3 DEF Row, TypeInv, TypeOK, Exists
  <2>3. Advance(r, s, "write") \/ Abandon(r)
    BY <1>3, <1>13 DEF Reread
  <2>. HIDE DEF s
  <2>4. Fits(call[r], s, "write")
    BY <1>2, <1>13, <2>2 DEF Reread, Fits
  <2>. QED
    BY <1>1, <1>4, <2>1, <2>2, <2>3, <2>4, AdvanceTyped, CloseTyped
<1>. QED
  BY <1>6, <1>7, <1>8, <1>9, <1>10, <1>11, <1>12, <1>13 DEF Continue

-----------------------------------------------------------------------------
(* The theorem *)

LEMMA TypeInvInit == Init => TypeInv
<1>. SUFFICES ASSUME Init PROVE TypeInv
  OBVIOUS
<1>1. TypeOK
  BY MaxTimeAssumption DEF Init, TypeOK, Trail, Status, Steps
<1>2. TablesOK
  BY <1>1 DEF Init, TypeOK, TablesOK
<1>3. \A r \in Reqs : RequestOK(r)
  BY DEF Init, RequestOK
<1>. QED
  BY <1>1, <1>2, <1>3 DEF TypeInv

LEMMA TypeInvStep == TypeInv /\ [Next]_vars => TypeInv'
<1>. SUFFICES ASSUME TypeInv, [Next]_vars PROVE TypeInv'
  OBVIOUS
<1>1. ASSUME NEW r \in Reqs, Start(r) PROVE TypeInv'
  BY <1>1, StartUploadTyped, StartReadTyped, StartReleaseTyped DEF Start
<1>2. ASSUME NEW r \in Reqs, Continue(r) PROVE TypeInv'
  BY <1>2, ContinueTyped
<1>3. ASSUME NEW r \in Reqs, Fail(r) PROVE TypeInv'
  BY <1>3, UntouchedTyped, CloseTyped DEF Fail, Untouched
<1>4. CASE \/ \E p \in Policies : CreatePolicy(p)
           \/ Tick
           \/ UNCHANGED vars
  <2>1. UNCHANGED <<docs, holds, trail, pc, call, snap, contended, partial>>
    BY <1>4 DEF CreatePolicy, Tick, vars, history
  <2>2. policies' \subseteq Policies /\ now' \in 0 .. MaxTime
    BY <1>4, MaxTimeAssumption DEF CreatePolicy, Tick, vars, TypeInv, TypeOK
  <2>3. TypeOK' /\ TablesOK'
    BY <2>1, <2>2 DEF TypeInv, TypeOK, TablesOK, Exists
  <2>4. \A r \in Reqs : RequestOK(r)'
    BY <2>1 DEF TypeInv, RequestOK, Exists
  <2>. QED
    BY <2>3, <2>4 DEF TypeInv
<1>. QED
  BY <1>1, <1>2, <1>3, <1>4 DEF Next

THEOREM TypingHolds == Spec => []TypeInv
<1>. QED
  BY TypeInvInit, TypeInvStep, PTL DEF Spec

(* Every variable always keeps its type, however requests interleave and fail. *)
THEOREM TypeCorrect == Spec => []TypeOK
<1>1. TypeInv => TypeOK
  BY DEF TypeInv
<1>. QED
  BY <1>1, TypingHolds, PTL

-----------------------------------------------------------------------------
(* 2. LEGAL HOLDS AND RETENTION *)

(* None of the three properties is inductive. What makes them true is that the
   one request on a document that is not contended (Alone) works on a copy that
   still agrees with the row, and that what it has checked still holds (Fresh). *)

Alone ==
  \A r, q \in Reqs :
    /\ pc[r] # "idle" /\ pc[q] # "idle"
    /\ call[r].doc = call[q].doc /\ call[r].doc \notin contended
    => r = q

\* The copy of c agrees with row, except for what the request is to change.
Agrees(c, copy, row) ==
  /\ copy.created = row.created
  /\ c.op \notin {"place", "release"} => copy.hold = row.hold
  /\ c.op # "apply" => copy.policy = row.policy
  /\ c.op \notin {"upload", "delete", "restore"} => copy.status = row.status

\* What request r relies on when its transaction begins.
Relies(c, copy, at, row, active) ==
  /\ at \in {"version", "check", "write"} => Agrees(c, copy, row)
  /\ at = "write" /\ c.op = "place" => copy.hold
  /\ at = "insert" => row.hold
  /\ at \in {"reread", "write"} /\ c.op = "release" => active = {}
  /\ at \in {"check", "write"} /\ c.op = "delete" => HoldPermits(copy, c.purge)
  /\ at = "write" /\ c.op = "delete" =>
       copy.policy = None \/ RetentionPermits(copy, c.purge)
  /\ at = "write" /\ c.op \in {"upload", "restore"} => copy.status = "ACTIVE"

Fresh(r) ==
  pc[r] # "idle" /\ call[r].doc \notin contended =>
    Relies(call[r], snap[r], pc[r], docs[call[r].doc], ActiveHolds(call[r].doc))

Covered(d) ==
  d \notin contended => (ActiveHolds(d) # {} => Exists(d) /\ docs[d].hold)

HoldInv == TypeInv /\ Alone /\ (\A r \in Reqs : Fresh(r)) /\ \A d \in Docs : Covered(d)

-----------------------------------------------------------------------------
(* A step of request r, which is about document e, leaves the rest alone *)

StepOf(r, e) ==
  /\ \A q \in Reqs \ {r} : pc'[q] = pc[q] /\ call'[q] = call[q] /\ snap'[q] = snap[q]
  /\ \A q \in Reqs \ {r} : pc[q] # "idle" /\ call[q].doc = e => e \in contended'
  /\ pc'[r] # "idle" => call'[r].doc = e
  /\ contended \subseteq contended'
  /\ \A d \in Docs \ {e} : docs'[d] = docs[d] /\ ActiveHolds(d)' \subseteq ActiveHolds(d)
  /\ now' = now

LEMMA StepKeeps ==
  ASSUME HoldInv, NEW r \in Reqs, NEW e \in Docs, StepOf(r, e),
         TypeInv', Fresh(r)', Covered(e)'
  PROVE  HoldInv'
<1>1. Alone'
  BY DEF HoldInv, Alone, StepOf
<1>2. ASSUME NEW q \in Reqs, q # r, pc[q] # "idle", call[q].doc \notin contended'
      PROVE  Relies(call[q], snap[q], pc[q], docs[call[q].doc], ActiveHolds(call[q].doc))'
  <2>1. PICK d \in Docs : call[q].doc = d
    BY <1>2 DEF HoldInv, TypeInv, RequestOK, Fits, Call
  <2>2. d # e /\ d \notin contended
    BY <1>2, <2>1 DEF StepOf
  <2>3. Relies(call[q], snap[q], pc[q], docs[d], ActiveHolds(d))
    BY <1>2, <2>1, <2>2 DEF HoldInv, Fresh
  <2>4. /\ docs'[d] = docs[d] /\ ActiveHolds(d)' \subseteq ActiveHolds(d) /\ now' = now
        /\ pc'[q] = pc[q] /\ call'[q] = call[q] /\ snap'[q] = snap[q]
    BY <1>2, <2>2 DEF StepOf
  <2>5. ActiveHolds(d) = {} => ActiveHolds(d)' = {}
    BY <2>4
  <2>6. ActiveHolds(call[q].doc)' = ActiveHolds(d)'
    BY <2>1, <2>4
  <2>. QED
    BY <2>1, <2>3, <2>4, <2>5, <2>6 DEF Relies, RetentionPermits, Agrees, HoldPermits
<1>3. \A q \in Reqs : Fresh(q)'
  BY <1>2 DEF Fresh, StepOf
<1>4. \A d \in Docs : Covered(d)'
  BY DEF HoldInv, Covered, StepOf, Exists
<1>. QED
  BY <1>1, <1>3, <1>4 DEF HoldInv

\* How the tables may change around document e.
TablesOnly(e) ==
  /\ \A d \in Docs \ {e} : docs'[d] = docs[d] /\ ActiveHolds(d)' \subseteq ActiveHolds(d)
  /\ now' = now

LEMMA BeginSteps ==
  ASSUME HoldInv, NEW r \in Reqs, NEW c \in Call, NEW s, NEW at \in Steps,
         Begin(r, c, s, at), TablesOnly(c.doc)
  PROVE  StepOf(r, c.doc) /\ pc'[r] = at /\ call'[r] = c /\ snap'[r] = s
<1>1. /\ pc'[r] = at /\ call'[r] = c /\ snap'[r] = s
      /\ \A q \in Reqs \ {r} : pc'[q] = pc[q] /\ call'[q] = call[q] /\ snap'[q] = snap[q]
      /\ contended \subseteq contended'
  BY DEF HoldInv, TypeInv, TypeOK, Begin
<1>2. ASSUME NEW q \in Reqs, pc[q] # "idle", call[q].doc = c.doc
      PROVE  c.doc \in contended'
  BY <1>2 DEF Begin, On
<1>. QED
  BY <1>1, <1>2 DEF StepOf, TablesOnly

\* A request in progress is alone on its document, or the document is contended.
LEMMA GoesOnSteps ==
  ASSUME HoldInv, NEW r \in Reqs, pc[r] # "idle", NEW e \in Docs, call[r].doc = e,
         TablesOnly(e),
         \/ Finish(r) \/ Abandon(r)
         \/ \E s \in Row \cup {None}, at \in Steps : Advance(r, s, at)
  PROVE  StepOf(r, e)
<1>1. /\ \A q \in Reqs \ {r} : pc'[q] = pc[q] /\ call'[q] = call[q] /\ snap'[q] = snap[q]
      /\ contended' = contended
      /\ pc'[r] # "idle" => call'[r].doc = e
  BY DEF HoldInv, TypeInv, TypeOK, Advance, Finish, Abandon, Close
<1>2. ASSUME NEW q \in Reqs \ {r}, pc[q] # "idle", call[q].doc = e PROVE e \in contended
  BY <1>2 DEF HoldInv, Alone
<1>. QED
  BY <1>1, <1>2 DEF StepOf, TablesOnly

LEMMA Close_Fresh ==
  ASSUME TypeInv, NEW r \in Reqs, Finish(r) \/ Abandon(r)
  PROVE  Fresh(r)'
  BY DEF TypeInv, TypeOK, Fresh, Finish, Abandon, Close

LEMMA UntouchedTables ==
  ASSUME HoldInv, NEW e \in Docs, Untouched
  PROVE  /\ TablesOnly(e)
         /\ docs' = docs /\ ActiveHolds(e)' = ActiveHolds(e) /\ now' = now
         /\ contended \subseteq contended' => Covered(e)'
  BY DEF HoldInv, Untouched, TablesOnly, Covered, ActiveHolds, Exists

-----------------------------------------------------------------------------
(* First transactions *)

\* A request that only reads: what it relies on is true of the row it has read.
LEMMA StartReadHolds ==
  ASSUME HoldInv, TypeInv', NEW r \in Reqs, NEW c \in Call, NEW s,
         NEW at \in Steps, Begin(r, c, s, at), Untouched,
         Relies(c, s, at, docs[c.doc], ActiveHolds(c.doc))
  PROVE  HoldInv'
<1>1. PICK e \in Docs : c.doc = e
  BY DEF Call
<1>2. TablesOnly(e) /\ docs' = docs /\ ActiveHolds(e)' = ActiveHolds(e) /\ now' = now
  BY UntouchedTables
<1>3. StepOf(r, e) /\ pc'[r] = at /\ call'[r] = c /\ snap'[r] = s
  BY <1>1, <1>2, BeginSteps
<1>4. Covered(e)'
  BY <1>3, UntouchedTables DEF StepOf
<1>5. Relies(c, s, at, docs[e], ActiveHolds(e))'
  BY <1>1, <1>2 DEF Relies, RetentionPermits, Agrees, HoldPermits
<1>6. ActiveHolds(call[r].doc)' = ActiveHolds(e)'
  BY <1>1, <1>3
<1>7. Fresh(r)'
  BY <1>1, <1>3, <1>5, <1>6 DEF Fresh, Relies, RetentionPermits, Agrees, HoldPermits
<1>. QED
  BY <1>3, <1>4, <1>7, StepKeeps

LEMMA StartHolds ==
  ASSUME HoldInv, TypeInv', NEW r \in Reqs, NEW d \in Docs, NEW t \in Tenants,
         \/ \E ti \in Titles : StartUpdate(r, d, t, ti)
         \/ \E purge \in BOOLEAN : StartDelete(r, d, t, purge)
         \/ StartRestore(r, d, t)
         \/ \E p \in Policies : StartApply(r, d, t, p)
         \/ \E h \in Holds : StartPlace(r, d, t, h)
  PROVE  HoldInv'
<1>1. Visible(d, t) /\ Untouched
  BY DEF StartUpdate, StartDelete, StartRestore, StartApply, StartPlace, Untouched
<1>2. docs[d] \in Row
  BY <1>1, RowOfVisible DEF HoldInv
<1>3. {"write", "check"} \subseteq Steps
  BY DEF Steps
<1>4. ASSUME NEW op \in {"update", "restore", "apply"}
      PROVE  Request(op, d, t) \in Call /\ Request(op, d, t).op = op
             /\ Request(op, d, t).doc = d
  BY RequestTyped DEF Ops
<1>5. ASSUME NEW ti \in Titles, StartUpdate(r, d, t, ti) PROVE HoldInv'
  <2>. DEFINE c == Request("update", d, t)
  <2>1. Relies(c, Edited(docs[d], ti), "write", docs[d], ActiveHolds(d))
    BY <1>2, <1>4 DEF Relies, Agrees, Edited, Row
  <2>. QED
    BY <1>1, <1>3, <1>4, <1>5, <2>1, StartReadHolds DEF StartUpdate
<1>6. ASSUME NEW purge \in BOOLEAN, StartDelete(r, d, t, purge) PROVE HoldInv'
  <2>. DEFINE c == [Request("delete", d, t) EXCEPT !.purge = purge]
  <2>1. c \in Call /\ c.op = "delete" /\ c.doc = d /\ c.purge = purge
    BY RequestTyped DEF Ops, Request
  <2>2. /\ HoldPermits(docs[d], purge)
        /\ \/ docs[d].policy = None /\ Begin(r, c, SoftDeleted(docs[d]), "write")
           \/ Begin(r, c, docs[d], "check")
    BY <1>6 DEF StartDelete
  <2>. HIDE DEF c
  <2>3. Relies(c, docs[d], "check", docs[d], ActiveHolds(d))
    BY <2>1, <2>2 DEF Relies, Agrees, HoldPermits
  <2>4. docs[d].policy = None =>
          Relies(c, SoftDeleted(docs[d]), "write", docs[d], ActiveHolds(d))
    BY <1>2, <2>1, <2>2 DEF Relies, Agrees, HoldPermits, SoftDeleted, Row
  <2>. QED
    BY <1>1, <1>3, <2>1, <2>2, <2>3, <2>4, StartReadHolds
<1>7. CASE StartRestore(r, d, t)
  <2>. DEFINE c == Request("restore", d, t)
              s == [docs[d] EXCEPT !.status = "ACTIVE"]
  <2>1. Relies(c, s, "write", docs[d], ActiveHolds(d))
    BY <1>2, <1>4 DEF Relies, Agrees, Row
  <2>. QED
    BY <1>1, <1>3, <1>4, <1>7, <2>1, StartReadHolds DEF StartRestore
<1>8. ASSUME NEW p \in Policies, StartApply(r, d, t, p) PROVE HoldInv'
  <2>. DEFINE c == Request("apply", d, t)
              s == [docs[d] EXCEPT !.policy = p]
  <2>1. Relies(c, s, "write", docs[d], ActiveHolds(d))
    BY <1>2, <1>4 DEF Relies, Agrees, Row
  <2>. QED
    BY <1>1, <1>3, <1>4, <1>8, <2>1, StartReadHolds DEF StartApply
<1>9. ASSUME NEW h \in Holds, StartPlace(r, d, t, h) PROVE HoldInv'
  <2>. DEFINE c == [Request("place", d, t) EXCEPT !.hold = h]
              s == [docs[d] EXCEPT !.hold = TRUE]
  <2>1. c \in Call /\ c.op = "place" /\ c.doc = d
    BY RequestTyped DEF Ops, Request
  <2>2. Begin(r, c, s, "write")
    BY <1>9 DEF StartPlace
  <2>3. s.hold /\ s.created = docs[d].created /\ s.policy = docs[d].policy
        /\ s.status = docs[d].status
    BY <1>2 DEF Row
  <2>. HIDE DEF c, s
  <2>4. Relies(c, s, "write", docs[d], ActiveHolds(d))
    BY <2>1, <2>3 DEF Relies, Agrees
  <2>. QED
    BY <1>1, <1>3, <2>1, <2>2, <2>4, StartReadHolds
<1>. QED
  BY <1>5, <1>6, <1>7, <1>8, <1>9

LEMMA StartUploadHolds ==
  ASSUME HoldInv, TypeInv', NEW r \in Reqs, NEW d \in Docs, NEW t \in Tenants,
         NEW p \in Policies \cup {None}, NEW ti \in Titles,
         StartUpload(r, d, t, p, ti)
  PROVE  HoldInv'
<1>. DEFINE row == [tenant |-> t, status |-> "PROCESSING", current |-> FALSE,
                    policy |-> p, hold |-> FALSE, title |-> ti, created |-> now]
            c == Request("upload", d, t)
<1>1. c \in Call /\ c.op = "upload" /\ c.doc = d /\ "version" \in Steps
  BY RequestTyped DEF Ops, Steps
<1>2. Begin(r, c, row, "version")
  BY DEF StartUpload
<1>3. docs' = [docs EXCEPT ![d] = row] /\ UNCHANGED <<holds, policies, now, trail>>
  BY DEF StartUpload
<1>4. ActiveHolds(d) = {}
  BY DEF StartUpload, ActiveHolds, HoldInv, TypeInv, TablesOK
<1>. HIDE DEF row, c
<1>5. docs'[d] = row
  BY <1>3 DEF HoldInv, TypeInv, TypeOK
<1>6. TablesOnly(d) /\ ActiveHolds(d)' = ActiveHolds(d)
  BY <1>3 DEF TablesOnly, ActiveHolds, HoldInv, TypeInv, TypeOK
<1>7. StepOf(r, d) /\ pc'[r] = "version" /\ call'[r] = c /\ snap'[r] = row
  BY <1>1, <1>2, <1>6, BeginSteps
<1>8. Covered(d)'
  BY <1>4, <1>6 DEF Covered
<1>9. Fresh(r)'
  BY <1>1, <1>5, <1>7 DEF Fresh, Relies, Agrees
<1>. QED
  BY <1>7, <1>8, <1>9, StepKeeps

LEMMA StartReleaseHolds ==
  ASSUME HoldInv, TypeInv', NEW r \in Reqs, NEW h \in Holds, NEW t \in Tenants,
         StartRelease(r, h, t)
  PROVE  HoldInv'
<1>1. PICK e \in Docs : holds[h] \in HoldRow /\ holds[h].doc = e
  BY DEF StartRelease, HoldInv, TypeInv, TypeOK, HoldRow
<1>. DEFINE c == [Request("release", e, t) EXCEPT !.hold = h]
<1>2. c \in Call /\ c.op = "release" /\ c.doc = e /\ "list" \in Steps
  BY RequestTyped DEF Ops, Request, Steps
<1>3. Begin(r, c, None, "list")
  BY <1>1 DEF StartRelease
<1>4. /\ holds' = [holds EXCEPT ![h] = [holds[h] EXCEPT !.active = FALSE]]
      /\ UNCHANGED <<docs, policies, now, trail>>
  BY DEF StartRelease
<1>. HIDE DEF c
<1>5. \A d \in Docs : ActiveHolds(d)' \subseteq ActiveHolds(d)
  BY <1>1, <1>4, NoneIsNothing DEF ActiveHolds, HoldInv, TypeInv, TypeOK, HoldRow
<1>6. TablesOnly(e)
  BY <1>4, <1>5 DEF TablesOnly
<1>7. StepOf(r, e) /\ pc'[r] = "list" /\ call'[r] = c
  BY <1>2, <1>3, <1>6, BeginSteps
<1>8. Covered(e)'
  BY <1>4, <1>5, <1>7 DEF Covered, HoldInv, StepOf, Exists
<1>9. Fresh(r)'
  BY <1>2, <1>7 DEF Fresh, Relies
<1>. QED
  BY <1>7, <1>8, <1>9, StepKeeps

-----------------------------------------------------------------------------
(* Later transactions *)

\* A transaction that changes no table and gives the request a new copy.
LEMMA AdvanceHolds ==
  ASSUME HoldInv, TypeInv', NEW r \in Reqs, pc[r] # "idle",
         NEW s \in Row \cup {None}, NEW at \in Steps, Advance(r, s, at), Untouched,
         call[r].doc \notin contended =>
           Relies(call[r], s, at, docs[call[r].doc], ActiveHolds(call[r].doc))
  PROVE  HoldInv'
<1>1. PICK e \in Docs : call[r].doc = e
  BY DEF HoldInv, TypeInv, RequestOK, Fits, Call
<1>2. TablesOnly(e) /\ docs' = docs /\ ActiveHolds(e)' = ActiveHolds(e) /\ now' = now
  BY UntouchedTables
<1>3. StepOf(r, e)
  BY <1>1, <1>2, GoesOnSteps
<1>4. Covered(e)'
  BY <1>3, UntouchedTables DEF StepOf
<1>5. pc'[r] = at /\ call' = call /\ snap'[r] = s /\ contended' = contended
  BY DEF Advance, HoldInv, TypeInv, TypeOK
<1>6. ActiveHolds(call[r].doc)' = ActiveHolds(e)
  BY <1>1, <1>2, <1>5
<1>7. Fresh(r)'
  BY <1>1, <1>2, <1>5, <1>6 DEF Fresh, Relies, RetentionPermits, Agrees, HoldPermits
<1>. QED
  BY <1>3, <1>4, <1>7, StepKeeps

\* A request that ends, or dies, without changing a table.
LEMMA CloseHolds ==
  ASSUME HoldInv, TypeInv', NEW r \in Reqs, pc[r] # "idle",
         Finish(r) \/ Abandon(r), Untouched
  PROVE  HoldInv'
<1>1. PICK e \in Docs : call[r].doc = e
  BY DEF HoldInv, TypeInv, RequestOK, Fits, Call
<1>2. StepOf(r, e)
  BY <1>1, UntouchedTables, GoesOnSteps
<1>3. Covered(e)'
  BY <1>2, UntouchedTables DEF StepOf
<1>4. Fresh(r)'
  BY Close_Fresh DEF HoldInv
<1>. QED
  BY <1>2, <1>3, <1>4, StepKeeps

LEMMA WriteHolds ==
  ASSUME HoldInv, TypeInv', NEW r \in Reqs, Write(r)
  PROVE  HoldInv'
<1>1. pc[r] = "write" /\ Fits(call[r], snap[r], "write") /\ Exists(call[r].doc)
  BY DEF Write, HoldInv, TypeInv, RequestOK
<1>2. PICK e \in Docs : call[r].doc = e
  BY <1>1 DEF Fits, Call
<1>3. docs[e] \in Row /\ snap[r] \in Row
  BY <1>1, <1>2 DEF Fits, HoldInv, TypeInv, TypeOK, Exists
<1>4. /\ docs' = [docs EXCEPT ![e] = Written(docs[e], snap[r])]
      /\ UNCHANGED <<holds, policies, now, trail>>
  BY <1>2 DEF Write
<1>5. docs'[e] = Written(docs[e], snap[r]) /\ \A d \in Docs : ActiveHolds(d)' = ActiveHolds(d)
  BY <1>4 DEF ActiveHolds, HoldInv, TypeInv, TypeOK
<1>6. TablesOnly(e)
  BY <1>4, <1>5 DEF TablesOnly, HoldInv, TypeInv, TypeOK
<1>7. Written(docs[e], snap[r]).hold = snap[r].hold
  BY <1>3 DEF Written, Row
<1>8. Exists(e)'
  BY <1>3, <1>5, NoneIsNothing DEF Exists, Written, Row, TypeInv, TypeOK
<1>9. AfterWrite(call[r].op) \in Steps
  BY DEF AfterWrite, Steps
<1>10. StepOf(r, e)
  BY <1>1, <1>2, <1>3, <1>6, <1>9, GoesOnSteps DEF Write
<1>11. Covered(e)'
  <2>. SUFFICES ASSUME e \notin contended, ActiveHolds(e) # {} PROVE docs'[e].hold
    BY <1>5, <1>8, <1>10 DEF Covered, StepOf
  <2>1. Relies(call[r], snap[r], "write", docs[e], ActiveHolds(e))
    BY <1>1, <1>2 DEF HoldInv, Fresh
  <2>2. docs[e].hold
    BY DEF HoldInv, Covered
  <2>3. snap[r].hold
    BY <2>1, <2>2 DEF Relies, Agrees
  <2>. QED
    BY <1>5, <1>7, <2>3
<1>12. Fresh(r)'
  <2>1. CASE Finish(r)
    BY <2>1, Close_Fresh DEF HoldInv
  <2>2. CASE Advance(r, snap[r], AfterWrite(call[r].op)) /\ call[r].op \in Audited \cup {"place"}
    <3>1. pc'[r] = AfterWrite(call[r].op) /\ call' = call /\ snap'[r] = snap[r]
          /\ contended' = contended
      BY <2>2 DEF Advance, HoldInv, TypeInv, TypeOK
    <3>2. CASE call[r].op = "place"
      <4>1. e \notin contended => snap[r].hold
        BY <1>1, <1>2, <3>2 DEF HoldInv, Fresh, Relies
      <4>. QED
        BY <1>2, <1>5, <1>7, <3>1, <3>2, <4>1 DEF Fresh, Relies, AfterWrite
    <3>3. CASE call[r].op # "place"
      BY <3>1, <3>3 DEF Fresh, Relies, AfterWrite
    <3>. QED
      BY <3>2, <3>3
  <2>. QED
    BY <2>1, <2>2 DEF Write
<1>. QED
  BY <1>10, <1>11, <1>12, StepKeeps

LEMMA InsertHoldHolds ==
  ASSUME HoldInv, TypeInv', NEW r \in Reqs, InsertHold(r)
  PROVE  HoldInv'
<1>1. pc[r] = "insert" /\ Fits(call[r], snap[r], "insert") /\ Exists(call[r].doc)
  BY DEF InsertHold, HoldInv, TypeInv, RequestOK
<1>2. PICK e \in Docs, h \in Holds : call[r].doc = e /\ call[r].hold = h
  BY <1>1 DEF Fits, Call
<1>3. /\ holds' = [holds EXCEPT ![h] = [doc |-> e, active |-> TRUE]]
      /\ UNCHANGED <<docs, policies, now, trail>>
  BY <1>2 DEF InsertHold
<1>4. TablesOnly(e)
  BY <1>3 DEF TablesOnly, ActiveHolds, HoldInv, TypeInv, TypeOK
<1>5. StepOf(r, e)
  BY <1>1, <1>2, <1>4, GoesOnSteps DEF InsertHold
<1>6. e \notin contended => docs[e].hold
  BY <1>1, <1>2 DEF HoldInv, Fresh, Relies
<1>7. Covered(e)'
  BY <1>1, <1>2, <1>3, <1>5, <1>6 DEF Covered, StepOf, Exists
<1>8. Fresh(r)'
  BY Close_Fresh DEF InsertHold, HoldInv
<1>. QED
  BY <1>5, <1>7, <1>8, StepKeeps

LEMMA WriteAuditHolds ==
  ASSUME HoldInv, TypeInv', NEW r \in Reqs, WriteAudit(r)
  PROVE  HoldInv'
<1>1. pc[r] = "audit" /\ Fits(call[r], snap[r], "audit")
  BY DEF WriteAudit, HoldInv, TypeInv, RequestOK
<1>2. PICK e \in Docs : call[r].doc = e
  BY <1>1 DEF Fits, Call
<1>3. UNCHANGED <<docs, holds, policies, now>> /\ Finish(r)
  BY DEF WriteAudit
<1>4. TablesOnly(e)
  BY <1>3 DEF TablesOnly, ActiveHolds
<1>5. StepOf(r, e)
  BY <1>1, <1>2, <1>3, <1>4, GoesOnSteps
<1>6. Covered(e)'
  BY <1>3, <1>5 DEF Covered, StepOf, HoldInv, ActiveHolds, Exists
<1>. QED
  BY <1>3, <1>5, <1>6, Close_Fresh, StepKeeps DEF HoldInv

LEMMA ContinueHolds ==
  ASSUME HoldInv, TypeInv', NEW r \in Reqs, Continue(r)
  PROVE  HoldInv'
<1>1. pc[r] # "idle"
  BY DEF Continue, CreateVersion, RefuseVersion, CheckRetention, RefuseRetention,
         Write, WriteAudit, InsertHold, ListActive, Reread
<1>2. Fits(call[r], snap[r], pc[r]) /\ Exists(call[r].doc)
  BY <1>1 DEF HoldInv, TypeInv, RequestOK
<1>3. PICK e \in Docs : call[r].doc = e
  BY <1>2 DEF Fits, Call
<1>4. {"write", "reread"} \subseteq Steps /\ snap[r] \in Row \cup {None}
  BY DEF Steps, HoldInv, TypeInv, TypeOK
<1>5. e \notin contended => Relies(call[r], snap[r], pc[r], docs[e], ActiveHolds(e))
  BY <1>1, <1>3 DEF HoldInv, Fresh
<1>6. CASE CreateVersion(r)
  <2>. DEFINE s == [snap[r] EXCEPT !.status = "ACTIVE", !.current = TRUE]
  <2>1. snap[r] \in Row /\ call[r].op = "upload" /\ pc[r] = "version"
    BY <1>2, <1>6 DEF CreateVersion, Fits
  <2>2. s \in Row /\ s.status = "ACTIVE" /\ s.hold = snap[r].hold
        /\ s.policy = snap[r].policy /\ s.created = snap[r].created
    BY <2>1 DEF Row, Status
  <2>3. Advance(r, s, "write") /\ Untouched
    BY <1>6 DEF CreateVersion, Untouched
  <2>. HIDE DEF s
  <2>4. e \notin contended => Relies(call[r], s, "write", docs[e], ActiveHolds(e))
    BY <1>5, <2>1, <2>2 DEF Relies, Agrees
  <2>. QED
    BY <1>1, <1>3, <1>4, <2>2, <2>3, <2>4, AdvanceHolds
<1>7. CASE CheckRetention(r)
  <2>. DEFINE s == SoftDeleted(snap[r])
  <2>1. snap[r] \in Row /\ call[r].op = "delete" /\ pc[r] = "check"
        /\ RetentionPermits(snap[r], call[r].purge)
    BY <1>2, <1>7 DEF CheckRetention, Fits
  <2>2. s \in Row /\ s.hold = snap[r].hold
        /\ s.policy = snap[r].policy /\ s.created = snap[r].created
    BY <2>1 DEF SoftDeleted, Row, Status
  <2>3. Advance(r, s, "write") /\ Untouched
    BY <1>7 DEF CheckRetention, Untouched
  <2>. HIDE DEF s
  <2>4. e \notin contended => Relies(call[r], s, "write", docs[e], ActiveHolds(e))
    BY <1>5, <2>1, <2>2 DEF Relies, Agrees, HoldPermits, RetentionPermits
  <2>. QED
    BY <1>1, <1>3, <1>4, <2>2, <2>3, <2>4, AdvanceHolds
<1>8. CASE RefuseVersion(r) \/ RefuseRetention(r)
  BY <1>1, <1>8, CloseHolds DEF RefuseVersion, RefuseRetention, Untouched
<1>9. CASE Write(r)
  BY <1>9, WriteHolds
<1>10. CASE WriteAudit(r)
  BY <1>10, WriteAuditHolds
<1>11. CASE InsertHold(r)
  BY <1>11, InsertHoldHolds
<1>12. CASE ListActive(r)
  <2>1. call[r].op = "release" /\ Untouched
    BY <1>2, <1>12 DEF ListActive, Fits, Untouched
  <2>2. CASE Finish(r)
    BY <1>1, <2>1, <2>2, CloseHolds
  <2>3. CASE LastHold(e) /\ Advance(r, snap[r], "reread")
    <3>1. Relies(call[r], snap[r], "reread", docs[e], ActiveHolds(e))
      BY <2>1, <2>3 DEF Relies, LastHold
    <3>. QED
      BY <1>1, <1>3, <1>4, <2>1, <2>3, <3>1, AdvanceHolds
  <2>. QED
    BY <1>3, <1>12, <2>2, <2>3 DEF ListActive
<1>13. CASE Reread(r)
  <2>. DEFINE s == [docs[e] EXCEPT !.hold = FALSE]
  <2>1. call[r].op = "release" /\ pc[r] = "reread" /\ Untouched
    BY <1>2, <1>13 DEF Reread, Fits, Untouched
  <2>2. s \in Row /\ s.created = docs[e].created /\ s.policy = docs[e].policy
        /\ s.status = docs[e].status
    <3>1. docs[e] \in Row
      BY <1>2, <1>3 DEF HoldInv, TypeInv, TypeOK, Exists
    <3>. QED
      BY <3>1 DEF Row
  <2>3. Advance(r, s, "write") \/ Abandon(r)
    BY <1>3, <1>13 DEF Reread
  <2>. HIDE DEF s
  <2>4. e \notin contended => Relies(call[r], s, "write", docs[e], ActiveHolds(e))
    BY <1>5, <2>1, <2>2 DEF Relies, Agrees
  <2>. QED
    BY <1>1, <1>3, <1>4, <2>1, <2>2, <2>3, <2>4, AdvanceHolds, CloseHolds
<1>. QED
  BY <1>6, <1>7, <1>8, <1>9, <1>10, <1>11, <1>12, <1>13 DEF Continue

-----------------------------------------------------------------------------
(* Time, and the invariant *)

\* A deletion that a policy permits stays permitted: time only moves on.
LEMMA PermittedStaysPermitted ==
  ASSUME NEW p \in Policy, NEW created \in Nat, NEW today \in Nat, NEW later \in Nat,
         today <= later, CanDelete(p, created, today)
  PROVE  CanDelete(p, created, later)
  BY DEF CanDelete, Expired, Expiry, Policy

LEMMA TickHolds ==
  ASSUME HoldInv, TypeInv', Tick
  PROVE  HoldInv'
<1>1. UNCHANGED <<docs, holds, policies, trail, pc, call, snap, contended, partial>>
      /\ now \in Nat /\ now' \in Nat /\ now <= now'
  BY DEF Tick, history, HoldInv, TypeInv, TypeOK
<1>2. \A d \in Docs : ActiveHolds(d)' = ActiveHolds(d)
  BY <1>1 DEF ActiveHolds
<1>3. ASSUME NEW r \in Reqs PROVE Fresh(r)'
  <2>. SUFFICES ASSUME pc[r] # "idle", call[r].doc \notin contended
                PROVE  Relies(call[r], snap[r], pc[r], docs[call[r].doc],
                              ActiveHolds(call[r].doc))'
    BY <1>1 DEF Fresh
  <2>1. PICK e \in Docs : call[r].doc = e
    BY DEF HoldInv, TypeInv, RequestOK, Fits, Call
  <2>2. Relies(call[r], snap[r], pc[r], docs[e], ActiveHolds(e))
    BY <2>1 DEF HoldInv, Fresh
  <2>3. ActiveHolds(call[r].doc)' = ActiveHolds(e)
    BY <1>1, <1>2, <2>1
  <2>4. ASSUME pc[r] = "write", snap[r].policy # None, RetentionPermits(snap[r], call[r].purge)
        PROVE  RetentionPermits(snap[r], call[r].purge)'
    <3>1. snap[r] \in Row
      BY <2>4 DEF HoldInv, TypeInv, RequestOK, Fits
    <3>2. snap[r].policy \in Policy /\ snap[r].created \in Nat
      BY <2>4, <3>1, PoliciesAssumption, MaxTimeAssumption DEF Row
    <3>. QED
      BY <1>1, <2>4, <3>2, PermittedStaysPermitted DEF RetentionPermits
  <2>. QED
    BY <1>1, <2>1, <2>2, <2>3, <2>4 DEF Relies, Agrees, HoldPermits
<1>4. Alone'
  BY <1>1 DEF HoldInv, Alone
<1>5. \A d \in Docs : Covered(d)'
  BY <1>1, <1>2 DEF HoldInv, Covered, Exists
<1>. QED
  BY <1>3, <1>4, <1>5 DEF HoldInv

LEMMA HoldInvInit == Init => HoldInv
<1>. SUFFICES ASSUME Init PROVE HoldInv
  OBVIOUS
<1>1. Alone /\ \A r \in Reqs : Fresh(r)
  BY DEF Init, Alone, Fresh
<1>2. \A d \in Docs : ActiveHolds(d) = {}
  BY DEF Init, ActiveHolds
<1>. QED
  BY <1>1, <1>2, TypeInvInit DEF HoldInv, Covered

LEMMA HoldInvStep == HoldInv /\ [Next]_vars => HoldInv'
<1>. SUFFICES ASSUME HoldInv, [Next]_vars PROVE HoldInv'
  OBVIOUS
<1>1. TypeInv'
  BY TypeInvStep DEF HoldInv
<1>2. ASSUME NEW r \in Reqs, Start(r) PROVE HoldInv'
  BY <1>1, <1>2, StartUploadHolds, StartHolds, StartReleaseHolds DEF Start
<1>3. ASSUME NEW r \in Reqs, Continue(r) PROVE HoldInv'
  BY <1>1, <1>3, ContinueHolds
<1>4. ASSUME NEW r \in Reqs, Fail(r) PROVE HoldInv'
  BY <1>1, <1>4, CloseHolds DEF Fail, Untouched
<1>5. CASE (\E p \in Policies : CreatePolicy(p)) \/ UNCHANGED vars
  <2>1. UNCHANGED <<docs, holds, now, pc, call, snap, contended>>
    BY <1>5 DEF CreatePolicy, vars, history
  <2>2. Alone' /\ \A d \in Docs : Covered(d)'
    BY <2>1 DEF HoldInv, Alone, Covered, ActiveHolds, Exists
  <2>3. ASSUME NEW r \in Reqs PROVE Fresh(r)'
    <3>1. ActiveHolds(call[r].doc)' = ActiveHolds(call[r].doc)
      BY <2>1 DEF ActiveHolds
    <3>. QED
      BY <2>1, <3>1 DEF HoldInv, Fresh, Relies, RetentionPermits, Agrees, HoldPermits
  <2>. QED
    BY <1>1, <2>2, <2>3 DEF HoldInv
<1>6. CASE Tick
  BY <1>1, <1>6, TickHolds
<1>. QED
  BY <1>2, <1>3, <1>4, <1>5, <1>6 DEF Next

THEOREM HoldInvariance == Spec => []HoldInv
<1>. QED
  BY HoldInvInit, HoldInvStep, PTL DEF Spec

(* A document on which a legal hold is active carries the flag that blocks its
   deletion, unless two requests have handled it at once: no order of requests
   and no request dying half way loses the flag. *)
THEOREM HoldsAreCovered == Spec => []HoldCovered
<1>1. HoldInv => HoldCovered
  BY DEF HoldInv, HoldCovered, Covered
<1>. QED
  BY <1>1, HoldInvariance, PTL

-----------------------------------------------------------------------------
(* Deletions *)

(* The step that turns a document DELETED is the write of the delete request on
   it, when no other request interferes. *)
LEMMA OnlyDeleteDeletes ==
  ASSUME HoldInv, [Next]_vars, NEW r \in Reqs, Deletes(r), call[r].doc \notin contended
  PROVE  call[r].op = "delete"
<1>1. pc[r] = "write" /\ Fits(call[r], snap[r], "write") /\ Exists(call[r].doc)
  BY DEF Deletes, HoldInv, TypeInv, RequestOK
<1>2. PICK e \in Docs : call[r].doc = e
  BY <1>1 DEF Fits, Call
<1>3. docs[e] \in Row /\ snap[r] \in Row
  BY <1>1, <1>2 DEF Fits, HoldInv, TypeInv, TypeOK, Exists
<1>4. docs'[e] # docs[e] /\ docs[e].status # "DELETED" /\ docs'[e].status = "DELETED"
  BY <1>2 DEF Deletes
<1>5. ASSUME NEW q \in Reqs, Start(q) PROVE FALSE
  <2>1. PICK d \in Docs, t \in Tenants, p \in Policies \cup {None}, ti \in Titles :
          StartUpload(q, d, t, p, ti)
    BY <1>4, <1>5 DEF Start, StartUpdate, StartDelete, StartRestore, StartApply,
                      StartPlace, StartRelease
  <2>2. d # e
    BY <1>1, <1>2, <2>1 DEF StartUpload
  <2>. QED
    BY <1>4, <2>1, <2>2 DEF StartUpload, HoldInv, TypeInv, TypeOK
<1>6. ASSUME NEW q \in Reqs, Continue(q), ~Write(q) PROVE docs' = docs
  BY <1>6 DEF Continue, CreateVersion, RefuseVersion, CheckRetention, RefuseRetention,
              WriteAudit, InsertHold, ListActive, Reread
<1>7. ASSUME NEW q \in Reqs, Fail(q) PROVE docs' = docs
  BY <1>7 DEF Fail
<1>8. ASSUME (\E p \in Policies : CreatePolicy(p)) \/ Tick \/ UNCHANGED vars PROVE docs' = docs
  BY <1>8 DEF CreatePolicy, Tick, vars
<1>9. PICK q \in Reqs : Write(q)
  BY <1>4, <1>5, <1>6, <1>7, <1>8 DEF Next
<1>10. pc[q] # "idle" /\ call[q].doc = e
  <2>1. pc[q] = "write" /\ docs' = [docs EXCEPT ![call[q].doc] = Written(@, snap[q])]
    BY <1>9 DEF Write
  <2>. QED
    BY <1>4, <2>1 DEF HoldInv, TypeInv, TypeOK
<1>11. q = r
  BY <1>1, <1>2, <1>10 DEF HoldInv, Alone
<1>12. docs'[e] = Written(docs[e], snap[r])
  BY <1>2, <1>9, <1>11 DEF Write, HoldInv, TypeInv, TypeOK
<1>13. snap[r].status = "DELETED"
  BY <1>3, <1>4, <1>12 DEF Written, Row
<1>14. Relies(call[r], snap[r], "write", docs[e], ActiveHolds(e))
  BY <1>1, <1>2 DEF HoldInv, Fresh
<1>. QED
  BY <1>4, <1>13, <1>14 DEF Relies, Agrees

(* The write that deletes a document finds no active hold on it, unless the
   caller asked for a privileged purge or two requests have overlapped. *)
THEOREM DeletionsRespectHolds == Spec => DeletionRespectsHold
<1>. DEFINE Safe == \A r \in Reqs : Deletes(r) /\ call[r].doc \notin contended =>
                      call[r].purge \/ ActiveHolds(call[r].doc) = {}
<1>1. HoldInv /\ [Next]_vars => [Safe]_vars
  <2>. SUFFICES ASSUME HoldInv, [Next]_vars, NEW r \in Reqs, Deletes(r),
                       call[r].doc \notin contended, ~call[r].purge
                PROVE  ActiveHolds(call[r].doc) = {}
    OBVIOUS
  <2>1. call[r].op = "delete"
    BY OnlyDeleteDeletes
  <2>2. pc[r] = "write" /\ call[r].doc \in Docs
    BY DEF Deletes, HoldInv, TypeInv, RequestOK, Fits, Call
  <2>3. Relies(call[r], snap[r], "write", docs[call[r].doc], ActiveHolds(call[r].doc))
    BY <2>2 DEF HoldInv, Fresh
  <2>4. ~docs[call[r].doc].hold
    BY <2>1, <2>3 DEF Relies, Agrees, HoldPermits
  <2>. QED
    BY <2>2, <2>4 DEF HoldInv, Covered
<1>. QED
  BY <1>1, HoldInvariance, PTL DEF Spec, DeletionRespectsHold

(* Nor does it meet a retention policy that forbids the deletion at the time of
   the write, under the same two conditions. *)
THEOREM DeletionsRespectRetention == Spec => DeletionRespectsRetention
<1>. DEFINE Safe == \A r \in Reqs : Deletes(r) /\ call[r].doc \notin contended =>
                      LET row == docs[call[r].doc]
                      IN  \/ call[r].purge
                          \/ row.policy = None
                          \/ CanDelete(row.policy, row.created, now)
<1>1. HoldInv /\ [Next]_vars => [Safe]_vars
  <2>. SUFFICES ASSUME HoldInv, [Next]_vars, NEW r \in Reqs, Deletes(r),
                       call[r].doc \notin contended, ~call[r].purge,
                       docs[call[r].doc].policy # None
                PROVE  CanDelete(docs[call[r].doc].policy, docs[call[r].doc].created, now)
    OBVIOUS
  <2>1. call[r].op = "delete"
    BY OnlyDeleteDeletes
  <2>2. Relies(call[r], snap[r], "write", docs[call[r].doc], ActiveHolds(call[r].doc))
    BY DEF Deletes, HoldInv, Fresh
  <2>. QED
    BY <2>1, <2>2 DEF Relies, Agrees, RetentionPermits
<1>. QED
  BY <1>1, HoldInvariance, PTL DEF Spec, DeletionRespectsRetention

-----------------------------------------------------------------------------
(* 3. THE REGISTER OF LEGAL HOLDS *)

(* A step of a request is about one document. The entries of the others stay. If
   requests overlap on it, its entry is given up; otherwise the request is alone
   on it, and HoldInv tells which atomic action of the register the step is, or
   that it is none. *)

\* A hold about to be inserted has an id of its own.
FreshIds ==
  /\ \A r \in Reqs : pc[r] # "idle" /\ call[r].op = "place" => holds[call[r].hold] = None
  /\ \A r, q \in Reqs :
       /\ pc[r] # "idle" /\ call[r].op = "place"
       /\ pc[q] # "idle" /\ call[q].op = "place"
       /\ call[r].hold = call[q].hold
       => r = q

RegisterInv == HoldInv /\ FreshIds

Entries == [d \in Docs |-> Entered(d)]

RegisterStep == Register!Next \/ UNCHANGED <<Entries, contended>>

-----------------------------------------------------------------------------
(* A step of request r about document e *)

StepAbout(r, e) ==
  /\ StepOf(r, e)
  /\ \A d \in Docs \ {e} : ActiveHolds(d)' = ActiveHolds(d)
  /\ contended' \subseteq contended \cup {e}
  /\ pc[r] # "idle" => call[r].doc = e

(* The entries of other documents stay. *)
LEMMA OneEntry ==
  ASSUME NEW r \in Reqs, NEW e \in Docs, StepAbout(r, e)
  PROVE  Entries' = [Entries EXCEPT ![e] = Entered(e)']
<1>1. ASSUME NEW d \in Docs \ {e} PROVE Entered(d)' = Entered(d)
  <2>1. docs'[d] = docs[d] /\ ActiveHolds(d)' = ActiveHolds(d)
        /\ (d \in contended' <=> d \in contended)
    BY DEF StepAbout, StepOf
  <2>2. ASSUME NEW q \in Reqs
        PROVE  /\ q \in On(d)' <=> q \in On(d)
               /\ q \in On(d) => call'[q] = call[q]
    BY DEF On, StepAbout, StepOf
  <2>3. Purging(d)' <=> Purging(d)
    BY <2>2 DEF Purging, On
  <2>. QED
    BY <2>1, <2>3 DEF Entered, Exists
<1>. QED
  BY <1>1 DEF Entries

(* Where requests overlap, the entry is given up, or was before. *)
LEMMA Loosens ==
  ASSUME NEW r \in Reqs, NEW e \in Docs, StepAbout(r, e), e \in contended'
  PROVE  RegisterStep
<1>1. Entered(e)' = Register!Blank
  BY DEF Entered, Register!Blank
<1>2. Entries' = [Entries EXCEPT ![e] = Register!Blank]
  BY <1>1, OneEntry
<1>3. CASE e \in contended
  <2>1. contended' = contended
    BY <1>3 DEF StepAbout, StepOf
  <2>2. Entries[e] = Register!Blank
    BY <1>3 DEF Entries, Entered, Register!Blank
  <2>3. Entries' = Entries
    BY <1>2, <2>2 DEF Entries
  <2>. QED
    BY <2>1, <2>3 DEF RegisterStep
<1>4. CASE e \notin contended
  <2>1. contended' = contended \cup {e}
    BY <1>4 DEF StepAbout, StepOf
  <2>2. Register!Loosen(e)
    BY <1>2, <1>4, <2>1 DEF Register!Loosen, Entries
  <2>. QED
    BY <2>2 DEF RegisterStep, Register!Next
<1>. QED
  BY <1>3, <1>4

(* What the entry of a document says whose requests do not overlap. *)
LEMMA EntrySays ==
  ASSUME NEW d \in Docs, d \notin contended
  PROVE  Entered(d) = [held    |-> ActiveHolds(d),
                       blocked |-> Exists(d) /\ docs[d].hold,
                       deleted |-> Exists(d) /\ docs[d].status = "DELETED",
                       purging |-> Purging(d)]
<1>1. {h \in ActiveHolds(d) : d \notin contended} = ActiveHolds(d)
  OBVIOUS
<1>2. (d \notin contended /\ Exists(d) /\ docs[d].hold) = (Exists(d) /\ docs[d].hold)
  OBVIOUS
<1>3. (d \notin contended /\ Exists(d) /\ docs[d].status = "DELETED")
        = (Exists(d) /\ docs[d].status = "DELETED")
  OBVIOUS
<1>4. (d \notin contended /\ Purging(d)) = Purging(d)
  BY DEF Purging
<1>. QED
  BY <1>1, <1>2, <1>3, <1>4, Zenon DEF Entered

\* The same in the next state.
LEMMA EntryWillSay ==
  ASSUME NEW d \in Docs, d \notin contended'
  PROVE  Entered(d)' = [held    |-> ActiveHolds(d)',
                        blocked |-> Exists(d)' /\ docs'[d].hold,
                        deleted |-> Exists(d)' /\ docs'[d].status = "DELETED",
                        purging |-> Purging(d)']
<1>1. {h \in ActiveHolds(d)' : d \notin contended'} = ActiveHolds(d)'
  OBVIOUS
<1>2. (d \notin contended' /\ Exists(d)' /\ docs'[d].hold) = (Exists(d)' /\ docs'[d].hold)
  OBVIOUS
<1>3. (d \notin contended' /\ Exists(d)' /\ docs'[d].status = "DELETED")
        = (Exists(d)' /\ docs'[d].status = "DELETED")
  OBVIOUS
<1>4. (d \notin contended' /\ Purging(d)') = Purging(d)'
  BY DEF Purging
<1>. QED
  BY <1>1, <1>2, <1>3, <1>4, Zenon DEF Entered

(* At most a purge begins or ends. *)
LEMMA PurgeRegisters ==
  ASSUME NEW r \in Reqs, NEW e \in Docs, StepAbout(r, e), e \notin contended,
         contended' = contended,
         Entered(e)' = [Entered(e) EXCEPT !.purging = Purging(e)']
  PROVE  RegisterStep
<1>1. Entries' = [Entries EXCEPT ![e] = [Entries[e] EXCEPT !.purging = Purging(e)']]
  BY OneEntry DEF Entries
<1>2. CASE Purging(e)'
  <2>1. Purging(e)' = TRUE
    BY <1>2 DEF Purging
  <2>2. Entries' = [Entries EXCEPT ![e] = [Entries[e] EXCEPT !.purging = TRUE]]
    BY <1>1, <2>1
  <2>3. Register!BeginPurge(e)
    BY <2>2 DEF Register!BeginPurge, Register!Becomes, Entries
  <2>. QED
    BY <2>3 DEF RegisterStep, Register!Next
<1>3. CASE ~Purging(e)'
  <2>1. Purging(e)' = FALSE
    BY <1>3 DEF Purging
  <2>2. Entries' = [Entries EXCEPT ![e] = [Entries[e] EXCEPT !.purging = FALSE]]
    BY <1>1, <2>1
  <2>3. Register!EndPurge(e)
    BY <2>2 DEF Register!EndPurge, Register!Becomes, Entries
  <2>. QED
    BY <2>3 DEF RegisterStep, Register!Next
<1>. QED
  BY <1>2, <1>3

-----------------------------------------------------------------------------
(* Purges *)

LEMMA PurgeBegins ==
  ASSUME HoldInv, NEW r \in Reqs, NEW c \in Call, NEW s, NEW at \in Steps \ {"idle"},
         Begin(r, c, s, at), c.doc \notin contended'
  PROVE  /\ c.doc \notin contended
         /\ ~Purging(c.doc)
         /\ Purging(c.doc)' <=> c.op = "delete" /\ c.purge
<1>1. c.doc \notin contended /\ On(c.doc) = {}
  BY DEF Begin
<1>2. /\ pc' = [pc EXCEPT ![r] = at] /\ call' = [call EXCEPT ![r] = c]
      /\ pc \in [Reqs -> Steps] /\ call \in [Reqs -> Call \cup {None}]
  BY DEF Begin, HoldInv, TypeInv, TypeOK
<1>3. pc'[r] = at /\ call'[r] = c
      /\ \A q \in Reqs \ {r} : pc'[q] = pc[q] /\ call'[q] = call[q]
  BY <1>2
<1>4. ASSUME NEW q \in Reqs PROVE q \in On(c.doc)' <=> q = r
  BY <1>1, <1>3 DEF On
<1>. QED
  BY <1>1, <1>3, <1>4 DEF Purging, On

LEMMA PurgeIs ==
  ASSUME HoldInv, NEW r \in Reqs, pc[r] # "idle", call[r].doc \notin contended
  PROVE  Purging(call[r].doc) <=> call[r].op = "delete" /\ call[r].purge
<1>1. ASSUME NEW q \in On(call[r].doc) PROVE q = r
  BY <1>1 DEF On, HoldInv, Alone
<1>. QED
  BY <1>1 DEF Purging, On

LEMMA PurgeGoesOn ==
  ASSUME HoldInv, NEW r \in Reqs, pc[r] # "idle", NEW s, NEW at \in Steps \ {"idle"},
         Advance(r, s, at), NEW d \in Docs
  PROVE  Purging(d)' <=> Purging(d)
<1>1. \A q \in Reqs : (pc'[q] # "idle" <=> pc[q] # "idle") /\ call'[q] = call[q]
  BY DEF Advance, HoldInv, TypeInv, TypeOK
<1>. QED
  BY <1>1 DEF Purging, On

LEMMA PurgeEnds ==
  ASSUME HoldInv, NEW r \in Reqs, pc[r] # "idle", Close(r), NEW d \in Docs,
         call[r].doc = d, d \notin contended
  PROVE  ~Purging(d)'
<1>1. pc'[r] = "idle" /\ \A q \in Reqs \ {r} : pc'[q] = pc[q] /\ call'[q] = call[q]
  BY DEF Close, HoldInv, TypeInv, TypeOK
<1>2. ASSUME NEW q \in Reqs \ {r} PROVE q \notin On(d)'
  BY <1>1, <1>2 DEF On, HoldInv, Alone
<1>3. r \notin On(d)'
  BY <1>1 DEF On
<1>. QED
  BY <1>2, <1>3 DEF Purging, On

-----------------------------------------------------------------------------
(* The steps that begin a request *)

(* A request begins and its transaction only reads. *)
LEMMA BeginRegisters ==
  ASSUME HoldInv, NEW r \in Reqs, NEW c \in Call, NEW s, NEW at \in Steps \ {"idle"},
         Begin(r, c, s, at), Untouched
  PROVE  RegisterStep
<1>1. PICK e \in Docs : c.doc = e
  BY DEF Call
<1>2. \A d \in Docs : ActiveHolds(d)' = ActiveHolds(d) /\ docs'[d] = docs[d]
  BY DEF Untouched, ActiveHolds
<1>3. StepAbout(r, e)
  <2>1. StepOf(r, e)
    BY <1>1, <1>2, BeginSteps DEF TablesOnly, Untouched
  <2>2. contended' \subseteq contended \cup {e} /\ pc[r] = "idle"
    BY <1>1 DEF Begin
  <2>. QED
    BY <1>2, <2>1, <2>2 DEF StepAbout
<1>4. CASE e \notin contended'
  <2>1. e \notin contended /\ ~Purging(e) /\ (Purging(e)' <=> c.op = "delete" /\ c.purge)
    BY <1>1, <1>4, PurgeBegins
  <2>2. contended' = contended
    BY <1>3, <1>4 DEF StepAbout, StepOf
  <2>3. Entered(e)' = [Entered(e) EXCEPT !.purging = Purging(e)']
    BY <1>2, <1>4, <2>1, EntrySays, EntryWillSay DEF Exists
  <2>. QED
    BY <1>3, <2>1, <2>2, <2>3, PurgeRegisters
<1>. QED
  BY <1>3, <1>4, Loosens

(* An upload enters a document on which there is nothing. *)
LEMMA UploadRegisters ==
  ASSUME HoldInv, NEW r \in Reqs, NEW d \in Docs, NEW t \in Tenants,
         NEW p \in Policies \cup {None}, NEW ti \in Titles, StartUpload(r, d, t, p, ti)
  PROVE  RegisterStep
<1>. DEFINE row == [tenant |-> t, status |-> "PROCESSING", current |-> FALSE,
                    policy |-> p, hold |-> FALSE, title |-> ti, created |-> now]
            c == Request("upload", d, t)
<1>1. c \in Call /\ c.op = "upload" /\ c.doc = d
  BY RequestTyped DEF Ops, Request
<1>2. ~Exists(d) /\ Begin(r, c, row, "version") /\ "version" \in Steps \ {"idle"}
      /\ docs' = [docs EXCEPT ![d] = row] /\ UNCHANGED <<holds, policies, now, trail>>
  BY DEF StartUpload, Steps
<1>. HIDE DEF c
<1>3. docs'[d] = row /\ \A e \in Docs \ {d} : docs'[e] = docs[e]
  BY <1>2 DEF HoldInv, TypeInv, TypeOK
<1>4. \A e \in Docs : ActiveHolds(e)' = ActiveHolds(e)
  BY <1>2 DEF ActiveHolds
<1>5. StepAbout(r, d)
  <2>1. StepOf(r, d)
    BY <1>1, <1>2, <1>3, <1>4, BeginSteps DEF TablesOnly
  <2>2. contended' \subseteq contended \cup {d} /\ pc[r] = "idle"
    BY <1>1, <1>2 DEF Begin
  <2>. QED
    BY <1>4, <2>1, <2>2 DEF StepAbout
<1>6. CASE d \notin contended'
  <2>1. d \notin contended /\ ~Purging(d) /\ ~Purging(d)'
    BY <1>1, <1>2, <1>6, PurgeBegins
  <2>2. contended' = contended
    BY <1>5, <1>6 DEF StepAbout, StepOf
  <2>3. (Exists(d)' /\ docs'[d].hold) = FALSE /\ (Exists(d)' /\ docs'[d].status = "DELETED") = FALSE
    BY <1>3
  <2>4. (Exists(d) /\ docs[d].hold) = FALSE /\ (Exists(d) /\ docs[d].status = "DELETED") = FALSE
    BY <1>2
  <2>5. Entered(d)' = [Entered(d) EXCEPT !.purging = Purging(d)']
    BY <1>4, <1>6, <2>1, <2>3, <2>4, EntrySays, EntryWillSay
  <2>. QED
    BY <1>5, <2>1, <2>2, <2>5, PurgeRegisters
<1>. QED
  BY <1>5, <1>6, Loosens

(* A release takes its hold out of the entry, if it is still there. *)
LEMMA ReleaseRegisters ==
  ASSUME HoldInv, NEW r \in Reqs, NEW h \in Holds, NEW t \in Tenants, StartRelease(r, h, t)
  PROVE  RegisterStep
<1>1. PICK d \in Docs : holds[h] \in HoldRow /\ holds[h].doc = d
  BY DEF StartRelease, HoldInv, TypeInv, TypeOK, HoldRow
<1>. DEFINE c == [Request("release", d, t) EXCEPT !.hold = h]
<1>2. c \in Call /\ c.op = "release" /\ c.doc = d
  BY RequestTyped DEF Ops, Request
<1>3. Begin(r, c, None, "list") /\ "list" \in Steps \ {"idle"}
      /\ holds' = [holds EXCEPT ![h] = [holds[h] EXCEPT !.active = FALSE]]
      /\ UNCHANGED <<docs, policies, now, trail>>
  BY <1>1 DEF StartRelease, Steps
<1>. HIDE DEF c
<1>4. /\ holds'[h].doc = d /\ holds'[h].active = FALSE
      /\ \A g \in Holds \ {h} : holds'[g] = holds[g]
  BY <1>1, <1>3 DEF HoldRow, HoldInv, TypeInv, TypeOK
<1>5. ActiveHolds(d)' = ActiveHolds(d) \ {h}
  BY <1>4 DEF ActiveHolds
<1>6. \A e \in Docs \ {d} : ActiveHolds(e)' = ActiveHolds(e)
  BY <1>1, <1>4 DEF ActiveHolds
<1>7. StepAbout(r, d)
  <2>1. StepOf(r, d)
    BY <1>2, <1>3, <1>6, BeginSteps DEF TablesOnly
  <2>2. contended' \subseteq contended \cup {d} /\ pc[r] = "idle"
    BY <1>2, <1>3 DEF Begin
  <2>. QED
    BY <1>6, <2>1, <2>2 DEF StepAbout
<1>8. CASE d \notin contended'
  <2>1. d \notin contended /\ ~Purging(d) /\ ~Purging(d)'
    BY <1>2, <1>3, <1>8, PurgeBegins
  <2>2. contended' = contended
    BY <1>7, <1>8 DEF StepAbout, StepOf
  <2>3. Purging(d)' = Purging(d) /\ Exists(d)' = Exists(d) /\ docs'[d] = docs[d]
    BY <1>3, <2>1 DEF Purging, Exists
  <2>4. Entered(d)' = [Entered(d) EXCEPT !.held = @ \ {h}]
    BY <1>5, <1>8, <2>1, <2>3, EntrySays, EntryWillSay
  <2>5. CASE h \in ActiveHolds(d)
    <3>1. Entries' = [Entries EXCEPT ![d] = [Entries[d] EXCEPT !.held = @ \ {h}]]
      BY <1>7, <2>4, OneEntry DEF Entries
    <3>2. h \in Entries[d].held
      BY <2>1, <2>5, EntrySays DEF Entries
    <3>3. Register!Release(d, h)
      BY <2>1, <2>2, <3>1, <3>2 DEF Register!Release, Register!Becomes, Entries
    <3>. QED
      BY <3>3 DEF RegisterStep, Register!Next
  <2>6. CASE h \notin ActiveHolds(d)
    <3>1. Entered(d)' = [Entered(d) EXCEPT !.purging = Purging(d)']
      BY <1>5, <1>8, <2>1, <2>3, <2>6, EntrySays, EntryWillSay
    <3>. QED
      BY <1>7, <2>1, <2>2, <3>1, PurgeRegisters
  <2>. QED
    BY <2>5, <2>6
<1>. QED
  BY <1>7, <1>8, Loosens

-----------------------------------------------------------------------------
(* The steps that continue a request *)

(* A request goes on or ends, and its transaction leaves documents and holds alone. *)
LEMMA QuietRegisters ==
  ASSUME HoldInv, NEW r \in Reqs, pc[r] # "idle", UNCHANGED <<docs, holds, now>>,
         \/ Finish(r) \/ Abandon(r)
         \/ \E s \in Row \cup {None}, at \in Steps \ {"idle"} : Advance(r, s, at)
  PROVE  RegisterStep
<1>1. PICK e \in Docs : call[r].doc = e
  BY DEF HoldInv, TypeInv, RequestOK, Fits, Call
<1>2. \A d \in Docs : ActiveHolds(d)' = ActiveHolds(d) /\ docs'[d] = docs[d]
  BY DEF ActiveHolds
<1>3. contended' = contended
  BY DEF Finish, Abandon, Close, Advance
<1>4. StepAbout(r, e)
  <2>1. TablesOnly(e)
    BY <1>2 DEF TablesOnly
  <2>2. StepOf(r, e)
    BY <1>1, <2>1, GoesOnSteps
  <2>. QED
    BY <1>1, <1>2, <1>3, <2>2 DEF StepAbout
<1>5. CASE e \notin contended
  <2>1. Exists(e)' = Exists(e)
    BY DEF Exists
  <2>2. Entered(e)' = [Entered(e) EXCEPT !.purging = Purging(e)']
    BY <1>2, <1>3, <1>5, <2>1, EntrySays, EntryWillSay
  <2>. QED
    BY <1>3, <1>4, <1>5, <2>2, PurgeRegisters
<1>. QED
  BY <1>3, <1>4, <1>5, Loosens

(* The insertion of a hold finds its document blocked. *)
LEMMA InsertRegisters ==
  ASSUME RegisterInv, NEW r \in Reqs, InsertHold(r)
  PROVE  RegisterStep
<1>1. pc[r] = "insert" /\ Fits(call[r], snap[r], "insert") /\ Exists(call[r].doc) /\ HoldInv
  BY DEF InsertHold, RegisterInv, HoldInv, TypeInv, RequestOK
<1>2. PICK e \in Docs, h \in Holds : call[r].doc = e /\ call[r].hold = h /\ call[r].op = "place"
  BY <1>1 DEF Fits, Call
<1>3. /\ holds' = [holds EXCEPT ![h] = [doc |-> e, active |-> TRUE]]
      /\ UNCHANGED <<docs, policies, now, trail>> /\ Finish(r) /\ contended' = contended
  BY <1>2 DEF InsertHold, Finish, Close
<1>4. holds[h] = None
  BY <1>1, <1>2 DEF RegisterInv, FreshIds
<1>5. holds'[h] = [doc |-> e, active |-> TRUE] /\ \A g \in Holds \ {h} : holds'[g] = holds[g]
  BY <1>3 DEF RegisterInv, HoldInv, TypeInv, TypeOK
<1>6. holds'[h] # None
  <2>1. [doc |-> e, active |-> TRUE] \in HoldRow
    BY DEF HoldRow
  <2>. QED
    BY <1>5, <2>1, NoneIsNothing
<1>7. /\ \A d \in Docs : h \notin ActiveHolds(d)
      /\ ActiveHolds(e)' = ActiveHolds(e) \cup {h}
      /\ \A d \in Docs \ {e} : ActiveHolds(d)' = ActiveHolds(d)
  BY <1>4, <1>5, <1>6 DEF ActiveHolds
<1>8. StepAbout(r, e)
  <2>1. StepOf(r, e)
    BY <1>1, <1>2, <1>3, <1>7, GoesOnSteps DEF TablesOnly
  <2>. QED
    BY <1>2, <1>3, <1>7, <2>1 DEF StepAbout
<1>9. CASE e \notin contended
  <2>1. docs[e].hold
    BY <1>1, <1>2, <1>9 DEF HoldInv, Fresh, Relies
  <2>2. ~Purging(e) /\ ~Purging(e)'
    BY <1>1, <1>2, <1>3, <1>9, PurgeIs, PurgeEnds DEF Finish
  <2>3. Purging(e)' = Purging(e) /\ Exists(e)' = Exists(e) /\ docs'[e] = docs[e]
    BY <1>3, <2>2 DEF Purging, Exists
  <2>4. Entered(e)' = [Entered(e) EXCEPT !.held = @ \cup {h}]
    BY <1>3, <1>7, <1>9, <2>3, EntrySays, EntryWillSay
  <2>5. Entries' = [Entries EXCEPT ![e] = [Entries[e] EXCEPT !.held = @ \cup {h}]]
    BY <1>8, <2>4, OneEntry DEF Entries
  <2>6. Entries[e].blocked
    <3>1. (Exists(e) /\ docs[e].hold) = TRUE
      BY <1>1, <1>2, <2>1
    <3>2. Entered(e) = [held |-> ActiveHolds(e), blocked |-> TRUE,
                        deleted |-> Exists(e) /\ docs[e].status = "DELETED",
                        purging |-> Purging(e)]
      BY <1>9, <3>1, EntrySays, Zenon
    <3>3. Entered(e).blocked
      BY <3>2
    <3>. QED
      BY <3>3 DEF Entries
  <2>7. ASSUME NEW d \in Docs PROVE h \notin Entries[d].held
    BY <1>7 DEF Entries, Entered
  <2>8. Register!Place(e, h)
    BY <1>3, <1>9, <2>5, <2>6, <2>7 DEF Register!Place, Register!Becomes, Entries
  <2>. QED
    BY <2>8 DEF RegisterStep, Register!Next
<1>. QED
  BY <1>3, <1>8, <1>9, Loosens

Gone(row) == row.status = "DELETED"

(* What a write makes of the entry of its document. *)
LEMMA WriteEnters ==
  ASSUME HoldInv, NEW r \in Reqs, Write(r), NEW e \in Docs, call[r].doc = e
  PROVE  /\ StepAbout(r, e) /\ contended' = contended
         /\ docs[e] \in Row /\ snap[r] \in Row
         /\ e \notin contended =>
              /\ Entered(e) = [held |-> ActiveHolds(e), blocked |-> docs[e].hold,
                               deleted |-> Gone(docs[e]), purging |-> Purging(e)]
              /\ Entered(e)' = [held |-> ActiveHolds(e), blocked |-> snap[r].hold,
                                deleted |-> Gone(snap[r]), purging |-> Purging(e)]
<1>1. pc[r] = "write" /\ Fits(call[r], snap[r], "write") /\ Exists(e)
  BY DEF Write, HoldInv, TypeInv, RequestOK
<1>2. docs[e] \in Row /\ snap[r] \in Row
  BY <1>1 DEF Fits, HoldInv, TypeInv, TypeOK, Exists
<1>3. /\ docs' = [docs EXCEPT ![e] = Written(docs[e], snap[r])]
      /\ UNCHANGED <<holds, policies, now, trail>>
      /\ contended' = contended
  BY DEF Write, Finish, Close, Advance
<1>4. docs'[e] = Written(docs[e], snap[r]) /\ \A d \in Docs : ActiveHolds(d)' = ActiveHolds(d)
  BY <1>3 DEF ActiveHolds, HoldInv, TypeInv, TypeOK
<1>5. /\ docs'[e] \in Row /\ docs'[e].hold = snap[r].hold /\ docs'[e].status = snap[r].status
      /\ Exists(e)'
  <2>1. docs'[e] \in Row /\ docs'[e].hold = snap[r].hold /\ docs'[e].status = snap[r].status
    BY <1>2, <1>4 DEF Written, Row
  <2>. QED
    BY <2>1, NoneIsNothing DEF Exists
<1>6. AfterWrite(call[r].op) \in Steps \ {"idle"}
  BY DEF AfterWrite, Steps
<1>7. StepAbout(r, e)
  <2>1. TablesOnly(e)
    BY <1>3, <1>4 DEF TablesOnly, HoldInv, TypeInv, TypeOK
  <2>2. StepOf(r, e)
    BY <1>1, <1>2, <1>6, <2>1, GoesOnSteps DEF Write
  <2>. QED
    BY <1>3, <1>4, <2>2 DEF StepAbout
<1>8. CASE e \notin contended
  <2>1. Purging(e)' <=> Purging(e)
    <3>1. CASE call[r].op \in {"apply", "release"} /\ Finish(r)
      BY <1>1, <1>8, <3>1, PurgeIs, PurgeEnds DEF Finish
    <3>2. CASE Advance(r, snap[r], AfterWrite(call[r].op))
      BY <1>1, <1>6, <3>2, PurgeGoesOn
    <3>. QED
      BY <3>1, <3>2 DEF Write
  <2>2. Purging(e)' = Purging(e)
    BY <2>1 DEF Purging
  <2>3. docs[e].hold \in BOOLEAN /\ docs'[e].hold \in BOOLEAN
    BY <1>2, <1>5 DEF Row
  <2>4. /\ (Exists(e) /\ docs[e].hold) = docs[e].hold
        /\ (Exists(e)' /\ docs'[e].hold) = docs'[e].hold
        /\ (Exists(e) /\ docs[e].status = "DELETED") = (docs[e].status = "DELETED")
        /\ (Exists(e)' /\ docs'[e].status = "DELETED") = (docs'[e].status = "DELETED")
    BY <1>1, <1>5, <2>3
  <2>. QED
    BY <1>2, <1>3, <1>4, <1>5, <1>7, <1>8, <2>2, <2>4, EntrySays, EntryWillSay DEF Gone
<1>. QED
  BY <1>2, <1>3, <1>7, <1>8

(* A write blocks, unblocks, deletes or undeletes its document, or does nothing to its
   entry: the copy that is written agrees with the row but for what was asked. *)
LEMMA WriteRegisters ==
  ASSUME HoldInv, NEW r \in Reqs, Write(r)
  PROVE  RegisterStep
<1>1. PICK e \in Docs : call[r].doc = e
  BY DEF Write, HoldInv, TypeInv, RequestOK, Fits, Call
<1>2. StepAbout(r, e) /\ contended' = contended /\ docs[e] \in Row /\ snap[r] \in Row
  BY <1>1, WriteEnters
<1>3. CASE e \notin contended
  <2>1. Entered(e) = [held |-> ActiveHolds(e), blocked |-> docs[e].hold,
                      deleted |-> Gone(docs[e]), purging |-> Purging(e)]
    BY <1>1, <1>3, WriteEnters
  <2>2. Entered(e)' = [held |-> ActiveHolds(e), blocked |-> snap[r].hold,
                       deleted |-> Gone(snap[r]), purging |-> Purging(e)]
    BY <1>1, <1>3, WriteEnters
  <2>3. Entries' = [Entries EXCEPT ![e] = Entered(e)'] /\ Entries[e] = Entered(e)
    BY <1>2, OneEntry DEF Entries
  <2>4. Relies(call[r], snap[r], "write", docs[e], ActiveHolds(e)) /\ pc[r] = "write"
        /\ call[r].op \in Ops
    BY <1>1, <1>3 DEF Write, HoldInv, Fresh, TypeInv, RequestOK, Fits, Call
  <2>5. docs[e].hold \in BOOLEAN /\ snap[r].hold \in BOOLEAN
    BY <1>2 DEF Row
  <2>6. CASE call[r].op # "delete" /\ snap[r].status # docs[e].status
    <3>1. snap[r].hold = docs[e].hold /\ snap[r].status = "ACTIVE"
      BY <2>4, <2>6 DEF Relies, Agrees
    <3>2. Gone(snap[r]) = FALSE
      BY <3>1 DEF Gone
    <3>3. Entered(e)' = [Entered(e) EXCEPT !.deleted = FALSE]
      <4>1. Entered(e)' = [Entered(e) EXCEPT !.deleted = Gone(snap[r])]
        BY <2>1, <2>2, <3>1
      <4>. QED
        BY <3>2, <4>1, Zenon
    <3>4. Register!Undelete(e)
      BY <1>2, <1>3, <2>3, <3>3 DEF Register!Undelete, Register!Becomes, Entries
    <3>. QED
      BY <3>4 DEF RegisterStep, Register!Next
  <2>7. CASE call[r].op = "delete"
    <3>1. snap[r].hold = docs[e].hold /\ HoldPermits(snap[r], call[r].purge)
      BY <2>4, <2>7 DEF Relies, Agrees
    <3>2. Purging(e) <=> call[r].purge
      BY <1>1, <1>3, <2>4, <2>7, PurgeIs
    <3>3. CASE snap[r].status = "DELETED"
      <4>1. Gone(snap[r]) = TRUE
        BY <3>3 DEF Gone
      <4>2. Entered(e)' = [Entered(e) EXCEPT !.deleted = TRUE]
        <5>1. Entered(e)' = [Entered(e) EXCEPT !.deleted = Gone(snap[r])]
          BY <2>1, <2>2, <3>1
        <5>. QED
          BY <4>1, <5>1, Zenon
      <4>3. Entries[e].purging = Purging(e) /\ Entries[e].blocked = docs[e].hold
        BY <2>1, <2>3
      <4>4. Entries[e].purging \/ ~Entries[e].blocked
        BY <3>1, <3>2, <4>3 DEF HoldPermits
      <4>5. Register!Delete(e)
        BY <1>2, <1>3, <2>3, <4>2, <4>4 DEF Register!Delete, Register!Becomes, Entries
      <4>. QED
        BY <4>5 DEF RegisterStep, Register!Next
    <3>4. CASE snap[r].status # "DELETED"
      <4>1. Gone(snap[r]) = FALSE
        BY <3>4 DEF Gone
      <4>2. Entered(e)' = [Entered(e) EXCEPT !.deleted = FALSE]
        <5>1. Entered(e)' = [Entered(e) EXCEPT !.deleted = Gone(snap[r])]
          BY <2>1, <2>2, <3>1
        <5>. QED
          BY <4>1, <5>1, Zenon
      <4>3. Register!Undelete(e)
        BY <1>2, <1>3, <2>3, <4>2 DEF Register!Undelete, Register!Becomes, Entries
      <4>. QED
        BY <4>3 DEF RegisterStep, Register!Next
    <3>. QED
      BY <3>3, <3>4
  <2>8. CASE call[r].op # "delete" /\ snap[r].status = docs[e].status
    <3>1. CASE snap[r].hold = TRUE
      <4>1. Entered(e)' = [Entered(e) EXCEPT !.blocked = TRUE]
        <5>1. Entered(e)' = [Entered(e) EXCEPT !.blocked = snap[r].hold]
          BY <2>1, <2>2, <2>8 DEF Gone
        <5>. QED
          BY <3>1, <5>1, Zenon
      <4>2. Register!Block(e)
        BY <1>2, <1>3, <2>3, <4>1 DEF Register!Block, Register!Becomes, Entries
      <4>. QED
        BY <4>2 DEF RegisterStep, Register!Next
    <3>2. CASE snap[r].hold = FALSE
      <4>1. Entered(e)' = [Entered(e) EXCEPT !.blocked = FALSE]
        <5>1. Entered(e)' = [Entered(e) EXCEPT !.blocked = snap[r].hold]
          BY <2>1, <2>2, <2>8 DEF Gone
        <5>. QED
          BY <3>2, <5>1, Zenon
      <4>2. ActiveHolds(e) = {}
        <5>1. CASE call[r].op = "release"
          BY <2>4, <5>1 DEF Relies
        <5>2. CASE call[r].op # "release"
          <6>1. snap[r].hold = docs[e].hold
            BY <2>4, <3>2, <5>2 DEF Relies, Agrees
          <6>. QED
            BY <1>3, <3>2, <6>1 DEF HoldInv, Covered
        <5>. QED
          BY <5>1, <5>2
      <4>3. Entries[e].held = {}
        BY <2>1, <2>3, <4>2
      <4>4. Register!Unblock(e)
        BY <1>2, <1>3, <2>3, <4>1, <4>3 DEF Register!Unblock, Register!Becomes, Entries
      <4>. QED
        BY <4>4 DEF RegisterStep, Register!Next
    <3>. QED
      BY <2>5, <3>1, <3>2
  <2>. QED
    BY <2>6, <2>7, <2>8
<1>. QED
  BY <1>2, <1>3, Loosens

-----------------------------------------------------------------------------
(* Ids stay fresh *)

Placing(r) == pc[r] # "idle" /\ call[r].op = "place"

LEMMA FreshIdsKept ==
  ASSUME RegisterInv, NEW r \in Reqs,
         \A q \in Reqs \ {r} : pc'[q] = pc[q] /\ call'[q] = call[q],
         \/ pc'[r] = "idle"
         \/ call'[r].op # "place"
         \/ call'[r] = call[r] /\ Placing(r)
         \/ \E h \in Holds : call'[r].hold = h /\ FreshHold(h),
         \A h \in Holds : holds[h] = None =>
           holds'[h] = None \/ (InsertHold(r) /\ pc'[r] = "idle" /\ h = call[r].hold)
  PROVE  FreshIds'
<1>1. ASSUME NEW q \in Reqs, Placing(q)
      PROVE  call[q].hold \in Holds /\ holds[call[q].hold] = None
             /\ \A o \in Reqs : Placing(o) /\ call[o].hold = call[q].hold => o = q
  BY <1>1 DEF Placing, RegisterInv, FreshIds, HoldInv, TypeInv, RequestOK, Fits
<1>2. InsertHold(r) => Placing(r)
  BY DEF Placing, InsertHold, RegisterInv, HoldInv, TypeInv, RequestOK, Fits
<1>3. ASSUME NEW q \in Reqs, Placing(q)'
      PROVE  \/ Placing(q) /\ call'[q] = call[q]
             \/ q = r /\ \E h \in Holds : call'[q].hold = h /\ FreshHold(h)
  BY <1>3 DEF Placing
<1>4. ASSUME NEW q \in Reqs, Placing(q)' PROVE holds'[call'[q].hold] = None
  <2>1. CASE Placing(q) /\ call'[q] = call[q]
    BY <1>1, <1>2, <1>4, <2>1 DEF Placing
  <2>2. CASE q = r /\ \E h \in Holds : call'[q].hold = h /\ FreshHold(h)
    BY <1>1, <1>2, <2>2 DEF FreshHold, Placing
  <2>. QED
    BY <1>3, <1>4, <2>1, <2>2
<1>5. ASSUME NEW q \in Reqs, NEW o \in Reqs, Placing(q)', Placing(o)',
             call'[q].hold = call'[o].hold
      PROVE  q = o
  <2>1. CASE q = r \/ o = r
    BY <1>1, <1>3, <1>5, <2>1 DEF FreshHold, Placing
  <2>2. CASE q # r /\ o # r
    BY <1>1, <1>5, <2>2 DEF Placing
  <2>. QED
    BY <2>1, <2>2
<1>. QED
  BY <1>4, <1>5 DEF FreshIds, Placing

(* A request that begins is not a place, or its hold has a fresh id. *)
LEMMA BeginKeepsIds ==
  ASSUME RegisterInv, NEW r \in Reqs, NEW c \in Call, NEW s, NEW at, Begin(r, c, s, at),
         c.op = "place" => c.hold \in Holds /\ FreshHold(c.hold),
         \A h \in Holds : holds[h] = None => holds'[h] = None
  PROVE  FreshIds'
<1>1. call'[r] = c /\ \A q \in Reqs \ {r} : pc'[q] = pc[q] /\ call'[q] = call[q]
  BY DEF Begin, RegisterInv, HoldInv, TypeInv, TypeOK
<1>. QED
  BY <1>1, FreshIdsKept

(* A request that goes on or ends keeps its id to itself. *)
LEMMA GoingOnKeepsIds ==
  ASSUME RegisterInv, NEW r \in Reqs, pc[r] # "idle",
         Finish(r) \/ Abandon(r) \/ (\E s, at : Advance(r, s, at)),
         UNCHANGED holds \/ InsertHold(r)
  PROVE  FreshIds'
<1>1. /\ \A q \in Reqs \ {r} : pc'[q] = pc[q] /\ call'[q] = call[q]
      /\ pc'[r] = "idle" \/ call'[r] = call[r]
  BY DEF Finish, Abandon, Close, Advance, RegisterInv, HoldInv, TypeInv, TypeOK
<1>2. ASSUME InsertHold(r), NEW h \in Holds, h # call[r].hold PROVE holds'[h] = holds[h]
  BY <1>2 DEF InsertHold, RegisterInv, HoldInv, TypeInv, TypeOK
<1>3. InsertHold(r) => pc'[r] = "idle"
  BY DEF InsertHold, Finish, Close, RegisterInv, HoldInv, TypeInv, TypeOK
<1>4. call[r].op = "place" => Placing(r)
  BY DEF Placing
<1>. QED
  BY <1>1, <1>2, <1>3, <1>4, FreshIdsKept

-----------------------------------------------------------------------------
(* Every step *)

LEMMA StartRegisters ==
  ASSUME RegisterInv, NEW r \in Reqs, Start(r)
  PROVE  RegisterStep /\ FreshIds'
<1>. USE DEF RegisterInv
<1>1. "write" \in Steps \ {"idle"} /\ "check" \in Steps \ {"idle"}
  BY DEF Steps
<1>2. ASSUME NEW c \in Call, NEW s, NEW at \in {"write", "check"}, Begin(r, c, s, at),
             Untouched, c.op = "place" => c.hold \in Holds /\ FreshHold(c.hold)
      PROVE  RegisterStep /\ FreshIds'
  <2>1. RegisterStep
    BY <1>1, <1>2, BeginRegisters
  <2>2. FreshIds'
    BY <1>2, BeginKeepsIds DEF Untouched
  <2>. QED
    BY <2>1, <2>2
<1>3. ASSUME NEW d \in Docs, NEW t \in Tenants, NEW op \in Ops
      PROVE  /\ Request(op, d, t) \in Call /\ Request(op, d, t).op = op
             /\ \A purge \in BOOLEAN :
                  LET c == [Request(op, d, t) EXCEPT !.purge = purge]
                  IN  c \in Call /\ c.op = op
             /\ \A h \in Holds :
                  LET c == [Request(op, d, t) EXCEPT !.hold = h]
                  IN  c \in Call /\ c.op = op /\ c.hold = h
  BY <1>3, RequestTyped DEF Request
<1>4. ASSUME NEW d \in Docs, NEW t \in Tenants, NEW p \in Policies \cup {None},
             NEW ti \in Titles, StartUpload(r, d, t, p, ti)
      PROVE  RegisterStep /\ FreshIds'
  <2>. DEFINE c == Request("upload", d, t)
  <2>1. c \in Call /\ c.op = "upload"
    BY <1>3 DEF Ops
  <2>2. UNCHANGED holds /\ \E s : Begin(r, c, s, "version")
    BY <1>4 DEF StartUpload
  <2>. HIDE DEF c
  <2>3. FreshIds'
    BY <2>1, <2>2, BeginKeepsIds
  <2>. QED
    BY <1>4, <2>3, UploadRegisters
<1>5. ASSUME NEW d \in Docs, NEW t \in Tenants, NEW ti \in Titles, StartUpdate(r, d, t, ti)
      PROVE  RegisterStep /\ FreshIds'
  BY <1>2, <1>3, <1>5 DEF StartUpdate, Untouched, Ops
<1>6. ASSUME NEW d \in Docs, NEW t \in Tenants, NEW purge \in BOOLEAN,
             StartDelete(r, d, t, purge)
      PROVE  RegisterStep /\ FreshIds'
  <2>. DEFINE c == [Request("delete", d, t) EXCEPT !.purge = purge]
  <2>1. c \in Call /\ c.op = "delete"
    BY <1>3 DEF Ops
  <2>2. Untouched /\ \E s : \E at \in {"write", "check"} : Begin(r, c, s, at)
    BY <1>6 DEF StartDelete, Untouched
  <2>. HIDE DEF c
  <2>. QED
    BY <1>2, <2>1, <2>2
<1>7. ASSUME NEW d \in Docs, NEW t \in Tenants, StartRestore(r, d, t)
      PROVE  RegisterStep /\ FreshIds'
  BY <1>2, <1>3, <1>7 DEF StartRestore, Untouched, Ops
<1>8. ASSUME NEW d \in Docs, NEW t \in Tenants, NEW p \in Policies, StartApply(r, d, t, p)
      PROVE  RegisterStep /\ FreshIds'
  BY <1>2, <1>3, <1>8 DEF StartApply, Untouched, Ops
<1>9. ASSUME NEW d \in Docs, NEW t \in Tenants, NEW h \in Holds, StartPlace(r, d, t, h)
      PROVE  RegisterStep /\ FreshIds'
  <2>. DEFINE c == [Request("place", d, t) EXCEPT !.hold = h]
  <2>1. c \in Call /\ c.op = "place" /\ c.hold = h
    BY <1>3 DEF Ops
  <2>2. Untouched /\ FreshHold(h) /\ \E s : Begin(r, c, s, "write")
    BY <1>9 DEF StartPlace, Untouched
  <2>. HIDE DEF c
  <2>. QED
    BY <1>2, <2>1, <2>2
<1>10. ASSUME NEW h \in Holds, NEW t \in Tenants, StartRelease(r, h, t)
       PROVE  RegisterStep /\ FreshIds'
  <2>1. PICK d \in Docs : holds[h] \in HoldRow /\ holds[h].doc = d
    BY <1>10 DEF StartRelease, HoldInv, TypeInv, TypeOK, HoldRow
  <2>. DEFINE c == [Request("release", d, t) EXCEPT !.hold = h]
  <2>2. c \in Call /\ c.op = "release" /\ Begin(r, c, None, "list")
    BY <1>3, <1>10, <2>1 DEF Ops, StartRelease
  <2>3. \A g \in Holds : holds[g] = None => holds'[g] = None
    BY <1>10 DEF StartRelease, HoldInv, TypeInv, TypeOK
  <2>. HIDE DEF c
  <2>4. FreshIds'
    BY <2>2, <2>3, BeginKeepsIds
  <2>. QED
    BY <1>10, <2>4, ReleaseRegisters
<1>. QED
  BY <1>4, <1>5, <1>6, <1>7, <1>8, <1>9, <1>10 DEF Start

LEMMA ContinueRegisters ==
  ASSUME RegisterInv, NEW r \in Reqs, Continue(r) \/ Fail(r)
  PROVE  RegisterStep /\ FreshIds'
<1>. USE DEF RegisterInv
<1>1. pc[r] # "idle"
  BY DEF Continue, CreateVersion, RefuseVersion, CheckRetention, RefuseRetention,
         Write, WriteAudit, InsertHold, ListActive, Reread, Fail
<1>2. Fits(call[r], snap[r], pc[r]) /\ Exists(call[r].doc) /\ snap[r] \in Row \cup {None}
  BY <1>1 DEF HoldInv, TypeInv, TypeOK, RequestOK
<1>3. {"write", "reread", "audit", "insert"} \subseteq Steps \ {"idle"}
  BY DEF Steps
<1>4. ASSUME UNCHANGED <<docs, holds, now>>,
             \/ Finish(r) \/ Abandon(r)
             \/ \E s \in Row \cup {None}, at \in Steps \ {"idle"} : Advance(r, s, at)
      PROVE  RegisterStep /\ FreshIds'
  <2>1. RegisterStep
    BY <1>1, <1>4, QuietRegisters
  <2>2. FreshIds'
    BY <1>1, <1>4, GoingOnKeepsIds
  <2>. QED
    BY <2>1, <2>2
<1>5. CASE CreateVersion(r)
  <2>1. snap[r] \in Row
    BY <1>2, <1>5 DEF CreateVersion, Fits
  <2>2. [snap[r] EXCEPT !.status = "ACTIVE", !.current = TRUE] \in Row
    BY <2>1 DEF Row, Status
  <2>. QED
    BY <1>3, <1>4, <1>5, <2>2 DEF CreateVersion
<1>6. CASE CheckRetention(r)
  <2>1. snap[r] \in Row
    BY <1>2, <1>6 DEF CheckRetention, Fits
  <2>2. SoftDeleted(snap[r]) \in Row
    BY <2>1 DEF SoftDeleted, Row, Status
  <2>. QED
    BY <1>3, <1>4, <1>6, <2>2 DEF CheckRetention
<1>7. CASE RefuseVersion(r) \/ RefuseRetention(r) \/ WriteAudit(r) \/ Fail(r)
  BY <1>4, <1>7 DEF RefuseVersion, RefuseRetention, WriteAudit, Fail
<1>8. CASE ListActive(r)
  BY <1>2, <1>3, <1>4, <1>8 DEF ListActive
<1>9. CASE Reread(r)
  <2>1. docs[call[r].doc] \in Row
    BY <1>2 DEF Fits, Call, HoldInv, TypeInv, TypeOK, Exists
  <2>2. [docs[call[r].doc] EXCEPT !.hold = FALSE] \in Row
    BY <2>1 DEF Row
  <2>. QED
    BY <1>3, <1>4, <1>9, <2>2 DEF Reread
<1>10. CASE Write(r)
  <2>1. UNCHANGED holds /\ (Finish(r) \/ \E s, at : Advance(r, s, at))
    BY <1>10 DEF Write
  <2>2. FreshIds'
    BY <1>1, <2>1, GoingOnKeepsIds
  <2>. QED
    BY <1>10, <2>2, WriteRegisters
<1>11. CASE InsertHold(r)
  <2>1. FreshIds'
    BY <1>1, <1>11, GoingOnKeepsIds DEF InsertHold
  <2>. QED
    BY <1>11, <2>1, InsertRegisters
<1>. QED
  BY <1>5, <1>6, <1>7, <1>8, <1>9, <1>10, <1>11 DEF Continue

LEMMA RegisterInvStep == RegisterInv /\ [Next]_vars => RegisterInv' /\ RegisterStep
<1>. SUFFICES ASSUME RegisterInv, [Next]_vars PROVE FreshIds' /\ RegisterStep
  BY HoldInvStep DEF RegisterInv
<1>1. ASSUME NEW r \in Reqs, Start(r) \/ Continue(r) \/ Fail(r)
      PROVE  FreshIds' /\ RegisterStep
  BY <1>1, StartRegisters, ContinueRegisters
<1>2. CASE (\E p \in Policies : CreatePolicy(p)) \/ Tick \/ UNCHANGED vars
  <2>1. UNCHANGED <<docs, holds, pc, call, contended>>
    BY <1>2 DEF CreatePolicy, Tick, vars, history
  <2>2. \A d \in Docs : Entered(d)' = Entered(d)
    BY <2>1 DEF Entered, ActiveHolds, Exists, Purging, On
  <2>3. RegisterStep
    BY <2>1, <2>2 DEF RegisterStep, Entries
  <2>4. FreshIds'
    BY <2>1 DEF RegisterInv, FreshIds
  <2>. QED
    BY <2>3, <2>4
<1>. QED
  BY <1>1, <1>2 DEF Next

LEMMA RegisterInvInit == Init => RegisterInv /\ Register!Init
<1>. SUFFICES ASSUME Init PROVE FreshIds /\ Register!Init
  BY HoldInvInit DEF RegisterInv
<1>1. FreshIds
  BY DEF Init, FreshIds
<1>2. ASSUME NEW d \in Docs PROVE Entered(d) = Register!Blank
  <2>1. ActiveHolds(d) = {} /\ ~Exists(d) /\ On(d) = {}
    BY DEF Init, ActiveHolds, Exists, On
  <2>. QED
    BY <2>1 DEF Entered, Purging, Register!Blank
<1>3. Register!Init
  BY <1>2 DEF Register!Init, Init
<1>. QED
  BY <1>1, <1>3

(* Documents implements the atomic register of legal holds: whatever the requests do
   to a document on which they do not overlap is a legal step of its entry, or none. *)
THEOREM RegisterKept == Spec => KeepsRegister
<1>1. RegisterInv /\ [Next]_vars => [Register!Next]_(Register!vars)
  BY RegisterInvStep DEF RegisterStep, Register!vars, Entries
<1>. QED
  BY <1>1, RegisterInvInit, RegisterInvStep, PTL DEF Spec, KeepsRegister, Register!Spec
=============================================================================
