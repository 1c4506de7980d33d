---------------------------- MODULE TrailProofs -----------------------------
(***************************************************************************)
(* What a document, its holds and its audit trail say of one another:      *)
(* FlagJustified, TrailMatchesRow, DeletedAudited and EmptyActiveTold, for *)
(* every value of the constants.                                           *)
(*                                                                         *)
(* The first two are claims about documents on which no requests have      *)
(* overlapped and none was abandoned. Between requests such a document is  *)
(* Settled; the one request on it Accounts for every difference there is.  *)
(* The last two hold under every interleaving. Their invariant follows the *)
(* status through the copies in which it travels.                          *)
(***************************************************************************)
EXTENDS DocumentsProofs

Disturbed == contended \cup partial

Tells(tr, row) == tr.status = row.status /\ tr.title \in {row.title, None}

\* Nothing is told of a document that does not exist.
Untold(d) == ~Exists(d) => trail[d].status = "PROCESSING" /\ trail[d].title = None

\* What request c, with its copy, at the transaction at, has left to do for the row.
Accounts(c, copy, at, row, tr, active) ==
  /\ at \in {"check", "write"} /\ c.op \notin {"upload", "update"} => copy.title = row.title
  /\ at = "write" /\ c.op = "release" => ~copy.hold
  /\ row.hold /\ active = {} => c.op = "release" \/ (c.op = "place" /\ at = "insert")
  /\ at = "audit" => Tells(Recorded(tr, c, copy), row)
  /\ at # "audit" => Tells(tr, row)

Settled(row, tr, active) == (row.hold => active # {}) /\ Tells(tr, row)

Accounted(r) ==
  pc[r] # "idle" /\ call[r].doc \notin Disturbed =>
    Accounts(call[r], snap[r], pc[r], docs[call[r].doc], trail[call[r].doc],
             ActiveHolds(call[r].doc))

AtRest(d) ==
  d \notin Disturbed /\ Exists(d) /\ On(d) = {} => Settled(docs[d], trail[d], ActiveHolds(d))

TrailInv == HoldInv /\ FreshIds /\ (\A r \in Reqs : Accounted(r)) /\ \A d \in Docs : AtRest(d)

TellInv == TrailInv /\ \A d \in Docs : Untold(d)

-----------------------------------------------------------------------------
(* A step of request r, which is about document e, leaves the rest alone *)

\* How the tables may change around document e.
TablesAbout(e) ==
  /\ \A d \in Docs \ {e} :
       docs'[d] = docs[d] /\ trail'[d] = trail[d] /\ ActiveHolds(d)' = ActiveHolds(d)
  /\ now' = now

About(r, e) ==
  /\ StepOf(r, e)
  /\ pc[r] # "idle" => call[r].doc = e
  /\ partial \subseteq partial'
  /\ \A d \in Docs \ {e} : trail'[d] = trail[d] /\ ActiveHolds(d)' = ActiveHolds(d)

LEMMA AboutKeeps ==
  ASSUME TrailInv, RegisterInv', NEW r \in Reqs, NEW e \in Docs, About(r, e),
         e \notin Disturbed' /\ pc'[r] # "idle" =>
           Accounts(call'[r], snap'[r], pc'[r], docs'[e], trail'[e], ActiveHolds(e)'),
         e \notin Disturbed' /\ pc'[r] = "idle" /\ Exists(e)' =>
           Settled(docs'[e], trail'[e], ActiveHolds(e)')
  PROVE  TrailInv'
<1>1. Disturbed \subseteq Disturbed'
  BY DEF About, StepOf, Disturbed
<1>2. ASSUME NEW q \in Reqs, pc'[q] # "idle", call'[q].doc \notin Disturbed'
      PROVE  Accounts(call'[q], snap'[q], pc'[q], docs'[call'[q].doc], trail'[call'[q].doc],
                      ActiveHolds(call[q].doc)')
  <2>1. CASE q = r
    <3>1. call'[r].doc = e
      BY <1>2, <2>1 DEF About, StepOf
    <3>2. ActiveHolds(call[r].doc)' = ActiveHolds(e)'
      BY <3>1 DEF ActiveHolds
    <3>. QED
      BY <1>2, <2>1, <3>1, <3>2
  <2>2. CASE q # r
    <3>1. pc'[q] = pc[q] /\ call'[q] = call[q] /\ snap'[q] = snap[q]
      BY <2>2 DEF About, StepOf
    <3>2. PICK d \in Docs : call[q].doc = d
      BY <1>2, <3>1 DEF TrailInv, HoldInv, TypeInv, RequestOK, Fits, Call
    <3>3. d # e /\ d \notin Disturbed
      BY <1>1, <1>2, <2>2, <3>1, <3>2 DEF About, StepOf, Disturbed
    <3>4. Accounts(call[q], snap[q], pc[q], docs[d], trail[d], ActiveHolds(d))
      BY <1>2, <3>1, <3>2, <3>3 DEF TrailInv, Accounted
    <3>5. docs'[d] = docs[d] /\ trail'[d] = trail[d] /\ ActiveHolds(d)' = ActiveHolds(d)
      BY <3>3 DEF About, StepOf
    <3>6. ActiveHolds(call[q].doc)' = ActiveHolds(d)'
      BY <3>1, <3>2 DEF ActiveHolds
    <3>. QED
      BY <3>1, <3>2, <3>4, <3>5, <3>6
  <2>. QED
    BY <2>1, <2>2
<1>3. \A q \in Reqs : Accounted(q)'
  BY <1>2 DEF Accounted, Accounts, Tells, Recorded
<1>4. ASSUME NEW d \in Docs, d \notin Disturbed', Exists(d)', On(d)' = {}
      PROVE  Settled(docs'[d], trail'[d], ActiveHolds(d)')
  <2>1. CASE d = e
    <3>1. pc'[r] = "idle"
      BY <1>4, <2>1 DEF On, About, StepOf
    <3>. QED
      BY <1>4, <2>1, <3>1
  <2>2. CASE d # e
    <3>1. docs'[d] = docs[d] /\ trail'[d] = trail[d] /\ ActiveHolds(d)' = ActiveHolds(d)
      BY <2>2 DEF About, StepOf
    <3>2. ASSUME NEW q \in On(d) PROVE q = r
      BY <1>4, <3>2 DEF On, About, StepOf
    <3>3. CASE On(d) = {}
      BY <1>1, <1>4, <3>1, <3>3 DEF TrailInv, AtRest, Exists
    <3>4. CASE r \in On(d)
      BY <1>4, <2>2, <3>4 DEF On, About, StepOf
    <3>. QED
      BY <3>2, <3>3, <3>4
  <2>. QED
    BY <2>1, <2>2
<1>5. \A d \in Docs : AtRest(d)'
  BY <1>4 DEF AtRest, Settled, Tells
<1>. QED
  BY <1>3, <1>5 DEF TrailInv, RegisterInv

(* The request that begins on an undisturbed document finds it settled. *)
LEMMA BeginAbout ==
  ASSUME TrailInv, NEW r \in Reqs, NEW c \in Call, NEW s, NEW at \in Steps,
         Begin(r, c, s, at), TablesAbout(c.doc)
  PROVE  /\ About(r, c.doc)
         /\ pc'[r] = at /\ call'[r] = c /\ snap'[r] = s
         /\ c.doc \notin Disturbed' /\ Exists(c.doc) =>
              Settled(docs[c.doc], trail[c.doc], ActiveHolds(c.doc))
<1>1. TablesOnly(c.doc)
  BY DEF TablesAbout, TablesOnly
<1>2. StepOf(r, c.doc) /\ pc'[r] = at /\ call'[r] = c /\ snap'[r] = s
  BY <1>1, BeginSteps DEF TrailInv
<1>3. pc[r] = "idle" /\ partial' = partial
  BY DEF Begin
<1>4. c.doc \notin Disturbed' => On(c.doc) = {} /\ c.doc \notin Disturbed
  BY DEF Begin, Disturbed
<1>5. c.doc \in Docs
  BY DEF Call
<1>. QED
  BY <1>2, <1>3, <1>4, <1>5 DEF About, TablesAbout, TrailInv, AtRest

(* A request that goes on, on an undisturbed document, has accounted for it. *)
LEMMA GoesOnAbout ==
  ASSUME TrailInv, NEW r \in Reqs, pc[r] # "idle", NEW e \in Docs, call[r].doc = e,
         TablesAbout(e),
         \/ Finish(r) \/ Abandon(r)
         \/ \E s \in Row \cup {None}, at \in Steps : Advance(r, s, at)
  PROVE  /\ About(r, e)
         /\ e \notin Disturbed' =>
              Accounts(call[r], snap[r], pc[r], docs[e], trail[e], ActiveHolds(e))
<1>1. TablesOnly(e)
  BY DEF TablesAbout, TablesOnly
<1>2. StepOf(r, e)
  BY <1>1, GoesOnSteps DEF TrailInv
<1>3. partial \subseteq partial' /\ contended' = contended
  BY DEF Finish, Abandon, Advance, Close
<1>4. e \notin Disturbed' => e \notin Disturbed
  BY <1>3 DEF Disturbed
<1>. QED
  BY <1>2, <1>3, <1>4 DEF About, TablesAbout, TrailInv, Accounted

LEMMA UntouchedAbout ==
  ASSUME NEW e \in Docs, Untouched
  PROVE  /\ TablesAbout(e)
         /\ docs' = docs /\ trail' = trail /\ ActiveHolds(e)' = ActiveHolds(e)
  BY DEF Untouched, TablesAbout, ActiveHolds

(* What the end of a request does. *)
LEMMA CloseIs ==
  ASSUME TypeInv, NEW r \in Reqs, call[r].doc \in Docs
  PROVE  /\ Finish(r) \/ Abandon(r) => pc'[r] = "idle"
         /\ Abandon(r) => call[r].doc \in Disturbed'
  BY DEF TypeInv, TypeOK, Finish, Abandon, Close, Disturbed

-----------------------------------------------------------------------------
(* First transactions *)

(* A request that only reads. *)
LEMMA ReadTrail ==
  ASSUME TrailInv, RegisterInv', NEW r \in Reqs, NEW c \in Call, NEW s,
         NEW at \in Steps \ {"idle"}, Begin(r, c, s, at), Untouched, Exists(c.doc),
         Settled(docs[c.doc], trail[c.doc], ActiveHolds(c.doc)) =>
           Accounts(c, s, at, docs[c.doc], trail[c.doc], ActiveHolds(c.doc))
  PROVE  TrailInv'
<1>1. PICK e \in Docs : c.doc = e
  BY DEF Call
<1>2. TablesAbout(e) /\ docs' = docs /\ trail' = trail /\ ActiveHolds(e)' = ActiveHolds(e)
  BY UntouchedAbout
<1>3. /\ About(r, e) /\ pc'[r] = at /\ call'[r] = c /\ snap'[r] = s
      /\ e \notin Disturbed' => Settled(docs[e], trail[e], ActiveHolds(e))
  BY <1>1, <1>2, BeginAbout
<1>. QED
  BY <1>1, <1>2, <1>3, AboutKeeps

LEMMA StartTrail ==
  ASSUME TrailInv, RegisterInv', NEW r \in Reqs, NEW d \in Docs, NEW t \in Tenants,
         \/ \E ti \in Titles : StartUpdate(r, d, t, ti)
         \/ \E purge \in BOOLEAN : StartDelete(r, d, t, purge)
         \/ StartRestore(r, d, t)
         \/ \E p \in Policies : StartApply(r, d, t, p)
         \/ \E h \in Holds : StartPlace(r, d, t, h)
  PROVE  TrailInv'
<1>1. Visible(d, t) /\ Untouched
  BY DEF StartUpdate, StartDelete, StartRestore, StartApply, StartPlace, Untouched
<1>2. docs[d] \in Row /\ Exists(d)
  BY <1>1, RowOfVisible DEF TrailInv, HoldInv
<1>3. {"write", "check"} \subseteq Steps \ {"idle"}
  BY DEF Steps
<1>4. ASSUME NEW op \in {"update", "restore", "apply"}
      PROVE  Request(op, d, t) \in Call /\ Request(op, d, t).op = op
             /\ Request(op, d, t).doc = d
  BY RequestTyped DEF Ops
(* The copy differs from the settled row in what its operation may change. *)
<1>5. ASSUME NEW c, NEW s, NEW at \in {"check", "write"},
             Settled(docs[d], trail[d], ActiveHolds(d)),
             c.op \notin {"upload", "release"},
             c.op # "update" => s.title = docs[d].title
      PROVE  Accounts(c, s, at, docs[d], trail[d], ActiveHolds(d))
  BY <1>5 DEF Accounts, Settled
<1>6. ASSUME NEW ti \in Titles, StartUpdate(r, d, t, ti) PROVE TrailInv'
  BY <1>1, <1>2, <1>3, <1>4, <1>5, <1>6, ReadTrail DEF StartUpdate
<1>7. ASSUME NEW purge \in BOOLEAN, StartDelete(r, d, t, purge) PROVE TrailInv'
  <2>. DEFINE c == [Request("delete", d, t) EXCEPT !.purge = purge]
  <2>1. c \in Call /\ c.op = "delete" /\ c.doc = d
    BY RequestTyped DEF Ops, Request
  <2>2. Begin(r, c, SoftDeleted(docs[d]), "write") \/ Begin(r, c, docs[d], "check")
    BY <1>7 DEF StartDelete
  <2>3. SoftDeleted(docs[d]).title = docs[d].title
    BY <1>2 DEF SoftDeleted, Row
  <2>. HIDE DEF c
  <2>. QED
    BY <1>1, <1>2, <1>3, <1>5, <2>1, <2>2, <2>3, ReadTrail
<1>8. CASE StartRestore(r, d, t)
  <2>. DEFINE s == [docs[d] EXCEPT !.status = "ACTIVE"]
  <2>1. s.title = docs[d].title
    BY <1>2 DEF Row
  <2>2. Begin(r, Request("restore", d, t), s, "write")
    BY <1>8 DEF StartRestore
  <2>. HIDE DEF s
  <2>. QED
    BY <1>1, <1>2, <1>3, <1>4, <1>5, <2>1, <2>2, ReadTrail
<1>9. ASSUME NEW p \in Policies, StartApply(r, d, t, p) PROVE TrailInv'
  <2>. DEFINE s == [docs[d] EXCEPT !.policy = p]
  <2>1. s.title = docs[d].title
    BY <1>2 DEF Row
  <2>2. Begin(r, Request("apply", d, t), s, "write")
    BY <1>9 DEF StartApply
  <2>. HIDE DEF s
  <2>. QED
    BY <1>1, <1>2, <1>3, <1>4, <1>5, <2>1, <2>2, ReadTrail
<1>10. ASSUME NEW h \in Holds, StartPlace(r, d, t, h) PROVE TrailInv'
  <2>. DEFINE c == [Request("place", d, t) EXCEPT !.hold = h]
              s == [docs[d] EXCEPT !.hold = TRUE]
  <2>1. c \in Call /\ c.op = "place" /\ c.doc = d
    BY RequestTyped DEF Ops, Request
  <2>2. Begin(r, c, s, "write")
    BY <1>10 DEF StartPlace
  <2>3. s.title = docs[d].title
    BY <1>2 DEF Row
  <2>. HIDE DEF c, s
  <2>. QED
    BY <1>1, <1>2, <1>3, <1>5, <2>1, <2>2, <2>3, ReadTrail
<1>. QED
  BY <1>6, <1>7, <1>8, <1>9, <1>10

LEMMA StartUploadTrail ==
  ASSUME TrailInv, RegisterInv', NEW r \in Reqs, NEW d \in Docs, NEW t \in Tenants,
         NEW p \in Policies \cup {None}, NEW ti \in Titles,
         Untold(d), StartUpload(r, d, t, p, ti)
  PROVE  TrailInv'
<1>. DEFINE row == [tenant |-> t, status |-> "PROCESSING", current |-> FALSE,
                    policy |-> p, hold |-> FALSE, title |-> ti, created |-> now]
            c == Request("upload", d, t)
<1>1. c \in Call /\ c.op = "upload" /\ c.doc = d /\ "version" \in Steps
  BY RequestTyped DEF Ops, Steps
<1>2. Begin(r, c, row, "version")
  BY DEF StartUpload
<1>3. docs' = [docs EXCEPT ![d] = row] /\ UNCHANGED <<holds, policies, now, trail>>
  BY DEF StartUpload
<1>4. row.status = "PROCESSING" /\ ~row.hold
  OBVIOUS
<1>. HIDE DEF row, c
<1>5. docs'[d] = row
  BY <1>3 DEF TrailInv, HoldInv, TypeInv, TypeOK
<1>6. TablesAbout(d)
  BY <1>3 DEF TablesAbout, ActiveHolds, TrailInv, HoldInv, TypeInv, TypeOK
<1>7. About(r, d) /\ pc'[r] = "version" /\ call'[r] = c /\ snap'[r] = row
  BY <1>1, <1>2, <1>6, BeginAbout
<1>8. Accounts(c, row, "version", row, trail'[d], ActiveHolds(d)')
  <2>1. Tells(trail'[d], row)
    BY <1>3, <1>4 DEF StartUpload, Untold, Tells
  <2>. QED
    BY <1>1, <1>4, <2>1 DEF Accounts
<1>. QED
  BY <1>5, <1>7, <1>8, AboutKeeps

LEMMA StartReleaseTrail ==
  ASSUME TrailInv, RegisterInv', NEW r \in Reqs, NEW h \in Holds, NEW t \in Tenants,
         StartRelease(r, h, t)
  PROVE  TrailInv'
<1>1. PICK e \in Docs : holds[h] \in HoldRow /\ holds[h].doc = e /\ Exists(e)
  BY DEF StartRelease, TrailInv, HoldInv, TypeInv, TypeOK, TablesOK, HoldRow
<1>. DEFINE c == [Request("release", e, t) EXCEPT !.hold = h]
<1>2. c \in Call /\ c.op = "release" /\ c.doc = e /\ "list" \in Steps
  BY RequestTyped DEF Ops, Request, Steps
<1>3. Begin(r, c, None, "list")
  BY <1>1 DEF StartRelease
<1>4. /\ holds' = [holds EXCEPT ![h] = [holds[h] EXCEPT !.active = FALSE]]
      /\ UNCHANGED <<docs, policies, now, trail>>
  BY DEF StartRelease
<1>. HIDE DEF c
<1>5. \A d \in Docs \ {e} : ActiveHolds(d)' = ActiveHolds(d)
  BY <1>1, <1>4, NoneIsNothing DEF ActiveHolds, TrailInv, HoldInv, TypeInv, TypeOK, HoldRow
<1>6. TablesAbout(e)
  BY <1>4, <1>5 DEF TablesAbout
<1>7. /\ About(r, e) /\ pc'[r] = "list" /\ call'[r] = c /\ snap'[r] = None
      /\ e \notin Disturbed' => Settled(docs[e], trail[e], ActiveHolds(e))
  BY <1>1, <1>2, <1>3, <1>6, BeginAbout
<1>8. Settled(docs[e], trail[e], ActiveHolds(e)) =>
        Accounts(c, None, "list", docs[e], trail[e], ActiveHolds(e)')
  BY <1>2 DEF Accounts, Settled
<1>. QED
  BY <1>4, <1>7, <1>8, AboutKeeps

-----------------------------------------------------------------------------
(* Later transactions *)

(* A transaction that changes no table and gives the request a new copy. *)
LEMMA AdvanceTrail ==
  ASSUME TrailInv, RegisterInv', NEW r \in Reqs, pc[r] # "idle", NEW e \in Docs, call[r].doc = e,
         NEW s \in Row \cup {None}, NEW at \in Steps \ {"idle"}, Advance(r, s, at), Untouched,
         Accounts(call[r], snap[r], pc[r], docs[e], trail[e], ActiveHolds(e))
           => Accounts(call[r], s, at, docs[e], trail[e], ActiveHolds(e))
  PROVE  TrailInv'
<1>1. TablesAbout(e) /\ docs' = docs /\ trail' = trail /\ ActiveHolds(e)' = ActiveHolds(e)
  BY UntouchedAbout
<1>2. /\ About(r, e)
      /\ e \notin Disturbed' => Accounts(call[r], snap[r], pc[r], docs[e], trail[e], ActiveHolds(e))
  BY <1>1, GoesOnAbout
<1>3. pc'[r] = at /\ call' = call /\ snap'[r] = s
  BY DEF Advance, TrailInv, HoldInv, TypeInv, TypeOK
<1>. QED
  BY <1>1, <1>2, <1>3, AboutKeeps

(* A request that ends without changing a table. *)
LEMMA CloseTrail ==
  ASSUME TrailInv, RegisterInv', NEW r \in Reqs, pc[r] # "idle", NEW e \in Docs, call[r].doc = e,
         Finish(r) \/ Abandon(r), Untouched,
         e \notin Disturbed' /\ Accounts(call[r], snap[r], pc[r], docs[e], trail[e], ActiveHolds(e))
           => Settled(docs[e], trail[e], ActiveHolds(e))
  PROVE  TrailInv'
<1>1. TablesAbout(e) /\ docs' = docs /\ trail' = trail /\ ActiveHolds(e)' = ActiveHolds(e)
  BY UntouchedAbout
<1>2. /\ About(r, e)
      /\ e \notin Disturbed' => Accounts(call[r], snap[r], pc[r], docs[e], trail[e], ActiveHolds(e))
  BY <1>1, GoesOnAbout
<1>3. pc'[r] = "idle"
  BY CloseIs DEF TrailInv, HoldInv
<1>. QED
  BY <1>1, <1>2, <1>3, AboutKeeps

(* What an undisturbed document's request relies on, of what it accounts for. *)
LEMMA UndisturbedIs ==
  ASSUME TrailInv, NEW r \in Reqs, pc[r] # "idle", NEW e \in Docs, call[r].doc = e
  PROVE  /\ Fits(call[r], snap[r], pc[r]) /\ docs[e] \in Row
         /\ e \notin Disturbed => Relies(call[r], snap[r], pc[r], docs[e], ActiveHolds(e))
BY DEF TrailInv, HoldInv, TypeInv, TypeOK, RequestOK, Exists, Fresh, Disturbed

LEMMA WriteTrail ==
  ASSUME TrailInv, RegisterInv', NEW r \in Reqs, Write(r)
  PROVE  TrailInv'
<1>1. pc[r] = "write"
  BY DEF Write
<1>2. PICK e \in Docs : call[r].doc = e
  BY <1>1 DEF TrailInv, HoldInv, TypeInv, RequestOK, Fits, Call
<1>. PICK c \in Call, s \in Row, row \in Row :
       call[r] = c /\ snap[r] = s /\ docs[e] = row
  BY <1>1, <1>2, UndisturbedIs DEF Fits
<1>. DEFINE w == Written(row, s)
            tr == trail[e]
            a == ActiveHolds(e)
<1>3. /\ docs' = [docs EXCEPT ![e] = w] /\ UNCHANGED <<holds, policies, now, trail>>
      /\ \/ c.op \in {"apply", "release"} /\ Finish(r)
         \/ c.op \in Audited \cup {"place"} /\ Advance(r, s, AfterWrite(c.op))
  BY <1>2 DEF Write
<1>4. w.status = s.status /\ w.title = s.title /\ w.hold = s.hold
  BY DEF Written, Row
<1>. HIDE DEF w
<1>5. docs'[e] = w /\ trail' = trail /\ ActiveHolds(e)' = a
  BY <1>3 DEF TrailInv, HoldInv, TypeInv, TypeOK, ActiveHolds
<1>6. TablesAbout(e)
  BY <1>3 DEF TablesAbout, ActiveHolds
<1>7. AfterWrite(c.op) \in Steps \ {"idle"}
  BY DEF AfterWrite, Steps
<1>8. About(r, e) /\ (e \notin Disturbed' => Accounts(c, s, "write", row, tr, a))
  BY <1>1, <1>2, <1>3, <1>6, <1>7, GoesOnAbout
<1>9. e \notin Disturbed' => Relies(c, s, "write", row, a)
  <2>1. e \notin Disturbed' => e \notin Disturbed
    BY <1>8 DEF About, StepOf, Disturbed
  <2>. QED
    BY <1>1, <1>2, <2>1, UndisturbedIs
<1>. HIDE DEF tr, a
<1>10. CASE c.op \in {"apply", "release"} /\ Finish(r)
  <2>1. pc'[r] = "idle"
    BY <1>2, <1>10, CloseIs DEF TrailInv, HoldInv
  <2>2. ASSUME e \notin Disturbed' PROVE Settled(w, tr, a)
    <3>1. Accounts(c, s, "write", row, tr, a) /\ Relies(c, s, "write", row, a)
      BY <1>8, <1>9, <2>2
    <3>2. s.status = row.status /\ (c.op = "apply" => s.hold = row.hold)
      BY <1>10, <3>1 DEF Relies, Agrees
    <3>3. s.title = row.title /\ (c.op = "release" => ~s.hold)
      BY <1>10, <3>1 DEF Accounts
    <3>. QED
      BY <1>4, <1>10, <3>1, <3>2, <3>3 DEF Accounts, Settled, Tells
  <2>. QED
    BY <1>5, <1>8, <2>1, <2>2, AboutKeeps DEF tr
<1>11. CASE c.op \in Audited \cup {"place"} /\ Advance(r, s, AfterWrite(c.op))
  <2>1. pc'[r] = AfterWrite(c.op) /\ call'[r] = c /\ snap'[r] = s
    BY <1>11 DEF Advance, TrailInv, HoldInv, TypeInv, TypeOK
  <2>2. ASSUME e \notin Disturbed' PROVE Accounts(c, s, AfterWrite(c.op), w, tr, a)
    <3>1. Accounts(c, s, "write", row, tr, a) /\ Relies(c, s, "write", row, a)
      BY <1>8, <1>9, <2>2
    <3>2. CASE c.op = "place"
      <4>1. s.status = row.status
        BY <3>1, <3>2 DEF Relies, Agrees
      <4>. QED
        BY <1>4, <3>1, <3>2, <4>1 DEF Accounts, AfterWrite, Tells
    <3>3. CASE c.op \in Audited
      <4>1. /\ s.hold = row.hold
            /\ c.op = "update" => s.status = row.status
        BY <3>1, <3>3 DEF Relies, Agrees, Audited
      <4>2. AfterWrite(c.op) = "audit"
        BY <3>3 DEF AfterWrite, Audited
      <4>3. /\ w.hold => a # {}
            /\ c.op \in {"delete", "restore"} => s.title = row.title
            /\ Tells(tr, row)
        BY <1>4, <3>1, <3>3, <4>1 DEF Accounts, Audited
      <4>4. Tells(Recorded(tr, c, s), w)
        BY <1>4, <3>3, <4>1, <4>3 DEF Tells, Recorded, Audited
      <4>. QED
        BY <4>2, <4>3, <4>4 DEF Accounts
    <3>. QED
      BY <1>11, <3>2, <3>3
  <2>. QED
    BY <1>5, <1>7, <1>8, <2>1, <2>2, AboutKeeps DEF tr
<1>. QED
  BY <1>3, <1>10, <1>11

LEMMA WriteAuditTrail ==
  ASSUME TrailInv, RegisterInv', NEW r \in Reqs, WriteAudit(r)
  PROVE  TrailInv'
<1>1. pc[r] = "audit"
  BY DEF WriteAudit
<1>2. PICK e \in Docs : call[r].doc = e
  BY <1>1 DEF TrailInv, HoldInv, TypeInv, RequestOK, Fits, Call
<1>3. /\ trail' = [trail EXCEPT ![e] = Recorded(trail[e], call[r], snap[r])]
      /\ UNCHANGED <<docs, holds, policies, now>> /\ Finish(r)
  BY <1>2 DEF WriteAudit
<1>4. /\ TablesAbout(e) /\ ActiveHolds(e)' = ActiveHolds(e)
      /\ trail'[e] = Recorded(trail[e], call[r], snap[r])
  BY <1>3 DEF TablesAbout, ActiveHolds, TrailInv, HoldInv, TypeInv, TypeOK
<1>5. /\ About(r, e)
      /\ e \notin Disturbed' => Accounts(call[r], snap[r], "audit", docs[e], trail[e], ActiveHolds(e))
  BY <1>1, <1>2, <1>3, <1>4, GoesOnAbout
<1>6. pc'[r] = "idle"
  BY <1>2, <1>3, CloseIs DEF TrailInv, HoldInv
<1>7. call[r].op \in Audited
  BY <1>1, <1>2, UndisturbedIs DEF Fits
<1>8. e \notin Disturbed' => Settled(docs[e], trail'[e], ActiveHolds(e))
  BY <1>4, <1>5, <1>7 DEF Accounts, Settled, Audited
<1>. QED
  BY <1>3, <1>4, <1>5, <1>6, <1>8, AboutKeeps

LEMMA InsertHoldTrail ==
  ASSUME TrailInv, RegisterInv', NEW r \in Reqs, InsertHold(r)
  PROVE  TrailInv'
<1>1. pc[r] = "insert"
  BY DEF InsertHold
<1>2. PICK e \in Docs : call[r].doc = e
  BY <1>1 DEF TrailInv, HoldInv, TypeInv, RequestOK, Fits, Call
<1>3. PICK h \in Holds : call[r].hold = h
  BY <1>1, <1>2, UndisturbedIs DEF Fits
<1>4. /\ holds' = [holds EXCEPT ![h] = [doc |-> e, active |-> TRUE]]
      /\ UNCHANGED <<docs, policies, now, trail>> /\ Finish(r)
  BY <1>2, <1>3 DEF InsertHold
<1>5. h \in ActiveHolds(e)'
  <2>1. [doc |-> e, active |-> TRUE] \in HoldRow
    BY DEF HoldRow
  <2>2. holds'[h] = [doc |-> e, active |-> TRUE]
    BY <1>4 DEF TrailInv, HoldInv, TypeInv, TypeOK
  <2>3. holds'[h] # None
    BY <2>1, <2>2, NoneIsNothing
  <2>4. holds'[h].doc = e /\ holds'[h].active
    BY <2>2
  <2>. QED
    BY <2>3, <2>4 DEF ActiveHolds
<1>6. TablesAbout(e)
  <2>1. holds[h] = None
    BY <1>1, <1>2, <1>3, UndisturbedIs DEF TrailInv, FreshIds, Fits
  <2>2. ASSUME NEW d \in Docs, d # e, NEW g \in Holds
        PROVE  g \in ActiveHolds(d)' <=> g \in ActiveHolds(d)
    BY <1>4, <2>1, <2>2 DEF ActiveHolds, TrailInv, HoldInv, TypeInv, TypeOK
  <2>3. \A d \in Docs \ {e} : ActiveHolds(d) \subseteq Holds /\ ActiveHolds(d)' \subseteq Holds
    BY DEF ActiveHolds
  <2>. QED
    BY <1>4, <2>2, <2>3 DEF TablesAbout
<1>7. /\ About(r, e)
      /\ e \notin Disturbed' => Accounts(call[r], snap[r], "insert", docs[e], trail[e], ActiveHolds(e))
  BY <1>1, <1>2, <1>4, <1>6, GoesOnAbout
<1>8. pc'[r] = "idle"
  BY <1>2, <1>4, CloseIs DEF TrailInv, HoldInv
<1>9. call[r].op = "place"
  BY <1>1, <1>2, UndisturbedIs DEF Fits
<1>10. e \notin Disturbed' => Settled(docs[e], trail[e], ActiveHolds(e)')
  BY <1>5, <1>7, <1>9 DEF Accounts, Settled
<1>. QED
  BY <1>4, <1>7, <1>8, <1>10, AboutKeeps

LEMMA ContinueTrail ==
  ASSUME TrailInv, RegisterInv', NEW r \in Reqs, Continue(r)
  PROVE  TrailInv'
<1>1. pc[r] # "idle"
  BY DEF Continue, CreateVersion, RefuseVersion, CheckRetention, RefuseRetention,
         Write, WriteAudit, InsertHold, ListActive, Reread
<1>2. PICK e \in Docs : call[r].doc = e
  BY <1>1 DEF TrailInv, HoldInv, TypeInv, RequestOK, Fits, Call
<1>3. Fits(call[r], snap[r], pc[r]) /\ docs[e] \in Row
  BY <1>1, <1>2, UndisturbedIs
<1>4. {"write", "reread"} \subseteq Steps \ {"idle"} /\ snap[r] \in Row \cup {None}
  BY DEF Steps, TrailInv, HoldInv, TypeInv, TypeOK
<1>5. CASE CreateVersion(r)
  <2>. DEFINE s == [snap[r] EXCEPT !.status = "ACTIVE", !.current = TRUE]
  <2>1. snap[r] \in Row /\ call[r].op = "upload" /\ pc[r] = "version"
    BY <1>3, <1>5 DEF CreateVersion, Fits
  <2>2. s \in Row
    BY <2>1 DEF Row, Status
  <2>3. Advance(r, s, "write") /\ Untouched
    BY <1>5 DEF CreateVersion, Untouched
  <2>. HIDE DEF s
  <2>4. Accounts(call[r], snap[r], pc[r], docs[e], trail[e], ActiveHolds(e))
          => Accounts(call[r], s, "write", docs[e], trail[e], ActiveHolds(e))
    BY <2>1, <2>2 DEF Accounts
  <2>. QED
    BY <1>1, <1>2, <1>4, <2>2, <2>3, <2>4, AdvanceTrail
<1>6. CASE RefuseVersion(r)
  <2>1. pc[r] = "version" /\ call[r].op = "upload" /\ Finish(r) /\ Untouched
    BY <1>3, <1>6 DEF RefuseVersion, Fits, Untouched
  <2>2. Accounts(call[r], snap[r], pc[r], docs[e], trail[e], ActiveHolds(e))
          => Settled(docs[e], trail[e], ActiveHolds(e))
    BY <2>1 DEF Accounts, Settled
  <2>. QED
    BY <1>1, <1>2, <2>1, <2>2, CloseTrail
<1>7. CASE CheckRetention(r)
  <2>. DEFINE s == SoftDeleted(snap[r])
  <2>1. snap[r] \in Row /\ call[r].op = "delete" /\ pc[r] = "check"
    BY <1>3, <1>7 DEF CheckRetention, Fits
  <2>2. s \in Row /\ s.title = snap[r].title
    BY <2>1 DEF SoftDeleted, Row, Status
  <2>3. Advance(r, s, "write") /\ Untouched
    BY <1>7 DEF CheckRetention, Untouched
  <2>. HIDE DEF s
  <2>4. Accounts(call[r], snap[r], pc[r], docs[e], trail[e], ActiveHolds(e))
          => Accounts(call[r], s, "write", docs[e], trail[e], ActiveHolds(e))
    BY <2>1, <2>2 DEF Accounts
  <2>. QED
    BY <1>1, <1>2, <1>4, <2>2, <2>3, <2>4, AdvanceTrail
<1>8. CASE RefuseRetention(r)
  <2>1. pc[r] = "check" /\ call[r].op = "delete" /\ Finish(r) /\ Untouched
    BY <1>3, <1>8 DEF RefuseRetention, Fits, Untouched
  <2>2. Accounts(call[r], snap[r], pc[r], docs[e], trail[e], ActiveHolds(e))
          => Settled(docs[e], trail[e], ActiveHolds(e))
    BY <2>1 DEF Accounts, Settled
  <2>. QED
    BY <1>1, <1>2, <2>1, <2>2, CloseTrail
<1>9. CASE Write(r)
  BY <1>9, WriteTrail
<1>10. CASE WriteAudit(r)
  BY <1>10, WriteAuditTrail
<1>11. CASE InsertHold(r)
  BY <1>11, InsertHoldTrail
<1>12. CASE ListActive(r)
  <2>1. call[r].op = "release" /\ pc[r] = "list" /\ Untouched
    BY <1>3, <1>12 DEF ListActive, Fits, Untouched
  <2>2. CASE Advance(r, snap[r], "reread")
    <3>1. Accounts(call[r], snap[r], pc[r], docs[e], trail[e], ActiveHolds(e))
            => Accounts(call[r], snap[r], "reread", docs[e], trail[e], ActiveHolds(e))
      BY <2>1 DEF Accounts
    <3>. QED
      BY <1>1, <1>2, <1>4, <2>1, <2>2, <3>1, AdvanceTrail
  <2>3. CASE ActiveHolds(e) # {} /\ Finish(r)
    <3>1. Accounts(call[r], snap[r], pc[r], docs[e], trail[e], ActiveHolds(e))
            => Settled(docs[e], trail[e], ActiveHolds(e))
      BY <2>1, <2>3 DEF Accounts, Settled
    <3>. QED
      BY <1>1, <1>2, <2>1, <2>3, <3>1, CloseTrail
  <2>. QED
    BY <1>2, <1>12, <2>2, <2>3 DEF ListActive, LastHold
<1>13. CASE Reread(r)
  <2>1. call[r].op = "release" /\ pc[r] = "reread" /\ Untouched
    BY <1>3, <1>13 DEF Reread, Fits, Untouched
  <2>2. CASE Advance(r, [docs[e] EXCEPT !.hold = FALSE], "write")
    <3>. DEFINE s == [docs[e] EXCEPT !.hold = FALSE]
    <3>1. s \in Row /\ s.title = docs[e].title /\ ~s.hold
      BY <1>3 DEF Row
    <3>2. Advance(r, s, "write")
      BY <2>2
    <3>. HIDE DEF s
    <3>3. Accounts(call[r], snap[r], pc[r], docs[e], trail[e], ActiveHolds(e))
            => Accounts(call[r], s, "write", docs[e], trail[e], ActiveHolds(e))
      BY <2>1, <3>1 DEF Accounts
    <3>. QED
      BY <1>1, <1>2, <1>4, <2>1, <3>1, <3>2, <3>3, AdvanceTrail
  <2>3. CASE Abandon(r)
    <3>1. e \in Disturbed'
      BY <1>2, <2>3, CloseIs DEF TrailInv, HoldInv
    <3>. QED
      BY <1>1, <1>2, <2>1, <2>3, <3>1, CloseTrail
  <2>. QED
    BY <1>2, <1>13, <2>2, <2>3 DEF Reread
<1>. QED
  BY <1>5, <1>6, <1>7, <1>8, <1>9, <1>10, <1>11, <1>12, <1>13 DEF Continue

-----------------------------------------------------------------------------
(* The invariant *)

(* What a step does to the requests. *)
LEMMA StartShape ==
  ASSUME NEW r \in Reqs, Start(r)
  PROVE  trail' = trail /\ \E c, s, at : Begin(r, c, s, at)
<1>1. ASSUME NEW d \in Docs, NEW t \in Tenants, NEW purge \in BOOLEAN, StartDelete(r, d, t, purge)
      PROVE  trail' = trail /\ \E c, s, at : Begin(r, c, s, at)
  <2>1. trail' = trail
    BY <1>1 DEF StartDelete
  <2>2. \/ Begin(r, [Request("delete", d, t) EXCEPT !.purge = purge], SoftDeleted(docs[d]), "write")
        \/ Begin(r, [Request("delete", d, t) EXCEPT !.purge = purge], docs[d], "check")
    BY <1>1 DEF StartDelete
  <2>. QED
    BY <2>1, <2>2
<1>. QED
  BY <1>1 DEF Start, StartUpload, StartUpdate, StartRestore, StartApply, StartPlace, StartRelease

LEMMA GoingOnShape ==
  ASSUME NEW r \in Reqs, Continue(r) \/ Fail(r)
  PROVE  /\ pc[r] # "idle"
         /\ Finish(r) \/ Abandon(r) \/ \E s, at : Advance(r, s, at)
         /\ trail' = trail \/ WriteAudit(r)
BY DEF Continue, CreateVersion, RefuseVersion, CheckRetention, RefuseRetention, Write,
       WriteAudit, InsertHold, ListActive, Reread, Fail

LEMMA RestStays ==
  ASSUME (\E p \in Policies : CreatePolicy(p)) \/ Tick \/ UNCHANGED vars
  PROVE  UNCHANGED <<docs, holds, trail, pc, call, snap, contended, partial>>
BY DEF CreatePolicy, Tick, vars, history

\* Events are recorded of documents that exist, and documents stay.
LEMMA UntoldStep ==
  ASSUME TypeInv, [Next]_vars, NEW d \in Docs, Untold(d)
  PROVE  Untold(d)'
<1>. SUFFICES ASSUME docs'[d] = None
              PROVE  docs[d] = None /\ trail'[d] = trail[d]
  BY DEF Untold, Exists
<1>1. \/ UNCHANGED <<docs, trail>>
      \/ \E r \in Reqs : WriteAudit(r) \/ Write(r) \/ Start(r)
  BY RestStays DEF Next, Continue, CreateVersion, RefuseVersion, CheckRetention, RefuseRetention,
                   InsertHold, ListActive, Reread, Fail
<1>2. ASSUME NEW r \in Reqs, WriteAudit(r) PROVE docs[d] = None /\ trail'[d] = trail[d]
  <2>1. docs' = docs /\ Exists(call[r].doc)
    BY <1>2 DEF WriteAudit, TypeInv, RequestOK
  <2>2. d # call[r].doc
    BY <2>1 DEF Exists
  <2>. QED
    BY <1>2, <2>1, <2>2 DEF WriteAudit, TypeInv, TypeOK
<1>3. ASSUME NEW r \in Reqs, Write(r) PROVE docs[d] = None /\ trail'[d] = trail[d]
  <2>1. /\ Exists(call[r].doc) /\ call[r].doc \in Docs /\ snap[r] \in Row
        /\ docs' = [docs EXCEPT ![call[r].doc] = Written(@, snap[r])] /\ trail' = trail
    BY <1>3 DEF Write, TypeInv, RequestOK, Fits, Call
  <2>2. docs[call[r].doc] \in Row
    BY <2>1 DEF Exists, TypeInv, TypeOK
  <2>3. Written(docs[call[r].doc], snap[r]) \in Row
    BY <2>1, <2>2 DEF Written, Row
  <2>4. docs'[call[r].doc] # None
    BY <2>1, <2>3, NoneIsNothing DEF TypeInv, TypeOK
  <2>. QED
    BY <2>1, <2>4 DEF TypeInv, TypeOK
<1>4. ASSUME NEW r \in Reqs, Start(r) PROVE docs[d] = None /\ trail'[d] = trail[d]
  <2>1. trail' = trail
    BY <1>4, StartShape
  <2>2. ASSUME NEW e \in Docs, NEW t \in Tenants, NEW p \in Policies \cup {None},
               NEW ti \in Titles, StartUpload(r, e, t, p, ti)
        PROVE  docs[d] = None
    BY <2>2 DEF StartUpload, Exists, TypeInv, TypeOK
  <2>. QED
    BY <1>4, <2>1, <2>2 DEF Start, StartUpdate, StartDelete, StartRestore, StartApply, StartPlace,
                            StartRelease
<1>. QED
  BY <1>1, <1>2, <1>3, <1>4

LEMMA FailTrail ==
  ASSUME TrailInv, RegisterInv', NEW r \in Reqs, Fail(r)
  PROVE  TrailInv'
<1>1. pc[r] # "idle" /\ Untouched
  BY DEF Fail, Untouched
<1>2. PICK e \in Docs : call[r].doc = e
  BY <1>1 DEF TrailInv, HoldInv, TypeInv, RequestOK, Fits, Call
<1>3. CASE Abandon(r)
  <2>1. e \in Disturbed'
    BY <1>2, <1>3, CloseIs DEF TrailInv, HoldInv
  <2>. QED
    BY <1>1, <1>2, <1>3, <2>1, CloseTrail
<1>4. CASE ~Committed(r) /\ Finish(r)
  <2>1. pc[r] \in {"check", "write"} /\ call[r].op \notin {"upload", "release"}
    <3>1. Fits(call[r], snap[r], pc[r]) /\ pc[r] \in Steps
      BY <1>1, <1>2, UndisturbedIs DEF TrailInv, HoldInv, TypeInv, TypeOK
    <3>. QED
      BY <1>1, <1>4, <3>1 DEF Committed, Fits, Steps
  <2>2. Accounts(call[r], snap[r], pc[r], docs[e], trail[e], ActiveHolds(e))
          => Settled(docs[e], trail[e], ActiveHolds(e))
    BY <2>1 DEF Accounts, Settled
  <2>. QED
    BY <1>1, <1>2, <1>4, <2>2, CloseTrail
<1>. QED
  BY <1>3, <1>4 DEF Fail

LEMMA TellInvInit == Init => TellInv
<1>. SUFFICES ASSUME Init PROVE TellInv
  OBVIOUS
<1>1. \A r \in Reqs : Accounted(r)
  BY DEF Init, Accounted
<1>2. \A d \in Docs : AtRest(d)
  BY DEF Init, AtRest, Exists
<1>3. \A d \in Docs : Untold(d)
  BY DEF Init, Untold
<1>. QED
  BY <1>1, <1>2, <1>3, RegisterInvInit DEF RegisterInv, TrailInv, TellInv

LEMMA TellInvStep == TellInv /\ [Next]_vars => TellInv'
<1>. SUFFICES ASSUME TrailInv, \A d \in Docs : Untold(d), [Next]_vars
              PROVE  TrailInv' /\ \A d \in Docs : Untold(d)'
  BY DEF TellInv
<1>6. \A d \in Docs : Untold(d)'
  BY UntoldStep DEF TrailInv, HoldInv
<1>1. RegisterInv'
  BY RegisterInvStep DEF RegisterInv, TrailInv
<1>2. ASSUME NEW r \in Reqs, Start(r) PROVE TrailInv'
  BY <1>1, <1>2, StartUploadTrail, StartTrail, StartReleaseTrail DEF Start
<1>3. ASSUME NEW r \in Reqs, Continue(r) PROVE TrailInv'
  BY <1>1, <1>3, ContinueTrail
<1>4. ASSUME NEW r \in Reqs, Fail(r) PROVE TrailInv'
  BY <1>1, <1>4, FailTrail
<1>5. CASE (\E p \in Policies : CreatePolicy(p)) \/ Tick \/ UNCHANGED vars
  <2>1. UNCHANGED <<docs, holds, trail, pc, call, snap, contended, partial>>
    BY <1>5 DEF CreatePolicy, Tick, vars, history
  <2>2. ASSUME NEW r \in Reqs, Accounted(r) PROVE Accounted(r)'
    <3>1. ActiveHolds(call[r].doc)' = ActiveHolds(call[r].doc)
      BY <2>1 DEF ActiveHolds
    <3>. QED
      BY <2>1, <2>2, <3>1 DEF Accounted, Disturbed, Accounts, Tells, Recorded
  <2>3. \A d \in Docs : AtRest(d)'
    BY <2>1 DEF TrailInv, AtRest, Disturbed, ActiveHolds, Exists, On, Settled, Tells
  <2>. QED
    BY <1>1, <1>6, <2>2, <2>3 DEF RegisterInv, TrailInv
<1>. QED
  BY <1>2, <1>3, <1>4, <1>5, <1>6 DEF Next

THEOREM TellInvariance == Spec => []TellInv
<1>. QED
  BY TellInvInit, TellInvStep, PTL DEF Spec

THEOREM TrailInvariance == Spec => []TrailInv
<1>1. TellInv => TrailInv
  BY DEF TellInv
<1>. QED
  BY <1>1, TellInvariance, PTL

(* The flag that blocks deletions is justified by an active hold, or by the request
   on the document that places or releases one, unless requests on the document have
   overlapped or one was abandoned half way. *)
THEOREM FlagsAreJustified == Spec => []FlagJustified
<1>1. ASSUME TrailInv, NEW d \in Docs \ (contended \cup partial), Exists(d), docs[d].hold,
             ActiveHolds(d) = {}
      PROVE  \E r \in On(d) : call[r].op \in {"place", "release"}
  <2>1. On(d) # {}
    BY <1>1 DEF TrailInv, AtRest, Disturbed, Settled
  <2>2. PICK r \in On(d) : TRUE
    BY <2>1
  <2>3. Accounts(call[r], snap[r], pc[r], docs[d], trail[d], ActiveHolds(d))
    BY <1>1, <2>2 DEF On, TrailInv, Accounted, Disturbed
  <2>. QED
    BY <1>1, <2>2, <2>3 DEF Accounts
<1>2. TrailInv => FlagJustified
  BY <1>1 DEF FlagJustified
<1>. QED
  BY <1>2, TrailInvariance, PTL

(* Between requests, the status of a document is the one its audit events tell, and so
   is its title if they tell one, under the same two conditions; whatever the width of
   the key column. *)
THEOREM TrailTellsRow == Spec => []TrailMatchesRow
<1>1. TrailInv => TrailMatchesRow
  BY DEF TrailInv, AtRest, Disturbed, Settled, Tells, TrailMatchesRow
<1>. QED
  BY <1>1, TrailInvariance, PTL

-----------------------------------------------------------------------------
(* Deletions and restorations leave a trace, whatever overlaps *)

Traced == {"delete", "restore"}

\* What must have been told of a document that has a row or copy x: a deletion if it is
\* DELETED, a deletion and a restoration if it is ACTIVE without content.
Owes(x, op) ==
  \/ op = "delete" /\ x.status = "DELETED"
  \/ op \in Traced /\ x.status = "ACTIVE" /\ ~x.current

RowTold(d) ==
  d \notin partial /\ Exists(d) => \A op \in Traced : Owes(docs[d], op) => Told(d, op)

\* What a copy owes was told of the row it was read from, or it is owed by the delete or
\* restore request that has not written it yet.
CopyTold(r) ==
  pc[r] \in {"version", "check", "write", "audit", "insert"} /\ call[r].doc \notin partial =>
    \A op \in Traced :
      Owes(snap[r], op) => Told(call[r].doc, op) \/ (call[r].op = op /\ pc[r] = "write")

ToldInv == TypeInv /\ (\A d \in Docs : RowTold(d)) /\ \A r \in Reqs : CopyTold(r)

LEMMA OthersStay ==
  ASSUME TypeInv, NEW r \in Reqs, Start(r) \/ Continue(r) \/ Fail(r)
  PROVE  /\ \A q \in Reqs \ {r} : pc'[q] = pc[q] /\ call'[q] = call[q] /\ snap'[q] = snap[q]
         /\ partial \subseteq partial'
<1>1. \/ \E c, s, at : Begin(r, c, s, at)
      \/ \E s, at : Advance(r, s, at)
      \/ Finish(r) \/ Abandon(r)
  BY StartShape, GoingOnShape
<1>. QED
  BY <1>1 DEF Begin, Advance, Finish, Abandon, Close, TypeInv, TypeOK

\* What has been told stays told, unless the request that was about to record it dies.
LEMMA ToldStays ==
  ASSUME TypeInv, [Next]_vars, NEW d \in Docs, d \notin partial', NEW op \in Traced, Told(d, op)
  PROVE  Told(d, op)'
<1>2. trail' = trail \/ \E r \in Reqs : WriteAudit(r)
  BY StartShape, GoingOnShape, RestStays DEF Next
<1>3. CASE op \in trail[d].events
  <2>1. ASSUME NEW r \in Reqs, WriteAudit(r) PROVE op \in trail'[d].events
    <3>1. /\ trail' = [trail EXCEPT ![call[r].doc] = Recorded(@, call[r], snap[r])]
          /\ trail \in [Docs -> Trail]
      BY <2>1 DEF WriteAudit, TypeInv, TypeOK
    <3>. QED
      BY <1>3, <3>1 DEF Recorded
  <2>. QED
    BY <1>2, <1>3, <2>1 DEF Told
<1>4. ASSUME NEW q \in On(d), call[q].op = op, pc[q] = "audit"
      PROVE  Told(d, op)'
  <2>1. CASE pc'[q] = "audit" /\ call'[q] = call[q]
    BY <1>4, <2>1 DEF Told, On
  <2>2. CASE WriteAudit(q)
    <3>1. /\ trail' = [trail EXCEPT ![d] = Recorded(trail[d], call[q], snap[q])]
          /\ trail \in [Docs -> Trail]
      BY <1>4, <2>2 DEF WriteAudit, TypeInv, TypeOK, On
    <3>. QED
      BY <1>4, <3>1 DEF Recorded, Told
  <2>3. CASE Fail(q)
    <3>1. d \in partial'
      BY <1>4, <2>3 DEF Fail, Committed, Abandon, On
    <3>. QED
      BY <3>1
  <2>4. ASSUME NEW r \in Reqs, r # q, Start(r) \/ Continue(r) \/ Fail(r)
        PROVE  pc'[q] = pc[q] /\ call'[q] = call[q]
    BY <2>4, OthersStay DEF On
  <2>5. ASSUME Start(q) PROVE FALSE
    BY <1>4, <2>5, StartShape DEF Begin, On
  <2>6. ASSUME Continue(q), ~WriteAudit(q) PROVE FALSE
    BY <1>4, <2>6 DEF Continue, CreateVersion, RefuseVersion, CheckRetention, RefuseRetention,
                      Write, InsertHold, ListActive, Reread
  <2>. QED
    BY <1>4, <2>1, <2>2, <2>3, <2>4, <2>5, <2>6, RestStays DEF Next, On
<1>. QED
  BY <1>3, <1>4 DEF Told

\* A request works on the row it reads: what is told of the row is told of the copy.
LEMMA RowToldStays ==
  ASSUME ToldInv, [Next]_vars, NEW d \in Docs, d \notin partial', partial \subseteq partial',
         Exists(d), NEW op \in Traced, Owes(docs[d], op)
  PROVE  Told(d, op)'
BY ToldStays DEF ToldInv, RowTold

LEMMA StartTold ==
  ASSUME ToldInv, [Next]_vars, NEW r \in Reqs, Start(r)
  PROVE  /\ CopyTold(r)'
         /\ \A d \in Docs : docs'[d] = docs[d] \/ \A op \in Traced : ~Owes(docs'[d], op)
<1>1. partial \subseteq partial'
  BY OthersStay DEF ToldInv
<1>2. ASSUME NEW c, NEW s, NEW at, Begin(r, c, s, at)
      PROVE  pc'[r] = at /\ call'[r] = c /\ snap'[r] = s
  BY <1>2 DEF Begin, ToldInv, TypeInv, TypeOK
<1>3. ASSUME NEW d \in Docs, NEW t \in Tenants, NEW p \in Policies \cup {None}, NEW ti \in Titles,
             StartUpload(r, d, t, p, ti)
      PROVE  /\ CopyTold(r)'
             /\ \A e \in Docs : docs'[e] = docs[e] \/ \A op \in Traced : ~Owes(docs'[e], op)
  <2>. DEFINE row == [tenant |-> t, status |-> "PROCESSING", current |-> FALSE,
                      policy |-> p, hold |-> FALSE, title |-> ti, created |-> now]
  <2>1. Begin(r, Request("upload", d, t), row, "version") /\ docs' = [docs EXCEPT ![d] = row]
    BY <1>3 DEF StartUpload
  <2>2. \A op \in Traced : ~Owes(row, op)
    BY DEF Owes
  <2>. HIDE DEF row
  <2>3. snap'[r] = row
    BY <1>2, <2>1
  <2>. QED
    BY <2>1, <2>2, <2>3 DEF CopyTold, Owes, ToldInv, TypeInv, TypeOK
<1>4. ASSUME NEW d \in Docs, NEW t \in Tenants, Visible(d, t), Untouched,
             NEW c, NEW s, NEW at, Begin(r, c, s, at), c.doc = d,
             \A op \in Traced :
               Owes(s, op) => Owes(docs[d], op) \/ (c.op = op /\ at = "write")
      PROVE  CopyTold(r)' /\ \A e \in Docs : docs'[e] = docs[e]
  <2>1. pc'[r] = at /\ call'[r] = c /\ snap'[r] = s
    BY <1>2, <1>4
  <2>2. ASSUME NEW op \in Traced PROVE Told(call[r].doc, op)' <=> Told(d, op)'
    BY <1>4, <2>1 DEF Told, On
  <2>3. ASSUME NEW op \in Traced, Owes(docs[d], op), d \notin partial' PROVE Told(d, op)'
    BY <1>1, <1>4, <2>3, RowToldStays DEF Visible
  <2>4. ASSUME NEW op \in Traced, Owes(snap'[r], op), call'[r].doc \notin partial'
        PROVE  Told(call[r].doc, op)' \/ (call'[r].op = op /\ pc'[r] = "write")
    BY <1>4, <2>1, <2>2, <2>3, <2>4
  <2>. QED
    BY <1>4, <2>4 DEF CopyTold, Owes, Untouched
<1>5. ASSUME NEW d \in Docs, NEW t \in Tenants,
             \/ \E ti \in Titles : StartUpdate(r, d, t, ti)
             \/ \E purge \in BOOLEAN : StartDelete(r, d, t, purge)
             \/ StartRestore(r, d, t)
             \/ \E p \in Policies : StartApply(r, d, t, p)
             \/ \E h \in Holds : StartPlace(r, d, t, h)
      PROVE  CopyTold(r)' /\ \A e \in Docs : docs'[e] = docs[e]
  <2>1. Visible(d, t) /\ Untouched
    BY <1>5 DEF StartUpdate, StartDelete, StartRestore, StartApply, StartPlace, Untouched
  <2>2. docs[d] \in Row
    BY <2>1, RowOfVisible DEF ToldInv
  <2>3. ASSUME NEW ti \in Titles, StartUpdate(r, d, t, ti)
        PROVE  CopyTold(r)' /\ \A e \in Docs : docs'[e] = docs[e]
    <3>. DEFINE s == Edited(docs[d], ti)
    <3>1. /\ Request("update", d, t).doc = d
          /\ \A op \in Traced : Owes(s, op) => Owes(docs[d], op)
      BY <2>2 DEF Request, Edited, Row, Owes
    <3>2. Begin(r, Request("update", d, t), s, "write")
      BY <2>3 DEF StartUpdate
    <3>. HIDE DEF s
    <3>. QED
      BY <1>4, <2>1, <3>1, <3>2
  <2>4. ASSUME NEW purge \in BOOLEAN, StartDelete(r, d, t, purge)
        PROVE  CopyTold(r)' /\ \A e \in Docs : docs'[e] = docs[e]
    <3>. DEFINE c == [Request("delete", d, t) EXCEPT !.purge = purge]
                s == SoftDeleted(docs[d])
    <3>1. c.op = "delete" /\ c.doc = d
      BY DEF Request
    <3>2. \A op \in Traced : Owes(s, op) => c.op = op
      BY <2>2, <3>1 DEF SoftDeleted, Row, Owes
    <3>3. Begin(r, c, s, "write") \/ Begin(r, c, docs[d], "check")
      BY <2>4 DEF StartDelete
    <3>. HIDE DEF c, s
    <3>4. CASE Begin(r, c, s, "write")
      BY <1>4, <2>1, <3>1, <3>2, <3>4
    <3>5. CASE Begin(r, c, docs[d], "check")
      BY <1>4, <2>1, <3>1, <3>5
    <3>. QED
      BY <3>3, <3>4, <3>5
  <2>5. CASE StartRestore(r, d, t)
    <3>. DEFINE c == Request("restore", d, t)
                s == [docs[d] EXCEPT !.status = "ACTIVE"]
    <3>1. c.op = "restore" /\ c.doc = d
      BY DEF Request
    <3>2. \A op \in Traced : Owes(s, op) => Owes(docs[d], op) \/ c.op = op
      BY <2>2, <2>5, <3>1 DEF StartRestore, Restorable, Row, Owes, Traced
    <3>3. Begin(r, c, s, "write")
      BY <2>5 DEF StartRestore
    <3>. HIDE DEF c, s
    <3>. QED
      BY <1>4, <2>1, <3>1, <3>2, <3>3
  <2>6. ASSUME NEW p \in Policies, StartApply(r, d, t, p)
        PROVE  CopyTold(r)' /\ \A e \in Docs : docs'[e] = docs[e]
    <3>. DEFINE s == [docs[d] EXCEPT !.policy = p]
    <3>1. /\ Request("apply", d, t).doc = d
          /\ \A op \in Traced : Owes(s, op) => Owes(docs[d], op)
      BY <2>2 DEF Request, Row, Owes
    <3>2. Begin(r, Request("apply", d, t), s, "write")
      BY <2>6 DEF StartApply
    <3>. HIDE DEF s
    <3>. QED
      BY <1>4, <2>1, <3>1, <3>2
  <2>7. ASSUME NEW h \in Holds, StartPlace(r, d, t, h)
        PROVE  CopyTold(r)' /\ \A e \in Docs : docs'[e] = docs[e]
    <3>. DEFINE c == [Request("place", d, t) EXCEPT !.hold = h]
                s == [docs[d] EXCEPT !.hold = TRUE]
    <3>1. c.doc = d /\ \A op \in Traced : Owes(s, op) => Owes(docs[d], op)
      BY <2>2 DEF Request, Row, Owes
    <3>2. Begin(r, c, s, "write")
      BY <2>7 DEF StartPlace
    <3>. HIDE DEF c, s
    <3>. QED
      BY <1>4, <2>1, <3>1, <3>2
  <2>. QED
    BY <1>5, <2>3, <2>4, <2>5, <2>6, <2>7
<1>6. ASSUME NEW h \in Holds, NEW t \in Tenants, StartRelease(r, h, t)
      PROVE  CopyTold(r)' /\ docs' = docs
  <2>1. \E c : Begin(r, c, None, "list")
    BY <1>6 DEF StartRelease
  <2>2. pc'[r] = "list"
    BY <1>2, <2>1
  <2>. QED
    BY <1>6, <2>2 DEF StartRelease, CopyTold
<1>. QED
  BY <1>3, <1>5, <1>6 DEF Start

(* A request that goes on makes only copies that owe nothing, or what the row owes, or
   what the request itself will record, and writes only what has been told. *)
LEMMA GoingOnTold ==
  ASSUME ToldInv, [Next]_vars, NEW r \in Reqs, Continue(r) \/ Fail(r)
  PROVE  /\ CopyTold(r)'
         /\ \A d \in Docs :
              \/ docs'[d] = docs[d]
              \/ d \notin partial' => \A op \in Traced : Owes(docs'[d], op) => Told(d, op)'
<1>1. /\ pc[r] # "idle" /\ partial \subseteq partial'
      /\ Fits(call[r], snap[r], pc[r]) /\ Exists(call[r].doc)
  BY GoingOnShape, OthersStay DEF ToldInv, TypeInv, RequestOK
<1>2. PICK e \in Docs : call[r].doc = e
  BY <1>1 DEF Fits, Call
<1>3. docs[e] \in Row
  BY <1>1, <1>2 DEF ToldInv, TypeInv, TypeOK, Exists
<1>4. ASSUME NEW s, NEW at, Advance(r, s, at)
      PROVE  /\ pc'[r] = at /\ call' = call /\ snap'[r] = s /\ partial' = partial
             /\ \A op \in Traced : Told(call[r].doc, op)' <=> Told(e, op)'
  BY <1>2, <1>4 DEF Advance, ToldInv, TypeInv, TypeOK, Told, On
<1>5. ASSUME Finish(r) \/ Abandon(r) PROVE CopyTold(r)'
  BY <1>5 DEF Finish, Abandon, Close, CopyTold, ToldInv, TypeInv, TypeOK
(* The copy with which the request goes on. *)
<1>6. ASSUME NEW s, NEW at, Advance(r, s, at),
             e \notin partial' =>
               \A op \in Traced : Owes(s, op) => Told(e, op)' \/ (call[r].op = op /\ at = "write")
      PROVE  CopyTold(r)'
  <2>1. ASSUME NEW op \in Traced, Owes(snap'[r], op), call'[r].doc \notin partial'
        PROVE  Told(call[r].doc, op)' \/ (call'[r].op = op /\ pc'[r] = "write")
    BY <1>2, <1>4, <1>6, <2>1
  <2>. QED
    BY <2>1 DEF CopyTold, Owes
<1>7. CASE CreateVersion(r)
  <2>. DEFINE s == [snap[r] EXCEPT !.status = "ACTIVE", !.current = TRUE]
  <2>1. snap[r] \in Row
    BY <1>1, <1>7 DEF CreateVersion, Fits
  <2>2. \A op \in Traced : ~Owes(s, op)
    BY <2>1 DEF Row, Owes
  <2>3. Advance(r, s, "write") /\ docs' = docs
    BY <1>7 DEF CreateVersion
  <2>. HIDE DEF s
  <2>. QED
    BY <1>6, <2>2, <2>3
<1>8. CASE CheckRetention(r)
  <2>. DEFINE s == SoftDeleted(snap[r])
  <2>1. snap[r] \in Row /\ call[r].op = "delete"
    BY <1>1, <1>8 DEF CheckRetention, Fits
  <2>2. \A op \in Traced : Owes(s, op) => call[r].op = op
    BY <2>1 DEF SoftDeleted, Row, Owes
  <2>3. Advance(r, s, "write") /\ docs' = docs
    BY <1>8 DEF CheckRetention
  <2>. HIDE DEF s
  <2>. QED
    BY <1>6, <2>2, <2>3
<1>9. CASE RefuseVersion(r) \/ RefuseRetention(r) \/ WriteAudit(r) \/ InsertHold(r) \/ Fail(r)
  BY <1>5, <1>9 DEF RefuseVersion, RefuseRetention, WriteAudit, InsertHold, Fail
<1>10. CASE ListActive(r)
  <2>1. docs' = docs /\ (Advance(r, snap[r], "reread") \/ Finish(r))
    BY <1>10 DEF ListActive
  <2>. QED
    BY <1>4, <1>5, <2>1 DEF CopyTold
<1>11. CASE Reread(r)
  <2>. DEFINE s == [docs[e] EXCEPT !.hold = FALSE]
  <2>1. docs' = docs /\ (Advance(r, s, "write") \/ Abandon(r))
    BY <1>2, <1>11 DEF Reread
  <2>2. \A op \in Traced : Owes(s, op) => Owes(docs[e], op)
    BY <1>3 DEF Row, Owes
  <2>. HIDE DEF s
  <2>3. ASSUME e \notin partial', NEW op \in Traced, Owes(docs[e], op) PROVE Told(e, op)'
    BY <1>1, <1>2, <2>3, RowToldStays
  <2>. QED
    BY <1>5, <1>6, <2>1, <2>2, <2>3
<1>12. CASE Write(r)
  <2>. DEFINE w == Written(docs[e], snap[r])
  <2>1. /\ pc[r] = "write" /\ snap[r] \in Row /\ docs' = [docs EXCEPT ![e] = w]
        /\ Finish(r) \/ Advance(r, snap[r], AfterWrite(call[r].op))
        /\ call[r].op \in Traced => Advance(r, snap[r], "audit")
    BY <1>1, <1>2, <1>12 DEF Write, Fits, Traced, AfterWrite
  <2>2. \A op \in Traced : Owes(w, op) => Owes(snap[r], op)
    BY <1>3, <2>1 DEF Written, Row, Owes
  <2>. HIDE DEF w
  <2>3. ASSUME e \notin partial', NEW op \in Traced, Owes(snap[r], op) PROVE Told(e, op)'
    <3>1. Told(e, op) \/ call[r].op = op
      BY <1>1, <1>2, <2>1, <2>3 DEF ToldInv, CopyTold
    <3>2. CASE call[r].op = op
      <4>1. pc'[r] = "audit" /\ call' = call
        BY <1>4, <2>1, <2>3, <3>2
      <4>. QED
        BY <1>2, <3>2, <4>1 DEF Told, On
    <3>. QED
      BY <2>3, <3>1, <3>2, ToldStays DEF ToldInv
  <2>4. CopyTold(r)'
    BY <1>5, <1>6, <2>1, <2>3
  <2>. QED
    BY <2>1, <2>2, <2>3, <2>4 DEF ToldInv, TypeInv, TypeOK
<1>. QED
  BY <1>7, <1>8, <1>9, <1>10, <1>11, <1>12 DEF Continue

LEMMA ToldInvStep == ToldInv /\ [Next]_vars => ToldInv'
<1>. SUFFICES ASSUME ToldInv, [Next]_vars PROVE ToldInv'
  OBVIOUS
<1>1. TypeInv'
  BY TypeInvStep DEF ToldInv
<1>2. ASSUME NEW d \in Docs, docs'[d] = docs[d], partial \subseteq partial' PROVE RowTold(d)'
  BY <1>2, RowToldStays DEF RowTold, Exists, Owes
<1>3. ASSUME NEW q \in Reqs, pc'[q] = pc[q], call'[q] = call[q], snap'[q] = snap[q],
             partial \subseteq partial'
      PROVE  CopyTold(q)'
  <2>1. ASSUME pc[q] \in {"version", "check", "write", "audit", "insert"},
               call[q].doc \notin partial', NEW op \in Traced, Owes(snap[q], op),
               ~(call[q].op = op /\ pc[q] = "write")
        PROVE  Told(call[q].doc, op)'
    <3>1. PICK d \in Docs : call[q].doc = d
      BY <2>1 DEF ToldInv, TypeInv, RequestOK, Fits, Call
    <3>2. Told(d, op)
      BY <1>3, <2>1, <3>1 DEF ToldInv, CopyTold
    <3>3. Told(d, op)'
      BY <2>1, <3>1, <3>2, ToldStays DEF ToldInv
    <3>. QED
      BY <1>3, <3>1, <3>3 DEF Told, On
  <2>. QED
    BY <1>3, <2>1 DEF CopyTold, Owes
<1>4. ASSUME NEW r \in Reqs, Start(r) \/ Continue(r) \/ Fail(r)
      PROVE  (\A d \in Docs : RowTold(d)') /\ \A q \in Reqs : CopyTold(q)'
  <2>1. /\ \A q \in Reqs \ {r} : pc'[q] = pc[q] /\ call'[q] = call[q] /\ snap'[q] = snap[q]
        /\ partial \subseteq partial'
    BY <1>4, OthersStay DEF ToldInv
  <2>2. CopyTold(r)' /\ \A d \in Docs :
              \/ docs'[d] = docs[d]
              \/ d \notin partial' => \A op \in Traced : Owes(docs'[d], op) => Told(d, op)'
    BY <1>4, StartTold, GoingOnTold
  <2>3. ASSUME NEW d \in Docs PROVE RowTold(d)'
    <3>1. CASE docs'[d] = docs[d]
      BY <1>2, <2>1, <3>1
    <3>2. CASE d \notin partial' => \A op \in Traced : Owes(docs'[d], op) => Told(d, op)'
      BY <3>2 DEF RowTold, Owes
    <3>. QED
      BY <2>2, <3>1, <3>2
  <2>. QED
    BY <1>3, <2>1, <2>2, <2>3
<1>5. CASE (\E p \in Policies : CreatePolicy(p)) \/ Tick \/ UNCHANGED vars
  BY <1>1, <1>2, <1>3, <1>5, RestStays DEF ToldInv
<1>. QED
  BY <1>1, <1>4, <1>5 DEF Next, ToldInv

LEMMA ToldInvInit == Init => ToldInv
<1>. SUFFICES ASSUME Init PROVE (\A d \in Docs : RowTold(d)) /\ \A r \in Reqs : CopyTold(r)
  BY TypeInvInit DEF ToldInv
<1>. QED
  BY DEF Init, RowTold, CopyTold, Exists

THEOREM ToldInvariance == Spec => []ToldInv
<1>. QED
  BY ToldInvInit, ToldInvStep, PTL DEF Spec

(* Whatever requests overlap: the trail of a DELETED document records a deletion, or a
   delete request is about to record it, or a request on the document was abandoned. *)
THEOREM DeletionsAreAudited == Spec => []DeletedAudited
<1>1. ToldInv => DeletedAudited
  BY DEF ToldInv, RowTold, Owes, Traced, DeletedAudited
<1>. QED
  BY <1>1, ToldInvariance, PTL

(* Whatever requests overlap and whatever the width of the key column: an ACTIVE document
   without content was deleted and restored, and its trail says so or is about to, or a
   request on it was abandoned. *)
THEOREM EmptyActivesAreTold == Spec => []EmptyActiveTold
<1>1. ToldInv => EmptyActiveTold
  BY DEF ToldInv, RowTold, Owes, Traced, EmptyActiveTold
<1>. QED
  BY <1>1, ToldInvariance, PTL
=============================================================================
