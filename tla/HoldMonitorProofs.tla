------------------------- MODULE HoldMonitorProofs --------------------------
(***************************************************************************)
(* Theorems about HoldMonitor, for every value of its constants.           *)
(*                                                                         *)
(* A hold that the pass has still to look at is active, or has ended since *)
(* the pass began (Watching). What the session's document object says of   *)
(* its hold was true of every hold on the document that was active when    *)
(* the object was read (Judged): so a second hold may be judged by it.     *)
(***************************************************************************)
EXTENDS HoldMonitor, DocumentsProofs

Watching(h) == h \in pass.left => Active(h) \/ h \in ended

\* Hold h is judged, or will be, by the document object in the hands of the pass.
Judged(h) ==
  /\ pass.hold # None
  /\ h \in pass.left \cup {pass.hold}
  /\ holds[h].doc = holds[pass.hold].doc
  => /\ Suspect(pass.copy) => h \in exposed \cup ended
     /\ ~pass.copy.hold => holds[h].doc \in contended \/ h \in ended

PassInv ==
  /\ pass.at = "idle" => pass = NoPass
  /\ pass.at = "report" => Suspect(pass.copy)
  /\ pass.hold # None => pass.copy \in Row /\ holds[pass.hold] # None
  /\ \A h \in pass.odd : holds[h] # None
  /\ \A h \in Holds : Watching(h) /\ Judged(h)

MonitorInv == RegisterInv /\ WatchedTypeOK /\ PassInv /\ OddExplained

-----------------------------------------------------------------------------
(* Requests and time go on during a pass *)

\* A hold once stored stays, on the document it is on.
HoldsStay ==
  \A h \in Holds : holds[h] # None => holds'[h] # None /\ holds'[h].doc = holds[h].doc

(* No request deletes a hold or moves it; an insertion takes a fresh id. *)
LEMMA RequestsKeepHolds ==
  ASSUME RegisterInv, Next
  PROVE  HoldsStay /\ contended \subseteq contended'
<1>. USE DEF RegisterInv, HoldInv, TypeInv, TypeOK
<1>1. ASSUME NEW r \in Reqs, Start(r) PROVE HoldsStay /\ contended \subseteq contended'
  <2>1. contended \subseteq contended'
    BY <1>1 DEF Start, StartUpload, StartUpdate, StartDelete, StartRestore, StartApply,
                StartPlace, StartRelease, Begin
  <2>2. ASSUME NEW h \in Holds, NEW t \in Tenants, StartRelease(r, h, t) PROVE HoldsStay
    BY <2>2, NoneIsNothing DEF StartRelease, HoldsStay, HoldRow
  <2>3. CASE holds' = holds
    BY <2>1, <2>3 DEF HoldsStay
  <2>4. holds' = holds \/ \E h \in Holds, t \in Tenants : StartRelease(r, h, t)
    BY <1>1 DEF Start, StartUpload, StartUpdate, StartDelete, StartRestore, StartApply,
                StartPlace
  <2>. QED
    BY <2>1, <2>2, <2>3, <2>4
<1>2. ASSUME NEW r \in Reqs, Continue(r) \/ Fail(r)
      PROVE  HoldsStay /\ contended \subseteq contended'
  <2>1. contended' = contended
    BY <1>2 DEF Continue, CreateVersion, RefuseVersion, CheckRetention, RefuseRetention,
                Write, WriteAudit, InsertHold, ListActive, Reread, Fail, Finish, Abandon,
                Close, Advance
  <2>2. CASE InsertHold(r)
    <3>1. call[r].op = "place" /\ pc[r] # "idle"
      BY <2>2 DEF InsertHold, RequestOK, Fits
    <3>2. holds[call[r].hold] = None
      BY <3>1 DEF FreshIds
    <3>3. \A h \in Holds \ {call[r].hold} : holds'[h] = holds[h]
      BY <2>2 DEF InsertHold
    <3>. QED
      BY <2>1, <3>2, <3>3 DEF HoldsStay
  <2>3. CASE ~InsertHold(r)
    <3>1. holds' = holds
      BY <1>2, <2>3 DEF Continue, CreateVersion, RefuseVersion, CheckRetention,
                RefuseRetention, Write, WriteAudit, ListActive, Reread, Fail
    <3>. QED
      BY <2>1, <3>1 DEF HoldsStay
  <2>. QED
    BY <2>2, <2>3
<1>3. CASE (\E p \in Policies : CreatePolicy(p)) \/ Tick
  BY <1>3 DEF CreatePolicy, Tick, HoldsStay, history
<1>. QED
  BY <1>1, <1>2, <1>3 DEF Next

(* While a pass lasts, what is remembered of it only grows. *)
LEMMA Remembers ==
  ASSUME Remember, pass'.at # "idle"
  PROVE  /\ exposed' = exposed \cup Exposed'
         /\ ended' = ended \cup (Snapshot \ Snapshot')
  BY DEF Remember

(* A pass that waits while requests go on keeps what it needs. *)
LEMMA PassWaits ==
  ASSUME MonitorInv, Next, UNCHANGED monitor, Remember
  PROVE  MonitorInv'
<1>1. RegisterInv'
  BY RegisterInvStep DEF MonitorInv
<1>2. HoldsStay /\ contended \subseteq contended'
  BY RequestsKeepHolds DEF MonitorInv
<1>3. pass' = pass /\ reported' = reported
  BY DEF monitor
<1>. USE <1>3 DEF MonitorInv
<1>4. pass.at # "idle" => /\ exposed \subseteq exposed'
                          /\ ended \subseteq ended'
                          /\ Snapshot \ Snapshot' \subseteq ended'
  BY Remembers
<1>5. pass.left # {} \/ pass.hold # None \/ pass.odd # {} => pass.at # "idle"
  BY DEF PassInv, NoPass
<1>6. WatchedTypeOK'
  <2>1. exposed' \subseteq Holds /\ ended' \subseteq Holds
    BY DEF Remember, Exposed, Snapshot, WatchedTypeOK
  <2>2. ASSUME NEW h \in pass.left PROVE holds'[h] # None /\ Exists(holds[h].doc)'
    <3>1. h \in Holds /\ holds[h] # None
      BY DEF WatchedTypeOK, Pass
    <3>2. holds'[h] # None /\ holds'[h].doc = holds[h].doc
      BY <1>2, <3>1 DEF HoldsStay
    <3>3. Exists(holds[h].doc)'
      BY <1>1, <3>1, <3>2 DEF RegisterInv, HoldInv, TypeInv, TablesOK
    <3>. QED
      BY <3>2, <3>3
  <2>. QED
    BY <2>1, <2>2 DEF WatchedTypeOK
<1>7. PassInv'
  <2>1. pass.hold # None => pass.hold \in Holds /\ holds'[pass.hold] # None
                            /\ holds'[pass.hold].doc = holds[pass.hold].doc
    BY <1>2 DEF PassInv, HoldsStay, WatchedTypeOK, Pass
  <2>2. \A h \in pass.odd : holds'[h] # None
    BY <1>2 DEF PassInv, HoldsStay, WatchedTypeOK, Pass
  <2>3. ASSUME NEW h \in Holds PROVE Watching(h)'
    <3>1. Active(h) /\ ~Active(h)' => h \in Snapshot \ Snapshot'
      BY DEF Snapshot
    <3>. QED
      BY <1>4, <1>5, <3>1 DEF Watching, PassInv
  <2>4. ASSUME NEW h \in Holds PROVE Judged(h)'
    <3>. SUFFICES ASSUME pass.hold # None, h \in pass.left \cup {pass.hold},
                         holds'[h].doc = holds'[pass.hold].doc
                  PROVE  /\ Suspect(pass.copy) => h \in exposed' \cup ended'
                         /\ ~pass.copy.hold => holds'[h].doc \in contended' \/ h \in ended'
      BY DEF Judged, Suspect
    <3>1. holds[h] # None
      BY DEF WatchedTypeOK, PassInv
    <3>2. holds'[h].doc = holds[h].doc
      BY <1>2, <3>1 DEF HoldsStay
    <3>3. holds[h].doc = holds[pass.hold].doc
      BY <2>1, <3>2
    <3>. QED
      BY <1>2, <1>4, <1>5, <3>2, <3>3 DEF PassInv, Judged
  <2>. QED
    BY <2>1, <2>2, <2>3, <2>4 DEF PassInv, Suspect
<1>8. OddExplained'
  <2>. SUFFICES ASSUME NEW h \in pass.odd
                PROVE  holds'[h].doc \in contended' \/ h \in ended'
    BY DEF OddExplained
  <2>1. h \in Holds /\ holds[h] # None /\ pass.at # "idle"
    BY <1>5 DEF WatchedTypeOK, Pass, PassInv
  <2>. QED
    BY <1>2, <1>4, <2>1 DEF OddExplained, HoldsStay
<1>. QED
  BY <1>1, <1>6, <1>7, <1>8

-----------------------------------------------------------------------------
(* The pass goes on *)

(* What the look at a hold sees of its document was true, since the pass began, of
   every hold on it that the pass has still to look at. *)
LEMMA LookSees ==
  ASSUME MonitorInv, NEW h \in pass.left, NEW g \in pass.left,
         holds[g].doc = holds[h].doc, pass.at = "look"
  PROVE  LET row == Selected(holds[h].doc)
         IN  /\ row \in Row
             /\ Suspect(row) => g \in exposed \cup Exposed \cup ended
             /\ ~row.hold => holds[g].doc \in contended \/ g \in ended
<1>. DEFINE d == holds[h].doc
<1>. USE DEF MonitorInv
<1>1. g \in Holds /\ h \in Holds /\ holds[g] # None /\ holds[h] # None /\ Exists(d)
  BY DEF WatchedTypeOK, Pass
<1>2. CASE pass.hold # None /\ holds[pass.hold].doc = d
  <2>1. Selected(d) = pass.copy
    BY <1>2 DEF Selected
  <2>2. Judged(g) /\ pass.copy \in Row
    BY <1>1, <1>2 DEF PassInv
  <2>. QED
    BY <1>2, <2>1, <2>2 DEF Judged
<1>3. CASE ~(pass.hold # None /\ holds[pass.hold].doc = d)
  <2>1. Selected(d) = docs[d]
    BY <1>3 DEF Selected
  <2>2. d \in Docs /\ holds[g].doc \in Docs
    BY <1>1 DEF RegisterInv, HoldInv, TypeInv, TypeOK, HoldRow
  <2>3. docs[d] \in Row
    BY <1>1, <2>2 DEF RegisterInv, HoldInv, TypeInv, TypeOK, Exists
  <2>4. Active(g) \/ g \in ended
    BY <1>1 DEF PassInv, Watching
  <2>5. Active(g) /\ Suspect(docs[d]) => g \in Exposed
    BY <1>1 DEF Exposed, Suspect
  <2>6. Active(g) /\ d \notin contended => docs[d].hold
    <3>1. Active(g) => g \in ActiveHolds(d)
      BY <1>1 DEF Active, ActiveHolds
    <3>2. Covered(d)
      BY <2>2 DEF RegisterInv, HoldInv
    <3>. QED
      BY <3>1, <3>2 DEF Covered
  <2>. QED
    BY <2>1, <2>3, <2>4, <2>5, <2>6
<1>. QED
  BY <1>2, <1>3

(* The pass moves on to a state whose parts are justified by what was so before. *)
LEMMA PassMoves ==
  ASSUME MonitorInv, UNCHANGED vars, Remember, pass' \in Pass, reported' \subseteq Holds,
         pass'.at # "idle",
         pass'.at = "report" => pass'.hold # None /\ Suspect(pass'.copy),
         pass'.hold # None => pass'.copy \in Row /\ holds[pass'.hold] # None,
         \A h \in pass'.left : Active(h) \/ h \in ended,
         \A h \in pass'.left \cup pass'.odd : holds[h] # None,
         \A h \in Holds :
           /\ pass'.hold # None
           /\ h \in pass'.left \cup {pass'.hold}
           /\ holds[h].doc = holds[pass'.hold].doc
           => /\ Suspect(pass'.copy) => h \in exposed \cup Exposed \cup ended
              /\ ~pass'.copy.hold => holds[h].doc \in contended \/ h \in ended,
         \A h \in pass'.odd : holds[h].doc \in contended \/ h \in ended
  PROVE  MonitorInv'
<1>. USE DEF MonitorInv
<1>1. docs' = docs /\ holds' = holds /\ contended' = contended
  BY DEF vars
<1>2. Exposed' = Exposed /\ Snapshot' = Snapshot /\ \A h \in Holds : Active(h)' <=> Active(h)
  BY <1>1 DEF Exposed, Snapshot, Active
<1>3. exposed' = exposed \cup Exposed /\ ended' = ended
  BY <1>2, Remembers
<1>4. RegisterInv'
  BY RegisterInvStep
<1>5. WatchedTypeOK'
  <2>1. exposed' \subseteq Holds /\ ended' \subseteq Holds
    BY <1>3 DEF Exposed, WatchedTypeOK
  <2>2. pass'.at = "report" => pass'.hold # None /\ pass'.copy # None
    BY NoneIsNothing
  <2>3. \A h \in pass'.left : holds'[h] # None /\ Exists(holds[h].doc)'
    BY <1>1 DEF RegisterInv, HoldInv, TypeInv, TablesOK, Exists, Pass
  <2>. QED
    BY <2>1, <2>2, <2>3 DEF WatchedTypeOK
<1>6. PassInv'
  <2>1. \A h \in Holds : Watching(h)'
    BY <1>2, <1>3 DEF Watching
  <2>2. ASSUME NEW h \in Holds PROVE Judged(h)'
    BY <1>1, <1>3 DEF Judged, Suspect
  <2>. QED
    BY <1>1, <2>1, <2>2 DEF PassInv, Suspect
<1>7. OddExplained'
  BY <1>1, <1>3 DEF OddExplained
<1>. QED
  BY <1>4, <1>5, <1>6, <1>7

(* A pass that ends leaves nothing behind. *)
LEMMA PassEnds ==
  ASSUME MonitorInv, UNCHANGED vars, Remember, pass' = NoPass, reported' = {}
  PROVE  MonitorInv'
<1>1. RegisterInv'
  BY RegisterInvStep DEF MonitorInv
<1>2. exposed' = {} /\ ended' = {}
  BY DEF Remember, NoPass
<1>3. WatchedTypeOK'
  BY <1>2 DEF WatchedTypeOK, NoPass, Pass
<1>4. PassInv'
  BY DEF PassInv, NoPass, Watching, Judged, Suspect
<1>5. OddExplained'
  BY DEF OddExplained, NoPass
<1>. QED
  BY <1>1, <1>3, <1>4, <1>5 DEF MonitorInv

(* Counted adds the hold looked at to the odd ones if its object has no flag. *)
LEMMA CountedIs ==
  ASSUME NEW p \in Pass, p.hold \in Holds
  PROVE  /\ Counted(p) \in Pass
         /\ Counted(p).at = "look"
         /\ Counted(p).left = p.left
         /\ Counted(p).hold = p.hold
         /\ Counted(p).copy = p.copy
         /\ Counted(p).odd = p.odd \cup {h \in {p.hold} : ~p.copy.hold}
<1>. DEFINE odd == p.odd \cup {h \in {p.hold} : ~p.copy.hold}
<1>1. Counted(p) = [p EXCEPT !.at = "look", !.odd = odd]
  BY DEF Counted
<1>2. odd \subseteq Holds
  BY DEF Pass
<1>. HIDE DEF odd
<1>3. Counted(p) \in Pass
  BY <1>1, <1>2 DEF Pass
<1>4. /\ Counted(p).at = "look" /\ Counted(p).odd = odd
      /\ Counted(p).left = p.left /\ Counted(p).hold = p.hold /\ Counted(p).copy = p.copy
  BY <1>1 DEF Pass
<1>. QED
  BY <1>3, <1>4 DEF odd

LEMMA LookKept ==
  ASSUME MonitorInv, UNCHANGED vars, Remember, NEW h \in Holds, Look(h)
  PROVE  MonitorInv'
<1>. DEFINE row  == Selected(holds[h].doc)
            seen == [pass EXCEPT !.left = @ \ {h}, !.hold = h, !.copy = row]
<1>1. pass \in Pass /\ pass.at = "look" /\ h \in pass.left /\ h # None
      /\ reported' = reported /\ reported \subseteq Holds
  BY NoneAssumption DEF Look, MonitorInv, WatchedTypeOK
<1>2. row \in Row
  BY <1>1, LookSees
<1>3. \/ Suspect(row) /\ pass' = [seen EXCEPT !.at = "report"]
      \/ ~Suspect(row) /\ pass' = Counted(seen)
  BY DEF Look
<1>4. \A g \in pass.left : holds[g] # None
  BY DEF MonitorInv, WatchedTypeOK
<1>5. ASSUME NEW g \in pass.left, holds[g].doc = holds[h].doc
      PROVE  /\ Suspect(row) => g \in exposed \cup Exposed \cup ended
             /\ ~row.hold => holds[g].doc \in contended \/ g \in ended
  BY <1>1, <1>5, LookSees
<1>6. /\ \A g \in pass.left : Active(g) \/ g \in ended
      /\ \A g \in pass.odd : holds[g] # None /\ (holds[g].doc \in contended \/ g \in ended)
  BY <1>1 DEF MonitorInv, PassInv, OddExplained, Watching, Pass
<1>. HIDE DEF row
<1>7. /\ seen \in Pass /\ seen.left = pass.left \ {h} /\ seen.hold = h
      /\ seen.copy = row /\ seen.odd = pass.odd
  BY <1>1, <1>2 DEF Pass
<1>8. [seen EXCEPT !.at = "report"] \in Pass
  BY <1>1, <1>2 DEF Pass
<1>9. /\ pass' \in Pass /\ pass'.left = pass.left \ {h} /\ pass'.hold = h
      /\ pass'.copy = row
      /\ pass'.at \in {"look", "report"} /\ (pass'.at = "report" => Suspect(row))
      /\ pass'.odd \subseteq pass.odd \cup {g \in {h} : ~row.hold}
  <2>1. CASE Suspect(row) /\ pass' = [seen EXCEPT !.at = "report"]
    BY <1>1, <1>7, <1>8, <2>1 DEF Pass
  <2>2. CASE ~Suspect(row) /\ pass' = Counted(seen)
    <3>. HIDE DEF seen
    <3>. QED
      BY <1>7, <2>2, CountedIs
  <2>. QED
    BY <1>3, <2>1, <2>2
<1>. HIDE DEF seen
<1>10. \A g \in pass'.odd : holds[g] # None /\ (holds[g].doc \in contended \/ g \in ended)
  BY <1>1, <1>4, <1>5, <1>6, <1>9
<1>11. \A g \in pass'.left \cup {h} : g \in pass.left
  BY <1>1, <1>9
<1>. QED
  BY <1>1, <1>2, <1>4, <1>5, <1>6, <1>9, <1>10, <1>11, PassMoves

LEMMA ReportKept ==
  ASSUME MonitorInv, UNCHANGED vars, Remember, Report
  PROVE  MonitorInv'
<1>1. /\ pass \in Pass /\ pass.at = "report" /\ pass.hold # None /\ pass.hold \in Holds
      /\ pass' = Counted(pass) /\ reported' = reported \cup {pass.hold}
      /\ reported \subseteq Holds
  BY DEF Report, MonitorInv, WatchedTypeOK, Pass
<1>2. /\ pass' \in Pass /\ pass'.at = "look" /\ pass'.left = pass.left
      /\ pass'.hold = pass.hold /\ pass'.copy = pass.copy
      /\ pass'.odd = pass.odd \cup {g \in {pass.hold} : ~pass.copy.hold}
  BY <1>1, CountedIs
<1>3. /\ pass.copy \in Row /\ holds[pass.hold] # None
      /\ \A g \in pass.left : holds[g] # None /\ (Active(g) \/ g \in ended)
      /\ \A g \in pass.odd : holds[g] # None /\ (holds[g].doc \in contended \/ g \in ended)
      /\ \A g \in Holds : Judged(g)
  BY <1>1 DEF MonitorInv, WatchedTypeOK, PassInv, OddExplained, Watching, Pass
<1>4. ~pass.copy.hold => holds[pass.hold].doc \in contended \/ pass.hold \in ended
  BY <1>1, <1>3 DEF Judged
<1>5. \A g \in pass'.odd : holds[g] # None /\ (holds[g].doc \in contended \/ g \in ended)
  BY <1>2, <1>3, <1>4
<1>6. \A g \in Holds :
        /\ pass'.hold # None
        /\ g \in pass'.left \cup {pass'.hold}
        /\ holds[g].doc = holds[pass'.hold].doc
        => /\ Suspect(pass'.copy) => g \in exposed \cup Exposed \cup ended
           /\ ~pass'.copy.hold => holds[g].doc \in contended \/ g \in ended
  BY <1>2, <1>3 DEF Judged
<1>. QED
  BY <1>1, <1>2, <1>3, <1>5, <1>6, PassMoves

LEMMA BeginPassKept ==
  ASSUME MonitorInv, UNCHANGED vars, Remember, BeginPass
  PROVE  MonitorInv'
<1>1. /\ pass' \in Pass /\ pass'.at = "look" /\ pass'.left = Snapshot
      /\ pass'.hold = None /\ pass'.odd = {}
  BY DEF BeginPass, NoPass, Pass, Snapshot
<1>2. reported' \subseteq Holds
  BY DEF BeginPass, MonitorInv, WatchedTypeOK
<1>3. \A h \in Snapshot : Active(h) /\ holds[h] # None
  BY DEF Snapshot, Active
<1>. QED
  BY <1>1, <1>2, <1>3, PassMoves

-----------------------------------------------------------------------------
(* Every step *)

LEMMA MonitorInvInit == WatchedInit => MonitorInv
<1>. SUFFICES ASSUME WatchedInit PROVE MonitorInv
  OBVIOUS
<1>1. RegisterInv
  BY RegisterInvInit DEF WatchedInit
<1>2. WatchedTypeOK
  BY DEF WatchedInit, WatchedTypeOK, NoPass, Pass
<1>3. PassInv /\ OddExplained
  BY DEF WatchedInit, PassInv, NoPass, Watching, Judged, OddExplained
<1>. QED
  BY <1>1, <1>2, <1>3 DEF MonitorInv

LEMMA MonitorInvStep == MonitorInv /\ [WatchedNext]_watchedVars => MonitorInv'
<1>. SUFFICES ASSUME MonitorInv, [WatchedNext]_watchedVars PROVE MonitorInv'
  OBVIOUS
<1>1. CASE Next /\ UNCHANGED monitor /\ Remember
  BY <1>1, PassWaits
<1>2. CASE TaskStep
  <2>1. CASE BeginPass
    BY <1>2, <2>1, BeginPassKept DEF TaskStep
  <2>2. ASSUME NEW h \in Holds, Look(h) PROVE MonitorInv'
    BY <1>2, <2>2, LookKept DEF TaskStep
  <2>3. CASE Report
    BY <1>2, <2>3, ReportKept DEF TaskStep
  <2>4. CASE EndPass
    BY <1>2, <2>4, PassEnds DEF TaskStep, EndPass
  <2>. QED
    BY <1>2, <2>1, <2>2, <2>3, <2>4 DEF TaskStep, MonitorStep
<1>3. CASE FailPass /\ UNCHANGED vars /\ Remember
  BY <1>3, PassEnds DEF FailPass
<1>4. CASE UNCHANGED watchedVars
  <2>1. /\ UNCHANGED vars /\ pass' = pass /\ reported' = reported
        /\ exposed' = exposed /\ ended' = ended
    BY <1>4 DEF watchedVars, monitor
  <2>2. RegisterInv'
    BY <2>1, RegisterInvStep DEF MonitorInv
  <2>3. docs' = docs /\ holds' = holds /\ contended' = contended
    BY <2>1 DEF vars
  <2>. QED
    BY <2>1, <2>2, <2>3 DEF MonitorInv, WatchedTypeOK, PassInv, OddExplained, Watching,
                            Judged, Active, Suspect, Exists
<1>. QED
  BY <1>1, <1>2, <1>3, <1>4 DEF WatchedNext

THEOREM MonitorInvariance == WatchedSpec => []MonitorInv
<1>. QED
  BY MonitorInvInit, MonitorInvStep, PTL DEF WatchedSpec

(* The pass keeps its type: it never looks for a document that is not there, and it
   has one in its hands when it reports. *)
THEOREM MonitorTypeCorrect == WatchedSpec => []WatchedTypeOK
<1>1. MonitorInv => WatchedTypeOK
  BY DEF MonitorInv
<1>. QED
  BY <1>1, MonitorInvariance, PTL

(* A report of a document deleted under an active hold is right of some instant of
   the pass, or the hold was released since the pass read it: also where the
   document object of an earlier hold is what the pass went by. *)
THEOREM MonitorReportsTruth == WatchedSpec => []ReportsJustified
<1>1. MonitorInv => ReportsJustified
  BY DEF MonitorInv, ReportsJustified, WatchedTypeOK, Pass, PassInv, Judged
<1>. QED
  BY <1>1, MonitorInvariance, PTL

(* A hold counted as inconsistent is on a document that two requests have handled at
   once, or was released during the pass. It rests on HoldCovered. *)
THEOREM OddHoldsExplained == WatchedSpec => []OddExplained
<1>1. MonitorInv => OddExplained
  BY DEF MonitorInv
<1>. QED
  BY <1>1, MonitorInvariance, PTL
=============================================================================
