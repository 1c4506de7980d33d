------------------------ MODULE RetentionScanProofs -------------------------
(***************************************************************************)
(* Theorems about RetentionScan, for every value of its constants.         *)
(*                                                                         *)
(* What a scan judges is what stood in the tables at its second join, or   *)
(* the document was written between the joins (Standing). Time only moves  *)
(* on, so what is eligible at the time the scan goes by was deletable at   *)
(* that join (Judged), and stays remembered.                               *)
(***************************************************************************)
EXTENDS RetentionScan, DocumentsProofs

Standing(d) ==
  scan.at = "join" =>
    d \in torn \/ scan.objects[d] = (IF Joined(d) THEN docs[d] ELSE None)

Judged(d) ==
  /\ scan.at \in {"judge", "report"}
  /\ scan.objects[d] # None /\ Eligible(scan.objects[d], scan.began)
  => d \in deletable \cup torn

ScanInv ==
  /\ TypeInv
  /\ ScannedTypeOK
  /\ \A d \in Docs : Standing(d) /\ Judged(d)
  /\ EligibleWasDeletable

\* Time does not go back.
LEMMA TimeMovesOn ==
  ASSUME TypeInv, [Next]_vars
  PROVE  now \in Nat /\ now' \in Nat /\ now <= now'
<1>1. now \in Nat
  BY MaxTimeAssumption DEF TypeInv, TypeOK
<1>2. now' = now \/ Tick
  <2>1. ASSUME NEW r \in Reqs, Start(r) PROVE now' = now
    BY <2>1 DEF Start, StartUpload, StartUpdate, StartDelete, StartRestore, StartApply,
                StartPlace, StartRelease
  <2>2. ASSUME NEW r \in Reqs, Continue(r) \/ Fail(r) PROVE now' = now
    BY <2>2 DEF Continue, CreateVersion, RefuseVersion, CheckRetention, RefuseRetention,
                Write, WriteAudit, InsertHold, ListActive, Reread, Fail
  <2>. QED
    BY <2>1, <2>2 DEF Next, CreatePolicy, vars
<1>. QED
  BY <1>1, <1>2 DEF Tick

\* What is eligible by an earlier time would be deleted now on request.
LEMMA EligibleIsDeletable ==
  ASSUME TypeInv, NEW d \in Docs, Joined(d), NEW time \in Nat, time <= now,
         Eligible(docs[d], time)
  PROVE  d \in Deletable
<1>1. docs[d] \in Row /\ docs[d].policy \in Policy /\ now \in Nat /\ docs[d].created \in Nat
  BY PoliciesAssumption, MaxTimeAssumption DEF Joined, Exists, TypeInv, TypeOK, Row
<1>2. CanDelete(docs[d].policy, docs[d].created, now)
  BY <1>1 DEF Eligible, CanDelete, Expired, Expiry, Policy, Modes
<1>3. HoldPermits(docs[d], FALSE) /\ RetentionPermits(docs[d], FALSE)
  BY <1>2 DEF HoldPermits, RetentionPermits, Eligible
<1>. QED
  BY <1>3 DEF Joined, Deletable

-----------------------------------------------------------------------------
(* Requests and time go on during a scan *)

LEMMA RequestsKeepScan ==
  ASSUME ScanInv, [Next]_vars, UNCHANGED scanner, Remember \/ UNCHANGED <<vars, deletable, torn>>
  PROVE  ScanInv'
<1>1. TypeInv' /\ now \in Nat /\ now' \in Nat /\ now <= now'
  BY TypeInvStep, TimeMovesOn DEF ScanInv
<1>2. scan' = scan /\ applied' = applied
  BY DEF scanner
<1>3. scan.at # "idle" => deletable \subseteq deletable' /\ torn \subseteq torn'
  BY <1>2 DEF Remember
<1>4. deletable' \subseteq Docs /\ torn' \subseteq Docs
  BY DEF Remember, Deletable, ScanInv, ScannedTypeOK
<1>5. scan \in Scan /\ scan.began \in Nat
  BY MaxTimeAssumption DEF ScanInv, ScannedTypeOK, Scan
<1>6. ScannedTypeOK'
  BY <1>1, <1>2, <1>4, <1>5 DEF ScanInv, ScannedTypeOK
<1>7. ASSUME NEW d \in Docs PROVE Standing(d)'
  <2>1. CASE docs'[d] = docs[d]
    BY <1>2, <1>3, <2>1 DEF ScanInv, Standing, Joined, Exists
  <2>2. CASE docs'[d] # docs[d]
    BY <1>2, <2>2 DEF Remember, Standing, vars
  <2>. QED
    BY <2>1, <2>2
<1>8. \A d \in Docs : Judged(d)'
  BY <1>2, <1>3 DEF ScanInv, Judged, Eligible
<1>9. EligibleWasDeletable'
  BY <1>2, <1>3 DEF ScanInv, EligibleWasDeletable
<1>. QED
  BY <1>1, <1>6, <1>7, <1>8, <1>9 DEF ScanInv

-----------------------------------------------------------------------------
(* Steps of the scan *)


LEMMA ScanMoves ==
  ASSUME ScanInv, UNCHANGED vars, Remember
  PROVE  /\ TypeInv' /\ UNCHANGED <<docs, now>> /\ now \in Nat
         /\ deletable' \subseteq Docs /\ torn' \subseteq Docs
         /\ scan'.at # "idle" =>
              deletable \subseteq deletable' /\ torn \subseteq torn' /\ Deletable \subseteq deletable'
<1>1. UNCHANGED <<docs, now>>
  BY DEF vars
<1>2. Deletable' = Deletable
  BY <1>1 DEF Deletable, Exists, HoldPermits, RetentionPermits
<1>3. TypeInv' /\ now \in Nat
  BY TypeInvStep, MaxTimeAssumption DEF ScanInv, TypeInv, TypeOK
<1>. QED
  BY <1>1, <1>2, <1>3 DEF Remember, Deletable, ScanInv, ScannedTypeOK

LEMMA RestedScan ==
  ASSUME ScanInv, UNCHANGED vars, Remember, scan' = NoScan, applied' \subseteq Docs
  PROVE  ScanInv'
<1>1. NoScan \in Scan /\ NoScan.at = "idle" /\ NoScan.began = 0
  BY MaxTimeAssumption DEF NoScan, Scan
<1>2. ScannedTypeOK'
  BY <1>1, ScanMoves DEF ScannedTypeOK
<1>. QED
  BY <1>1, <1>2, ScanMoves DEF ScanInv, Standing, Judged, EligibleWasDeletable

LEMMA BeginScanKeeps ==
  ASSUME ScanInv, UNCHANGED vars, Remember, BeginScan
  PROVE  ScanInv'
<1>. DEFINE objects == [d \in Docs |-> IF Joined(d) THEN docs[d] ELSE None]
<1>1. /\ scan' = [NoScan EXCEPT !.at = "join", !.began = now, !.objects = objects]
      /\ applied' = applied
  BY DEF BeginScan
<1>2. \A d \in Docs : Joined(d) => docs[d] \in Row
  BY DEF Joined, Exists, ScanInv, TypeInv, TypeOK
<1>3. objects \in [Docs -> Row \cup {None}]
  BY <1>2
<1>. HIDE DEF objects
<1>4. scan' \in Scan /\ scan'.at = "join" /\ scan'.began = now /\ scan'.objects = objects
  BY <1>1, <1>3 DEF NoScan, Scan, ScanInv, TypeInv, TypeOK
<1>5. ScannedTypeOK'
  BY <1>1, <1>4, ScanMoves DEF ScanInv, ScannedTypeOK
<1>6. \A d \in Docs : Standing(d)'
  BY <1>4, ScanMoves DEF Standing, Joined, Exists, objects
<1>. QED
  BY <1>4, <1>5, <1>6, ScanMoves DEF ScanInv, Judged, EligibleWasDeletable

LEMMA JoinKeeps ==
  ASSUME ScanInv, UNCHANGED vars, Remember, Join
  PROVE  ScanInv'
<1>. DEFINE objects == [d \in Docs |-> IF Joined(d) THEN Yielded(d) ELSE None]
<1>1. /\ scan.at = "join" /\ scan' = [scan EXCEPT !.at = "judge", !.objects = objects]
      /\ applied' = applied /\ scan \in Scan /\ scan.began \in Nat
  BY MaxTimeAssumption DEF Join, ScanInv, ScannedTypeOK, Scan
<1>2. ASSUME NEW d \in Docs, Joined(d)
      PROVE  Yielded(d) \in Row /\ Yielded(d).policy # None
             /\ (scan.objects[d] = docs[d] => Yielded(d) = docs[d])
             /\ (scan.objects[d] = None => Yielded(d) = docs[d])
  <2>1. docs[d] \in Row /\ docs[d].policy # None
    BY <1>2 DEF Joined, Exists, ScanInv, TypeInv, TypeOK
  <2>2. scan.objects[d] # None => scan.objects[d] \in Row
    BY <1>1 DEF Scan
  <2>3. ASSUME NEW row \in Row
        PROVE  [row EXCEPT !.policy = docs[d].policy] \in Row
               /\ [row EXCEPT !.policy = docs[d].policy].policy = docs[d].policy
    BY <2>1 DEF Row
  <2>4. [docs[d] EXCEPT !.policy = docs[d].policy] = docs[d]
    BY <2>1 DEF Row
  <2>. QED
    BY <2>1, <2>2, <2>3, <2>4 DEF Yielded
<1>3. objects \in [Docs -> Row \cup {None}]
  BY <1>2
<1>4. ASSUME NEW d \in Docs, objects[d] # None PROVE Joined(d) /\ objects[d] = Yielded(d)
  BY <1>4
<1>. HIDE DEF objects
<1>5. /\ scan' \in Scan /\ scan'.at = "judge" /\ scan'.began = scan.began
      /\ scan'.objects = objects
  BY <1>1, <1>3 DEF Scan
<1>6. ScannedTypeOK'
  BY <1>1, <1>2, <1>4, <1>5, ScanMoves DEF ScanInv, ScannedTypeOK
<1>7. ASSUME NEW d \in Docs, objects[d] # None, Eligible(objects[d], scan.began), d \notin torn
      PROVE  d \in deletable'
  <2>1. objects[d] = docs[d] /\ Joined(d)
    BY <1>1, <1>2, <1>4, <1>7 DEF ScanInv, Standing
  <2>2. d \in Deletable
    BY <1>1, <1>7, <2>1, EligibleIsDeletable DEF ScanInv, ScannedTypeOK
  <2>. QED
    BY <1>5, <2>2, ScanMoves
<1>8. \A d \in Docs : Judged(d)'
  BY <1>5, <1>7, ScanMoves DEF Judged, Eligible
<1>. QED
  BY <1>5, <1>6, <1>8, ScanMoves DEF ScanInv, Standing, EligibleWasDeletable

LEMMA JudgeKeeps ==
  ASSUME ScanInv, UNCHANGED vars, Remember, NEW d \in Docs, Judge(d)
  PROVE  ScanInv'
<1>1. /\ scan.at = "judge" /\ scan.objects[d] # None /\ scan \in Scan
      /\ applied' = applied
  BY DEF Judge, ScanInv, ScannedTypeOK
<1>2. CASE Eligible(scan.objects[d], scan.began) /\ scan' = [scan EXCEPT !.at = "report", !.doc = d]
  <2>1. /\ scan' \in Scan /\ scan'.at = "report" /\ scan'.doc = d /\ scan'.began = scan.began
        /\ scan'.objects = scan.objects
    BY <1>1, <1>2 DEF Scan
  <2>2. d \in deletable \cup torn
    BY <1>1, <1>2 DEF ScanInv, Judged
  <2>3. d # None
    BY NoneAssumption
  <2>4. ScannedTypeOK'
    BY <1>1, <2>1, <2>3, ScanMoves DEF ScanInv, ScannedTypeOK
  <2>5. \A e \in Docs : Judged(e)'
    BY <1>1, <2>1, ScanMoves DEF ScanInv, Judged, Eligible
  <2>. QED
    BY <2>1, <2>2, <2>4, <2>5, ScanMoves DEF ScanInv, Standing, EligibleWasDeletable
<1>3. CASE scan' = [scan EXCEPT !.objects[d] = None]
  <2>1. /\ scan' \in Scan /\ scan'.at = "judge" /\ scan'.began = scan.began
        /\ scan'.objects = [scan.objects EXCEPT ![d] = None]
    BY <1>1, <1>3 DEF Scan
  <2>2. \A e \in Docs : scan'.objects[e] # None => scan'.objects[e] = scan.objects[e]
    BY <1>1, <2>1 DEF Scan
  <2>3. ScannedTypeOK'
    BY <1>1, <2>1, <2>2, ScanMoves DEF ScanInv, ScannedTypeOK
  <2>4. \A e \in Docs : Judged(e)'
    BY <1>1, <2>1, <2>2, ScanMoves DEF ScanInv, Judged, Eligible
  <2>. QED
    BY <2>1, <2>3, <2>4, ScanMoves DEF ScanInv, Standing, EligibleWasDeletable
<1>. QED
  BY <1>2, <1>3 DEF Judge

LEMMA ReportKeeps ==
  ASSUME ScanInv, UNCHANGED vars, Remember, Report
  PROVE  ScanInv'
<1>1. /\ scan.at = "report" /\ scan \in Scan /\ scan.doc # None
      /\ scan' = [scan EXCEPT !.at = "judge", !.objects[scan.doc] = None, !.doc = None]
      /\ applied' = applied \cup {scan.doc}
  BY DEF Report, ScanInv, ScannedTypeOK
<1>2. PICK d \in Docs : scan.doc = d
  BY <1>1 DEF Scan
<1>3. /\ scan' \in Scan /\ scan'.at = "judge" /\ scan'.began = scan.began
      /\ scan'.objects = [scan.objects EXCEPT ![d] = None]
  BY <1>1, <1>2 DEF Scan
<1>4. \A e \in Docs : scan'.objects[e] # None => scan'.objects[e] = scan.objects[e]
  BY <1>1, <1>3 DEF Scan
<1>5. ScannedTypeOK'
  BY <1>1, <1>2, <1>3, <1>4, ScanMoves DEF ScanInv, ScannedTypeOK
<1>6. \A e \in Docs : Judged(e)'
  BY <1>1, <1>3, <1>4, ScanMoves DEF ScanInv, Judged, Eligible
<1>. QED
  BY <1>3, <1>5, <1>6, ScanMoves DEF ScanInv, Standing, EligibleWasDeletable

-----------------------------------------------------------------------------
(* The invariant *)

LEMMA ScanInvInit == ScannedInit => ScanInv
<1>. SUFFICES ASSUME ScannedInit PROVE ScanInv
  OBVIOUS
<1>1. TypeInv /\ now = 0
  BY TypeInvInit DEF ScannedInit, Init
<1>2. scan \in Scan /\ scan.at = "idle" /\ scan.began = 0
  BY MaxTimeAssumption DEF ScannedInit, NoScan, Scan
<1>. QED
  BY <1>1, <1>2 DEF ScannedInit, ScanInv, ScannedTypeOK, Standing, Judged, EligibleWasDeletable

LEMMA ScanInvStep == ScanInv /\ [ScannedNext]_scannedVars => ScanInv'
<1>. SUFFICES ASSUME ScanInv, [ScannedNext]_scannedVars PROVE ScanInv'
  OBVIOUS
<1>1. CASE Next /\ UNCHANGED scanner /\ Remember
  BY <1>1, RequestsKeepScan
<1>2. CASE TaskStep
  <2>1. CASE EndScan
    BY <1>2, <2>1, RestedScan DEF TaskStep, EndScan
  <2>. QED
    BY <1>2, <2>1, BeginScanKeeps, JoinKeeps, JudgeKeeps, ReportKeeps DEF TaskStep, ScanStep
<1>3. CASE FailScan /\ UNCHANGED vars /\ Remember
  BY <1>3, RestedScan DEF FailScan
<1>4. CASE UNCHANGED scannedVars
  BY <1>4, RequestsKeepScan DEF scannedVars
<1>. QED
  BY <1>1, <1>2, <1>3, <1>4 DEF ScannedNext

THEOREM ScanInvariance == ScannedSpec => []ScanInv
<1>. QED
  BY ScanInvInit, ScanInvStep, PTL DEF ScannedSpec

(* A scan keeps its type, its time is past, and it judges documents with a policy. *)
THEOREM ScanTypeCorrect == ScannedSpec => []ScannedTypeOK
<1>1. ScanInv => ScannedTypeOK
  BY DEF ScanInv
<1>. QED
  BY <1>1, ScanInvariance, PTL

(* A document that a scan reports might have been deleted, on an ordinary request, at
   some instant of the scan, unless it was written between the two joins. *)
THEOREM ReportsWereDeletable == ScannedSpec => []EligibleWasDeletable
<1>1. ScanInv => EligibleWasDeletable
  BY DEF ScanInv
<1>. QED
  BY <1>1, ScanInvariance, PTL
=============================================================================
