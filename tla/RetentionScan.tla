---------------------------- MODULE RetentionScan ----------------------------
(***************************************************************************)
(* The periodic task scan_retention_expiry over the tables of Documents,   *)
(* while requests go on changing them.                                     *)
(*                                                                         *)
(* A scan fixes its time, and joins documents and policies twice. The      *)
(* first result keeps the documents alive in the session, so the second    *)
(* yields the same objects with the attributes of the first, each beside   *)
(* the policy it has by then (READ COMMITTED). Documents are then judged   *)
(* one by one on those objects; those that may be deleted are reported by  *)
(* an audit event, which other sessions write. The scan deletes nothing.   *)
(***************************************************************************)
EXTENDS Documents

VARIABLES
  scan,       \* the scan in progress
  applied,    \* documents named by the RETENTION_APPLIED events of the scan
  deletable,  \* history: documents that might be deleted at some instant of the scan
  torn        \* history: documents written between the two joins of the scan

scanner == <<scan, applied>>
scannedVars == <<vars, scanner, deletable, torn>>

-----------------------------------------------------------------------------
(* Types *)

\* began: the time the scan goes by; objects: the documents of the session that
\* are still to be judged; doc: the document reported on.
Scan == [at : {"idle", "join", "judge", "report"}, began : 0 .. MaxTime,
         objects : [Docs -> Row \cup {None}], doc : Docs \cup {None}]

NoScan == [at |-> "idle", began |-> 0, objects |-> [d \in Docs |-> None], doc |-> None]

\* The scan keeps its type; its time is past, and whatever it is about to judge has
\* a policy.
ScannedTypeOK ==
  /\ scan \in Scan
  /\ applied \subseteq Docs
  /\ deletable \subseteq Docs
  /\ torn \subseteq Docs
  /\ scan.began <= now
  /\ scan.at \in {"judge", "report"} =>
       \A d \in Docs : scan.objects[d] # None => scan.objects[d].policy # None
  /\ scan.at = "report" => scan.doc # None /\ scan.objects[scan.doc] # None

-----------------------------------------------------------------------------
(* The scan *)

\* Mutant: an outer join.
JoinedOuter(d) == Exists(d) /\ docs[d].status # "DELETED"

\* The join of both statements: documents with a policy, DELETED ones left out.
Joined(d) == Exists(d) /\ docs[d].policy # None /\ docs[d].status # "DELETED"

\* The first statement.
BeginScan ==
  /\ scan.at = "idle"
  /\ scan' = [NoScan EXCEPT !.at = "join", !.began = now,
                            !.objects = [d \in Docs |-> IF Joined(d) THEN docs[d] ELSE None]]
  /\ UNCHANGED applied

\* What the second statement yields for document d: the object the session has of
\* it, or the row as it is, beside the policy the row has now.
Yielded(d) ==
  [(IF scan.objects[d] # None THEN scan.objects[d] ELSE docs[d]) EXCEPT !.policy = docs[d].policy]

Join ==
  /\ scan.at = "join"
  /\ scan' = [scan EXCEPT !.at = "judge",
                          !.objects = [d \in Docs |-> IF Joined(d) THEN Yielded(d) ELSE None]]
  /\ UNCHANGED applied

\* Mutants: the flag is not looked at; the expiry itself is too soon.
EligibleDespiteHold(row, time) ==
  /\ Expired(row.policy, row.created, time)
  /\ row.policy.mode = "GOVERNANCE" \/ row.policy.allow
EligibleLate(row, time) ==
  /\ time > Expiry(row.policy, row.created)
  /\ ~row.hold
  /\ row.policy.mode = "GOVERNANCE" \/ row.policy.allow

\* The retention is over, no hold blocks, and the policy lets go.
Eligible(row, time) ==
  /\ Expired(row.policy, row.created, time)
  /\ ~row.hold
  /\ row.policy.mode = "GOVERNANCE" \/ row.policy.allow

Judge(d) ==
  /\ scan.at = "judge"
  /\ scan.objects[d] # None
  /\ \/ /\ Eligible(scan.objects[d], scan.began)
        /\ scan' = [scan EXCEPT !.at = "report", !.doc = d]
     \/ /\ ~Eligible(scan.objects[d], scan.began)
        /\ scan' = [scan EXCEPT !.objects[d] = None]
  /\ UNCHANGED applied

\* get_last_hash and create_event.
Report ==
  /\ scan.at = "report"
  /\ applied' = applied \cup {scan.doc}
  /\ scan' = [scan EXCEPT !.at = "judge", !.objects[scan.doc] = None, !.doc = None]

EndScan ==
  /\ scan.at = "judge"
  /\ \A d \in Docs : scan.objects[d] = None
  /\ scan' = NoScan
  /\ applied' = {}

\* The database or the worker fails: the scan is over before its end.
FailScan ==
  /\ \/ scan.at \in {"join", "report"}
     \/ \E d \in Docs : scan.objects[d] # None
  /\ scan' = NoScan
  /\ applied' = {}

-----------------------------------------------------------------------------
(* Specification *)

\* Documents with a policy that an ordinary delete request would find deletable now.
Deletable ==
  {d \in Docs :
     /\ Exists(d) /\ docs[d].policy # None /\ docs[d].status # "DELETED"
     /\ HoldPermits(docs[d], FALSE)
     /\ RetentionPermits(docs[d], FALSE)}

\* Those of them whose retention is over: some policies let go before that.
Overdue == {d \in Deletable : Expired(docs[d].policy, docs[d].created, now)}

ScannedInit ==
  /\ Init
  /\ scan = NoScan
  /\ applied = {}
  /\ deletable = {}
  /\ torn = {}

ScanStep ==
  \/ BeginScan
  \/ Join
  \/ \E d \in Docs : Judge(d)
  \/ Report
  \/ EndScan

\* The histories speak of the scan in progress.
Remember ==
  /\ deletable' = {d \in deletable \cup Deletable' : scan'.at # "idle"}
  /\ torn' = {d \in torn \cup {e \in Docs : scan.at = "join" /\ docs'[e] # docs[e]} : scan'.at # "idle"}

TaskStep == ScanStep /\ UNCHANGED vars /\ Remember

ScannedNext ==
  \/ Next /\ UNCHANGED scanner /\ Remember
  \/ TaskStep
  \/ FailScan /\ UNCHANGED vars /\ Remember

ScannedSpec == ScannedInit /\ [][ScannedNext]_scannedVars

\* Beat starts scans for ever and the worker goes on with the one in progress; what
\* scans promise does not depend on the progress of requests.
ScannedFairSpec == ScannedSpec /\ WF_scannedVars(TaskStep)

-----------------------------------------------------------------------------
(* Safety *)

\* The event says that the retention of the document is over: at some instant of the
\* scan an ordinary request might indeed have deleted it, although flag, status and
\* policy were read at different instants and time has passed. The exception is a
\* document written between the two joins, judged by its old flag and new policy.
EligibleWasDeletable == scan.at = "report" => scan.doc \in deletable \cup torn

-----------------------------------------------------------------------------
(* Liveness *)

ScansStopDying == <>[][~FailScan]_scannedVars

\* What has expired, and may be deleted, is reported by a later scan as long as that
\* stays so, unless scans die for ever.
EligibleReported ==
  ScansStopDying =>
    \A d \in Docs :
      d \in Overdue ~> d \in applied \/ d \notin Overdue
=============================================================================
