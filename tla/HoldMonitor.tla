----------------------------- MODULE HoldMonitor -----------------------------
(***************************************************************************)
(* The periodic task monitor_legal_holds over the tables of Documents,     *)
(* while requests go on changing them.                                     *)
(*                                                                         *)
(* A pass reads the active holds once and then, hold by hold, the document *)
(* under it: holds and documents are seen at different instants (READ      *)
(* COMMITTED). The pass keeps one session, and the session keeps the       *)
(* object of the document last looked at: two holds in a row on one        *)
(* document are judged by the first look. A DELETED document is reported   *)
(* by an audit event, which other sessions write. An exception ends the    *)
(* pass; nothing retries it, but beat starts another every half hour.      *)
(*                                                                         *)
(* The chain the event is appended to is the business of AuditChain, the   *)
(* gauge of active holds by tenant is left out.                            *)
(***************************************************************************)
EXTENDS Documents

VARIABLES
  pass,      \* the pass in progress
  reported,  \* holds named by the INTEGRITY_CHECK_FAILED events of the pass
  exposed,   \* history: holds active on a DELETED document at some instant of the pass
  ended      \* history: holds released since the pass began

monitor == <<pass, reported>>
watchedVars == <<vars, monitor, exposed, ended>>

-----------------------------------------------------------------------------
(* Types *)

\* left: holds of the snapshot still to look at; hold, copy: the hold looked at
\* last, and the document object the session has for it; odd: holds counted as
\* inconsistent.
Pass == [at : {"idle", "look", "report"}, left : SUBSET Holds, hold : Holds \cup {None},
         copy : Row \cup {None}, odd : SUBSET Holds]

NoPass == [at |-> "idle", left |-> {}, hold |-> None, copy |-> None, odd |-> {}]

\* The pass keeps its type, reports only with a document object in its hands, and
\* looks only at holds whose document it will find.
WatchedTypeOK ==
  /\ pass \in Pass
  /\ reported \subseteq Holds
  /\ exposed \subseteq Holds
  /\ ended \subseteq Holds
  /\ pass.at = "report" => pass.hold # None /\ pass.copy # None
  /\ \A h \in pass.left : holds[h] # None /\ Exists(holds[h].doc)

-----------------------------------------------------------------------------
(* The pass *)

Active(h) == holds[h] # None /\ holds[h].active

\* Mutant: released holds are monitored too.
EveryHold == {h \in Holds : holds[h] # None}

\* LegalHoldModel.active.is_(True)
Snapshot == {h \in Holds : Active(h)}

\* The document object a SELECT of document d yields: the one the session still
\* has, or the row as it is.
Selected(d) ==
  IF pass.hold # None /\ holds[pass.hold].doc = d THEN pass.copy ELSE docs[d]

\* Mutant: the documents are counted, not the holds.
CountedByDocument(p) ==
  [p EXCEPT !.at = "look", !.odd = @ \cup {holds[h].doc : h \in {g \in {p.hold} : ~p.copy.hold}}]

\* Mutant: a pass ends with its first report.
CountedOnce(p) ==
  [p EXCEPT !.at = "look", !.odd = @ \cup {h \in {p.hold} : ~p.copy.hold},
            !.left = {h \in @ : p.at # "report"}]

\* On to the next hold, this one counted if its document carries no flag.
Counted(p) == [p EXCEPT !.at = "look", !.odd = @ \cup {h \in {p.hold} : ~p.copy.hold}]

BeginPass ==
  /\ pass.at = "idle"
  /\ pass' = [NoPass EXCEPT !.at = "look", !.left = Snapshot]
  /\ UNCHANGED reported

Suspect(row) == row.status = "DELETED"

\* The document under hold h; a document found DELETED is reported first.
Look(h) ==
  LET row  == Selected(holds[h].doc)
      seen == [pass EXCEPT !.left = @ \ {h}, !.hold = h, !.copy = row]
  IN  /\ pass.at = "look"
      /\ h \in pass.left
      /\ \/ Suspect(row) /\ pass' = [seen EXCEPT !.at = "report"]
         \/ ~Suspect(row) /\ pass' = Counted(seen)
      /\ UNCHANGED reported

\* get_last_hash and create_event.
Report ==
  /\ pass.at = "report"
  /\ reported' = reported \cup {pass.hold}
  /\ pass' = Counted(pass)

EndPass ==
  /\ pass.at = "look"
  /\ pass.left = {}
  /\ pass' = NoPass
  /\ reported' = {}

\* The database or the worker fails: the pass is over before its end.
FailPass ==
  /\ pass.at = "report" \/ pass.left # {}
  /\ pass' = NoPass
  /\ reported' = {}

-----------------------------------------------------------------------------
(* Specification *)

\* Holds that are active on a DELETED document.
Exposed == {h \in Holds : Active(h) /\ docs[holds[h].doc].status = "DELETED"}

WatchedInit ==
  /\ Init
  /\ pass = NoPass
  /\ reported = {}
  /\ exposed = {}
  /\ ended = {}

MonitorStep ==
  \/ BeginPass
  \/ \E h \in Holds : Look(h)
  \/ Report
  \/ EndPass

\* The histories speak of the pass in progress.
Remember ==
  /\ exposed' = {h \in exposed \cup Exposed' : pass'.at # "idle"}
  /\ ended' = {h \in ended \cup (Snapshot \ Snapshot') : pass'.at # "idle"}

RequestStep(r) == Continue(r) /\ UNCHANGED monitor /\ Remember

TaskStep == MonitorStep /\ UNCHANGED vars /\ Remember

WatchedNext ==
  \/ Next /\ UNCHANGED monitor /\ Remember
  \/ TaskStep
  \/ FailPass /\ UNCHANGED vars /\ Remember

WatchedSpec == WatchedInit /\ [][WatchedNext]_watchedVars

\* Beat starts passes for ever and the worker goes on with the one in progress;
\* requests in progress go on, as in FairSpec.
WatchedFairSpec ==
  /\ WatchedSpec
  /\ \A r \in Reqs : WF_watchedVars(RequestStep(r))
  /\ WF_watchedVars(TaskStep)

-----------------------------------------------------------------------------
(* Safety *)

\* The event says "document deleted while under active legal hold": at some
\* instant of the pass that was so, although hold and document were read at
\* different ones, and the document perhaps not again for its second hold. The
\* exception is a hold released between the two reads.
ReportsJustified == pass.at = "report" => pass.hold \in exposed \cup ended

\* A document counted as inconsistent (a hold, but no flag) is not one caught half
\* way through a place or a release: requests on it have overlapped, or the hold
\* was released since the pass read it.
OddExplained == \A h \in pass.odd : holds[h].doc \in contended \/ h \in ended

-----------------------------------------------------------------------------
(* Liveness *)

PassesStopDying == <>[][~FailPass]_watchedVars

\* A document that stays DELETED under an active hold is reported by a later pass,
\* whatever other holds and requests come and go, unless passes die for ever.
ExposureReported ==
  PassesStopDying =>
    \A h \in Holds : h \in Exposed ~> h \in reported \/ h \notin Exposed
=============================================================================
