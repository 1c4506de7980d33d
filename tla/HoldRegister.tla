---------------------------- MODULE HoldRegister -----------------------------
(***************************************************************************)
(* What legal holds promise of a document, without requests, transactions  *)
(* and copies: every action is atomic. A hold is entered only on a blocked *)
(* document, the block goes only when no hold is left, and a blocked       *)
(* document is deleted only by a privileged purge.                         *)
(*                                                                         *)
(* The promise is kept for documents whose requests do not overlap. When   *)
(* they do, the document gets loose and nothing is promised of it again.   *)
(* Documents is shown to implement this module.                            *)
(***************************************************************************)
CONSTANTS Docs, Holds

VARIABLES
  register,  \* the entry of each document
  loose      \* documents nothing is promised of

vars == <<register, loose>>

\* held: the active holds; purging: whether a privileged purge is under way.
Entry == [held : SUBSET Holds, blocked : BOOLEAN, deleted : BOOLEAN, purging : BOOLEAN]

Blank == [held |-> {}, blocked |-> FALSE, deleted |-> FALSE, purging |-> FALSE]

Init ==
  /\ register = [d \in Docs |-> Blank]
  /\ loose = {}

\* Document d keeps its promise, and its entry becomes e.
Becomes(d, e) ==
  /\ d \notin loose
  /\ register' = [register EXCEPT ![d] = e]
  /\ UNCHANGED loose

Block(d) == Becomes(d, [register[d] EXCEPT !.blocked = TRUE])

Place(d, h) ==
  /\ register[d].blocked
  /\ \A e \in Docs : h \notin register[e].held
  /\ Becomes(d, [register[d] EXCEPT !.held = @ \cup {h}])

Release(d, h) ==
  /\ h \in register[d].held
  /\ Becomes(d, [register[d] EXCEPT !.held = @ \ {h}])

Unblock(d) ==
  /\ register[d].held = {}
  /\ Becomes(d, [register[d] EXCEPT !.blocked = FALSE])

BeginPurge(d) == Becomes(d, [register[d] EXCEPT !.purging = TRUE])

EndPurge(d) == Becomes(d, [register[d] EXCEPT !.purging = FALSE])

Delete(d) ==
  /\ register[d].purging \/ ~register[d].blocked
  /\ Becomes(d, [register[d] EXCEPT !.deleted = TRUE])

Undelete(d) == Becomes(d, [register[d] EXCEPT !.deleted = FALSE])

Loosen(d) ==
  /\ d \notin loose
  /\ register' = [register EXCEPT ![d] = Blank]
  /\ loose' = loose \cup {d}

Next ==
  \E d \in Docs :
    \/ Block(d)
    \/ \E h \in Holds : Place(d, h) \/ Release(d, h)
    \/ Unblock(d)
    \/ BeginPurge(d)
    \/ EndPurge(d)
    \/ Delete(d)
    \/ Undelete(d)
    \/ Loosen(d)

Spec == Init /\ [][Next]_vars
=============================================================================
