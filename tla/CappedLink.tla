----------------------------- MODULE CappedLink ------------------------------
(***************************************************************************)
(* What a share link promises, without requests, transactions and copies:  *)
(* a download is charged before it is answered, and only while the link is *)
(* open and its limit is not reached; a closed link stays as it is.        *)
(*                                                                         *)
(* The promise is kept for links whose requests do not overlap. When they  *)
(* do, the link gets loose and nothing is promised of it again. ShareLinks *)
(* is shown to implement this module.                                      *)
(***************************************************************************)
EXTENDS Naturals

CONSTANTS Links, Limits, None

VARIABLES
  account,  \* the account of each link
  loose     \* links nothing is promised of

vars == <<account, loose>>

\* charged, served: downloads counted against the limit, and answered.
Blank == [state |-> "none", limit |-> None, charged |-> 0, served |-> 0]

Init ==
  /\ account = [l \in Links |-> Blank]
  /\ loose = {}

\* Link l keeps its promise, and its account becomes a.
Becomes(l, a) ==
  /\ l \notin loose
  /\ account' = [account EXCEPT ![l] = a]
  /\ UNCHANGED loose

Open(l, limit) ==
  /\ account[l].state = "none"
  /\ Becomes(l, [state |-> "open", limit |-> limit, charged |-> 0, served |-> 0])

Charge(l) ==
  /\ account[l].state = "open"
  /\ account[l].limit = None \/ account[l].charged < account[l].limit
  /\ Becomes(l, [account[l] EXCEPT !.charged = @ + 1])

Serve(l) ==
  /\ account[l].state = "open"
  /\ account[l].served < account[l].charged
  /\ Becomes(l, [account[l] EXCEPT !.served = @ + 1])

Close(l) ==
  /\ account[l].state = "open"
  /\ Becomes(l, [account[l] EXCEPT !.state = "closed"])

Loosen(l) ==
  /\ l \notin loose
  /\ account' = [account EXCEPT ![l] = Blank]
  /\ loose' = loose \cup {l}

Next ==
  \E l \in Links :
    \/ \E limit \in Limits : Open(l, limit)
    \/ Charge(l)
    \/ Serve(l)
    \/ Close(l)
    \/ Loosen(l)

Spec == Init /\ [][Next]_vars
=============================================================================
