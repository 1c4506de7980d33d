----------------------------- MODULE ShareLinks -----------------------------
(***************************************************************************)
(* Share links: creation, revocation and public download, as the shares    *)
(* router and ShareRepository run them.                                    *)
(*                                                                         *)
(* Both requests that change a link read it in one transaction, change     *)
(* their copy, and hand the copy to ShareRepository.update, which in a     *)
(* second transaction loads the row again (Load), assigns the two mutable  *)
(* columns and flushes (Store). The ORM writes only the columns whose      *)
(* assigned value differs from the one it has just loaded; PostgreSQL runs *)
(* READ COMMITTED, so another transaction may commit between Load and      *)
(* Store.                                                                  *)
(*                                                                         *)
(* Fetching the document of a download reads other tables only; it is part *)
(* of what may fail before Load.                                           *)
(***************************************************************************)
EXTENDS Naturals

CONSTANTS
  Links,      \* ids that uuid4 can give to links
  Limits,     \* values of max_downloads that clients choose
  Reqs,       \* slots for HTTP requests in progress
  MaxTime,    \* bound: the last instant of a behaviour
  MaxServed,  \* bound: downloads started per link
  None        \* "no row", "no limit"

ASSUME LimitsAssumption == Limits \subseteq (Nat \ {0}) \cup {None}
ASSUME TimeAssumption   == MaxTime \in Nat
ASSUME ServedAssumption == MaxServed \in Nat
ASSUME NotANumber       == None \notin Nat

VARIABLES
  links,      \* table share_links
  now,
  pc,         \* the transaction each request performs next
  link,       \* the link each request is about
  copy,       \* the ShareLink entity each request has read and changed
  loaded,     \* the row that ShareRepository.update has loaded again
  started,    \* history: downloads admitted per link
  served,     \* history: downloads answered per link
  revoked,    \* history: links whose revocation has been acknowledged
  contended   \* history: links that two requests have handled at once

vars == <<links, now, pc, link, copy, loaded, started, served, revoked, contended>>

-----------------------------------------------------------------------------
(* Types *)

\* The two columns that update assigns.
Mutable == [count : Nat, revoked : BOOLEAN]

LinkRow == [limit : Limits, expires : 0 .. MaxTime + 1, count : Nat, revoked : BOOLEAN]

Steps == {"idle", "load", "store", "respond"}

ASSUME NoneIsNoRow == None \notin LinkRow \cup Mutable \cup Links

\* Every variable keeps its type; in particular an update finds its row.
TypeOK ==
  /\ links \in [Links -> LinkRow \cup {None}]
  /\ now \in 0 .. MaxTime
  /\ pc \in [Reqs -> Steps]
  /\ link \in [Reqs -> Links \cup {None}]
  /\ copy \in [Reqs -> Mutable \cup {None}]
  /\ loaded \in [Reqs -> Mutable \cup {None}]
  /\ started \in [Links -> Nat]
  /\ served \in [Links -> Nat]
  /\ revoked \subseteq Links
  /\ contended \subseteq Links

-----------------------------------------------------------------------------
(* The entity *)

Exists(l) == links[l] # None

\* Mutant: a column forgotten.
ColumnsWithoutRevoked(row) == [count |-> row.count]

Columns(row) == [count |-> row.count, revoked |-> row.revoked]

\* Mutant: revoked links are active until they expire.
IsActiveRevoked(row) == now < row.expires

IsActive(row) == ~row.revoked /\ now < row.expires

\* Mutant: one download too many.
IsExhaustedLate(row) == row.limit # None /\ row.count > row.limit

IsExhausted(row) == row.limit # None /\ row.count >= row.limit

CanDownload(row) == IsActive(row) /\ ~IsExhausted(row)

-----------------------------------------------------------------------------
(* Requests *)

Init ==
  /\ links = [l \in Links |-> None]
  /\ now = 0
  /\ pc = [r \in Reqs |-> "idle"]
  /\ link = [r \in Reqs |-> None]
  /\ copy = [r \in Reqs |-> None]
  /\ loaded = [r \in Reqs |-> None]
  /\ started = [l \in Links |-> 0]
  /\ served = [l \in Links |-> 0]
  /\ revoked = {}
  /\ contended = {}

\* Requests in progress that handle link l.
On(l) == {r \in Reqs : pc[r] # "idle" /\ link[r] = l}

\* create_share_link: one transaction. expires_at must lie in the future.
CreateLink(l, limit, expires) ==
  /\ ~Exists(l)
  /\ expires > now
  /\ links' = [links EXCEPT ![l] =
       [limit |-> limit, expires |-> expires, count |-> 0, revoked |-> FALSE]]
  /\ UNCHANGED <<now, pc, link, copy, loaded, started, served, revoked, contended>>

\* A request reads link l and changes its copy to c.
Begin(r, l, c) ==
  /\ pc[r] = "idle"
  /\ pc' = [pc EXCEPT ![r] = "load"]
  /\ link' = [link EXCEPT ![r] = l]
  /\ copy' = [copy EXCEPT ![r] = c]
  /\ contended' = contended \cup {k \in {l} : On(k) # {}}
  /\ UNCHANGED <<links, now, loaded, served, revoked>>

\* public_share_download, up to increment_download.
StartDownload(r, l) ==
  /\ Exists(l)
  /\ CanDownload(links[l])
  /\ started[l] < MaxServed
  /\ Begin(r, l, [Columns(links[l]) EXCEPT !.count = @ + 1])
  /\ started' = [started EXCEPT ![l] = @ + 1]

\* revoke_share_link, up to share.revoke: whatever the state of the link.
StartRevoke(r, l) ==
  /\ Exists(l)
  /\ Begin(r, l, [Columns(links[l]) EXCEPT !.revoked = TRUE])
  /\ UNCHANGED started

\* ShareRepository.update: the SELECT.
Load(r) ==
  /\ pc[r] = "load"
  /\ pc' = [pc EXCEPT ![r] = "store"]
  /\ loaded' = [loaded EXCEPT ![r] = Columns(links[link[r]])]
  /\ UNCHANGED <<links, now, link, copy, started, served, revoked, contended>>

\* Mutants: one of the two columns is never written.
MergedCountOnly(row, was, is) ==
  [row EXCEPT !.count = IF is.count # was.count THEN is.count ELSE @]
MergedRevocationOnly(row, was, is) ==
  [row EXCEPT !.revoked = IF is.revoked # was.revoked THEN is.revoked ELSE @]

\* The row after the flush: columns that were assigned another value than
\* loaded are written, the others are left as they are by now.
Merged(row, was, is) ==
  [row EXCEPT !.count   = IF is.count # was.count THEN is.count ELSE @,
              !.revoked = IF is.revoked # was.revoked THEN is.revoked ELSE @]

Close(r) ==
  /\ pc' = [pc EXCEPT ![r] = "idle"]
  /\ link' = [link EXCEPT ![r] = None]
  /\ copy' = [copy EXCEPT ![r] = None]
  /\ loaded' = [loaded EXCEPT ![r] = None]
  /\ UNCHANGED <<now, started, contended>>

\* ShareRepository.update: flush and commit. A revocation (the only request whose
\* copy is revoked) is acknowledged, a download has still to be answered.
Store(r) ==
  LET l == link[r]
  IN  /\ pc[r] = "store"
      /\ links' = [links EXCEPT ![l] = Merged(@, loaded[r], copy[r])]
      /\ \/ /\ copy[r].revoked
            /\ Close(r)
            /\ revoked' = revoked \cup {l}
            /\ UNCHANGED served
         \/ /\ ~copy[r].revoked
            /\ pc' = [pc EXCEPT ![r] = "respond"]
            /\ UNCHANGED <<now, link, copy, loaded, started, served, revoked, contended>>

\* The decrypted bytes leave for the client.
Respond(r) ==
  /\ pc[r] = "respond"
  /\ served' = [served EXCEPT ![link[r]] = @ + 1]
  /\ Close(r)
  /\ UNCHANGED <<links, revoked>>

\* The request dies: no such document or blob, a wrong key, an exception of the
\* database, the process killed.
Fail(r) ==
  /\ pc[r] # "idle"
  /\ Close(r)
  /\ UNCHANGED <<links, served, revoked>>

Tick ==
  /\ now < MaxTime
  /\ now' = now + 1
  /\ UNCHANGED <<links, pc, link, copy, loaded, started, served, revoked, contended>>

Continue(r) == Load(r) \/ Store(r) \/ Respond(r)

Next ==
  \/ \E l \in Links, limit \in Limits, expires \in 0 .. MaxTime + 1 :
       CreateLink(l, limit, expires)
  \/ \E r \in Reqs :
       \/ \E l \in Links : StartDownload(r, l) \/ StartRevoke(r, l)
       \/ Continue(r)
       \/ Fail(r)
  \/ Tick

Spec == Init /\ [][Next]_vars

-----------------------------------------------------------------------------
(* Safety *)

\* Whatever overlaps, the stored count never passes the limit: a copy is only
\* incremented after its own count was found below the limit, and only whole
\* copies are written.
CountWithinLimit ==
  \A l \in Links :
    Exists(l) /\ links[l].limit # None => links[l].count <= links[l].limit

\* A download is charged before it is answered, wherever a request dies: on a
\* link whose requests never overlapped, no more downloads have been answered
\* than the count says. With CountWithinLimit this is the cap on downloads.
ServedCharged ==
  \A l \in Links \ contended : Exists(l) => served[l] <= links[l].count

\* After its revocation is acknowledged a link answers no download, unless two
\* requests have overlapped on it.
RevokedStaysClosed ==
  [][\A l \in revoked \ contended' : served'[l] = served[l]]_vars

-----------------------------------------------------------------------------
(* The capped link *)

\* The account of link l, as long as its requests have not overlapped.
Account(l) ==
  IF Exists(l) /\ l \notin contended
    THEN [state   |-> IF links[l].revoked THEN "closed" ELSE "open",
          limit   |-> links[l].limit,
          charged |-> links[l].count,
          served  |-> served[l]]
    ELSE [state |-> "none", limit |-> None, charged |-> 0, served |-> 0]

Capped == INSTANCE CappedLink
  WITH account <- [l \in Links |-> Account(l)], loose <- contended

\* The requests on a link, with their reads, loads and stores, and wherever they die, do
\* nothing that the capped link does not do: one charge at a time and none at the limit,
\* no answer without a charge, and nothing more, not even a reopening, once it is closed.
KeepsCap == Capped!Spec

-----------------------------------------------------------------------------
(* What the documentation says and the code does not do *)

\* README: "download-capped links". No more downloads than the limit.
DownloadsCapped ==
  \A l \in Links : Exists(l) /\ links[l].limit # None => served[l] <= links[l].limit
=============================================================================
