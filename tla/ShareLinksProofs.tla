-------------------------- MODULE ShareLinksProofs --------------------------
(***************************************************************************)
(* Theorems about ShareLinks, for every value of its constants: what the   *)
(* stored count guarantees whatever overlaps, what it guarantees on links  *)
(* whose requests never overlapped, and that these implement CappedLink.   *)
(***************************************************************************)
EXTENDS ShareLinks, TLAPS

\* What a request in progress holds fits the transaction it is at.
RequestOK(r) ==
  /\ pc[r] # "idle" => link[r] \in Links /\ Exists(link[r]) /\ copy[r] \in Mutable
  /\ pc[r] = "store" => loaded[r] \in Mutable
  /\ pc[r] = "respond" => ~copy[r].revoked

\* A copy is never above the limit of its link.
CopyWithinLimit(r) ==
  pc[r] # "idle" /\ links[link[r]].limit # None =>
    copy[r].count <= links[link[r]].limit

LimitInv ==
  /\ TypeOK
  /\ \A r \in Reqs : RequestOK(r) /\ CopyWithinLimit(r)
  /\ CountWithinLimit

\* How a table row may change: its limit and its existence stay.
RowsStay ==
  \A l \in Links : Exists(l) =>
    Exists(l)' /\ links'[l].limit = links[l].limit

-----------------------------------------------------------------------------
(* The count *)

(* A request that does not move keeps its facts while rows stay. *)
LEMMA OthersKept ==
  ASSUME LimitInv, NEW q \in Reqs, RowsStay,
         pc'[q] = pc[q], link'[q] = link[q], copy'[q] = copy[q], loaded'[q] = loaded[q]
  PROVE  RequestOK(q)' /\ CopyWithinLimit(q)'
  BY DEF LimitInv, RequestOK, CopyWithinLimit, RowsStay, Exists

LEMMA RowTyped ==
  ASSUME LimitInv, NEW l \in Links, Exists(l)
  PROVE  /\ links[l] \in LinkRow
         /\ Columns(links[l]) \in Mutable
         /\ Columns(links[l]).count = links[l].count
         /\ Columns(links[l]).revoked = links[l].revoked
  BY DEF LimitInv, TypeOK, Exists, Columns, LinkRow, Mutable

(* The request that begins holds a copy within the limit of the row it read. *)
LEMMA BeginKept ==
  ASSUME LimitInv, NEW r \in Reqs, NEW l \in Links, Exists(l),
         NEW c \in Mutable, Begin(r, l, c), started' \in [Links -> Nat],
         links[l].limit # None => c.count <= links[l].limit
  PROVE  LimitInv'
<1>1. TypeOK'
  BY DEF LimitInv, TypeOK, Begin, Steps
<1>2. RequestOK(r)' /\ CopyWithinLimit(r)'
  BY DEF LimitInv, TypeOK, Begin, RequestOK, CopyWithinLimit, Exists
<1>3. RowsStay /\ CountWithinLimit'
  BY DEF LimitInv, CountWithinLimit, RowsStay, Begin, Exists
<1>4. ASSUME NEW q \in Reqs \ {r} PROVE RequestOK(q)' /\ CopyWithinLimit(q)'
  <2>1. pc'[q] = pc[q] /\ link'[q] = link[q] /\ copy'[q] = copy[q] /\ loaded'[q] = loaded[q]
    BY DEF LimitInv, TypeOK, Begin
  <2>. QED
    BY <1>3, <2>1, OthersKept
<1>. QED
  BY <1>1, <1>2, <1>3, <1>4 DEF LimitInv

LEMMA DownloadKept ==
  ASSUME LimitInv, NEW r \in Reqs, NEW l \in Links, StartDownload(r, l)
  PROVE  LimitInv'
<1>. DEFINE c == [Columns(links[l]) EXCEPT !.count = @ + 1]
<1>1. Exists(l) /\ CanDownload(links[l]) /\ Begin(r, l, c)
      /\ started' = [started EXCEPT ![l] = @ + 1]
  BY DEF StartDownload
<1>2. c \in Mutable /\ c.count = links[l].count + 1
  BY <1>1, RowTyped DEF Mutable
<1>3. links[l].limit # None => links[l].limit \in Nat /\ links[l].count \in Nat
  BY <1>1, RowTyped, LimitsAssumption DEF LinkRow
<1>4. links[l].limit # None => c.count <= links[l].limit
  BY <1>1, <1>2, <1>3 DEF CanDownload, IsExhausted
<1>5. started' \in [Links -> Nat]
  BY <1>1 DEF LimitInv, TypeOK
<1>. HIDE DEF c
<1>. QED
  BY <1>1, <1>2, <1>4, <1>5, BeginKept

LEMMA RevokeKept ==
  ASSUME LimitInv, NEW r \in Reqs, NEW l \in Links, StartRevoke(r, l)
  PROVE  LimitInv'
<1>. DEFINE c == [Columns(links[l]) EXCEPT !.revoked = TRUE]
<1>1. Exists(l) /\ Begin(r, l, c) /\ started' = started
  BY DEF StartRevoke
<1>2. c \in Mutable /\ c.count = links[l].count
  BY <1>1, RowTyped DEF Mutable
<1>3. links[l].limit # None => c.count <= links[l].limit
  BY <1>1, <1>2 DEF LimitInv, CountWithinLimit
<1>. HIDE DEF c
<1>. QED
  BY <1>1, <1>2, <1>3, BeginKept DEF LimitInv, TypeOK

LEMMA LoadKept ==
  ASSUME LimitInv, NEW r \in Reqs, Load(r)
  PROVE  LimitInv'
<1>1. pc[r] = "load" /\ RequestOK(r) /\ CopyWithinLimit(r)
  BY DEF Load, LimitInv
<1>2. Columns(links[link[r]]) \in Mutable
  BY <1>1, RowTyped DEF RequestOK
<1>3. TypeOK'
  BY <1>2 DEF Load, LimitInv, TypeOK, Steps
<1>4. RowsStay /\ CountWithinLimit'
  BY DEF Load, RowsStay, Exists, LimitInv, CountWithinLimit
<1>5. RequestOK(r)' /\ CopyWithinLimit(r)'
  BY <1>1, <1>2 DEF Load, RequestOK, CopyWithinLimit, Exists, LimitInv, TypeOK
<1>6. ASSUME NEW q \in Reqs \ {r} PROVE RequestOK(q)' /\ CopyWithinLimit(q)'
  <2>1. pc'[q] = pc[q] /\ link'[q] = link[q] /\ copy'[q] = copy[q] /\ loaded'[q] = loaded[q]
    BY DEF Load, LimitInv, TypeOK
  <2>. QED
    BY <1>4, <2>1, OthersKept
<1>. QED
  BY <1>3, <1>4, <1>5, <1>6 DEF LimitInv

(* A request that ends forgets everything. *)
LEMMA CloseKept ==
  ASSUME LimitInv, NEW r \in Reqs, Close(r), RowsStay, CountWithinLimit',
         links' \in [Links -> LinkRow \cup {None}],
         served' \in [Links -> Nat], revoked' \subseteq Links
  PROVE  LimitInv'
<1>1. TypeOK'
  BY DEF Close, LimitInv, TypeOK, Steps
<1>2. RequestOK(r)' /\ CopyWithinLimit(r)'
  BY DEF Close, RequestOK, CopyWithinLimit, LimitInv, TypeOK
<1>3. ASSUME NEW q \in Reqs \ {r} PROVE RequestOK(q)' /\ CopyWithinLimit(q)'
  <2>1. pc'[q] = pc[q] /\ link'[q] = link[q] /\ copy'[q] = copy[q] /\ loaded'[q] = loaded[q]
    BY DEF Close, LimitInv, TypeOK
  <2>. QED
    BY <2>1, OthersKept
<1>. QED
  BY <1>1, <1>2, <1>3 DEF LimitInv

LEMMA MergedTyped ==
  ASSUME NEW row \in LinkRow, NEW was \in Mutable, NEW is \in Mutable
  PROVE  /\ Merged(row, was, is) \in LinkRow
         /\ Merged(row, was, is).limit = row.limit
         /\ Merged(row, was, is).count \in {row.count, is.count}
         /\ is = was => Merged(row, was, is) = row
  BY DEF Merged, LinkRow, Mutable

LEMMA StoreKept ==
  ASSUME LimitInv, NEW r \in Reqs, Store(r)
  PROVE  LimitInv'
<1>1. pc[r] = "store" /\ RequestOK(r) /\ CopyWithinLimit(r)
  BY DEF Store, LimitInv
<1>2. PICK l \in Links : link[r] = l /\ Exists(l)
  BY <1>1 DEF RequestOK
<1>3. copy[r] \in Mutable /\ loaded[r] \in Mutable /\ links[l] \in LinkRow
  BY <1>1, <1>2, RowTyped DEF RequestOK
<1>. DEFINE m == Merged(links[l], loaded[r], copy[r])
<1>4. m \in LinkRow /\ m.limit = links[l].limit /\ m.count \in {links[l].count, copy[r].count}
  BY <1>3, MergedTyped
<1>5. links' = [links EXCEPT ![l] = m]
  BY <1>2 DEF Store
<1>. HIDE DEF m
<1>6. m # None
  BY <1>4, NoneIsNoRow
<1>7. RowsStay /\ links' \in [Links -> LinkRow \cup {None}] /\ links'[l] = m
  BY <1>4, <1>5, <1>6 DEF RowsStay, Exists, LimitInv, TypeOK
<1>8. m.limit # None => m.count <= m.limit
  BY <1>1, <1>2, <1>4 DEF CopyWithinLimit, LimitInv, CountWithinLimit
<1>9. CountWithinLimit'
  BY <1>5, <1>7, <1>8 DEF CountWithinLimit, LimitInv, TypeOK, Exists
<1>10. CASE Close(r) /\ revoked' = revoked \cup {link[r]} /\ UNCHANGED served
  BY <1>2, <1>7, <1>9, <1>10, CloseKept DEF LimitInv, TypeOK
<1>11. CASE /\ ~copy[r].revoked
            /\ pc' = [pc EXCEPT ![r] = "respond"]
            /\ UNCHANGED <<now, link, copy, loaded, started, served, revoked, contended>>
  <2>1. TypeOK'
    BY <1>7, <1>11 DEF LimitInv, TypeOK, Steps
  <2>2. RequestOK(r)' /\ CopyWithinLimit(r)'
    BY <1>1, <1>2, <1>7, <1>11 DEF RequestOK, CopyWithinLimit, RowsStay, Exists, LimitInv, TypeOK
  <2>3. ASSUME NEW q \in Reqs \ {r} PROVE RequestOK(q)' /\ CopyWithinLimit(q)'
    <3>1. pc'[q] = pc[q] /\ link'[q] = link[q] /\ copy'[q] = copy[q] /\ loaded'[q] = loaded[q]
      BY <1>11 DEF LimitInv, TypeOK
    <3>. QED
      BY <1>7, <3>1, OthersKept
  <2>. QED
    BY <1>9, <2>1, <2>2, <2>3 DEF LimitInv
<1>. QED
  BY <1>10, <1>11 DEF Store

LEMMA LimitInvStep == LimitInv /\ [Next]_vars => LimitInv'
<1>. SUFFICES ASSUME LimitInv, [Next]_vars PROVE LimitInv'
  OBVIOUS
<1>1. ASSUME NEW l \in Links, NEW limit \in Limits, NEW expires \in 0 .. MaxTime + 1,
             CreateLink(l, limit, expires)
      PROVE  LimitInv'
  <2>. DEFINE row == [limit |-> limit, expires |-> expires, count |-> 0, revoked |-> FALSE]
  <2>1. row \in LinkRow /\ row.count = 0 /\ row.limit = limit
    BY DEF LinkRow
  <2>2. ~Exists(l) /\ links' = [links EXCEPT ![l] = row]
        /\ UNCHANGED <<now, pc, link, copy, loaded, started, served, revoked, contended>>
    BY <1>1 DEF CreateLink
  <2>. HIDE DEF row
  <2>3. TypeOK' /\ RowsStay
    BY <2>1, <2>2 DEF LimitInv, TypeOK, RowsStay, Exists
  <2>4. CountWithinLimit'
    BY <2>1, <2>2, LimitsAssumption DEF CountWithinLimit, LimitInv, TypeOK, Exists
  <2>5. \A q \in Reqs : RequestOK(q)' /\ CopyWithinLimit(q)'
    BY <2>2, <2>3, OthersKept
  <2>. QED
    BY <2>3, <2>4, <2>5 DEF LimitInv
<1>2. ASSUME NEW r \in Reqs, Respond(r) \/ Fail(r) PROVE LimitInv'
  <2>1. Close(r) /\ links' = links /\ revoked' = revoked
    BY <1>2 DEF Respond, Fail
  <2>2. served' \in [Links -> Nat]
    BY <1>2 DEF Respond, Fail, LimitInv, TypeOK
  <2>3. RowsStay /\ CountWithinLimit'
    BY <2>1 DEF RowsStay, Exists, LimitInv, CountWithinLimit
  <2>. QED
    BY <2>1, <2>2, <2>3, CloseKept DEF LimitInv, TypeOK
<1>3. CASE Tick \/ UNCHANGED vars
  <2>1. UNCHANGED <<links, pc, link, copy, loaded, started, served, revoked, contended>>
        /\ now' \in 0 .. MaxTime
    BY <1>3, TimeAssumption DEF Tick, vars, LimitInv, TypeOK
  <2>2. RowsStay /\ CountWithinLimit'
    BY <2>1 DEF RowsStay, Exists, LimitInv, CountWithinLimit
  <2>3. \A q \in Reqs : RequestOK(q)' /\ CopyWithinLimit(q)'
    BY <2>1, <2>2, OthersKept
  <2>. QED
    BY <2>1, <2>2, <2>3 DEF LimitInv, TypeOK
<1>. QED
  BY <1>1, <1>2, <1>3, DownloadKept, RevokeKept, LoadKept, StoreKept DEF Next, Continue

LEMMA LimitInvInit == Init => LimitInv
  BY TimeAssumption
     DEF Init, LimitInv, TypeOK, RequestOK, CopyWithinLimit, CountWithinLimit, Exists, Steps

THEOREM LimitInvariance == Spec => []LimitInv
<1>. QED
  BY LimitInvInit, LimitInvStep, PTL DEF Spec

(* Every variable of ShareLinks keeps its type, whatever requests overlap or die. *)
THEOREM LinksTypeCorrect == Spec => []TypeOK
<1>1. LimitInv => TypeOK
  BY DEF LimitInv
<1>. QED
  BY <1>1, LimitInvariance, PTL

(* The stored download count never passes the limit of its link, whatever
   requests overlap on it. *)
THEOREM CountStaysWithinLimit == Spec => []CountWithinLimit
<1>1. LimitInv => CountWithinLimit
  BY DEF LimitInv
<1>. QED
  BY <1>1, LimitInvariance, PTL

-----------------------------------------------------------------------------
(* Links whose requests never overlapped *)

Alone ==
  \A r, q \in Reqs :
    pc[r] # "idle" /\ pc[q] # "idle" /\ link[r] = link[q] /\ link[r] \notin contended
      => r = q

\* What request r relies on, row being the row of its link and n the number of
\* downloads answered.
Relies(c, was, at, row, n) ==
  /\ at \in {"load", "store"} => c.count = IF c.revoked THEN row.count ELSE row.count + 1
  /\ at = "store" => was = Columns(row)
  /\ at = "respond" => n < row.count
  /\ ~c.revoked => ~row.revoked

Fresh(r) ==
  pc[r] # "idle" /\ link[r] \notin contended =>
    /\ Relies(copy[r], loaded[r], pc[r], links[link[r]], served[link[r]])
    /\ ~copy[r].revoked => link[r] \notin revoked

Charged(l) ==
  /\ l \notin contended => (Exists(l) => served[l] <= links[l].count)
  /\ ~Exists(l) => served[l] = 0

Closed(l) == l \in revoked \ contended => Exists(l) /\ links[l].revoked

ChargeInv ==
  /\ LimitInv
  /\ Alone
  /\ \A r \in Reqs : Fresh(r)
  /\ \A l \in Links : Charged(l) /\ Closed(l)

\* A step of request r, which is about link k, leaves the rest alone.
StepOf(r, k) ==
  /\ \A q \in Reqs \ {r} :
       pc'[q] = pc[q] /\ link'[q] = link[q] /\ copy'[q] = copy[q] /\ loaded'[q] = loaded[q]
  /\ \A q \in Reqs \ {r} : (pc[q] # "idle" /\ link[q] = k) => k \in contended'
  /\ pc'[r] # "idle" => link'[r] = k
  /\ contended \subseteq contended'
  /\ \A l \in Links \ {k} : links'[l] = links[l] /\ served'[l] = served[l]
  /\ revoked' \subseteq revoked \cup {k}

LEMMA StepKeeps ==
  ASSUME ChargeInv, LimitInv', NEW r \in Reqs, NEW k \in Links, StepOf(r, k),
         Fresh(r)', Charged(k)', Closed(k)'
  PROVE  ChargeInv'
<1>1. ASSUME NEW q \in Reqs, q # r
      PROVE  /\ pc'[q] = pc[q] /\ link'[q] = link[q]
             /\ copy'[q] = copy[q] /\ loaded'[q] = loaded[q]
             /\ (pc[q] # "idle" /\ link[q] = k) => k \in contended'
  BY <1>1 DEF StepOf
<1>2. contended \subseteq contended' /\ (pc'[r] # "idle" => link'[r] = k)
  BY DEF StepOf
<1>3. Alone'
  <2>. SUFFICES ASSUME NEW p \in Reqs, NEW q \in Reqs, pc'[p] # "idle", pc'[q] # "idle",
                       link'[p] = link'[q], link'[p] \notin contended', p # q
                PROVE  FALSE
    BY DEF Alone
  <2>1. CASE p = r
    BY <1>1, <1>2, <2>1
  <2>2. CASE q = r
    BY <1>1, <1>2, <2>2
  <2>3. CASE p # r /\ q # r
    <3>1. link[p] = link[q] /\ link[p] \notin contended /\ pc[p] # "idle" /\ pc[q] # "idle"
      BY <1>1, <1>2, <2>3
    <3>. QED
      BY <3>1 DEF ChargeInv, Alone
  <2>. QED
    BY <2>1, <2>2, <2>3
<1>4. ASSUME NEW q \in Reqs, q # r PROVE Fresh(q)'
  <2>. SUFFICES ASSUME pc'[q] # "idle", link'[q] \notin contended'
                PROVE  /\ Relies(copy'[q], loaded'[q], pc'[q], links'[link'[q]], served'[link'[q]])
                       /\ ~copy'[q].revoked => link'[q] \notin revoked'
    BY DEF Fresh, Relies, Columns
  <2>1. /\ pc'[q] = pc[q] /\ link'[q] = link[q] /\ copy'[q] = copy[q] /\ loaded'[q] = loaded[q]
        /\ link[q] # k /\ link[q] \notin contended
    BY <1>1, <1>2, <1>4
  <2>2. link[q] \in Links
    BY <2>1 DEF ChargeInv, LimitInv, RequestOK
  <2>3. links'[link[q]] = links[link[q]] /\ served'[link[q]] = served[link[q]]
        /\ (link[q] \in revoked' => link[q] \in revoked)
    BY <2>1, <2>2 DEF StepOf
  <2>4. Fresh(q)
    BY DEF ChargeInv
  <2>5. /\ Relies(copy[q], loaded[q], pc[q], links[link[q]], served[link[q]])
        /\ ~copy[q].revoked => link[q] \notin revoked
    BY <2>1, <2>4 DEF Fresh
  <2>. QED
    BY <2>1, <2>3, <2>5
<1>5. ASSUME NEW l \in Links, l # k PROVE Charged(l)' /\ Closed(l)'
  BY <1>5 DEF ChargeInv, Charged, Closed, StepOf, Exists
<1>6. \A q \in Reqs : Fresh(q)'
  BY <1>4
<1>. QED
  BY <1>3, <1>5, <1>6 DEF ChargeInv

LEMMA BeginCharged ==
  ASSUME ChargeInv, LimitInv', NEW r \in Reqs, NEW l \in Links, Exists(l),
         NEW c \in Mutable, Begin(r, l, c),
         c.count = IF c.revoked THEN links[l].count ELSE links[l].count + 1,
         ~c.revoked => ~links[l].revoked
  PROVE  ChargeInv'
<1>1. StepOf(r, l)
  BY DEF StepOf, Begin, On, ChargeInv, LimitInv, TypeOK
<1>2. pc'[r] = "load" /\ link'[r] = l /\ copy'[r] = c /\ contended \subseteq contended'
      /\ UNCHANGED <<links, served, revoked>>
  BY DEF Begin, ChargeInv, LimitInv, TypeOK
<1>3. Fresh(r)'
  BY <1>2 DEF Fresh, Relies, ChargeInv, Closed
<1>4. Charged(l)' /\ Closed(l)'
  BY <1>2 DEF ChargeInv, Charged, Closed, Exists
<1>. QED
  BY <1>1, <1>3, <1>4, StepKeeps

(* A request in progress is alone on its link, or the link is contended. *)
LEMMA GoesOn ==
  ASSUME ChargeInv, NEW r \in Reqs, NEW k \in Links, pc[r] # "idle", link[r] = k,
         UNCHANGED contended, revoked' \subseteq revoked \cup {k},
         \A q \in Reqs \ {r} :
           pc'[q] = pc[q] /\ link'[q] = link[q] /\ copy'[q] = copy[q] /\ loaded'[q] = loaded[q],
         pc'[r] # "idle" => link'[r] = k,
         \A l \in Links \ {k} : links'[l] = links[l] /\ served'[l] = served[l]
  PROVE  StepOf(r, k)
  BY DEF StepOf, ChargeInv, Alone

LEMMA CloseForgets ==
  ASSUME LimitInv, NEW r \in Reqs, Close(r)
  PROVE  /\ \A q \in Reqs \ {r} :
              pc'[q] = pc[q] /\ link'[q] = link[q] /\ copy'[q] = copy[q] /\ loaded'[q] = loaded[q]
         /\ pc'[r] = "idle" /\ UNCHANGED contended
  BY DEF LimitInv, TypeOK, Close

LEMMA LoadCharged ==
  ASSUME ChargeInv, LimitInv', NEW r \in Reqs, Load(r)
  PROVE  ChargeInv'
<1>1. PICK k \in Links : link[r] = k /\ pc[r] = "load"
  BY DEF Load, ChargeInv, LimitInv, RequestOK
<1>2. StepOf(r, k)
  BY <1>1, GoesOn DEF Load, ChargeInv, LimitInv, TypeOK
<1>3. Fresh(r)'
  BY <1>1 DEF Load, ChargeInv, LimitInv, TypeOK, Fresh, Relies
<1>4. Charged(k)' /\ Closed(k)'
  BY DEF Load, ChargeInv, Charged, Closed, Exists
<1>. QED
  BY <1>2, <1>3, <1>4, StepKeeps

LEMMA StoreCharged ==
  ASSUME ChargeInv, LimitInv', NEW r \in Reqs, Store(r)
  PROVE  ChargeInv'
<1>1. pc[r] = "store" /\ RequestOK(r)
  BY DEF Store, ChargeInv, LimitInv
<1>2. PICK k \in Links : link[r] = k /\ Exists(k)
  BY <1>1 DEF RequestOK
<1>3. copy[r] \in Mutable /\ loaded[r] \in Mutable /\ links[k] \in LinkRow
  BY <1>1, <1>2, RowTyped DEF RequestOK, ChargeInv
<1>4. links' = [links EXCEPT ![k] = Merged(links[k], loaded[r], copy[r])]
      /\ UNCHANGED contended
  BY <1>2 DEF Store, Close
<1>5. links'[k] = Merged(links[k], loaded[r], copy[r])
      /\ \A l \in Links \ {k} : links'[l] = links[l]
  BY <1>4 DEF ChargeInv, LimitInv, TypeOK
<1>6. links'[k] # None
  BY <1>3, <1>5, MergedTyped, NoneIsNoRow
<1>7. k \notin contended =>
        /\ Relies(copy[r], loaded[r], "store", links[k], served[k])
        /\ ~copy[r].revoked => k \notin revoked
  BY <1>1, <1>2 DEF ChargeInv, Fresh
<1>8. ASSUME k \notin contended
      PROVE  /\ links'[k].count = IF copy[r].revoked THEN links[k].count ELSE links[k].count + 1
             /\ links'[k].revoked <=> copy[r].revoked
  <2>1. loaded[r].count = links[k].count /\ loaded[r].revoked = links[k].revoked
    BY <1>2, <1>7, <1>8, RowTyped DEF Relies, ChargeInv
  <2>. QED
    BY <1>3, <1>5, <1>7, <1>8, <2>1 DEF Relies, Merged, LinkRow, Mutable
<1>9. links[k].count \in Nat /\ served[k] \in Nat
  BY <1>3 DEF LinkRow, ChargeInv, LimitInv, TypeOK
<1>10. k \notin contended => served[k] <= links[k].count
  BY <1>2 DEF ChargeInv, Charged
<1>11. served' = served
  BY DEF Store
<1>12. Charged(k)'
  BY <1>4, <1>6, <1>8, <1>9, <1>10, <1>11 DEF Charged, Exists
<1>13. CASE copy[r].revoked /\ Close(r) /\ revoked' = revoked \cup {k}
  <2>1. StepOf(r, k)
    BY <1>1, <1>2, <1>5, <1>11, <1>13, CloseForgets, GoesOn DEF ChargeInv
  <2>2. Fresh(r)'
    BY <1>13, CloseForgets DEF Fresh, ChargeInv
  <2>3. Closed(k)'
    BY <1>4, <1>6, <1>8, <1>13 DEF Closed, Exists
  <2>. QED
    BY <1>12, <2>1, <2>2, <2>3, StepKeeps
<1>14. CASE /\ ~copy[r].revoked
            /\ pc' = [pc EXCEPT ![r] = "respond"]
            /\ UNCHANGED <<now, link, copy, loaded, started, served, revoked, contended>>
  <2>1. StepOf(r, k)
    BY <1>1, <1>2, <1>5, <1>14, GoesOn DEF ChargeInv, LimitInv, TypeOK
  <2>2. pc'[r] = "respond"
    BY <1>14 DEF ChargeInv, LimitInv, TypeOK
  <2>3. Fresh(r)'
    BY <1>2, <1>7, <1>8, <1>9, <1>10, <1>14, <2>2 DEF Fresh, Relies
  <2>4. Closed(k)'
    BY <1>7, <1>14 DEF Closed
  <2>. QED
    BY <1>12, <2>1, <2>3, <2>4, StepKeeps
<1>. QED
  BY <1>2, <1>13, <1>14 DEF Store

LEMMA RespondCharged ==
  ASSUME ChargeInv, LimitInv', NEW r \in Reqs, Respond(r) \/ Fail(r)
  PROVE  ChargeInv'
<1>1. Close(r) /\ UNCHANGED <<links, revoked>> /\ pc[r] # "idle"
  BY DEF Respond, Fail
<1>2. PICK k \in Links : link[r] = k /\ Exists(k)
  BY <1>1 DEF ChargeInv, LimitInv, RequestOK
<1>3. \A l \in Links \ {k} : served'[l] = served[l]
  BY <1>2 DEF Respond, Fail, ChargeInv, LimitInv, TypeOK
<1>4. StepOf(r, k)
  BY <1>1, <1>2, <1>3, CloseForgets, GoesOn DEF ChargeInv
<1>5. Fresh(r)'
  BY <1>1, CloseForgets DEF Fresh, ChargeInv
<1>6. Closed(k)'
  BY <1>1 DEF ChargeInv, Closed, Close, Exists
<1>7. CASE Respond(r)
  <2>1. served'[k] = served[k] + 1 /\ served[k] \in Nat /\ links[k].count \in Nat
    BY <1>2, <1>7, RowTyped DEF Respond, ChargeInv, LimitInv, TypeOK, LinkRow
  <2>2. k \notin contended => served[k] < links[k].count
    BY <1>2, <1>7 DEF Respond, ChargeInv, Fresh, Relies
  <2>3. Charged(k)'
    BY <1>1, <1>2, <2>1, <2>2 DEF Charged, Exists, Close
  <2>. QED
    BY <1>4, <1>5, <1>6, <2>3, StepKeeps
<1>8. CASE Fail(r)
  <2>1. Charged(k)'
    BY <1>1, <1>8 DEF Fail, Close, ChargeInv, Charged, Exists
  <2>. QED
    BY <1>4, <1>5, <1>6, <2>1, StepKeeps
<1>. QED
  BY <1>7, <1>8

LEMMA ChargeInvStep == ChargeInv /\ [Next]_vars => ChargeInv'
<1>. SUFFICES ASSUME ChargeInv, [Next]_vars PROVE ChargeInv'
  OBVIOUS
<1>1. LimitInv'
  BY LimitInvStep DEF ChargeInv
<1>2. ASSUME NEW l \in Links, NEW limit \in Limits, NEW expires \in 0 .. MaxTime + 1,
             CreateLink(l, limit, expires)
      PROVE  ChargeInv'
  <2>1. ~Exists(l) /\ UNCHANGED <<pc, link, copy, loaded, served, revoked, contended>>
        /\ (\A k \in Links \ {l} : links'[k] = links[k]) /\ links'[l].count = 0
    BY <1>2 DEF CreateLink, ChargeInv, LimitInv, TypeOK
  <2>2. \A r \in Reqs : Fresh(r)'
    BY <2>1 DEF ChargeInv, LimitInv, RequestOK, Fresh
  <2>3. \A k \in Links : Charged(k)' /\ Closed(k)'
    BY <2>1 DEF ChargeInv, Charged, Closed, Exists
  <2>. QED
    BY <1>1, <2>1, <2>2, <2>3 DEF ChargeInv, Alone
<1>3. ASSUME NEW r \in Reqs, NEW l \in Links, StartDownload(r, l) PROVE ChargeInv'
  <2>. DEFINE c == [Columns(links[l]) EXCEPT !.count = @ + 1]
  <2>1. Exists(l) /\ ~links[l].revoked /\ Begin(r, l, c)
    BY <1>3 DEF StartDownload, CanDownload, IsActive
  <2>2. c \in Mutable /\ c.count = links[l].count + 1 /\ c.revoked = links[l].revoked
    BY <2>1, RowTyped DEF ChargeInv, Mutable
  <2>. HIDE DEF c
  <2>. QED
    BY <1>1, <2>1, <2>2, BeginCharged
<1>4. ASSUME NEW r \in Reqs, NEW l \in Links, StartRevoke(r, l) PROVE ChargeInv'
  <2>. DEFINE c == [Columns(links[l]) EXCEPT !.revoked = TRUE]
  <2>1. Exists(l) /\ Begin(r, l, c)
    BY <1>4 DEF StartRevoke
  <2>2. c \in Mutable /\ c.count = links[l].count /\ c.revoked
    BY <2>1, RowTyped DEF ChargeInv, Mutable
  <2>. HIDE DEF c
  <2>. QED
    BY <1>1, <2>1, <2>2, BeginCharged
<1>5. CASE Tick \/ UNCHANGED vars
  <2>1. UNCHANGED <<links, pc, link, copy, loaded, served, revoked, contended>>
    BY <1>5 DEF Tick, vars
  <2>. QED
    BY <1>1, <2>1 DEF ChargeInv, Alone, Fresh, Charged, Closed, Exists
<1>. QED
  BY <1>1, <1>2, <1>3, <1>4, <1>5, LoadCharged, StoreCharged, RespondCharged
  DEF Next, Continue

LEMMA ChargeInvInit == Init => ChargeInv
  BY LimitInvInit DEF Init, ChargeInv, Alone, Fresh, Charged, Closed, Exists

THEOREM ChargeInvariance == Spec => []ChargeInv
<1>. QED
  BY ChargeInvInit, ChargeInvStep, PTL DEF Spec

(* Every answered download has been charged, on links whose requests never
   overlapped, wherever requests die. *)
THEOREM DownloadsAreCharged == Spec => []ServedCharged
<1>1. ChargeInv => ServedCharged
  BY DEF ChargeInv, Charged, ServedCharged
<1>. QED
  BY <1>1, ChargeInvariance, PTL

(* A revoked link answers nothing, unless two requests have overlapped on it. *)
THEOREM RevocationCloses == Spec => RevokedStaysClosed
<1>. DEFINE Quiet == \A l \in revoked \ contended' : served'[l] = served[l]
<1>1. ChargeInv /\ [Next]_vars => [Quiet]_vars
  <2>. SUFFICES ASSUME ChargeInv, [Next]_vars, NEW l \in revoked \ contended'
                PROVE  served'[l] = served[l]
    OBVIOUS
  <2>1. ASSUME NEW r \in Reqs, Respond(r) PROVE served'[l] = served[l]
    <3>1. contended' = contended /\ served' = [served EXCEPT ![link[r]] = @ + 1]
      BY <2>1 DEF Respond, Close
    <3>2. pc[r] = "respond" /\ ~copy[r].revoked
      BY <2>1 DEF Respond, ChargeInv, LimitInv, RequestOK
    <3>3. link[r] # l
      BY <3>1, <3>2 DEF ChargeInv, Fresh
    <3>. QED
      BY <3>1, <3>3 DEF ChargeInv, LimitInv, TypeOK
  <2>. QED
    BY <2>1 DEF Next, Continue, CreateLink, StartDownload, StartRevoke, Begin, Load, Store,
                Fail, Tick, vars
<1>. QED
  BY <1>1, ChargeInvariance, PTL DEF Spec, RevokedStaysClosed

-----------------------------------------------------------------------------
(* ShareLinks implements CappedLink *)

Accounts == [l \in Links |-> Account(l)]

CapStep == Capped!Next \/ UNCHANGED <<Accounts, contended>>

\* A step that is about link k.
StepAbout(k) ==
  /\ contended \subseteq contended' /\ contended' \subseteq contended \cup {k}
  /\ \A l \in Links \ {k} : links'[l] = links[l] /\ served'[l] = served[l]

(* The accounts of other links stay. *)
LEMMA OneAccount ==
  ASSUME NEW k \in Links, StepAbout(k)
  PROVE  Accounts' = [Accounts EXCEPT ![k] = Account(k)']
<1>1. ASSUME NEW l \in Links \ {k} PROVE Account(l)' = Account(l)
  <2>1. links'[l] = links[l] /\ served'[l] = served[l] /\ (l \in contended' <=> l \in contended)
    BY DEF StepAbout
  <2>. QED
    BY <2>1 DEF Account, Exists
<1>. QED
  BY <1>1 DEF Accounts

(* Where requests overlap, the account is given up, or was before. *)
LEMMA CapLoosens ==
  ASSUME NEW k \in Links, StepAbout(k), k \in contended'
  PROVE  CapStep
<1>1. Accounts' = [Accounts EXCEPT ![k] = Capped!Blank]
  <2>1. Account(k)' = Capped!Blank
    BY DEF Account, Capped!Blank
  <2>. QED
    BY <2>1, OneAccount
<1>2. CASE k \in contended
  <2>1. contended' = contended
    BY <1>2 DEF StepAbout
  <2>2. Accounts[k] = Capped!Blank
    BY <1>2 DEF Accounts, Account, Capped!Blank
  <2>3. Accounts' = Accounts
    BY <1>1, <2>2 DEF Accounts
  <2>. QED
    BY <2>1, <2>3 DEF CapStep
<1>3. CASE k \notin contended
  <2>1. contended' = contended \cup {k}
    BY <1>3 DEF StepAbout
  <2>2. Capped!Loosen(k)
    BY <1>1, <1>3, <2>1 DEF Capped!Loosen, Accounts
  <2>. QED
    BY <2>2 DEF CapStep, Capped!Next
<1>. QED
  BY <1>2, <1>3

(* A step that writes no row and answers nothing is none of the account. *)
LEMMA CapQuiet ==
  ASSUME NEW k \in Links, StepAbout(k), links' = links, served' = served
  PROVE  CapStep
<1>1. CASE k \in contended'
  BY <1>1, CapLoosens
<1>2. CASE k \notin contended'
  <2>1. contended' = contended
    BY <1>2 DEF StepAbout
  <2>2. Accounts' = Accounts
    BY <2>1 DEF Accounts, Account, Exists
  <2>. QED
    BY <2>1, <2>2 DEF CapStep
<1>. QED
  BY <1>1, <1>2

(* The account of a link with a row, on which requests have not overlapped. *)
LEMMA AccountSays ==
  ASSUME NEW l \in Links, Exists(l), l \notin contended
  PROVE  Account(l) = [state   |-> IF links[l].revoked THEN "closed" ELSE "open",
                       limit   |-> links[l].limit,
                       charged |-> links[l].count,
                       served  |-> served[l]]
  BY DEF Account

LEMMA AccountWillSay ==
  ASSUME NEW l \in Links, Exists(l)', l \notin contended'
  PROVE  Account(l)' = [state   |-> IF links'[l].revoked THEN "closed" ELSE "open",
                        limit   |-> links'[l].limit,
                        charged |-> links'[l].count,
                        served  |-> served'[l]]
  BY DEF Account

LEMMA CreateCaps ==
  ASSUME ChargeInv, NEW l \in Links, NEW limit \in Limits, NEW expires \in 0 .. MaxTime + 1,
         CreateLink(l, limit, expires)
  PROVE  CapStep
<1>1. /\ ~Exists(l) /\ served[l] = 0
      /\ links' = [links EXCEPT ![l] =
           [limit |-> limit, expires |-> expires, count |-> 0, revoked |-> FALSE]]
      /\ served' = served /\ contended' = contended
  BY DEF CreateLink, ChargeInv, Charged
<1>2. /\ StepAbout(l)
      /\ links'[l] = [limit |-> limit, expires |-> expires, count |-> 0, revoked |-> FALSE]
  BY <1>1 DEF StepAbout, ChargeInv, LimitInv, TypeOK
<1>3. CASE l \notin contended
  <2>1. Exists(l)'
    <3>1. links'[l] \in LinkRow
      BY <1>2 DEF LinkRow
    <3>. QED
      BY <3>1, NoneIsNoRow DEF Exists
  <2>2. Account(l)' = [state |-> "open", limit |-> limit, charged |-> 0, served |-> 0]
    <3>1. links'[l].limit = limit /\ links'[l].count = 0 /\ ~links'[l].revoked
      BY <1>2
    <3>. QED
      BY <1>1, <1>3, <2>1, <3>1, AccountWillSay
  <2>3. Accounts[l].state = "none"
    BY <1>1 DEF Accounts, Account
  <2>4. Capped!Open(l, limit)
    BY <1>1, <1>2, <1>3, <2>2, <2>3, OneAccount DEF Capped!Open, Capped!Becomes, Accounts
  <2>. QED
    BY <2>4 DEF CapStep, Capped!Next
<1>. QED
  BY <1>1, <1>2, <1>3, CapLoosens

(* The store of a request that is alone on its link finds the row that it read. *)
LEMMA StoreCaps ==
  ASSUME ChargeInv, NEW r \in Reqs, Store(r)
  PROVE  CapStep
<1>1. pc[r] = "store" /\ RequestOK(r) /\ CopyWithinLimit(r)
  BY DEF Store, ChargeInv, LimitInv
<1>2. PICK k \in Links : link[r] = k /\ Exists(k)
  BY <1>1 DEF RequestOK
<1>3. copy[r] \in Mutable /\ loaded[r] \in Mutable /\ links[k] \in LinkRow
  BY <1>1, <1>2, RowTyped DEF RequestOK, ChargeInv
<1>4. links' = [links EXCEPT ![k] = Merged(links[k], loaded[r], copy[r])]
      /\ contended' = contended /\ served' = served
  BY <1>2 DEF Store, Close
<1>5. /\ links'[k] = Merged(links[k], loaded[r], copy[r])
      /\ StepAbout(k)
  BY <1>4 DEF StepAbout, ChargeInv, LimitInv, TypeOK
<1>6. CASE k \notin contended
  <2>1. Relies(copy[r], loaded[r], "store", links[k], served[k])
    BY <1>1, <1>2, <1>6 DEF ChargeInv, Fresh
  <2>2. loaded[r].count = links[k].count /\ loaded[r].revoked = links[k].revoked
    BY <1>2, <2>1, RowTyped DEF Relies, ChargeInv
  <2>3. /\ links'[k].limit = links[k].limit
        /\ links'[k].count = IF copy[r].revoked THEN links[k].count ELSE links[k].count + 1
        /\ links'[k].revoked <=> copy[r].revoked
    <3>1. copy[r].count = IF copy[r].revoked THEN links[k].count ELSE links[k].count + 1
      BY <2>1 DEF Relies
    <3>2. links'[k].limit = links[k].limit
      BY <1>3, <1>5, MergedTyped
    <3>3. links'[k].count = copy[r].count
      BY <1>3, <1>5, <2>2 DEF Merged, LinkRow, Mutable
    <3>4. links'[k].revoked <=> copy[r].revoked
      BY <1>3, <1>5, <2>2 DEF Merged, LinkRow, Mutable
    <3>. QED
      BY <3>1, <3>2, <3>3, <3>4
  <2>4. Exists(k)'
    BY <1>3, <1>5, MergedTyped, NoneIsNoRow DEF Exists
  <2>5. Account(k)' = [state   |-> IF copy[r].revoked THEN "closed" ELSE "open",
                       limit   |-> links[k].limit,
                       charged |-> IF copy[r].revoked THEN links[k].count
                                   ELSE links[k].count + 1,
                       served  |-> served[k]]
    BY <1>4, <1>6, <2>3, <2>4, AccountWillSay
  <2>6. Accounts[k] = [state   |-> IF links[k].revoked THEN "closed" ELSE "open",
                       limit   |-> links[k].limit,
                       charged |-> links[k].count,
                       served  |-> served[k]]
    BY <1>2, <1>6, AccountSays DEF Accounts
  <2>7. Accounts' = [Accounts EXCEPT ![k] = Account(k)']
    BY <1>5, OneAccount
  <2>8. CASE copy[r].revoked /\ links[k].revoked
    <3>1. Account(k)' = Accounts[k]
      BY <2>5, <2>6, <2>8
    <3>2. Accounts' = Accounts
      BY <2>7, <3>1 DEF Accounts
    <3>. QED
      BY <1>4, <3>2 DEF CapStep
  <2>9. CASE copy[r].revoked /\ ~links[k].revoked
    <3>1. Account(k)' = [Accounts[k] EXCEPT !.state = "closed"]
      BY <2>5, <2>6, <2>9
    <3>2. Capped!Close(k)
      BY <1>4, <1>6, <2>6, <2>7, <2>9, <3>1 DEF Capped!Close, Capped!Becomes, Accounts
    <3>. QED
      BY <3>2 DEF CapStep, Capped!Next
  <2>10. CASE ~copy[r].revoked
    <3>1. ~links[k].revoked /\ copy[r].count = links[k].count + 1
      BY <2>1, <2>10 DEF Relies
    <3>2. Account(k)' = [Accounts[k] EXCEPT !.charged = @ + 1]
      BY <2>5, <2>6, <2>10, <3>1
    <3>3. links[k].limit = None \/ links[k].count < links[k].limit
      <4>1. links[k].limit # None => links[k].limit \in Nat /\ copy[r].count <= links[k].limit
        BY <1>1, <1>2, <1>3, LimitsAssumption DEF CopyWithinLimit, LinkRow
      <4>2. links[k].count \in Nat
        BY <1>3 DEF LinkRow
      <4>. QED
        BY <3>1, <4>1, <4>2
    <3>4. Capped!Charge(k)
      BY <1>4, <1>6, <2>6, <2>7, <3>1, <3>2, <3>3 DEF Capped!Charge, Capped!Becomes, Accounts
    <3>. QED
      BY <3>4 DEF CapStep, Capped!Next
  <2>. QED
    BY <2>8, <2>9, <2>10
<1>. QED
  BY <1>4, <1>5, <1>6, CapLoosens

(* An answer is to a download that is charged, on an open link. *)
LEMMA RespondCaps ==
  ASSUME ChargeInv, NEW r \in Reqs, Respond(r)
  PROVE  CapStep
<1>1. pc[r] = "respond" /\ RequestOK(r)
  BY DEF Respond, ChargeInv, LimitInv
<1>2. PICK k \in Links : link[r] = k /\ Exists(k)
  BY <1>1 DEF RequestOK
<1>3. /\ links' = links /\ contended' = contended
      /\ served' = [served EXCEPT ![k] = @ + 1]
  BY <1>2 DEF Respond, Close
<1>4. served'[k] = served[k] + 1 /\ StepAbout(k)
  BY <1>3 DEF StepAbout, ChargeInv, LimitInv, TypeOK
<1>5. CASE k \notin contended
  <2>1. ~copy[r].revoked /\ Relies(copy[r], loaded[r], "respond", links[k], served[k])
    BY <1>1, <1>2, <1>5 DEF RequestOK, ChargeInv, Fresh
  <2>2. served[k] < links[k].count /\ ~links[k].revoked
    BY <2>1 DEF Relies
  <2>3. Accounts[k] = [state |-> "open", limit |-> links[k].limit,
                       charged |-> links[k].count, served |-> served[k]]
    BY <1>2, <1>5, <2>2, AccountSays DEF Accounts
  <2>4. Account(k)' = [state |-> "open", limit |-> links[k].limit,
                       charged |-> links[k].count, served |-> served[k] + 1]
    BY <1>2, <1>3, <1>4, <1>5, <2>2, AccountWillSay DEF Exists
  <2>5. Account(k)' = [Accounts[k] EXCEPT !.served = @ + 1]
    BY <2>3, <2>4
  <2>6. Capped!Serve(k)
    BY <1>3, <1>4, <1>5, <2>2, <2>3, <2>5, OneAccount DEF Capped!Serve, Capped!Becomes, Accounts
  <2>. QED
    BY <2>6 DEF CapStep, Capped!Next
<1>. QED
  BY <1>3, <1>4, <1>5, CapLoosens

LEMMA CapKept == ChargeInv /\ [Next]_vars => CapStep
<1>. SUFFICES ASSUME ChargeInv, [Next]_vars PROVE CapStep
  OBVIOUS
<1>1. ASSUME NEW r \in Reqs, NEW l \in Links, StartDownload(r, l) \/ StartRevoke(r, l)
      PROVE  CapStep
  <2>1. StepAbout(l) /\ links' = links /\ served' = served
    BY <1>1 DEF StartDownload, StartRevoke, Begin, StepAbout
  <2>. QED
    BY <2>1, CapQuiet
<1>2. ASSUME NEW r \in Reqs, Load(r) \/ Fail(r) PROVE CapStep
  <2>1. UNCHANGED <<links, served, contended>>
    BY <1>2 DEF Load, Fail, Close
  <2>2. Accounts' = Accounts
    BY <2>1 DEF Accounts, Account, Exists
  <2>. QED
    BY <2>1, <2>2 DEF CapStep
<1>3. CASE Tick \/ UNCHANGED vars
  <2>1. UNCHANGED <<links, served, contended>>
    BY <1>3 DEF Tick, vars
  <2>2. Accounts' = Accounts
    BY <2>1 DEF Accounts, Account, Exists
  <2>. QED
    BY <2>1, <2>2 DEF CapStep
<1>. QED
  BY <1>1, <1>2, <1>3, CreateCaps, StoreCaps, RespondCaps DEF Next, Continue

\* DownloadsCapped, for links on which requests have not overlapped.
DownloadsCappedAlone ==
  \A l \in Links \ contended :
    Exists(l) /\ links[l].limit # None => served[l] <= links[l].limit

(* The cap on downloads, without the overlap that defeats DownloadsCapped: no more are
   answered than the limit of the link. *)
THEOREM CapHoldsAlone == Spec => []DownloadsCappedAlone
<1>1. ASSUME ChargeInv, NEW l \in Links \ contended, Exists(l), links[l].limit # None
      PROVE  served[l] <= links[l].limit
  <2>1. served[l] <= links[l].count /\ links[l].count <= links[l].limit
    BY <1>1 DEF ChargeInv, LimitInv, Charged, CountWithinLimit
  <2>2. served[l] \in Nat /\ links[l] \in LinkRow /\ links[l].limit \in Nat
    BY <1>1, RowTyped, LimitsAssumption DEF ChargeInv, LimitInv, TypeOK, LinkRow
  <2>3. links[l].count \in Nat
    BY <2>2 DEF LinkRow
  <2>. QED
    BY <2>1, <2>2, <2>3
<1>2. ChargeInv => DownloadsCappedAlone
  BY <1>1 DEF DownloadsCappedAlone
<1>. QED
  BY <1>2, ChargeInvariance, PTL

(* ShareLinks implements the capped link: whatever the requests do to a link on which
   they do not overlap is an atomic step of its account, or none. *)
THEOREM CapIsKept == Spec => KeepsCap
<1>1. Init => Capped!Init
  BY DEF Init, Capped!Init, Capped!Blank, Account, Exists
<1>2. ChargeInv /\ [Next]_vars => [Capped!Next]_(Capped!vars)
  BY CapKept DEF CapStep, Capped!vars, Accounts
<1>. QED
  BY <1>1, <1>2, ChargeInvariance, PTL DEF Spec, KeepsCap, Capped!Spec
=============================================================================
