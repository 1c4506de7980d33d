-------------------------- MODULE AuditChainProofs ---------------------------
(***************************************************************************)
(* Theorems about AuditChain, for every value of its constants.            *)
(***************************************************************************)
EXTENDS AuditChain, TLAPS

-----------------------------------------------------------------------------
(* No link dangles *)

\* A hash one may hang an event on that is not earlier than time t.
Anchored(es, h, t) == h = Genesis \/ \E f \in es : f.hash = h /\ f.at < t

\* What a writer in progress remembers. Without it the chain properties are not
\* inductive: an event takes its link from the writer's memory.
WriterOK(w) ==
  pc[w] # "idle" =>
    /\ job[w] \in Job
    /\ pc[w] = "commit" => at[w] \in 1 .. clock
    /\ Anchored(events[job[w].resource], prev[w],
                IF pc[w] = "commit" THEN at[w] ELSE clock + 1)

\* Times are those of insertions begun.
TimesPast == \A res \in Resources : \A e \in events[res] : e.at <= clock

ChainInv ==
  /\ TypeOK
  /\ TimesPast
  /\ NoDanglingLink
  /\ \A w \in Writers : WriterOK(w)

\* A step that only adds events, and moves time forward, keeps what the other
\* writers remember.
LEMMA OthersKept ==
  ASSUME TypeOK, NEW q \in Writers, WriterOK(q),
         pc'[q] = pc[q], job'[q] = job[q], prev'[q] = prev[q], at'[q] = at[q],
         \A res \in Resources : events[res] \subseteq events'[res],
         clock' \in Nat, clock <= clock'
  PROVE  WriterOK(q)'
<1>. SUFFICES ASSUME pc[q] # "idle" PROVE WriterOK(q)'
  BY DEF WriterOK
<1>. DEFINE t == IF pc[q] = "commit" THEN at[q] ELSE clock + 1
            u == IF pc[q] = "commit" THEN at[q] ELSE clock' + 1
<1>1. job[q] \in Job /\ job[q].resource \in Resources
  BY DEF WriterOK, Job
<1>2. t \in Nat /\ u \in Nat /\ t <= u
  BY DEF TypeOK
<1>3. events[job[q].resource] \subseteq events'[job[q].resource]
  BY <1>1
<1>4. \A f \in events[job[q].resource] : f.at \in Nat
  BY <1>1 DEF TypeOK, Event
<1>. HIDE DEF t, u
<1>5. Anchored(events[job[q].resource], prev[q], t)
  BY DEF WriterOK, t
<1>6. Anchored(events'[job[q].resource], prev[q], u)
  BY <1>2, <1>3, <1>4, <1>5 DEF Anchored
<1>7. pc[q] = "commit" => at[q] \in 1 .. clock'
  BY DEF WriterOK, TypeOK
<1>. QED
  BY <1>1, <1>6, <1>7 DEF WriterOK, u

LEMMA ReadLastKept ==
  ASSUME ChainInv, NEW w \in Writers, NEW res \in Resources, NEW payload \in Payloads,
         ReadLast(w, res, payload)
  PROVE  ChainInv'
<1>1. Anchored(events[res], prev'[w], clock + 1) /\ prev'[w] \in Hash
  <2>1. CASE events[res] = {} /\ prev' = [prev EXCEPT ![w] = Genesis]
    BY <2>1 DEF Anchored, ChainInv, TypeOK, Hash, Genesis
  <2>2. ASSUME NEW e \in Latest(events[res]), prev' = [prev EXCEPT ![w] = e.hash]
        PROVE  Anchored(events[res], prev'[w], clock + 1) /\ prev'[w] \in Hash
    <3>1. e \in events[res] /\ e \in Event
      BY DEF Latest, ChainInv, TypeOK
    <3>2. e.at < clock + 1
      BY <3>1 DEF ChainInv, TimesPast, TypeOK, Event
    <3>. QED
      BY <2>2, <3>1, <3>2 DEF Anchored, ChainInv, TypeOK, Event
  <2>. QED
    BY <2>1, <2>2 DEF ReadLast
<1>2. /\ pc'[w] = "begin" /\ job'[w] = [resource |-> res, payload |-> payload]
      /\ UNCHANGED <<events, clock, at>>
      /\ \A q \in Writers \ {w} : pc'[q] = pc[q] /\ job'[q] = job[q] /\ prev'[q] = prev[q]
  BY DEF ReadLast, ChainInv, TypeOK
<1>3. TypeOK'
  <2>1. prev' \in [Writers -> Hash]
    BY <1>1 DEF ReadLast, ChainInv, TypeOK
  <2>2. job' \in [Writers -> Job \cup {NoJob}]
    BY DEF ReadLast, ChainInv, TypeOK, Job
  <2>3. pc' \in [Writers -> {"idle", "begin", "commit"}] /\ contended' \subseteq Resources
    BY DEF ReadLast, ChainInv, TypeOK
  <2>. QED
    BY <1>2, <2>1, <2>2, <2>3 DEF ChainInv, TypeOK
<1>4. TimesPast' /\ NoDanglingLink'
  BY <1>2 DEF ChainInv, TimesPast, NoDanglingLink, Before
<1>5. WriterOK(w)'
  BY <1>1, <1>2 DEF WriterOK, Job
<1>6. \A q \in Writers \ {w} : WriterOK(q)'
  BY <1>2, OthersKept DEF ChainInv, TypeOK
<1>. QED
  BY <1>3, <1>4, <1>5, <1>6 DEF ChainInv

LEMMA BeginInsertKept ==
  ASSUME ChainInv, NEW w \in Writers, BeginInsert(w)
  PROVE  ChainInv'
<1>1. /\ pc[w] = "begin" /\ pc'[w] = "commit" /\ at'[w] = clock + 1 /\ clock' = clock + 1
      /\ clock \in Nat /\ clock' \in 0 .. MaxEvents
      /\ UNCHANGED <<events, job, prev, contended>>
      /\ \A q \in Writers \ {w} : pc'[q] = pc[q] /\ at'[q] = at[q]
  BY BoundAssumption DEF BeginInsert, ChainInv, TypeOK
<1>2. TypeOK'
  BY <1>1, BoundAssumption DEF BeginInsert, ChainInv, TypeOK
<1>3. TimesPast' /\ NoDanglingLink'
  BY <1>1 DEF ChainInv, TimesPast, NoDanglingLink, Before, TypeOK, Event
<1>4. WriterOK(w)'
  BY <1>1 DEF ChainInv, WriterOK
<1>5. \A q \in Writers \ {w} : WriterOK(q)'
  BY <1>1, OthersKept DEF ChainInv
<1>. QED
  BY <1>2, <1>3, <1>4, <1>5 DEF ChainInv

(* Writers that end forget everything. *)
LEMMA CloseKept ==
  ASSUME ChainInv, NEW w \in Writers, Close(w), TimesPast', NoDanglingLink',
         events' \in [Resources -> SUBSET Event],
         \A res \in Resources : events[res] \subseteq events'[res]
  PROVE  ChainInv'
<1>1. TypeOK'
  BY BoundAssumption DEF Close, ChainInv, TypeOK, Hash, Genesis
<1>2. WriterOK(w)'
  BY DEF Close, ChainInv, TypeOK, WriterOK
<1>3. ASSUME NEW q \in Writers \ {w} PROVE WriterOK(q)'
  <2>1. pc'[q] = pc[q] /\ job'[q] = job[q] /\ prev'[q] = prev[q] /\ at'[q] = at[q]
    BY DEF Close, ChainInv, TypeOK
  <2>2. clock' = clock /\ clock \in Nat
    BY DEF Close, ChainInv, TypeOK
  <2>. QED
    BY <2>1, <2>2, OthersKept DEF ChainInv
<1>. QED
  BY <1>1, <1>2, <1>3 DEF ChainInv

LEMMA CommitInsertKept ==
  ASSUME ChainInv, NEW w \in Writers, CommitInsert(w)
  PROVE  ChainInv'
<1>. DEFINE res == job[w].resource
            row == Row(job[w].payload, prev[w], at[w])
<1>1. /\ Close(w) /\ pc[w] = "commit" /\ res \in Resources /\ job[w].payload \in Payloads
      /\ at[w] \in 1 .. clock /\ Anchored(events[res], prev[w], at[w])
  BY DEF CommitInsert, ChainInv, WriterOK, Job
<1>2. prev[w] \in Hash /\ Append(prev[w], job[w].payload) \in Hash
  BY <1>1 DEF ChainInv, TypeOK, Hash
<1>3. row \in Event /\ row.prev = prev[w] /\ row.at = at[w]
  BY <1>1, <1>2, JsonbAssumption, BoundAssumption
  DEF Row, ComputeHash, Event, ChainInv, TypeOK
<1>4. events' = [events EXCEPT ![res] = @ \cup {row}]
  BY DEF CommitInsert
<1>. HIDE DEF row
<1>5. /\ events' \in [Resources -> SUBSET Event]
      /\ \A s \in Resources : events[s] \subseteq events'[s]
      /\ events'[res] = events[res] \cup {row}
      /\ \A s \in Resources \ {res} : events'[s] = events[s]
  BY <1>1, <1>3, <1>4 DEF ChainInv, TypeOK
<1>6. clock' = clock
  BY <1>1 DEF Close
<1>7. TimesPast'
  BY <1>1, <1>3, <1>5, <1>6 DEF ChainInv, TimesPast, TypeOK
<1>8. NoDanglingLink'
  <2>. SUFFICES ASSUME NEW s \in Resources, NEW e \in events'[s]
                PROVE  e.prev = Genesis \/ \E f \in Before(events'[s], e) : e.prev = f.hash
    BY DEF NoDanglingLink, Before
  <2>1. CASE e \in events[s]
    BY <1>5, <2>1 DEF ChainInv, NoDanglingLink, Before
  <2>2. CASE s = res /\ e = row
    BY <1>1, <1>3, <1>5, <2>2 DEF Anchored, Before
  <2>. QED
    BY <1>5, <2>1, <2>2
<1>. QED
  BY <1>1, <1>5, <1>7, <1>8, CloseKept

LEMMA ChainInvStep == ChainInv /\ [Next]_vars => ChainInv'
<1>. SUFFICES ASSUME ChainInv, [Next]_vars PROVE ChainInv'
  OBVIOUS
<1>1. ASSUME NEW w \in Writers, Fail(w) PROVE ChainInv'
  <2>1. Close(w) /\ events' = events /\ clock' = clock
    BY <1>1 DEF Fail, Close
  <2>2. TimesPast' /\ NoDanglingLink'
    BY <2>1 DEF ChainInv, TimesPast, NoDanglingLink, Before
  <2>. QED
    BY <2>1, <2>2, CloseKept DEF ChainInv, TypeOK
<1>2. CASE UNCHANGED vars
  BY <1>2 DEF vars, ChainInv, TypeOK, TimesPast, NoDanglingLink, Before, WriterOK, Anchored
<1>. QED
  BY <1>1, <1>2, ReadLastKept, BeginInsertKept, CommitInsertKept DEF Next

LEMMA ChainInvInit == Init => ChainInv
  BY BoundAssumption
     DEF Init, ChainInv, TypeOK, TimesPast, NoDanglingLink, WriterOK, Hash, Genesis

THEOREM ChainInvariance == Spec => []ChainInv
<1>. QED
  BY ChainInvInit, ChainInvStep, PTL DEF Spec

(* Every variable of AuditChain keeps its type: the links of events stay hashes, and
   a writer in progress has a job. *)
THEOREM ChainTypeCorrect == Spec => []TypeOK
<1>1. ChainInv => TypeOK
  BY DEF ChainInv
<1>. QED
  BY <1>1, ChainInvariance, PTL

(* Under every interleaving of the writers, an event names GENESIS or the hash of
   an earlier event of its resource. *)
THEOREM NoLinkDangles == Spec => []NoDanglingLink
<1>1. ChainInv => NoDanglingLink
  BY DEF ChainInv
<1>. QED
  BY <1>1, ChainInvariance, PTL

-----------------------------------------------------------------------------
(* One chain where writers never overlapped *)

Alone ==
  \A w, q \in Writers :
    pc[w] # "idle" /\ pc[q] # "idle" /\ job[w].resource = job[q].resource
      /\ job[w].resource \notin contended => w = q

\* h is what an event should hang on that follows the events es.
Tip(es, h) ==
  \/ es = {} /\ h = Genesis
  \/ \E f \in es : (\A g \in es : g.at <= f.at) /\ h = f.hash

\* What writer w has read is still so, and its event will be the latest.
Current(w) ==
  pc[w] # "idle" /\ job[w].resource \notin contended =>
    /\ Tip(events[job[w].resource], prev[w])
    /\ pc[w] = "commit" => \A g \in events[job[w].resource] : g.at < at[w]

LinkInv ==
  /\ ChainInv
  /\ Alone
  /\ \A w \in Writers : Current(w)
  /\ LinkedFromGenesis

LEMMA ReadLastLinked ==
  ASSUME LinkInv, ChainInv', NEW w \in Writers, NEW res \in Resources,
         NEW payload \in Payloads, ReadLast(w, res, payload)
  PROVE  LinkInv'
<1>1. /\ pc[w] = "idle" /\ pc'[w] = "begin" /\ job'[w].resource = res
      /\ UNCHANGED <<events, clock, at>>
      /\ contended \subseteq contended'
      /\ \A q \in Writers \ {w} : pc'[q] = pc[q] /\ job'[q] = job[q] /\ prev'[q] = prev[q]
  BY DEF ReadLast, LinkInv, ChainInv, TypeOK
<1>2. ASSUME NEW q \in Writers, q # w, pc[q] # "idle", job[q].resource = res
      PROVE  res \in contended'
  BY <1>2 DEF ReadLast, On
<1>3. Tip(events[res], prev'[w])
  <2>1. prev \in [Writers -> Hash]
    BY DEF LinkInv, ChainInv, TypeOK
  <2>. QED
    BY <2>1 DEF ReadLast, Tip, Latest
<1>4. Alone'
  <2>. SUFFICES ASSUME NEW p \in Writers, NEW q \in Writers, pc'[p] # "idle", pc'[q] # "idle",
                       job'[p].resource = job'[q].resource,
                       job'[p].resource \notin contended', p # q
                PROVE  FALSE
    BY DEF Alone
  <2>1. CASE p = w
    BY <1>1, <1>2, <2>1
  <2>2. CASE q = w
    BY <1>1, <1>2, <2>2
  <2>3. CASE p # w /\ q # w
    BY <1>1, <2>3 DEF LinkInv, Alone
  <2>. QED
    BY <2>1, <2>2, <2>3
<1>5. Current(w)'
  BY <1>1, <1>3 DEF Current
<1>6. ASSUME NEW q \in Writers, q # w PROVE Current(q)'
  <2>1. pc'[q] = pc[q] /\ job'[q] = job[q] /\ prev'[q] = prev[q] /\ Current(q)
    BY <1>1, <1>6 DEF LinkInv
  <2>. QED
    BY <1>1, <2>1 DEF Current
<1>7. LinkedFromGenesis'
  BY <1>1 DEF LinkInv, LinkedFromGenesis, LinkedIn, Before
<1>. QED
  BY <1>4, <1>5, <1>6, <1>7 DEF LinkInv

LEMMA BeginInsertLinked ==
  ASSUME LinkInv, ChainInv', NEW w \in Writers, BeginInsert(w)
  PROVE  LinkInv'
<1>1. /\ pc[w] = "begin" /\ pc'[w] = "commit" /\ at'[w] = clock + 1
      /\ UNCHANGED <<events, job, prev, contended>>
      /\ \A q \in Writers \ {w} : pc'[q] = pc[q] /\ at'[q] = at[q]
  BY DEF BeginInsert, LinkInv, ChainInv, TypeOK
<1>2. Alone' /\ LinkedFromGenesis'
  BY <1>1 DEF LinkInv, Alone, LinkedFromGenesis, LinkedIn, Before
<1>3. Current(w)'
  <2>1. job[w].resource \in Resources
    BY <1>1 DEF LinkInv, ChainInv, WriterOK, Job
  <2>2. \A g \in events[job[w].resource] : g.at < clock + 1
    BY <2>1 DEF LinkInv, ChainInv, TimesPast, TypeOK, Event
  <2>3. Current(w)
    BY DEF LinkInv
  <2>. QED
    BY <1>1, <2>2, <2>3 DEF Current
<1>4. ASSUME NEW q \in Writers, q # w PROVE Current(q)'
  <2>1. pc'[q] = pc[q] /\ at'[q] = at[q] /\ Current(q)
    BY <1>1, <1>4 DEF LinkInv
  <2>. QED
    BY <1>1, <2>1 DEF Current
<1>. QED
  BY <1>2, <1>3, <1>4 DEF LinkInv

(* A writer that ends, leaving the events of other resources alone. *)
LEMMA CloseLinked ==
  ASSUME LinkInv, ChainInv', NEW w \in Writers, Close(w), LinkedFromGenesis', pc[w] # "idle",
         \A s \in Resources \ {job[w].resource} : events'[s] = events[s]
  PROVE  LinkInv'
<1>1. /\ pc'[w] = "idle" /\ UNCHANGED contended
      /\ \A q \in Writers \ {w} : /\ pc'[q] = pc[q] /\ job'[q] = job[q]
                                  /\ prev'[q] = prev[q] /\ at'[q] = at[q]
  BY DEF Close, LinkInv, ChainInv, TypeOK
<1>2. Alone'
  <2>. SUFFICES ASSUME NEW p \in Writers, NEW q \in Writers, pc'[p] # "idle", pc'[q] # "idle",
                       job'[p].resource = job'[q].resource,
                       job'[p].resource \notin contended'
                PROVE  p = q
    BY DEF Alone
  <2>1. p # w /\ q # w
    BY <1>1
  <2>2. pc'[p] = pc[p] /\ job'[p] = job[p] /\ pc'[q] = pc[q] /\ job'[q] = job[q]
    BY <1>1, <2>1
  <2>. QED
    BY <1>1, <2>2 DEF LinkInv, Alone
<1>3. Current(w)'
  BY <1>1 DEF Current
<1>4. ASSUME NEW q \in Writers, q # w PROVE Current(q)'
  <2>. SUFFICES ASSUME pc'[q] # "idle", job'[q].resource \notin contended' PROVE Current(q)'
    BY DEF Current
  <2>1. pc'[q] = pc[q] /\ job'[q] = job[q] /\ prev'[q] = prev[q] /\ at'[q] = at[q] /\ Current(q)
    BY <1>1, <1>4 DEF LinkInv
  <2>2. job[q].resource \in Resources
    BY <2>1 DEF LinkInv, ChainInv, WriterOK, Job
  <2>3. job[q].resource # job[w].resource
    BY <1>1, <1>4, <2>1 DEF LinkInv, Alone
  <2>. QED
    BY <1>1, <2>1, <2>2, <2>3 DEF Current
<1>. QED
  BY <1>2, <1>3, <1>4 DEF LinkInv

(* The new event is the latest, and hangs on the one that was. *)
LEMMA ExtendsChain ==
  ASSUME NEW es \in SUBSET Event, NEW row \in Event, Tip(es, row.prev),
         \A g \in es : g.at < row.at, \A e \in es : LinkedIn(es, e)
  PROVE  \A e \in es \cup {row} : LinkedIn(es \cup {row}, e)
<1>1. \A e \in es : e.at \in Nat /\ row.at \in Nat
  BY DEF Event
<1>2. Before(es \cup {row}, row) = es
  BY <1>1 DEF Before, Event
<1>3. ASSUME NEW e \in es PROVE Before(es \cup {row}, e) = Before(es, e)
  BY <1>1 DEF Before
<1>4. LinkedIn(es \cup {row}, row)
  BY <1>2 DEF LinkedIn, Tip
<1>5. \A e \in es : LinkedIn(es \cup {row}, e)
  BY <1>3 DEF LinkedIn
<1>. QED
  BY <1>4, <1>5

LEMMA CommitInsertLinked ==
  ASSUME LinkInv, ChainInv', NEW w \in Writers, CommitInsert(w)
  PROVE  LinkInv'
<1>. DEFINE res == job[w].resource
            row == Row(job[w].payload, prev[w], at[w])
<1>1. Close(w) /\ pc[w] = "commit" /\ res \in Resources /\ contended' = contended
  BY DEF CommitInsert, Close, LinkInv, ChainInv, WriterOK, Job
<1>2. row.prev = prev[w] /\ row.at = at[w]
  BY DEF Row
<1>3. events' = [events EXCEPT ![res] = @ \cup {row}]
  BY DEF CommitInsert
<1>. HIDE DEF row
<1>4. /\ events'[res] = events[res] \cup {row}
      /\ \A s \in Resources \ {res} : events'[s] = events[s]
  BY <1>1, <1>3 DEF LinkInv, ChainInv, TypeOK
<1>5. events[res] \subseteq Event /\ row \in Event
  BY <1>1, <1>4 DEF LinkInv, ChainInv, TypeOK
<1>6. ASSUME res \notin contended
      PROVE  \A e \in events'[res] : LinkedIn(events'[res], e)
  <2>1. Tip(events[res], row.prev) /\ \A g \in events[res] : g.at < row.at
    BY <1>1, <1>2, <1>6 DEF LinkInv, Current
  <2>2. \A e \in events[res] : LinkedIn(events[res], e)
    BY <1>1, <1>6 DEF LinkInv, LinkedFromGenesis
  <2>. QED
    BY <1>4, <1>5, <2>1, <2>2, ExtendsChain
<1>7. LinkedFromGenesis'
  <2>. SUFFICES ASSUME NEW s \in Resources, s \notin contended, NEW e \in events'[s]
                PROVE  LinkedIn(events'[s], e)
    BY <1>1 DEF LinkedFromGenesis, LinkedIn, Before
  <2>1. CASE s = res
    BY <1>6, <2>1
  <2>2. CASE s # res
    BY <1>4, <2>2 DEF LinkInv, LinkedFromGenesis
  <2>. QED
    BY <2>1, <2>2
<1>. QED
  BY <1>1, <1>4, <1>7, CloseLinked

LEMMA LinkInvStep == LinkInv /\ [Next]_vars => LinkInv'
<1>. SUFFICES ASSUME LinkInv, [Next]_vars PROVE LinkInv'
  OBVIOUS
<1>1. ChainInv'
  BY ChainInvStep DEF LinkInv
<1>2. ASSUME NEW w \in Writers, Fail(w) PROVE LinkInv'
  <2>1. Close(w) /\ pc[w] # "idle" /\ events' = events /\ contended' = contended
    BY <1>2 DEF Fail, Close
  <2>2. LinkedFromGenesis'
    BY <2>1 DEF LinkInv, LinkedFromGenesis, LinkedIn, Before
  <2>. QED
    BY <1>1, <2>1, <2>2, CloseLinked
<1>3. CASE UNCHANGED vars
  BY <1>1, <1>3 DEF vars, LinkInv, Alone, Current, LinkedFromGenesis, LinkedIn, Before
<1>. QED
  BY <1>1, <1>2, <1>3, ReadLastLinked, BeginInsertLinked, CommitInsertLinked DEF Next

LEMMA LinkInvInit == Init => LinkInv
  BY ChainInvInit DEF Init, LinkInv, Alone, Current, LinkedFromGenesis

THEOREM LinkInvariance == Spec => []LinkInv
<1>. QED
  BY LinkInvInit, LinkInvStep, PTL DEF Spec

(* Where no two writers overlapped, the events of a resource form one chain from
   GENESIS in the order of their times. *)
THEOREM ChainsAreLinked == Spec => []LinkedFromGenesis
<1>1. LinkInv => LinkedFromGenesis
  BY DEF LinkInv
<1>. QED
  BY <1>1, LinkInvariance, PTL

-----------------------------------------------------------------------------
(* Verification breaks on rewritten payloads only *)

\* The hash of every event was computed from its link and some payload.
Hashed ==
  \A res \in Resources : \A e \in events[res] :
    \E p \in Payloads : e.hash = ComputeHash(p, e.prev)

HashInv == ChainInv /\ Hashed

LEMMA HashInvStep == HashInv /\ [Next]_vars => HashInv'
<1>. SUFFICES ASSUME HashInv, [Next]_vars PROVE Hashed'
  BY ChainInvStep DEF HashInv
<1>1. CASE UNCHANGED events
  BY <1>1 DEF HashInv, Hashed
<1>2. ASSUME NEW w \in Writers, CommitInsert(w) PROVE Hashed'
  <2>. DEFINE row == Row(job[w].payload, prev[w], at[w])
  <2>1. job[w] \in Job /\ job[w].resource \in Resources /\ job[w].payload \in Payloads
    BY <1>2 DEF CommitInsert, HashInv, ChainInv, WriterOK, Job
  <2>2. row.hash = ComputeHash(job[w].payload, row.prev)
    BY DEF Row
  <2>3. events' = [events EXCEPT ![job[w].resource] = @ \cup {row}]
    BY <1>2 DEF CommitInsert
  <2>. HIDE DEF row
  <2>4. \A res \in Resources : events'[res] \subseteq events[res] \cup {row}
    BY <2>1, <2>3 DEF HashInv, ChainInv, TypeOK
  <2>. QED
    BY <2>1, <2>2, <2>4 DEF HashInv, Hashed
<1>. QED
  BY <1>1, <1>2 DEF Next, ReadLast, BeginInsert, Fail, vars

LEMMA HashInvInit == Init => HashInv
  BY ChainInvInit DEF Init, HashInv, Hashed

(* An event fails its verification exactly if its payload is no longer the one at the
   end of its hash. *)
LEMMA MatchesIfUntouched ==
  ASSUME NEW e \in Event, NEW p \in Payloads, e.hash = ComputeHash(p, e.prev), NEW es
  PROVE  Matches(e, es) <=> e.payload = e.hash[Len(e.hash)]
<1>1. e.prev \in Seq(Payloads) /\ e.payload \in Payloads
  BY DEF Event, Hash
<1>2. Len(Append(e.prev, p)) = Len(e.prev) + 1
      /\ Append(e.prev, p)[Len(e.prev) + 1] = p
      /\ Append(e.prev, e.payload)[Len(e.prev) + 1] = e.payload
  BY <1>1
<1>. QED
  BY <1>2 DEF Matches, ComputeHash

(* Under every interleaving, with any number of writers and any bound on the events
   read, verification names the first event read whose payload was rewritten. *)
THEOREM BreaksExplained == Spec => []BreaksOnlyOnRewriting
<1>1. HashInv => BreaksOnlyOnRewriting
  <2>. SUFFICES ASSUME HashInv, NEW res \in Resources
                PROVE  LET rewritten == {e \in Timeline(res) : e.payload # e.hash[Len(e.hash)]}
                       IN  Broken(res) = {e \in rewritten : \A f \in rewritten : e.at <= f.at}
    BY DEF BreaksOnlyOnRewriting
  <2>1. ASSUME NEW e \in Timeline(res)
        PROVE  Matches(e, Timeline(res)) <=> e.payload = e.hash[Len(e.hash)]
    <3>1. e \in events[res] /\ e \in Event
      BY DEF Timeline, HashInv, ChainInv, TypeOK
    <3>. QED
      BY <3>1, MatchesIfUntouched DEF HashInv, Hashed
  <2>2. {e \in Timeline(res) : ~Matches(e, Timeline(res))}
          = {e \in Timeline(res) : e.payload # e.hash[Len(e.hash)]}
    BY <2>1
  <2>. QED
    BY <2>2 DEF Broken
<1>. QED
  BY <1>1, HashInvInit, HashInvStep, PTL DEF Spec
=============================================================================
