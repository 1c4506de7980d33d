----------------------------- MODULE AuditChain ------------------------------
(***************************************************************************)
(* The chains of audit events: one per audited resource, extended by the   *)
(* requests and the Celery tasks that report on it, and verified by        *)
(* DocumentService.verify_integrity.                                       *)
(*                                                                         *)
(* A writer reads the hash of the latest event in one transaction and      *)
(* inserts its own event in another one, whose beginning fixes created_at  *)
(* (the column's default is NOW()): the order of events is the order in    *)
(* which their insertions began, not in which they committed.              *)
(*                                                                         *)
(* HMAC-SHA256 with a fixed key is taken as free of collisions: the hash   *)
(* of an event is the sequence of payloads that went into it. Payloads are *)
(* stored as JSONB, which gives a number back in another notation than the *)
(* one that was hashed (1e+16 comes back as 10000000000000000).            *)
(***************************************************************************)
EXTENDS Naturals, Sequences, FiniteSets

CONSTANTS
  Resources,  \* the resources audited: documents, versions, storage objects
  Payloads,   \* payloads of events, as json.dumps writes them
  Jsonb,      \* what each payload reads like after a round trip through JSONB
  Writers,    \* requests and tasks in progress
  MaxEvents,  \* bound: insertions begun in a behaviour
  Limit       \* how many events verify_integrity reads: 10000 in the code

ASSUME JsonbAssumption == Jsonb \in [Payloads -> Payloads]
ASSUME CanonicalAssumption == \A p \in Payloads : Jsonb[Jsonb[p]] = Jsonb[p]
ASSUME BoundAssumption == MaxEvents \in Nat
ASSUME LimitAssumption == Limit \in Nat \ {0}

VARIABLES
  events,    \* table audit_events, by resource
  clock,     \* the number of insertions begun: the time
  pc,        \* the transaction each writer performs next
  job,       \* the event each writer reports
  prev,      \* the hash each writer has read
  at,        \* when the insertion of each writer began
  contended  \* history: resources that two writers have reported on at once

vars == <<events, clock, pc, job, prev, at, contended>>

-----------------------------------------------------------------------------
(* Types *)

Genesis == <<>>

Hash == Seq(Payloads)

Event == [payload : Payloads, prev : Hash, hash : Hash, at : 1 .. MaxEvents]

Job == [resource : Resources, payload : Payloads]

\* What an idle writer's job is: it never gets used.
NoJob == <<>>

TypeOK ==
  /\ events \in [Resources -> SUBSET Event]
  /\ clock \in 0 .. MaxEvents
  /\ pc \in [Writers -> {"idle", "begin", "commit"}]
  /\ job \in [Writers -> Job \cup {NoJob}]
  /\ prev \in [Writers -> Hash]
  /\ at \in [Writers -> 0 .. MaxEvents]
  /\ contended \subseteq Resources

-----------------------------------------------------------------------------
(* The chain *)

\* IntegrityChainService.compute_hash.
ComputeHash(payload, previous) == Append(previous, payload)

\* Mutant: the order is ascending.
LatestIsFirst(es) == {e \in es : \A f \in es : e.at <= f.at}

\* ORDER BY created_at DESC LIMIT 1.
Latest(es) == {e \in es : \A f \in es : f.at <= e.at}

Before(es, e) == {f \in es : f.at < e.at}

\* The events of a resource that get_timeline returns.
Timeline(res) ==
  {e \in events[res] : Cardinality(Before(events[res], e)) < Limit}

\* Mutant: an event is checked against its predecessor in the timeline.
MatchesPredecessor(e, es) ==
  \A f \in Latest(Before(es, e)) : ComputeHash(e.payload, f.hash) = e.hash

\* One turn of the loop of verify_chain: the hash of each event is computed again
\* from the two other columns of the same event.
Matches(e, es) == ComputeHash(e.payload, e.prev) = e.hash

\* verify_integrity: the event it names as broken, if any.
Broken(res) ==
  LET bad == {e \in Timeline(res) : ~Matches(e, Timeline(res))}
  IN  {e \in bad : \A f \in bad : e.at <= f.at}

-----------------------------------------------------------------------------
(* Writers *)

Init ==
  /\ events = [res \in Resources |-> {}]
  /\ clock = 0
  /\ pc = [w \in Writers |-> "idle"]
  /\ job = [w \in Writers |-> NoJob]
  /\ prev = [w \in Writers |-> Genesis]
  /\ at = [w \in Writers |-> 0]
  /\ contended = {}

On(res) == {w \in Writers : pc[w] # "idle" /\ job[w].resource = res}

\* get_last_hash.
ReadLast(w, res, payload) ==
  /\ pc[w] = "idle"
  /\ pc' = [pc EXCEPT ![w] = "begin"]
  /\ job' = [job EXCEPT ![w] = [resource |-> res, payload |-> payload]]
  /\ \/ events[res] = {} /\ prev' = [prev EXCEPT ![w] = Genesis]
     \/ \E e \in Latest(events[res]) : prev' = [prev EXCEPT ![w] = e.hash]
  /\ contended' = contended \cup {s \in {res} : On(s) # {}}
  /\ UNCHANGED <<events, clock, at>>

\* Mutant: created_at is left unset.
BeginInsertUntimed(w) ==
  /\ pc[w] = "begin"
  /\ clock < MaxEvents
  /\ clock' = clock + 1
  /\ pc' = [pc EXCEPT ![w] = "commit"]
  /\ UNCHANGED <<events, job, prev, at, contended>>

\* create_event: the transaction begins.
BeginInsert(w) ==
  /\ pc[w] = "begin"
  /\ clock < MaxEvents
  /\ clock' = clock + 1
  /\ at' = [at EXCEPT ![w] = clock + 1]
  /\ pc' = [pc EXCEPT ![w] = "commit"]
  /\ UNCHANGED <<events, job, prev, contended>>

Close(w) ==
  /\ pc' = [pc EXCEPT ![w] = "idle"]
  /\ job' = [job EXCEPT ![w] = NoJob]
  /\ prev' = [prev EXCEPT ![w] = Genesis]
  /\ at' = [at EXCEPT ![w] = 0]
  /\ UNCHANGED <<clock, contended>>

\* Mutant: the two hashes change places.
RowSwapped(payload, previous, time) ==
  [payload |-> Jsonb[payload], prev |-> ComputeHash(payload, previous),
   hash |-> previous, at |-> time]

\* The row of an event. The hash covers the payload as it was written.
Row(payload, previous, time) ==
  [payload |-> Jsonb[payload], prev |-> previous,
   hash |-> ComputeHash(payload, previous), at |-> time]

\* create_event: INSERT and COMMIT.
CommitInsert(w) ==
  LET j == job[w]
  IN  /\ pc[w] = "commit"
      /\ events' = [events EXCEPT ![j.resource] = @ \cup {Row(j.payload, prev[w], at[w])}]
      /\ Close(w)

\* A writer dies, or the database refuses its event: an address that is not one,
\* an actor that is not a user, a payload that JSON does not know (NaN).
Fail(w) ==
  /\ pc[w] # "idle"
  /\ Close(w)
  /\ UNCHANGED events

Next ==
  \E w \in Writers :
    \/ \E res \in Resources, payload \in Payloads : ReadLast(w, res, payload)
    \/ BeginInsert(w)
    \/ CommitInsert(w)
    \/ Fail(w)

Spec == Init /\ [][Next]_vars

-----------------------------------------------------------------------------
(* Safety *)

\* Event e hangs on the latest of the events before it, the first on GENESIS.
LinkedIn(es, e) ==
  \/ Before(es, e) = {} /\ e.prev = Genesis
  \/ \E f \in Before(es, e) :
       /\ \A g \in Before(es, e) : g.at <= f.at
       /\ e.prev = f.hash

\* As long as no two writers have reported on a resource at once, its events form
\* one chain in the order of their times, whatever writers died on the way.
LinkedFromGenesis ==
  \A res \in Resources \ contended : \A e \in events[res] : LinkedIn(events[res], e)

\* Whatever overlaps, no link dangles: an event names GENESIS or the hash of an
\* event of the same resource that is earlier than itself. Chains may fork, but
\* every branch leads back to GENESIS.
NoDanglingLink ==
  \A res \in Resources : \A e \in events[res] :
    e.prev = Genesis \/ \E f \in Before(events[res], e) : e.prev = f.hash

\* Whatever overlaps, verification names the first event read whose payload the
\* database has rewritten, and none when there is no such event: a fork, and
\* the order of commits, never break a chain.
BreaksOnlyOnRewriting ==
  \A res \in Resources :
    LET rewritten == {e \in Timeline(res) : e.payload # e.hash[Len(e.hash)]}
    IN  Broken(res) = {e \in rewritten : \A f \in rewritten : e.at <= f.at}

-----------------------------------------------------------------------------
(* What the documentation says and the code does not do *)

\* README: each event "records prev_hash, forming a verifiable chain".
ChainLinked ==
  \A res \in Resources : \A e \in events[res] : LinkedIn(events[res], e)
=============================================================================
