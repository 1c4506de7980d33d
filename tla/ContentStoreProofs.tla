-------------------------- MODULE ContentStoreProofs --------------------------
(***************************************************************************)
(* Theorems about ContentStore, for every value of its constants: types,   *)
(* what uploads leave behind (NoGhosts, PublishedIntact, LeaksExplained),  *)
(* and what repeated and overlapping runs of tasks leave (MarksFaithful,   *)
(* ReportsBacked).                                                         *)
(*                                                                         *)
(* The state falls in two halves. Uploads write files, their rows and      *)
(* documents, and tasks only read these; so the invariant of the uploads   *)
(* (UploadInv) stands alone, and that of the tasks (TaskInv) rests on it   *)
(* and on the fact that what uploads have stored only grows (Grows).       *)
(***************************************************************************)
EXTENDS ContentStore, FiniteSetTheorems, TLAPS

-----------------------------------------------------------------------------
(* The order of the steps *)

LEMMA AfterNth ==
  ASSUME NEW order, NEW n \in DOMAIN order,
         \A i, j \in DOMAIN order : order[i] = order[j] => i = j
  PROVE  After(order, order[n]) = order[1 + n]
<1>1. (CHOOSE i \in DOMAIN order : order[i] = order[n]) = n
  OBVIOUS
<1>. QED
  BY <1>1 DEF After

LEMMA UploadOrderIs ==
  /\ ToSet(UploadOrder) = {"put", "row", "document", "version", "publish"}
  /\ Head(UploadOrder) = "put"
  /\ Last(UploadOrder) = "publish"
  /\ After(UploadOrder, "put") = "row"
  /\ After(UploadOrder, "row") = "document"
  /\ After(UploadOrder, "document") = "version"
  /\ After(UploadOrder, "version") = "publish"
<1>1. ToSet(UploadOrder) = {"put", "row", "document", "version", "publish"}
  BY DEF ToSet, UploadOrder
<1>2. Head(UploadOrder) = "put" /\ Last(UploadOrder) = "publish"
  BY DEF UploadOrder, Last
<1>3. DOMAIN UploadOrder = 1 .. 5 /\ \A i, j \in 1 .. 5 : UploadOrder[i] = UploadOrder[j] => i = j
  BY DEF UploadOrder
<1>4. \A n \in 1 .. 4 : After(UploadOrder, UploadOrder[n]) = UploadOrder[1 + n]
  BY <1>3, AfterNth
<1>5. /\ UploadOrder[1] = "put" /\ UploadOrder[2] = "row" /\ UploadOrder[3] = "document"
      /\ UploadOrder[4] = "version" /\ UploadOrder[5] = "publish"
  BY DEF UploadOrder
<1>. QED
  BY <1>1, <1>2, <1>4, <1>5

LEMMA VerifyOrderIs ==
  /\ ToSet(TaskOrder["verify"]) = {"read", "get", "record", "event", "ack"}
  /\ After(TaskOrder["verify"], "read") = "get"
  /\ After(TaskOrder["verify"], "get") = "record"
  /\ After(TaskOrder["verify"], "record") = "event"
  /\ After(TaskOrder["verify"], "event") = "ack"
<1>. DEFINE o == TaskOrder["verify"]
<1>1. o = <<"read", "get", "record", "event", "ack">>
  BY DEF TaskOrder
<1>. HIDE DEF o
<1>2. ToSet(o) = {"read", "get", "record", "event", "ack"}
  BY <1>1 DEF ToSet
<1>3. DOMAIN o = 1 .. 5 /\ \A i, j \in 1 .. 5 : o[i] = o[j] => i = j
  BY <1>1
<1>4. \A n \in 1 .. 4 : After(o, o[n]) = o[1 + n]
  BY <1>3, AfterNth
<1>5. o[1] = "read" /\ o[2] = "get" /\ o[3] = "record" /\ o[4] = "event" /\ o[5] = "ack"
  BY <1>1
<1>6. /\ After(o, "read") = "get" /\ After(o, "get") = "record"
      /\ After(o, "record") = "event" /\ After(o, "event") = "ack"
  BY <1>4, <1>5
<1>. QED
  BY <1>2, <1>6 DEF o

LEMMA WatermarkOrderIs ==
  /\ ToSet(TaskOrder["watermark"]) = {"read", "get", "mark", "ack"}
  /\ After(TaskOrder["watermark"], "read") = "get"
  /\ After(TaskOrder["watermark"], "get") = "mark"
  /\ After(TaskOrder["watermark"], "mark") = "ack"
<1>. DEFINE o == TaskOrder["watermark"]
<1>1. o = <<"read", "get", "mark", "ack">>
  BY DEF TaskOrder
<1>. HIDE DEF o
<1>2. ToSet(o) = {"read", "get", "mark", "ack"}
  BY <1>1 DEF ToSet
<1>3. DOMAIN o = 1 .. 4 /\ \A i, j \in 1 .. 4 : o[i] = o[j] => i = j
  BY <1>1
<1>4. \A n \in 1 .. 3 : After(o, o[n]) = o[1 + n]
  BY <1>3, AfterNth
<1>5. o[1] = "read" /\ o[2] = "get" /\ o[3] = "mark" /\ o[4] = "ack"
  BY <1>1
<1>6. After(o, "read") = "get" /\ After(o, "get") = "mark" /\ After(o, "mark") = "ack"
  BY <1>4, <1>5
<1>. QED
  BY <1>2, <1>6 DEF o

LEMMA PackageOrderIs ==
  /\ ToSet(TaskOrder["package"]) = {"read", "pack", "row", "event", "ack"}
  /\ After(TaskOrder["package"], "read") = "pack"
  /\ After(TaskOrder["package"], "pack") = "row"
  /\ After(TaskOrder["package"], "row") = "event"
  /\ After(TaskOrder["package"], "event") = "ack"
<1>. DEFINE o == TaskOrder["package"]
<1>1. o = <<"read", "pack", "row", "event", "ack">>
  BY DEF TaskOrder
<1>. HIDE DEF o
<1>2. ToSet(o) = {"read", "pack", "row", "event", "ack"}
  BY <1>1 DEF ToSet
<1>3. DOMAIN o = 1 .. 5 /\ \A i, j \in 1 .. 5 : o[i] = o[j] => i = j
  BY <1>1
<1>4. \A n \in 1 .. 4 : After(o, o[n]) = o[1 + n]
  BY <1>3, AfterNth
<1>5. o[1] = "read" /\ o[2] = "pack" /\ o[3] = "row" /\ o[4] = "event" /\ o[5] = "ack"
  BY <1>1
<1>6. /\ After(o, "read") = "pack" /\ After(o, "pack") = "row"
      /\ After(o, "row") = "event" /\ After(o, "event") = "ack"
  BY <1>4, <1>5
<1>. QED
  BY <1>2, <1>6 DEF o

LEMMA TaskStepsAre ==
  TaskSteps = {"read", "get", "record", "mark", "pack", "row", "event", "ack"}
<1>1. TaskSteps = ToSet(TaskOrder["verify"]) \cup ToSet(TaskOrder["watermark"])
                    \cup ToSet(TaskOrder["package"])
  BY DEF TaskSteps, Kinds
<1>. QED
  BY <1>1, VerifyOrderIs, WatermarkOrderIs, PackageOrderIs
-----------------------------------------------------------------------------
(* The invariant of the uploads *)

UploadTypes ==
  /\ blobs \in [Docs -> File \cup {None}]
  /\ rows \subseteq Docs
  /\ docs \in [Docs -> {"none", "processing", "current"}]
  /\ versions \in [Docs -> Version \cup {None}]
  /\ kek \in Keks
  /\ pc \in [Reqs -> {"idle", "put", "row", "document", "version", "publish"}]
  /\ upload \in [Reqs -> Upload \cup {None}]
  /\ uploaded \in [Docs -> Contents \cup {None}]
  /\ abandoned \subseteq Docs

\* An upload in progress remembers what was uploaded, has a key under the key now
\* configured, and has stored what the writes before the next one store.
UploadOK(r) ==
  pc[r] # "idle" =>
    /\ upload[r] \in Upload
    /\ upload[r].content = uploaded[upload[r].doc]
    /\ upload[r].key = Wrapped(upload[r].doc)
    /\ pc[r] # "put" => blobs[upload[r].doc] # None
    /\ pc[r] \in {"document", "version", "publish"} => upload[r].doc \in rows
    /\ pc[r] = "publish" => versions[upload[r].doc] # None

\* What is stored of document d: nothing before the upload, what was uploaded, and
\* each write only on top of the ones before it.
StoredOK(d) ==
  /\ blobs[d] # None =>
       uploaded[d] # None /\ blobs[d] = Encrypted(uploaded[d], d)
  /\ d \in rows => blobs[d] # None
  /\ versions[d] # None =>
       d \in rows /\ versions[d].key.dek = d /\ versions[d].checksum = uploaded[d]
  /\ docs[d] = "current" => versions[d] # None

Explained(d) ==
  d \notin abandoned /\ blobs[d] # None /\ docs[d] # "current" =>
    \E r \in Reqs : pc[r] # "idle" /\ upload[r].doc = d

UploadInv ==
  /\ UploadTypes
  /\ \A r \in Reqs : UploadOK(r)
  /\ \A d \in Docs : StoredOK(d) /\ Explained(d)

-----------------------------------------------------------------------------
(* The invariant of the tasks *)

TaskTypes ==
  /\ marks \in [Docs \X Shares -> Mark \cup {None}]
  /\ packs \in [Jobs -> Nat]
  /\ packRows \in [Jobs -> Nat]
  /\ records \in [Jobs -> Nat]
  /\ events \in [Jobs -> Nat]
  /\ tasks \in [Jobs -> Task \cup {None}]
  /\ queue \in [Jobs \X Retries -> Nat]
  /\ runs \in [Jobs -> Nat]
  /\ done \subseteq Jobs
  /\ at \in [Workers -> {"idle", "retried"} \cup TaskSteps]
  /\ job \in [Workers -> Jobs \cup {None}]
  /\ tries \in [Workers -> Retries]
  /\ plain \in [Workers -> Contents \cup {None}]

MarkOK(d, s) ==
  marks[<<d, s>>] # None =>
    /\ blobs[d] # None
    /\ marks[<<d, s>>].content = uploaded[d]
    /\ marks[<<d, s>>].dek = d
    /\ \A text \in marks[<<d, s>>].faces \ {None} : \E j \in Jobs : AsksFor(j, d, s, text)

\* The runs of task j that are at one of the steps S, and how many they are.
In(j, S) == {w \in Workers : job[w] = j /\ at[w] \in S}
Count(j, S) == Cardinality(In(j, S))

\* The steps at which a run has not stored its result yet, and those at which it has
\* stored a package but no row, or a result but no event.
FreshSteps == {"read", "get", "record", "mark", "pack", "row"}
RowSteps == {"row"}
EventSteps == {"event"}

\* A run in progress is owed what its next steps will store: before its row, a package;
\* before its event, a result; and before its result, the delivery that began it.
TaskOK(j) ==
  /\ packRows[j] + Count(j, RowSteps) <= packs[j]
  /\ tasks[j] = None =>
       /\ records[j] = 0 /\ packRows[j] = 0 /\ events[j] = 0 /\ j \notin done
       /\ \A n \in Retries : queue[<<j, n>>] = 0
  /\ tasks[j] # None =>
       /\ tasks[j].kind = "watermark" => tasks[j].share # None /\ tasks[j].text # None
       /\ events[j] + Count(j, EventSteps) <= Stored(j)
       /\ Stored(j) + Count(j, FreshSteps) <= runs[j]
       /\ j \in done /\ tasks[j].kind # "watermark" => events[j] >= 1

\* Worker w runs a task, at a step of its kind or about to acknowledge after a retry,
\* having found the version it reads and having in its hands what its document
\* contains; it does not acknowledge success before it has reported.
RunOK(w) ==
  at[w] # "idle" =>
    LET j == job[w]
        t == tasks[j]
    IN  /\ j \in Jobs
        /\ t \in Task
        /\ at[w] = "retried" \/ at[w] \in ToSet(TaskOrder[t.kind])
        /\ at[w] \notin {"read", "retried"} /\ t.kind # "package" => versions[t.doc] # None
        /\ at[w] = "mark" => plain[w] = uploaded[t.doc]
        /\ at[w] = "ack" /\ t.kind # "watermark" => events[j] >= 1

TaskInv ==
  /\ TaskTypes
  /\ \A d \in Docs, s \in Shares : MarkOK(d, s)
  /\ \A j \in Jobs : TaskOK(j)
  /\ \A w \in Workers : RunOK(w)

-----------------------------------------------------------------------------
(* Uploads *)

\* What uploads have stored stays, and is added to.
Grows ==
  /\ rows \subseteq rows'
  /\ \A d \in Docs :
       /\ uploaded[d] # None => uploaded'[d] = uploaded[d]
       /\ blobs[d] # None => blobs'[d] = blobs[d]
       /\ versions[d] # None => versions'[d] # None

\* The slots other than r.
OthersStay(r) == \A q \in Reqs \ {r} : pc'[q] = pc[q] /\ upload'[q] = upload[q]

LEMMA OthersKeep ==
  ASSUME UploadInv, NEW r \in Reqs, Grows, kek' = kek, OthersStay(r)
  PROVE  \A q \in Reqs \ {r} : UploadOK(q)'
<1>. SUFFICES ASSUME NEW q \in Reqs \ {r}, pc[q] # "idle" PROVE UploadOK(q)'
  BY DEF UploadOK, OthersStay
<1>1. UploadOK(q) /\ pc'[q] = pc[q] /\ upload'[q] = upload[q]
  BY DEF UploadInv, OthersStay
<1>2. upload[q] \in Upload /\ upload[q].doc \in Docs /\ upload[q].content \in Contents
  BY <1>1 DEF UploadOK, Upload
<1>3. uploaded'[upload[q].doc] = uploaded[upload[q].doc]
  BY <1>1, <1>2, NoneAssumption DEF UploadOK, Grows
<1>. QED
  BY <1>1, <1>2, <1>3 DEF UploadOK, Grows, Wrapped

\* Upload r, about document e, performs one of its writes.
LEMMA UploadKeeps ==
  ASSUME UploadInv, UploadTypes', NEW r \in Reqs, pc[r] # "idle",
         NEW e \in Docs, upload[r].doc = e,
         Grows, kek' = kek, OthersStay(r), UploadOK(r)',
         uploaded' = uploaded, abandoned \subseteq abandoned',
         \A d \in Docs \ {e} :
           /\ blobs'[d] = blobs[d] /\ versions'[d] = versions[d] /\ docs'[d] = docs[d]
           /\ d \in rows' <=> d \in rows,
         StoredOK(e)',
         \/ pc'[r] # "idle" /\ upload'[r].doc = e
         \/ docs'[e] = "current"
         \/ e \in abandoned'
  PROVE  UploadInv'
<1>1. \A q \in Reqs : UploadOK(q)'
  BY OthersKeep
<1>2. ASSUME NEW d \in Docs, d # e PROVE StoredOK(d)' /\ Explained(d)'
  <2>1. StoredOK(d)'
    BY <1>2 DEF UploadInv, StoredOK
  <2>2. ASSUME d \notin abandoned', blobs'[d] # None, docs'[d] # "current"
        PROVE  \E q \in Reqs : pc'[q] # "idle" /\ upload'[q].doc = d
    <3>1. PICK q \in Reqs : pc[q] # "idle" /\ upload[q].doc = d
      BY <1>2, <2>2 DEF UploadInv, Explained
    <3>. QED
      BY <1>2, <3>1 DEF OthersStay
  <2>. QED
    BY <2>1, <2>2 DEF Explained
<1>3. Explained(e)'
  BY DEF Explained
<1>. QED
  BY <1>1, <1>2, <1>3 DEF UploadInv

LEMMA PerformsNext ==
  ASSUME UploadInv, NEW r \in Reqs,
         NEW s \in {"put", "row", "document", "version", "publish"}, Performs(r, s)
  PROVE  /\ upload[r] \in Upload /\ UploadOK(r) /\ pc[r] = s
         /\ UNCHANGED <<uploaded, abandoned, kek, celery>> /\ OthersStay(r)
         /\ pc' \in [Reqs -> {"idle", "put", "row", "document", "version", "publish"}]
         /\ upload' \in [Reqs -> Upload \cup {None}]
         /\ s = "publish" => pc'[r] = "idle"
         /\ s # "publish" => pc'[r] = After(UploadOrder, s) /\ upload' = upload
<1>1. pc[r] = s /\ upload[r] \in Upload /\ UploadOK(r)
  BY DEF Performs, UploadInv, UploadOK
<1>2. s # "publish" => After(UploadOrder, s) \in {"row", "document", "version", "publish"}
  BY UploadOrderIs
<1>3. \/ /\ s # "publish" /\ pc' = [pc EXCEPT ![r] = After(UploadOrder, s)] /\ upload' = upload
      \/ /\ s = "publish" /\ pc' = [pc EXCEPT ![r] = "idle"]
         /\ upload' = [upload EXCEPT ![r] = None]
  BY UploadOrderIs DEF Performs
<1>. QED
  BY <1>1, <1>2, <1>3 DEF Performs, UploadInv, UploadTypes, OthersStay

LEMMA UploadStepKeeps ==
  ASSUME UploadInv, NEW r \in Reqs, UploadStep(r)
  PROVE  UploadInv' /\ Grows
<1>1. pc[r] # "idle" /\ upload[r] \in Upload /\ UploadOK(r)
  BY PerformsNext DEF UploadStep, PutFile, CreateStorageObject, CreateDocument, CreateVersion, Publish
<1>. PICK u \in Upload : upload[r] = u
  BY <1>1
<1>. PICK e \in Docs : u.doc = e
  BY DEF Upload
<1>2. u.content \in Contents /\ u.key \in WrappedKey /\ u.key.dek = e
      /\ u.content = uploaded[e] /\ uploaded[e] # None
  BY <1>1, NoneAssumption DEF Upload, UploadOK, Wrapped
<1>3. StoredOK(e) /\ UploadTypes
  BY <1>2 DEF UploadInv
<1>4. CASE PutFile(r)
  <2>1. /\ blobs' = [blobs EXCEPT ![e] = Encrypted(uploaded[e], e)]
        /\ UNCHANGED <<rows, docs, versions>>
    BY <1>2, <1>4 DEF PutFile, tables
  <2>2. /\ UNCHANGED <<uploaded, abandoned, kek, upload>> /\ OthersStay(r) /\ pc'[r] = "row"
        /\ pc' \in [Reqs -> {"idle", "put", "row", "document", "version", "publish"}]
    BY <1>4, PerformsNext, UploadOrderIs DEF PutFile
  <2>3. Encrypted(uploaded[e], e) \in File /\ Encrypted(uploaded[e], e) # None
    BY <1>2, NoneAssumption DEF Encrypted, File
  <2>4. UploadTypes' /\ blobs'[e] = Encrypted(uploaded[e], e)
    BY <1>3, <2>1, <2>2, <2>3 DEF UploadTypes
  <2>5. \A d \in Docs \ {e} : blobs'[d] = blobs[d]
    BY <1>3, <2>1 DEF UploadTypes
  <2>6. Grows
    BY <1>3, <2>1, <2>2, <2>4, <2>5 DEF Grows, StoredOK
  <2>7. StoredOK(e)'
    BY <1>2, <1>3, <2>1, <2>2, <2>3, <2>4 DEF StoredOK, Encrypted
  <2>8. UploadOK(r)'
    BY <1>1, <2>1, <2>2, <2>3, <2>4 DEF UploadOK, Wrapped
  <2>. QED
    BY <1>1, <1>2, <2>1, <2>2, <2>4, <2>5, <2>6, <2>7, <2>8, UploadKeeps
<1>5. CASE CreateStorageObject(r)
  <2>1. rows' = rows \cup {e} /\ UNCHANGED <<blobs, docs, versions>> /\ pc[r] = "row"
    BY <1>5 DEF CreateStorageObject, Performs, bucket
  <2>2. /\ UNCHANGED <<uploaded, abandoned, kek, upload>> /\ OthersStay(r) /\ pc'[r] = "document"
        /\ pc' \in [Reqs -> {"idle", "put", "row", "document", "version", "publish"}]
    BY <1>5, PerformsNext, UploadOrderIs DEF CreateStorageObject
  <2>3. UploadTypes' /\ Grows
    BY <1>2, <1>3, <2>1, <2>2 DEF UploadTypes, Grows
  <2>4. StoredOK(e)' /\ UploadOK(r)'
    BY <1>1, <1>3, <2>1, <2>2 DEF StoredOK, UploadOK, Wrapped
  <2>. QED
    BY <1>1, <1>2, <2>1, <2>2, <2>3, <2>4, UploadKeeps
<1>6. CASE CreateDocument(r)
  <2>1. docs' = [docs EXCEPT ![e] = "processing"] /\ UNCHANGED <<blobs, rows, versions>>
        /\ pc[r] = "document"
    BY <1>6 DEF CreateDocument, Performs, bucket
  <2>2. /\ UNCHANGED <<uploaded, abandoned, kek, upload>> /\ OthersStay(r) /\ pc'[r] = "version"
        /\ pc' \in [Reqs -> {"idle", "put", "row", "document", "version", "publish"}]
    BY <1>6, PerformsNext, UploadOrderIs DEF CreateDocument
  <2>3. UploadTypes' /\ Grows /\ docs'[e] = "processing" /\ \A d \in Docs \ {e} : docs'[d] = docs[d]
    BY <1>2, <1>3, <2>1, <2>2 DEF UploadTypes, Grows
  <2>4. StoredOK(e)' /\ UploadOK(r)'
    BY <1>1, <1>3, <2>1, <2>2, <2>3 DEF StoredOK, UploadOK, Wrapped
  <2>. QED
    BY <1>1, <1>2, <2>1, <2>2, <2>3, <2>4, UploadKeeps
<1>7. CASE CreateVersion(r)
  <2>. DEFINE v == [key |-> u.key, checksum |-> u.content]
  <2>1. versions' = [versions EXCEPT ![e] = v] /\ UNCHANGED <<blobs, rows, docs>>
        /\ pc[r] = "version"
    BY <1>7 DEF CreateVersion, Performs, bucket
  <2>2. /\ UNCHANGED <<uploaded, abandoned, kek, upload>> /\ OthersStay(r) /\ pc'[r] = "publish"
        /\ pc' \in [Reqs -> {"idle", "put", "row", "document", "version", "publish"}]
    BY <1>7, PerformsNext, UploadOrderIs DEF CreateVersion
  <2>3. v \in Version /\ v # None /\ v.key.dek = e /\ v.checksum = uploaded[e]
    BY <1>2, NoneAssumption DEF Version
  <2>. HIDE DEF v
  <2>4. UploadTypes' /\ versions'[e] = v /\ \A d \in Docs \ {e} : versions'[d] = versions[d]
    BY <1>2, <1>3, <2>1, <2>2, <2>3 DEF UploadTypes
  <2>5. Grows
    BY <2>1, <2>2, <2>3, <2>4 DEF Grows
  <2>6. StoredOK(e)' /\ UploadOK(r)'
    BY <1>1, <1>3, <2>1, <2>2, <2>3, <2>4 DEF StoredOK, UploadOK, Wrapped
  <2>. QED
    BY <1>1, <1>2, <2>1, <2>2, <2>4, <2>5, <2>6, UploadKeeps
<1>8. CASE Publish(r)
  <2>1. docs' = [docs EXCEPT ![e] = "current"] /\ UNCHANGED <<blobs, rows, versions>>
        /\ pc[r] = "publish"
    BY <1>8 DEF Publish, Performs, bucket
  <2>2. /\ UNCHANGED <<uploaded, abandoned, kek>> /\ OthersStay(r) /\ pc'[r] = "idle"
        /\ pc' \in [Reqs -> {"idle", "put", "row", "document", "version", "publish"}]
        /\ upload' \in [Reqs -> Upload \cup {None}]
    BY <1>8, PerformsNext DEF Publish
  <2>3. UploadTypes' /\ Grows /\ docs'[e] = "current" /\ \A d \in Docs \ {e} : docs'[d] = docs[d]
    BY <1>2, <1>3, <2>1, <2>2 DEF UploadTypes, Grows
  <2>4. StoredOK(e)' /\ UploadOK(r)'
    BY <1>1, <1>3, <2>1, <2>2, <2>3 DEF StoredOK, UploadOK
  <2>. QED
    BY <1>1, <1>2, <2>1, <2>2, <2>3, <2>4, UploadKeeps
<1>. QED
  BY <1>4, <1>5, <1>6, <1>7, <1>8 DEF UploadStep

LEMMA StartUploadKeeps ==
  ASSUME UploadInv, NEW r \in Reqs, NEW d \in Docs, NEW content \in Contents,
         StartUpload(r, d, content)
  PROVE  UploadInv' /\ Grows
<1>. DEFINE u == [doc |-> d, content |-> content, key |-> Wrapped(d)]
<1>1. /\ pc' = [pc EXCEPT ![r] = "put"] /\ pc[r] = "idle" /\ uploaded[d] = None
      /\ upload' = [upload EXCEPT ![r] = u]
      /\ uploaded' = [uploaded EXCEPT ![d] = content]
      /\ UNCHANGED <<blobs, rows, docs, versions, kek, abandoned>>
  BY UploadOrderIs DEF StartUpload, bucket, tables
<1>2. u \in Upload /\ u.doc = d /\ u.content = content /\ u.key = Wrapped(d)
  BY DEF Upload, Wrapped, WrappedKey, UploadInv, UploadTypes
<1>. HIDE DEF u
<1>3. UploadTypes' /\ OthersStay(r) /\ pc'[r] = "put" /\ upload'[r] = u /\ uploaded'[d] = content
      /\ \A e \in Docs \ {d} : uploaded'[e] = uploaded[e]
  BY <1>1, <1>2 DEF UploadInv, UploadTypes, OthersStay
<1>4. Grows
  BY <1>1, <1>3 DEF Grows
<1>5. \A q \in Reqs : UploadOK(q)'
  <2>1. UploadOK(r)'
    BY <1>1, <1>2, <1>3 DEF UploadOK, Wrapped
  <2>. QED
    BY <1>1, <1>3, <1>4, <2>1, OthersKeep
<1>6. ASSUME NEW e \in Docs PROVE StoredOK(e)' /\ Explained(e)'
  <2>1. StoredOK(e) /\ Explained(e)
    BY DEF UploadInv
  <2>2. StoredOK(e)'
    BY <1>1, <1>3, <2>1 DEF StoredOK
  <2>3. Explained(e)'
    BY <1>1, <1>3, <2>1 DEF Explained, OthersStay
  <2>. QED
    BY <2>2, <2>3
<1>. QED
  BY <1>3, <1>4, <1>5, <1>6 DEF UploadInv

\* An upload dies; or all of them do, and the key is another.
LEMMA UploadsDie ==
  ASSUME UploadInv, (\E r \in Reqs : Fail(r)) \/ \E k \in Keks : Redeploy(k)
  PROVE  UploadInv' /\ Grows
<1>1. UNCHANGED <<blobs, rows, docs, versions, uploaded>> /\ abandoned \subseteq abandoned'
  BY DEF Fail, Redeploy, bucket, tables
<1>2. ASSUME NEW r \in Reqs, pc[r] # "idle" PROVE upload[r].doc \in Docs
  BY <1>2 DEF UploadInv, UploadOK, Upload
<1>3. UploadTypes'
  BY <1>1, <1>2 DEF UploadInv, UploadTypes, Fail, Redeploy
<1>4. ASSUME NEW q \in Reqs, pc'[q] # "idle"
      PROVE  pc'[q] = pc[q] /\ upload'[q] = upload[q] /\ kek' = kek
  BY <1>4 DEF Fail, Redeploy, UploadInv, UploadTypes
<1>5. ASSUME NEW q \in Reqs, pc[q] # "idle", upload[q].doc \notin abandoned'
      PROVE  pc'[q] = pc[q] /\ upload'[q] = upload[q]
  BY <1>5 DEF Fail, Redeploy, UploadInv, UploadTypes
<1>6. Grows
  BY <1>1 DEF Grows
<1>7. \A q \in Reqs : UploadOK(q)'
  BY <1>1, <1>4 DEF UploadInv, UploadOK, Wrapped
<1>8. ASSUME NEW d \in Docs PROVE StoredOK(d)' /\ Explained(d)'
  BY <1>1, <1>5 DEF UploadInv, StoredOK, Explained
<1>. QED
  BY <1>3, <1>6, <1>7, <1>8 DEF UploadInv

\* Tasks leave alone what uploads write.
LEMMA UploadsApart ==
  ASSUME UploadInv, UNCHANGED <<blobs, rows, docs, versions, requests, kek>>
  PROVE  UploadInv' /\ Grows
<1>1. UploadTypes' /\ Grows
  BY DEF UploadInv, UploadTypes, Grows, requests
<1>2. \A r \in Reqs : UploadOK(r)'
  BY DEF UploadInv, UploadOK, Wrapped, requests
<1>3. \A d \in Docs : StoredOK(d)' /\ Explained(d)'
  BY DEF UploadInv, StoredOK, Explained, requests
<1>. QED
  BY <1>1, <1>2, <1>3 DEF UploadInv

-----------------------------------------------------------------------------
(* Tasks *)

LEMMA NextStepIs ==
  ASSUME NEW k \in Kinds, NEW s \in ToSet(TaskOrder[k]), NEW n, n = After(TaskOrder[k], s)
  PROVE  /\ s # "ack" => n \in ToSet(TaskOrder[k]) /\ n \in TaskSteps /\ n # "read"
         /\ s = "read" /\ k = "package" => n = "pack"
         /\ s = "read" /\ k # "package" => n = "get"
         /\ s = "get" => (k = "verify" /\ n = "record") \/ (k = "watermark" /\ n = "mark")
         /\ s = "record" => k = "verify" /\ n = "event"
         /\ s = "mark" => k = "watermark" /\ n = "ack"
         /\ s = "pack" => k = "package" /\ n = "row"
         /\ s = "row" => k = "package" /\ n = "event"
         /\ s = "event" => k # "watermark" /\ n = "ack"
<1>1. CASE k = "verify"
  <2>1. s \in {"read", "get", "record", "event", "ack"} /\ n = After(TaskOrder["verify"], s)
    BY <1>1, VerifyOrderIs
  <2>2. CASE s = "read"
    BY <1>1, <2>1, <2>2, VerifyOrderIs, TaskStepsAre
  <2>3. CASE s = "get"
    BY <1>1, <2>1, <2>3, VerifyOrderIs, TaskStepsAre
  <2>4. CASE s = "record"
    BY <1>1, <2>1, <2>4, VerifyOrderIs, TaskStepsAre
  <2>5. CASE s = "event"
    BY <1>1, <2>1, <2>5, VerifyOrderIs, TaskStepsAre
  <2>. QED
    BY <2>1, <2>2, <2>3, <2>4, <2>5
<1>2. CASE k = "watermark"
  BY <1>2, WatermarkOrderIs, TaskStepsAre
<1>3. CASE k = "package"
  BY <1>3, PackageOrderIs, TaskStepsAre
<1>. QED
  BY <1>1, <1>2, <1>3 DEF Kinds

\* What the runs of task i have stored, and how often it was delivered.
CountsStay(i) ==
  /\ packs'[i] = packs[i] /\ packRows'[i] = packRows[i] /\ records'[i] = records[i]
  /\ events'[i] = events[i] /\ runs'[i] = runs[i]

LEMMA StepSets ==
  /\ \A s : (s \in RowSteps <=> s = "row") /\ (s \in EventSteps <=> s = "event")
  /\ "read" \in FreshSteps /\ "get" \in FreshSteps /\ "record" \in FreshSteps
  /\ "mark" \in FreshSteps /\ "pack" \in FreshSteps /\ "row" \in FreshSteps
  /\ "event" \notin FreshSteps /\ "ack" \notin FreshSteps
  /\ "idle" \notin FreshSteps /\ "retried" \notin FreshSteps
<1>. QED
  BY DEF RowSteps, EventSteps, FreshSteps

LEMMA CountIsNat ==
  ASSUME NEW j, NEW S
  PROVE  Count(j, S) \in Nat
<1>1. In(j, S) \in SUBSET Workers
  BY DEF In
<1>. QED
  BY <1>1, FiniteAssumption, FS_Subset, FS_CardinalityType DEF Count

\* The workers other than w.
OthersRun(w) ==
  \A v \in Workers \ {w} : at'[v] = at[v] /\ job'[v] = job[v] /\ plain'[v] = plain[v]

\* A step of one worker changes the count of the runs at some steps by that worker.
LEMMA CountMoves ==
  ASSUME NEW w \in Workers, OthersRun(w), NEW j, NEW S
  PROVE  /\ Count(j, S) \in Nat /\ Count(j, S)' \in Nat
         /\ (w \in In(j, S) <=> w \in In(j, S)') => Count(j, S)' = Count(j, S)
         /\ w \in In(j, S) /\ w \notin In(j, S)' => Count(j, S)' = Count(j, S) - 1
         /\ w \notin In(j, S) /\ w \in In(j, S)' => Count(j, S)' = Count(j, S) + 1
<1>. DEFINE A == In(j, S)
            B == In(j, S)'
<1>1. A \in SUBSET Workers /\ B \in SUBSET Workers
  BY DEF In
<1>2. A \ {w} = B \ {w}
  BY DEF In, OthersRun
<1>3. Count(j, S) = Cardinality(A) /\ Count(j, S)' = Cardinality(B)
  BY DEF Count
<1>. HIDE DEF A, B
<1>4. IsFiniteSet(A) /\ IsFiniteSet(B)
  BY <1>1, FiniteAssumption, FS_Subset
<1>5. Cardinality(A) \in Nat /\ Cardinality(B) \in Nat
  BY <1>4, FS_CardinalityType
<1>6. /\ w \in A => Cardinality(A \ {w}) = Cardinality(A) - 1
      /\ w \notin A => A \ {w} = A
  BY <1>4, FS_RemoveElement
<1>7. /\ w \in B => Cardinality(B \ {w}) = Cardinality(B) - 1
      /\ w \notin B => B \ {w} = B
  BY <1>4, FS_RemoveElement
<1>8. /\ (w \in A <=> w \in B) => Cardinality(B) = Cardinality(A)
      /\ w \in A /\ w \notin B => Cardinality(B) = Cardinality(A) - 1
      /\ w \notin A /\ w \in B => Cardinality(B) = Cardinality(A) + 1
  BY <1>2, <1>5, <1>6, <1>7
<1>. QED
  BY <1>3, <1>5, <1>8 DEF A, B

\* The counts of a task that worker w runs neither before nor after the step.
LEMMA OtherTaskKeeps ==
  ASSUME TaskInv, NEW w \in Workers, OthersRun(w), NEW i \in Jobs, CountsStay(i),
         at[w] # "idle" => job[w] # i, at'[w] # "idle" => job'[w] # i,
         tasks'[i] = tasks[i], (i \in done') <=> (i \in done),
         \A n \in Retries : queue'[<<i, n>>] = queue[<<i, n>>]
  PROVE  TaskOK(i)'
<1>1. ASSUME NEW S, "idle" \notin S PROVE Count(i, S)' = Count(i, S)
  <2>1. w \notin In(i, S) /\ w \notin In(i, S)'
    BY <1>1 DEF In
  <2>. QED
    BY <2>1, CountMoves
<1>2. /\ Count(i, RowSteps)' = Count(i, RowSteps) /\ Count(i, EventSteps)' = Count(i, EventSteps)
      /\ Count(i, FreshSteps)' = Count(i, FreshSteps)
  BY <1>1, StepSets
<1>3. TaskOK(i) /\ Stored(i)' = Stored(i)
  BY DEF TaskInv, CountsStay, Stored
<1>. QED
  BY <1>2, <1>3 DEF TaskOK, CountsStay

\* The uploads leave alone what tasks write, and what a run has found stays.
LEMMA TasksApart ==
  ASSUME UploadInv, TaskInv, Grows, UNCHANGED <<marks, packs, packRows, records, events, celery>>
  PROVE  TaskInv'
<1>1. TaskTypes'
  BY DEF TaskInv, TaskTypes, celery, broker, workers
<1>2. ASSUME NEW d \in Docs
      PROVE  /\ blobs[d] # None => blobs'[d] # None /\ uploaded'[d] = uploaded[d]
             /\ versions[d] # None => versions'[d] # None /\ uploaded'[d] = uploaded[d]
  BY DEF UploadInv, StoredOK, Grows
<1>3. ASSUME NEW d \in Docs, NEW s \in Shares PROVE MarkOK(d, s)'
  <2>1. MarkOK(d, s)
    BY DEF TaskInv
  <2>. QED
    BY <1>2, <2>1 DEF MarkOK, AsksFor, celery, broker
<1>4. \A j \in Jobs : TaskOK(j)'
  BY DEF TaskInv, TaskOK, Stored, Count, In, celery, broker, workers
<1>5. ASSUME NEW w \in Workers, at[w] # "idle" PROVE RunOK(w)'
  <2>1. RunOK(w) /\ tasks[job[w]] \in Task
    BY <1>5 DEF TaskInv, RunOK
  <2>2. PICK d \in Docs : tasks[job[w]].doc = d
    BY <2>1 DEF Task
  <2>3. tasks[job[w]].kind \in Kinds
    BY <2>1 DEF Task
  <2>4. at[w] = "mark" => tasks[job[w]].kind # "package"
    BY <1>5, <2>1, PackageOrderIs DEF RunOK
  <2>. QED
    BY <1>2, <1>5, <2>1, <2>2, <2>4 DEF RunOK, celery, broker, workers
<1>6. \A w \in Workers : RunOK(w)'
  BY <1>5 DEF RunOK, celery, workers
<1>. QED
  BY <1>1, <1>3, <1>4, <1>6 DEF TaskInv

\* What a step of worker w, about task j, leaves of the runs of others.
LEMMA OtherRunsKeep ==
  ASSUME TaskInv, NEW w \in Workers, OthersRun(w), UNCHANGED <<versions, uploaded>>,
         \A i \in Jobs : tasks[i] # None => tasks'[i] = tasks[i],
         \A i \in Jobs : events'[i] = events[i] \/ events'[i] = events[i] + 1
  PROVE  \A v \in Workers \ {w} : RunOK(v)'
<1>. SUFFICES ASSUME NEW v \in Workers, v # w, at[v] # "idle" PROVE RunOK(v)'
  BY DEF RunOK, OthersRun
<1>1. RunOK(v) /\ at'[v] = at[v] /\ job'[v] = job[v] /\ plain'[v] = plain[v]
  BY DEF TaskInv, OthersRun
<1>2. PICK j \in Jobs : job[v] = j
  BY <1>1 DEF RunOK
<1>3. tasks[j] \in Task /\ tasks'[j] = tasks[j] /\ events[j] \in Nat
  BY <1>1, <1>2, NoneAssumption DEF RunOK, TaskInv, TaskTypes
<1>4. events[j] >= 1 => events'[j] >= 1
  BY <1>3
<1>. QED
  BY <1>1, <1>2, <1>3, <1>4 DEF RunOK

\* A step of worker w, whose task is j, that goes on with the run.
LEMMA RunKeeps ==
  ASSUME TaskInv, TaskTypes', NEW w \in Workers, at[w] # "idle", NEW j \in Jobs, job[w] = j,
         UNCHANGED <<job, broker, versions, uploaded>>,
         \A v \in Workers \ {w} : at'[v] = at[v] /\ plain'[v] = plain[v],
         \A i \in Jobs \ {j} : CountsStay(i),
         events'[j] = events[j] \/ events'[j] = events[j] + 1,
         TaskOK(j)', RunOK(w)', \A d \in Docs, s \in Shares : MarkOK(d, s)'
  PROVE  TaskInv'
<1>1. OthersRun(w)
  BY DEF OthersRun
<1>2. ASSUME NEW i \in Jobs, i # j PROVE TaskOK(i)'
  BY <1>1, <1>2, OtherTaskKeeps DEF broker
<1>3. \A i \in Jobs : events'[i] = events[i] \/ events'[i] = events[i] + 1
  BY DEF CountsStay
<1>4. \A v \in Workers \ {w} : RunOK(v)'
  BY <1>1, <1>3, OtherRunsKeep DEF broker
<1>. QED
  BY <1>2, <1>4 DEF TaskInv

\* What is known of a run in progress.
LEMMA RunIs ==
  ASSUME TaskInv, NEW w \in Workers, at[w] # "idle"
  PROVE  /\ job[w] \in Jobs /\ tasks[job[w]] \in Task /\ tasks[job[w]] # None
         /\ tasks[job[w]].kind \in Kinds /\ tasks[job[w]].doc \in Docs
         /\ Stored(job[w]) \in Nat /\ runs[job[w]] \in Nat
         /\ RunOK(w) /\ TaskOK(job[w]) /\ TaskTypes
         /\ at[w] # "retried" => at[w] \in ToSet(TaskOrder[tasks[job[w]].kind])
<1>1. RunOK(w) /\ job[w] \in Jobs /\ tasks[job[w]] \in Task
  BY DEF TaskInv, RunOK
<1>. QED
  BY <1>1, NoneAssumption DEF TaskInv, RunOK, Task, Stored, TaskTypes

\* Worker w goes on with task j: which counts move.
LEMMA StepCounts ==
  ASSUME NEW w \in Workers, OthersRun(w), NEW j, job[w] = j, job'[w] = j, NEW S
  PROVE  /\ (at[w] \in S <=> at'[w] \in S) => Count(j, S)' = Count(j, S)
         /\ at[w] \in S /\ at'[w] \notin S => Count(j, S)' = Count(j, S) - 1
         /\ at[w] \notin S /\ at'[w] \in S => Count(j, S)' = Count(j, S) + 1
<1>1. (w \in In(j, S) <=> at[w] \in S) /\ (w \in In(j, S)' <=> at'[w] \in S)
  BY DEF In
<1>. QED
  BY <1>1, CountMoves

\* A request for a copy stays when no task is given up for another.
LEMMA MarksKeep ==
  ASSUME TaskInv, UNCHANGED <<marks, blobs, uploaded>>,
         \A i \in Jobs : tasks[i] # None => tasks'[i] = tasks[i]
  PROVE  \A d \in Docs, s \in Shares : MarkOK(d, s)'
<1>. SUFFICES ASSUME NEW d \in Docs, NEW s \in Shares, marks[<<d, s>>] # None
              PROVE  MarkOK(d, s)'
  BY DEF MarkOK
<1>1. MarkOK(d, s) /\ marks[<<d, s>>] \in Mark /\ marks'[<<d, s>>] = marks[<<d, s>>]
  BY DEF TaskInv, TaskTypes
<1>2. ASSUME NEW text \in marks[<<d, s>>].faces \ {None}
      PROVE  \E i \in Jobs : AsksFor(i, d, s, text)'
  <2>1. PICK i \in Jobs : AsksFor(i, d, s, text)
    BY <1>1 DEF MarkOK
  <2>2. text \in Texts
    BY <1>1 DEF Mark
  <2>3. tasks[i] \in Task
    BY <2>1, <2>2 DEF AsksFor, Task, Kinds
  <2>4. tasks'[i] = tasks[i]
    BY <2>3, NoneAssumption
  <2>. QED
    BY <2>1, <2>4 DEF AsksFor
<1>3. \A text \in marks'[<<d, s>>].faces \ {None} : \E i \in Jobs : AsksFor(i, d, s, text)'
  BY <1>1, <1>2
<1>. QED
  BY <1>1, <1>3 DEF MarkOK

\* The task of a run that goes on keeps what it is owed.
LEMMA RunningTaskKeeps ==
  ASSUME TaskInv, NEW j \in Jobs, tasks[j] # None, UNCHANGED broker, TaskTypes',
         packRows'[j] + Count(j, RowSteps)' <= packs'[j],
         events'[j] + Count(j, EventSteps)' <= Stored(j)',
         Stored(j)' + Count(j, FreshSteps)' <= runs[j],
         events'[j] = events[j] \/ events'[j] = events[j] + 1
  PROVE  TaskOK(j)'
<1>1. TaskOK(j) /\ tasks'[j] = tasks[j] /\ runs'[j] = runs[j] /\ done' = done
  BY DEF TaskInv, broker
<1>2. events[j] \in Nat
  BY DEF TaskInv, TaskTypes
<1>. QED
  BY <1>1, <1>2 DEF TaskOK

LEMMA ReadKeeps ==
  ASSUME TaskInv, NEW w \in Workers, Read(w)
  PROVE  TaskInv'
<1>1. PICK j \in Jobs : job[w] = j
  BY RunIs DEF Read, Runs
<1>. DEFINE t == tasks[j]
            n == After(TaskOrder[t.kind], "read")
<1>2. /\ at[w] = "read" /\ at' = [at EXCEPT ![w] = n] /\ Found(t)
      /\ UNCHANGED <<marks, packs, packRows, records, events, blobs, versions, uploaded,
                     broker, job, tries, plain>>
  BY <1>1 DEF Read, Runs, bucket, tables, requests
<1>3. /\ t \in Task /\ t # None /\ t.kind \in Kinds /\ TaskTypes /\ RunOK(w) /\ TaskOK(j)
      /\ "read" \in ToSet(TaskOrder[t.kind])
  BY <1>1, <1>2, RunIs
<1>. HIDE DEF n
<1>4. n \in ToSet(TaskOrder[t.kind]) /\ n \in TaskSteps /\ n \in {"pack", "get"}
  BY <1>3, NextStepIs DEF n
<1>5. TaskTypes' /\ at'[w] = n /\ OthersRun(w)
  BY <1>2, <1>3, <1>4 DEF TaskTypes, broker, OthersRun
<1>6. TaskOK(j)'
  <2>1. /\ Count(j, RowSteps)' = Count(j, RowSteps) /\ Count(j, EventSteps)' = Count(j, EventSteps)
        /\ Count(j, FreshSteps)' = Count(j, FreshSteps)
    BY <1>1, <1>2, <1>4, <1>5, StepCounts, StepSets
  <2>2. Stored(j)' = Stored(j)
    BY <1>2 DEF Stored, broker
  <2>. QED
    BY <1>2, <1>3, <1>5, <2>1, <2>2, RunningTaskKeeps DEF TaskOK
<1>7. RunOK(w)'
  BY <1>1, <1>2, <1>3, <1>4, <1>5 DEF RunOK, Found, broker
<1>8. \A d \in Docs, s \in Shares : MarkOK(d, s)'
  BY <1>2, MarksKeep DEF broker
<1>. QED
  BY <1>1, <1>2, <1>5, <1>6, <1>7, <1>8, RunKeeps DEF CountsStay, OthersRun, broker

LEMMA GetKeeps ==
  ASSUME UploadInv, TaskInv, NEW w \in Workers, Get(w)
  PROVE  TaskInv'
<1>1. PICK j \in Jobs : job[w] = j
  BY RunIs DEF Get, Runs
<1>2. PICK d \in Docs : tasks[j].doc = d
  BY <1>1, RunIs DEF Get, Runs
<1>. DEFINE t == tasks[j]
            n == After(TaskOrder[t.kind], "get")
<1>3. /\ at[w] = "get" /\ at' = [at EXCEPT ![w] = n] /\ Readable(d)
      /\ plain' = [plain EXCEPT ![w] = blobs[d].content]
      /\ UNCHANGED <<marks, packs, packRows, records, events, blobs, versions, uploaded,
                     broker, job, tries>>
  BY <1>1, <1>2 DEF Get, Runs, bucket, tables, requests
<1>4. /\ t \in Task /\ t # None /\ t.kind \in Kinds /\ TaskTypes /\ RunOK(w) /\ TaskOK(j)
      /\ "get" \in ToSet(TaskOrder[t.kind])
  BY <1>1, <1>3, RunIs
<1>. HIDE DEF n
<1>5. n \in ToSet(TaskOrder[t.kind]) /\ n \in TaskSteps /\ n \in {"record", "mark"}
  BY <1>4, NextStepIs DEF n
<1>6. blobs[d].content = uploaded[d] /\ uploaded[d] \in Contents /\ versions[d] # None
  BY <1>3 DEF Readable, UploadInv, UploadTypes, StoredOK, Encrypted
<1>7. TaskTypes' /\ at'[w] = n /\ plain'[w] = uploaded[d] /\ OthersRun(w)
  BY <1>3, <1>4, <1>5, <1>6 DEF TaskTypes, broker, OthersRun
<1>8. TaskOK(j)'
  <2>1. /\ Count(j, RowSteps)' = Count(j, RowSteps) /\ Count(j, EventSteps)' = Count(j, EventSteps)
        /\ Count(j, FreshSteps)' = Count(j, FreshSteps)
    BY <1>1, <1>3, <1>5, <1>7, StepCounts, StepSets
  <2>2. Stored(j)' = Stored(j)
    BY <1>3 DEF Stored, broker
  <2>. QED
    BY <1>3, <1>4, <1>7, <2>1, <2>2, RunningTaskKeeps DEF TaskOK
<1>9. RunOK(w)'
  BY <1>1, <1>2, <1>3, <1>4, <1>5, <1>6, <1>7 DEF RunOK, broker
<1>10. \A e \in Docs, s \in Shares : MarkOK(e, s)'
  BY <1>3, MarksKeep DEF broker
<1>. QED
  BY <1>1, <1>3, <1>7, <1>8, <1>9, <1>10, RunKeeps DEF CountsStay, OthersRun, broker

LEMMA PutMarkKeeps ==
  ASSUME UploadInv, TaskInv, NEW w \in Workers, PutMark(w)
  PROVE  TaskInv'
<1>1. PICK j \in Jobs : job[w] = j
  BY RunIs DEF PutMark, Runs
<1>2. PICK d \in Docs : tasks[j].doc = d
  BY <1>1, RunIs DEF PutMark, Runs
<1>. DEFINE t == tasks[j]
            n == After(TaskOrder[t.kind], "mark")
<1>3. /\ at[w] = "mark" /\ at' = [at EXCEPT ![w] = n]
      /\ UNCHANGED <<packs, packRows, records, events, blobs, versions, uploaded,
                     broker, job, tries, plain>>
  BY <1>1 DEF PutMark, Runs, tables, requests
<1>4. /\ t \in Task /\ t.kind \in Kinds /\ TaskTypes /\ RunOK(w) /\ TaskOK(j) /\ t # None
      /\ "mark" \in ToSet(TaskOrder[t.kind])
  BY <1>1, <1>3, RunIs
<1>. HIDE DEF n
<1>5. n = "ack" /\ n \in ToSet(TaskOrder[t.kind]) /\ n \in TaskSteps /\ t.kind = "watermark"
  BY <1>4, NextStepIs DEF n
<1>6. PICK s \in Shares : t.share = s
  BY <1>4, <1>5 DEF TaskOK, Task
<1>7. PICK text \in Texts : t.text = text
  BY <1>4, <1>5 DEF TaskOK, Task
<1>8. AsksFor(j, d, s, text)
  BY <1>2, <1>4, <1>5, <1>6, <1>7 DEF AsksFor, Task
<1>9. plain[w] = uploaded[d] /\ versions[d] # None
  BY <1>1, <1>2, <1>3, <1>4, <1>5 DEF RunOK
<1>10. versions[d].key.dek = d /\ blobs[d] # None /\ uploaded[d] \in Contents
  BY <1>9 DEF UploadInv, UploadTypes, StoredOK
<1>11. PICK faces \in Stamped(text) :
         marks' = [marks EXCEPT ![<<d, s>>] = [content |-> uploaded[d], faces |-> faces, dek |-> d]]
  BY <1>1, <1>2, <1>6, <1>7, <1>9, <1>10 DEF PutMark, MarkKey
<1>12. faces \subseteq {text, None}
  BY DEF Stamped
<1>13. [content |-> uploaded[d], faces |-> faces, dek |-> d] \in Mark
  BY <1>10, <1>12 DEF Mark
<1>14. TaskTypes' /\ at'[w] = "ack" /\ OthersRun(w)
  BY <1>3, <1>4, <1>5, <1>11, <1>13 DEF TaskTypes, broker, OthersRun
<1>15. ASSUME NEW e \in Docs, NEW z \in Shares PROVE MarkOK(e, z)'
  <2>1. CASE e = d /\ z = s
    <3>1. marks'[<<e, z>>] = [content |-> uploaded[d], faces |-> faces, dek |-> d]
      BY <1>4, <1>11, <2>1 DEF TaskTypes
    <3>2. AsksFor(j, d, s, text)'
      BY <1>3, <1>8 DEF AsksFor, broker
    <3>. QED
      BY <1>3, <1>10, <1>12, <2>1, <3>1, <3>2 DEF MarkOK
  <2>2. CASE <<e, z>> # <<d, s>>
    <3>1. marks'[<<e, z>>] = marks[<<e, z>>]
      BY <1>4, <1>11, <2>2 DEF TaskTypes
    <3>. QED
      BY <1>3, <3>1 DEF TaskInv, MarkOK, AsksFor, broker
  <2>. QED
    BY <2>1, <2>2
<1>16. TaskOK(j)'
  <2>1. /\ Count(j, RowSteps)' = Count(j, RowSteps) /\ Count(j, EventSteps)' = Count(j, EventSteps)
        /\ Count(j, FreshSteps)' = Count(j, FreshSteps) - 1 /\ Count(j, FreshSteps) \in Nat
    BY <1>1, <1>3, <1>14, StepCounts, StepSets, CountIsNat
  <2>2. Stored(j)' = Stored(j) /\ Stored(j) \in Nat /\ runs[j] \in Nat
    BY <1>1, <1>3, RunIs DEF Stored, broker
  <2>3. Stored(j)' + Count(j, FreshSteps)' <= runs[j]
    BY <1>4, <2>1, <2>2 DEF TaskOK
  <2>. QED
    BY <1>3, <1>4, <1>14, <2>1, <2>2, <2>3, RunningTaskKeeps DEF TaskOK
<1>17. RunOK(w)'
  BY <1>1, <1>3, <1>4, <1>5, <1>9, <1>14 DEF RunOK, broker
<1>. QED
  BY <1>1, <1>3, <1>14, <1>15, <1>16, <1>17, RunKeeps DEF CountsStay, OthersRun, broker

\* The steps that count: a result, a package, its row, an event.
LEMMA CountingKeeps ==
  ASSUME TaskInv, NEW w \in Workers,
         Record(w) \/ PutPackage(w) \/ CreatePackageRow(w) \/ WriteEvent(w)
  PROVE  TaskInv'
<1>1. PICK j \in Jobs : job[w] = j
  BY RunIs DEF Record, PutPackage, CreatePackageRow, WriteEvent, Runs
<1>. DEFINE t == tasks[j]
            n == After(TaskOrder[t.kind], at[w])
<1>2. /\ at[w] \in {"record", "pack", "row", "event"} /\ at' = [at EXCEPT ![w] = n]
      /\ UNCHANGED <<marks, blobs, versions, uploaded, broker, job, tries, plain>>
  BY <1>1 DEF Record, PutPackage, CreatePackageRow, WriteEvent, Runs, bucket, tables, requests
<1>3. /\ t \in Task /\ t.kind \in Kinds /\ TaskTypes /\ RunOK(w) /\ TaskOK(j) /\ t # None
      /\ at[w] \in ToSet(TaskOrder[t.kind]) /\ Stored(j) \in Nat /\ runs[j] \in Nat
  BY <1>1, <1>2, RunIs
<1>4. packs[j] \in Nat /\ packRows[j] \in Nat /\ records[j] \in Nat /\ events[j] \in Nat
  BY <1>3 DEF TaskTypes
<1>. HIDE DEF n
<1>5. n \in ToSet(TaskOrder[t.kind]) /\ n \in TaskSteps
  BY <1>2, <1>3, NextStepIs DEF n
<1>6. \A d \in Docs, s \in Shares : MarkOK(d, s)'
  BY <1>2, MarksKeep DEF broker
<1>7. at'[w] = n /\ job'[w] = j /\ tasks'[j] = t /\ OthersRun(w)
  BY <1>1, <1>2, <1>3 DEF TaskTypes, OthersRun, broker
<1>8. /\ Count(j, RowSteps) \in Nat /\ Count(j, RowSteps)' \in Nat
      /\ Count(j, EventSteps) \in Nat /\ Count(j, EventSteps)' \in Nat
      /\ Count(j, FreshSteps) \in Nat /\ Count(j, FreshSteps)' \in Nat
  BY <1>7, CountMoves
<1>9. /\ packRows[j] + Count(j, RowSteps) <= packs[j]
      /\ events[j] + Count(j, EventSteps) <= Stored(j)
      /\ Stored(j) + Count(j, FreshSteps) <= runs[j]
  BY <1>3 DEF TaskOK
<1>10. CASE Record(w)
  <2>1. /\ at[w] = "record" /\ records' = [records EXCEPT ![j] = @ + 1]
        /\ UNCHANGED <<packs, packRows, events>>
    BY <1>1, <1>10 DEF Record, Runs, bucket
  <2>2. n = "event" /\ t.kind = "verify"
    BY <1>3, <2>1, NextStepIs DEF n
  <2>3. TaskTypes' /\ records'[j] = records[j] + 1 /\ \A i \in Jobs \ {j} : CountsStay(i)
    BY <1>2, <1>3, <1>4, <1>5, <2>1 DEF TaskTypes, CountsStay, broker
  <2>4. Stored(j)' = Stored(j) + 1
    BY <1>7, <2>2, <2>3 DEF Stored
  <2>5. /\ Count(j, RowSteps)' = Count(j, RowSteps) /\ Count(j, EventSteps)' = Count(j, EventSteps) + 1
        /\ Count(j, FreshSteps)' = Count(j, FreshSteps) - 1
    BY <1>1, <1>7, <2>1, <2>2, StepCounts, StepSets
  <2>6. TaskOK(j)'
    BY <1>2, <1>3, <1>4, <1>8, <1>9, <2>1, <2>3, <2>4, <2>5, RunningTaskKeeps
  <2>7. RunOK(w)'
    BY <1>1, <1>2, <1>3, <1>5, <1>7, <2>1, <2>2 DEF RunOK, broker
  <2>. QED
    BY <1>1, <1>2, <1>6, <1>7, <2>1, <2>3, <2>6, <2>7, RunKeeps DEF OthersRun
<1>11. CASE PutPackage(w)
  <2>1. /\ at[w] = "pack" /\ packs' = [packs EXCEPT ![j] = @ + 1]
        /\ UNCHANGED <<packRows, records, events>>
    BY <1>1, <1>11 DEF PutPackage, Runs, tables
  <2>2. n = "row" /\ t.kind = "package"
    BY <1>3, <2>1, NextStepIs DEF n
  <2>3. TaskTypes' /\ packs'[j] = packs[j] + 1 /\ \A i \in Jobs \ {j} : CountsStay(i)
    BY <1>2, <1>3, <1>4, <1>5, <2>1 DEF TaskTypes, CountsStay, broker
  <2>4. Stored(j)' = Stored(j)
    BY <1>7, <2>1 DEF Stored
  <2>5. /\ Count(j, RowSteps)' = Count(j, RowSteps) + 1 /\ Count(j, EventSteps)' = Count(j, EventSteps)
        /\ Count(j, FreshSteps)' = Count(j, FreshSteps)
    BY <1>1, <1>7, <2>1, <2>2, StepCounts, StepSets
  <2>6. TaskOK(j)'
    BY <1>2, <1>3, <1>4, <1>8, <1>9, <2>1, <2>3, <2>4, <2>5, RunningTaskKeeps
  <2>7. RunOK(w)'
    BY <1>1, <1>2, <1>3, <1>5, <1>7, <2>1, <2>2 DEF RunOK, broker
  <2>. QED
    BY <1>1, <1>2, <1>6, <1>7, <2>1, <2>3, <2>6, <2>7, RunKeeps DEF OthersRun
<1>12. CASE CreatePackageRow(w)
  <2>1. /\ at[w] = "row" /\ packRows' = [packRows EXCEPT ![j] = @ + 1]
        /\ UNCHANGED <<packs, records, events>>
    BY <1>1, <1>12 DEF CreatePackageRow, Runs, bucket
  <2>2. n = "event" /\ t.kind = "package"
    BY <1>3, <2>1, NextStepIs DEF n
  <2>3. TaskTypes' /\ packRows'[j] = packRows[j] + 1 /\ \A i \in Jobs \ {j} : CountsStay(i)
    BY <1>2, <1>3, <1>4, <1>5, <2>1 DEF TaskTypes, CountsStay, broker
  <2>4. Stored(j)' = Stored(j) + 1
    BY <1>7, <2>2, <2>3 DEF Stored
  <2>5. /\ Count(j, RowSteps)' = Count(j, RowSteps) - 1 /\ Count(j, EventSteps)' = Count(j, EventSteps) + 1
        /\ Count(j, FreshSteps)' = Count(j, FreshSteps) - 1
    BY <1>1, <1>7, <2>1, <2>2, StepCounts, StepSets
  <2>6. TaskOK(j)'
    BY <1>2, <1>3, <1>4, <1>8, <1>9, <2>1, <2>3, <2>4, <2>5, RunningTaskKeeps
  <2>7. RunOK(w)'
    BY <1>1, <1>2, <1>3, <1>5, <1>7, <2>1, <2>2 DEF RunOK, broker
  <2>. QED
    BY <1>1, <1>2, <1>6, <1>7, <2>1, <2>3, <2>6, <2>7, RunKeeps DEF OthersRun
<1>13. CASE WriteEvent(w)
  <2>1. /\ at[w] = "event" /\ events' = [events EXCEPT ![j] = @ + 1]
        /\ UNCHANGED <<packs, packRows, records>>
    BY <1>1, <1>13 DEF WriteEvent, Runs, bucket
  <2>2. n = "ack" /\ t.kind # "watermark"
    BY <1>3, <2>1, NextStepIs DEF n
  <2>3. TaskTypes' /\ events'[j] = events[j] + 1 /\ \A i \in Jobs \ {j} : CountsStay(i)
    BY <1>2, <1>3, <1>4, <1>5, <2>1 DEF TaskTypes, CountsStay, broker
  <2>4. Stored(j)' = Stored(j)
    BY <1>7, <2>1 DEF Stored
  <2>5. /\ Count(j, RowSteps)' = Count(j, RowSteps) /\ Count(j, EventSteps)' = Count(j, EventSteps) - 1
        /\ Count(j, FreshSteps)' = Count(j, FreshSteps)
    BY <1>1, <1>7, <2>1, <2>2, StepCounts, StepSets
  <2>6. TaskOK(j)'
    BY <1>2, <1>3, <1>4, <1>8, <1>9, <2>1, <2>3, <2>4, <2>5, RunningTaskKeeps
  <2>7. RunOK(w)'
    BY <1>1, <1>2, <1>3, <1>4, <1>5, <1>7, <2>2, <2>3 DEF RunOK, broker
  <2>. QED
    BY <1>1, <1>2, <1>6, <1>7, <2>1, <2>3, <2>6, <2>7, RunKeeps DEF OthersRun
<1>. QED
  BY <1>10, <1>11, <1>12, <1>13

\* A run of task j ends, or is done but for the acknowledgement of its message.
LEMMA RunEndKeeps ==
  ASSUME TaskInv, TaskTypes', NEW w \in Workers, at[w] # "idle", NEW j \in Jobs, job[w] = j,
         UNCHANGED <<marks, blobs, versions, uploaded, packs, packRows, records, events,
                     tasks, runs>>,
         OthersRun(w), at'[w] \in {"idle", "retried"}, at'[w] = "retried" => job'[w] = j,
         \A i \in Jobs \ {j}, n \in Retries : queue'[<<i, n>>] = queue[<<i, n>>],
         done' = done \/ (done' = done \cup {j} /\ at[w] = "ack")
  PROVE  TaskInv'
<1>1. /\ tasks[j] \in Task /\ tasks[j] # None /\ RunOK(w) /\ TaskOK(j) /\ TaskTypes
      /\ Stored(j) \in Nat /\ runs[j] \in Nat
  BY RunIs
<1>2. ASSUME NEW S, "idle" \notin S, "retried" \notin S
      PROVE  Count(j, S) \in Nat /\ Count(j, S)' \in Nat /\ Count(j, S)' <= Count(j, S)
  <2>1. w \notin In(j, S)'
    BY <1>2 DEF In
  <2>. QED
    BY <2>1, CountMoves
<1>3. /\ Count(j, RowSteps) \in Nat /\ Count(j, RowSteps)' \in Nat
      /\ Count(j, RowSteps)' <= Count(j, RowSteps)
      /\ Count(j, EventSteps) \in Nat /\ Count(j, EventSteps)' \in Nat
      /\ Count(j, EventSteps)' <= Count(j, EventSteps)
      /\ Count(j, FreshSteps) \in Nat /\ Count(j, FreshSteps)' \in Nat
      /\ Count(j, FreshSteps)' <= Count(j, FreshSteps)
  BY <1>2, StepSets
<1>4. packs[j] \in Nat /\ packRows[j] \in Nat /\ events[j] \in Nat /\ Stored(j)' = Stored(j)
  BY <1>1 DEF TaskTypes, Stored
<1>5. j \in done' /\ tasks[j].kind # "watermark" => events[j] >= 1
  BY <1>1 DEF TaskOK, RunOK
<1>6. TaskOK(j)'
  <2>1. packRows'[j] + Count(j, RowSteps)' <= packs'[j]
    BY <1>1, <1>3, <1>4 DEF TaskOK
  <2>2. events'[j] + Count(j, EventSteps)' <= Stored(j)'
    BY <1>1, <1>3, <1>4 DEF TaskOK
  <2>3. Stored(j)' + Count(j, FreshSteps)' <= runs'[j]
    BY <1>1, <1>3, <1>4 DEF TaskOK
  <2>. QED
    BY <1>1, <1>5, <2>1, <2>2, <2>3 DEF TaskOK
<1>7. ASSUME NEW i \in Jobs, i # j PROVE TaskOK(i)'
  BY <1>7, OtherTaskKeeps DEF CountsStay
<1>8. \A v \in Workers \ {w} : RunOK(v)'
  BY OtherRunsKeep
<1>9. RunOK(w)'
  BY <1>1 DEF RunOK
<1>10. \A d \in Docs, s \in Shares : MarkOK(d, s)'
  BY MarksKeep
<1>. QED
  BY <1>6, <1>7, <1>8, <1>9, <1>10 DEF TaskInv

LEMMA RunsEnd ==
  ASSUME TaskInv, NEW w \in Workers, Ack(w) \/ Retry(w) \/ GiveUp(w) \/ Kill(w)
  PROVE  TaskInv'
<1>1. at[w] # "idle"
  BY DEF Ack, Retry, GiveUp, Raises, Kill
<1>2. PICK j \in Jobs : job[w] = j
  BY <1>1, RunIs
<1>3. TaskTypes /\ tries[w] \in Retries
  BY DEF TaskInv, TaskTypes
<1>4. ASSUME NEW n \in Retries
      PROVE  /\ With(j, n) \in [Jobs \X Retries -> Nat]
             /\ \A i \in Jobs \ {j}, m \in Retries : With(j, n)[<<i, m>>] = queue[<<i, m>>]
  <2>1. queue \in [Jobs \X Retries -> Nat] /\ queue[<<j, n>>] \in Nat
    BY <1>3 DEF TaskTypes
  <2>. QED
    BY <2>1 DEF With
<1>5. ASSUME Leaves(w), queue' = queue \/ queue' = With(j, tries[w]),
             done' = done \/ (done' = done \cup {j} /\ at[w] = "ack")
      PROVE  TaskInv'
  <2>1. /\ at' = [at EXCEPT ![w] = "idle"] /\ job' = [job EXCEPT ![w] = None]
        /\ tries' = [tries EXCEPT ![w] = 0] /\ plain' = [plain EXCEPT ![w] = None]
        /\ UNCHANGED <<marks, blobs, versions, uploaded, packs, packRows, records, events,
                       tasks, runs>>
    BY <1>5 DEF Leaves, bucket, tables, requests
  <2>2. OthersRun(w) /\ at'[w] = "idle"
    BY <1>3, <2>1 DEF TaskTypes, OthersRun
  <2>3. /\ queue' \in [Jobs \X Retries -> Nat]
        /\ \A i \in Jobs \ {j}, n \in Retries : queue'[<<i, n>>] = queue[<<i, n>>]
    BY <1>3, <1>4, <1>5 DEF TaskTypes
  <2>4. 0 \in Retries /\ done' \subseteq Jobs
    BY <1>3, <1>5, RetriesAssumption DEF Retries, TaskTypes
  <2>5. TaskTypes'
    BY <1>3, <2>1, <2>3, <2>4 DEF TaskTypes
  <2>. QED
    BY <1>1, <1>2, <1>5, <2>1, <2>2, <2>3, <2>5, RunEndKeeps
<1>6. CASE Ack(w)
  <2>1. done' = done \/ (done' = done \cup {j} /\ at[w] = "ack")
    BY <1>2, <1>6 DEF Ack
  <2>. QED
    BY <1>5, <1>6, <2>1 DEF Ack
<1>7. CASE GiveUp(w)
  BY <1>5, <1>7 DEF GiveUp
<1>8. CASE Kill(w)
  BY <1>2, <1>5, <1>8 DEF Kill
<1>9. CASE Retry(w)
  <2>1. /\ at' = [at EXCEPT ![w] = "retried"] /\ plain' = [plain EXCEPT ![w] = None]
        /\ queue' = With(j, tries[w] + 1)
        /\ UNCHANGED <<marks, blobs, versions, uploaded, packs, packRows, records, events,
                       tasks, runs, done, job, tries>>
    BY <1>2, <1>9 DEF Retry, bucket, tables, requests
  <2>2. OthersRun(w) /\ at'[w] = "retried"
    BY <1>3, <2>1 DEF TaskTypes, OthersRun
  <2>3. tries[w] + 1 \in Retries
    BY <1>3, <1>9, RetriesAssumption DEF Retry, Retries
  <2>4. /\ queue' \in [Jobs \X Retries -> Nat]
        /\ \A i \in Jobs \ {j}, n \in Retries : queue'[<<i, n>>] = queue[<<i, n>>]
    BY <1>4, <2>1, <2>3
  <2>5. TaskTypes'
    BY <1>3, <2>1, <2>4 DEF TaskTypes
  <2>. QED
    BY <1>1, <1>2, <2>1, <2>2, <2>4, <2>5, RunEndKeeps
<1>. QED
  BY <1>6, <1>7, <1>8, <1>9

LEMMA EnqueueKeeps ==
  ASSUME TaskInv, NEW j \in Jobs, NEW kind \in Kinds, NEW d \in Docs,
         NEW s \in Shares \cup {None}, NEW text \in Texts \cup {None},
         Enqueue(j, kind, d, s, text)
  PROVE  TaskInv'
<1>. DEFINE t == [kind |-> kind, doc |-> d, share |-> s, text |-> text]
<1>1. /\ tasks[j] = None /\ (kind = "watermark" <=> s # None) /\ (kind = "watermark" <=> text # None)
      /\ tasks' = [tasks EXCEPT ![j] = t] /\ queue' = With(j, 0)
      /\ UNCHANGED <<marks, blobs, versions, uploaded, packs, packRows, records, events,
                     at, job, tries, plain, runs, done>>
  BY DEF Enqueue, bucket, tables, requests, workers
<1>2. t \in Task /\ t # None /\ (t.kind = "watermark" => t.share # None /\ t.text # None)
  BY <1>1, NoneAssumption DEF Task
<1>. HIDE DEF t
<1>3. 0 \in Retries /\ TaskTypes
  BY RetriesAssumption DEF Retries, TaskInv
<1>4. /\ queue' \in [Jobs \X Retries -> Nat]
      /\ \A i \in Jobs \ {j}, n \in Retries : queue'[<<i, n>>] = queue[<<i, n>>]
  <2>1. queue \in [Jobs \X Retries -> Nat] /\ <<j, 0>> \in Jobs \X Retries
    BY <1>3 DEF TaskTypes
  <2>2. queue' = [queue EXCEPT ![<<j, 0>>] = queue[<<j, 0>>] + 1] /\ queue[<<j, 0>>] + 1 \in Nat
    BY <1>1, <2>1 DEF With
  <2>. QED
    BY <2>1, <2>2
<1>5. TaskTypes' /\ tasks'[j] = t /\ \A i \in Jobs \ {j} : tasks'[i] = tasks[i]
  BY <1>1, <1>2, <1>3, <1>4 DEF TaskTypes
<1>6. ASSUME NEW w \in Workers, at[w] # "idle" PROVE job[w] \in Jobs \ {j}
  BY <1>1, <1>6, RunIs
<1>7. ASSUME NEW i, NEW S PROVE Count(i, S)' = Count(i, S)
  BY <1>1 DEF Count, In
<1>8. ASSUME NEW S, "idle" \notin S PROVE Count(j, S) = 0
  <2>1. In(j, S) = {}
    BY <1>6, <1>8 DEF In
  <2>. QED
    BY <2>1, FS_EmptySet DEF Count
<1>9. TaskOK(j)'
  <2>1. /\ Count(j, RowSteps)' = 0 /\ Count(j, EventSteps)' = 0 /\ Count(j, FreshSteps)' = 0
    BY <1>7, <1>8, StepSets
  <2>2. TaskOK(j) /\ packs[j] \in Nat /\ runs[j] \in Nat
    BY <1>3 DEF TaskInv, TaskTypes
  <2>3. Stored(j)' = 0
    BY <1>1, <2>2 DEF Stored, TaskOK
  <2>. QED
    BY <1>1, <1>2, <1>5, <2>1, <2>2, <2>3 DEF TaskOK
<1>10. ASSUME NEW i \in Jobs, i # j PROVE TaskOK(i)'
  <2>1. TaskOK(i) /\ tasks'[i] = tasks[i] /\ Stored(i)' = Stored(i)
    BY <1>1, <1>5, <1>10 DEF TaskInv, Stored
  <2>. QED
    BY <1>1, <1>4, <1>7, <1>10, <2>1 DEF TaskOK
<1>11. ASSUME NEW w \in Workers, at[w] # "idle" PROVE RunOK(w)'
  <2>1. RunOK(w) /\ job[w] \in Jobs \ {j}
    BY <1>6, <1>11 DEF TaskInv
  <2>. QED
    BY <1>1, <1>5, <1>11, <2>1 DEF RunOK
<1>12. \A w \in Workers : RunOK(w)'
  BY <1>1, <1>11 DEF RunOK
<1>13. \A e \in Docs, z \in Shares : MarkOK(e, z)'
  BY <1>1, <1>5, MarksKeep
<1>. QED
  BY <1>5, <1>9, <1>10, <1>12, <1>13 DEF TaskInv

LEMMA DeliverKeeps ==
  ASSUME TaskInv, NEW w \in Workers, NEW j \in Jobs, NEW n \in Retries, Deliver(w, j, n)
  PROVE  TaskInv'
<1>1. /\ at[w] = "idle" /\ queue[<<j, n>>] > 0 /\ queue' = Without(j, n)
      /\ runs' = [runs EXCEPT ![j] = @ + 1]
      /\ at' = [at EXCEPT ![w] = "read"] /\ job' = [job EXCEPT ![w] = j]
      /\ tries' = [tries EXCEPT ![w] = n]
      /\ UNCHANGED <<marks, blobs, versions, uploaded, packs, packRows, records, events,
                     tasks, done, plain>>
  BY DEF Deliver, Waits, bucket, tables, requests
<1>2. TaskTypes /\ TaskOK(j) /\ queue[<<j, n>>] \in Nat /\ runs[j] \in Nat
  BY DEF TaskInv, TaskTypes
<1>3. tasks[j] # None /\ tasks[j] \in Task
  BY <1>1, <1>2 DEF TaskOK, TaskTypes
<1>4. "read" \in TaskSteps /\ \A k \in Kinds : "read" \in ToSet(TaskOrder[k])
  BY TaskStepsAre, VerifyOrderIs, WatermarkOrderIs, PackageOrderIs DEF Kinds
<1>5. /\ queue' \in [Jobs \X Retries -> Nat]
      /\ \A i \in Jobs \ {j}, m \in Retries : queue'[<<i, m>>] = queue[<<i, m>>]
  <2>1. queue \in [Jobs \X Retries -> Nat] /\ queue[<<j, n>>] - 1 \in Nat
    BY <1>1, <1>2 DEF TaskTypes
  <2>. QED
    BY <1>1, <2>1 DEF Without
<1>6. /\ TaskTypes' /\ at'[w] = "read" /\ job'[w] = j /\ OthersRun(w)
      /\ runs'[j] = runs[j] + 1 /\ \A i \in Jobs \ {j} : runs'[i] = runs[i]
  BY <1>1, <1>2, <1>4, <1>5 DEF TaskTypes, OthersRun
<1>8. /\ w \notin In(j, RowSteps) /\ w \notin In(j, RowSteps)'
      /\ w \notin In(j, EventSteps) /\ w \notin In(j, EventSteps)'
      /\ w \notin In(j, FreshSteps) /\ w \in In(j, FreshSteps)'
  BY <1>1, <1>6, StepSets DEF In
<1>9. /\ Count(j, RowSteps)' = Count(j, RowSteps) /\ Count(j, EventSteps)' = Count(j, EventSteps)
      /\ Count(j, FreshSteps)' = Count(j, FreshSteps) + 1 /\ Count(j, FreshSteps) \in Nat
  BY <1>6, <1>8, CountMoves
<1>10. TaskOK(j)'
  <2>1. Stored(j)' = Stored(j) /\ Stored(j) \in Nat
    BY <1>1, <1>2 DEF Stored, TaskTypes
  <2>2. Stored(j)' + Count(j, FreshSteps)' <= runs'[j]
    BY <1>2, <1>3, <1>6, <1>9, <2>1 DEF TaskOK
  <2>. QED
    BY <1>1, <1>2, <1>3, <1>9, <2>1, <2>2 DEF TaskOK
<1>11. ASSUME NEW i \in Jobs, i # j PROVE TaskOK(i)'
  BY <1>1, <1>5, <1>6, <1>11, OtherTaskKeeps DEF CountsStay
<1>12. RunOK(w)'
  <2>1. tasks[j].kind \in Kinds
    BY <1>3 DEF Task
  <2>. QED
    BY <1>1, <1>3, <1>4, <1>6, <2>1 DEF RunOK
<1>13. \A v \in Workers \ {w} : RunOK(v)'
  BY <1>1, <1>6, OtherRunsKeep
<1>14. \A d \in Docs, s \in Shares : MarkOK(d, s)'
  BY <1>1, MarksKeep
<1>. QED
  BY <1>6, <1>10, <1>11, <1>12, <1>13, <1>14 DEF TaskInv

-----------------------------------------------------------------------------
(* The theorems *)

StoreInv == UploadInv /\ TaskInv

LEMMA StoreInvInit == Init => StoreInv
<1>. SUFFICES ASSUME Init PROVE StoreInv
  OBVIOUS
<1>1. UploadTypes /\ TaskTypes
  BY RetriesAssumption DEF Init, UploadTypes, TaskTypes, Retries
<1>2. (\A r \in Reqs : UploadOK(r)) /\ \A d \in Docs : StoredOK(d) /\ Explained(d)
  BY DEF Init, UploadOK, StoredOK, Explained
<1>3. \A d \in Docs, s \in Shares : MarkOK(d, s)
  BY DEF Init, MarkOK
<1>4. ASSUME NEW j \in Jobs PROVE TaskOK(j)
  <2>1. In(j, RowSteps) = {}
    BY DEF Init, In, RowSteps
  <2>2. Count(j, RowSteps) = 0
    BY <2>1, FS_EmptySet DEF Count
  <2>. QED
    BY <2>2 DEF Init, TaskOK
<1>5. \A w \in Workers : RunOK(w)
  BY DEF Init, RunOK
<1>. QED
  BY <1>1, <1>2, <1>3, <1>4, <1>5 DEF StoreInv, UploadInv, TaskInv

LEMMA StoreInvStep == StoreInv /\ [Next]_vars => StoreInv'
<1>. SUFFICES ASSUME UploadInv, TaskInv, [Next]_vars PROVE UploadInv' /\ TaskInv'
  BY DEF StoreInv
<1>1. ASSUME NEW r \in Reqs, NEW d \in Docs, NEW content \in Contents, StartUpload(r, d, content)
      PROVE  UploadInv' /\ TaskInv'
  <2>1. UNCHANGED <<marks, packs, packRows, records, events, celery>>
    BY <1>1 DEF StartUpload, bucket, tables
  <2>. QED
    BY <1>1, <2>1, StartUploadKeeps, TasksApart
<1>2. ASSUME NEW r \in Reqs, UploadStep(r) PROVE UploadInv' /\ TaskInv'
  <2>1. UNCHANGED <<marks, packs, packRows, records, events, celery>>
    BY <1>2 DEF UploadStep, PutFile, CreateStorageObject, CreateDocument, CreateVersion, Publish,
                Performs, bucket, tables
  <2>. QED
    BY <1>2, <2>1, UploadStepKeeps, TasksApart
<1>3. ASSUME (\E r \in Reqs : Fail(r)) \/ \E k \in Keks : Redeploy(k)
      PROVE  UploadInv' /\ TaskInv'
  <2>1. UNCHANGED <<marks, packs, packRows, records, events, celery>>
    BY <1>3 DEF Fail, Redeploy, bucket, tables
  <2>. QED
    BY <1>3, <2>1, UploadsDie, TasksApart
<1>4. ASSUME NEW j \in Jobs, NEW kind \in Kinds, NEW d \in Docs, NEW s \in Shares \cup {None},
             NEW text \in Texts \cup {None}, Enqueue(j, kind, d, s, text)
      PROVE  UploadInv' /\ TaskInv'
  <2>1. UNCHANGED <<blobs, rows, docs, versions, requests, kek>>
    BY <1>4 DEF Enqueue, bucket, tables
  <2>. QED
    BY <1>4, <2>1, UploadsApart, EnqueueKeeps
<1>5. ASSUME NEW w \in Workers, NEW j \in Jobs, NEW n \in Retries, Deliver(w, j, n)
      PROVE  UploadInv' /\ TaskInv'
  <2>1. UNCHANGED <<blobs, rows, docs, versions, requests, kek>>
    BY <1>5 DEF Deliver, bucket, tables
  <2>. QED
    BY <1>5, <2>1, UploadsApart, DeliverKeeps
<1>6. ASSUME NEW w \in Workers, TaskStep(w) PROVE UploadInv' /\ TaskInv'
  <2>1. UNCHANGED <<blobs, rows, docs, versions, requests, kek>>
    BY <1>6 DEF TaskStep, Read, Get, Record, PutMark, PutPackage, CreatePackageRow, WriteEvent,
                Ack, Retry, GiveUp, Kill, Runs, Leaves, bucket, tables
  <2>. QED
    BY <1>6, <2>1, UploadsApart, ReadKeeps, GetKeeps, PutMarkKeeps, CountingKeeps, RunsEnd
       DEF TaskStep
<1>7. CASE UNCHANGED vars
  BY <1>7, UploadsApart, TasksApart DEF vars, bucket, tables, celery
<1>. QED
  BY <1>1, <1>2, <1>3, <1>4, <1>5, <1>6, <1>7 DEF Next

THEOREM StoreInvariance == Spec => []StoreInv
<1>. QED
  BY StoreInvInit, StoreInvStep, PTL DEF Spec

(* Every variable always keeps its type, whatever dies and is run again. *)
THEOREM StoreTypeCorrect == Spec => []TypeOK
<1>1. StoreInv => TypeOK
  BY UploadOrderIs DEF StoreInv, UploadInv, TaskInv, UploadTypes, TaskTypes, TypeOK
<1>. QED
  BY <1>1, StoreInvariance, PTL

(* Every row of storage_objects names an object that is in the bucket, wherever
   uploads, tasks and workers died. *)
THEOREM NoGhostsEver == Spec => []NoGhosts
<1>1. ASSUME StoreInv, NEW j \in Jobs PROVE packRows[j] <= packs[j]
  <2>1. packRows[j] \in Nat /\ packs[j] \in Nat /\ Count(j, RowSteps) \in Nat /\ TaskOK(j)
    BY <1>1, CountIsNat DEF StoreInv, TaskInv, TaskTypes
  <2>. QED
    BY <2>1 DEF TaskOK
<1>2. StoreInv => NoGhosts
  BY <1>1 DEF StoreInv, UploadInv, UploadTypes, StoredOK, NoGhosts
<1>. QED
  BY <1>2, StoreInvariance, PTL

(* A current document has its file, row and version, with the content that was
   uploaded, and can be read as long as its key is configured. *)
THEOREM PublishedStaysIntact == Spec => []PublishedIntact
<1>1. ASSUME StoreInv, NEW d \in Docs, docs[d] = "current"
      PROVE  /\ d \in rows
             /\ versions[d] # None /\ versions[d].checksum = uploaded[d]
             /\ blobs[d] # None /\ blobs[d].content = uploaded[d]
             /\ versions[d].key.kek = kek => Readable(d)
  <2>1. StoredOK(d)
    BY <1>1 DEF StoreInv, UploadInv
  <2>2. /\ versions[d] # None /\ versions[d].checksum = uploaded[d] /\ versions[d].key.dek = d
        /\ d \in rows /\ blobs[d] # None /\ blobs[d] = Encrypted(uploaded[d], d)
    BY <1>1, <2>1 DEF StoredOK
  <2>3. blobs[d].content = uploaded[d] /\ blobs[d].dek = d
    BY <2>2 DEF Encrypted
  <2>. QED
    BY <2>2, <2>3 DEF Readable
<1>2. StoreInv => PublishedIntact
  BY <1>1 DEF PublishedIntact
<1>. QED
  BY <1>2, StoreInvariance, PTL

(* A file that belongs to no current document is left by an upload that died, or
   the upload is still running. *)
THEOREM LeaksAreExplained == Spec => []LeaksExplained
<1>1. StoreInv => LeaksExplained
  BY DEF StoreInv, UploadInv, Explained, LeaksExplained
<1>. QED
  BY <1>1, StoreInvariance, PTL

(* However often tasks run, at once or again, under whatever key, and however stamping
   goes: a watermarked copy shows the content of its document, opens with the data key
   of the file it was made from, and bears no text but one that a task was asked to
   stamp on this document for this share. *)
THEOREM MarksStayFaithful == Spec => []MarksFaithful
<1>1. ASSUME StoreInv, NEW d \in Docs, NEW s \in Shares, marks[MarkKey(d, s)] # None
      PROVE  LET mark == marks[MarkKey(d, s)]
             IN  /\ mark.content = uploaded[d]
                 /\ mark.dek = blobs[d].dek
                 /\ \A text \in mark.faces \ {None} : \E j \in Jobs : AsksFor(j, d, s, text)
  <2>1. MarkOK(d, s) /\ StoredOK(d)
    BY <1>1 DEF StoreInv, UploadInv, TaskInv
  <2>2. MarkKey(d, s) = <<d, s>>
    BY DEF MarkKey
  <2>3. blobs[d] # None
    BY <1>1, <2>1, <2>2 DEF MarkOK
  <2>4. blobs[d].dek = d
    BY <2>1, <2>3 DEF StoredOK, Encrypted
  <2>. QED
    BY <1>1, <2>1, <2>2, <2>4 DEF MarkOK
<1>2. StoreInv => MarksFaithful
  BY <1>1 DEF MarksFaithful
<1>. QED
  BY <1>2, StoreInvariance, PTL

(* An event names a stored result, every run stores one at most, and a task that
   is done has reported: for any number of tasks, retries, lost workers and messages
   delivered again, the runs of one task overlapping as they may. *)
THEOREM ReportsAreBacked == Spec => []ReportsBacked
<1>1. ASSUME StoreInv, NEW j \in Jobs, tasks[j] # None
      PROVE  /\ events[j] <= Stored(j)
             /\ Stored(j) <= runs[j]
             /\ j \in done /\ tasks[j].kind # "watermark" => events[j] >= 1
  <2>1. TaskOK(j) /\ TaskTypes
    BY <1>1 DEF StoreInv, TaskInv
  <2>2. Stored(j) \in Nat /\ events[j] \in Nat /\ runs[j] \in Nat
    BY <2>1 DEF TaskTypes, Stored
  <2>3. Count(j, EventSteps) \in Nat /\ Count(j, FreshSteps) \in Nat
    BY CountIsNat
  <2>. QED
    BY <1>1, <2>1, <2>2, <2>3 DEF TaskOK
<1>2. StoreInv => ReportsBacked
  BY <1>1 DEF ReportsBacked
<1>. QED
  BY <1>2, StoreInvariance, PTL
=============================================================================
