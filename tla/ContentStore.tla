---------------------------- MODULE ContentStore -----------------------------
(***************************************************************************)
(* Contents: how an upload stores an encrypted file in MinIO and in three  *)
(* tables, and what the Celery tasks make of it: signature records,        *)
(* watermarked copies and audit packages.                                  *)
(*                                                                         *)
(* An upload is five writes, each committed before the next, and nothing   *)
(* undoes the earlier ones when a later one fails. The message of a task   *)
(* is acknowledged when its run has ended (acks_late). An exception first  *)
(* publishes another message, up to max_retries times; a lost worker       *)
(* leaves its message to be delivered again, a retry published or not. So  *)
(* a task may run several times, even at once, each from its beginning.    *)
(*                                                                         *)
(* Ciphers are modelled by what opens them: a file by its data key (DEK),  *)
(* a wrapped data key by the configured key (KEK). A checksum is the       *)
(* content itself. The width of the column that stores the wrapped key is  *)
(* the business of module Documents, the event that ends an upload that of *)
(* AuditChain.                                                             *)
(***************************************************************************)
EXTENDS Naturals, FiniteSets, Sequences, SequencesExt

CONSTANTS
  Docs,        \* ids that uuid4 can give to documents, and to their version
  Contents,    \* what clients upload
  Keks,        \* keys an operator configures
  Shares,      \* ids of share links, an argument of watermarks
  Texts,       \* what watermarks say, another argument: no code derives it from the link
  Jobs,        \* ids of Celery tasks
  Reqs,        \* slots for uploads in progress
  Workers,     \* slots of the Celery worker
  MaxRetries,  \* bound: max_retries (3, or 5, in the code)
  MaxRuns,     \* bound: deliveries of messages in a behaviour
  None         \* "no row", "no object", "nothing in progress"

ASSUME RetriesAssumption == MaxRetries \in Nat
ASSUME FiniteAssumption  == IsFiniteSet(Workers)

VARIABLES
  blobs,     \* the bucket: files uploaded, by object key
  marks,     \* the bucket: watermarked copies, by object key
  packs,     \* the bucket: audit packages, counted by the task that built them
  rows,      \* table storage_objects: object keys of files
  packRows,  \* table storage_objects: audit packages, counted by task
  docs,      \* table documents: the documents, and whether they have a version
  versions,  \* table document_versions, by document
  records,   \* table signature_records, counted by task
  events,    \* table audit_events, counted by task
  kek,       \* the configured key
  pc,        \* the write each upload performs next
  upload,    \* the upload in each request slot
  tasks,     \* the call that each task stands for
  queue,     \* messages waiting at the broker, counted by task and retries so far
  done,      \* tasks that the result backend has as SUCCESS
  at,        \* the step each worker performs next
  job,       \* the task each worker runs
  tries,     \* the retries named by the message each worker has not acknowledged yet
  plain,     \* the plaintext each worker holds
  runs,      \* history: how often each task was delivered
  uploaded,  \* history: what was uploaded as each document
  abandoned  \* history: documents whose upload did not end

bucket   == <<blobs, marks, packs>>
tables   == <<rows, packRows, docs, versions, records, events>>
requests == <<pc, upload, uploaded, abandoned>>
broker   == <<tasks, queue, runs, done>>
workers  == <<at, job, tries, plain>>
celery   == <<broker, workers>>
vars     == <<bucket, tables, requests, celery, kek>>

-----------------------------------------------------------------------------
(* Types *)

File == [content : Contents, dek : Docs]

\* A watermarked copy: which content, and the faces of its pages, which are stamped
\* with a text or bare (None).
Mark == [content : Contents, faces : SUBSET (Texts \cup {None}), dek : Docs]

WrappedKey == [dek : Docs, kek : Keks]

Version == [key : WrappedKey, checksum : Contents]

Upload == [doc : Docs, content : Contents, key : WrappedKey]

Kinds == {"verify", "watermark", "package"}

Task == [kind : Kinds, doc : Docs, share : Shares \cup {None}, text : Texts \cup {None}]

\* How often a task has been published again before a message of it.
Retries == 0 .. MaxRetries

ASSUME NoneAssumption ==
  None \notin Contents \cup Shares \cup Texts \cup File \cup Mark \cup Version \cup Task

\* Mutants: the row before the file, the version last, the document never current.
RowFirst == <<"row", "put", "document", "version", "publish">>
PublishEarly == <<"put", "row", "document", "publish", "version">>
PublishForgotten == <<"put", "row", "document", "version">>

\* The writes of upload_document, in order.
UploadOrder == <<"put", "row", "document", "version", "publish">>

\* Mutant: a result is reported before it is stored.
TaskOrderReportFirst ==
  [verify    |-> <<"read", "get", "event", "record", "ack">>,
   watermark |-> <<"read", "get", "mark", "ack">>,
   package   |-> <<"read", "event", "pack", "row", "ack">>]

\* The steps of the three tasks, the acknowledgement last.
TaskOrder ==
  [verify    |-> <<"read", "get", "record", "event", "ack">>,
   watermark |-> <<"read", "get", "mark", "ack">>,
   package   |-> <<"read", "pack", "row", "event", "ack">>]

TaskSteps == UNION {ToSet(TaskOrder[k]) : k \in Kinds}

\* The step that follows s in an order.
After(order, s) ==
  order[1 + CHOOSE i \in DOMAIN order : order[i] = s]

TypeOK ==
  /\ blobs \in [Docs -> File \cup {None}]
  /\ marks \in [Docs \X Shares -> Mark \cup {None}]
  /\ packs \in [Jobs -> Nat]
  /\ rows \subseteq Docs
  /\ packRows \in [Jobs -> Nat]
  /\ docs \in [Docs -> {"none", "processing", "current"}]
  /\ versions \in [Docs -> Version \cup {None}]
  /\ records \in [Jobs -> Nat]
  /\ events \in [Jobs -> Nat]
  /\ kek \in Keks
  /\ pc \in [Reqs -> {"idle"} \cup ToSet(UploadOrder)]
  /\ upload \in [Reqs -> Upload \cup {None}]
  /\ tasks \in [Jobs -> Task \cup {None}]
  /\ queue \in [Jobs \X Retries -> Nat]
  /\ runs \in [Jobs -> Nat]
  /\ done \subseteq Jobs
  /\ at \in [Workers -> {"idle", "retried"} \cup TaskSteps]
  /\ job \in [Workers -> Jobs \cup {None}]
  /\ tries \in [Workers -> Retries]
  /\ plain \in [Workers -> Contents \cup {None}]
  /\ uploaded \in [Docs -> Contents \cup {None}]
  /\ abandoned \subseteq Docs

-----------------------------------------------------------------------------
(* Keys *)

Encrypted(content, dek) == [content |-> content, dek |-> dek]

\* generate_dek: every upload has a data key of its own, named after it.
Wrapped(d) == [dek |-> d, kek |-> kek]

\* Mutant: the copies of one document overwrite one another.
MarkKeyPerDocument(d, s) == <<d, CHOOSE t \in Shares : TRUE>>

\* "<object key>.wm.<share>"
MarkKey(d, s) == <<d, s>>

\* What the download of document d needs: its version's key opens under the
\* configured key, and opens the file.
Readable(d) ==
  /\ versions[d] # None
  /\ blobs[d] # None
  /\ versions[d].key.kek = kek
  /\ versions[d].key.dek = blobs[d].dek

-----------------------------------------------------------------------------
(* Uploads *)

Init ==
  /\ blobs = [d \in Docs |-> None]
  /\ marks = [k \in Docs \X Shares |-> None]
  /\ packs = [j \in Jobs |-> 0]
  /\ rows = {}
  /\ packRows = [j \in Jobs |-> 0]
  /\ docs = [d \in Docs |-> "none"]
  /\ versions = [d \in Docs |-> None]
  /\ records = [j \in Jobs |-> 0]
  /\ events = [j \in Jobs |-> 0]
  /\ kek \in Keks
  /\ pc = [r \in Reqs |-> "idle"]
  /\ upload = [r \in Reqs |-> None]
  /\ tasks = [j \in Jobs |-> None]
  /\ queue = [m \in Jobs \X Retries |-> 0]
  /\ runs = [j \in Jobs |-> 0]
  /\ done = {}
  /\ at = [w \in Workers |-> "idle"]
  /\ job = [w \in Workers |-> None]
  /\ tries = [w \in Workers |-> 0]
  /\ plain = [w \in Workers |-> None]
  /\ uploaded = [d \in Docs |-> None]
  /\ abandoned = {}

StartUpload(r, d, content) ==
  /\ pc[r] = "idle"
  /\ uploaded[d] = None
  /\ pc' = [pc EXCEPT ![r] = Head(UploadOrder)]
  /\ upload' = [upload EXCEPT ![r] = [doc |-> d, content |-> content, key |-> Wrapped(d)]]
  /\ uploaded' = [uploaded EXCEPT ![d] = content]
  /\ UNCHANGED <<bucket, tables, abandoned, celery, kek>>

\* Upload r has performed step s: on to the next one, if there is one.
Performs(r, s) ==
  /\ pc[r] = s
  /\ \/ /\ s # Last(UploadOrder)
        /\ pc' = [pc EXCEPT ![r] = After(UploadOrder, s)]
        /\ UNCHANGED upload
     \/ /\ s = Last(UploadOrder)
        /\ pc' = [pc EXCEPT ![r] = "idle"]
        /\ upload' = [upload EXCEPT ![r] = None]
  /\ UNCHANGED <<uploaded, abandoned, celery, kek>>

PutFile(r) ==
  LET u == upload[r]
  IN  /\ Performs(r, "put")
      /\ blobs' = [blobs EXCEPT ![u.doc] = Encrypted(u.content, u.key.dek)]
      /\ UNCHANGED <<marks, packs, tables>>

CreateStorageObject(r) ==
  /\ Performs(r, "row")
  /\ rows' = rows \cup {upload[r].doc}
  /\ UNCHANGED <<bucket, packRows, docs, versions, records, events>>

CreateDocument(r) ==
  /\ Performs(r, "document")
  /\ docs' = [docs EXCEPT ![upload[r].doc] = "processing"]
  /\ UNCHANGED <<bucket, rows, packRows, versions, records, events>>

CreateVersion(r) ==
  LET u == upload[r]
  IN  /\ Performs(r, "version")
      /\ versions' = [versions EXCEPT ![u.doc] = [key |-> u.key, checksum |-> u.content]]
      /\ UNCHANGED <<bucket, rows, packRows, docs, records, events>>

\* current_version_id points at the version.
Publish(r) ==
  /\ Performs(r, "publish")
  /\ docs' = [docs EXCEPT ![upload[r].doc] = "current"]
  /\ UNCHANGED <<bucket, rows, packRows, versions, records, events>>

\* An upload dies: the store refuses the file three times, the database refuses
\* a row, the process is killed. What it has written stays.
Fail(r) ==
  /\ pc[r] # "idle"
  /\ pc' = [pc EXCEPT ![r] = "idle"]
  /\ upload' = [upload EXCEPT ![r] = None]
  /\ abandoned' = abandoned \cup {upload[r].doc}
  /\ UNCHANGED <<bucket, tables, uploaded, celery, kek>>

-----------------------------------------------------------------------------
(* Tasks *)

\* The queue with a message of task j that names n retries put in, or taken out.
With(j, n) == [queue EXCEPT ![<<j, n>>] = @ + 1]
Without(j, n) == [queue EXCEPT ![<<j, n>>] = @ - 1]

\* Nothing in the repository enqueues these tasks: whoever does may name any
\* document, one that has no version included.
Enqueue(j, kind, d, s, text) ==
  /\ tasks[j] = None
  /\ kind = "watermark" <=> s # None
  /\ kind = "watermark" <=> text # None
  /\ tasks' = [tasks EXCEPT ![j] = [kind |-> kind, doc |-> d, share |-> s, text |-> text]]
  /\ queue' = With(j, 0)
  /\ UNCHANGED <<bucket, tables, requests, workers, runs, done, kek>>

\* Mutant: a message is delivered to two workers.
WaitsEver(j, n) == tasks[j] # None

Waits(j, n) == queue[<<j, n>>] > 0

Deliveries == FoldFunction(LAMBDA n, sum : n + sum, 0, runs)

\* A worker takes a message; the broker keeps it until it is acknowledged.
Deliver(w, j, n) ==
  /\ at[w] = "idle"
  /\ Waits(j, n)
  /\ Deliveries < MaxRuns
  /\ queue' = Without(j, n)
  /\ runs' = [runs EXCEPT ![j] = @ + 1]
  /\ at' = [at EXCEPT ![w] = "read"]
  /\ job' = [job EXCEPT ![w] = j]
  /\ tries' = [tries EXCEPT ![w] = n]
  /\ UNCHANGED <<bucket, tables, requests, tasks, done, plain, kek>>

\* Worker w performs step s of its task and goes on to the next.
Runs(w, s) ==
  /\ at[w] = s
  /\ at' = [at EXCEPT ![w] = After(TaskOrder[tasks[job[w]].kind], s)]
  /\ UNCHANGED <<requests, broker, job, tries, kek>>

\* The rows the task begins with: the version and its storage object, or, for a
\* package, the document.
Found(t) ==
  \/ t.kind # "package" /\ versions[t.doc] # None /\ t.doc \in rows
  \/ t.kind = "package" /\ docs[t.doc] # "none"

Read(w) ==
  /\ Runs(w, "read")
  /\ Found(tasks[job[w]])
  /\ UNCHANGED <<bucket, tables, plain>>

\* get_object, unwrap_dek, decrypt_bytes.
Get(w) ==
  LET d == tasks[job[w]].doc
  IN  /\ Runs(w, "get")
      /\ Readable(d)
      /\ plain' = [plain EXCEPT ![w] = blobs[d].content]
      /\ UNCHANGED <<bucket, tables>>

Record(w) ==
  /\ Runs(w, "record")
  /\ records' = [records EXCEPT ![job[w]] = @ + 1]
  /\ UNCHANGED <<bucket, rows, packRows, docs, versions, events, plain>>

\* What the faces of the pages may be when text has been stamped: the text, and bare
\* pages too if an annotation failed, for such a page is added a second time; or bare
\* all over, when the file cannot be read or the text not be made an annotation.
Stamped(text) == {faces \in SUBSET {text, None} : faces # {}}

\* The copy, stamped or not, is encrypted with the data key of the version it was
\* made from.
PutMark(w) ==
  LET t == tasks[job[w]]
  IN  /\ Runs(w, "mark")
      /\ \E faces \in Stamped(t.text) :
           marks' = [marks EXCEPT ![MarkKey(t.doc, t.share)] =
             [content |-> plain[w], faces |-> faces, dek |-> versions[t.doc].key.dek]]
      /\ UNCHANGED <<blobs, packs, tables, plain>>

\* Every run builds its package under a key of its own.
PutPackage(w) ==
  /\ Runs(w, "pack")
  /\ packs' = [packs EXCEPT ![job[w]] = @ + 1]
  /\ UNCHANGED <<blobs, marks, tables, plain>>

CreatePackageRow(w) ==
  /\ Runs(w, "row")
  /\ packRows' = [packRows EXCEPT ![job[w]] = @ + 1]
  /\ UNCHANGED <<bucket, rows, docs, versions, records, events, plain>>

WriteEvent(w) ==
  /\ Runs(w, "event")
  /\ events' = [events EXCEPT ![job[w]] = @ + 1]
  /\ UNCHANGED <<bucket, rows, packRows, docs, versions, records, plain>>

\* The run of worker w is over.
Leaves(w) ==
  /\ at' = [at EXCEPT ![w] = "idle"]
  /\ job' = [job EXCEPT ![w] = None]
  /\ tries' = [tries EXCEPT ![w] = 0]
  /\ plain' = [plain EXCEPT ![w] = None]
  /\ UNCHANGED <<bucket, tables, requests, tasks, runs, kek>>

\* The message is acknowledged, after the run or after the retry was published.
Ack(w) ==
  /\ at[w] \in {"ack", "retried"}
  /\ done' = done \cup {j \in {job[w]} : at[w] = "ack"}
  /\ Leaves(w)
  /\ UNCHANGED queue

\* A step raises an exception.
Raises(w) == at[w] \notin {"idle", "ack", "retried"}

\* autoretry_for=(Exception,): published again, before the acknowledgement.
Retry(w) ==
  /\ Raises(w)
  /\ tries[w] < MaxRetries
  /\ queue' = With(job[w], tries[w] + 1)
  /\ at' = [at EXCEPT ![w] = "retried"]
  /\ plain' = [plain EXCEPT ![w] = None]
  /\ UNCHANGED <<bucket, tables, requests, tasks, runs, done, job, tries, kek>>

\* No retry is left: the task has failed.
GiveUp(w) ==
  /\ Raises(w)
  /\ tries[w] = MaxRetries
  /\ Leaves(w)
  /\ UNCHANGED <<queue, done>>

\* The worker is lost before the acknowledgement. The message is delivered again,
\* unless only the child process was lost: the parent then takes the task as
\* failed.
Kill(w) ==
  /\ at[w] # "idle"
  /\ queue' \in {queue, With(job[w], tries[w])}
  /\ Leaves(w)
  /\ UNCHANGED done

\* An operator configures another key, and restarts the API and the idle workers with
\* it. Nothing wraps the stored keys again: rotate_keys_task only records an event.
Redeploy(k) ==
  /\ k # kek
  /\ \A w \in Workers : at[w] = "idle"
  /\ kek' = k
  /\ abandoned' = abandoned \cup {upload[r].doc : r \in {q \in Reqs : pc[q] # "idle"}}
  /\ pc' = [r \in Reqs |-> "idle"]
  /\ upload' = [r \in Reqs |-> None]
  /\ UNCHANGED <<bucket, tables, uploaded, celery>>

-----------------------------------------------------------------------------
(* Specification *)

UploadStep(r) ==
  \/ PutFile(r)
  \/ CreateStorageObject(r)
  \/ CreateDocument(r)
  \/ CreateVersion(r)
  \/ Publish(r)

TaskStep(w) ==
  \/ Read(w)
  \/ Get(w)
  \/ Record(w)
  \/ PutMark(w)
  \/ PutPackage(w)
  \/ CreatePackageRow(w)
  \/ WriteEvent(w)
  \/ Ack(w)
  \/ Retry(w)
  \/ GiveUp(w)
  \/ Kill(w)

Next ==
  \/ \E r \in Reqs :
       \/ \E d \in Docs, content \in Contents : StartUpload(r, d, content)
       \/ UploadStep(r)
       \/ Fail(r)
  \/ \E j \in Jobs, kind \in Kinds, d \in Docs, s \in Shares \cup {None}, text \in Texts \cup {None} :
       Enqueue(j, kind, d, s, text)
  \/ \E w \in Workers :
       \/ \E j \in Jobs, n \in Retries : Deliver(w, j, n)
       \/ TaskStep(w)
  \/ \E k \in Keks : Redeploy(k)

Spec == Init /\ [][Next]_vars

-----------------------------------------------------------------------------
(* Safety *)

\* The consistency task has nothing to find: every row of storage_objects names
\* an object that is in the bucket, wherever uploads, tasks and workers died.
NoGhosts ==
  /\ \A d \in rows : blobs[d] # None
  /\ \A j \in Jobs : packRows[j] <= packs[j]

\* A document with a current version has its file, the row of its file and its
\* version; checksum and content are what was uploaded; and as long as the key
\* under which it was uploaded is configured, it can be read.
PublishedIntact ==
  \A d \in Docs : docs[d] = "current" =>
    /\ d \in rows
    /\ versions[d] # None /\ versions[d].checksum = uploaded[d]
    /\ blobs[d] # None /\ blobs[d].content = uploaded[d]
    /\ versions[d].key.kek = kek => Readable(d)

\* What an upload has stored leaks only when the upload died: otherwise it is
\* part of a document with a version, or the upload is still running.
LeaksExplained ==
  \A d \in Docs \ abandoned : blobs[d] # None /\ docs[d] # "current" =>
    \E r \in Reqs : pc[r] # "idle" /\ upload[r].doc = d

\* Task j was asked to stamp this text on document d for this share.
AsksFor(j, d, share, text) ==
  tasks[j] = [kind |-> "watermark", doc |-> d, share |-> share, text |-> text]

\* However often tasks run, at once or again, under whatever key, and however stamping
\* goes: a watermarked copy found under the key of a share shows its document's content,
\* opens with the document's data key, and bears no text but one that some task was asked
\* to stamp on this document for this very share.
MarksFaithful ==
  \A d \in Docs, s \in Shares :
    LET mark == marks[MarkKey(d, s)]
    IN  mark # None =>
          /\ mark.content = uploaded[d]
          /\ mark.dek = blobs[d].dek
          /\ \A text \in mark.faces \ {None} : \E j \in Jobs : AsksFor(j, d, s, text)

\* What the runs of task j have stored for its event to name.
Stored(j) == IF tasks[j].kind = "package" THEN packRows[j] ELSE records[j]

\* An event names a result that is stored, and each run stores one at most, although
\* runs of one task may overlap; a task that is done has reported. So a task that ran
\* once, and is done, stored and reported once.
ReportsBacked ==
  \A j \in Jobs : tasks[j] # None =>
    /\ events[j] <= Stored(j)
    /\ Stored(j) <= runs[j]
    /\ j \in done /\ tasks[j].kind # "watermark" => events[j] >= 1
=============================================================================
