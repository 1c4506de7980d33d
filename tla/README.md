# SecureDocumentationVault: a verification project

SecureDocumentationVault is a FastAPI backend that keeps legal documents encrypted in an object
store, puts them under retention policies and legal holds, shares them over capped links, and writes
an HMAC-chained audit trail. This directory models in TLA+ what its requests do to the shared tables
and what may happen when they overlap or die. TLC checks the models on small instances; TLAPS proves
the most important results for every value of the constants. Paths below are relative to the
repository.

## 1. The one fact behind everything

`AsyncSessionFactory.session` (`src/infrastructure/database/session.py:52-60`) opens a session,
commits it at the end of its block, rolls back on an exception, and closes it. Repositories open such
a session *per method call*, and DTO-like entities are copied out of the rows. So an HTTP request is
not a transaction: it is a sequence of transactions, with other requests between any two of them and
with a possible end (exception, cancellation, process death) after each. Nothing locks a row and no
update checks a version. PostgreSQL runs at its default level, READ COMMITTED.

Each module therefore has the same shape: a set of request slots with a program counter naming the
next transaction, one action per transaction (together with the local code up to the next `await`), a
`Fail` action that ends a request between two transactions, and history variables that record which
objects were handled by two requests at once (`contended`). The interesting question of each
component is what survives overlap, what only holds without it, and what a crash leaves behind.

## 2. Inventory

| Component | State | Operations | Interacts with |
|---|---|---|---|
| Documents (`application/use_cases/document_service.py`, `repositories/document_repository.py`) | `documents`, `document_versions` | upload, update, delete, restore, download, list, verify integrity | storage (before the row), audit (after each change), retention, holds (through the flag) |
| Legal holds (`presentation/api/v1/legal_holds.py`, `LegalHoldRepository`) | `legal_holds`, `documents.legal_hold_active` | place, release | documents: two tables, no transaction around both |
| Retention (`retention.py`, `RetentionPolicy`) | `retention_policies`, `documents.retention_policy_id` | create, apply, `can_delete` | documents; scanned by a periodic task |
| Share links (`shares.py`, `ShareLink`, `ShareRepository`) | `share_links` | create, public download, revoke | documents (download decrypts) |
| Audit chain (`integrity_chain.py`, `audit_repository.py`, `_write_audit`) | `audit_events` | append, timeline, verify, search | called last by every document operation and by tasks |
| Envelope encryption (`envelope_encryption.py`) | none (KEK from the configuration) | generate, wrap, unwrap, encrypt, decrypt | upload, download; wrapped key stored in `document_versions` |
| Object storage (`minio_storage.py`) and its consistency task | MinIO bucket, `storage_objects` | put, get, delete, stat | upload stores first; task compares |
| Tasks (`infrastructure/queue/tasks/*`) | results in the tables, blobs | ingest, watermark, signature, audit package, retention scan, hold monitor, storage check, key rotation | Celery, `acks_late`, retries |
| Signatures (`cms_verifier.py`, `signature_repository.py`) | `signature_records` | verify, list | versions, storage |
| Authentication (`auth_service.py`, `core/security.py`) and roles (`rbac.py`, `deps.py`) | `api_users`, PASETO tokens, Redis blocklist | login, refresh, role check | every endpoint |
| HTTP surface, middleware, metrics, configuration | none | | |

What is hard about each, and what makes it correct:

* **Documents.** `DocumentRepository.update` (`document_repository.py:125-147`) writes *every* column
  from a copy read transactions earlier. Overlapping requests undo one another, the hold flag and the
  status included. Correctness: deletion respects holds and retention at the moment of the write; the
  trail tells the story of the row, that of an ACTIVE document without content included; uploads end.
* **Legal holds.** The flag is a cache of "some hold is active", kept by two requests that each touch
  two tables in a chosen order. Correctness: a hold is never without its flag (safe side of every
  crash), and a flag without a hold does not last.
* **Retention.** Boundary of the expiry in two modes; policy and time may change between the check and
  the write.
* **Share links.** Check, increment and write-back are three steps. The ORM writes only columns that
  changed against the row it loads again, so what is lost depends on *two* reads. Correctness: the cap
  and the finality of a revocation.
* **Audit chain.** Read-last and insert are two transactions; `created_at` is the beginning of the
  inserting transaction, not its commit; payloads pass through JSONB; verification reads a bounded
  prefix. Correctness: one chain per resource back to `GENESIS`, and verification that flags exactly
  the altered events.
* **Storage, tasks.** A blob without a row after a crash, a task that runs twice, a scan over rows that
  have moved.
* **Tasks over moving rows.** The hold monitor and the retention scan read holds, documents and policies
  at different instants, through sessions that keep objects they have read before. Correctness: what
  they report was so at some instant of the pass, and what stays wrong is reported by some pass.
* **Authentication and roles.** Tokens are stored nowhere and end by themselves only; the user is looked
  up on every call, transactions after the token was checked. Correctness: nobody acts on rights he has
  not had since his call began, and an idle session ends.

`PROJECT.json` lists the components with their status and every hazard with the line where it bites
and the properties that watch it.

## 3. Modules

| Module | Models | Checked through | Proved in |
|---|---|---|---|
| `Retention` | policy, expiry, `can_delete` (pure) | `Documents` | |
| `Envelope` | length of a wrapped key (pure) | `Documents` | |
| `Documents` | documents, holds, policies, as requests run them | `MCDocuments` | `DocumentsProofs`, `TrailProofs` |
| `HoldRegister` | abstract: what holds promise, atomically | `MCDocuments` (`KeepsRegister`) | `DocumentsProofs` |
| `HoldMonitor` | the hold monitor over the tables of `Documents` | `MCHoldMonitor` | `HoldMonitorProofs` |
| `RetentionScan` | the retention scan over the tables of `Documents` | `MCRetentionScan` | `RetentionScanProofs` |
| `Access` | tokens, logins, roles, what endpoints ask for | `MCAccess` | `AccessProofs` |
| `ShareLinks` | share links | `MCShareLinks` | `ShareLinksProofs` |
| `CappedLink` | abstract: what a share link promises, atomically | `MCShareLinks` (`KeepsCap`) | `ShareLinksProofs` |
| `AuditChain` | audit chains and their verification | `MCAuditChain` | `AuditChainProofs` |
| `ContentStore` | files, their rows and keys; the tasks that work on them | `MCContentStore` | `ContentStoreProofs` |

`Documents` uses the operators of `Retention` and `Envelope`. `HoldMonitor` and `RetentionScan` extend
`Documents`: their next-state relation is a step of a request or a step of the task, over one set of
tables. `HoldRegister` is instantiated by `Documents`, and `CappedLink` by `ShareLinks`, under refinement
mappings.

### Documents

State: `docs`, `holds`, `policies` are the tables (a row or `None`); `now` is the date; `trail` is what
the audit events of a document say of it; `pc`, `call`, `snap` are a request's next transaction, its
arguments and its private copy of the row; `contended` and `partial` are history.

| Request | Transactions (action, code) |
|---|---|
| upload | `StartUpload` (row, PROCESSING, `document_service.py:58-111`) → `CreateVersion` or `RefuseVersion` (`:113-131`) → `Write` → `WriteAudit` |
| update | `StartUpdate` (read, `:322-347`) → `Write` → `WriteAudit` |
| delete | `StartDelete` (read and flag check, `:218-241`) → `CheckRetention` / `RefuseRetention` if it has a policy → `Write` → `WriteAudit` |
| restore | `StartRestore` (`:254-264`) → `Write` → `WriteAudit` |
| apply policy | `StartApply` (`retention.py:102-114`) → `Write` |
| place hold | `StartPlace` (`legal_holds.py:38-46`) → `Write` (flag) → `InsertHold` |
| release hold | `StartRelease` (hold released, `:81-95`) → `ListActive` → `Reread` → `Write` (flag) |
| create policy | `CreatePolicy` (`retention.py:48-64`) |

Abstractions. Title, tags and metadata are one field (`title`): update changes them alike. The version
table is reduced to "there is a current version" (`current`): no operation adds a second version. A
request refused before it changed anything is not a step. `StartRelease` merges the read of the hold
with the write that releases it, because all the read keeps (the document's id) never changes;
`StartApply` merges the fetch of the policy with that of the document, because policies are never
changed or removed. The audit trail of a document is a summary (which operations, last status, last
title) since the chain has its own module.

`KeyColumnWidths` are the widths that `document_versions.encryption_key_id` may have. The code declares
128 (`models/__init__.py:160`, `0001_initial.py:121`) while a wrapped key has 140 characters
(`Envelope`), so in the program as it is every upload ends in `RefuseVersion`, and every run but one has
128 only. `doc_holds` has both 128 and 140, and each upload meets either: every behaviour of the program as
it is is among those checked, and the code after `create_version` (`document_service.py:129-148`), which
a wider column would bring to life, is checked besides. Nothing that passes there depends on the wider column.
The theorems hold for every set of widths.

### HoldRegister, and how Documents implements it

`HoldRegister` states what legal holds promise, without requests, transactions or copies. Each document
has an entry: its active holds, whether it is blocked, whether it is deleted, whether a privileged purge
is under way. Every action is atomic: a hold enters only a blocked entry (`Place`), the block goes only
when no hold is left (`Unblock`), a blocked entry is deleted only during a purge (`Delete`).

The mapping (`Entered`, `Register` in `Documents`): `held` is the set of active rows of `legal_holds`,
`blocked` the flag of the document row, `deleted` its status, `purging` a delete request with
`privileged_purge` in progress; `loose` is `contended`. An entry is given up (`Loosen`) at the first
overlap of two requests on its document, because the write-back of a stale copy then breaks the promise
(`doc_v_hold` shows it): the refinement says exactly how far the promise of the code reaches.
`KeepsRegister` is the abstract specification as a property of `Documents`.

### HoldMonitor

`monitor_legal_holds` (`legal_hold_monitor_task.py:32-102`), every half hour. `BeginPass` reads the active
holds (`Snapshot`); `Look` reads the document under one of them; `Report` writes the event for a DELETED
one; `EndPass` and `FailPass` end the pass, the latter anywhere, without a retry. `Selected` is the
session's identity map: the object of the document looked at last is still referenced, so a second
hold on it is judged by the first look. `pass` is the pass in progress, `reported` the holds its events
name; `exposed` (holds seen active on a DELETED document, by an observer who sees every instant) and
`ended` (holds released) are histories of the pass.

### RetentionScan

`scan_retention_expiry` (`retention_expiry_scan_task.py:35-122`), every hour. `BeginScan` is the first
execution of the join and fixes the time of the scan; `Join` is the second one, which yields the session's old
objects beside new policies (`Yielded`); `Judge` evaluates one document (`Eligible`); `Report` writes
RETENTION_APPLIED. The scan deletes nothing. `deletable` (documents an ordinary request might have deleted
at some instant of the scan) and `torn` (documents written between the two joins) are histories.

### Access

`users` is `api_users`; `tokens` every token ever given out, because clients keep them and nothing
revokes one; `pc`, `call`, `caller` are a request's next step, its token and endpoint, and the role its
lookup saw. `StartLogin` (`auth_service.py:29-44`), `StartRefresh` (`:85-92`) and `StartCall` (`:57-64`)
check the password or the token; `Lookup` reads the user (`:66-83`) and applies the role rule of the
endpoint (`deps.py:125-137`); `Refuse` is 401 and 403; `Issue` makes tokens (`:94-118`); `Perform` is the
handler, whose transactions are the business of the other modules. `SetUser` is an operator with access
to the database: no endpoint changes a user. `RequiresRole` is the rule that endpoints use,
`Allowed` the table of what each asks for; `IsAtLeast` (`is_at_least`, without a caller outside the tests) is how
`ActsOnCurrentRights` states what being admitted means. Abstractions: a password matches or not; PASETO
sealing is what it promises under one key; a lifetime is a number of instants, and the last of them
counts (`Valid`). `seen` (roles the user was active in since the call began) and `issued` (when a user last
got tokens) are histories.

### ShareLinks

`links` is the table. A download reads the row and checks `can_download` (`StartDownload`), and
`ShareRepository.update` then runs as two steps: `Load` (the SELECT) and `Store` (flush and commit, which
writes a column only if the copy differs from what `Load` saw: `Merged`). `Respond` is the answer.
A revocation is `StartRevoke`, `Load`, `Store`. `started`, `served`, `revoked` are history. `Tick` moves
time; links expire.

### CappedLink, and how ShareLinks implements it

`CappedLink` gives each link an account: not there, open or closed, its limit, the downloads charged and the
downloads answered. `Charge` adds one, on an open link below its limit; `Serve` answers one that is charged, on
an open link; a closed link never changes again, so it neither reopens nor forgets a charge. The mapping
(`Account`, `Capped` in `ShareLinks`): the state is the `revoked_at` column, the charges are the
`download_count` column, the answers are `served`; `loose` is `contended`, and a link whose requests overlap gives up its
account (`Loosen`), because overlap breaks the cap (`share_v_cap`) and may reopen a revoked link. Expiry is left out: a
download that was admitted in time may be charged and answered after it.

### AuditChain

`events` is the table by resource. A writer (request or task) reads the last hash (`ReadLast`), begins
its insertion, which fixes `created_at` (`BeginInsert`), and commits (`CommitInsert`). `clock` counts the
insertions begun and stands for `NOW()`: strictly monotone, two transactions never share a timestamp
(they differ in microseconds). HMAC-SHA256 under a fixed key is taken as free of collisions, so a hash
is the sequence of payloads that went into it. `Jsonb` is what a payload reads like after PostgreSQL
has stored it (`1e+16` comes back as `10000000000000000`); storing twice changes nothing more. `Limit`
is the 10000 events that `verify_integrity` reads (`document_service.py:368`). `Timeline`, `Matches` and
`Broken` are its loop.

### ContentStore

An upload again, seen from the store: `PutFile` (`minio_storage.py:49-67`), `CreateStorageObject`,
`CreateDocument`, `CreateVersion`, `Publish` (`document_service.py:77-131`), in `UploadOrder`, each
committed by itself; `Fail` ends it anywhere and undoes nothing. State: `blobs`, `marks`, `packs` are the
bucket by kind of object, `rows`, `packRows`, `docs`, `versions`, `records`, `events` the tables, the last
two and the packages as counts per task. `kek` is the key the processes are configured with.

Three Celery tasks work on a document, step by step in `TaskOrder`: verification of a signature (`Read`,
`Get`, `Record`, `WriteEvent`), a watermark (`Read`, `Get`, `PutMark`) and an audit package (`Read`,
`PutPackage`, `CreatePackageRow`, `WriteEvent`). `queue` counts the messages at the broker by task and by the
retries they name; `Deliver` takes one. `Ack` ends a run. An exception anywhere before is `Retry`, which
publishes another message (`autoretry_for`) and leaves the old one to `Ack`, or `GiveUp` when `max_retries`
is reached. `Kill` loses the worker anywhere (`acks_late`), between the two as well: the broker delivers the
message again or, if only the child process died, the parent records a failure. So a task may have several
messages, and several runs at once.

`Stamped` is `_stamp_pdf` (`apply_watermark_task.py:78-111`) by the faces of the pages of its result: the
text everywhere; the text, and bare pages, because a page whose annotation fails is added a second time
(`:102-105`); bare pages only, when every annotation fails or the file is returned as it is. The copy is
encrypted, stored and reported in all three cases. What is stamped (`watermark_text`) and the share whose key
the copy is stored under are two arguments of the task, and nothing ties one to the other.

`Redeploy` is an operator's doing, not code of the repository: another key is configured and the processes
are restarted. `rotate_keys_task` only records events, so it is no action here.

Abstractions. An upload's document, version, file and data key share one id: each is a fresh uuid or key,
and nothing mixes those of two uploads. What a cipher hides is what its key opens. How many pages have which
face is left out. Nothing in `src/` enqueues
the tasks; `Enqueue` lets anybody name any document. Tasks are taken to be shorter than the broker's
visibility timeout, and a redeployment to wait for busy workers. The consistency task only counts what
`NoGhosts` excludes, and ingestion only logs: neither is an action.

## 4. Runs

Passing runs:

| Run | Bounds | Question |
|---|---|---|
| `doc_holds` | 1 document, 2 holds, 2 tenants, 2 titles, 2 requests, widths 128 and 140 | `HoldCovered`, `FlagJustified`, `DeletionRespectsHold`: do flag and holds agree across crashes and the foreign-tenant release? `TrailMatchesRow`: does the trail replay to the row, refused uploads included? `DeletedAudited`, `EmptyActiveTold`, with no exemption for overlap: can stale copies delete without a trace, or make a document ACTIVE without content in any way but delete and restore? |
| `doc_deployed` | 1 document, 2 holds, 2 tenants, 2 titles, 2 policies (one per mode), 2 days, 1 request, width 128 | `DeletionRespectsRetention`: does the write that deletes find a policy that permits it, though days pass and policies are applied? `KeepsRegister`: is all this, with crashes and every upload refused by the key column, the atomic register of holds? |
| `hold_monitor` | 1 document, 2 holds, 1 request, 1 pass, width 128, fairness | `ReportsJustified`, `OddExplained`: are reports and counts true of some instant? `ExposureReported`: is a deleted document under a hold reported in the end? `FlagSettles`: do requests settle the flag they have left stale? |
| `retention_scan` | 1 document, 1 hold, 2 policies (one per mode), 2 days, 1 request, 1 scan, width 128, fairness | `EligibleWasDeletable`, `EligibleReported`: does the scan report what might be deleted, and all of it in the end? |
| `access` | 1 user, 2 roles, 3 endpoints, 2 requests, 3 instants, lifetimes 0 and 1 | `ActsOnCurrentRights`: on which rights do calls act while the user is changed? `IdleSessionsEnd`: does a session that nobody refreshes end, whatever tokens are replayed? |
| `share_links` | 1 link (limit 2 or none), 3 requests, 2 instants, 4 downloads | `CountWithinLimit` under any overlap; `ServedCharged`, `RevokedStaysClosed` without; `KeepsCap`: is all this the atomic capped link, up to overlap? |
| `audit_chain` | 2 resources, 3 writers, 4 events, verification reads 3 | `NoDanglingLink`, `BreaksOnlyOnRewriting` under any overlap; `LinkedFromGenesis` without |
| `content_store` | 1 document, 2 contents, 2 tasks, 2 workers, 2 shares, 2 texts, 2 keys, 1 retry, 4 deliveries | `NoGhosts`, `LeaksExplained`, `PublishedIntact`: what do dead uploads leave, and is what readers see whole? `MarksFaithful`, `ReportsBacked`: what do runs that are repeated, or overlap, leave? |

Why these bounds are enough. Overlap hazards here need a reader and a writer, and a third request whose
copy outlives both (`share_links`, `audit_chain`). Two holds are needed for "another hold
remains" and for a second look at one document, two tenants for the refused reread. Two days are
before and at the expiry. Beside a task, and in `doc_deployed`, one request slot is
enough: what requests do to one another is the question of `doc_holds`, and the properties of these runs
except documents on which requests overlapped, or need no second request to be endangered
(`RegisterKept` and `DeletionsRespectRetention` are proved for any number of requests); a slot is used again, so any number of requests come and go
during a pass. Passes follow one another: they are half an hour or an hour apart, and a
pass that takes longer than that is not modelled. In `access` a token is used before, at and after its last instant, one role may call an endpoint
the other may not, and two requests may refresh the same token. A limit of 2 lets a count be below, at and (in the mutants) above it. Four events with
a limit of 3 leave one that verification does not read. Uploads share nothing with one another, so one
document is enough for `content_store`, with either content, and two tasks on it, or two runs of one, may run at
once, before, during and after its upload; four deliveries are a first, a retry and a redelivery of each, or
two runs of either task. `MaxTime`, `MaxServed`,
`MaxEvents`, `MaxRetries` and `MaxRuns` are the bounds in guards; each is a constant. Symmetry is used in safety
runs only, over ids, titles and slots that nothing distinguishes.

`TypeOK` is one invariant per module; it says more than types where an update must find its row.
Each property is known to be breakable: a mutant named in `PROJECT.json` changes one definition as a
plausible bug would and makes TLC report it. The operators marked "Mutant" in the modules are those
forms; no specification uses them.

Fairness (`hold_monitor`, `retention_scan`, `doc_v_upload`). `WF(Continue(r))` for every request slot: a
request whose transaction has ended is resumed by the event loop, and `Fail` is the alternative it may take
at any time. `WF(TaskStep)` for a task: beat starts passes for ever (`celery_app.py:46-58`) and the worker goes
on with the one in progress. No fairness is assumed of clients, so no property depends on somebody sending
a request, and none of failures. A task that dies in every pass reports nothing, so `ExposureReported` and
`EligibleReported` have the premise that from some time on passes do not die (`PassesStopDying`,
`ScansStopDying`); TLC's mutants show that the premise leaves them something to say. `FlagSettles` excepts
documents on which a request was abandoned or two requests overlapped, which is exactly where the code
leaves the flag unsettled.

Runs that must find a violation, because the code and its documentation disagree:

| Run | Claim | What happens |
|---|---|---|
| `doc_v_hold` | README:169 "Legal holds block everything" | a deletion that read the row before the hold was placed writes DELETED over it, and clears the flag; `can_be_deleted` has no caller |
| `doc_v_upload` | README:11 upload with automatic envelope encryption | the wrapped key (140) does not fit its column (128): the version is refused and the document stays PROCESSING |
| `share_v_cap` | README:14 "download-capped" | two overlapping downloads read the same count, are charged once and both answered |
| `audit_v_fork` | README:165 a verifiable chain in which each event records `prev_hash` | two overlapping writers hang their events on the same predecessor |

## 5. Proofs

Every safety property and action property that a passing run checks is also a theorem; what remains for
TLC alone is liveness.

All theorems hold for any number of documents, holds, policies, tenants, requests, links, resources,
writers, tasks, workers, payloads and any bounds. The assumptions are those named in the modules: sorts of
the constants, that `None` is none of the values it is told apart from, and for `AuditChain` that `Jsonb` is
idempotent. Theorem names as in `PROJECT.json`; each inductive invariant was checked by TLC on the bounds of
the component's run before it was proved.

`TrailProofs`, `HoldMonitorProofs` and `RetentionScanProofs` extend `DocumentsProofs` and rest on its
invariants; the other proof modules stand alone.

* `DocumentsProofs!TypeCorrect`. `TypeOK` is not inductive: a `Write` must find its row and a copy that
  is a row. `TypeInv` adds `Fits`: a request in progress has a call whose document exists, and a copy
  wherever its program counter will use one. One step lemma per action.
* `DocumentsProofs!HoldsAreCovered`, `DeletionsRespectHolds`, `DeletionsRespectRetention`. `HoldInv` describes a
  document whose requests never overlapped: at most one request is on it, its copy agrees with the row
  except in what that request changes, and a flag about to be cleared belongs to a document without
  active holds. The flag-before-hold order of place and the hold-before-flag order of release are what
  makes the step cases go through. The two deletion properties follow as action properties from the
  same invariant: what was judged when the row was read still holds when it is written.
* `DocumentsProofs!RegisterKept`: `Documents` implements `HoldRegister`. `RegisterInv` is `HoldInv` and
  `FreshIds` (a hold about to be inserted has an id of its own, without which a `Place` could overwrite
  another document's hold). A step is about one document (`StepAbout`), so the entries of others stay
  (`OneEntry`); if requests overlap on it the step is a `Loosen` or a stutter (`Loosens`); if not, `HoldInv`
  tells which atomic action it is: the insertion of a hold finds the document blocked
  (`InsertRegisters`), and the write that clears the flag finds no hold left (`WriteRegisters`).
* `TrailProofs!FlagsAreJustified`, `TrailTellsRow`, for documents on which no requests
  overlapped and none was abandoned. `TrailInv` adds to `RegisterInv` that such a document is `Settled` when no
  request is on it (the flag has a hold, the trail tells the row), and that the one
  request on it `Accounts` for every difference: what its copy, its next transaction and its event will yet
  write. `FreshIds` is needed here too: an insertion over a stored hold would leave another document with a
  flag and no hold. A trail without events tells of a PROCESSING document without a title, which is what a
  refused upload leaves; that nothing is told of a document before it exists (`Untold`) makes an upload begin so.
* `TrailProofs!DeletionsAreAudited`, `EmptyActivesAreTold`, under every interleaving. Stale copies carry the
  status and the missing version from request to request, so the row may be turned DELETED, or ACTIVE without
  content, by an update or by a place. `ToldInv` follows what a row or a copy `Owes`: a deletion if it is DELETED, a deletion
  and a restoration if it is ACTIVE without content. What a row owes (`RowTold`) and what a copy owes that
  will be written (`CopyTold`) is in the trail already, or is owed by the delete or restore request that is about to
  write or record it, or the document is `partial`.
* `HoldMonitorProofs!MonitorReportsTruth`, `OddHoldsExplained`, `MonitorTypeCorrect`. `PassInv`: a hold still to
  be looked at is active or has ended since the pass began (`Watching`), and what the document object in
  the session says was true, when it was read, of every hold on that document which the pass has still to
  judge (`Judged`), because no request moves a hold to another document (`HoldsStay`, which needs
  `FreshIds`). That a hold without the flag is on a contended document is `HoldCovered`.
* `RetentionScanProofs!ReportsWereDeletable`, `ScanTypeCorrect`. `ScanInv`: at the second join the session's
  objects are the rows, or the document is torn (`Standing`); what will be judged eligible was deletable at that join
  (`Judged`), because time only moves on and what has expired by an earlier time is deletable now
  (`EligibleIsDeletable`, the link between the scan's own test of expiry and `can_delete`).
* `ContentStoreProofs`. Uploads write files, rows and documents and tasks only read them, so the invariant of
  the uploads stands alone (`NoGhostsEver`, `PublishedStaysIntact`, `LeaksAreExplained`): each write of an
  upload comes on top of the ones before it in `UploadOrder` (`UploadOK`, `StoredOK`), with the content and
  key the upload began with. That of the tasks (`MarksStayFaithful`, `ReportsAreBacked`) rests on it and on the fact that
  what uploads have stored only grows. Runs of one task overlap, so no single run accounts for what is stored:
  for each task the results stored are at most the deliveries less the runs that have still to store (`Count`
  over the workers, which are finitely many), and the events at most the results less the runs between the two.
  Each run stores before it reports and reports before it acknowledges. A text on a copy is the text of the
  task whose run put it there, and tasks never change (`MarksKeep`). The lemmas `UploadOrderIs`, `VerifyOrderIs` and their like compute
  `After` on the four step orders once.
* `AccessProofs!RightsAreCurrent`, `SessionsEnd`, `AccessTypeCorrect`, from one invariant: `TokensTimely` (no
  token outlives its lifetime counted from when its user last got tokens), `Justified` (the roles a user
  has are seen while his call runs, and the caller's role is one of them) and `InTime`
  (a call or refresh began within its token's lifetime of that instant), which is `SessionsEnd`.
* `ShareLinksProofs!LinksTypeCorrect`, `CountStaysWithinLimit` (any overlap). `LimitInv`: stored, loaded and copied counts
  are all within the limit; a write only ever picks one of them. `DownloadsAreCharged` and
  `RevocationCloses` use `ChargeInv`, for links without overlap: `Alone` (one request at a time),
  `Fresh` (its copy is the row it read, plus its change), `Charged` (a download to be answered is
  already counted) and `Closed` (a revoked link has no download in progress). `CapIsKept`, the refinement: a step
  is about one link, the accounts of others stay (`OneAccount`), overlap is a `Loosen` (`CapLoosens`), and without
  overlap `Fresh` says that a store finds the row it read, open if the request is a download, so that it is
  one `Charge`, a `Close` or nothing (`StoreCaps`). `CapHoldsAlone`: the README's cap without overlap.
* `AuditChainProofs!NoLinkDangles` (any overlap). `ChainInv`: `Anchored` (events name `GENESIS` or an
  earlier event), `WriterOK` (so does every hash a writer carries, and the event it names began
  before the writer's own insertion) and `TimesPast` (no event is later than the clock). `ChainsAreLinked` adds, for resources without
  overlap, that one writer is on the resource, that the hash it carries is current, and that it hangs
  at the tip (`LinkInv`). `BreaksExplained` (any overlap, any number of events read): every stored hash
  was computed from its event's own link and some payload (`Hashed`), so recomputing it from the two other
  columns fails exactly where the payload is no longer that one. `ChainTypeCorrect` is the type invariant.

Only model-checked. Liveness under fairness is out of the prover's reach: `FlagSettles`,
`ExposureReported`, `EligibleReported`. The constants' small values in these runs are the
only evidence for them.

## 6. Not modelled, and noticed on the way

Not modelled yet: the signature endpoint, which stores a record as the last transaction of a request
(its task is in `ContentStore`), and ingestion and the consistency check, which only count and log.
Not modelled on purpose: lists and paging, which read one page; HTTP routing and validation, the
exception handlers, middleware, metrics, logging, configuration, the container: they keep no state the
properties could tell apart. The connection pool: a request waits for a connection for its one current
transaction only, so requests cannot wait for one another in a circle. The Redis cache and its blocklist
have no caller. A change of the token key, which ends all sessions at once. Library code (CMS parsing, Fernet,
bcrypt, PASETO, MinIO) is seen only through its results.

Noticed while reading, without a run of their own:

* A download that overlaps a revocation writes `revoked_at = NULL` back (`repositories/__init__.py:97`)
  and the link opens again. `RevokedStaysClosed` excepts overlap for this reason.
* `privileged_purge` skips the retention check in both modes (`document_service.py:236`), while
  `value_objects/__init__.py:32` says of COMPLIANCE "nobody can delete before expiry".
  `DeletionRespectsRetention` excepts purges.
* Placing or releasing a hold and applying a policy write no audit event, against README:15.
* An event whose payload JSONB rewrites is reported as broken though nobody touched it:
  `BreaksOnlyOnRewriting` says precisely when.
* A failed upload can be deleted and restored: restore makes any DELETED document ACTIVE
  (`document_service.py:254-264`), so it turns up ACTIVE with nothing to download. With the key column as it
  is this may happen to every document; `EmptyActiveTold` says that it happens in no other way.
* A watermarked copy may bear no text at all, or have pages twice, once with it and once without
  (`apply_watermark_task.py:102-111`); it is stored and reported all the same. `MarksFaithful` claims only
  that it bears no wrong text.
* A document stays flagged if a release is refused at its second read because the hold belonged to
  another tenant's document (`legal_holds.py:97`): `partial` in `FlagJustified`.
* The password of a share link is stored and never read; the raw token is not returned on creation
  (`shares.py:60-82`). Restore asks for ARCHIVIST, README:109 for admin. The token blocklist
  (README:180) has no reader, so a logout ends nothing. `rotate_keys_task` records an event and rewraps no key (README:163). No
  caller enqueues the tasks.
* Deactivating a user ends his calls but not his tokens: they work again when he is activated, and a login
  or refresh whose lookup came before issues new ones (`ActsOnCurrentRights` says that much and no more).
* A request without an Authorization header is answered 422 by FastAPI's required `Header`
  (`deps.py`), where the test of `/me` without a token expects 401.
* A hold placed on a document that is DELETED already makes the monitor report it every half hour; the
  scan reports an expired document every hour as long as it may be deleted, and each report lengthens the
  chain of which verification reads a bounded prefix.
* The gauge of active holds is set for the tenants of the pass only: a tenant whose last hold has ended
  keeps its last value (`legal_hold_monitor_task.py:89`).
* The `total` of a document list is the length of the page.

## 7. Plan

Done: all components modelled as far as section 2 lists them, with proofs of every safety property the
passing runs check. What is left:

1. The end of every task of `ContentStore` under fairness of the workers (TLC), and the signature endpoint
   beside its task.
