# Tomorrowland: verification of the document platform

This directory is a TLA+ development beside the code of this repository. It
models how documents get into the platform and become searchable (the sync
endpoint, the NiFi Kafka consumer, the PostgreSQL job queue, the worker
processes and the search services they write), and what is done with them
afterwards: translation versions, access control, the Meilisearch rollout,
alerts and enrichment, comments and annotations, search and question answering.
TLC checks the models on small instances; TLAPS proves, for every value of the
constants, all the safety properties the runs check.

`PROJECT.json` lists the components, the runs, which lines of the code each
definition stands for, the hazards, and the theorems.

## 1. Inventory of the system

The product is a document search platform: a FastAPI service, a React front
end, PostgreSQL, Elasticsearch, Qdrant, optionally Meilisearch, Ollama and
LibreTranslate, and worker processes sharing the database with the API.

| Component | State | Operations | What makes it hard |
|---|---|---|---|
| Job queue (`pipeline/jobs.py`) | `pipeline_jobs`, `document_payloads` | enqueue, claim, retry, dead-letter, succeed, reap | racing workers and enqueues, transactions that die half-way |
| Worker loops (`runner.py`, `vector_worker.py`, `translation_worker.py`, `index_worker.py`) | one transaction per iteration, or one per process | claim, process, record the outcome, enqueue the next job | crashes, aborted transactions, starvation |
| Document processing (`pipeline/worker.py`, `search/qdrant.py`) | `documents.status`, search entries | extract, translate, index, attachments | transactional and non-transactional writes mixed, swallowed errors |
| Documents (`documents/repository.py`) | documents, version families, translation versions | create, update, read | check-then-insert, two SQL dialects |
| Sync (`api/routers/admin/ingestion.py`) | one transaction per request | walk a source, create, enqueue, record the outcome | partial failure inside a transaction |
| NiFi consumer (`pipeline/kafka_consumer.py`) | Kafka offset, documents, `dlq` | poll, create, process, commit, route | redelivery, rebalances, crashes between the steps |
| Connectors (`connectors/`) | none, temporary files | enumerate and download | life time of downloaded files |
| Translation versions (`slow_worker.py`, `api/routers/documents.py`, `preview/service.py`) | `document_translation_versions`, `documents.translation_quality`, `document_views` | request, view, automatic enrichment, complete, run | numbers computed from a read, four writers of one row, lock cycles |
| Users, groups and grants (`auth/`, `permissions/enforcer.py`, `admin/users.py`, `admin/sources.py`) | users, memberships, nested groups, grants, tokens | log in, change, effective groups, filter of a search | check then insert, a set replaced by two requests or logins, stale copies in tokens and indexes |
| Meilisearch rollout (`search/meili_*.py`) | live and shadow index, task queue | index, backfill, swap, drop | paging over a moving set, tasks that fail unseen, stale checksums |
| Chunking (`chunking/splitter.py`) | none | `chunk_text` | boundaries |
| Search, question answering, related documents (`api/routers/search.py`, `hybrid.py`, `rag/`, `related/`) | none of their own | ask two indexes, fuse, filter, read rows | indexes, rows and families read at different times; a failing index |
| Alerts (`alerts/`) | subscriptions, notifications | subscribe, match, read | upserts of two requests, an aborted transaction, lock cycles |
| Intelligence (`intelligence/`) | summaries, entities, tags, and their copy in Elasticsearch | summarize, extract, tag | a service written before the transaction that justifies it commits |
| Comments, annotations | rows of their own | create, edit, delete, list | the check and the write are two statements |
| Extraction, clients of the models, DLQ administration, metrics, readiness, front end, migrations | little | stateless | little, see section 6 |

Interaction: `sync_now` writes a document, its family and a `process_document`
job in one transaction. A pipeline worker claims the job, writes
Elasticsearch and Qdrant directly and the document's status in its transaction,
and enqueues a `vector_index_document` job; a vector worker claims that one.
The Kafka consumer creates documents and runs the pipeline itself. The worker
that finishes a document also writes a translation version of it, which a
reader's request may have created before. Grants of a source are copied into
the indexes when a document is indexed, group memberships into a token at
login; a search compares the two copies. Alerts and intelligence run inside an
administrator's request, on rows and on the Elasticsearch document the pipeline
wrote. A search reads the indexes first and the database afterwards.

What must hold, per component: claims are exclusive and an attempt is atomic
(queue); a status is never better or worse than the indexes and jobs behind it
(processing); a document never exists without the job that drives it, and its
family names exactly one latest version (sync, documents); an event is neither
lost nor processed twice (consumer); version numbers are dense, a shown
translation is not taken back, nobody waits for ever (translation versions); the
group graph stays free of cycles, a membership is what was asked for, search and
preview agree (access); the index that goes live is complete (rollout); chunks
hold every word (chunking); a superseded version is not shown as the latest, the
prompt fits (search, QA); a match reaches its subscriber, the entry follows the
tables (alerts, intelligence); edits compose (comments, annotations).

## 2. Modules

| Module | Models | Built on |
|---|---|---|
| `PipelineQueue` | `jobs.py` and the four worker loops, one action per SQL statement that matters | |
| `PipelineQueueHistory` | the same with the number of claims per job | `PipelineQueue` |
| `JobLifecycle` | abstract: a job is attempted atomically | |
| `PipelineQueueRefinement` | `PipelineQueue` implements `JobLifecycle` | both |
| `PipelineIndexing` | what a job does to the document, the search services and attachments | `PipelineQueue` |
| `SourceSync` | `sync_now`, `DocumentRepository.create`, version families | |
| `KafkaDrain` | `NiFiKafkaDrain` and its broker | |
| `TranslationVersions` | requests, views, runner and slow worker on one document's versions | |
| `AccessControl` | users, nested groups, grants, tokens, indexed groups | |
| `MeiliBackfill` | backfill command, task queue, swap and drop beside live indexing | |
| `Enrichment` | alert matching and intelligence | |
| `Collaboration` | comments and annotations | |
| `Chunking` | `chunk_text` | |
| `Retrieval` | one search, question or related-documents request | |
| `PipelineQueueProofs` | theorems about the queue, its history and its refinement; about documents and indexes | these four |
| `SourceSyncProofs`, `KafkaDrainProofs`, `TranslationVersionsProofs`, `AccessControlProofs`, `MeiliBackfillProofs` | theorems about one module each | that module |
| `WorkspaceProofs` | theorems about edits, alerts and enrichment | `Collaboration`, `Enrichment` |
| `RetrievalProofs` | theorems about search results and chunks | `Retrieval`, `Chunking` |
| `MC...` | constants and symmetry of the TLC instances; `MCWorkspace` and `MCRetrieval` put two modules that share no state into one instance | |

**Transactions.** Production runs PostgreSQL in READ COMMITTED. `writes[w]` is
the overlay of rows a worker's transaction has written: other workers read the
committed `jobs`, a written row is a locked row, commit copies the overlay,
rollback drops it. A failed statement aborts the transaction: its writes and
locks are gone at once, but the process only notices at its next statement and,
in the stages whose exceptions are swallowed, goes on until then. In the model
`pc[w] = "aborted"` is that interval. The INSERT behind the partial unique index
waits while another open transaction holds a conflicting entry (`ConflictOpen`).

**PipelineQueue.** `Claim` is the SELECT ... FOR UPDATE SKIP LOCKED of
`claim_next` with its UPDATE, `WorkSucceeds`/`WorkFails` the outcome, 
`EnqueueSelect`/`EnqueueInsert` the two statements of `enqueue_document`, `Commit`,
`NothingToClaim` and `Rollback` the ends of an iteration. The pipeline worker
claims every job type, as `run_once` passes no `job_types`. A job id stands for
the row's uuid and its `created_at`. Backoff and lock age are Booleans (`due`,
`stale`), set by `BackoffElapses` and `LockAges`.

**PipelineIndexing** adds the stages of `PipelineWorker._run` and
`run_vector_once`: the Elasticsearch entry, the delete and the upsert of
`upsert_chunks`, the status row in the worker's transaction, and the child
document of an attachment. The points of a document are abstracted to the
families of chunk ids that name their writer and language. The Meilisearch
write is in `MeiliBackfill`, intelligence and alerts in `Enrichment`; here an error
in their SQL is `DatabaseError`.

**SourceSync** walks a source inside one transaction. The dialect is chosen in
`Init` because the code behaves differently on the two databases it runs on:
`is_latest = 0` is an error on PostgreSQL's BOOLEAN and works on the SQLite of
the test suite.

**KafkaDrain** is one partition with consumers of one group. The consumer's
position belongs to the client object, the committed offset to the group.

**TranslationVersions** has, like `PipelineQueue`, an overlay `tx[p]` per open
transaction and one action per statement. Row locks and the wait of an INSERT
for another transaction's equal number are explicit (`WaitsFor`, `Granted`),
and so is the cycle in which PostgreSQL aborts one transaction (`AbortDeadlock`).

**AccessControl** keeps the bound of the recursive queries as `Depth`: `Effective`
and `Descendants` look `Depth` levels below their start, like the CTEs. Adding a
child group is a check and an insert; replacing a user's groups, by an administrator
or by the login of a known user of the directory, is the snapshot of the DELETE, its
row locks, and the inserts with the commit. A DELETE removes rows, not groups: `snap`
loses a row when another transaction deletes it, and a row inserted afterwards for the
same group is not in it, so the DELETE leaves it alone, and an INSERT of that group
then violates the primary key (`SetGroupsFails`). A login also locks the row of its
user, and may carry the recreated bootstrap administrator (`boot`). `wanted`, `added`,
`others`, `mixed`, `overlapped` and `stale` are history: what a replacement and the
single additions since it began asked for, what replacements beside it inserted,
whether additions of children overlapped, which grants an index copy has missed.

**MeiliBackfill** queues every write as a task that names its index and is
processed in order. `touched`, `regranted`, `leftover` and `shifted` are history and
are set anew by `StartRun`. A run starts
with the documents in `touched` for which an earlier run has records still in the
queue that are no longer theirs (`Outdated`): the checksums a run compares with are
those of the index, so it skips what a queued task is about to overwrite. Larger
instances than the run's show that the index that goes live is otherwise
incomplete: three runs of one document with three ingests reach it. `leftover` are
the documents of which an earlier run has left a record, in the shadow index or in the
queue, with a chunk or with groups the document no longer has.

**Enrichment** and **Collaboration** share no table, so `MCWorkspace` lets a
behaviour take the steps of one of them while the other stays in its initial
state. Similarity and permission of a subscription are the set of documents it
would match; the text of a summary or tag is the request that wrote it. A row a
transaction has written is locked until its end (`wrote`).

**Chunking** reads the text sentence by sentence: a word is its number, a chunk an
interval. **Retrieval** is one request whose index answers, orders and scores are
chosen among all that the indexed records allow, interleaved with registration
and indexing. `MCRetrieval` runs the two as `MCWorkspace` does its pair.

## 3. Runs

Bounds are the constants of each `.cfg`: sets of workers, documents and job ids,
`MaxAttempts = 2` (one retry and one dead letter, the smallest value with both;
the code's default is 5), and `MaxFaults`, which bounds crashes, aborted
transactions and failing calls, anywhere in the behaviour. Deadlock checking is
off: when all jobs are done, or the bound on faults or edits is reached, the
models stop as the system does.

| Run | Shows | Bounds |
|---|---|---|
| `queue_safety` | type invariant; exclusive claims; "running" is never committed; success and its follow-up together; attempts accounting; every uncounted claim is paid for by a fault; `JobLifecycle` implemented | 2 documents, 2 pipeline workers, 1 vector worker, 5 job ids, 2 faults, symmetry of replicas and documents |
| `queue_mixed` | one active job per document and type, with all four loops, two of them in one endless transaction | 1 document, one worker of each kind, 6 job ids, 2 faults |
| `indexing` | indexed implies searchable; pending implies queued, dead-lettered implies failed; points of one writer; children with their parent's success; every document settles | 1 document with or without attachments, 2 pipeline workers, 1 vector worker, 2 faults, outages of encoder and Qdrant |
| `sync` | consistent version families; no document without job or DLQ row; a reported success stored everything | 2 requests, 2 items, 2 contents, 3 edits (enough to go back to an old content), 1 fault, both dialects |
| `drain` | committed offsets are accounted for; no document processed twice; the partition is handled to its end | 2 consumers, 4 events with a duplicate and a rejected one, 3 faults |
| `versions` | dense version numbers; a queued document has a request that is not completed; a shown translation stays shown; every transaction ends | 1 request, 1 viewer, 1 runner and 1 slow worker at a time, each as often as 3 versions allow, threshold 1, 1 fault |
| `access` | no cycle the check can see; all groups last requested, and no others but those of overlapping replacements; search and preview agree up to stale grants | 2 requests of several steps, 1 indexing worker, 2 users (one the bootstrap administrator), 3 groups, depth 1, 3 changes, symmetry |
| `workspace` | a match has its notification; the entry follows the tables; edits compose | 2 documents, 2 subscriptions, 2 requests, 1 entity, 3 edits, 1 fault; 3 people with a moderator, 1 comment, 1 annotation, 2 of 4 requests at once |
| `backfill` | the index that goes live is complete and has no other chunk and no other groups, but for the exceptions the property names; a run ends | 2 documents with texts of one or two chunks, 2 groups of which the second is only ever granted later (`OneGroup`), 1 worker, pages and batches of 1, 2 runs, 1 ingest or change of a grant, 1 fault |
| `retrieval` | no superseded version in a search, unless asked for; "older" names a newer version; the prompt fits; chunks cover the text | 2 documents of one family, 2 results per index, pages of 1, chunks of at most 3 words, 7 words of context, 4 changes; texts of 10 words in sentences of up to 5, overlap 2 |

Five job ids are one more than two documents need (two jobs each), so that a
wrong extra job would show; six in `queue_mixed` for the same reason. Two faults
suffice for a fault during the recovery from another. Three versions are one from
the worker and two more that race for a number. Depth 1 with 3 groups makes a
chain longer than the bound possible, as 12 groups do in the deployed system. Three
changes are two replacements that overlap and one addition, removal or deletion, or
the user's creation with the groups both then replace.
Pages of one make every document a page boundary. Sentences of five words exceed
a chunk of three with an overlap of two, so that hard cuts follow each other.

Two runs show a place where a document or comment of the repository says one
thing and the code does another; both are quoted under "findings":

| Run | Disagreement |
|---|---|
| `indexed_stays` | the pipeline worker claims vector jobs, runs the whole pipeline again, and a failure then marks an indexed document failed |
| `sync_changed_file` | on PostgreSQL a changed file makes the whole sync request fail |

More promises the code does not keep are stated in the modules; adding the
definition to the `.cfg` named shows the trace.

| Definition | Promise and behaviour | To see it |
|---|---|---|
| `PipelineIndexing!BothLanguages` | `worker.py:218-219` writes translated chunks; the vector job (`vector_worker.py:104`) deletes them | INVARIANT in `indexed_stays.cfg` |
| `PipelineIndexing!EveryJobFinishes` | a second run of a document with attachments aborts its transaction on PostgreSQL each time; the job is retried for ever without being counted | PROPERTY under `IFairSpec` in `indexed_stays.cfg`, `VectorWorkers = {}` |
| `SourceSync!QueuedIsReadable` | `release-notes-rc.md:106` lists SMB as supported; the downloaded file is unlinked before a worker can read it | INVARIANT in `sync_changed_file.cfg`, `Connectors = {"smb"}` |
| `KafkaDrain!CommittedAfterOutcome` | `phase-09a-nifi-integration.md:82`; after a crash between insert and processing, the redelivered event is committed unprocessed | INVARIANT in `drain.cfg` |
| `TranslationVersions!OneManualPending` | `phase-05c-translation-versions.md:103`; two concurrent requests both find none pending | INVARIANT in `versions.cfg`, `Requesters = {r1, r2}` |
| `AccessControl!ReplacedEntirely` | `auth/repository.py:108` says the groups are replaced; two replacements that overlap leave both lists, since neither DELETE sees the other's rows | INVARIANT in `access.cfg` |
| `MeiliBackfill!SafeToRerun` | `meili_backfill.py:174-176` calls the command idempotent and safe to run again; the second run skips a chunk whose groups have changed since the first, and removes none | INVARIANT in `backfill.cfg` |
| `Retrieval!CombinedScore` | the formula in `hybrid.py:18-22`; the scores of all chunks of a document are added | INVARIANT in `retrieval.cfg` |

Deviations seen while modelling, visible in the exceptions the properties name,
without a run of their own: a document that kills its worker is never
dead-lettered, since the attempt is rolled back with the claim
(`ClaimsPaidFor`); a worker with an aborted transaction can process a document
beside the replica that claimed it next (`OneLiveClaim`, `PointsFromOneWriter`);
a drain called again with the same consumer commits past an event whose DLQ
insert failed (`OffsetsAccounted`); a failed sync's recorded state is rolled back
by the exception that reports it (`SourceFails`); the translation and index
workers never commit (`NextIteration`); the child of a failing attachment stays
pending (`FinishedWithChildren`).

Of the components of the later modules:

- *Translation versions.* A request and a runner can deadlock; PostgreSQL
  resolves it. A version the slow worker failed leaves the document
  `pending_high`. The runner completes a pending manual version with the fast
  translation. The slow worker's path for documents without a version sets "high"
  and stores no text. Two viewers at the threshold may both queue an enrichment, or none. Nothing
  starts `SlowWorker`, and nothing sets "canceled". With two slow workers at once
  a shown translation can be taken back (add a worker in `versions.cfg`): both take
  the pending version, and the one that fails marks "failed" what the other has completed.
- *Access.* Two overlapping replacements of a user's groups leave their union, or
  the second fails on a row the first has inserted; a login can be one of them.
  Overlapping additions, or a chain longer than the bound, close a cycle
  (`docs/design/sources-permissions-model.md:161` rules cycles out). An
  administrator's search of Elasticsearch and Qdrant finds nothing, as its group
  filter is empty. Meilisearch filters by the token's own groups. Tokens and index
  copies keep old groups until they expire or the document is indexed again. A
  deleted bootstrap administrator is created again by its next login.
- *Rollout.* A document indexed after its page and before the swap is missing
  from the new index; so is one skipped when another leaves the status "indexed"
  before its page. A run that follows another skips a chunk whose text is unchanged
  though its groups are not, and keeps surplus chunks of a text that got shorter; groups
  that change during a run reach neither index. A failed task of Meilisearch is not
  noticed. Beside records of an earlier run still in the queue,
  `CompleteAfterSwap` leaves no other way.
- *Enrichment.* A duplicate tag or a removed document aborts the transaction; the
  error is swallowed, the COMMIT rolls back, Elasticsearch keeps the change, and the
  response says the task was triggered. Row locks are held while models are called,
  and two requests that match in different orders deadlock. Frequencies count
  runs. Indexing again empties summary and tags of the entry.
- *Search.* The filter for latest versions comes after the limit of each index, so
  older versions displace later ones (`docs/implementation/document-versioning.md`).
  Question answering and related documents have no such filter. An answer cites
  every retrieved chunk though the prompt holds the first ones. A new version hides
  the old one before it is indexed. A failing Meilisearch fails a search that a
  failing Elasticsearch only degrades.
- *Collaboration.* An edit that races a deletion returns 200.

## 4. Fairness

The loops catch every exception, sleep for a bounded time and go on, containers
are restarted (`restart: unless-stopped`), and every external call has a
timeout. So a worker that can take a step takes one: `WF(WorkerStep(w))`, not
fairness per action, since nothing makes a document succeed rather than fail.
Clocks move: weak fairness of `BackoffElapses` and `LockAges`. Faults are never
fair. `KafkaDrain` assumes that a consumer with an event to handle handles it and
that a caller whose drain raised starts over.

`TranslationVersions` is strongly fair per process: a statement that waits for a
lock is disabled again whenever another transaction takes the lock, but
PostgreSQL queues waiting transactions, so a later one does not overtake it
for ever. The abort of a deadlock is weakly fair: `deadlock_timeout` runs out.
Nothing makes a request or a view happen. `MeiliBackfill` assumes weak fairness of
the command's steps only, as it runs in a process of its own; nothing forces
Meilisearch, a worker or the operator to act.

## 5. Proofs

Each theorem holds for any sets of documents, workers, requests and so on, and for
every value of the bounds, from the ASSUMEs of its module: that the kinds of
processes are disjoint, that a placeholder (`None`, `NoRow`, `Unset`) is not one of the
values it stands beside, that bounds are numbers, that sets that are counted are
finite, and that one chunk with its title fits the context. Two hypotheses go
beyond that, both named below: `Deployed`, and the single slow worker of
`TranslationStaysShownHolds`. Each proof follows one pattern: an invariant stronger than
the property, shown to hold initially and to survive every action, one lemma or
step per action.
None of the properties is inductive by itself; the rest of this section says what had to be added.

**The queue** (`PipelineQueueProofs`, first part). `TypeCorrect`, `OneLiveClaimHolds`,
`ActiveUniqueHolds` and `SuccessHasFollowUpHolds` are about workers of all four kinds.
`IInv == TypeOK /\ Shape /\ Locks` adds that a worker between claim and commit has
written the row it holds and that an aborted transaction has written nothing
(`Shape`), and that no two transactions have written one row (`Locks`): two live
claims on a row would be two writers of it. `ActiveUnique` needs `UInv`, since an
insert must not meet a row that is about to become visible: no two versions of
different rows, committed or written by an open transaction, are active for one
document and type (`NoClash`); a row keeps its document and type, and a row not yet
committed is a follow-up (`SameJob`); a worker finishes only rows of the types it
claims (`OwnFinished`, `WorkRuns`), which are never the type it inserts. The last two
are why the uniqueness test of the INSERT, made on what the worker sees, is enough:
the SELECT of `enqueue_document` may be stale. `SuccessHasFollowUp` adds that a
transaction about to commit a success of `process_document` sees the vector job, its
own or a committed one (`ChainSeen`), and that no commit takes a row away (`RowsStay`);
by `UInv` such a success is always the row `run_once` holds (`OnlyRunOnce`).

`RunningNeverCommittedHolds`, `AttemptsAccountHolds`, `ImplementsLifecycleHolds` and
`ClaimsPaidForHolds` have the hypothesis `Deployed`: no translation and index workers, as
in `docker-compose.yml`, which starts pipeline and vector workers only. The first two are
false without it, as their INVARIANTs in `queue_mixed.cfg` show: an interrupted long
loop commits the claim of the job it was working on, and when the reaper makes that row
pending again it keeps its attempt. The other two say of the table what holds when
claim and outcome are one transaction. `AInv` says what an open transaction has
written (`Attempting`): the row of the job it holds, one
attempt later than the queued and due row of the table, and after a success at most
one more, the follow-up, without which it reaches no commit. From it follows the
refinement: a commit is one step of `JobLifecycle`, an attempt with its outcome, and
every other step of a worker is a stutter. `ClaimsPaidFor` adds to `AInv` the history
variable and counts the workers that hold a job with the cardinality theorems of
the library: a claim is paid for by the worker that holds it, at commit by the
row's attempt, and at an abort or crash by the fault.

**Documents and indexes** (`PipelineQueueProofs`, second part). Five theorems of `ISpec`,
also under `Deployed`, the workers `PipelineIndexing` models.
`IndexingInv == ITypeOK /\ QueueInv /\ DocsInv /\ PointsInv` reuses `AInv`, as every step of
this module is a step of `PipelineQueue` or leaves the queue alone, but for the
unique violation on a child document (`ChildrenClash`), which aborts the transaction
and is proved separately. `StatusLocal`, `TextLocal` and `CreatedLocal` relate what a
transaction has written of its document's status and children to the outcome in
the job's row: an "indexed" is written only behind the Elasticsearch entry, which is
never removed, a row that ends "succeeded" has its document "indexed" and one that
ends otherwise "failed". For `PointsFromOneWriter`, no two live workers are between the
delete and the upsert of one document, and without faults a worker is aborted only
when it has done both.

**Sync** (`SourceSyncProofs`). `SyncTypeCorrect` needs the count of failures bounded by
the items visited (`CountInv`). `EveryDocumentQueued` and the action property
`SuccessStoresAll` have invariants about the writes of one request (`QueuedInv`,
`StoredInv`). `FamilyConsistent` has the longest argument: `ViewInv` states it of the
tables and of what each request sees, with the one exception of a family that
already points to the document about to be stored (`Awaiting`); `WritesInv` and
`SqliteInv` say which rows a request has written, at whose snapshot, and that SQLite's
writers exclude each other. The commit of one request must keep what every other sees consistent.

**Consumer** (`KafkaDrainProofs`). Every event a consumer has polled, but the one in its
hands, is accounted for (`PolledAccounted`), and the statement it has reached tells what
is known of that one (`StatementKnows`), so a commit covers accounted events only. For `RunOnce` a document is inserted once, by the
consumer that then runs it, and nobody else is about to (`OneRunner`).

**Translation versions** (`TranslationVersionsProofs`). For `NumbersDense`: a row inserted
and not yet committed has the next number and there is at most one (`NextInserted`),
the number a transaction has read is at most the next (`NumberRead`), and an open
transaction has a row left to insert (`Budget`, which makes the model's `Room` right).
For `QueuedHasRequest`: a transaction that queues the document has written an
unfinished request and completes none, and one that completes a version takes the
document off the queue in the same transaction (`QueueLocal`); both write the document's
row, whose lock orders them. `TranslationStaysShownHolds` assumes one slow worker: section 3
says what two of them do. `TextInv` relates texts, payloads and statuses of committed and
written rows, and says that nobody has written over, or chosen to fail, an available
version the document shows without a payload to fall back to (`Kept`).

**Access** (`AccessControlProofs`). `AccessInv` adds to the type invariant what a request of
several steps is about (`RequestLocal`), and that at most one login is about to create
the bootstrap administrator. `GroupsAsRequested` has the invariant `RequestedInv`: for
every request that replaces a user's groups, the rows its snapshot has seen and that
are left, the single additions since, and the rows of other replacements make up the
user's rows, and no row it has seen counts as added since (`Tells`).
So what its commit leaves beside its own list is in `added` or `others`. For `SearchMatchesAccess`, a copy of a source's groups differs from them by
groups granted or revoked since it was read (`CopyInv`). For `NoVisibleCycle` the query
comes first: `Below` is recursive over the depth, and that the values it stands for
exist (`UnfoldsExists`) and are the ends of walks (`DescendantsWalk`) is shown with a least
counterexample, not with an induction theorem. `CycleInv` says that a request which has
passed the check read edges without a walk from child to parent (`Checked`), and that no
walk of at most `Depth + 1` steps is closed, unless additions overlapped. A closed walk
through the new edge contains one from its child to its parent that does not use it, at
least a step shorter (`NewCycle`), and that one the check would have seen.

**Alerts, enrichment, edits** (`WorkspaceProofs`). The theorems are of
`EnrichmentSpec` and `CollaborationSpec`; a step of `MCWorkspace` is a step of one and a
stutter of the other. `MatchDelivers`: each subscription a matching request has found
is still on its list, has a committed notification, or one in its own transaction
(`MatchLocal`). `EntryFollowsTables`: the row lock on the summary lets one request at a
time write the entry of a document (`OneHolder`), and the entry shows that request's
values from the write on (`EntryState`). `EditsCompose`: fields as last named (`EditInv`).

**Search and chunks** (`RetrievalProofs`). Rows keep family and number and are never
made latest again (`RowKept`), the current version has the highest number of its
family (`CurrentIsHighest`); so what the first read saw is still true enough at the
second (`SeenInv`). `ChunksCoverText`: where the current chunk begins and that it holds
more than the words kept (`CurrentFollows`), that the words read end a sentence
(`EndsKnown`); `FlushKeeps` serves the three actions that flush. `ContextFits` needs that Qdrant holds and
answers finitely many chunks, none larger than a chunk may be (`PointsInv`, `VectorsInv`),
so that the passages that fit have a largest number (`MostPassages`). The words of a
prompt are a recursive sum over a set: sums with the same summands are choices of the
same function (`SameSum`), and a sum of one is computed (`SumOfOne`). A step of `MCRetrieval`
is a step of `RSpec` or `ChunkSpec` and a stutter of the other.

**Rollout** (`MeiliBackfillProofs`). `CompleteAfterSwapHolds` for any documents, texts,
groups, workers, page and batch sizes and number of runs. The arguments are these.
Everything queued for the shadow index is of the current text of its document as
long as nobody has touched it (`QueuedInv`, from what the command and the pipeline
have read, `ReadInv`), so a task that replaces a record of an untouched document
replaces it by its equal. The swap waits behind every task for the shadow index, and
what is queued behind it concerns touched documents (`StageInv`).
Paging by OFFSET passes over no document while none leaves the status: the rank of
an indexed document among the indexed ones leaves no gap and never shrinks, and a
page holds the ranks behind its offset (`ProgressInv`, with the cardinality theorems).
Every record in the shadow index, in the queue for it, or about to be sent has a chunk
its document has, with its groups, or the document is one the property excuses: touched,
granted anew, or left with an unfit record by an earlier run (`GroupsInv`).
After the swap the live index holds them and keeps them (`LiveInv`). A failed
statement or a document that leaves the status ends the claim (`failed`, `shifted`),
as in the property itself.

Only model-checked is liveness (`DocumentsSettle`, `EveryEventHandled`, `TransactionsEnd`,
`RunEnds`): it rests on fairness, which is out of the prover's reach.

## 6. Not modelled

Extraction, translation, embedding and language models succeed or raise; their
results are data no property reads. Message wording, metrics, logging and
configuration are left out, and so are listings and other read-only requests that
no property is about (version history, activity, expertise, health, readiness).
`document_payloads` is read by workers but no property distinguishes its content.
A retry of a DLQ row is one UPDATE of the row's own status and starts nothing, so
there is no behaviour to model. The front end is a client without state the
backend relies on. Attachments of attachments run as attachments do, one level
deeper. `MeiliSearchProvider.patch_translations` and the removals have no caller.
Wire formats, signatures, password hashes, LDAP and the protocols of the
connectors are I/O.

## 7. Plan

1. Done: the queue, its abstraction, indexing, sync, the Kafka consumer;
   translation versions, access control, rollout, enrichment, collaboration,
   chunking, retrieval; the theorems of section 5.
2. Open: no safety property of a run is left without a theorem. The liveness
   properties stay with TLC; a larger instance of each is the way to say more.
