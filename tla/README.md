# TLA+ models of the document chat platform

The platform (FastAPI, SQLAlchemy, Postgres with pgvector) lets administrators
upload files to a workspace, indexes them in a background worker of the same
process, and answers questions from the indexed passages. These modules model
what can go wrong between its requests, its worker loops and its database rows.
TLC checks them on small instances; TLAPS proves the theorems listed below for
every value of the constants.

    tlc -config JobQueue.cfg JobQueue.tla
    tlc -config IngestOneLoop.cfg MCIngestion.tla
    tlapm IngestionProofs.tla

PROJECT.json lists the components, runs, mutated definitions, findings, hazards
and theorems, and maps every definition to the lines it stands for.

## 1. The system

### Components, state and operations

| Component | State it keeps | Operations | Source |
|---|---|---|---|
| Job queue | `ingest_jobs`: status, attempts, heartbeat, checkpoint | enqueue, claim, update_progress, heartbeat, finish, release, reclaim_stalled | `app/workers/queue.py`, `app/models/ingest_job.py` |
| Worker loops | one task per loop, one heartbeat task per run, one sweep task | worker_loop, process, reclaim_loop, WorkerPool.start/stop | `app/workers/worker.py` |
| Ingestion pipeline | `documents.status`, `chunks` and their embeddings | run_job: parse, profile, chunk, embed, ready | `app/pipeline/ingest.py`, `embedding.py`, `persist.py` |
| Uploads and documents | `documents`, `stored_files` | intake_upload, delete_document, listing | `app/pipeline/intake.py`, `app/api/documents.py` |
| Workspaces | `workspaces` | create, list, delete, reindex | `app/api/workspaces.py` |
| Profiles | `documents.profile`, `workspaces.profile` | merge on ingestion, rebuild on deletion | `app/pipeline/profiling.py`, `persist.py` |
| Chunking | none (pure) | blocks to chunks, packing, overlap, numbered procedures | `app/pipeline/chunking.py`, `splitting.py`, `procedures.py`, `contextualise.py` |
| Retrieval and answering | none | hybrid search (two rankings, fused), citations | `app/implementations/pgvector_store.py`, `app/pipeline/answering.py` |
| Conversation | `chat_messages` | chat, search, history, clear, canned replies | `app/api/chat.py`, `app/pipeline/conversation.py` |
| Accounts and sessions | `users`, `sessions` | login, logout, first user, roles, expiry | `app/api/auth.py`, `app/api/deps.py` |
| Provider calls | the interactive mark of a task | retry with backoff, rate limits, interactive mode | `app/implementations/retry.py`, `gemini_*.py` |
| Browser client | the open workspace and its detail, one poll timer, the page | routes, refresh, upload, ask, history, clear, delete | `app/static` |
| File store, parsers, configuration, migrations | stored bytes; none otherwise | put/get/delete; parse | `app/implementations`, `alembic` |

### How they interact

A request handler runs in one database transaction (`get_session` commits or
rolls back once, at the end). An upload writes the `documents` row, the stored
bytes and a job row together. A worker loop polls `claim`, one `UPDATE` with
`FOR UPDATE SKIP LOCKED`, and then runs the job in a **sequence of separate
transactions**: progress on the job, status on the document, profile, chunks,
each embedding batch, ready, finish. On any exception it releases the job,
reads its status back and marks the document failed if the job is out of
attempts: three more transactions. A heartbeat task beats every 15 seconds
while the run is on; a sweep returns jobs whose heartbeat is older than
`job_timeout_seconds`, and start-up returns every running job. Search reads the
`chunks` of documents whose status is `ready`. Nothing but rows connects
requests, loops and searches; deletion reaches everything by `ON DELETE CASCADE`.

A question is answered outside the transaction of its request: the session is
touched in one, the workspace looked up in another, the provider called in none,
the exchange saved in a last one before the response goes out. Provider calls of
questions and of ingestion runs share a process and a quota; a context variable
tells them apart. In the browser everything is written into one page, each
handler up to its next `await`.

### What is hard

* Between any two transactions of a run come other uploads of the same file, a
  reindex, deletions, another loop, the sweep and a crash; every write of a run
  is unconditional (by id), and nothing tells a run it was overtaken.
* A job's checkpoint (`chunks_written`) is believed on the next attempt, whatever
  happened to the chunks meanwhile.
* Two jobs of one document may be queued (upload, re-upload, reindex), and with
  `WORKER_CONCURRENCY` above 1 they run at the same time.
* `attempts` is charged by claim but limited only by release: the sweep and the
  restart requeue without looking at it.
* A failing call after `release` (status read, failed mark) is only logged.
* The workspace profile is maintained incrementally, from deltas computed
  outside the transaction that applies them.
* Which row an upload belongs to is decided by two lookups without a lock.
* Stores and deletions take a document's row before the workspace's; a reindex and
  a workspace deletion take them the other way round.
* A session, a workspace or a conversation can go while a question is answered;
  a restart can come with sign-in turned on or off.
* A quota error is waited out by background work and refused to a person.
* An answer can reach the page after the workspace it is for was left.
* Overlap, repeated headers and separators add to a chunk what was not measured.

### What makes each component correct

* **Job queue**: one loop per job; an attempt per start, bounded; final states
  are final; every job settles.
* **Pipeline**: a ready document is completely embedded; the newest job has the
  last word; failures show; accepted uploads become searchable; retries keep
  what was embedded; it behaves as the queue.
* **Uploads**: one row per file and workspace, versions grow, identical content
  is not indexed twice.
* **Profiles**: the workspace's counts are those of its documents' profiles.
* **Chunking**: chunks stay within the token budget, text is neither lost nor
  reordered, procedures are kept whole when they fit.
* **Retrieval**: only ready documents; fusion is monotone in both ranks.
* **Row locks**: stores and deletions never wait in a cycle; a cycle with a bulk
  request ends with a failure of one of them.
* **Conversation**: the history holds exactly the answers that went out; every
  question ends.
* **Sessions**: a session signed out or expired never comes back; someone can sign
  in.
* **Provider calls**: bounded attempts; a person waits shortly, background work
  until its attempts are used up.
* **Browser client**: only the open workspace is painted; work in progress is
  polled; the question form is freed.

## 2. Modules

| Module | Models | Rests on |
|---|---|---|
| `QueueRows` | the rows of `ingest_jobs` and the SET and WHERE clauses of `queue.py`, as operators on records | |
| `JobQueue` | the queue under loops, sweep, crash and restart: the abstract specification of the two below it | `QueueRows` |
| `Ingestion` | requests and the run of a job, one action per transaction; `Queue == INSTANCE JobQueue WITH ...` is the refinement | `QueueRows`, `JobQueue` |
| `MCIngestion` | the constants of Ingestion's runs | `Ingestion` |
| `WorkspaceProfile` | the vocabulary of a workspace: `store_document_profile` and `delete_document`, statement by statement | |
| `WorkspaceLocks` | the row locks of `WorkspaceProfile`'s transactions together with a reindex and a workspace deletion; deadlocks and their victims | `WorkspaceProfile` |
| `Intake` | `intake_upload`, statement by statement, and what a run of the worker does to its rows | |
| `Backoff` | `retry.py`: `with_backoff`, rate limits, `interactive` | |
| `Accounts` | `auth.py`, `deps.py`: sign-in, sessions, first user, principals, roles | |
| `Chat` | `chat.py` and `answering.py` on top of both, next to background calls | `Accounts`, `Backoff` |
| `Procedures`, `Splitting` | `procedures.py`, `splitting.py`: operators on texts | |
| `Chunker` | `chunking.py`, one action per step of its loop | `Procedures`, `Splitting` |
| `MCChunker` | the documents the Chunker run enumerates | `Chunker` |
| `Client` | `app/static`: the page, its timers and its requests | |
| `JobQueueProofs`, `IngestionProofs`, `IngestionOneLoop`, `WorkspaceProofs`, `IntakeProofs`, `ChatProofs`, `ClientProofs`, `ChunkerProofs` | the theorems of section 5 | the above |

### State and actions against the code

**JobQueue.** `jobs[j]` is a row (status, attempts, heartbeat), `held[w]` the job
a loop is in `process` with. A job is a number in order of `created_at`. Time is
what the sweep's cutoff tells apart: a heartbeat is `fresh` or `stale`. A
heartbeat goes stale (`Lapse`) only when no live run beats it: parsers run in
threads and a beat every 15 seconds is never an hour late. `Crash` is death or
shutdown (`stop` cancels the loops, which leaves rows running either way);
`Restart` is `WorkerPool.start`, whose reclaim runs before the loops do.

**Ingestion.** `docs[d]` is status and version of the stored bytes, `chunks[d]`
one generation of chunks (who wrote it, of which version, which ordinals still
lack an embedding), `wk[w]` a loop's place in `run_job` or `process` and its
locals: the checkpoint it claimed, the version it parsed, the batch it holds.
Each transaction of `run_job` is an action, named after the call it models
(`Advance`/`Mark` are the two transactions of `_advance`; `Count`/`Batch`/`Embed`/
`Progress` are `embed_document`'s loop); `Raise` is an exception from any of them.
`Upload`, `Reindex`, `DeleteDocument` and `DeleteWorkspace` are requests. Two
kinds of writes are *conditional on ids* exactly as in the code: an embedding
batch updates by chunk id and misses replaced chunks; an `UPDATE` of a deleted
row does nothing.

**WorkspaceProfile.** `prof[d]` and `ws` are the committed `profile` columns of a
document and of the workspace; `run[w]` and `del[a]` are a store and a deletion
with their place and what they have read; `lock` holds the workspace's row (`FOR
UPDATE`). A profile is a set of topics (entities and document types are counted
the same way). A store that finds its document gone still merges: the `UPDATE` of
the missing row raises nothing. Under READ COMMITTED a transaction's writes
become visible at its commit, so the commit actions change the rows and the
statements before only the memory.

**Intake.** `rows[d]` is the document row, `file[d]` the stored bytes, `idx[d]` the
bytes whose chunks are there, `req[r]` a request with the row it loaded. Two
properties of the session matter and are modelled: an `UPDATE` carries only the
columns that differ *from the loaded row* (`Changed`), and the two lookups are
separate statements. Chunks deleted and a file put stay locked until the commit
(`ChunksFree`, `FileFree`). The worker is the single default loop with one step
from reading the bytes to writing chunks and status; `Ingestion` has what happens
in between. `overlapped` is a history variable: some properties are promised only
while uploads come one after the other.

**WorkspaceLocks.** A reindex updates document after document and shares the
workspace's row from its first job insert on (the foreign key of `ingest_jobs`);
the deletion of a workspace takes that row and cascades. `Cyclic(P)` are the
processes of `P` on a cycle of waits; `Abort` is PostgreSQL failing one, `Doomed` a
reindex whose document was deleted after it was listed.

**Accounts, Backoff, Chat.** `session[t]` is a session row, `users[n]` an account and
what it can do (`nopass` is the local account, which nobody can sign in to). `Boot`
is `lifespan`: the first user, then the purge. `Touch` is the `UPDATE` of
`last_seen_at`, a step after the lookup. `call[t]` is a provider call with its
attempt and the sleeps for quota a person has spent in it, `marked` the tasks inside
`interactive`. Times are tenths of a second: `retry.py` refuses a person a named
window above `INTERACTIVE_MAX_WAIT` and sleeps for the window *plus* 0.5 to 2 seconds
(`Paddings`).
`req[r].at` is the place of a request; `fate[a]` what the client of ask `a` knows:
`busy` is the 429, `lost` an answer that could not be delivered. A workspace is
`unready` while none of its documents is ready. A restart ends all requests.

**Procedures, Splitting, Chunker.** A text is a sequence of words, each with its
size in tokens, whether it ends a sentence, begins a line, and the number of the
step its line is. `NextBlock`, `Add`, `EmitStandalone`, `Finish` are the parts of
`chunk_blocks`' loop; `ChunkSlides` is the one for decks. The token count is
additive in the model; what joins two texts counts as one token where the code
counts it.

**Client.** `hash` is the route, `workspaceId` and `currentWs` the variables of
`core.js`, `page` what is painted: whose name, whose documents and whether one of
them is being worked on, what the thread shows. `poll` counts the armed timers and
whether `pollTimer` is one of them: `clearTimeout` reaches only the last. `reqs` is
the bag of requests in flight, answered in any order (`Answer`), also by a failure.

## 3. Runs

| Run | Instance | Shows |
|---|---|---|
| `queue` | 2 loops, 2 jobs, 2 attempts, 2 faults | `NoSharedJob`, `AttemptsBounded`, `TerminalIsFinal`, `EveryJobSettles` |
| `ingest_one_loop` | 1 loop, 3 jobs, 1 file, 2 versions, 1 crash | `ReadyIsFullyEmbedded`, `LastWord`, `FailureIsShown`, `UploadIsIndexed`, `KeepsVectors` |
| `ingest_two_loops` | 2 loops, 2 jobs, every kind of fault | `ImplementsQueue` |
| `profile` | 2 runs, 1 deletion, 2 documents, 3 computed profiles | `NeverUnder`, `DeletionIsExact`, `LockInv` |
| `locks` | 1 run, 1 deletion, 1 reindex, 1 workspace deletion, 2 documents | `LocksOK`, `NoCycleWithoutBulk`, `NobodyWaitsForever`, `EveryRequestEnds` |
| `intake` | 2 uploads at once, 3 in all, 2 files, 2 names, 2 rows | `StaleHasJob`, `Converges`; without overlap `StoredIsHashed`, `VersionsGrow` |
| `chat` | 1 request, 1 ingestion run, 2 users, 1 session, 1 workspace, 2 starts | `HistoryIsWhatWasAnswered`, `QuotaWaitIsShort`, `BackgroundIsPatient`, `SignedOutStaysOut`, `EveryAskEnds` |
| `chunker` | every document of up to 4 blocks of 13 shapes, every deck of up to 3 | `NothingIsLost`, `UnderTheCeiling`, `OnlySequencesMerge`, `UnitsAreWhole`, `RowsHaveTheirHeader` |
| `client` | 2 workspaces, 3 requests in flight, 2 timers | `PaintedIsOpen`, `KeepsPolling`, `AskedIsAnswered` |
| `ingest_stale`, `intake_two`, `sign_in` | the smallest instances of each | a statement of the repository that the code does not keep (section 4) |

`TypeOK` is checked in `queue`, `ingest_one_loop`, `profile`, `intake`, `chat` and
`client`.

**Bounds, and why they are enough.** `MaxJobs` bounds uploads plus reindexed
documents: two jobs give every overlap of a run with one newer job, three add a
job queued behind a retry. Two versions of a file are enough for "the wrong
one". Version 1 has two chunks and version 2 one, with `BatchSize` 1: an
interrupted embedding is half done, and the versions differ in what they leave.
`MaxAttempts` 2 separates "retry" from "failed for good". `MaxFaults` bounds
crashes and failing calls after a run (exceptions of the run itself are not
bounded by it, only by attempts). `MaxStores` 3 lets a document be described
again while another's profile is stored, and `MaxUploads` 3 puts a third upload
behind two that overlapped; four are needed for `intake_two`, whose last upload
is the one answered wrongly. One topic, and two names and files, are enough for
"the same" and "another". In `locks` one process of each kind suffices for every
pair of lock orders, and two documents for a cycle among three. In `chat` three
attempts, windows of 8 and 30 seconds and paddings of 0.5 and 2 give a wait that is just
allowed, one that is too long, and the sleep that exceeds what was allowed; two starts
give every change of `AUTH_ENABLED`. In `chunker` the target is
4, the overlap 2 and the ceiling 8 tokens: a block is within the target, above it, or
above the ceiling, and two blocks reach the ceiling; four blocks give a procedure with
a neighbour on both sides. Two of the shapes are spreadsheet rows, which come
atomic from the parser, with no header; one is above the ceiling. The tables have a
header that leaves rows room within the target, or none (it is wider than the target,
so the budget for rows is 1). In `client` three requests allow an opening, its refresh
and its history next to one of another workspace, `MaxPolls` 2 a forgotten timer.
Deadlock checking is off: when all jobs
are settled and no number is left the system rests.

**Fairness.** Every loop keeps polling (`worker_loop` catches everything), so a
claim that stays possible happens: weak fairness of `Claim`. Every call of a
run returns or raises: weak fairness of a loop's `Step`, whose outcome (success or
`Raise`) stays open. For local work and SQL that is what the code does, and retries
are bounded (`retry.py`). For an attempt of a provider call it is an assumption about
the library: `gemini_llm.py:28` and `gemini_embedder.py:38` build `genai.Client` without
a timeout of their own, so an attempt that hangs is ended by the library and its
transport, or by nothing. The process is restarted by its
container, time passes, and the sweep task runs every minute. Requests, faults and
failures are never forced. In `WorkspaceProfile` a statement that waits for a row
lock gets it if the lock keeps being freed (strong fairness): PostgreSQL queues
the waiters. In `WorkspaceLocks` each process has strong fairness of its next
statement, and a cycle of waits eventually has its victim (weak fairness of `Abort`
within a cycle: `deadlock_timeout`). In `Intake` a request that has begun ends, by
commit or rollback. In `Chat` every provider call returns or raises and every
request goes on (the same assumption about the library); which of the outcomes is
open, and the restart is never forced.
`Client` has no fairness: its properties are invariants.

**Mutants.** For every property of a passing run PROJECT.json names a definition
and a plausible bug in it (an operator with a suffix, kept beside the original:
`ReleasedRow_OneTooMany`, `IsOldest_Newest`, ...) for which the property fails.

## 4. What the code does and its texts do not say

Three are `violation` runs whose counterexample is a legal sequence of steps:

* A re-upload does not stop a run that has parsed the old bytes: the run writes
  the old chunks after the upload deleted them and makes the row ready, so search
  answers from the old version until the new job gets there (`ReadyIsCurrent`,
  run `ingest_stale`).
* Two overlapping uploads to one row, one of which retries the bytes it has, can
  leave the row with a hash that is not that of its bytes, and deduplication then
  turns away the file that hash belongs to (`DedupIsTrue`, run `intake_two`).
* A deployment that ran without sign-in and turns it on has no account anyone can
  sign in to: the local account counts as the first user, and its password is
  random (`SomeoneCanSignIn`, run `sign_in`).

The others are stated in the modules, after the properties, and not among the runs; put
in place of the properties of the cfg named, TLC finds each violated:

* A reindex takes every document out of search at once, although its docstring
  says chunks stay searchable until each is replaced (`StaysSearchable`,
  IngestOneLoop.cfg).
* A job whose `release` fails stays `running` until the sweep returns it, and is then
  older than jobs that have run meanwhile. With one loop too, an upload that succeeded
  can then be overwritten by the job before it: the document is marked failed, or its
  vectors are thrown away (`LastWord` and `KeepsVectors`, IngestOneLoop.cfg with
  `"release"` among the faults).
* A document deleted while the LLM describes it is still counted: the `UPDATE` by
  id finds nothing and nothing checks (`CountedIsSaved`, WorkspaceProfile.cfg).
* A document described again, by a retry, a re-upload or a reindex, is counted
  again; nothing rebuilds the vocabulary but a deletion (`NoDrift`,
  WorkspaceProfile.cfg).
* A file that is there but not ready takes the name it is uploaded under, also one
  that another document has; from then on an upload of changed bytes under that
  name fails (`OneRowPerName`, Intake.cfg).
* "Longest a waiting person is kept waiting for a rate limit to clear", says
  `retry.py:101` of `INTERACTIVE_MAX_WAIT`, 8 seconds. The window the provider names is
  compared with it, and then slept for with 0.5 to 2 seconds more (`retry.py:188`): a
  window above 6 seconds can keep a person waiting for up to 10
  (`QuotaWaitIsWithinMaximum`, Chat.cfg). It bounds a call, not a question, which makes
  two: one to embed it and one to answer it. What holds is `QuotaWaitIsShort`.
* "A table always carries its header row, repeated on every part it spans", say
  `src/README.md:97` and `chunking.py:6`. A table between two numbered steps is merged
  into their procedure and is only text in it (`procedures.py:105-116`); when that is
  above the ceiling, the table is cut at sentences (`splitting.py:107-108`), without its
  header on the later parts. A small table of its own is cut the same way when the
  overlap in front of it does not fit with it and both are split (`chunking.py:101`).
  `EveryTableKeepsHeader` in Chunker.cfg shows the first; `RowsHaveTheirHeader` is about
  the tables neither happens to.
* A procedure that fits the ceiling is split all the same if the overlap in front
  of it does not fit with it (`ProcedureIsWhole`, Chunker.cfg).
* `currentWs` is assigned before `openWorkspace` asks whether the workspace is still
  open. Open a, go to b before a's detail is there, and a's late detail becomes
  `currentWs` while b is open: until b's own detail or refresh arrives, the empty
  conversation suggests a's topics and the delete button asks about a
  (`CurrentIsOpen`, Client.cfg).

Met while reading, outside the models: the comment of `procedures.py:21` says an image
does not interrupt a procedure, and the code lets it; question and answer of one
exchange share a `created_at`, the only column `history` orders by; a failing detail
of a workspace that was left sends the browser to the gallery; the files of one
upload go to whichever workspace is open when their turn comes; a history that
arrives after a question was asked removes the question from the page.

## 5. Proofs

Assumptions: `QueueAssumption` and `IngestionAssumption`, evaluated by TLC in every
run: bounds are naturals, at least one attempt, every version has at least one
chunk, the null values are not members of what they are null for.

* `JobQueueProofs!TypeCorrect`, `ExclusiveRuns`, `AttemptsAreBounded`, `Finality`.
  Ownership alone is not inductive: a sweep could requeue a job under a live run.
  `HeldRuns` (a held job is running with a fresh heartbeat, or deleted) excludes
  that, and with it `NoSharedJob` is inductive. The bound on attempts needs an
  attempt *in hand* for every row that can still be claimed: `AttemptLeft` says a
  pending row, or a running row nobody holds, has strictly fewer attempts than
  `MaxAttempts + faults`; a stranded row owes its spare attempt to the fault that
  stranded it.
* `IngestionProofs!TypeCorrect`: typing is inductive only with `RowsInUse`: a loop's
  job and a job's document exist, and a loop past parsing holds a version.
* `IngestionOneLoop!OneLoopReady`: with a single loop, no ready document has a chunk
  without its vector. `ReadyInv` adds what the code relies on silently: a loop
  about to mark ready saw nothing outstanding, and a loop about to replace chunks
  has taken its document out of `ready` first. Requests keep both because none of
  them writes embeddings or makes a document ready; the single loop is needed
  where another loop could do either.
* `IngestionOneLoop!OneLoopLastWord`, `OneLoopFailureIsShown`, `OneLoopKeepsVectors`,
  `OneLoopInOrder`: one inductive invariant, `OneLoopOK`, for all four. Its core is
  `InOrder`: a job that was attempted has no open job before it, so the run of a
  document's newest job is its last. Around it: what each place of a run says of the
  document's row and chunks (`LoopFacts`, `NewestRun`), what a checkpoint says of the
  chunks it stands for (`CheckpointFacts`), and what a settled newest job left
  (`NewestRow`). `LastWord` and `KeepsVectors` assume that no call of `release` is lost
  (`"release" \notin FaultKinds`): without it TLC finds both false even with one loop,
  because the stranded job comes back, under its old `created_at`, after younger jobs
  have run (section 4). Crashes do not do that: start-up requeues before any claim.
* `IngestionProofs!RefinesQueue`: every step of the pipeline is a step of
  `JobQueue` or invisible to it (the three theorems about the queue then hold of
  the pipeline: `PipelineOwnership` states one). The one subtle point is
  `update_progress`: it writes a heartbeat, which is invisible only because the
  heartbeat of a held job is fresh already.
* `WorkspaceProofs!TypeCorrect`, `NothingIsLost`, `ReadsHold`, `ExactAfterDeletion`: for any
  documents, topics, runs and deletions. `NeverUnder` needs to know that what a
  transaction read under the workspace's lock is still so when it writes
  (`ReadIsFresh`), which needs that only the holder writes (`HolderWrites`) and
  that a new document has no profile (`Unborn`). The counting steps are lemmas
  on `Merged` and `Rebuilt` (`MergeCovers`).
* `IntakeProofs!TypeCorrect`, `StaleIsQueued`, `HashesAreTrue`, `VersionsCount`:
  `StaleHasJob` is inductive with `RunIsFresh` (what a run has read is what is
  stored, or a job has come since) and needs no assumption on uploads. The other
  two rest on `Serial`: while no uploads overlapped, the one under way works on a
  row that still is as it loaded it (`AsLoaded`) and no other row has its bytes
  (`OnlyHere`).
* `WorkspaceProofs!NothingIsLostToLocks`: every step of `WorkspaceLocks` is one of
  `WorkspaceProfile` or leaves its variables (`StepIsStep`), so `NeverUnder` holds
  there too. `LockOrder`: stores and deletions alone are never on a cycle of waits,
  from `OwnerIsDone` (who holds the workspace's lock has all the rows it needs): the
  owner waits for nobody, and everybody else on the cycle would have to wait for it.
  `OneHolderPerDocument` (`LocksOK`): a row is taken only when nobody holds it
  (`OneRowHolder`), and nothing is deleted that a reindex has updated and not yet
  committed (`UpdatedAreThere`). Both need `HandsMade`: a run or deletion under way is
  about a document that was there when it began.
* `ClientProofs!TypeCorrect`, `PageIsOpenWorkspace`, `WorkIsPolled`: for any workspaces,
  requests and timers. The bag of requests is described by two lemmas (`WithBag`,
  `WithoutBag`); `KeepsPolling` survives a cleared timer only because whoever clears
  it starts a refresh or leaves the page, and a late answer because it does nothing.
  `QuestionsAreAnswered` needs more than it says: that at most one question is in
  flight, once, exactly while the form is locked (`OneAsk`). Otherwise the first of two
  answers would free the form, and take with it the request a question waits for.
* `ChunkerProofs!NoChunkAboveTheCeiling`: for every document, target, overlap and
  ceiling. The invariant (`ChunkInv`) is short: whatever is held is made of blocks and
  words, and the chunks so far are small. The work is in the operators: `pack` makes
  groups within the limit or single units (`PackFits`), so breaking units above it into
  words first leaves nothing above it but words (`WordParts`, `SentenceParts`), also
  where the budget is 1 because a header fills the limit. They are folds. The induction
  theorems of the library cannot be instantiated here, so the induction is done by
  hand: the numbers up to `n` at which a fold has a property are a *set*, and a set of
  naturals that is not everything has a least element outside (`Least`, from the
  well-foundedness of `<`, then `InductTo`; `FoldExists` and `FoldValues` are the two
  facts about folds used everywhere). Where a definition is a recursive function
  (`group_numbered_procedures`), that a function of that kind exists is a lemma too
  (`ChainExists`).
* `ChunkerProofs!NoWordIsLost`: the chunks are the document, whatever it and the
  limits are. The relation the proof is about is `Reads(p, q)`: put after any text,
  `p` and `q` are the same once words met before are skipped. It is transitive, holds
  within any context (`ReadsWithin`), and between a text and the same text followed by
  words that were in it (`ReadsAgain`). So each operator has one lemma: packing,
  cutting and breaking change nothing (`PackKeeps`, `CutKeeps`, `SentencePartsKeep`), a
  table under a repeated header and a procedure with "(procedure continued)" are read
  as what they were (`HeadsAreRead`, `TableKeeps`, `ProcedureKeeps`), merging steps
  keeps the document's text (`GroupedKeeps`), and what is carried over was in the chunk
  before (`TailKeeps`). The invariant (`ReadInv`) says that chunks, buffer, parts and
  blocks left, in this order, are read as the document, and that no overlap is left
  between steps: what a flush carries over opens the next buffer at once, or is dropped
  with the chunk emitted on its own. For a deck, sorting by slide keeps what is apart
  apart (`Sorted`).
* `ChunkerProofs!WhatFitsStaysWhole`, `RowsKeepTheirHeader`: each unit of the document is
  in one chunk. The invariant (`OwedInv`) follows a unit from its block to its chunk: what
  a block calls for (`Owed`: a step, or a row together with its header) is in one chunk,
  or in one text of the block being looked at that will be emitted on its own (`Due`), or
  the block is still to come. `OwedPlanned`, the step from the block to
  those texts, needs that packing never breaks what it is given (`PackHas`), that what is
  not above the limit is given to it unbroken (`TakenAsItIs`) and that the part which
  holds the unit is within the ceiling: otherwise `flush` would split it again. Where a
  row does not fit under the header, its words do (`WordWithHeader`), with a budget of
  1 too. The theorem is about tables that are not merged into a procedure. So rows
  need a target no larger than the ceiling, as the settings have it
  (`CHUNK_TARGET_TOKENS` 500, `EMBED_MAX_INPUT_TOKENS` 8192); nothing in the code enforces
  it, and with a larger target the parts of a table are split without their header.
  That a chunk holds a text is `Within` put through the identities of words
  (`HoldsStretch`). A deck is one step, so `SlideInOne` is about its result.
* `ChunkerProofs!MergedStepsAscend`: what grouping makes of a document is one block for
  each of some places, and these take in every block (`GroupedAt`, an induction from the
  end of the document, `DownTo`). In a run numbers rise, although unnumbered blocks may
  stand between two steps: a step is compared with the last numbered block before it
  (`LastStepIs`), which is above all earlier ones (`RunAscends`). An unnumbered block is
  only taken in with the step after it (`StepFollows`), so what is merged is a procedure
  (`MergedIsSequence`). The other way round, a run that reaches the first step of a
  procedure does not end inside it: the block where it ended would have gone on with it,
  whatever else the run began with (`RunTakesAll`, `SequencesMerge`).
* `ChatProofs!TypeCorrect`, `HistoryIsTrue`, `WaitsAreShort`, `RunsWaitForQuota`,
  `SignOutIsFinal`: for any people, sessions, workspaces, requests and runs at once
  (the `chat` run has one request). Three invariants that do not need each other,
  but for the typing of accounts. `CallInv`: a call that waits has an attempt left
  and one in its first attempt has waited for nothing, so the only window a person
  waits out is the first, and it was short when it was named (`WaitsAreShort`: 8 seconds,
  and the padding). `HistoryInv`: every request answers an ask of its own that
  is still open, so what is in the history of an open ask is that of the request
  about to reply (`NothingYet`); what such a request saved is there or was cleared,
  which is why `Reply` keeps the second half of the property. `SignOutIsFinal` is
  about steps: only a sign-in makes a session live, and from an unused token; the
  UPDATE of `last_seen_at` that a request makes after its SELECT brings none back.

Further assumptions: `ProfileAssumption` (finitely many documents; runs and requests
are distinct), `ChunkerAssumption` (documents are sequences of blocks, a table's
header is the beginning of its text, a block that comes atomic has no header - only
spreadsheet rows do, `parsers/tabular_parser.py` -, no two words of a document are the
same word - they are told apart by where they are, not by how they are spelled - and
target and ceiling are positive), for `RowsKeepTheirHeader` also `Target <= Ceiling`, `LocksAssumption`, `IntakeAssumption`, `ClientAssumption`,
`AccountsAssumption`, `BackoffAssumption` and `ChatAssumption` (processes are distinct,
the null values are not members, at least one attempt, paddings between 0.5 and 2
seconds).

Every invariant and every action property the passing runs check is stated by a theorem.
Only model-checked: what holds under fairness (`EveryJobSettles`, `UploadIsIndexed`,
`NobodyWaitsForever`, `EveryRequestEnds`, `Converges`, `EveryAskEnds`), which is outside
the prover's reach.

## 6. What is left out, and why

* The stage names, percentages and error texts of a job: shown to the user,
  read by nothing.
* Ties of `created_at`, and commits in another order than transaction starts:
  `JobQueue!Enqueue` allows any order of appearance, `Ingestion!Upload` numbers
  jobs as they commit.
* In `Ingestion`, waiting for row locks: each action is a whole transaction. The one conflict that
  refuses a transaction, two concurrent `replace_chunks` of one document against
  the unique `(document_id, ordinal)`, is one more way to `Raise`.
* A `finish` whose commit is acknowledged to nobody.
* Two processes at once during a rolling deployment: start-up's reclaim then takes
  jobs from a live loop.
* `run_job(embed=False)`, used only by a script.
* Bytes, text and vectors in `Ingestion`: a version of a file yields `ChunkCount[v]`
  chunks. Chunk texts are those of `Chunker`, whose section paths, pages, ordinals
  and contextual header are left out.
* The prompt, the cleaning of the LLM's answer and the cap on topics.
* Size and type checks of an upload: they refuse before anything is read.
* Rank fusion, the numbering of citations and the wording of answers: `Chat` has the
  calls of `answer_question` and how they fail. That every answer carries a
  citation is asked of the model and checked by nothing.
* The workspace listing with its counts, health, jobs and schemas: queries.
* Parsers: decoding over third-party libraries; a parse returns or raises.
* In `Client`: the gallery's list, sign-in, Markdown and layout; a stale list painted
  by refreshes that overtake each other (the server's state is not modelled there).
* The length of the doubling delay after an error that names no window, with its jitter,
  and the batching of the embedder.

## 7. Plan

Done in this order: `QueueRows`, `JobQueue`, its proofs; `Ingestion`, its proofs
and refinement; `WorkspaceProfile` and `Intake` with their proofs; `Backoff`,
`Accounts`, `Chat`; `Procedures`, `Splitting`, `Chunker`; `WorkspaceLocks` and `Client`
with their proofs; the proofs about `Chat`; those about one worker loop, row locks, the
question form, the ceiling and the words of a document; those about its units and its
procedures.

Open, the most important behaviour first:

1. `HybridSearch`: rank fusion and citations.
2. `JobQueue` with two processes; the retry that believes `chunks_written` of chunks
   an upload has deleted; a `finish` whose commit is not acknowledged.
