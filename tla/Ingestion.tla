----------------------------- MODULE Ingestion -----------------------------
(***************************************************************************)
(* The ingestion pipeline: uploads, reindexes and deletions made by HTTP   *)
(* requests (app/api, app/pipeline/intake.py), and the run of a job by a   *)
(* worker loop (app/workers/worker.py, app/pipeline/ingest.py, embedding,  *)
(* persist), over the tables documents, chunks and ingest_jobs.            *)
(*                                                                         *)
(* Every database transaction of a run is one action, because requests,    *)
(* other loops, the sweep and a crash come between any two of them.        *)
(* File contents are versions; what parsing a version yields is            *)
(* ChunkCount[v] chunks.  Nothing is kept of a run but what it holds in    *)
(* memory: the checkpoint it was claimed with, the version it parsed, the  *)
(* batch it is embedding.                                                  *)
(***************************************************************************)
EXTENDS QueueRows, FiniteSets

CONSTANTS
    Docs,          \* document rows that may ever be created
    NoDoc,         \* the document of a job number not in use
    MaxVersion,    \* bound: distinct contents of a file
    ChunkCount,    \* ChunkCount[v]: the chunks of version v
    BatchSize,     \* settings.embed_batch_size
    FaultKinds     \* which faults may happen: "crash", "release", "report"

Versions == 1..MaxVersion

ASSUME IngestionAssumption ==
    /\ MaxVersion \in Nat
    /\ ChunkCount \in [Versions -> Nat \ {0}]
    /\ BatchSize \in Nat \ {0}
    /\ FaultKinds \subseteq {"crash", "release", "report"}
    /\ NoDoc \notin Docs

VARIABLES
    jobs,      \* ingest_jobs: a queue row with its document and checkpoint
    docs,      \* documents: status and the version of the stored bytes
    chunks,    \* chunks of each document
    ws,        \* whether the workspace exists
    wk,        \* each worker loop's place in the code and its locals
    up,        \* whether the process is alive
    faults     \* faults so far, at most MaxFaults

vars == <<jobs, docs, chunks, ws, wk, up, faults>>

-----------------------------------------------------------------------------
(* The tables. *)

Stages == {"parsing", "profiling", "chunking", "embedding"}

DocStatuses == {"absent", "deleted", "pending", "ready", "failed"} \cup Stages

DocExists(d) == docs[d].status \notin {"absent", "deleted"}

(* One replace_chunks call writes a generation of chunks with fresh ids;   *)
(* ordinals whose embedding IS NULL are in nulls.  The generation 0 and    *)
(* the version 0 are those of a document without chunks.                   *)
NoChunks == [gen |-> <<0, 0>>, ver |-> 0, nulls |-> {}]

NewChunks(g, v) == [gen |-> g, ver |-> v, nulls |-> 1..ChunkCount[v]]

(* The work embed_document derives from the database. *)
Outstanding_SkipsFirst(c) == c.nulls \ {1}
Outstanding(c) == c.nulls

(* _next_batch: the first BatchSize outstanding ordinals, by chunk id. *)
NextBatch(c) ==
    [gen |-> c.gen,
     ords |-> {o \in Outstanding(c) :
                 Cardinality({p \in Outstanding(c) : p < o}) < BatchSize}]

NoBatch == [gen |-> <<0, 0>>, ords |-> {}]

(* The UPDATE by chunk id finds nothing once the chunks were replaced. *)
Vectorised_NewIds(c, b) == IF c.gen # b.gen THEN [c EXCEPT !.nulls = @ \ b.ords] ELSE c
Vectorised(c, b) == IF c.gen = b.gen THEN [c EXCEPT !.nulls = @ \ b.ords] ELSE c

(* set_document_status: an UPDATE by id, whatever the status was. *)
WithStatus(d, s) == IF DocExists(d) THEN [docs EXCEPT ![d].status = s] ELSE docs

(* update_progress: the checkpoint of the run replaces the row's. *)
WithCheckpoint_BeatOnly(j, cw) ==
    IF Exists(jobs[j]) THEN [jobs EXCEPT ![j].beat = "fresh"] ELSE jobs
WithCheckpoint(j, cw) ==
    IF Exists(jobs[j]) THEN [jobs EXCEPT ![j].cw = cw, ![j].beat = "fresh"] ELSE jobs

(* What process reads back after release. *)
HasFailed_OutOfAttempts(r) == r.attempts > MaxAttempts
HasFailed(r) == r.status = "failed"

(* A fresh job for d, with an empty checkpoint. *)
NewJob(r, d) == [EnqueuedRow(r) EXCEPT !.doc = d, !.cw = 0]

Unused == {j \in Jobs : jobs[j].status = "none"}

JobsOf(d) == {j \in Jobs : jobs[j].doc = d /\ Exists(jobs[j])}

-----------------------------------------------------------------------------
(* Worker loops. *)

(* Where a loop is inside run_job; the run holds its job there. *)
RunSteps ==
    {"load", "advance", "mark", "parse", "pages", "profile", "chunk", "count",
     "batch", "embed", "progress", "ready", "finish"}

Places == RunSteps \cup {"idle", "release", "status", "fail"}

IdleWorker ==
    [at |-> "idle", job |-> NoJob, stage |-> "parsing", cw |-> 0, ver |-> 0,
     batch |-> NoBatch]

Doc(w) == jobs[wk[w].job].doc

Goto(w, place) == wk' = [wk EXCEPT ![w].at = place]

(* The next stage: its transition is two transactions, advance and mark. *)
GotoStage(w, stage) == wk' = [wk EXCEPT ![w].at = "advance", ![w].stage = stage]

Rest(w) == wk' = [wk EXCEPT ![w] = IdleWorker]

(* The job a loop is responsible for: from its claim until finish or       *)
(* release has recorded the outcome.                                       *)
Held(w) == IF wk[w].at \in RunSteps \cup {"release"} THEN wk[w].job ELSE NoJob

Init ==
    /\ jobs = [j \in Jobs |-> [status |-> "none", attempts |-> 0, beat |-> "none",
                               doc |-> NoDoc, cw |-> 0]]
    /\ docs = [d \in Docs |-> [status |-> "absent", ver |-> 0]]
    /\ chunks = [d \in Docs |-> NoChunks]
    /\ ws = TRUE
    /\ wk = [w \in Workers |-> IdleWorker]
    /\ up = TRUE
    /\ faults = 0

(* worker_loop: claim's statement, and the snapshot of the row it returns. *)
Claim(w) ==
    /\ up
    /\ wk[w].at = "idle"
    /\ \E j \in Jobs :
        /\ IsOldest(jobs, j)
        /\ jobs' = [jobs EXCEPT ![j] = ClaimedRow(@)]
        /\ wk' = [wk EXCEPT ![w].at = "load", ![w].job = j, ![w].cw = jobs[j].cw]
    /\ UNCHANGED <<docs, chunks, ws, up, faults>>

(* run_job loads the document; with chunks_written in its checkpoint it    *)
(* skips to embedding.  A missing document raises IngestError (Raise).     *)
Load(w) ==
    /\ wk[w].at = "load"
    /\ DocExists(Doc(w))
    /\ GotoStage(w, IF wk[w].cw = 0 THEN "parsing" ELSE "embedding")
    /\ UNCHANGED <<jobs, docs, chunks, ws, up, faults>>

(* _advance, first transaction: update_progress on the job. *)
Advance(w) ==
    /\ wk[w].at = "advance"
    /\ jobs' = WithCheckpoint(wk[w].job, wk[w].cw)
    /\ Goto(w, "mark")
    /\ UNCHANGED <<docs, chunks, ws, up, faults>>

(* _advance, second transaction: the stage becomes the document's status. *)
Mark(w) ==
    /\ wk[w].at = "mark"
    /\ docs' = WithStatus(Doc(w), wk[w].stage)
    /\ Goto(w, CASE wk[w].stage = "parsing" -> "parse"
                 [] wk[w].stage = "profiling" -> "profile"
                 [] wk[w].stage = "chunking" -> "chunk"
                 [] wk[w].stage = "embedding" -> "count")
    /\ UNCHANGED <<jobs, chunks, ws, up, faults>>

(* _parse reads the stored bytes: those of the latest upload, whichever    *)
(* upload queued this job.                                                 *)
Parse(w) ==
    /\ wk[w].at = "parse"
    /\ DocExists(Doc(w))
    /\ wk' = [wk EXCEPT ![w].at = "pages", ![w].ver = docs[Doc(w)].ver]
    /\ UNCHANGED <<jobs, docs, chunks, ws, up, faults>>

(* A format with pages records their count, and "parsing" with it. *)
Pages(w) ==
    /\ wk[w].at = "pages"
    /\ docs' \in {docs, WithStatus(Doc(w), "parsing")}
    /\ GotoStage(w, "profiling")
    /\ UNCHANGED <<jobs, chunks, ws, up, faults>>

(* profile_document and store_document_profile, which needs the workspace  *)
(* row (scalar_one) but not the document's.                                *)
Profile(w) ==
    /\ wk[w].at = "profile"
    /\ ws
    /\ GotoStage(w, "chunking")
    /\ UNCHANGED <<jobs, docs, chunks, ws, up, faults>>

(* _chunk_and_store: replace_chunks deletes and inserts in one             *)
(* transaction, refused by the foreign key when the document is gone.      *)
Chunk(w) ==
    LET d == Doc(w)  j == wk[w].job IN
    /\ wk[w].at = "chunk"
    /\ DocExists(d)
    /\ chunks' = [chunks EXCEPT ![d] = NewChunks(<<j, jobs[j].attempts>>, wk[w].ver)]
    /\ wk' = [wk EXCEPT ![w].at = "advance", ![w].stage = "embedding",
                        ![w].cw = ChunkCount[wk[w].ver], ![w].ver = 0]
    /\ UNCHANGED <<jobs, docs, ws, up, faults>>

(* embed_document: nothing outstanding, nothing to do. *)
Count(w) ==
    /\ wk[w].at = "count"
    /\ Goto(w, IF Outstanding(chunks[Doc(w)]) = {} THEN "ready" ELSE "batch")
    /\ UNCHANGED <<jobs, docs, chunks, ws, up, faults>>

(* One turn of its loop: read a batch, have it embedded, ... *)
Batch(w) ==
    LET c == chunks[Doc(w)] IN
    /\ wk[w].at = "batch"
    /\ IF Outstanding(c) = {}
       THEN Goto(w, "ready")
       ELSE wk' = [wk EXCEPT ![w].at = "embed", ![w].batch = NextBatch(c)]
    /\ UNCHANGED <<jobs, docs, chunks, ws, up, faults>>

(* ... and write the vectors back by chunk id, in one transaction. *)
Embed(w) ==
    /\ wk[w].at = "embed"
    /\ chunks' = [chunks EXCEPT ![Doc(w)] = Vectorised(@, wk[w].batch)]
    /\ wk' = [wk EXCEPT ![w].at = "progress", ![w].batch = NoBatch]
    /\ UNCHANGED <<jobs, docs, ws, up, faults>>

(* on_progress after each batch. *)
Progress(w) ==
    /\ wk[w].at = "progress"
    /\ jobs' = WithCheckpoint(wk[w].job, wk[w].cw)
    /\ Goto(w, "batch")
    /\ UNCHANGED <<docs, chunks, ws, up, faults>>

(* The document is searchable from here on. *)
Ready(w) ==
    /\ wk[w].at = "ready"
    /\ docs' = WithStatus(Doc(w), "ready")
    /\ Goto(w, "finish")
    /\ UNCHANGED <<jobs, chunks, ws, up, faults>>

Finish(w) ==
    /\ wk[w].at = "finish"
    /\ jobs' = [jobs EXCEPT ![wk[w].job] = IF Exists(@) THEN FinishedRow(@) ELSE @]
    /\ Rest(w)
    /\ UNCHANGED <<docs, chunks, ws, up, faults>>

(* Any call of the run raises: the parser finds no text, the LLM, the      *)
(* embedder or the database fails, the document is gone.                   *)
AfterRaise_Swallowed(w) == IdleWorker
AfterRaise(w) == [IdleWorker EXCEPT !.at = "release", !.job = wk[w].job]

Raise(w) ==
    /\ wk[w].at \in RunSteps
    /\ wk' = [wk EXCEPT ![w] = AfterRaise(w)]
    /\ UNCHANGED <<jobs, docs, chunks, ws, up, faults>>

(* process, on an exception: release, read the job's status back, and mark *)
(* the document failed if the job is; three transactions.                  *)
Release(w) ==
    /\ wk[w].at = "release"
    /\ jobs' = [jobs EXCEPT ![wk[w].job] = IF Exists(@) THEN ReleasedRow(@) ELSE @]
    /\ Goto(w, "status")
    /\ UNCHANGED <<docs, chunks, ws, up, faults>>

ReadStatus(w) ==
    /\ wk[w].at = "status"
    /\ IF HasFailed(jobs[wk[w].job]) THEN Goto(w, "fail") ELSE Rest(w)
    /\ UNCHANGED <<jobs, docs, chunks, ws, up, faults>>

MarkFailed(w) ==
    /\ wk[w].at = "fail"
    /\ docs' = WithStatus(Doc(w), "failed")
    /\ Rest(w)
    /\ UNCHANGED <<jobs, chunks, ws, up, faults>>

(* release, the status read or the mark raises: worker_loop goes on. *)
LoopError(w) ==
    /\ \/ wk[w].at = "release" /\ "release" \in FaultKinds
       \/ wk[w].at \in {"status", "fail"} /\ "report" \in FaultKinds
    /\ faults < MaxFaults
    /\ faults' = faults + 1
    /\ Rest(w)
    /\ UNCHANGED <<jobs, docs, chunks, ws, up>>

-----------------------------------------------------------------------------
(* Requests.  Each is one transaction. *)

(* intake_upload, when the filename or the hash leads to row d: identical  *)
(* content already indexed is a no-op; otherwise the chunks go, the row    *)
(* takes the new bytes, and a job is queued.                               *)
Deduplicated(d, v) == docs[d].status = "ready" /\ docs[d].ver = v

Upload(d, v) ==
    /\ up /\ ws
    /\ docs[d].status # "deleted"
    /\ ~Deduplicated(d, v)
    /\ \E j \in Unused :
        /\ \A i \in Unused : j <= i
        /\ jobs' = [jobs EXCEPT ![j] = NewJob(@, d)]
    /\ docs' = [docs EXCEPT ![d] = [status |-> "pending", ver |-> v]]
    /\ chunks' = [chunks EXCEPT ![d] = NoChunks]
    /\ UNCHANGED <<ws, wk, up, faults>>

(* requeue_workspace: every document is pending again and gets a job; the  *)
(* jobs share one created_at, so their order is any.                       *)
Reindex ==
    LET D == {d \in Docs : DocExists(d)}
        J == {j \in Unused : Cardinality({i \in Unused : i < j}) < Cardinality(D)}
    IN
    /\ up /\ ws
    /\ D # {} /\ Cardinality(J) = Cardinality(D)
    /\ \E f \in [J -> D] :
        /\ \A d \in D : \E j \in J : f[j] = d
        /\ jobs' = [j \in Jobs |-> IF j \in J THEN NewJob(jobs[j], f[j]) ELSE jobs[j]]
    /\ docs' = [d \in Docs |-> IF d \in D THEN [docs[d] EXCEPT !.status = "pending"]
                               ELSE docs[d]]
    /\ UNCHANGED <<chunks, ws, wk, up, faults>>

(* Rows of the documents in D, with their chunks and jobs. *)
DeleteRows(D) ==
    /\ docs' = [d \in Docs |-> IF d \in D THEN [docs[d] EXCEPT !.status = "deleted"]
                               ELSE docs[d]]
    /\ chunks' = [d \in Docs |-> IF d \in D THEN NoChunks ELSE chunks[d]]
    /\ jobs' = [j \in Jobs |-> IF \E d \in D : j \in JobsOf(d)
                               THEN [jobs[j] EXCEPT !.status = "deleted"]
                               ELSE jobs[j]]

DeleteDocument(d) ==
    /\ up /\ ws
    /\ DocExists(d)
    /\ DeleteRows({d})
    /\ UNCHANGED <<ws, wk, up, faults>>

(* delete_workspace: everything in it goes by ON DELETE CASCADE. *)
DeleteWorkspace ==
    /\ up /\ ws
    /\ ws' = FALSE
    /\ DeleteRows({d \in Docs : DocExists(d)})
    /\ UNCHANGED <<wk, up, faults>>

-----------------------------------------------------------------------------
(* The process and the sweep, as in JobQueue. *)

Lapse(j) ==
    /\ up
    /\ jobs[j].status = "running"
    /\ jobs[j].beat = "fresh"
    /\ \A w \in Workers : Held(w) # j
    /\ jobs' = [jobs EXCEPT ![j].beat = "stale"]
    /\ UNCHANGED <<docs, chunks, ws, wk, up, faults>>

Sweep ==
    /\ up
    /\ \E j \in Jobs : Stalled(jobs[j])
    /\ jobs' = [j \in Jobs |-> IF Stalled(jobs[j]) THEN ReclaimedRow(jobs[j])
                               ELSE jobs[j]]
    /\ UNCHANGED <<docs, chunks, ws, wk, up, faults>>

Crash ==
    /\ up
    /\ "crash" \in FaultKinds
    /\ faults < MaxFaults
    /\ up' = FALSE
    /\ faults' = faults + 1
    /\ wk' = [w \in Workers |-> IdleWorker]
    /\ UNCHANGED <<jobs, docs, chunks, ws>>

Restart ==
    /\ ~up
    /\ up' = TRUE
    /\ jobs' = [j \in Jobs |-> IF RunningRow(jobs[j]) THEN ReclaimedRow(jobs[j])
                               ELSE jobs[j]]
    /\ UNCHANGED <<docs, chunks, ws, wk, faults>>

-----------------------------------------------------------------------------

Step(w) ==
    \/ Load(w) \/ Advance(w) \/ Mark(w) \/ Parse(w) \/ Pages(w) \/ Profile(w)
    \/ Chunk(w) \/ Count(w) \/ Batch(w) \/ Embed(w) \/ Progress(w) \/ Ready(w)
    \/ Finish(w) \/ Raise(w) \/ Release(w) \/ ReadStatus(w) \/ MarkFailed(w)

Next ==
    \/ \E w \in Workers : Claim(w) \/ Step(w) \/ LoopError(w)
    \/ \E d \in Docs, v \in Versions : Upload(d, v)
    \/ Reindex
    \/ \E d \in Docs : DeleteDocument(d)
    \/ DeleteWorkspace
    \/ \E j \in Jobs : Lapse(j)
    \/ Sweep
    \/ Crash
    \/ Restart

(* A loop keeps claiming, and every call of a run returns or raises; the   *)
(* process is restarted, time passes, the sweep keeps running.  Requests   *)
(* need never come, and faults need never happen.                          *)
Fairness ==
    /\ \A w \in Workers : WF_vars(Claim(w)) /\ WF_vars(Step(w))
    /\ \A j \in Jobs : WF_vars(Lapse(j))
    /\ WF_vars(Sweep)
    /\ WF_vars(Restart)

Spec == Init /\ [][Next]_vars /\ Fairness

-----------------------------------------------------------------------------
(* Properties. *)

Gens == Nat \X Nat

JobRow == [status : Statuses, attempts : Nat, beat : {"none", "fresh", "stale"},
           doc : Docs \cup {NoDoc}, cw : Nat]

DocRow == [status : DocStatuses, ver : Versions \cup {0}]

ChunkRows == [gen : Gens, ver : Versions \cup {0}, nulls : SUBSET Nat]

Loop == [at : Places, job : Jobs \cup {NoJob}, stage : Stages, cw : Nat,
         ver : Versions \cup {0}, batch : [gen : Gens, ords : SUBSET Nat]]

(* Type invariant of the tables and of the worker loops' memory. *)
TypeOK ==
    /\ jobs \in [Jobs -> JobRow]
    /\ docs \in [Docs -> DocRow]
    /\ chunks \in [Docs -> ChunkRows]
    /\ ws \in BOOLEAN
    /\ wk \in [Workers -> Loop]
    /\ up \in BOOLEAN
    /\ faults \in 0..MaxFaults

(* What typing rests on: a row in use names a document, a document that    *)
(* was ever uploaded has a version, a busy loop has a job, and a loop past *)
(* parsing has the version it parsed.                                      *)
Parsed(w) ==
    \/ wk[w].at \in {"pages", "profile", "chunk"}
    \/ wk[w].at \in {"advance", "mark"} /\ wk[w].stage \in {"profiling", "chunking"}

RowsInUse ==
    /\ \A j \in Jobs : jobs[j].status # "none" => jobs[j].doc \in Docs
    /\ \A d \in Docs : docs[d].status # "absent" => docs[d].ver \in Versions
    /\ \A w \in Workers : wk[w].at # "idle" =>
         wk[w].job \in Jobs /\ jobs[wk[w].job].status # "none"
    /\ \A w \in Workers : Parsed(w) => wk[w].ver \in Versions

(* "Half-embedded documents never leak into answers" (pgvector_store.py):  *)
(* retrieval filters on the document's status alone, so no ready document  *)
(* may have a chunk without a vector.                                      *)
ReadyIsFullyEmbedded ==
    \A d \in Docs : docs[d].status = "ready" => chunks[d].nulls = {}

(* What ReadyIsFullyEmbedded rests on, with a single loop: the run about   *)
(* to mark its document ready found nothing outstanding, and no ready      *)
(* document is about to have its chunks replaced.                          *)
ReadyInv ==
    /\ ReadyIsFullyEmbedded
    /\ \A w \in Workers :
        /\ wk[w].at = "ready" => chunks[Doc(w)].nulls = {}
        /\ wk[w].at = "chunk" => docs[Doc(w)].status # "ready"

(* The job rows and the loops behave as the queue of JobQueue.tla: what    *)
(* is proved there of ownership, attempts and finality holds here.         *)
Queue == INSTANCE JobQueue WITH
    jobs <- [j \in Jobs |-> [status |-> jobs[j].status, attempts |-> jobs[j].attempts,
                             beat |-> jobs[j].beat]],
    held <- [w \in Workers |-> Held(w)]

ImplementsQueue == Queue!Init /\ [][Queue!Next]_(Queue!vars)

Open(j) == jobs[j].status \in {"pending", "running"}

Busy(d) == \E w \in Workers : wk[w].at # "idle" /\ Doc(w) = d

(* No job of d is open and no loop still has something to write about it.  *)
Settled(d) == DocExists(d) /\ ~Busy(d) /\ \A j \in JobsOf(d) : ~Open(j)

Newest(d, j) == j \in JobsOf(d) /\ \A i \in JobsOf(d) : i <= j

(* All chunks of the stored bytes, and of nothing else, with vectors. *)
Indexed(d) ==
    /\ chunks[d].gen # NoChunks.gen
    /\ chunks[d].ver = docs[d].ver
    /\ chunks[d].nulls = {}

(* Whatever uploads, reindexes, retries and restarts overlapped, once the  *)
(* queue is done with a document its newest job has the last word: if it   *)
(* succeeded, the document is ready and searchable with exactly the chunks *)
(* of the bytes last uploaded.                                             *)
LastWord ==
    \A d \in Docs : Settled(d) =>
        \A j \in Jobs : Newest(d, j) /\ jobs[j].status = "succeeded"
                          => docs[d].status = "ready" /\ Indexed(d)

(* When the last attempt fails the user sees it: a document whose newest   *)
(* job failed for good is shown as failed, not as still being worked on.   *)
(* A crash just before the document is marked leaves it unmarked.          *)
FailureIsShown ==
    \A d \in Docs : Settled(d) /\ faults = 0 =>
        \A j \in Jobs : Newest(d, j) /\ jobs[j].status = "failed"
                          => docs[d].status = "failed"

(* An accepted upload is eventually searchable, unless the document's      *)
(* newest job fails for good or the document is deleted.                   *)
UploadIsIndexed ==
    \A d \in Docs : docs[d].status = "pending" ~>
        \/ docs[d].status = "ready" /\ Indexed(d)
        \/ \E j \in Jobs : Newest(d, j) /\ jobs[j].status = "failed"
        \/ docs[d].status = "deleted"

(* "Resumes from the last committed batch instead of re-embedding the      *)
(* document" (README): no attempt of a job throws away a vector an earlier *)
(* attempt of that job wrote, wherever the earlier one was interrupted.    *)
KeepsVectors ==
    [][\A w \in Workers : LET c == chunks[Doc(w)] IN
        Chunk(w) /\ c.gen[1] = wk[w].job => c.nulls = 1..ChunkCount[c.ver]]_vars

-----------------------------------------------------------------------------
(* What the repository says of the pipeline and the code does not do.      *)

(* "Stale chunks never survive a re-upload" (README): what search sees of  *)
(* a document is never a version other than the one last uploaded.         *)
ReadyIsCurrent ==
    \A d \in Docs : docs[d].status = "ready" => chunks[d].ver \in {0, docs[d].ver}

(* "Existing chunks stay searchable until each document's own run replaces *)
(* them" (reindex_workspace): a document with its chunks, its bytes and    *)
(* its row untouched does not drop out of search.                          *)
StaysSearchable ==
    [][\A d \in Docs :
        /\ docs[d].status = "ready" /\ Indexed(d)
        /\ chunks'[d] = chunks[d] /\ docs'[d].ver = docs[d].ver
        /\ docs'[d].status # "deleted"
        => docs'[d].status = "ready"]_vars

=============================================================================
