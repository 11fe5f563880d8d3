-------------------------- MODULE IngestionOneLoop --------------------------
(***************************************************************************)
(* What holds of the ingestion pipeline when one loop works the queue, as  *)
(* the default WORKER_CONCURRENCY=1 has it, for any number of documents,   *)
(* versions, jobs, retries and crashes.                                    *)
(***************************************************************************)
EXTENDS IngestionProofs, FiniteSetTheorems

OneLoop == \A v, w \in Workers : v = w

-----------------------------------------------------------------------------
(* With one loop, search never sees a half-embedded document.              *)

(* The documents and the places ReadyInv is about.                         *)
ReadyAt(d) == docs[d].status = "ready" => chunks[d].nulls = {}

LoopReady(w) ==
    /\ wk[w].at = "ready" => chunks[Doc(w)].nulls = {}
    /\ wk[w].at = "chunk" => docs[Doc(w)].status # "ready"

LEMMA ReadyParts ==
    ReadyInv <=> (\A d \in Docs : ReadyAt(d)) /\ (\A w \in Workers : LoopReady(w))
BY DEF ReadyInv, ReadyIsFullyEmbedded, ReadyAt, LoopReady

(* A busy loop's document does not change under it. *)
LEMMA SameDocument ==
    ASSUME TypeOK, RowsInUse, JobsKept, NEW w \in Workers, wk[w].at # "idle",
           wk'[w].job = wk[w].job
    PROVE  Doc(w)' = Doc(w) /\ Doc(w) \in Docs
BY DEF RowsInUse, JobsKept, Doc

LEMMA StepReady ==
    ASSUME TypeOK, RowsInUse, ReadyInv, OneLoop,
           NEW w \in Workers, Step(w) \/ Claim(w) \/ LoopError(w)
    PROVE  ReadyInv'
<1>0. /\ wk \in [Workers -> Loop] /\ wk[w] \in Loop /\ docs \in [Docs -> DocRow]
      /\ chunks \in [Docs -> ChunkRows]
      /\ \A d \in Docs : chunks[d] \in ChunkRows /\ docs[d] \in DocRow
  BY DEF TypeOK
<1>1. (\A d \in Docs : ReadyAt(d)) /\ LoopReady(w)
  BY ReadyParts
<1>2. ASSUME \A d \in Docs : ReadyAt(d)', LoopReady(w)' PROVE ReadyInv'
  BY <1>2 DEF OneLoop, ReadyInv, ReadyIsFullyEmbedded, ReadyAt, LoopReady
<1>3. wk[w].at # "idle" => Doc(w) \in Docs
  BY DEF RowsInUse, Doc
<1>4. ASSUME NEW p, wk'[w].at = p, p \notin {"ready", "chunk"} PROVE LoopReady(w)'
  BY <1>4 DEF LoopReady
<1>5. ASSUME docs' = docs, chunks' = chunks PROVE \A d \in Docs : ReadyAt(d)'
  BY <1>1, <1>5 DEF ReadyAt
<1>6. ASSUME NEW s \in {"parsing", "profiling", "chunking", "embedding", "failed"},
             NEW e \in Docs, docs' = WithStatus(e, s), chunks' = chunks
      PROVE  (\A d \in Docs : ReadyAt(d)') /\ docs'[e].status # "ready"
  <2>1. CASE DocExists(e)
    BY <1>0, <1>1, <1>6, <2>1 DEF WithStatus, ReadyAt, DocRow
  <2>2. CASE ~DocExists(e)
    BY <1>0, <1>1, <1>6, <2>2 DEF WithStatus, ReadyAt, DocExists
  <2> QED
    BY <2>1, <2>2
<1>7. CASE Claim(w) \/ Load(w) \/ Advance(w) \/ Parse(w) \/ Profile(w) \/ Progress(w)
           \/ Finish(w) \/ Raise(w) \/ Release(w) \/ ReadStatus(w) \/ LoopError(w)
  <2>1. PICK p : wk'[w].at = p /\ p \notin {"ready", "chunk"}
    <3>1. CASE Claim(w)
      <4>1. PICK j \in Jobs : wk' = [wk EXCEPT ![w].at = "load", ![w].job = j,
                                               ![w].cw = jobs[j].cw]
        BY <3>1 DEF Claim
      <4>2. wk'[w].at = "load"
        BY <1>0, <4>1 DEF Loop
      <4> QED
        BY <4>2
    <3>0. CASE Parse(w)
      BY <1>0, <3>0 DEF Parse, Loop
    <3>2. CASE Load(w) \/ Profile(w)
      BY <1>0, <3>2 DEF Load, Profile, GotoStage, Loop
    <3>3. CASE Advance(w) \/ Progress(w) \/ Release(w)
      BY <1>0, <3>3 DEF Advance, Progress, Release, Goto, Loop
    <3>4. CASE Finish(w) \/ LoopError(w)
      BY <1>0, <3>4 DEF Finish, LoopError, Rest, IdleWorker
    <3>5. CASE ReadStatus(w)
      BY <1>0, <3>5 DEF ReadStatus, Goto, Rest, IdleWorker, Loop
    <3>6. CASE Raise(w)
      BY <1>0, <3>6 DEF Raise, AfterRaise, IdleWorker
    <3> QED
      BY <1>7, <3>0, <3>1, <3>2, <3>3, <3>4, <3>5, <3>6
  <2>2. docs' = docs /\ chunks' = chunks
    BY <1>7 DEF Claim, Load, Advance, Parse, Profile, Progress, Finish, Raise,
       Release, ReadStatus, LoopError
  <2> QED
    BY <1>2, <1>4, <1>5, <2>1, <2>2
<1>8. CASE Mark(w)
  <2>1. \A d \in Docs : ReadyAt(d)'
    BY <1>0, <1>3, <1>6, <1>8 DEF Mark, Loop, Stages
  <2>2. docs'[Doc(w)].status # "ready"
    BY <1>0, <1>3, <1>6, <1>8 DEF Mark, Loop, Stages
  <2>3. wk'[w].at # "ready" /\ wk'[w].job = wk[w].job /\ jobs' = jobs
    BY <1>0, <1>8 DEF Mark, Goto, Loop, Stages
  <2>4. Doc(w)' = Doc(w)
    BY <2>3 DEF Doc
  <2> QED
    BY <1>2, <2>1, <2>2, <2>3, <2>4 DEF LoopReady
<1>9. CASE Pages(w)
  <2>1. wk'[w].at = "advance"
    BY <1>0, <1>9 DEF Pages, GotoStage, Loop
  <2>2. \A d \in Docs : ReadyAt(d)'
    BY <1>3, <1>5, <1>6, <1>9 DEF Pages
  <2> QED
    BY <1>2, <1>4, <2>1, <2>2
<1>10. CASE MarkFailed(w)
  <2>1. wk'[w].at = "idle"
    BY <1>0, <1>10 DEF MarkFailed, Rest, IdleWorker
  <2>2. \A d \in Docs : ReadyAt(d)'
    BY <1>3, <1>6, <1>10 DEF MarkFailed
  <2> QED
    BY <1>2, <1>4, <2>1, <2>2
<1>11. CASE Chunk(w)
  <2>1. wk'[w].at = "advance"
    BY <1>0, <1>11 DEF Chunk, Loop
  <2>2. docs[Doc(w)].status # "ready"
    BY <1>1, <1>11 DEF Chunk, LoopReady
  <2>3. ASSUME NEW d \in Docs PROVE ReadyAt(d)'
    <3>1. d # Doc(w) => chunks'[d] = chunks[d]
      BY <1>0, <1>11 DEF Chunk
    <3> QED
      BY <1>1, <1>11, <2>2, <3>1 DEF Chunk, ReadyAt
  <2> QED
    BY <1>2, <1>4, <2>1, <2>3
<1>12. CASE Count(w) \/ Batch(w)
  <2>1. docs' = docs /\ chunks' = chunks /\ jobs' = jobs
    BY <1>12 DEF Count, Batch
  <2>2. CASE Goto(w, "ready") /\ Outstanding(chunks[Doc(w)]) = {}
    <3>1. wk'[w].at = "ready" /\ wk'[w].job = wk[w].job
      BY <1>0, <2>2 DEF Goto, Loop
    <3>2. Doc(w)' = Doc(w)
      BY <2>1, <3>1 DEF Doc
    <3> QED
      BY <1>2, <1>5, <2>1, <2>2, <3>1, <3>2 DEF LoopReady, Outstanding
  <2>3. CASE ~(Goto(w, "ready") /\ Outstanding(chunks[Doc(w)]) = {})
    <3>1. wk'[w].at \in {"batch", "embed"}
      BY <1>0, <1>12, <2>3 DEF Count, Batch, Goto, Loop
    <3> QED
      BY <1>2, <1>4, <1>5, <2>1, <3>1
  <2> QED
    BY <2>2, <2>3
<1>13. CASE Embed(w)
  <2>1. wk'[w].at = "progress"
    BY <1>0, <1>13 DEF Embed, Loop
  <2>2. ASSUME NEW d \in Docs PROVE chunks[d].nulls = {} => chunks'[d].nulls = {}
    <3>1. chunks'[d] = chunks[d] \/ chunks'[d] = Vectorised(chunks[d], wk[w].batch)
      BY <1>0, <1>13 DEF Embed
    <3>2. Vectorised(chunks[d], wk[w].batch).nulls \subseteq chunks[d].nulls
      BY <1>0 DEF Vectorised, ChunkRows
    <3> QED
      BY <3>1, <3>2
  <2>3. \A d \in Docs : ReadyAt(d)'
    BY <1>1, <1>13, <2>2 DEF Embed, ReadyAt
  <2> QED
    BY <1>2, <1>4, <2>1, <2>3
<1>14. CASE Ready(w)
  <2>1. wk'[w].at = "finish"
    BY <1>0, <1>14 DEF Ready, Goto, Loop
  <2>2. chunks[Doc(w)].nulls = {}
    BY <1>1, <1>14 DEF Ready, LoopReady
  <2>3. ASSUME NEW d \in Docs PROVE ReadyAt(d)'
    <3>1. d # Doc(w) => docs'[d] = docs[d]
      BY <1>0, <1>14 DEF Ready, WithStatus
    <3> QED
      BY <1>1, <1>14, <2>2, <3>1 DEF Ready, ReadyAt
  <2> QED
    BY <1>2, <1>4, <2>1, <2>3
<1> QED
  BY <1>7, <1>8, <1>9, <1>10, <1>11, <1>12, <1>13, <1>14 DEF Step

LEMMA NextReady ==
    ASSUME OneLoop
    PROVE  TypeOK /\ RowsInUse /\ ReadyInv /\ [Next]_vars => ReadyInv'
<1> SUFFICES ASSUME TypeOK, RowsInUse, ReadyInv, [Next]_vars PROVE ReadyInv'
  OBVIOUS
<1>0. /\ wk \in [Workers -> Loop] /\ docs \in [Docs -> DocRow]
      /\ chunks \in [Docs -> ChunkRows]
      /\ \A d \in Docs : docs[d] \in DocRow
  BY DEF TypeOK
<1>1. ASSUME JobsKept, wk' = wk,
             \A d \in Docs :
               /\ docs'[d].status = "ready" => docs[d].status = "ready"
               /\ chunks[d].nulls = {} => chunks'[d].nulls = {}
      PROVE  ReadyInv'
  <2>1. ASSUME NEW w \in Workers PROVE LoopReady(w)'
    <3>1. wk[w].at # "idle" => Doc(w)' = Doc(w) /\ Doc(w) \in Docs
      BY <1>1, SameDocument
    <3> QED
      BY <1>1, <3>1, ReadyParts DEF LoopReady
  <2>2. ASSUME NEW d \in Docs PROVE ReadyAt(d)'
    BY <1>1, ReadyParts DEF ReadyAt
  <2> QED
    BY <2>1, <2>2 DEF ReadyInv, ReadyIsFullyEmbedded, ReadyAt, LoopReady
<1>2. CASE \E w \in Workers : Claim(w) \/ Step(w) \/ LoopError(w)
  BY <1>2, StepReady
<1>3. ASSUME NEW d \in Docs, NEW v \in Versions, Upload(d, v) PROVE ReadyInv'
  <2>1. PICK j \in Jobs : jobs[j].status = "none" /\ jobs' = [jobs EXCEPT ![j] = NewJob(@, d)]
    BY <1>3 DEF Upload, Unused
  <2>2. JobsKept
    <3>1. NewJob(jobs[j], d) \in JobRow /\ NewJob(jobs[j], d).doc = d
      BY JobTypes, NewJobEffects DEF TypeOK
    <3> QED
      BY <2>1, <3>1 DEF TypeOK, JobsKept, RowsInUse
  <2>3. NoChunks.nulls = {}
    BY DEF NoChunks
  <2> QED
    BY <1>0, <1>1, <1>3, <2>2, <2>3 DEF Upload
<1>4. CASE Reindex
  <2>1. \A j \in Jobs : jobs[j].status # "none" => jobs'[j] = jobs[j]
    BY <1>4 DEF Reindex, Unused
  <2>2. \A d \in Docs : docs'[d].status \in {docs[d].status, "pending"}
    BY <1>0, <1>4 DEF Reindex, DocRow
  <2>3. ASSUME NEW w \in Workers, wk[w].at # "idle" PROVE Doc(w)' = Doc(w) /\ Doc(w) \in Docs
    BY <1>4, <2>1, <2>3 DEF Reindex, RowsInUse, Doc
  <2>4. ASSUME NEW w \in Workers PROVE LoopReady(w)'
    BY <1>4, <2>2, <2>3, ReadyParts DEF Reindex, LoopReady
  <2>5. ASSUME NEW d \in Docs PROVE ReadyAt(d)'
    BY <1>4, <2>2, ReadyParts DEF Reindex, ReadyAt
  <2> QED
    BY <2>4, <2>5 DEF ReadyInv, ReadyIsFullyEmbedded, ReadyAt, LoopReady
<1>5. ASSUME NEW D \in SUBSET Docs, DeleteRows(D), \A d \in D : DocExists(d), wk' = wk
      PROVE  ReadyInv'
  <2>1. JobsKept
    BY <1>5, DeletionTyped
  <2>2. \A d \in Docs : docs'[d].status \in {docs[d].status, "deleted"}
    BY <1>0, <1>5 DEF DeleteRows, DocRow
  <2>3. \A d \in Docs : chunks'[d] \in {chunks[d], NoChunks}
    BY <1>5 DEF DeleteRows
  <2> QED
    BY <1>1, <1>5, <2>1, <2>2, <2>3 DEF NoChunks
<1>6. ASSUME (\E d \in Docs : DeleteDocument(d)) \/ DeleteWorkspace PROVE ReadyInv'
  BY <1>5, <1>6 DEF DeleteDocument, DeleteWorkspace
<1>7. ASSUME docs' = docs, chunks' = chunks, wk' = wk,
             \A j \in Jobs : jobs'[j].doc = jobs[j].doc
      PROVE  ReadyInv'
  BY <1>7 DEF ReadyInv, ReadyIsFullyEmbedded, Doc, RowsInUse
<1>8. CASE (\E j \in Jobs : Lapse(j)) \/ Sweep \/ Restart
  <2>1. ASSUME NEW j \in Jobs PROVE jobs'[j].doc = jobs[j].doc
    <3>1. jobs[j] \in JobRow
      BY DEF TypeOK
    <3>2. ReclaimedRow(jobs[j]).doc = jobs[j].doc
      BY <3>1 DEF ReclaimedRow, JobRow
    <3>3. [jobs[j] EXCEPT !.beat = "stale"].doc = jobs[j].doc
      BY <3>1 DEF JobRow
    <3> QED
      BY <1>8, <3>2, <3>3 DEF TypeOK, Lapse, Sweep, Restart
  <2> QED
    BY <1>7, <1>8, <2>1 DEF Lapse, Sweep, Restart
<1>9. CASE Crash
  BY <1>9 DEF Crash, ReadyInv, ReadyIsFullyEmbedded, IdleWorker
<1>10. CASE UNCHANGED vars
  BY <1>7, <1>10 DEF vars
<1> QED
  BY <1>2, <1>3, <1>4, <1>6, <1>8, <1>9, <1>10 DEF Next

(* The promise of pgvector_store.py, for the default WORKER_CONCURRENCY=1: *)
(* no ready document has a chunk without its vector, for any number of     *)
(* documents, versions, batches, retries and crashes.  With a second loop  *)
(* it does not hold (README, section 4).                                   *)
THEOREM OneLoopReady ==
    ASSUME OneLoop
    PROVE  Spec => []ReadyIsFullyEmbedded
<1>1. Init => ReadyInv
  BY DEF Init, ReadyInv, ReadyIsFullyEmbedded, NoChunks, IdleWorker
<1>2. TypeOK /\ RowsInUse /\ ReadyInv /\ [Next]_vars => TypeOK' /\ RowsInUse' /\ ReadyInv'
  BY NextTyped, NextReady
<1>3. ReadyInv => ReadyIsFullyEmbedded
  BY DEF ReadyInv
<1> QED
  BY <1>1, <1>2, <1>3, InitTyped, PTL DEF Spec

-----------------------------------------------------------------------------
(* The newest job of a document has the last word.                         *)

(* A release that failed strands a running job until the sweep finds it,   *)
(* and younger jobs overtake it.  The invariant is about runs without one. *)
Orderly == faults = 0 \/ "release" \notin FaultKinds

(* Job numbers are given out in order. *)
InSequence ==
    \A i, j \in Jobs : i < j /\ jobs[j].status # "none" => jobs[i].status # "none"

(* A row says how far its job came, and its document lives as long. *)
RowFacts(j) ==
    /\ jobs[j].status \in {"running", "succeeded", "failed"} => jobs[j].attempts # 0
    /\ jobs[j].status = "none" => jobs[j].attempts = 0
    /\ Exists(jobs[j]) /\ jobs[j].cw # 0 => jobs[j].attempts # 0
    /\ Exists(jobs[j]) => DocExists(jobs[j].doc)
    /\ jobs[j].status = "deleted" => docs[jobs[j].doc].status = "deleted"

(* Chunks were written by a run of a job of their document; while its      *)
(* checkpoint does not say so, none of them has a vector.                  *)
ChunkFacts(d) ==
    LET j == chunks[d].gen[1] IN
    j # 0 =>
      /\ j \in Jobs /\ jobs[j].doc = d /\ jobs[j].attempts # 0
      /\ Open(j) /\ jobs[j].cw = 0 => chunks[d].nulls = 1..ChunkCount[chunks[d].ver]

(* A running job is being run. *)
RunningIsHeld(j) ==
    jobs[j].status = "running" => ~up \/ \E w \in Workers : Held(w) = j

(* No job is attempted before the jobs queued earlier are done with, ... *)
InOrder(i, j) ==
    i < j /\ Exists(jobs[j]) /\ jobs[j].attempts # 0 => ~Open(i)

(* ... and none after the loop's job has been attempted. *)
LoopFacts(w) ==
    wk[w].at # "idle" =>
      /\ jobs[wk[w].job].attempts # 0
      /\ \A j \in Jobs : j > wk[w].job /\ Exists(jobs[j]) => jobs[j].attempts = 0
      /\ wk[w].at \in {"status", "fail"} =>
           jobs[wk[w].job].status \in {"pending", "failed", "deleted"}

(* The two halves of a run: before and after the chunks are written. *)
Early(w) ==
    \/ wk[w].at \in {"parse", "pages", "profile", "chunk"}
    \/ wk[w].at \in {"advance", "mark"} /\ wk[w].stage # "embedding"

Late(w) ==
    \/ wk[w].at \in {"count", "batch", "embed", "progress", "ready", "finish"}
    \/ wk[w].at \in {"advance", "mark"} /\ wk[w].stage = "embedding"

(* The checkpoint of the run and that of its row. *)
CheckpointFacts(w) ==
    LET r == jobs[wk[w].job] IN
    wk[w].at # "idle" /\ Exists(r) =>
      /\ wk[w].at = "load" => r.cw = wk[w].cw
      /\ Early(w) => wk[w].cw = 0 /\ r.cw = 0
      /\ Late(w) => wk[w].cw # 0
      /\ Late(w) /\ wk[w].at # "advance" => r.cw # 0

(* The chunks of d are those of its stored bytes. *)
Current(d) == chunks[d].gen # NoChunks.gen /\ chunks[d].ver = docs[d].ver

(* What the run of a document's newest job leaves behind on its way, ... *)
NewestRun(w) ==
    wk[w].at # "idle" /\ Newest(Doc(w), wk[w].job) =>
      /\ Late(w) => Current(Doc(w))
      /\ Parsed(w) => wk[w].ver = docs[Doc(w)].ver
      /\ wk[w].at = "finish" =>
           docs[Doc(w)].status = "ready" /\ chunks[Doc(w)].nulls = {}

(* ... and what its row then says of the document. *)
NewestRow(d, j) ==
    Newest(d, j) =>
      /\ jobs[j].cw # 0 => Current(d)
      /\ jobs[j].status = "succeeded" => docs[d].status = "ready" /\ Indexed(d)
      /\ jobs[j].status = "failed" /\ faults = 0 =>
           \/ docs[d].status = "failed"
           \/ \E w \in Workers : wk[w].job = j /\ wk[w].at \in {"status", "fail"}

OneLoopInv ==
    /\ InSequence
    /\ \A j \in Jobs : RowFacts(j)
    /\ \A d \in Docs : ChunkFacts(d)
    /\ \A j \in Jobs : RunningIsHeld(j)
    /\ \A i, j \in Jobs : InOrder(i, j)
    /\ \A w \in Workers : LoopFacts(w)
    /\ \A w \in Workers : CheckpointFacts(w)
    /\ \A w \in Workers : NewestRun(w)
    /\ \A d \in Docs, j \in Jobs : NewestRow(d, j)

-----------------------------------------------------------------------------
(* What every transaction of a run leaves alone. *)

Known == TypeOK /\ RowsInUse /\ ReadyInv /\ Owned /\ Alive

(* Other jobs, other documents, and the identity of its own. *)
Frame(w) ==
    /\ wk[w].at # "idle" /\ up' = up
    /\ wk'[w].at = "idle" \/ wk'[w].job = wk[w].job
    /\ \A i \in Jobs :
        /\ jobs'[i].doc = jobs[i].doc /\ jobs'[i].attempts = jobs[i].attempts
        /\ jobs'[i].status = "none" <=> jobs[i].status = "none"
        /\ jobs'[i].status = "deleted" <=> jobs[i].status = "deleted"
        /\ Open(i)' => Open(i)
        /\ i # wk[w].job => jobs'[i] = jobs[i]
    /\ \A e \in Docs :
        /\ docs'[e].ver = docs[e].ver
        /\ docs'[e].status = "absent" <=> docs[e].status = "absent"
        /\ docs'[e].status = "deleted" <=> docs[e].status = "deleted"
        /\ e # Doc(w) => docs'[e] = docs[e] /\ chunks'[e] = chunks[e]

(* The loop, its job and its document, typed. *)
LEMMA BusyTypes ==
    ASSUME Known, NEW w \in Workers, wk[w].at # "idle"
    PROVE  /\ wk \in [Workers -> Loop] /\ wk[w] \in Loop
           /\ wk[w].job \in Jobs /\ jobs[wk[w].job] \in JobRow
           /\ jobs[wk[w].job].status # "none" /\ Doc(w) \in Docs
           /\ docs \in [Docs -> DocRow] /\ docs[Doc(w)] \in DocRow
           /\ chunks \in [Docs -> ChunkRows] /\ chunks[Doc(w)] \in ChunkRows
           /\ jobs \in [Jobs -> JobRow]
           /\ wk[w].at \in RunSteps \cup {"release"} =>
                /\ Held(w) = wk[w].job
                /\ jobs[wk[w].job].status \in {"running", "deleted"}
BY QueueAssumption DEF Known, TypeOK, RowsInUse, Doc, Held, Owned, Jobs

(* Writing a status to a document. *)
LEMMA StatusFrame ==
    ASSUME Known, NEW d \in Docs, NEW s \in Stages \cup {"ready", "failed"},
           docs' = WithStatus(d, s)
    PROVE  /\ DocExists(d) => docs'[d].status = s
           /\ \A e \in Docs :
               /\ docs'[e].ver = docs[e].ver
               /\ docs'[e].status = "absent" <=> docs[e].status = "absent"
               /\ docs'[e].status = "deleted" <=> docs[e].status = "deleted"
               /\ e # d => docs'[e] = docs[e]
<1>0. docs \in [Docs -> DocRow] /\ docs[d] \in DocRow
  BY DEF Known, TypeOK
<1>1. CASE DocExists(d)
  <2>1. docs' = [docs EXCEPT ![d] = [docs[d] EXCEPT !.status = s]]
    BY <1>1 DEF WithStatus
  <2>2. docs'[d].status = s /\ docs'[d].ver = docs[d].ver
    BY <1>0, <2>1 DEF DocRow
  <2>3. \A e \in Docs : e # d => docs'[e] = docs[e]
    BY <1>0, <2>1
  <2>4. s # "absent" /\ s # "deleted"
    BY DEF Stages
  <2> QED
    BY <1>1, <2>2, <2>3, <2>4 DEF DocExists
<1>2. CASE ~DocExists(d)
  BY <1>2 DEF WithStatus
<1> QED
  BY <1>1, <1>2

(* Writing a checkpoint to a job. *)
LEMMA CheckpointFrame ==
    ASSUME Known, NEW j \in Jobs, NEW n \in Nat, jobs' = WithCheckpoint(j, n)
    PROVE  /\ jobs'[j].cw = IF Exists(jobs[j]) THEN n ELSE jobs[j].cw
           /\ \A i \in Jobs :
               /\ jobs'[i].doc = jobs[i].doc /\ jobs'[i].attempts = jobs[i].attempts
               /\ jobs'[i].status = jobs[i].status
               /\ i # j => jobs'[i] = jobs[i]
<1>0. jobs \in [Jobs -> JobRow] /\ jobs[j] \in JobRow
  BY DEF Known, TypeOK
<1>1. CASE Exists(jobs[j])
  <2>1. jobs' = [jobs EXCEPT ![j] = [jobs[j] EXCEPT !.cw = n, !.beat = "fresh"]]
    BY <1>0, <1>1 DEF WithCheckpoint
  <2> QED
    BY <1>0, <1>1, <2>1 DEF JobRow
<1>2. CASE ~Exists(jobs[j])
  BY <1>2 DEF WithCheckpoint
<1> QED
  BY <1>1, <1>2

(* The report of a run: what finish and release make of a row. *)
LEMMA ReportFrame ==
    ASSUME Known, NEW w \in Workers, Finish(w) \/ Release(w)
    PROVE  /\ \A i \in Jobs :
               /\ jobs'[i].doc = jobs[i].doc /\ jobs'[i].attempts = jobs[i].attempts
               /\ jobs'[i].cw = jobs[i].cw
               /\ i # wk[w].job => jobs'[i] = jobs[i]
           /\ ~Exists(jobs[wk[w].job]) => jobs'[wk[w].job] = jobs[wk[w].job]
           /\ Exists(jobs[wk[w].job]) /\ Finish(w) => jobs'[wk[w].job].status = "succeeded"
           /\ Exists(jobs[wk[w].job]) /\ Release(w) =>
                jobs'[wk[w].job].status \in {"pending", "failed"}
<1> DEFINE j == wk[w].job
<1>0. jobs \in [Jobs -> JobRow] /\ j \in Jobs /\ jobs[j] \in JobRow
  BY BusyTypes DEF Finish, Release
<1>1. CASE Finish(w)
  <2>1. jobs' = [jobs EXCEPT ![j] = IF Exists(jobs[j]) THEN FinishedRow(jobs[j]) ELSE jobs[j]]
    BY <1>1 DEF Finish
  <2>2. /\ FinishedRow(jobs[j]).doc = jobs[j].doc
        /\ FinishedRow(jobs[j]).attempts = jobs[j].attempts
        /\ FinishedRow(jobs[j]).cw = jobs[j].cw
        /\ FinishedRow(jobs[j]).status = "succeeded"
    BY <1>0 DEF FinishedRow, JobRow
  <2>3. wk[w].at = "finish"
    BY <1>1 DEF Finish
  <2>4. ~Release(w)
    BY <2>3 DEF Release
  <2> QED
    BY <1>0, <2>1, <2>2, <2>4
<1>2. CASE Release(w)
  <2>1. jobs' = [jobs EXCEPT ![j] = IF Exists(jobs[j]) THEN ReleasedRow(jobs[j]) ELSE jobs[j]]
    BY <1>2 DEF Release
  <2>2. /\ ReleasedRow(jobs[j]).doc = jobs[j].doc
        /\ ReleasedRow(jobs[j]).attempts = jobs[j].attempts
        /\ ReleasedRow(jobs[j]).cw = jobs[j].cw
        /\ ReleasedRow(jobs[j]).status \in {"pending", "failed"}
    BY <1>0 DEF ReleasedRow, JobRow
  <2>3. ~Finish(w)
    BY <1>2 DEF Release, Finish
  <2> QED
    BY <1>0, <2>1, <2>2, <2>3
<1> QED
  BY <1>1, <1>2

LEMMA RunFrame ==
    ASSUME Known, NEW w \in Workers, Step(w) \/ LoopError(w)
    PROVE  Frame(w)
<1>1. wk[w].at # "idle"
  BY DEF Step, LoopError, Load, Advance, Mark, Parse, Pages, Profile, Chunk, Count,
         Batch, Embed, Progress, Ready, Finish, Raise, Release, ReadStatus,
         MarkFailed, RunSteps
<1> DEFINE j == wk[w].job
           d == Doc(w)
<1>2. /\ wk \in [Workers -> Loop] /\ wk[w] \in Loop /\ j \in Jobs /\ d \in Docs
      /\ jobs[j] \in JobRow /\ docs \in [Docs -> DocRow]
      /\ chunks \in [Docs -> ChunkRows] /\ jobs[j].status # "none"
      /\ jobs \in [Jobs -> JobRow]
      /\ wk[w].stage \in Stages /\ wk[w].cw \in Nat
  BY <1>1, BusyTypes DEF Loop
<1>3. up' = up
  BY DEF Step, LoopError, Load, Advance, Mark, Parse, Pages, Profile, Chunk, Count,
         Batch, Embed, Progress, Ready, Finish, Raise, Release, ReadStatus, MarkFailed
<1>4. wk'[w].at = "idle" \/ wk'[w].job = j
  <2>1. CASE Load(w) \/ Pages(w) \/ Profile(w)
    BY <1>2, <2>1 DEF Load, Pages, Profile, GotoStage, Loop
  <2>2. CASE \/ Advance(w) \/ Mark(w) \/ Count(w) \/ Progress(w) \/ Ready(w)
             \/ Release(w)
    BY <1>2, <2>2 DEF Advance, Mark, Count, Progress, Ready, Release, Goto, Loop
  <2>3. CASE Parse(w) \/ Chunk(w) \/ Embed(w)
    BY <1>2, <2>3 DEF Parse, Chunk, Embed, Loop
  <2>4. CASE Batch(w)
    BY <1>2, <2>4 DEF Batch, Goto, Loop
  <2>5. CASE Raise(w)
    BY <1>2, <2>5 DEF Raise, AfterRaise, IdleWorker
  <2>7. CASE ReadStatus(w)
    BY <1>2, <2>7 DEF ReadStatus, Goto, Rest, IdleWorker, Loop
  <2>6. CASE Finish(w) \/ MarkFailed(w) \/ LoopError(w)
    BY <1>2, <2>6 DEF Finish, MarkFailed, LoopError, Rest, IdleWorker
  <2> QED
    BY <2>1, <2>2, <2>3, <2>4, <2>5, <2>6, <2>7 DEF Step
<1>5. ASSUME NEW i \in Jobs
      PROVE  /\ jobs'[i].doc = jobs[i].doc /\ jobs'[i].attempts = jobs[i].attempts
             /\ jobs'[i].status = "none" <=> jobs[i].status = "none"
             /\ jobs'[i].status = "deleted" <=> jobs[i].status = "deleted"
             /\ Open(i)' => Open(i)
             /\ i # j => jobs'[i] = jobs[i]
  <2>1. CASE Advance(w) \/ Progress(w)
    BY <1>2, <2>1, CheckpointFrame DEF Advance, Progress, Open
  <2>2. CASE Finish(w) \/ Release(w)
    <3>1. jobs[j].status \in {"running", "deleted"}
      BY <1>1, <2>2, BusyTypes DEF Finish, Release, RunSteps
    <3> QED
      BY <2>2, <3>1, ReportFrame DEF Open, Exists
  <2>3. CASE jobs' = jobs
    BY <2>3 DEF Open
  <2>4. jobs' = jobs \/ Advance(w) \/ Progress(w) \/ Finish(w) \/ Release(w)
    BY DEF Step, LoopError, Load, Mark, Parse, Pages, Profile, Chunk, Count,
           Batch, Embed, Ready, Raise, ReadStatus, MarkFailed
  <2> QED
    BY <2>1, <2>2, <2>3, <2>4
<1>6. ASSUME NEW e \in Docs
      PROVE  /\ docs'[e].ver = docs[e].ver
             /\ docs'[e].status = "absent" <=> docs[e].status = "absent"
             /\ docs'[e].status = "deleted" <=> docs[e].status = "deleted"
             /\ e # d => docs'[e] = docs[e]
  <2>1. docs' = docs \/ \E s \in Stages \cup {"ready", "failed"} : docs' = WithStatus(d, s)
    <3>1. CASE Mark(w) \/ Pages(w) \/ Ready(w) \/ MarkFailed(w)
      BY <1>2, <3>1 DEF Mark, Pages, Ready, MarkFailed, Stages
    <3> QED
      BY <3>1 DEF Step, LoopError, Load, Advance, Parse, Profile, Chunk, Count,
         Batch, Embed, Progress, Finish, Raise, Release, ReadStatus
  <2> QED
    BY <1>2, <2>1, StatusFrame
<1>7. ASSUME NEW e \in Docs, e # d PROVE chunks'[e] = chunks[e]
  BY <1>2, <1>7 DEF Step, LoopError, Load, Advance, Mark, Parse, Pages, Profile, Chunk,
     Count, Batch, Embed, Progress, Ready, Finish, Raise, Release, ReadStatus, MarkFailed
<1> QED
  BY <1>1, <1>3, <1>4, <1>5, <1>6, <1>7 DEF Frame

-----------------------------------------------------------------------------
(* A transaction of a run has to be looked at only where it works. *)

LEMMA SameNewest ==
    ASSUME Known, NEW w \in Workers, Frame(w)
    PROVE  /\ \A i \in Jobs : Exists(jobs[i])' <=> Exists(jobs[i])
           /\ \A e \in Docs : DocExists(e)' <=> DocExists(e)
           /\ \A e \in Docs, i \in Jobs : Newest(e, i)' <=> Newest(e, i)
<1>1. \A i \in Jobs : (Exists(jobs[i])' <=> Exists(jobs[i])) /\ jobs'[i].doc = jobs[i].doc
  BY DEF Frame, Exists
<1>2. \A e \in Docs : DocExists(e)' <=> DocExists(e)
  BY DEF Frame, DocExists
<1>3. \A e \in Docs : JobsOf(e)' = JobsOf(e)
  BY <1>1 DEF JobsOf
<1> QED
  BY <1>1, <1>2, <1>3 DEF Newest

(* The newest job of the loop's document is its own or still untouched. *)
LEMMA OnlyNewest ==
    ASSUME Known, OneLoopInv, NEW w \in Workers, wk[w].at # "idle",
           NEW i \in Jobs, Newest(Doc(w), i), i # wk[w].job
    PROVE  jobs[i].attempts = 0
<1> DEFINE j == wk[w].job
<1>0. /\ j \in Jobs /\ j \in Int /\ i \in Int
      /\ jobs[j].status # "none" /\ Exists(jobs[i]) /\ jobs[i].doc = Doc(w)
      /\ LoopFacts(w) /\ RowFacts(i) /\ RowFacts(j)
  BY BusyTypes DEF OneLoopInv, Newest, JobsOf, Jobs
<1>1. CASE i > j
  BY <1>0, <1>1 DEF LoopFacts
<1>2. CASE i < j
  <2>1. ~Exists(jobs[j])
    BY <1>0, <1>2 DEF Newest, JobsOf, Doc
  <2>2. docs[Doc(w)].status = "deleted"
    BY <1>0, <2>1 DEF Exists, RowFacts, Doc
  <2> QED
    BY <1>0, <2>2 DEF RowFacts, DocExists
<1> QED
  BY <1>0, <1>1, <1>2

(* What is left to show of a transaction of w's run, with job j of d. *)
Local(w, j, d) ==
    /\ RunningIsHeld(j)'
    /\ LoopFacts(w)'
    /\ CheckpointFacts(w)'
    /\ NewestRun(w)'
    /\ ChunkFacts(d)'
    /\ NewestRow(d, j)'
    /\ jobs'[j].status \in {"running", "succeeded", "failed"} => jobs'[j].attempts # 0

LEMMA RunKeeps ==
    ASSUME OneLoop, Known, OneLoopInv, NEW w \in Workers, Frame(w),
           NEW j \in Jobs, j = wk[w].job, NEW d \in Docs, d = Doc(w),
           Local(w, j, d), faults' = 0 => faults = 0
    PROVE  OneLoopInv'
<1>0. /\ j \in Jobs /\ d \in Docs /\ jobs[j].status # "none" /\ jobs[j].doc = d
      /\ wk[w].at # "idle" /\ \A v \in Workers : v = w
  BY BusyTypes DEF Frame, OneLoop, Doc
<1>1. InSequence'
  BY DEF Frame, OneLoopInv, InSequence
<1>2. ASSUME NEW i \in Jobs PROVE RowFacts(i)'
  <2>0. RowFacts(i) /\ LoopFacts(w)
    BY DEF OneLoopInv
  <2>1. jobs[i].status # "none" => jobs[i].doc \in Docs
    BY DEF Known, RowsInUse
  <2>2. jobs'[i].doc = jobs[i].doc /\ jobs'[i].attempts = jobs[i].attempts
    BY DEF Frame
  <2>3. CASE i = j
    BY <1>0, <2>0, <2>1, <2>2, <2>3 DEF Local, Frame, RowFacts, LoopFacts, Exists, DocExists
  <2>4. CASE i # j
    BY <1>0, <2>0, <2>1, <2>2, <2>4 DEF Frame, RowFacts, Exists, DocExists
  <2> QED
    BY <2>3, <2>4
<1>3. ASSUME NEW e \in Docs PROVE ChunkFacts(e)'
  <2>1. CASE e = d
    BY <2>1 DEF Local
  <2>2. CASE e # d
    <3>1. ChunkFacts(e) /\ chunks'[e] = chunks[e]
      BY <2>2 DEF OneLoopInv, Frame
    <3> DEFINE i == chunks[e].gen[1]
    <3>2. i # 0 => i \in Jobs /\ i # j /\ jobs'[i] = jobs[i]
      BY <1>0, <2>2, <3>1 DEF ChunkFacts, Frame
    <3> QED
      BY <3>1, <3>2 DEF ChunkFacts, Open
  <2> QED
    BY <2>1, <2>2
<1>4. ASSUME NEW i \in Jobs PROVE RunningIsHeld(i)'
  <2>1. CASE i = j
    BY <2>1 DEF Local
  <2>2. CASE i # j
    <3>1. RunningIsHeld(i) /\ jobs'[i] = jobs[i] /\ up' = up
      BY <2>2 DEF OneLoopInv, Frame
    <3>2. Held(w) # i
      BY <1>0, <2>2, QueueAssumption DEF Held, Jobs
    <3> QED
      BY <1>0, <3>1, <3>2 DEF RunningIsHeld
  <2> QED
    BY <2>1, <2>2
<1>5. ASSUME NEW i \in Jobs, NEW k \in Jobs PROVE InOrder(i, k)'
  <2>1. InOrder(i, k)
    BY DEF OneLoopInv
  <2> QED
    BY <2>1 DEF Frame, InOrder, Exists
<1>6. ASSUME NEW v \in Workers
      PROVE  LoopFacts(v)' /\ CheckpointFacts(v)' /\ NewestRun(v)'
  BY <1>0 DEF Local
<1>7. ASSUME NEW e \in Docs, NEW i \in Jobs PROVE NewestRow(e, i)'
  <2>0. NewestRow(e, i) /\ (Newest(e, i)' <=> Newest(e, i)) /\ RowFacts(i)
    BY SameNewest DEF OneLoopInv
  <2>1. CASE e = d /\ i = j
    BY <2>1 DEF Local
  <2>2. CASE e = d /\ i # j
    <3>1. jobs'[i] = jobs[i]
      BY <2>2 DEF Frame
    <3>2. Newest(e, i) => Exists(jobs[i]) /\ jobs[i].attempts = 0
      BY <1>0, <2>2, OnlyNewest DEF Newest, JobsOf
    <3> QED
      BY <2>0, <3>1, <3>2 DEF NewestRow, RowFacts, Exists
  <2>3. CASE e # d
    <3>1. docs'[e] = docs[e] /\ chunks'[e] = chunks[e]
      BY <2>3 DEF Frame
    <3>2. Newest(e, i) => i # j
      BY <1>0, <2>3 DEF Newest, JobsOf
    <3>3. Newest(e, i) => jobs'[i] = jobs[i]
      BY <3>2 DEF Frame
    <3>4. Newest(e, i) => wk[w].job # i
      BY <3>2
    <3> QED
      BY <1>0, <2>0, <3>1, <3>3, <3>4 DEF NewestRow, Current, Indexed
  <2> QED
    BY <2>1, <2>2, <2>3
<1> QED
  BY <1>1, <1>2, <1>3, <1>4, <1>5, <1>6, <1>7 DEF OneLoopInv

(* While the loop is inside run_job its row says running. *)
LEMMA OnTheRun ==
    ASSUME OneLoop, Known, OneLoopInv, NEW w \in Workers, Frame(w),
           NEW j \in Jobs, j = wk[w].job, NEW d \in Docs, d = Doc(w),
           wk[w].at \in RunSteps, wk'[w].at \in RunSteps \cup {"release"},
           jobs'[j].status = jobs[j].status,
           CheckpointFacts(w)', NewestRun(w)', ChunkFacts(d)',
           Newest(d, j) /\ jobs'[j].cw # 0 => Current(d)'
    PROVE  Local(w, j, d)
<1>0. jobs[j].status \in {"running", "deleted"} /\ LoopFacts(w)
  BY BusyTypes DEF RunSteps, OneLoopInv
<1>1. wk'[w].at # "idle" /\ wk'[w].job = j /\ Held(w)' = j
  BY DEF Frame, RunSteps, Held
<1>2. RunningIsHeld(j)'
  BY <1>1 DEF RunningIsHeld
<1>3. wk[w].at # "idle"
  BY DEF RunSteps
<1>4. jobs[j].attempts # 0 /\ jobs'[j].attempts # 0
  BY <1>0, <1>3 DEF LoopFacts, Frame
<1>5. LoopFacts(w)'
  <2>1. \A i \in Jobs : i > j /\ Exists(jobs[i]) => jobs[i].attempts = 0
    BY <1>0, <1>3 DEF LoopFacts
  <2>2. \A i \in Jobs : i > j /\ Exists(jobs'[i]) => jobs'[i].attempts = 0
    BY <2>1, SameNewest DEF Frame
  <2>3. wk'[w].at \notin {"status", "fail"}
    BY DEF RunSteps
  <2> QED
    BY <1>1, <1>4, <2>2, <2>3 DEF LoopFacts
<1>6. NewestRow(d, j)'
  <2>1. Newest(d, j)' <=> Newest(d, j)
    BY SameNewest
  <2> QED
    BY <1>0, <2>1 DEF NewestRow
<1> QED
  BY <1>2, <1>4, <1>5, <1>6 DEF Local

(* Without a write to the chunks only the checkpoint matters to them. *)
LEMMA SameChunks ==
    ASSUME Known, OneLoopInv, NEW w \in Workers, Frame(w),
           NEW j \in Jobs, j = wk[w].job, NEW d \in Docs, d = Doc(w),
           chunks' = chunks, jobs'[j].cw = 0 => jobs[j].cw = 0 \/ ~Open(j)
    PROVE  ChunkFacts(d)'
<1>1. ChunkFacts(d)
  BY DEF OneLoopInv
<1>2. \A i \in Jobs : Open(i)' => Open(i)
  BY DEF Frame
<1>3. \A i \in Jobs : /\ jobs'[i].doc = jobs[i].doc /\ jobs'[i].attempts = jobs[i].attempts
                      /\ i # j => jobs'[i] = jobs[i]
  BY DEF Frame
<1> QED
  BY <1>1, <1>2, <1>3 DEF ChunkFacts

(* The first half of a run. *)
LEMMA EarlyStep ==
    ASSUME OneLoop, Known, OneLoopInv, NEW w \in Workers,
           \/ Load(w) \/ Advance(w) \/ Mark(w) \/ Parse(w) \/ Pages(w) \/ Profile(w)
           \/ Chunk(w) \/ Raise(w),
           NEW j \in Jobs, j = wk[w].job, NEW d \in Docs, d = Doc(w)
    PROVE  Local(w, j, d)
<1>0. Frame(w)
  BY RunFrame DEF Step
<1>1. /\ wk[w].at \in RunSteps /\ wk[w].at # "idle"
      /\ wk \in [Workers -> Loop] /\ wk[w] \in Loop /\ jobs[j] \in JobRow
      /\ chunks \in [Docs -> ChunkRows] /\ jobs[j].status \in {"running", "deleted"}
      /\ wk[w].cw \in Nat /\ wk[w].stage \in Stages
  <2>1. wk[w].at \in RunSteps /\ wk[w].at # "idle"
    BY DEF Load, Advance, Mark, Parse, Pages, Profile, Chunk, Raise, RunSteps
  <2> QED
    BY <2>1, BusyTypes DEF Loop
<1>2. CheckpointFacts(w) /\ NewestRun(w) /\ NewestRow(d, j) /\ ChunkFacts(d)
  BY DEF OneLoopInv
<1>3. /\ Newest(d, j)' <=> Newest(d, j)
      /\ Exists(jobs'[j]) <=> Exists(jobs[j])
      /\ Newest(d, j) => Exists(jobs[j]) /\ jobs[j].status = "running"
      /\ wk'[w].job = j => Doc(w)' = d
  <2>1. /\ Newest(d, j)' <=> Newest(d, j)
        /\ Exists(jobs'[j]) <=> Exists(jobs[j])
    BY <1>0, SameNewest
  <2>2. wk'[w].job = j => Doc(w)' = d
    BY <1>0 DEF Frame, Doc
  <2> QED
    BY <1>1, <2>1, <2>2 DEF Newest, JobsOf, Exists
<1>4. CASE Load(w)
  <2>1. /\ wk'[w].at = "advance" /\ wk'[w].cw = wk[w].cw /\ wk'[w].job = j
        /\ wk'[w].stage = IF wk[w].cw = 0 THEN "parsing" ELSE "embedding"
    BY <1>1, <1>4 DEF Load, GotoStage, Loop
  <2>2. jobs' = jobs /\ docs' = docs /\ chunks' = chunks /\ wk[w].at = "load"
    BY <1>4 DEF Load
  <2>3. CheckpointFacts(w)'
    BY <1>2, <2>1, <2>2 DEF CheckpointFacts, Early, Late
  <2>4. Newest(d, j) /\ wk[w].cw # 0 => Current(d)
    BY <1>1, <1>2, <1>3, <2>2 DEF CheckpointFacts, NewestRow
  <2>5. NewestRun(w)'
    BY <1>3, <2>1, <2>2, <2>4 DEF NewestRun, Late, Parsed, Current
  <2>6. Newest(d, j) /\ jobs'[j].cw # 0 => Current(d)'
    BY <1>2, <2>2 DEF NewestRow, Current
  <2> QED
    BY <1>0, <1>1, <2>1, <2>2, <2>3, <2>5, <2>6, SameChunks, OnTheRun DEF RunSteps
<1>5. CASE Advance(w)
  <2>1. /\ wk'[w].at = "mark" /\ wk'[w].cw = wk[w].cw /\ wk'[w].job = j
        /\ wk'[w].stage = wk[w].stage /\ wk'[w].ver = wk[w].ver
    BY <1>1, <1>5 DEF Advance, Goto, Loop
  <2>2. docs' = docs /\ chunks' = chunks /\ wk[w].at = "advance"
    BY <1>5 DEF Advance
  <2>3. /\ jobs'[j].cw = IF Exists(jobs[j]) THEN wk[w].cw ELSE jobs[j].cw
        /\ jobs'[j].status = jobs[j].status
    BY <1>1, <1>5, CheckpointFrame DEF Advance
  <2>4. CheckpointFacts(w)'
    BY <1>2, <1>3, <2>1, <2>2, <2>3 DEF CheckpointFacts, Early, Late
  <2>5. NewestRun(w)'
    BY <1>2, <1>3, <2>1, <2>2 DEF NewestRun, Late, Parsed, Current
  <2>6. Newest(d, j) /\ jobs'[j].cw # 0 => Current(d)'
    BY <1>2, <1>3, <2>2, <2>3 DEF NewestRun, CheckpointFacts, Early, Late, Current
  <2>7. jobs'[j].cw = 0 => jobs[j].cw = 0
    BY <1>2, <2>2, <2>3 DEF CheckpointFacts, Early, Late
  <2> QED
    BY <1>0, <1>1, <2>1, <2>2, <2>3, <2>4, <2>5, <2>6, <2>7, SameChunks, OnTheRun DEF RunSteps
<1>6. CASE Mark(w) \/ Pages(w) \/ Profile(w)
  <2>1. /\ wk'[w].cw = wk[w].cw /\ wk'[w].job = j /\ wk'[w].ver = wk[w].ver
        /\ \/ wk[w].at = "mark" /\ wk[w].stage = "parsing" /\ wk'[w].at = "parse"
           \/ wk[w].at = "mark" /\ wk[w].stage = "profiling" /\ wk'[w].at = "profile"
           \/ wk[w].at = "mark" /\ wk[w].stage = "chunking" /\ wk'[w].at = "chunk"
           \/ wk[w].at = "mark" /\ wk[w].stage = "embedding" /\ wk'[w].at = "count"
           \/ wk[w].at = "pages" /\ wk'[w].at = "advance" /\ wk'[w].stage = "profiling"
           \/ wk[w].at = "profile" /\ wk'[w].at = "advance" /\ wk'[w].stage = "chunking"
    <3>1. CASE Mark(w)
      <4>1. PICK p \in {"parse", "profile", "chunk", "count"} :
              /\ Goto(w, p) /\ wk[w].at = "mark"
              /\ \/ wk[w].stage = "parsing" /\ p = "parse"
                 \/ wk[w].stage = "profiling" /\ p = "profile"
                 \/ wk[w].stage = "chunking" /\ p = "chunk"
                 \/ wk[w].stage = "embedding" /\ p = "count"
        BY <1>1, <3>1 DEF Mark, Stages
      <4>2. wk'[w].at = p /\ wk'[w].cw = wk[w].cw /\ wk'[w].job = j
            /\ wk'[w].ver = wk[w].ver
        BY <1>1, <4>1 DEF Goto, Loop
      <4> QED
        BY <4>1, <4>2
    <3>2. CASE Pages(w) \/ Profile(w)
      BY <1>1, <3>2 DEF Pages, Profile, GotoStage, Loop
    <3> QED
      BY <1>6, <3>1, <3>2
  <2>2. jobs' = jobs /\ chunks' = chunks /\ docs'[d].ver = docs[d].ver
    BY <1>0, <1>6 DEF Mark, Pages, Profile, Frame
  <2>3. wk'[w].at \in RunSteps /\ wk'[w].at # "finish"
    BY <2>1 DEF RunSteps
  <2>4. (Early(w)' => Early(w)) /\ (Late(w)' => Late(w)) /\ (Parsed(w)' => Parsed(w))
        /\ wk'[w].at # "load" /\ wk[w].at # "advance"
    BY <2>1 DEF Early, Late, Parsed
  <2>5. CheckpointFacts(w)'
    BY <1>1, <1>2, <2>1, <2>2, <2>4 DEF CheckpointFacts
  <2>6. NewestRun(w)'
    BY <1>1, <1>2, <1>3, <2>1, <2>2, <2>3, <2>4 DEF NewestRun, Current
  <2>7. Newest(d, j) /\ jobs'[j].cw # 0 => Current(d)'
    BY <1>2, <2>2 DEF NewestRow, Current
  <2> QED
    BY <1>0, <1>1, <2>2, <2>3, <2>5, <2>6, <2>7, SameChunks, OnTheRun
<1>7. CASE Parse(w)
  <2>1. /\ wk'[w].at = "pages" /\ wk'[w].cw = wk[w].cw /\ wk'[w].job = j
        /\ wk'[w].ver = docs[d].ver
    BY <1>1, <1>7 DEF Parse, Loop
  <2>2. jobs' = jobs /\ docs' = docs /\ chunks' = chunks /\ wk[w].at = "parse"
    BY <1>7 DEF Parse
  <2>3. CheckpointFacts(w)'
    BY <1>2, <2>1, <2>2 DEF CheckpointFacts, Early, Late
  <2>4. NewestRun(w)'
    BY <1>3, <2>1, <2>2 DEF NewestRun, Late, Parsed
  <2>5. Newest(d, j) /\ jobs'[j].cw # 0 => Current(d)'
    BY <1>2, <2>2 DEF NewestRow, Current
  <2> QED
    BY <1>0, <1>1, <2>1, <2>2, <2>3, <2>4, <2>5, SameChunks, OnTheRun DEF RunSteps
<1>8. CASE Chunk(w)
  <2>0. wk[w].ver \in Versions /\ ChunkCount[wk[w].ver] \in Nat \ {0}
    BY <1>8, IngestionAssumption DEF Known, RowsInUse, Parsed, Chunk
  <2>1. /\ wk'[w].at = "advance" /\ wk'[w].stage = "embedding" /\ wk'[w].job = j
        /\ wk'[w].cw = ChunkCount[wk[w].ver]
    BY <1>1, <1>8 DEF Chunk, Loop
  <2>2. jobs' = jobs /\ docs' = docs /\ wk[w].at = "chunk"
        /\ chunks'[d] = NewChunks(<<j, jobs[j].attempts>>, wk[w].ver)
    BY <1>1, <1>8 DEF Chunk
  <2>3. /\ chunks'[d].gen = <<j, jobs[j].attempts>> /\ chunks'[d].ver = wk[w].ver
        /\ chunks'[d].nulls = 1..ChunkCount[chunks'[d].ver]
    BY <2>2 DEF NewChunks
  <2>4. chunks'[d].gen[1] = j /\ j # 0 /\ chunks'[d].gen # NoChunks.gen
    BY <2>3, QueueAssumption DEF NoChunks, Jobs
  <2>5. CheckpointFacts(w)'
    BY <1>2, <2>0, <2>1, <2>2 DEF CheckpointFacts, Early, Late
  <2>6. Newest(d, j) => Current(d)'
    BY <1>1, <1>2, <2>2, <2>3, <2>4 DEF NewestRun, Parsed, Current
  <2>7. NewestRun(w)'
    BY <1>3, <2>1, <2>6 DEF NewestRun, Parsed
  <2>8. ChunkFacts(d)'
    <3>1. jobs[j].attempts # 0 /\ jobs[j].doc = d
      BY <1>1 DEF OneLoopInv, LoopFacts, Doc
    <3> QED
      BY <2>2, <2>3, <2>4, <3>1 DEF ChunkFacts
  <2> QED
    BY <1>0, <1>1, <2>1, <2>2, <2>5, <2>6, <2>7, <2>8, OnTheRun DEF RunSteps
<1>9. CASE Raise(w)
  <2>1. wk'[w].at = "release" /\ wk'[w].job = j
    BY <1>1, <1>9 DEF Raise, AfterRaise, IdleWorker
  <2>2. jobs' = jobs /\ docs' = docs /\ chunks' = chunks
    BY <1>9 DEF Raise
  <2>3. CheckpointFacts(w)' /\ NewestRun(w)'
    BY <2>1 DEF CheckpointFacts, NewestRun, Early, Late, Parsed
  <2>4. Newest(d, j) /\ jobs'[j].cw # 0 => Current(d)'
    BY <1>2, <2>2 DEF NewestRow, Current
  <2> QED
    BY <1>0, <1>1, <2>1, <2>2, <2>3, <2>4, SameChunks, OnTheRun
<1> QED
  BY <1>4, <1>5, <1>6, <1>7, <1>8, <1>9

(* The second half of a run. *)
LEMMA LateStep ==
    ASSUME OneLoop, Known, OneLoopInv, NEW w \in Workers,
           Count(w) \/ Batch(w) \/ Embed(w) \/ Progress(w) \/ Ready(w),
           NEW j \in Jobs, j = wk[w].job, NEW d \in Docs, d = Doc(w)
    PROVE  Local(w, j, d)
<1>0. Frame(w)
  BY RunFrame DEF Step
<1>1. /\ wk[w].at \in RunSteps /\ wk[w].at # "idle" /\ Late(w) /\ ~Early(w)
      /\ wk[w].at # "advance"
      /\ wk \in [Workers -> Loop] /\ wk[w] \in Loop /\ jobs[j] \in JobRow
      /\ chunks \in [Docs -> ChunkRows] /\ jobs[j].status \in {"running", "deleted"}
      /\ wk[w].cw \in Nat
  <2>1. /\ wk[w].at \in RunSteps /\ wk[w].at # "idle" /\ Late(w) /\ ~Early(w)
        /\ wk[w].at # "advance"
    BY DEF Count, Batch, Embed, Progress, Ready, RunSteps, Late, Early
  <2> QED
    BY <2>1, BusyTypes DEF Loop
<1>2. CheckpointFacts(w) /\ NewestRun(w) /\ NewestRow(d, j) /\ ChunkFacts(d)
  BY DEF OneLoopInv
<1>3. /\ Newest(d, j)' <=> Newest(d, j)
      /\ Exists(jobs'[j]) <=> Exists(jobs[j])
      /\ Newest(d, j) => Exists(jobs[j]) /\ Current(d)
      /\ wk'[w].job = j => Doc(w)' = d
  <2>1. /\ Newest(d, j)' <=> Newest(d, j)
        /\ Exists(jobs'[j]) <=> Exists(jobs[j])
    BY <1>0, SameNewest
  <2>2. wk'[w].job = j => Doc(w)' = d
    BY <1>0 DEF Frame, Doc
  <2>3. Newest(d, j) => Exists(jobs[j]) /\ Current(d)
    BY <1>1, <1>2 DEF Newest, JobsOf, NewestRun
  <2> QED
    BY <2>1, <2>2, <2>3
<1>4. Exists(jobs[j]) => wk[w].cw # 0 /\ jobs[j].cw # 0
  BY <1>1, <1>2 DEF CheckpointFacts
<1>5. /\ wk'[w].cw = wk[w].cw /\ wk'[w].job = j
      /\ wk'[w].at \in {"batch", "embed", "progress", "ready", "finish"}
      /\ wk'[w].at = "finish" => Ready(w)
  <2>1. CASE Count(w) \/ Progress(w) \/ Ready(w)
    BY <1>1, <2>1 DEF Count, Progress, Ready, Goto, Loop
  <2>2. CASE Batch(w)
    BY <1>1, <2>2 DEF Batch, Goto, Loop
  <2>3. CASE Embed(w)
    BY <1>1, <2>3 DEF Embed, Loop
  <2> QED
    BY <2>1, <2>2, <2>3
<1>6. /\ chunks'[d].gen = chunks[d].gen /\ chunks'[d].ver = chunks[d].ver
      /\ docs'[d].ver = docs[d].ver
  <2>1. CASE Embed(w)
    <3>1. chunks'[d] = Vectorised(chunks[d], wk[w].batch) /\ chunks[d] \in ChunkRows
      BY <1>1, <2>1 DEF Embed
    <3> QED
      BY <1>0, <3>1 DEF Vectorised, ChunkRows, Frame
  <2>2. CASE ~Embed(w)
    BY <1>0, <2>2 DEF Count, Batch, Progress, Ready, Frame
  <2> QED
    BY <2>1, <2>2
<1>7. jobs'[j].status = jobs[j].status /\ (Exists(jobs[j]) => jobs'[j].cw # 0)
  <2>1. CASE Progress(w)
    BY <1>1, <1>4, <2>1, CheckpointFrame DEF Progress
  <2>2. CASE ~Progress(w)
    BY <1>4, <2>2 DEF Count, Batch, Embed, Ready
  <2> QED
    BY <2>1, <2>2
<1>8. CheckpointFacts(w)'
  BY <1>3, <1>4, <1>5, <1>7 DEF CheckpointFacts, Early
<1>9. Current(d) => Current(d)'
  BY <1>6 DEF Current
<1>10. Ready(w) /\ Newest(d, j) => docs'[d].status = "ready" /\ chunks'[d].nulls = {}
  <2>1. SUFFICES ASSUME Ready(w), Newest(d, j)
                 PROVE  docs'[d].status = "ready" /\ chunks'[d].nulls = {}
    OBVIOUS
  <2>2. chunks[d].nulls = {} /\ chunks' = chunks
    BY <2>1 DEF Ready, Known, ReadyInv
  <2>3. DocExists(d)
    BY <2>1 DEF OneLoopInv, RowFacts, Newest, JobsOf
  <2> QED
    BY <2>1, <2>2, <2>3, StatusFrame DEF Ready
<1>11. NewestRun(w)'
  BY <1>3, <1>5, <1>9, <1>10 DEF NewestRun, Parsed
<1>12. ChunkFacts(d)'
  <2>1. CASE chunks' = chunks
    BY <1>0, <1>4, <1>7, <2>1, SameChunks DEF Open, Exists
  <2>2. CASE Embed(w)
    <3> DEFINE i == chunks[d].gen[1]
    <3>1. jobs' = jobs /\ wk[w].at = "embed"
      BY <2>2 DEF Embed
    <3>2. CASE i = 0
      BY <1>6, <3>2 DEF ChunkFacts
    <3>3. CASE i # 0
      <4>1. i \in Jobs /\ jobs[i].doc = d /\ jobs[i].attempts # 0
        BY <1>2, <3>3 DEF ChunkFacts
      <4>2. ~(Open(i) /\ jobs[i].cw = 0)
        <5>1. CASE i = j
          BY <1>4, <5>1 DEF Open, Exists
        <5>2. CASE i > j
          BY <1>1, <4>1, <5>2 DEF OneLoopInv, LoopFacts, Open, Exists
        <5>3. CASE i < j
          <6>1. jobs[j].attempts # 0 /\ jobs[j].doc = d
            BY <1>1 DEF OneLoopInv, LoopFacts, Doc
          <6>2. CASE Exists(jobs[j])
            BY <4>1, <5>3, <6>1, <6>2 DEF OneLoopInv, InOrder
          <6>3. CASE ~Exists(jobs[j])
            <7>1. docs[d].status = "deleted"
              BY <1>1, <6>1, <6>3 DEF OneLoopInv, RowFacts, Exists
            <7> QED
              BY <4>1, <7>1 DEF OneLoopInv, RowFacts, DocExists, Open, Exists
          <6> QED
            BY <6>2, <6>3
        <5> QED
          BY <4>1, <5>1, <5>2, <5>3 DEF Jobs
      <4> QED
        BY <1>6, <3>1, <4>1, <4>2 DEF ChunkFacts, Open
    <3> QED
      BY <3>2, <3>3
  <2> QED
    BY <2>1, <2>2 DEF Count, Batch, Progress, Ready
<1> QED
  BY <1>0, <1>1, <1>3, <1>5, <1>7, <1>8, <1>9, <1>11, <1>12, OnTheRun DEF RunSteps

(* The end of a run: its outcome is recorded, read back and shown. *)
LEMMA LastStep ==
    ASSUME OneLoop, Known, OneLoopInv, Orderly', NEW w \in Workers,
           \/ Finish(w) \/ Release(w) \/ ReadStatus(w) \/ MarkFailed(w) \/ LoopError(w),
           NEW j \in Jobs, j = wk[w].job, NEW d \in Docs, d = Doc(w)
    PROVE  Local(w, j, d)
<1>0. Frame(w)
  BY RunFrame DEF Step
<1>1. /\ wk[w].at # "idle"
      /\ wk \in [Workers -> Loop] /\ wk[w] \in Loop /\ jobs[j] \in JobRow
      /\ chunks \in [Docs -> ChunkRows] /\ \A v \in Workers : v = w
      /\ jobs[j].doc = d
  <2>1. wk[w].at # "idle"
    BY DEF Finish, Release, ReadStatus, MarkFailed, LoopError
  <2> QED
    BY <2>1, BusyTypes DEF OneLoop, Doc
<1>2. /\ CheckpointFacts(w) /\ NewestRun(w) /\ NewestRow(d, j) /\ ChunkFacts(d)
      /\ LoopFacts(w) /\ RowFacts(j) /\ RunningIsHeld(j)
  BY DEF OneLoopInv
<1>3. /\ Newest(d, j)' <=> Newest(d, j)
      /\ Exists(jobs'[j]) <=> Exists(jobs[j])
      /\ Newest(d, j) => Exists(jobs[j]) /\ DocExists(d)
      /\ chunks' = chunks /\ docs'[d].ver = docs[d].ver
      /\ jobs'[j].attempts = jobs[j].attempts /\ jobs[j].attempts # 0
      /\ \A i \in Jobs : i # j => jobs'[i] = jobs[i]
  <2>1. /\ Newest(d, j)' <=> Newest(d, j)
        /\ Exists(jobs'[j]) <=> Exists(jobs[j])
    BY <1>0, SameNewest
  <2>2. Newest(d, j) => Exists(jobs[j]) /\ DocExists(d)
    BY <1>1, <1>2 DEF Newest, JobsOf, RowFacts
  <2>3. chunks' = chunks
    BY DEF Finish, Release, ReadStatus, MarkFailed, LoopError
  <2> QED
    BY <1>0, <1>1, <1>2, <2>1, <2>2, <2>3 DEF Frame, LoopFacts
<1>4. jobs'[j].cw = jobs[j].cw
  BY ReportFrame DEF ReadStatus, MarkFailed, LoopError
<1>5. ChunkFacts(d)'
  BY <1>0, <1>3, <1>4, SameChunks
<1>6. Newest(d, j) /\ jobs'[j].cw # 0 => Current(d)'
  BY <1>2, <1>3, <1>4 DEF NewestRow, Current
<1>7. CASE Finish(w)
  <2>1. wk'[w].at = "idle"
    BY <1>1, <1>7 DEF Finish, Rest, IdleWorker
  <2>2. wk[w].at = "finish" /\ docs' = docs
    BY <1>7 DEF Finish
  <2>3. jobs[j].status \in {"running", "deleted"}
    BY <2>2, BusyTypes DEF RunSteps
  <2>4. jobs'[j].status = IF Exists(jobs[j]) THEN "succeeded" ELSE "deleted"
    BY <1>7, <2>3, ReportFrame DEF Exists
  <2>5. Newest(d, j) => docs'[d].status = "ready" /\ Indexed(d)'
    BY <1>1, <1>2, <1>3, <2>2 DEF NewestRun, Late, Current, Indexed
  <2>6. NewestRow(d, j)'
    BY <1>3, <1>6, <2>4, <2>5 DEF NewestRow
  <2> QED
    BY <1>3, <1>5, <2>1, <2>4, <2>6
       DEF Local, RunningIsHeld, LoopFacts, CheckpointFacts, NewestRun
<1>8. CASE Release(w)
  <2>1. wk'[w].at = "status" /\ wk'[w].job = j
    BY <1>1, <1>8 DEF Release, Goto, Loop
  <2>2. wk[w].at = "release" /\ docs' = docs
    BY <1>8 DEF Release
  <2>3. jobs[j].status \in {"running", "deleted"}
    BY <2>2, BusyTypes DEF RunSteps
  <2>4. jobs'[j].status \in {"pending", "failed", "deleted"}
    BY <1>8, <2>3, ReportFrame DEF Exists
  <2>5. \A i \in Jobs : i > j /\ Exists(jobs'[i]) => jobs'[i].attempts = 0
    BY <1>1, <1>2, <1>3 DEF LoopFacts
  <2>6. LoopFacts(w)'
    BY <1>3, <2>1, <2>4, <2>5 DEF LoopFacts
  <2>7. NewestRow(d, j)'
    BY <1>3, <1>6, <2>1, <2>4 DEF NewestRow
  <2>8. CheckpointFacts(w)' /\ NewestRun(w)' /\ RunningIsHeld(j)'
    BY <2>1, <2>4 DEF CheckpointFacts, NewestRun, RunningIsHeld, Early, Late, Parsed
  <2> QED
    BY <1>3, <1>5, <2>4, <2>6, <2>7, <2>8 DEF Local
<1>9. CASE ReadStatus(w)
  <2>1. jobs' = jobs /\ docs' = docs /\ wk[w].at = "status"
    BY <1>9 DEF ReadStatus
  <2>2. jobs[j].status \in {"pending", "failed", "deleted"}
    BY <1>1, <1>2, <2>1 DEF LoopFacts
  <2>3. CASE jobs[j].status = "failed"
    <3>1. wk'[w].at = "fail" /\ wk'[w].job = j
      BY <1>1, <1>9, <2>3 DEF ReadStatus, HasFailed, Goto, Loop
    <3>2. LoopFacts(w)'
      BY <1>1, <1>2, <2>1, <2>3, <3>1 DEF LoopFacts
    <3>3. NewestRow(d, j)'
      BY <1>3, <1>6, <2>1, <2>3, <3>1 DEF NewestRow
    <3>4. CheckpointFacts(w)' /\ NewestRun(w)' /\ RunningIsHeld(j)'
      BY <2>1, <2>3, <3>1 DEF CheckpointFacts, NewestRun, RunningIsHeld, Early, Late, Parsed
    <3> QED
      BY <1>3, <1>5, <2>1, <2>3, <3>2, <3>3, <3>4 DEF Local
  <2>4. CASE jobs[j].status # "failed"
    <3>1. wk'[w].at = "idle"
      BY <1>1, <1>9, <2>4 DEF ReadStatus, HasFailed, Rest, IdleWorker
    <3>2. NewestRow(d, j)'
      BY <1>3, <1>6, <2>1, <2>2, <2>4 DEF NewestRow
    <3> QED
      BY <1>3, <1>5, <2>1, <2>2, <2>4, <3>1, <3>2
         DEF Local, RunningIsHeld, LoopFacts, CheckpointFacts, NewestRun
  <2> QED
    BY <2>3, <2>4
<1>10. CASE MarkFailed(w)
  <2>1. jobs' = jobs /\ docs' = WithStatus(d, "failed") /\ wk[w].at = "fail"
    BY <1>10 DEF MarkFailed
  <2>2. wk'[w].at = "idle"
    BY <1>1, <1>10 DEF MarkFailed, Rest, IdleWorker
  <2>3. jobs[j].status \in {"pending", "failed", "deleted"}
    BY <1>1, <1>2, <2>1 DEF LoopFacts
  <2>4. DocExists(d) => docs'[d].status = "failed"
    BY <2>1, StatusFrame
  <2>5. NewestRow(d, j)'
    BY <1>3, <1>6, <2>1, <2>3, <2>4 DEF NewestRow
  <2> QED
    BY <1>3, <1>5, <2>1, <2>2, <2>3, <2>5
       DEF Local, RunningIsHeld, LoopFacts, CheckpointFacts, NewestRun
<1>11. CASE LoopError(w)
  <2>1. jobs' = jobs /\ docs' = docs /\ wk'[w].at = "idle" /\ faults' # 0
    BY <1>1, <1>11 DEF LoopError, Rest, IdleWorker, Known, TypeOK
  <2>2. wk[w].at \in {"status", "fail"}
    BY <1>11, <2>1 DEF LoopError, Orderly
  <2>3. jobs[j].status \in {"pending", "failed", "deleted"}
    BY <1>1, <1>2, <2>2 DEF LoopFacts
  <2>4. NewestRow(d, j)'
    BY <1>3, <1>6, <2>1, <2>3 DEF NewestRow
  <2> QED
    BY <1>3, <1>5, <2>1, <2>3, <2>4
       DEF Local, RunningIsHeld, LoopFacts, CheckpointFacts, NewestRun
<1> QED
  BY <1>7, <1>8, <1>9, <1>10, <1>11

-----------------------------------------------------------------------------
(* The steps that are not a transaction of a run. *)

(* The parts of the invariant, instantiated. *)
LEMMA Parts ==
    ASSUME OneLoopInv
    PROVE  /\ InSequence
           /\ \A j \in Jobs : RowFacts(j) /\ RunningIsHeld(j)
           /\ \A d \in Docs : ChunkFacts(d)
           /\ \A i, j \in Jobs : InOrder(i, j)
           /\ \A w \in Workers : LoopFacts(w) /\ CheckpointFacts(w) /\ NewestRun(w)
           /\ \A d \in Docs, j \in Jobs : NewestRow(d, j)
BY DEF OneLoopInv

LEMMA ClaimKeeps ==
    ASSUME OneLoop, Known, OneLoopInv, NEW w \in Workers, Claim(w)
    PROVE  OneLoopInv'
<1> PICK j \in Jobs :
      /\ IsOldest(jobs, j)
      /\ jobs' = [jobs EXCEPT ![j] = ClaimedRow(@)]
      /\ wk' = [wk EXCEPT ![w].at = "load", ![w].job = j, ![w].cw = jobs[j].cw]
  BY DEF Claim
<1>0. /\ jobs \in [Jobs -> JobRow] /\ jobs[j] \in JobRow
      /\ wk \in [Workers -> Loop] /\ wk[w] \in Loop
      /\ up /\ wk[w].at = "idle" /\ \A v \in Workers : v = w
      /\ docs' = docs /\ chunks' = chunks /\ up' = up /\ faults' = faults
      /\ jobs[j].status = "pending" /\ \A i \in Jobs : i < j => jobs[i].status # "pending"
  BY DEF Known, TypeOK, Claim, OneLoop, IsOldest, Claimable
<1>1. /\ jobs'[j].status = "running" /\ jobs'[j].attempts # 0
      /\ jobs'[j].doc = jobs[j].doc /\ jobs'[j].cw = jobs[j].cw
      /\ \A i \in Jobs : i # j => jobs'[i] = jobs[i]
  <2>1. jobs[j].attempts \in Nat
    BY <1>0 DEF JobRow
  <2>2. /\ ClaimedRow(jobs[j]).status = "running"
        /\ ClaimedRow(jobs[j]).attempts = jobs[j].attempts + 1
        /\ ClaimedRow(jobs[j]).doc = jobs[j].doc /\ ClaimedRow(jobs[j]).cw = jobs[j].cw
    BY <1>0 DEF ClaimedRow, JobRow
  <2>3. jobs' = [jobs EXCEPT ![j] = ClaimedRow(jobs[j])]
    OBVIOUS
  <2>4. jobs'[j] = ClaimedRow(jobs[j]) /\ \A i \in Jobs : i # j => jobs'[i] = jobs[i]
    BY <1>0, <2>3
  <2> QED
    BY <2>1, <2>2, <2>4
<1>2. wk'[w].at = "load" /\ wk'[w].job = j /\ wk'[w].cw = jobs[j].cw
  BY <1>0 DEF Loop
<1>3. Held(w) = NoJob /\ Held(w)' = j
  BY <1>0, <1>2 DEF Held, RunSteps
<1>4. \A i \in Jobs : Exists(jobs'[i]) <=> Exists(jobs[i])
  BY <1>0, <1>1 DEF Exists
<1>5. \A d \in Docs, i \in Jobs : Newest(d, i)' <=> Newest(d, i)
  <2>1. \A d \in Docs : JobsOf(d)' = JobsOf(d)
    BY <1>1, <1>4 DEF JobsOf
  <2> QED
    BY <2>1 DEF Newest
<1>6. \A i \in Jobs : i < j => ~Open(i)
  <2>1. ASSUME NEW i \in Jobs, jobs[i].status = "running" PROVE FALSE
    <3>1. Held(w) # i
      BY <1>3, QueueAssumption DEF Jobs
    <3> QED
      BY <1>0, <2>1, <3>1, Parts DEF RunningIsHeld
  <2> QED
    BY <1>0, <2>1 DEF Open
<1>7. \A i \in Jobs : i > j /\ Exists(jobs[i]) => jobs[i].attempts = 0
  BY <1>0, Parts DEF InOrder, Open
<1>8. InSequence'
  BY <1>0, <1>1, Parts DEF InSequence
<1>9. ASSUME NEW i \in Jobs PROVE RowFacts(i)'
  <2>1. RowFacts(i)
    BY Parts
  <2> QED
    BY <1>0, <1>1, <2>1 DEF RowFacts, DocExists, Exists
<1>10. ASSUME NEW d \in Docs PROVE ChunkFacts(d)'
  <2>1. ChunkFacts(d)
    BY Parts
  <2> QED
    BY <1>0, <1>1, <2>1 DEF ChunkFacts, Open
<1>11. ASSUME NEW i \in Jobs PROVE RunningIsHeld(i)'
  <2>1. RunningIsHeld(i)
    BY Parts
  <2>2. jobs[i].status = "running" => FALSE
    <3>1. Held(w) # i
      BY <1>3, QueueAssumption DEF Jobs
    <3> QED
      BY <1>0, <2>1, <3>1 DEF RunningIsHeld
  <2> QED
    BY <1>1, <1>3, <2>2 DEF RunningIsHeld
<1>12. ASSUME NEW i \in Jobs, NEW k \in Jobs PROVE InOrder(i, k)'
  <2>1. InOrder(i, k)
    BY Parts
  <2>2. i < k /\ i = j => k > j
    BY DEF Jobs
  <2> QED
    BY <1>1, <1>4, <1>6, <1>7, <2>1, <2>2 DEF InOrder, Open, Jobs
<1>13. ASSUME NEW v \in Workers
       PROVE  LoopFacts(v)' /\ CheckpointFacts(v)' /\ NewestRun(v)'
  <2>1. v = w
    BY <1>0
  <2>2. LoopFacts(w)'
    <3>1. \A i \in Jobs : i > j => i # j
      BY DEF Jobs
    <3>2. \A i \in Jobs : i > j /\ Exists(jobs'[i]) => jobs'[i].attempts = 0
      BY <1>1, <1>4, <1>7, <3>1
    <3> QED
      BY <1>1, <1>2, <3>2 DEF LoopFacts
  <2>3. CheckpointFacts(w)' /\ NewestRun(w)'
    BY <1>1, <1>2 DEF CheckpointFacts, NewestRun, Early, Late, Parsed
  <2> QED
    BY <2>1, <2>2, <2>3
<1>14. ASSUME NEW d \in Docs, NEW i \in Jobs PROVE NewestRow(d, i)'
  <2>1. NewestRow(d, i) /\ (Newest(d, i)' <=> Newest(d, i))
    BY <1>5, Parts
  <2> QED
    BY <1>0, <1>1, <2>1 DEF NewestRow, Current, Indexed
<1> QED
  BY <1>8, <1>9, <1>10, <1>11, <1>12, <1>13, <1>14 DEF OneLoopInv

(* Jobs S were queued: the lowest numbers, for documents that are pending  *)
(* now, with their chunks or without them.                                 *)
Queues(S) ==
    /\ S \subseteq Unused /\ \A i \in Unused, k \in S : i < k => i \in S
    /\ \A k \in S : /\ jobs'[k].status = "pending" /\ jobs'[k].cw = 0
                    /\ jobs'[k].attempts = jobs[k].attempts /\ jobs'[k].doc \in Docs
    /\ \A k \in Jobs \ S : jobs'[k] = jobs[k]
    /\ \A e \in Docs :
        \/ /\ docs'[e] = docs[e] /\ chunks'[e] = chunks[e]
           /\ \A k \in S : jobs'[k].doc # e
        \/ /\ docs[e].status # "deleted" /\ docs'[e].status = "pending"
           /\ chunks'[e] \in {chunks[e], NoChunks}
           /\ \E k \in S : jobs'[k].doc = e
    /\ wk' = wk /\ up' = up /\ faults' = faults

LEMMA QueueKeeps ==
    ASSUME Known, OneLoopInv, NEW S, Queues(S)
    PROVE  OneLoopInv'
<1>0. /\ S \subseteq Jobs /\ \A k \in S : jobs[k].status = "none" /\ jobs[k].attempts = 0
      /\ \A k \in Jobs : jobs[k].attempts # 0 => k \notin S
      /\ \A k \in Jobs : jobs[k].status # "none" => k \notin S /\ jobs'[k] = jobs[k]
      /\ wk' = wk /\ up' = up /\ faults' = faults
      /\ jobs \in [Jobs -> JobRow]
  BY Parts DEF Queues, Unused, RowFacts, Known, TypeOK
<1>1. \A i \in Jobs, k \in S : jobs[i].status # "none" => i < k
  <2>1. ASSUME NEW i \in Jobs, NEW k \in S, jobs[i].status # "none" PROVE i < k
    <3>1. k \in Jobs /\ jobs[k].status = "none" /\ k # i
      BY <1>0, <2>1
    <3> QED
      BY <2>1, <3>1, Parts DEF InSequence, Jobs
  <2> QED
    BY <2>1
<1>2. InSequence'
  <2>1. ASSUME NEW i \in Jobs, NEW k \in Jobs, i < k, jobs'[k].status # "none"
        PROVE  jobs'[i].status # "none"
    <3>1. CASE k \in S
      <4>1. i \in S \/ jobs[i].status # "none"
        BY <2>1, <3>1 DEF Queues, Unused
      <4> QED
        BY <1>0, <4>1 DEF Queues
    <3>2. CASE k \notin S
      BY <1>0, <2>1, <3>2, Parts DEF Queues, InSequence
    <3> QED
      BY <3>1, <3>2
  <2> QED
    BY <2>1 DEF InSequence
<1>3. ASSUME NEW k \in Jobs PROVE RowFacts(k)'
  <2>1. RowFacts(k) /\ (jobs[k].status # "none" => jobs[k].doc \in Docs)
    BY Parts DEF Known, RowsInUse
  <2>2. CASE k \in S
    <3>1. jobs'[k].doc \in Docs /\ docs'[jobs'[k].doc].status = "pending"
      BY <2>2 DEF Queues
    <3> QED
      BY <1>0, <2>2, <3>1 DEF Queues, RowFacts, DocExists
  <2>3. CASE k \notin S
    <3>1. jobs'[k] = jobs[k]
      BY <2>3 DEF Queues
    <3>2. \A e \in Docs : (DocExists(e) => DocExists(e)')
                          /\ (docs[e].status = "deleted" => docs'[e].status = "deleted")
      BY DEF Queues, DocExists
    <3> QED
      BY <2>1, <3>1, <3>2 DEF RowFacts, Exists
  <2> QED
    BY <2>2, <2>3
<1>4. ASSUME NEW e \in Docs PROVE ChunkFacts(e)'
  <2>1. CASE chunks'[e] = NoChunks
    BY <2>1 DEF ChunkFacts, NoChunks
  <2>2. CASE chunks'[e] = chunks[e]
    <3>1. ChunkFacts(e)
      BY Parts
    <3> DEFINE i == chunks[e].gen[1]
    <3>2. i # 0 => i \in Jobs /\ jobs'[i] = jobs[i]
      BY <1>0, <3>1 DEF ChunkFacts, Queues
    <3> QED
      BY <2>2, <3>1, <3>2 DEF ChunkFacts, Open
  <2> QED
    BY <2>1, <2>2 DEF Queues
<1>5. ASSUME NEW k \in Jobs PROVE RunningIsHeld(k)'
  <2>1. \A w \in Workers : Held(w)' = Held(w)
    BY <1>0 DEF Held
  <2> QED
    BY <1>0, <2>1, Parts DEF Queues, RunningIsHeld
<1>6. ASSUME NEW i \in Jobs, NEW k \in Jobs PROVE InOrder(i, k)'
  <2>1. CASE k \in S
    BY <1>0, <2>1 DEF Queues, InOrder
  <2>2. CASE k \notin S /\ i < k /\ Exists(jobs[k])
    <3>1. i \notin S
      BY <1>0, <1>1, <2>2 DEF Exists, Jobs
    <3> QED
      BY <2>2, <3>1, Parts DEF Queues, InOrder, Open
  <2> QED
    BY <2>1, <2>2 DEF Queues, InOrder
<1>7. ASSUME NEW e \in Docs, NEW i \in Jobs, i \notin S, Newest(e, i)'
      PROVE  /\ Newest(e, i) /\ docs'[e] = docs[e] /\ chunks'[e] = chunks[e]
             /\ jobs'[i] = jobs[i]
  <2>1. jobs'[i] = jobs[i] /\ Exists(jobs[i])
    BY <1>7 DEF Queues, Newest, JobsOf
  <2>2. ~ \E k \in S : jobs'[k].doc = e
    <3>1. SUFFICES ASSUME NEW k \in S, jobs'[k].doc = e PROVE FALSE
      OBVIOUS
    <3>2. i < k /\ k \in Jobs /\ Exists(jobs'[k])
      BY <1>0, <1>1, <2>1 DEF Queues, Exists
    <3>3. k \in JobsOf(e)'
      BY <3>1, <3>2 DEF JobsOf
    <3> QED
      BY <1>7, <3>2, <3>3 DEF Newest, Jobs
  <2>3. docs'[e] = docs[e] /\ chunks'[e] = chunks[e]
    BY <2>2 DEF Queues
  <2>4. \A k \in JobsOf(e) : k \in JobsOf(e)'
    BY <1>0 DEF JobsOf, Exists
  <2> QED
    BY <1>7, <2>1, <2>3, <2>4 DEF Newest, JobsOf
<1>8. ASSUME NEW w \in Workers
      PROVE  LoopFacts(w)' /\ CheckpointFacts(w)' /\ NewestRun(w)'
  <2>1. CASE wk[w].at = "idle"
    BY <1>0, <2>1 DEF LoopFacts, CheckpointFacts, NewestRun
  <2>2. CASE wk[w].at # "idle"
    <3> DEFINE j == wk[w].job
    <3>1. j \in Jobs /\ j \notin S /\ jobs'[j] = jobs[j] /\ Doc(w) \in Docs
      BY <1>0, <2>2, BusyTypes
    <3>2. Doc(w)' = Doc(w) /\ wk'[w] = wk[w]
      BY <1>0, <3>1 DEF Doc
    <3>3. LoopFacts(w) /\ CheckpointFacts(w) /\ NewestRun(w)
      BY Parts
    <3>4. LoopFacts(w)'
      <4>1. \A i \in Jobs : i > j /\ Exists(jobs'[i]) => jobs'[i].attempts = 0
        BY <1>0, <2>2, <3>3 DEF LoopFacts, Queues
      <4> QED
        BY <2>2, <3>1, <3>2, <3>3, <4>1 DEF LoopFacts
    <3>5. CheckpointFacts(w)'
      BY <3>1, <3>2, <3>3 DEF CheckpointFacts, Early, Late
    <3>6. NewestRun(w)'
      <4> DEFINE e == Doc(w)
      <4>1. SUFFICES ASSUME Newest(e, j)'
                     PROVE  /\ Late(w) => Current(e)'
                            /\ Parsed(w) => wk[w].ver = docs'[e].ver
                            /\ wk[w].at = "finish" =>
                                 docs'[e].status = "ready" /\ chunks'[e].nulls = {}
        BY <3>2 DEF NewestRun, Late, Parsed, Newest, JobsOf, Current
      <4>2. /\ Newest(e, j) /\ docs'[e] = docs[e] /\ chunks'[e] = chunks[e]
        <5>1. PICK f \in Docs : f = Doc(w)
          BY <3>1
        <5>2. PICK k \in Jobs : k = j
          BY <3>1
        <5>3. Newest(f, k)'
          BY <3>2, <4>1, <5>1, <5>2 DEF Newest, JobsOf
        <5> QED
          BY <1>7, <3>1, <5>1, <5>2, <5>3
      <4> QED
        BY <2>2, <3>2, <3>3, <4>2 DEF NewestRun, Current
    <3> QED
      BY <3>4, <3>5, <3>6
  <2> QED
    BY <2>1, <2>2
<1>9. ASSUME NEW e \in Docs, NEW i \in Jobs PROVE NewestRow(e, i)'
  <2>1. CASE i \in S
    BY <2>1 DEF Queues, NewestRow
  <2>2. CASE i \notin S
    BY <1>0, <1>7, <2>2, Parts DEF NewestRow, Current, Indexed
  <2> QED
    BY <2>1, <2>2
<1> QED
  BY <1>2, <1>3, <1>4, <1>5, <1>6, <1>8, <1>9 DEF OneLoopInv

(* What the requests that queue jobs do to the queue. *)
LEMMA UploadQueues ==
    ASSUME Known, NEW d \in Docs, NEW v \in Versions, Upload(d, v)
    PROVE  \E S : Queues(S)
<1> PICK j \in Unused :
      /\ \A i \in Unused : j <= i
      /\ jobs' = [jobs EXCEPT ![j] = NewJob(@, d)]
  BY DEF Upload
<1>1. j \in Jobs /\ jobs[j].status = "none" /\ jobs \in [Jobs -> JobRow] /\ jobs[j] \in JobRow
      /\ docs \in [Docs -> DocRow] /\ chunks \in [Docs -> ChunkRows]
  BY DEF Unused, Known, TypeOK
<1>2. NewJob(jobs[j], d).attempts = jobs[j].attempts
  BY <1>1 DEF NewJob, EnqueuedRow, JobRow
<1>3. /\ jobs'[j].status = "pending" /\ jobs'[j].cw = 0 /\ jobs'[j].doc = d
      /\ jobs'[j].attempts = jobs[j].attempts
      /\ \A k \in Jobs : k # j => jobs'[k] = jobs[k]
  BY <1>1, <1>2, NewJobEffects
<1>4. /\ docs[d].status # "deleted" /\ docs'[d].status = "pending"
      /\ chunks'[d] = NoChunks
      /\ \A e \in Docs : e # d => docs'[e] = docs[e] /\ chunks'[e] = chunks[e]
  BY <1>1 DEF Upload
<1>5. \A i \in Unused : i < j => i = j
  BY DEF Unused, Jobs
<1>6. wk' = wk /\ up' = up /\ faults' = faults
  BY DEF Upload
<1>7. Queues({j})
  BY <1>1, <1>3, <1>4, <1>5, <1>6 DEF Queues
<1> QED
  BY <1>7

LEMMA ReindexQueues ==
    ASSUME Known, Reindex
    PROVE  \E S : Queues(S)
<1> DEFINE D == {d \in Docs : DocExists(d)}
           J == {j \in Unused : Cardinality({i \in Unused : i < j}) < Cardinality(D)}
<1> PICK f \in [J -> D] :
      /\ \A d \in D : \E j \in J : f[j] = d
      /\ jobs' = [j \in Jobs |-> IF j \in J THEN NewJob(jobs[j], f[j]) ELSE jobs[j]]
  BY DEF Reindex
<1>1. /\ J \subseteq Unused /\ D \subseteq Docs
      /\ Cardinality(J) = Cardinality(D)
      /\ docs' = [d \in Docs |-> IF d \in D THEN [docs[d] EXCEPT !.status = "pending"]
                                 ELSE docs[d]]
      /\ chunks' = chunks /\ wk' = wk /\ up' = up /\ faults' = faults
  BY DEF Reindex
<1>2. ASSUME NEW i \in Unused, NEW k \in J, i < k PROVE i \in J
  <2> DEFINE B(m) == {n \in Unused : n < m}
  <2>1. i \in Int /\ k \in Int /\ IsFiniteSet(Unused)
    <3>1. IsFiniteSet(1..MaxJobs)
      BY QueueAssumption, FS_Interval
    <3>2. Unused \in SUBSET (1..MaxJobs)
      BY DEF Unused, Jobs
    <3>3. IsFiniteSet(Unused)
      BY <3>1, <3>2, FS_Subset
    <3>4. k \in Unused
      BY <1>1
    <3> QED
      BY <3>3, <3>4 DEF Unused, Jobs
  <2>2. IsFiniteSet(B(k)) /\ IsFiniteSet(B(i)) /\ IsFiniteSet(J)
    BY <1>1, <2>1, FS_Subset
  <2>3. B(i) \subseteq B(k)
    BY <1>2, <2>1 DEF Unused, Jobs
  <2>4. /\ Cardinality(B(i)) <= Cardinality(B(k))
        /\ Cardinality(B(i)) \in Nat /\ Cardinality(B(k)) \in Nat
        /\ Cardinality(D) \in Nat
    BY <1>1, <2>2, <2>3, FS_Subset, FS_CardinalityType
  <2>5. Cardinality(B(k)) < Cardinality(D)
    OBVIOUS
  <2> QED
    BY <2>4, <2>5
<1> HIDE DEF J
<1>3. ASSUME NEW k \in J
      PROVE  /\ jobs'[k].status = "pending" /\ jobs'[k].cw = 0
             /\ jobs'[k].attempts = jobs[k].attempts
             /\ jobs'[k].doc = f[k] /\ f[k] \in D
  <2>1. k \in Jobs /\ jobs[k] \in JobRow /\ jobs'[k] = NewJob(jobs[k], f[k]) /\ f[k] \in D
        /\ f[k] \in Docs
    BY <1>1 DEF Unused, Known, TypeOK
  <2>2. NewJob(jobs[k], f[k]).attempts = jobs[k].attempts
    BY <2>1 DEF NewJob, EnqueuedRow, JobRow
  <2> QED
    BY <2>1, <2>2, NewJobEffects
<1>4. ASSUME NEW e \in Docs
      PROVE  \/ /\ docs'[e] = docs[e] /\ chunks'[e] = chunks[e]
                /\ \A k \in J : jobs'[k].doc # e
             \/ /\ docs[e].status # "deleted" /\ docs'[e].status = "pending"
                /\ chunks'[e] \in {chunks[e], NoChunks}
                /\ \E k \in J : jobs'[k].doc = e
  <2>1. CASE e \in D
    <3>1. docs[e] \in DocRow /\ docs[e].status # "deleted"
      BY <2>1 DEF Known, TypeOK, DocExists
    <3>2. docs'[e].status = "pending"
      BY <1>1, <2>1, <3>1 DEF DocRow
    <3>3. \E k \in J : jobs'[k].doc = e
      BY <1>3, <2>1
    <3> QED
      BY <1>1, <3>1, <3>2, <3>3
  <2>2. CASE e \notin D
    <3>1. \A k \in J : jobs'[k].doc # e
      BY <1>3, <2>2
    <3> QED
      BY <1>1, <2>2, <3>1
  <2> QED
    BY <2>1, <2>2
<1>5. \A k \in Jobs \ J : jobs'[k] = jobs[k]
  OBVIOUS
<1>6. Queues(J)
  BY <1>1, <1>2, <1>3, <1>4, <1>5 DEF Queues
<1> QED
  BY <1>6

(* Rows that go take their chunks and jobs with them. *)
LEMMA DeletionKeeps ==
    ASSUME Known, OneLoopInv, NEW D \in SUBSET Docs, DeleteRows(D),
           \A d \in D : DocExists(d), wk' = wk, up' = up, faults' = faults
    PROVE  OneLoopInv'
<1>0. /\ jobs \in [Jobs -> JobRow] /\ docs \in [Docs -> DocRow]
      /\ chunks \in [Docs -> ChunkRows]
  BY DEF Known, TypeOK
<1>1. ASSUME NEW k \in Jobs
      PROVE  /\ jobs'[k].doc = jobs[k].doc /\ jobs'[k].attempts = jobs[k].attempts
             /\ jobs'[k].cw = jobs[k].cw
             /\ Exists(jobs[k]) /\ jobs[k].doc \in D => jobs'[k].status = "deleted"
             /\ ~(Exists(jobs[k]) /\ jobs[k].doc \in D) => jobs'[k] = jobs[k]
  <2>1. jobs[k] \in JobRow
    BY <1>0
  <2>2. (\E d \in D : k \in JobsOf(d)) <=> Exists(jobs[k]) /\ jobs[k].doc \in D
    BY DEF JobsOf
  <2> QED
    BY <2>1, <2>2 DEF DeleteRows, JobRow
<1>2. ASSUME NEW e \in Docs
      PROVE  /\ e \in D => docs'[e].status = "deleted" /\ chunks'[e] = NoChunks
             /\ e \notin D => docs'[e] = docs[e] /\ chunks'[e] = chunks[e]
  BY <1>0 DEF DeleteRows, DocRow
<1>3. \A k \in Jobs : jobs[k].status # "none" => jobs[k].doc \in Docs
  BY DEF Known, RowsInUse
<1>4. \A k \in Jobs : Exists(jobs'[k]) => Exists(jobs[k]) /\ jobs'[k] = jobs[k]
                                          /\ jobs[k].doc \notin D
  BY <1>1 DEF Exists
<1>5. InSequence'
  BY <1>1, Parts DEF InSequence, Exists
<1>6. ASSUME NEW k \in Jobs PROVE RowFacts(k)'
  <2>1. RowFacts(k)
    BY Parts
  <2>2. Exists(jobs'[k]) =>
          docs'[jobs'[k].doc].status \notin {"absent", "deleted"}
    <3>1. Exists(jobs'[k]) => jobs[k].doc \in Docs \ D /\ DocExists(jobs[k].doc)
                              /\ jobs'[k].doc = jobs[k].doc
      BY <1>1, <1>3, <1>4, <2>1 DEF RowFacts, Exists
    <3> QED
      BY <1>2, <3>1 DEF DocExists
  <2>3. jobs'[k].status = "deleted" => docs'[jobs'[k].doc].status = "deleted"
    BY <1>1, <1>2, <1>3, <2>1 DEF RowFacts
  <2>4. jobs'[k].status \in {"running", "succeeded", "failed"} => jobs'[k] = jobs[k]
    BY <1>1
  <2>5. jobs'[k].status = "none" => jobs'[k] = jobs[k]
    BY <1>1
  <2> QED
    BY <1>4, <2>1, <2>2, <2>3, <2>4, <2>5 DEF RowFacts, DocExists
<1>7. ASSUME NEW e \in Docs PROVE ChunkFacts(e)'
  <2>1. CASE e \in D
    BY <1>2, <2>1 DEF ChunkFacts, NoChunks
  <2>2. CASE e \notin D
    <3>1. ChunkFacts(e) /\ chunks'[e] = chunks[e]
      BY <1>2, <2>2, Parts
    <3> DEFINE i == chunks[e].gen[1]
    <3>2. i # 0 => i \in Jobs /\ jobs'[i] = jobs[i]
      BY <1>1, <2>2, <3>1 DEF ChunkFacts
    <3> QED
      BY <3>1, <3>2 DEF ChunkFacts, Open
  <2> QED
    BY <2>1, <2>2
<1>8. ASSUME NEW k \in Jobs PROVE RunningIsHeld(k)'
  <2>1. \A w \in Workers : Held(w)' = Held(w)
    BY DEF Held
  <2>2. jobs'[k].status = "running" => jobs[k].status = "running"
    BY <1>1
  <2> QED
    BY <2>1, <2>2, Parts DEF RunningIsHeld
<1>9. ASSUME NEW i \in Jobs, NEW k \in Jobs PROVE InOrder(i, k)'
  <2>1. InOrder(i, k) /\ (Open(i)' => Open(i))
    BY <1>1, Parts DEF Open
  <2> QED
    BY <1>1, <1>4, <2>1 DEF InOrder
<1>10. ASSUME NEW e \in Docs, NEW i \in Jobs, Newest(e, i)'
       PROVE  /\ Newest(e, i) /\ docs'[e] = docs[e] /\ chunks'[e] = chunks[e]
              /\ jobs'[i] = jobs[i]
  <2>1. Exists(jobs'[i]) /\ jobs'[i].doc = e
    BY <1>10 DEF Newest, JobsOf
  <2>2. jobs'[i] = jobs[i] /\ e \notin D /\ Exists(jobs[i])
    BY <1>4, <2>1
  <2>3. \A k \in JobsOf(e) : k \in JobsOf(e)'
    BY <1>1, <2>2 DEF JobsOf
  <2> QED
    BY <1>2, <1>10, <2>1, <2>2, <2>3 DEF Newest, JobsOf
<1>11. ASSUME NEW w \in Workers
       PROVE  LoopFacts(w)' /\ CheckpointFacts(w)' /\ NewestRun(w)'
  <2>1. CASE wk[w].at = "idle"
    BY <2>1 DEF LoopFacts, CheckpointFacts, NewestRun
  <2>2. CASE wk[w].at # "idle"
    <3> PICK j \in Jobs, e \in Docs : j = wk[w].job /\ e = Doc(w)
      BY <2>2, BusyTypes
    <3>1. Doc(w)' = e /\ wk'[w] = wk[w]
      BY <1>1 DEF Doc
    <3>2. LoopFacts(w) /\ CheckpointFacts(w) /\ NewestRun(w)
      BY Parts
    <3>3. LoopFacts(w)'
      BY <1>1, <1>4, <2>2, <3>1, <3>2 DEF LoopFacts
    <3>4. CheckpointFacts(w)'
      BY <1>4, <3>1, <3>2 DEF CheckpointFacts, Early, Late
    <3>5. NewestRun(w)'
      <4>1. Newest(Doc(w), wk[w].job)' <=> Newest(e, j)'
        BY <3>1 DEF Newest, JobsOf
      <4>2. Newest(e, j)' => Newest(e, j) /\ docs'[e] = docs[e] /\ chunks'[e] = chunks[e]
        BY <1>10
      <4> QED
        BY <2>2, <3>1, <3>2, <4>1, <4>2 DEF NewestRun, Current, Late, Parsed
    <3> QED
      BY <3>3, <3>4, <3>5
  <2> QED
    BY <2>1, <2>2
<1>12. ASSUME NEW e \in Docs, NEW i \in Jobs PROVE NewestRow(e, i)'
  BY <1>10, Parts DEF NewestRow, Current, Indexed
<1> QED
  BY <1>5, <1>6, <1>7, <1>8, <1>9, <1>11, <1>12 DEF OneLoopInv

(* The process: with one loop and no failed release nothing is stranded,   *)
(* so the sweep has nothing to do; a restart puts the job under way back.  *)
LEMMA ProcessKeeps ==
    ASSUME OneLoop, Known, OneLoopInv,
           (\E j \in Jobs : Lapse(j)) \/ Sweep \/ Crash \/ Restart
    PROVE  OneLoopInv'
<1>0. jobs \in [Jobs -> JobRow] /\ faults \in Nat
  BY DEF Known, TypeOK
<1>1. ASSUME NEW j \in Jobs, Lapse(j) PROVE FALSE
  BY <1>1, Parts DEF Lapse, RunningIsHeld
<1>2. CASE Sweep
  <2>1. PICK j \in Jobs : jobs[j].status = "running" /\ jobs[j].beat = "stale"
    BY <1>2 DEF Sweep, Stalled
  <2>2. PICK w \in Workers : Held(w) = j
    BY <1>2, <2>1, Parts DEF Sweep, RunningIsHeld
  <2>3. Held(w) # NoJob
    BY <2>2, QueueAssumption DEF Jobs
  <2> QED
    BY <2>1, <2>2, <2>3 DEF Known, Owned
<1>3. CASE Crash
  <2>1. /\ jobs' = jobs /\ docs' = docs /\ chunks' = chunks /\ ~up' /\ faults' # 0
        /\ \A w \in Workers : wk'[w].at = "idle"
    BY <1>0, <1>3 DEF Crash, IdleWorker
  <2>2. InSequence'
    BY <2>1, Parts DEF InSequence
  <2>3. ASSUME NEW j \in Jobs PROVE RowFacts(j)' /\ RunningIsHeld(j)'
    BY <2>1, Parts DEF RowFacts, RunningIsHeld, DocExists
  <2>4. ASSUME NEW d \in Docs PROVE ChunkFacts(d)'
    BY <2>1, Parts DEF ChunkFacts, Open
  <2>5. ASSUME NEW i \in Jobs, NEW j \in Jobs PROVE InOrder(i, j)'
    BY <2>1, Parts DEF InOrder, Open
  <2>6. ASSUME NEW w \in Workers
        PROVE  LoopFacts(w)' /\ CheckpointFacts(w)' /\ NewestRun(w)'
    BY <2>1 DEF LoopFacts, CheckpointFacts, NewestRun
  <2>7. ASSUME NEW d \in Docs, NEW j \in Jobs PROVE NewestRow(d, j)'
    BY <2>1, Parts DEF NewestRow, Newest, JobsOf, Current, Indexed
  <2> QED
    BY <2>2, <2>3, <2>4, <2>5, <2>6, <2>7 DEF OneLoopInv
<1>4. CASE Restart
  <2>1. /\ docs' = docs /\ chunks' = chunks /\ wk' = wk /\ faults' = faults
        /\ \A w \in Workers : wk[w].at = "idle"
    BY <1>4 DEF Restart, Known, Alive
  <2>2. ASSUME NEW j \in Jobs
        PROVE  /\ jobs'[j].doc = jobs[j].doc /\ jobs'[j].attempts = jobs[j].attempts
               /\ jobs'[j].cw = jobs[j].cw
               /\ jobs[j].status = "running" => jobs'[j].status = "pending"
               /\ jobs[j].status # "running" => jobs'[j] = jobs[j]
    <3>1. jobs[j] \in JobRow
      BY <1>0
    <3>2. jobs'[j] = IF jobs[j].status = "running" THEN ReclaimedRow(jobs[j]) ELSE jobs[j]
      BY <1>4 DEF Restart, RunningRow
    <3> QED
      BY <3>1, <3>2 DEF ReclaimedRow, JobRow
  <2>3. \A j \in Jobs : (Exists(jobs'[j]) <=> Exists(jobs[j])) /\ (Open(j)' <=> Open(j))
    BY <2>2 DEF Exists, Open
  <2>4. \A d \in Docs, j \in Jobs : Newest(d, j)' <=> Newest(d, j)
    <3>1. \A d \in Docs : JobsOf(d)' = JobsOf(d)
      BY <2>2, <2>3 DEF JobsOf
    <3> QED
      BY <3>1 DEF Newest
  <2>5. InSequence'
    BY <2>2, Parts DEF InSequence
  <2>6. ASSUME NEW j \in Jobs PROVE RowFacts(j)' /\ RunningIsHeld(j)'
    <3>1. RowFacts(j)
      BY Parts
    <3> QED
      BY <2>1, <2>2, <2>3, <3>1 DEF RowFacts, RunningIsHeld, DocExists
  <2>7. ASSUME NEW d \in Docs PROVE ChunkFacts(d)'
    <3>1. ChunkFacts(d)
      BY Parts
    <3> QED
      BY <2>1, <2>2, <2>3, <3>1 DEF ChunkFacts
  <2>8. ASSUME NEW i \in Jobs, NEW j \in Jobs PROVE InOrder(i, j)'
    BY <2>2, <2>3, Parts DEF InOrder
  <2>9. ASSUME NEW w \in Workers
        PROVE  LoopFacts(w)' /\ CheckpointFacts(w)' /\ NewestRun(w)'
    BY <2>1 DEF LoopFacts, CheckpointFacts, NewestRun
  <2>10. ASSUME NEW d \in Docs, NEW j \in Jobs PROVE NewestRow(d, j)'
    <3>1. NewestRow(d, j)
      BY Parts
    <3> QED
      BY <2>1, <2>2, <2>4, <3>1 DEF NewestRow, Current, Indexed
  <2> QED
    BY <2>5, <2>6, <2>7, <2>8, <2>9, <2>10 DEF OneLoopInv
<1> QED
  BY <1>1, <1>2, <1>3, <1>4

-----------------------------------------------------------------------------
(* The invariant and what it says. *)

(* What one loop relies on: the invariant, while no release has failed.    *)
OneLoopOK == Known /\ (Orderly => OneLoopInv)

LEMMA InitOneLoop == Init => OneLoopOK
<1> SUFFICES ASSUME Init PROVE OneLoopOK
  OBVIOUS
<1>1. Known
  <2>1. ReadyInv
    BY DEF Init, ReadyInv, ReadyIsFullyEmbedded, NoChunks, IdleWorker
  <2> QED
    BY <2>1, InitTyped, InitRefines DEF Known
<1>2. \A w \in Workers : wk[w].at = "idle"
  BY DEF Init, IdleWorker
<1>3. \A j \in Jobs : jobs[j].status = "none" /\ jobs[j].attempts = 0 /\ jobs[j].cw = 0
  BY DEF Init
<1>4. \A d \in Docs : chunks[d].gen[1] = 0
  BY DEF Init, NoChunks
<1>5. OneLoopInv
  BY <1>2, <1>3, <1>4 DEF OneLoopInv, InSequence, RowFacts, ChunkFacts, RunningIsHeld,
     InOrder, LoopFacts, CheckpointFacts, NewestRun, NewestRow, Newest, JobsOf, Exists
<1> QED
  BY <1>1, <1>5 DEF OneLoopOK

LEMMA NextOneLoop ==
    ASSUME OneLoop
    PROVE  OneLoopOK /\ [Next]_vars => OneLoopOK'
<1> SUFFICES ASSUME OneLoopOK, [Next]_vars PROVE OneLoopOK'
  OBVIOUS
<1>1. Known'
  BY NextTyped, NextReady, NextOwned, NextAlive DEF OneLoopOK, Known, OneLoop
<1>2. ASSUME Orderly' PROVE OneLoopInv'
  <2>0. Known /\ faults \in Nat
    BY DEF OneLoopOK, Known, TypeOK
  <2>1. faults' = 0 => faults = 0
    <3>1. faults' = faults \/ faults' = faults + 1
      BY DEF Next, vars, Step, Claim, LoopError, Load, Advance, Mark, Parse, Pages, Profile,
         Chunk, Count, Batch, Embed, Progress, Ready, Finish, Raise, Release, ReadStatus,
         MarkFailed, Upload, Reindex, DeleteDocument, DeleteWorkspace, Lapse, Sweep, Crash,
         Restart
    <3> QED
      BY <2>0, <3>1
  <2>2. OneLoopInv
    BY <1>2, <2>1 DEF OneLoopOK, Orderly
  <2>3. ASSUME NEW w \in Workers, Step(w) \/ LoopError(w) PROVE OneLoopInv'
    <3>1. Frame(w)
      BY <2>0, <2>3, RunFrame
    <3>2. wk[w].at # "idle"
      BY <3>1 DEF Frame
    <3>3. PICK j \in Jobs, d \in Docs : j = wk[w].job /\ d = Doc(w)
      BY <2>0, <3>2, BusyTypes
    <3>4. Local(w, j, d)
      BY <1>2, <2>0, <2>2, <2>3, <3>3, EarlyStep, LateStep, LastStep DEF Step
    <3> QED
      BY <2>0, <2>1, <2>2, <3>1, <3>3, <3>4, RunKeeps
  <2>4. ASSUME NEW w \in Workers, Claim(w) PROVE OneLoopInv'
    BY <2>0, <2>2, <2>4, ClaimKeeps
  <2>5. ASSUME NEW d \in Docs, NEW v \in Versions, Upload(d, v) PROVE OneLoopInv'
    BY <2>0, <2>2, <2>5, UploadQueues, QueueKeeps
  <2>6. CASE Reindex
    BY <2>0, <2>2, <2>6, ReindexQueues, QueueKeeps
  <2>7. ASSUME NEW d \in Docs, DeleteDocument(d) PROVE OneLoopInv'
    BY <2>0, <2>2, <2>7, DeletionKeeps DEF DeleteDocument
  <2>8. CASE DeleteWorkspace
    <3>1. {d \in Docs : DocExists(d)} \in SUBSET Docs
      OBVIOUS
    <3> QED
      BY <2>0, <2>2, <2>8, <3>1, DeletionKeeps DEF DeleteWorkspace
  <2>9. CASE (\E j \in Jobs : Lapse(j)) \/ Sweep \/ Crash \/ Restart
    BY <2>0, <2>2, <2>9, ProcessKeeps
  <2>10. CASE UNCHANGED vars
    BY <2>2, <2>10 DEF vars, OneLoopInv, InSequence, RowFacts, ChunkFacts, RunningIsHeld,
       InOrder, LoopFacts, CheckpointFacts, NewestRun, NewestRow, Newest, JobsOf, Exists,
       Open, Held, Early, Late, Current, Parsed, Doc, Indexed, DocExists
  <2> QED
    BY <2>3, <2>4, <2>5, <2>6, <2>7, <2>8, <2>9, <2>10 DEF Next
<1> QED
  BY <1>1, <1>2 DEF OneLoopOK

(* An idle queue's newest success describes the document. *)
LEMMA LastWordHolds == OneLoopInv => LastWord
<1> SUFFICES ASSUME OneLoopInv, NEW d \in Docs, NEW j \in Jobs,
                    Newest(d, j), jobs[j].status = "succeeded"
             PROVE  docs[d].status = "ready" /\ Indexed(d)
  BY DEF LastWord
<1> QED
  BY Parts DEF NewestRow

(* And its newest failure was shown, once no loop is about to show it. *)
LEMMA FailureIsShownHolds == Known /\ (Orderly => OneLoopInv) => FailureIsShown
<1> SUFFICES ASSUME Known, Orderly => OneLoopInv, NEW d \in Docs, Settled(d), faults = 0,
                    NEW j \in Jobs, Newest(d, j), jobs[j].status = "failed"
             PROVE  docs[d].status = "failed"
  BY DEF FailureIsShown
<1>1. NewestRow(d, j)
  BY Parts DEF Orderly
<1>2. ASSUME NEW w \in Workers, wk[w].job = j, wk[w].at \in {"status", "fail"}
      PROVE  FALSE
  <2>1. wk[w].at # "idle" /\ Doc(w) = d
    BY <1>2 DEF Doc, Newest, JobsOf
  <2> QED
    BY <2>1 DEF Settled, Busy
<1> QED
  BY <1>1, <1>2 DEF NewestRow

(* A run that writes its chunks replaces no chunk of its own job that has  *)
(* a vector.                                                               *)
LEMMA ChunkKeepsVectors ==
    ASSUME Known, OneLoopInv, NEW w \in Workers, Chunk(w),
           chunks[Doc(w)].gen[1] = wk[w].job
    PROVE  chunks[Doc(w)].nulls = 1..ChunkCount[chunks[Doc(w)].ver]
<1>0. wk[w].at = "chunk" /\ wk[w].at # "idle"
  BY DEF Chunk
<1> PICK j \in Jobs, d \in Docs : j = wk[w].job /\ d = Doc(w)
  BY <1>0, BusyTypes
<1>1. jobs[j].status \in {"running", "deleted"} /\ jobs[j].doc = d
  BY <1>0, BusyTypes DEF RunSteps, Doc
<1>2. jobs[j].status = "running"
  BY <1>1, Parts DEF RowFacts, Chunk, DocExists
<1>3. jobs[j].cw = 0
  BY <1>0, <1>2, Parts DEF CheckpointFacts, Early, Exists
<1>4. j # 0
  BY DEF Jobs
<1> QED
  BY <1>2, <1>3, <1>4, Parts DEF ChunkFacts, Open

(* Whatever uploads, reindexes, deletions, retries and crashes come        *)
(* between the transactions of the runs, with one loop the newest job of a *)
(* document has the last word: once it succeeded and the queue is done     *)
(* with the document, search finds exactly the chunks of the bytes last    *)
(* uploaded, all with vectors.  A failed call of release is excluded: the  *)
(* job it strands comes back after younger jobs have run.                  *)
THEOREM OneLoopLastWord ==
    ASSUME OneLoop, "release" \notin FaultKinds
    PROVE  Spec => []LastWord
<1>1. OneLoopOK => LastWord
  BY LastWordHolds DEF OneLoopOK, Orderly
<1> QED
  BY <1>1, InitOneLoop, NextOneLoop, PTL DEF Spec

(* With one loop a document whose newest job failed for good is shown as   *)
(* failed, as long as no call was lost on the way.                         *)
THEOREM OneLoopFailureIsShown ==
    ASSUME OneLoop
    PROVE  Spec => []FailureIsShown
<1>1. OneLoopOK => FailureIsShown
  BY FailureIsShownHolds DEF OneLoopOK
<1> QED
  BY <1>1, InitOneLoop, NextOneLoop, PTL DEF Spec

(* With one loop a retry resumes from the last committed batch: no run     *)
(* replaces chunks of its own job once one of them has a vector.           *)
THEOREM OneLoopKeepsVectors ==
    ASSUME OneLoop, "release" \notin FaultKinds
    PROVE  Spec => KeepsVectors
<1> DEFINE A == \A w \in Workers : LET c == chunks[Doc(w)] IN
                  Chunk(w) /\ c.gen[1] = wk[w].job => c.nulls = 1..ChunkCount[c.ver]
<1>1. OneLoopOK => A
  BY ChunkKeepsVectors DEF OneLoopOK, Orderly
<1>2. KeepsVectors <=> [][A]_vars
  BY DEF KeepsVectors
<1> HIDE DEF A
<1>3. OneLoopOK /\ [Next]_vars => [A]_vars
  BY <1>1
<1> QED
  BY <1>2, <1>3, InitOneLoop, NextOneLoop, PTL DEF Spec

(* With one loop jobs are attempted strictly in the order they were        *)
(* queued: one that was attempted has no open job before it, retries and   *)
(* restarts included.                                                      *)
THEOREM OneLoopInOrder ==
    ASSUME OneLoop, "release" \notin FaultKinds
    PROVE  Spec => [](\A i, j \in Jobs : InOrder(i, j))
<1>1. OneLoopOK => \A i, j \in Jobs : InOrder(i, j)
  BY Parts DEF OneLoopOK, Orderly
<1> QED
  BY <1>1, InitOneLoop, NextOneLoop, PTL DEF Spec

=============================================================================
