-------------------------- MODULE IngestionProofs --------------------------
(***************************************************************************)
(* What holds of the ingestion pipeline for any number of documents, jobs, *)
(* loops, versions, chunks and faults: its types, and that it implements   *)
(* the job queue.  What it takes a single loop for is IngestionOneLoop.    *)
(***************************************************************************)
EXTENDS Ingestion, TLAPS

-----------------------------------------------------------------------------
(* Types. *)

(* Every write to a job row leaves a job row. *)
LEMMA JobTypes ==
    ASSUME NEW r \in JobRow
    PROVE  /\ ClaimedRow(r) \in JobRow
           /\ FinishedRow(r) \in JobRow
           /\ ReleasedRow(r) \in JobRow
           /\ ReclaimedRow(r) \in JobRow
           /\ [r EXCEPT !.status = "deleted"] \in JobRow
           /\ [r EXCEPT !.beat = "stale"] \in JobRow
           /\ \A d \in Docs : NewJob(r, d) \in JobRow
           /\ \A n \in Nat : [r EXCEPT !.cw = n, !.beat = "fresh"] \in JobRow
<1> USE DEF JobRow, Statuses
<1>1. ClaimedRow(r) \in JobRow
  <2>1. r.attempts + 1 \in Nat
    OBVIOUS
  <2> QED
    BY <2>1 DEF ClaimedRow
<1>2. FinishedRow(r) \in JobRow
  BY DEF FinishedRow
<1>3. ReleasedRow(r) \in JobRow
  BY DEF ReleasedRow
<1>4. ReclaimedRow(r) \in JobRow
  BY DEF ReclaimedRow
<1>5. [r EXCEPT !.status = "deleted"] \in JobRow
  OBVIOUS
<1>6. [r EXCEPT !.beat = "stale"] \in JobRow
  OBVIOUS
<1>7. \A d \in Docs : NewJob(r, d) \in JobRow
  BY DEF NewJob, EnqueuedRow
<1>8. \A n \in Nat : [r EXCEPT !.cw = n, !.beat = "fresh"] \in JobRow
  OBVIOUS
<1> QED
  BY <1>1, <1>2, <1>3, <1>4, <1>5, <1>6, <1>7, <1>8

(* Every write to a chunk table entry leaves one. *)
LEMMA ChunkTypes ==
    /\ NoChunks \in ChunkRows
    /\ \A g \in Gens, v \in Versions : NewChunks(g, v) \in ChunkRows
    /\ \A c \in ChunkRows, b \in [gen : Gens, ords : SUBSET Nat] :
         Vectorised(c, b) \in ChunkRows
    /\ \A c \in ChunkRows : NextBatch(c) \in [gen : Gens, ords : SUBSET Nat]
<1> USE IngestionAssumption DEF ChunkRows
<1>1. NoChunks \in ChunkRows
  BY DEF NoChunks, Gens
<1>2. ASSUME NEW g \in Gens, NEW v \in Versions PROVE NewChunks(g, v) \in ChunkRows
  <2>1. 1..ChunkCount[v] \in SUBSET Nat
    OBVIOUS
  <2> QED
    BY <2>1 DEF NewChunks
<1>3. ASSUME NEW c \in ChunkRows, NEW b \in [gen : Gens, ords : SUBSET Nat]
      PROVE  Vectorised(c, b) \in ChunkRows
  BY DEF Vectorised
<1>4. ASSUME NEW c \in ChunkRows
      PROVE  NextBatch(c) \in [gen : Gens, ords : SUBSET Nat]
  <2>1. {o \in Outstanding(c) :
           Cardinality({p \in Outstanding(c) : p < o}) < BatchSize} \in SUBSET Nat
    BY DEF Outstanding
  <2> QED
    BY <2>1 DEF NextBatch
<1> QED
  BY <1>1, <1>2, <1>3, <1>4

(* The loops' records keep their type under the assignments of a run. *)
LEMMA LoopTypes ==
    ASSUME NEW l \in Loop
    PROVE  /\ IdleWorker \in Loop
           /\ \A p \in Places : [l EXCEPT !.at = p] \in Loop
           /\ \A s \in Stages : [l EXCEPT !.at = "advance", !.stage = s] \in Loop
           /\ \A j \in Jobs, n \in Nat :
                [l EXCEPT !.at = "load", !.job = j, !.cw = n] \in Loop
           /\ \A v \in Versions : [l EXCEPT !.at = "pages", !.ver = v] \in Loop
           /\ \A n \in Nat : [l EXCEPT !.at = "advance", !.stage = "embedding",
                                       !.cw = n, !.ver = 0] \in Loop
           /\ \A b \in [gen : Gens, ords : SUBSET Nat] :
                [l EXCEPT !.at = "embed", !.batch = b] \in Loop
           /\ [l EXCEPT !.at = "progress", !.batch = NoBatch] \in Loop
           /\ [IdleWorker EXCEPT !.at = "release", !.job = l.job] \in Loop
<1> USE DEF Loop, Places, RunSteps, Stages
<1>1. NoBatch \in [gen : Gens, ords : SUBSET Nat]
  BY DEF NoBatch, Gens
<1>2. IdleWorker \in Loop
  BY <1>1 DEF IdleWorker
<1>3. \A p \in Places : [l EXCEPT !.at = p] \in Loop
  OBVIOUS
<1>4. \A s \in Stages : [l EXCEPT !.at = "advance", !.stage = s] \in Loop
  OBVIOUS
<1>5. \A j \in Jobs, n \in Nat : [l EXCEPT !.at = "load", !.job = j, !.cw = n] \in Loop
  OBVIOUS
<1>6. \A v \in Versions : [l EXCEPT !.at = "pages", !.ver = v] \in Loop
  OBVIOUS
<1>7. \A n \in Nat : [l EXCEPT !.at = "advance", !.stage = "embedding",
                               !.cw = n, !.ver = 0] \in Loop
  OBVIOUS
<1>8. \A b \in [gen : Gens, ords : SUBSET Nat] :
        [l EXCEPT !.at = "embed", !.batch = b] \in Loop
  OBVIOUS
<1>9. [l EXCEPT !.at = "progress", !.batch = NoBatch] \in Loop
  BY <1>1
<1>10. [IdleWorker EXCEPT !.at = "release", !.job = l.job] \in Loop
  BY <1>1 DEF IdleWorker
<1> QED
  BY <1>2, <1>3, <1>4, <1>5, <1>6, <1>7, <1>8, <1>9, <1>10

-----------------------------------------------------------------------------
(* Typing and RowsInUse are inductive together. *)

(* Every write to a row in use keeps it in use and leaves its document.    *)
LEMMA JobEffects ==
    ASSUME NEW r \in JobRow, r.status # "none"
    PROVE  /\ ClaimedRow(r).status # "none" /\ ClaimedRow(r).doc = r.doc
           /\ FinishedRow(r).status # "none" /\ FinishedRow(r).doc = r.doc
           /\ ReleasedRow(r).status # "none" /\ ReleasedRow(r).doc = r.doc
           /\ ReclaimedRow(r).status # "none" /\ ReclaimedRow(r).doc = r.doc
BY DEF JobRow, ClaimedRow, FinishedRow, ReleasedRow, ReclaimedRow

(* A queued row is pending, names its document and has no checkpoint. *)
LEMMA NewJobEffects ==
    ASSUME NEW r \in JobRow, NEW d \in Docs
    PROVE  /\ NewJob(r, d).status = "pending"
           /\ NewJob(r, d).doc = d
           /\ NewJob(r, d).cw = 0
BY DEF JobRow, NewJob, EnqueuedRow

LEMMA InitTyped == Init => TypeOK /\ RowsInUse
<1> SUFFICES ASSUME Init PROVE TypeOK /\ RowsInUse
  OBVIOUS
<1>1. NoChunks \in ChunkRows
  BY ChunkTypes
<1>2. IdleWorker \in Loop
  BY DEF IdleWorker, Loop, Places, RunSteps, Stages, NoBatch, Gens
<1>3. faults \in 0..MaxFaults
  BY QueueAssumption DEF Init
<1>4. TypeOK
  BY <1>1, <1>2, <1>3 DEF Init, TypeOK, JobRow, Statuses, DocRow, DocStatuses
<1>5. RowsInUse
  BY DEF Init, RowsInUse, IdleWorker, Parsed
<1> QED
  BY <1>4, <1>5

(* The rows of the two tables that anything refers to, before and after.   *)
JobsKept ==
    /\ jobs' \in [Jobs -> JobRow]
    /\ \A j \in Jobs : jobs[j].status # "none" =>
         jobs'[j].status # "none" /\ jobs'[j].doc = jobs[j].doc
    /\ \A j \in Jobs : jobs'[j].status # "none" => jobs'[j].doc \in Docs

DocsKept ==
    /\ docs' \in [Docs -> DocRow]
    /\ \A d \in Docs : docs'[d].status # "absent" => docs'[d].ver \in Versions

(* A loop that goes on with its job is as well off as it was. *)
LoopKept(w) ==
    /\ wk' = [wk EXCEPT ![w] = wk'[w]]
    /\ wk'[w] \in Loop
    /\ wk'[w].at # "idle" =>
         wk'[w].job \in Jobs /\ jobs'[wk'[w].job].status # "none"
    /\ Parsed(w)' => wk'[w].ver \in Versions

(* The pieces make a step. *)
LEMMA Kept ==
    ASSUME TypeOK, RowsInUse, JobsKept, DocsKept,
           chunks' \in [Docs -> ChunkRows], ws' \in BOOLEAN, up' \in BOOLEAN,
           faults' \in 0..MaxFaults,
           \/ wk' = wk
           \/ \E w \in Workers : LoopKept(w)
           \/ wk' = [w \in Workers |-> IdleWorker]
    PROVE  TypeOK' /\ RowsInUse'
<1>1. wk' \in [Workers -> Loop]
  <2>1. IdleWorker \in Loop
    BY DEF IdleWorker, Loop, Places, RunSteps, Stages, NoBatch, Gens
  <2>2. ASSUME NEW w \in Workers, LoopKept(w) PROVE wk' \in [Workers -> Loop]
    BY <2>2 DEF LoopKept, TypeOK
  <2> QED
    BY <2>1, <2>2 DEF TypeOK
<1>2. TypeOK'
  BY <1>1 DEF TypeOK, JobsKept, DocsKept
<1>3. ASSUME NEW v \in Workers
      PROVE  /\ wk'[v].at # "idle" =>
                  wk'[v].job \in Jobs /\ jobs'[wk'[v].job].status # "none"
             /\ Parsed(v)' => wk'[v].ver \in Versions
  <2>1. CASE wk'[v] = wk[v]
    BY <2>1 DEF RowsInUse, JobsKept, Parsed
  <2>2. CASE wk'[v] = IdleWorker
    BY <2>2 DEF IdleWorker, Parsed
  <2>3. CASE LoopKept(v)
    BY <2>3 DEF LoopKept
  <2>4. ASSUME NEW w \in Workers, LoopKept(w), w # v PROVE wk'[v] = wk[v]
    BY <2>4 DEF LoopKept, TypeOK
  <2> QED
    BY <2>1, <2>2, <2>3, <2>4
<1> QED
  BY <1>2, <1>3 DEF RowsInUse, JobsKept, DocsKept

(* A table nobody wrote to is kept. *)
LEMMA Unwritten ==
    ASSUME TypeOK, RowsInUse
    PROVE  (jobs' = jobs => JobsKept) /\ (docs' = docs => DocsKept)
BY DEF TypeOK, RowsInUse, JobsKept, DocsKept

(* One row rewritten by a statement that keeps rows in use. *)
LEMMA RowWritten ==
    ASSUME TypeOK, RowsInUse, NEW j \in Jobs, NEW r \in JobRow,
           jobs[j].status # "none", r.status # "none", r.doc = jobs[j].doc,
           jobs' = [jobs EXCEPT ![j] = r]
    PROVE  JobsKept
BY DEF TypeOK, RowsInUse, JobsKept

(* set_document_status keeps the rows of documents. *)
LEMMA StatusWritten ==
    ASSUME TypeOK, RowsInUse, NEW d \in Docs,
           NEW s \in Stages \cup {"pending", "ready", "failed"},
           docs' = WithStatus(d, s)
    PROVE  DocsKept
<1>1. CASE DocExists(d)
  <2>1. docs' = [docs EXCEPT ![d] = [docs[d] EXCEPT !.status = s]]
    BY <1>1 DEF WithStatus
  <2>2. [docs[d] EXCEPT !.status = s] \in DocRow
    BY DEF TypeOK, DocRow, DocStatuses
  <2>3. docs[d].ver \in Versions
    BY <1>1 DEF DocExists, RowsInUse
  <2> QED
    BY <2>1, <2>2, <2>3 DEF TypeOK, RowsInUse, DocsKept, DocRow
<1>2. CASE ~DocExists(d)
  BY <1>2, Unwritten DEF WithStatus
<1> QED
  BY <1>1, <1>2

(* update_progress keeps the rows of jobs. *)
LEMMA CheckpointWritten ==
    ASSUME TypeOK, RowsInUse, NEW j \in Jobs, NEW n \in Nat,
           jobs' = WithCheckpoint(j, n)
    PROVE  JobsKept
<1>1. CASE Exists(jobs[j])
  <2> DEFINE r == [jobs[j] EXCEPT !.cw = n, !.beat = "fresh"]
  <2>1. jobs[j] \in JobRow
    BY DEF TypeOK
  <2>2. jobs' = [jobs EXCEPT ![j] = r]
    BY <1>1, <2>1 DEF WithCheckpoint, TypeOK
  <2>3. r \in JobRow /\ r.status = jobs[j].status /\ r.doc = jobs[j].doc
    BY <2>1 DEF JobRow
  <2> QED
    BY <1>1, <2>2, <2>3, RowWritten DEF Exists
<1>2. CASE ~Exists(jobs[j])
  BY <1>2, Unwritten DEF WithCheckpoint
<1> QED
  BY <1>1, <1>2

(* The transactions of a run keep the tables and the loops well typed. *)
LEMMA StepTyped ==
    ASSUME TypeOK, RowsInUse, NEW w \in Workers, Step(w) \/ Claim(w) \/ LoopError(w)
    PROVE  TypeOK' /\ RowsInUse'
<1> DEFINE j == wk[w].job
<1>0. /\ wk \in [Workers -> Loop] /\ wk[w] \in Loop
      /\ jobs \in [Jobs -> JobRow] /\ docs \in [Docs -> DocRow]
      /\ chunks \in [Docs -> ChunkRows] /\ ws \in BOOLEAN /\ up \in BOOLEAN
      /\ faults \in 0..MaxFaults
  BY DEF TypeOK
<1>1. wk[w].at # "idle" => /\ j \in Jobs /\ jobs[j] \in JobRow
                           /\ jobs[j].status # "none" /\ Doc(w) \in Docs
  BY <1>0 DEF RowsInUse, Doc
<1>2. /\ wk[w].cw \in Nat /\ wk[w].stage \in Stages
      /\ wk[w].batch \in [gen : Gens, ords : SUBSET Nat]
      /\ Parsed(w) => wk[w].ver \in Versions
  BY <1>0 DEF Loop, RowsInUse
<1>3. ASSUME NEW l \in Loop, wk' = [wk EXCEPT ![w] = l], JobsKept, DocsKept,
             chunks' \in [Docs -> ChunkRows], ws' = ws, up' = up,
             faults' \in 0..MaxFaults,
             l.at # "idle" => l.job = wk[w].job /\ wk[w].at # "idle",
             Parsed(w)' => l.ver \in Versions
      PROVE  TypeOK' /\ RowsInUse'
  <2>1. wk'[w] = l
    BY <1>0, <1>3
  <2>2. l.at # "idle" => l.job \in Jobs /\ jobs'[l.job].status # "none"
    BY <1>1, <1>3 DEF JobsKept
  <2>3. LoopKept(w)
    BY <1>3, <2>1, <2>2 DEF LoopKept
  <2> QED
    BY <1>0, <1>3, <2>3, Kept
<1>4. CASE Claim(w)
  <2> PICK i \in Jobs :
        /\ jobs[i].status = "pending"
        /\ jobs' = [jobs EXCEPT ![i] = ClaimedRow(@)]
        /\ wk' = [wk EXCEPT ![w].at = "load", ![w].job = i, ![w].cw = jobs[i].cw]
    BY <1>4 DEF Claim, IsOldest, Claimable
  <2>1. jobs[i] \in JobRow /\ jobs[i].cw \in Nat
    BY <1>0 DEF JobRow
  <2>2. JobsKept
    BY <1>0, <2>1, JobTypes, JobEffects, RowWritten
  <2> DEFINE l == [wk[w] EXCEPT !.at = "load", !.job = i, !.cw = jobs[i].cw]
  <2>3. l \in Loop
    BY <1>0, <2>1, LoopTypes
  <2>4. wk' = [wk EXCEPT ![w] = l] /\ wk'[w] = l
    BY <1>0
  <2>5. l.at = "load" /\ l.job = i
    BY <1>0 DEF Loop
  <2>6. jobs'[i].status # "none"
    BY <2>2 DEF JobsKept
  <2> HIDE DEF l
  <2>7. ~Parsed(w)'
    BY <2>4, <2>5 DEF Parsed
  <2>8. LoopKept(w)
    BY <2>3, <2>4, <2>5, <2>6, <2>7 DEF LoopKept
  <2>9. DocsKept
    BY <1>4, Unwritten DEF Claim
  <2> QED
    BY <1>0, <1>4, <2>2, <2>8, <2>9, Kept DEF Claim
<1> DEFINE Frame == /\ wk[w].at # "idle" /\ JobsKept /\ DocsKept
                    /\ chunks' \in [Docs -> ChunkRows] /\ ws' = ws /\ up' = up
                    /\ faults' \in 0..MaxFaults
(* The three ways a loop moves on. *)
<1>5. ASSUME NEW p \in Places, Goto(w, p), Frame,
             Parsed(w)' => wk[w].ver \in Versions
      PROVE  TypeOK' /\ RowsInUse'
  <2> DEFINE l == [wk[w] EXCEPT !.at = p]
  <2>1. wk' = [wk EXCEPT ![w] = l]
    BY <1>0, <1>5 DEF Goto
  <2>2. l \in Loop
    BY <1>0, LoopTypes
  <2>3. l.job = wk[w].job /\ l.ver = wk[w].ver
    BY <1>0 DEF Loop
  <2> HIDE DEF l
  <2> QED
    BY <1>3, <1>5, <2>1, <2>2, <2>3
<1>6. ASSUME NEW s \in Stages, GotoStage(w, s), Frame,
             s \in {"profiling", "chunking"} => wk[w].ver \in Versions
      PROVE  TypeOK' /\ RowsInUse'
  <2> DEFINE l == [wk[w] EXCEPT !.at = "advance", !.stage = s]
  <2>1. wk' = [wk EXCEPT ![w] = l] /\ wk'[w] = l
    BY <1>0, <1>6 DEF GotoStage
  <2>2. l \in Loop
    BY <1>0, LoopTypes
  <2>3. l.at = "advance" /\ l.stage = s /\ l.job = wk[w].job /\ l.ver = wk[w].ver
    BY <1>0 DEF Loop
  <2> HIDE DEF l
  <2>4. Parsed(w)' => l.ver \in Versions
    BY <1>6, <2>1, <2>3 DEF Parsed
  <2> QED
    BY <1>3, <1>6, <2>1, <2>2, <2>3, <2>4
<1>7. ASSUME Rest(w), Frame PROVE TypeOK' /\ RowsInUse'
  <2>1. wk' = [wk EXCEPT ![w] = IdleWorker] /\ wk'[w] = IdleWorker
    BY <1>0, <1>7 DEF Rest
  <2>2. IdleWorker \in Loop
    BY <1>0, LoopTypes
  <2>3. IdleWorker.at = "idle" /\ ~Parsed(w)'
    BY <2>1 DEF IdleWorker, Parsed
  <2> QED
    BY <1>3, <1>7, <2>1, <2>2, <2>3
<1> HIDE DEF Frame
<1>8. ASSUME wk[w].at # "idle", chunks' = chunks, ws' = ws, up' = up,
             faults' = faults, JobsKept, DocsKept
      PROVE  Frame
  BY <1>0, <1>8 DEF Frame
<1>9. CASE Load(w)
  <2>1. JobsKept /\ DocsKept
    BY <1>9, Unwritten DEF Load
  <2>2. Frame
    BY <1>8, <1>9, <2>1 DEF Load
  <2> QED
    BY <1>6, <1>9, <2>2 DEF Load, Stages
<1>10. CASE Advance(w)
  <2>1. JobsKept /\ DocsKept
    BY <1>1, <1>2, <1>10, CheckpointWritten, Unwritten DEF Advance
  <2>2. Frame
    BY <1>8, <1>10, <2>1 DEF Advance
  <2>3. wk'[w].stage = wk[w].stage /\ wk'[w].at = "mark"
    BY <1>0, <1>10 DEF Advance, Goto, Loop
  <2>4. Parsed(w)' => wk[w].ver \in Versions
    BY <1>2, <1>10, <2>3 DEF Advance, Parsed
  <2> QED
    BY <1>5, <1>10, <2>2, <2>4 DEF Advance, Places, RunSteps
<1>11. CASE Mark(w)
  <2>1. JobsKept /\ DocsKept
    BY <1>1, <1>2, <1>11, StatusWritten, Unwritten DEF Mark
  <2>2. Frame
    BY <1>8, <1>11, <2>1 DEF Mark
  <2>3. PICK p \in {"parse", "profile", "chunk", "count"} :
          Goto(w, p) /\ (p \in {"profile", "chunk"} => Parsed(w))
    BY <1>2, <1>11 DEF Mark, Stages, Parsed
  <2>4. wk'[w].at = p
    BY <1>0, <2>3 DEF Goto, Loop
  <2>5. Parsed(w)' => wk[w].ver \in Versions
    BY <1>2, <2>3, <2>4 DEF Parsed
  <2>6. p \in Places
    BY DEF Places, RunSteps
  <2> QED
    BY <1>5, <2>2, <2>3, <2>5, <2>6
<1>12. CASE Parse(w)
  <2> DEFINE v == docs[Doc(w)].ver
             l == [wk[w] EXCEPT !.at = "pages", !.ver = v]
  <2>1. v \in Versions
    BY <1>1, <1>12 DEF Parse, DocExists, RowsInUse
  <2>2. wk' = [wk EXCEPT ![w] = l]
    BY <1>0, <1>12 DEF Parse
  <2>3. l \in Loop
    BY <1>0, <2>1, LoopTypes
  <2>4. l.job = wk[w].job /\ l.ver = v
    BY <1>0 DEF Loop
  <2>5. JobsKept /\ DocsKept
    BY <1>12, Unwritten DEF Parse
  <2> HIDE DEF l
  <2> QED
    BY <1>0, <1>3, <1>12, <2>1, <2>2, <2>3, <2>4, <2>5 DEF Parse
<1>13. CASE Pages(w)
  <2>1. JobsKept /\ DocsKept
    BY <1>1, <1>13, StatusWritten, Unwritten DEF Pages, Stages
  <2>2. Frame
    BY <1>8, <1>13, <2>1 DEF Pages
  <2> QED
    BY <1>2, <1>6, <1>13, <2>2 DEF Pages, Stages, Parsed
<1>14. CASE Profile(w)
  <2>1. JobsKept /\ DocsKept
    BY <1>14, Unwritten DEF Profile
  <2>2. Frame
    BY <1>8, <1>14, <2>1 DEF Profile
  <2> QED
    BY <1>2, <1>6, <1>14, <2>2 DEF Profile, Stages, Parsed
<1>15. CASE Chunk(w)
  <2> DEFINE n == ChunkCount[wk[w].ver]
             l == [wk[w] EXCEPT !.at = "advance", !.stage = "embedding",
                                !.cw = n, !.ver = 0]
             g == <<j, jobs[j].attempts>>
  <2>1. wk[w].ver \in Versions /\ wk[w].at # "idle"
    BY <1>2, <1>15 DEF Chunk, Parsed
  <2>2. n \in Nat
    BY <2>1, IngestionAssumption
  <2>3. l \in Loop
    BY <1>0, <2>2, LoopTypes
  <2>4. wk' = [wk EXCEPT ![w] = l] /\ wk'[w] = l
    BY <1>0, <1>15 DEF Chunk
  <2>5. l.at = "advance" /\ l.stage = "embedding" /\ l.job = wk[w].job
    BY <1>0 DEF Loop
  <2>6. g \in Gens
    BY <1>1, <2>1 DEF Gens, Jobs, JobRow
  <2>7. NewChunks(g, wk[w].ver) \in ChunkRows
    BY <2>1, <2>6, ChunkTypes
  <2>8. chunks' \in [Docs -> ChunkRows]
    BY <1>0, <1>15, <2>7 DEF Chunk
  <2>9. JobsKept /\ DocsKept
    BY <1>15, Unwritten DEF Chunk
  <2> HIDE DEF l
  <2>10. ~Parsed(w)'
    BY <2>4, <2>5 DEF Parsed
  <2> QED
    BY <1>0, <1>3, <1>15, <2>1, <2>3, <2>4, <2>5, <2>8, <2>9, <2>10 DEF Chunk
<1>16. ASSUME NEW p \in {"ready", "batch", "finish", "status", "fail"}, Goto(w, p), Frame
       PROVE  TypeOK' /\ RowsInUse'
  <2>1. wk'[w].at = p
    BY <1>0, <1>16 DEF Goto, Loop
  <2>2. ~Parsed(w)'
    BY <2>1 DEF Parsed
  <2> QED
    BY <1>5, <1>16, <2>2 DEF Places, RunSteps
<1>17. CASE Count(w)
  <2>1. JobsKept /\ DocsKept
    BY <1>17, Unwritten DEF Count
  <2>2. Frame
    BY <1>8, <1>17, <2>1 DEF Count
  <2> QED
    BY <1>16, <1>17, <2>2 DEF Count
<1>18. CASE Batch(w)
  <2>1. JobsKept /\ DocsKept
    BY <1>18, Unwritten DEF Batch
  <2>2. Frame
    BY <1>8, <1>18, <2>1 DEF Batch
  <2>3. CASE Goto(w, "ready")
    BY <1>16, <2>2, <2>3
  <2>4. CASE ~Goto(w, "ready")
    <3> DEFINE b == NextBatch(chunks[Doc(w)])
               l == [wk[w] EXCEPT !.at = "embed", !.batch = b]
    <3>1. wk' = [wk EXCEPT ![w] = l] /\ wk'[w] = l
      BY <1>0, <1>18, <2>4 DEF Batch
    <3>2. b \in [gen : Gens, ords : SUBSET Nat]
      BY <1>0, <1>1, <1>18, ChunkTypes DEF Batch
    <3>3. l \in Loop
      BY <1>0, <3>2, LoopTypes
    <3>4. l.at = "embed" /\ l.job = wk[w].job
      BY <1>0 DEF Loop
    <3> HIDE DEF l
    <3>5. ~Parsed(w)'
      BY <3>1, <3>4 DEF Parsed
    <3> QED
      BY <1>0, <1>3, <1>18, <2>1, <3>1, <3>3, <3>4, <3>5 DEF Batch
  <2> QED
    BY <2>3, <2>4
<1>19. CASE Embed(w)
  <2> DEFINE l == [wk[w] EXCEPT !.at = "progress", !.batch = NoBatch]
  <2>1. wk' = [wk EXCEPT ![w] = l] /\ wk'[w] = l
    BY <1>0, <1>19 DEF Embed
  <2>2. l \in Loop
    BY <1>0, LoopTypes
  <2>3. l.at = "progress" /\ l.job = wk[w].job
    BY <1>0 DEF Loop
  <2>4. JobsKept /\ DocsKept
    BY <1>19, Unwritten DEF Embed
  <2>5. Vectorised(chunks[Doc(w)], wk[w].batch) \in ChunkRows
    BY <1>0, <1>1, <1>2, <1>19, ChunkTypes DEF Embed
  <2>6. chunks' \in [Docs -> ChunkRows]
    BY <1>0, <1>19, <2>5 DEF Embed
  <2> HIDE DEF l
  <2>7. ~Parsed(w)'
    BY <2>1, <2>3 DEF Parsed
  <2> QED
    BY <1>0, <1>3, <1>19, <2>1, <2>2, <2>3, <2>4, <2>6, <2>7 DEF Embed
<1>20. CASE Progress(w)
  <2>1. JobsKept /\ DocsKept
    BY <1>1, <1>2, <1>20, CheckpointWritten, Unwritten DEF Progress
  <2>2. Frame
    BY <1>8, <1>20, <2>1 DEF Progress
  <2> QED
    BY <1>16, <1>20, <2>2 DEF Progress
<1>21. CASE Ready(w)
  <2>1. JobsKept /\ DocsKept
    BY <1>1, <1>21, StatusWritten, Unwritten DEF Ready
  <2>2. Frame
    BY <1>8, <1>21, <2>1 DEF Ready
  <2> QED
    BY <1>16, <1>21, <2>2 DEF Ready
<1>22. ASSUME NEW r \in {FinishedRow(jobs[j]), ReleasedRow(jobs[j])},
              wk[w].at # "idle", docs' = docs,
              jobs' = [jobs EXCEPT ![j] = IF Exists(@) THEN r ELSE @]
       PROVE  JobsKept /\ DocsKept
  <2>1. r \in JobRow /\ r.status # "none" /\ r.doc = jobs[j].doc
    BY <1>1, <1>22, JobTypes, JobEffects
  <2>2. CASE Exists(jobs[j])
    <3>1. jobs' = [jobs EXCEPT ![j] = r]
      BY <1>0, <1>22, <2>2
    <3> QED
      BY <1>1, <1>22, <2>1, <3>1, RowWritten, Unwritten
  <2>3. CASE ~Exists(jobs[j])
    <3>1. jobs' = jobs
      BY <1>0, <1>22, <2>3
    <3> QED
      BY <1>22, <3>1, Unwritten
  <2> QED
    BY <2>2, <2>3
<1>23. CASE Finish(w)
  <2>1. jobs' = [jobs EXCEPT ![j] = IF Exists(@) THEN FinishedRow(jobs[j]) ELSE @]
    BY <1>0, <1>1, <1>23 DEF Finish
  <2>2. JobsKept /\ DocsKept
    BY <1>22, <1>23, <2>1 DEF Finish
  <2>3. Frame
    BY <1>8, <1>23, <2>2 DEF Finish
  <2> QED
    BY <1>7, <1>23, <2>3 DEF Finish
<1>24. CASE Raise(w)
  <2> DEFINE l == [IdleWorker EXCEPT !.at = "release", !.job = wk[w].job]
  <2>1. wk' = [wk EXCEPT ![w] = l] /\ wk'[w] = l
    BY <1>0, <1>24 DEF Raise, AfterRaise
  <2>2. l \in Loop
    BY <1>0, LoopTypes
  <2>3. l.at = "release" /\ l.job = wk[w].job
    BY DEF IdleWorker
  <2>4. JobsKept /\ DocsKept
    BY <1>24, Unwritten DEF Raise
  <2> HIDE DEF l
  <2>5. ~Parsed(w)' /\ wk[w].at # "idle"
    BY <1>24, <2>1, <2>3 DEF Parsed, Raise, RunSteps
  <2> QED
    BY <1>0, <1>3, <1>24, <2>1, <2>2, <2>3, <2>4, <2>5 DEF Raise
<1>25. CASE Release(w)
  <2>1. jobs' = [jobs EXCEPT ![j] = IF Exists(@) THEN ReleasedRow(jobs[j]) ELSE @]
    BY <1>0, <1>1, <1>25 DEF Release
  <2>2. JobsKept /\ DocsKept
    BY <1>22, <1>25, <2>1 DEF Release
  <2>3. Frame
    BY <1>8, <1>25, <2>2 DEF Release
  <2> QED
    BY <1>16, <1>25, <2>3 DEF Release
<1>26. CASE ReadStatus(w)
  <2>1. JobsKept /\ DocsKept
    BY <1>26, Unwritten DEF ReadStatus
  <2>2. Frame
    BY <1>8, <1>26, <2>1 DEF ReadStatus
  <2> QED
    BY <1>7, <1>16, <1>26, <2>2 DEF ReadStatus
<1>27. CASE MarkFailed(w)
  <2>1. JobsKept /\ DocsKept
    BY <1>1, <1>27, StatusWritten, Unwritten DEF MarkFailed
  <2>2. Frame
    BY <1>8, <1>27, <2>1 DEF MarkFailed
  <2> QED
    BY <1>7, <1>27, <2>2 DEF MarkFailed
<1>28. CASE LoopError(w)
  <2>1. JobsKept /\ DocsKept
    BY <1>28, Unwritten DEF LoopError
  <2>2. faults' \in 0..MaxFaults
    BY <1>0, <1>28, QueueAssumption DEF LoopError
  <2>3. Frame
    BY <1>0, <1>28, <2>1, <2>2 DEF LoopError, Frame
  <2> QED
    BY <1>7, <1>28, <2>3 DEF LoopError
<1> QED
  BY <1>4, <1>9, <1>10, <1>11, <1>12, <1>13, <1>14, <1>15, <1>17, <1>18, <1>19,
     <1>20, <1>21, <1>23, <1>24, <1>25, <1>26, <1>27, <1>28 DEF Step

(* Deleting documents keeps the rows that others refer to. *)
LEMMA DeletionTyped ==
    ASSUME TypeOK, RowsInUse, NEW D \in SUBSET Docs, DeleteRows(D),
           \A d \in D : DocExists(d)
    PROVE  JobsKept /\ DocsKept /\ chunks' \in [Docs -> ChunkRows]
<1>1. ASSUME NEW j \in Jobs
      PROVE  /\ jobs'[j] \in JobRow /\ jobs'[j].doc = jobs[j].doc
             /\ jobs[j].status # "none" <=> jobs'[j].status # "none"
  <2>1. jobs[j] \in JobRow
    BY DEF TypeOK
  <2>2. (\E d \in D : j \in JobsOf(d)) => jobs[j].status # "none"
    BY DEF JobsOf, Exists
  <2>3. \/ jobs'[j] = jobs[j]
        \/ jobs'[j] = [jobs[j] EXCEPT !.status = "deleted"] /\ jobs[j].status # "none"
    BY <2>2 DEF DeleteRows
  <2> QED
    BY <2>1, <2>3, JobTypes DEF JobRow
<1>2. jobs' = [j \in Jobs |-> jobs'[j]]
  BY DEF DeleteRows
<1>3. JobsKept
  BY <1>1, <1>2 DEF JobsKept, RowsInUse
<1>4. ASSUME NEW d \in D PROVE [docs[d] EXCEPT !.status = "deleted"] \in DocRow
  BY DEF TypeOK, DocRow, DocStatuses
<1>5. docs' \in [Docs -> DocRow]
  BY <1>4 DEF DeleteRows, TypeOK
<1>6. ASSUME NEW d \in Docs, docs'[d].status # "absent" PROVE docs'[d].ver \in Versions
  <2>1. docs[d] \in DocRow /\ docs[d].ver = docs'[d].ver
    BY DEF TypeOK, DocRow, DeleteRows
  <2>2. docs[d].status # "absent"
    BY <1>6 DEF DeleteRows, DocExists
  <2> QED
    BY <2>1, <2>2 DEF RowsInUse
<1>7. chunks' \in [Docs -> ChunkRows]
  BY ChunkTypes DEF DeleteRows, TypeOK
<1> QED
  BY <1>3, <1>5, <1>6, <1>7 DEF DocsKept

(* So do the requests. *)
LEMMA RequestTyped ==
    ASSUME TypeOK, RowsInUse,
           \/ \E d \in Docs, v \in Versions : Upload(d, v)
           \/ Reindex
           \/ \E d \in Docs : DeleteDocument(d)
           \/ DeleteWorkspace
    PROVE  TypeOK' /\ RowsInUse'
<1>0. /\ jobs \in [Jobs -> JobRow] /\ docs \in [Docs -> DocRow]
      /\ chunks \in [Docs -> ChunkRows] /\ ws \in BOOLEAN /\ up \in BOOLEAN
      /\ faults \in 0..MaxFaults
  BY DEF TypeOK
<1>1. ASSUME NEW d \in Docs, NEW v \in Versions, Upload(d, v) PROVE TypeOK' /\ RowsInUse'
  <2> PICK j \in Jobs : /\ jobs[j].status = "none"
                        /\ jobs' = [jobs EXCEPT ![j] = NewJob(@, d)]
    BY <1>1 DEF Upload, Unused
  <2>1. /\ NewJob(jobs[j], d) \in JobRow
        /\ NewJob(jobs[j], d).status = "pending" /\ NewJob(jobs[j], d).doc = d
    BY <1>0, JobTypes, NewJobEffects
  <2>2. JobsKept
    BY <1>0, <2>1 DEF JobsKept, RowsInUse
  <2>3. [status |-> "pending", ver |-> v] \in DocRow
    BY DEF DocRow, DocStatuses
  <2>4. DocsKept
    BY <1>0, <1>1, <2>3 DEF Upload, DocsKept, RowsInUse
  <2>5. chunks' \in [Docs -> ChunkRows]
    BY <1>0, <1>1, ChunkTypes DEF Upload
  <2> QED
    BY <1>0, <1>1, <2>2, <2>4, <2>5, Kept DEF Upload
<1>2. CASE Reindex
  <2> DEFINE D == {d \in Docs : DocExists(d)}
             J == {j \in Unused : Cardinality({i \in Unused : i < j}) < Cardinality(D)}
  <2>1. PICK f \in [J -> D] :
          jobs' = [j \in Jobs |-> IF j \in J THEN NewJob(jobs[j], f[j]) ELSE jobs[j]]
    BY <1>2 DEF Reindex
  <2>2. docs' = [d \in Docs |-> IF d \in D THEN [docs[d] EXCEPT !.status = "pending"]
                                ELSE docs[d]]
    BY <1>2 DEF Reindex
  <2>3. J \subseteq Unused /\ D \subseteq Docs
    OBVIOUS
  <2> HIDE DEF D, J
  <2>4. ASSUME NEW j \in Jobs
        PROVE  /\ jobs'[j] \in JobRow
               /\ jobs[j].status # "none" => jobs'[j] = jobs[j]
               /\ jobs'[j].status # "none" => jobs'[j].doc \in Docs
    <3>1. CASE j \in J
      <4>1. f[j] \in Docs /\ jobs[j] \in JobRow /\ jobs[j].status = "none"
        BY <1>0, <2>3, <3>1 DEF Unused
      <4>2. jobs'[j] = NewJob(jobs[j], f[j])
        BY <2>1, <3>1
      <4>3. NewJob(jobs[j], f[j]) \in JobRow /\ NewJob(jobs[j], f[j]).doc = f[j]
        BY <4>1, JobTypes, NewJobEffects
      <4> QED
        BY <4>1, <4>2, <4>3
    <3>2. CASE j \notin J
      BY <1>0, <2>1, <3>2 DEF RowsInUse
    <3> QED
      BY <3>1, <3>2
  <2>5. JobsKept
    <3>1. jobs' \in [Jobs -> JobRow]
      BY <2>1, <2>4
    <3> QED
      BY <2>4, <3>1 DEF JobsKept
  <2>6. ASSUME NEW d \in Docs
        PROVE  /\ docs'[d] \in DocRow
               /\ docs'[d].status # "absent" => docs'[d].ver \in Versions
    <3>1. d \in D => docs[d].ver \in Versions
      BY DEF D, DocExists, RowsInUse
    <3>2. docs[d] \in DocRow
      BY <1>0
    <3> QED
      BY <2>2, <3>1, <3>2 DEF DocRow, DocStatuses, RowsInUse
  <2>7. DocsKept
    BY <2>2, <2>6 DEF DocsKept
  <2> QED
    BY <1>0, <1>2, <2>5, <2>7, Kept DEF Reindex
<1>3. ASSUME NEW d \in Docs, DeleteDocument(d) PROVE TypeOK' /\ RowsInUse'
  <2>1. JobsKept /\ DocsKept /\ chunks' \in [Docs -> ChunkRows]
    BY <1>3, DeletionTyped DEF DeleteDocument
  <2> QED
    BY <1>0, <1>3, <2>1, Kept DEF DeleteDocument
<1>4. CASE DeleteWorkspace
  <2>1. JobsKept /\ DocsKept /\ chunks' \in [Docs -> ChunkRows]
    BY <1>4, DeletionTyped DEF DeleteWorkspace
  <2> QED
    BY <1>0, <1>4, <2>1, Kept DEF DeleteWorkspace
<1> QED
  BY <1>1, <1>2, <1>3, <1>4

(* And the process and the sweep. *)
LEMMA ProcessTyped ==
    ASSUME TypeOK, RowsInUse,
           (\E j \in Jobs : Lapse(j)) \/ Sweep \/ Crash \/ Restart
    PROVE  TypeOK' /\ RowsInUse'
<1>0. /\ jobs \in [Jobs -> JobRow] /\ docs \in [Docs -> DocRow]
      /\ chunks \in [Docs -> ChunkRows] /\ ws \in BOOLEAN /\ up \in BOOLEAN
      /\ faults \in 0..MaxFaults
  BY DEF TypeOK
<1>1. ASSUME NEW j \in Jobs, Lapse(j) PROVE TypeOK' /\ RowsInUse'
  <2> DEFINE r == [jobs[j] EXCEPT !.beat = "stale"]
  <2>1. r \in JobRow /\ r.status = jobs[j].status /\ r.doc = jobs[j].doc
    BY <1>0 DEF JobRow
  <2>2. JobsKept
    BY <1>0, <1>1, <2>1, RowWritten DEF Lapse
  <2> QED
    BY <1>0, <1>1, <2>2, Kept, Unwritten DEF Lapse
<1>2. ASSUME NEW S \in SUBSET Jobs, \A j \in S : jobs[j].status # "none",
             jobs' = [j \in Jobs |-> IF j \in S THEN ReclaimedRow(jobs[j]) ELSE jobs[j]]
      PROVE  JobsKept
  <2>1. ASSUME NEW j \in Jobs
        PROVE  /\ jobs'[j] \in JobRow
               /\ jobs[j].status # "none" =>
                    jobs'[j].status # "none" /\ jobs'[j].doc = jobs[j].doc
               /\ jobs[j].status = "none" => jobs'[j] = jobs[j]
    BY <1>0, <1>2, JobTypes, JobEffects
  <2> QED
    BY <1>2, <2>1 DEF JobsKept, RowsInUse
<1>3. CASE Sweep
  <2> DEFINE S == {j \in Jobs : Stalled(jobs[j])}
  <2>1. jobs' = [j \in Jobs |-> IF j \in S THEN ReclaimedRow(jobs[j]) ELSE jobs[j]]
    BY <1>3 DEF Sweep
  <2>2. \A j \in S : jobs[j].status # "none"
    BY DEF Stalled
  <2>3. JobsKept
    BY <1>2, <2>1, <2>2
  <2> QED
    BY <1>0, <1>3, <2>3, Kept, Unwritten DEF Sweep
<1>4. CASE Crash
  <2>1. faults' \in 0..MaxFaults
    BY <1>0, <1>4, QueueAssumption DEF Crash
  <2> QED
    BY <1>0, <1>4, <2>1, Kept, Unwritten DEF Crash
<1>5. CASE Restart
  <2> DEFINE S == {j \in Jobs : RunningRow(jobs[j])}
  <2>1. jobs' = [j \in Jobs |-> IF j \in S THEN ReclaimedRow(jobs[j]) ELSE jobs[j]]
    BY <1>5 DEF Restart
  <2>2. \A j \in S : jobs[j].status # "none"
    BY DEF RunningRow
  <2>3. JobsKept
    BY <1>2, <2>1, <2>2
  <2> QED
    BY <1>0, <1>5, <2>3, Kept, Unwritten DEF Restart
<1> QED
  BY <1>1, <1>3, <1>4, <1>5

LEMMA NextTyped == TypeOK /\ RowsInUse /\ [Next]_vars => TypeOK' /\ RowsInUse'
<1> SUFFICES ASSUME TypeOK, RowsInUse, [Next]_vars PROVE TypeOK' /\ RowsInUse'
  OBVIOUS
<1>1. CASE UNCHANGED vars
  BY <1>1 DEF vars, TypeOK, RowsInUse, Parsed
<1>2. CASE \E w \in Workers : Claim(w) \/ Step(w) \/ LoopError(w)
  BY <1>2, StepTyped
<1> QED
  BY <1>1, <1>2, RequestTyped, ProcessTyped DEF Next

(* The tables and the loops' memory are well typed in every reachable      *)
(* state of the pipeline.                                                  *)
THEOREM TypeCorrect == Spec => []TypeOK
  BY InitTyped, NextTyped, PTL DEF Spec

-----------------------------------------------------------------------------
(* The pipeline implements the job queue; with that, what JobQueueProofs   *)
(* proves of the queue is proved of the pipeline.                          *)

(* The queue a pipeline state shows. *)
Row(r) == [status |-> r.status, attempts |-> r.attempts, beat |-> r.beat]

View == [j \in Jobs |-> [status |-> jobs[j].status, attempts |-> jobs[j].attempts,
                         beat |-> jobs[j].beat]]

Holds == [w \in Workers |-> Held(w)]

QP == INSTANCE JobQueueProofs WITH jobs <- View, held <- Holds

(* Rows are equal when their fields are. *)
LEMMA SameRow ==
    ASSUME NEW x \in Queue!JobRow, NEW y \in Queue!JobRow,
           x.status = y.status, x.attempts = y.attempts, x.beat = y.beat
    PROVE  x = y
BY DEF Queue!JobRow, Queue!Statuses

(* The statements see no more of a row than the queue does. *)
LEMMA RowViews ==
    ASSUME NEW r \in JobRow
    PROVE  /\ Row(r) \in Queue!JobRow
           /\ Row(ClaimedRow(r)) = Queue!ClaimedRow(Row(r))
           /\ Row(FinishedRow(r)) = Queue!FinishedRow(Row(r))
           /\ Row(ReleasedRow(r)) = Queue!ReleasedRow(Row(r))
           /\ Row(ReclaimedRow(r)) = Queue!ReclaimedRow(Row(r))
           /\ \A d \in Docs : Row(NewJob(r, d)) = Queue!EnqueuedRow(Row(r))
           /\ Row([r EXCEPT !.status = "deleted"]) = [Row(r) EXCEPT !.status = "deleted"]
           /\ Row([r EXCEPT !.beat = "stale"]) = [Row(r) EXCEPT !.beat = "stale"]
           /\ Exists(r) <=> Queue!Exists(Row(r))
           /\ Stalled(r) <=> Queue!Stalled(Row(r))
           /\ RunningRow(r) <=> Queue!RunningRow(Row(r))
           /\ Claimable(r) <=> Queue!Claimable(Row(r))
<1>0. \A s \in JobRow : Row(s) \in Queue!JobRow
  BY DEF Row, JobRow, Statuses, Queue!JobRow, Queue!Statuses
<1>1. Row(ClaimedRow(r)) = Queue!ClaimedRow(Row(r))
  <2> DEFINE x == Row(ClaimedRow(r))
             y == Queue!ClaimedRow(Row(r))
  <2>1. x \in Queue!JobRow
    BY <1>0, JobTypes
  <2>2. r.attempts + 1 \in Nat
    BY DEF JobRow
  <2>3. y \in Queue!JobRow
    BY <2>2 DEF Row, Queue!ClaimedRow, Queue!JobRow, Queue!Statuses
  <2>4. x.status = y.status /\ x.attempts = y.attempts /\ x.beat = y.beat
    BY DEF JobRow, Row, ClaimedRow, Queue!ClaimedRow
  <2> HIDE DEF x, y
  <2> QED
    BY <2>1, <2>3, <2>4, SameRow DEF x, y
<1>2. Row(ReclaimedRow(r)) = Queue!ReclaimedRow(Row(r))
  <2> DEFINE x == Row(ReclaimedRow(r))
             y == Queue!ReclaimedRow(Row(r))
  <2>1. x \in Queue!JobRow
    BY <1>0, JobTypes
  <2>2. y \in Queue!JobRow
    BY DEF JobRow, Row, Queue!ReclaimedRow, Queue!JobRow, Queue!Statuses
  <2>3. x.status = y.status /\ x.attempts = y.attempts /\ x.beat = y.beat
    BY DEF JobRow, Row, ReclaimedRow, Queue!ReclaimedRow
  <2> HIDE DEF x, y
  <2> QED
    BY <2>1, <2>2, <2>3, SameRow DEF x, y
<1> USE DEF JobRow, Row
<1>3. Row(FinishedRow(r)) = Queue!FinishedRow(Row(r))
  BY DEF FinishedRow, Queue!FinishedRow
<1>4. Row(ReleasedRow(r)) = Queue!ReleasedRow(Row(r))
  BY DEF ReleasedRow, Queue!ReleasedRow
<1>5. \A d \in Docs : Row(NewJob(r, d)) = Queue!EnqueuedRow(Row(r))
  BY DEF NewJob, EnqueuedRow, Queue!EnqueuedRow
<1>6. /\ Row([r EXCEPT !.status = "deleted"]) = [Row(r) EXCEPT !.status = "deleted"]
      /\ Row([r EXCEPT !.beat = "stale"]) = [Row(r) EXCEPT !.beat = "stale"]
  OBVIOUS
<1>7. /\ Exists(r) <=> Queue!Exists(Row(r))
      /\ Stalled(r) <=> Queue!Stalled(Row(r))
      /\ RunningRow(r) <=> Queue!RunningRow(Row(r))
      /\ Claimable(r) <=> Queue!Claimable(Row(r))
  BY DEF Exists, Queue!Exists, Stalled, Queue!Stalled, RunningRow, Queue!RunningRow,
         Claimable, Queue!Claimable
<1> QED
  BY <1>0, <1>1, <1>2, <1>3, <1>4, <1>5, <1>6, <1>7

(* The proofs of the queue are about this queue. *)
LEMMA SameQueue == Queue!Next <=> QP!Next
BY DEF View, Holds, Queue!Next, QP!Next,
       Queue!Enqueue, QP!Enqueue, Queue!Cascade, QP!Cascade, Queue!Claim, QP!Claim,
       Queue!Finish, QP!Finish, Queue!Release, QP!Release,
       Queue!ReleaseRaises, QP!ReleaseRaises, Queue!Lapse, QP!Lapse,
       Queue!Sweep, QP!Sweep, Queue!Crash, QP!Crash, Queue!Blip, QP!Blip,
       Queue!Restart, QP!Restart, Queue!Jobs, QP!Jobs, Queue!IsOldest, QP!IsOldest,
       Queue!Claimable, QP!Claimable, Queue!Exists, QP!Exists,
       Queue!Stalled, QP!Stalled, Queue!RunningRow, QP!RunningRow,
       Queue!ClaimedRow, QP!ClaimedRow, Queue!FinishedRow, QP!FinishedRow,
       Queue!ReleasedRow, QP!ReleasedRow, Queue!ReclaimedRow, QP!ReclaimedRow,
       Queue!EnqueuedRow, QP!EnqueuedRow

-----------------------------------------------------------------------------
(* What a run does between claim and its report is not seen by the queue.  *)

(* JobQueueProofs' Ownership, in this module's terms; and nothing runs in  *)
(* a dead process.                                                         *)
Owned ==
    /\ \A v, w \in Workers : v # w /\ Held(v) # NoJob => Held(v) # Held(w)
    /\ \A w \in Workers : Held(w) # NoJob =>
         /\ up
         /\ jobs[Held(w)].status \in {"running", "deleted"}
         /\ jobs[Held(w)].beat = "fresh"

Alive == \A w \in Workers : wk[w].at # "idle" => up

LEMMA HeldTypes ==
    ASSUME TypeOK, RowsInUse
    PROVE  \A w \in Workers : Held(w) \in Jobs \cup {NoJob}
BY DEF Held, RunSteps, RowsInUse

LEMMA ViewTyped == TypeOK /\ RowsInUse => QP!TypeOK
<1> SUFFICES ASSUME TypeOK, RowsInUse PROVE QP!TypeOK
  OBVIOUS
<1>1. View \in [Jobs -> QP!JobRow]
  BY DEF View, TypeOK, JobRow, Statuses, QP!JobRow, QP!Statuses
<1>2. Holds \in [Workers -> Jobs \cup {NoJob}]
  BY HeldTypes DEF Holds
<1> QED
  BY <1>1, <1>2 DEF QP!TypeOK, TypeOK, QP!Jobs, Jobs

LEMMA OwnedIsOwnership == TypeOK /\ RowsInUse => (Owned <=> QP!Ownership)
<1> SUFFICES ASSUME TypeOK, RowsInUse PROVE Owned <=> QP!Ownership
  OBVIOUS
<1>1. \A w \in Workers : Holds[w] = Held(w)
  BY DEF Holds
<1>2. \A w \in Workers : Held(w) # NoJob =>
        /\ View[Held(w)].status = jobs[Held(w)].status
        /\ View[Held(w)].beat = jobs[Held(w)].beat
  BY HeldTypes DEF View
<1> QED
  BY <1>1, <1>2 DEF Owned, QP!Ownership, QP!NoSharedJob, QP!HeldRuns

LEMMA Stutters ==
    ASSUME \A j \in Jobs : Row(jobs'[j]) = Row(jobs[j]),
           \A w \in Workers : Held(w)' = Held(w),
           up' = up, faults' = faults
    PROVE  UNCHANGED Queue!vars
<1>1. View' = View
  BY DEF View, Row
<1>2. Holds' = Holds
  BY DEF Holds
<1> QED
  BY <1>1, <1>2 DEF Queue!vars, View, Holds

(* The steps of a run that only read, or write what the queue lacks. *)
Silent(w) ==
    \/ Load(w) \/ Advance(w) \/ Mark(w) \/ Parse(w) \/ Pages(w) \/ Profile(w)
    \/ Chunk(w) \/ Count(w) \/ Batch(w) \/ Embed(w) \/ Progress(w) \/ Ready(w)
    \/ Raise(w) \/ ReadStatus(w) \/ MarkFailed(w)

(* update_progress writes a heartbeat to a row whose heartbeat is fresh.   *)
LEMMA ProgressUnseen ==
    ASSUME TypeOK, RowsInUse, Owned, NEW w \in Workers, Advance(w) \/ Progress(w)
    PROVE  \A j \in Jobs : Row(jobs'[j]) = Row(jobs[j])
<1> DEFINE i == wk[w].job
<1>1. Held(w) = i /\ i \in Jobs /\ i # NoJob
  BY QueueAssumption DEF Advance, Progress, Held, RunSteps, RowsInUse, Jobs
<1>2. jobs[i] \in JobRow /\ jobs[i].beat = "fresh"
  BY <1>1 DEF Owned, TypeOK
<1>3. jobs' = WithCheckpoint(i, wk[w].cw)
  BY DEF Advance, Progress
<1>4. CASE ~Exists(jobs[i])
  BY <1>3, <1>4 DEF WithCheckpoint
<1>5. CASE Exists(jobs[i])
  <2> DEFINE r == [jobs[i] EXCEPT !.cw = wk[w].cw, !.beat = "fresh"]
  <2>1. jobs' = [jobs EXCEPT ![i] = r]
    BY <1>1, <1>2, <1>3, <1>5 DEF WithCheckpoint, TypeOK
  <2>2. r.status = jobs[i].status /\ r.attempts = jobs[i].attempts /\ r.beat = "fresh"
    BY <1>2 DEF JobRow
  <2> HIDE DEF r
  <2>3. Row(r) = Row(jobs[i])
    BY <1>2, <2>2 DEF Row
  <2> QED
    BY <1>1, <2>1, <2>3 DEF TypeOK
<1> QED
  BY <1>4, <1>5

LEMMA SilentHolding ==
    ASSUME TypeOK, RowsInUse, NEW w \in Workers, Silent(w)
    PROVE  \A v \in Workers : Held(v)' = Held(v)
<1>0. wk \in [Workers -> Loop] /\ wk[w] \in Loop
  BY DEF TypeOK
<1>1. ASSUME NEW p \in RunSteps, Goto(w, p), wk[w].at \in RunSteps
      PROVE  \A v \in Workers : Held(v)' = Held(v)
  BY <1>0, <1>1 DEF Goto, Held, Loop
<1>2. ASSUME NEW s \in Stages, GotoStage(w, s), wk[w].at \in RunSteps
      PROVE  \A v \in Workers : Held(v)' = Held(v)
  BY <1>0, <1>2 DEF GotoStage, Held, Loop, RunSteps
<1>3. CASE Load(w) \/ Pages(w) \/ Profile(w)
  BY <1>2, <1>3 DEF Load, Pages, Profile, RunSteps, Stages
<1>4. CASE Advance(w) \/ Count(w) \/ Progress(w) \/ Ready(w)
  BY <1>1, <1>4 DEF Advance, Count, Progress, Ready, RunSteps
<1>5. CASE Mark(w)
  <2>1. PICK p \in {"parse", "profile", "chunk", "count"} : Goto(w, p)
    BY <1>0, <1>5 DEF Mark, Loop, Stages
  <2>2. p \in RunSteps /\ wk[w].at \in RunSteps
    BY <1>5 DEF Mark, RunSteps
  <2> QED
    BY <1>1, <2>1, <2>2
<1>6. CASE Parse(w) \/ Embed(w) \/ Chunk(w)
  BY <1>0, <1>6 DEF Parse, Embed, Chunk, Held, Loop, RunSteps
<1>7. CASE Batch(w)
  <2>1. CASE Goto(w, "ready")
    BY <1>1, <1>7, <2>1 DEF Batch, RunSteps
  <2>2. CASE ~Goto(w, "ready")
    BY <1>0, <1>7, <2>2 DEF Batch, Held, Loop, RunSteps
  <2> QED
    BY <2>1, <2>2
<1>8. CASE Raise(w)
  BY <1>0, <1>8 DEF Raise, AfterRaise, IdleWorker, Held, RunSteps
<1>9. CASE ReadStatus(w) \/ MarkFailed(w)
  BY <1>0, <1>9 DEF ReadStatus, MarkFailed, Goto, Rest, IdleWorker, Held, Loop, RunSteps
<1> QED
  BY <1>3, <1>4, <1>5, <1>6, <1>7, <1>8, <1>9 DEF Silent

LEMMA SilentStutters ==
    ASSUME TypeOK, RowsInUse, Owned, NEW w \in Workers, Silent(w)
    PROVE  UNCHANGED Queue!vars
<1>1. \A j \in Jobs : Row(jobs'[j]) = Row(jobs[j])
  <2>1. CASE Advance(w) \/ Progress(w)
    BY <2>1, ProgressUnseen
  <2>2. CASE ~(Advance(w) \/ Progress(w))
    BY <2>2 DEF Silent, Load, Mark, Parse, Pages, Profile, Chunk, Count, Batch,
                Embed, Ready, Raise, ReadStatus, MarkFailed
  <2> QED
    BY <2>1, <2>2
<1>2. up' = up /\ faults' = faults
  BY DEF Silent, Load, Advance, Mark, Parse, Pages, Profile, Chunk, Count, Batch,
         Embed, Progress, Ready, Raise, ReadStatus, MarkFailed
<1> QED
  BY <1>1, <1>2, SilentHolding, Stutters

(* The other steps are steps of the queue. *)

(* A step of the queue that rewrites one row, as seen through View.        *)
LEMMA ViewOf ==
    ASSUME TypeOK, RowsInUse, TypeOK', NEW i \in Jobs, NEW q,
           \A j \in Jobs : j # i => jobs'[j] = jobs[j],
           Row(jobs'[i]) = q
    PROVE  View' = [View EXCEPT ![i] = q]
BY DEF View, Row

LEMMA HoldsOf ==
    ASSUME TypeOK, NEW w \in Workers, NEW i,
           Held(w)' = i, \A v \in Workers : v # w => wk'[v] = wk[v]
    PROVE  Holds' = [Holds EXCEPT ![w] = i]
BY DEF Holds, Held

LEMMA ClaimRefines ==
    ASSUME TypeOK, RowsInUse, TypeOK', NEW w \in Workers, Claim(w)
    PROVE  Queue!Claim(w)
<1> PICK j \in Jobs :
      /\ IsOldest(jobs, j)
      /\ jobs' = [jobs EXCEPT ![j] = ClaimedRow(@)]
      /\ wk' = [wk EXCEPT ![w].at = "load", ![w].job = j, ![w].cw = jobs[j].cw]
  BY DEF Claim
<1>0. /\ jobs \in [Jobs -> JobRow] /\ wk \in [Workers -> Loop] /\ wk[w] \in Loop
  BY DEF TypeOK
<1>1. \A i \in Jobs : View[i] = Row(jobs[i])
  BY DEF View, Row
<1>2. Queue!IsOldest(View, j)
  <2>1. ASSUME NEW i \in Jobs PROVE Claimable(jobs[i]) <=> Queue!Claimable(View[i])
    <3>1. jobs[i] \in JobRow /\ View[i] = Row(jobs[i])
      BY <1>0, <1>1
    <3> QED
      BY <3>1, RowViews
  <2>2. Queue!Jobs = Jobs
    BY DEF Queue!Jobs, Jobs
  <2> QED
    BY <2>1, <2>2 DEF IsOldest, Queue!IsOldest
<1>3. Row(jobs'[j]) = Queue!ClaimedRow(View[j])
  BY <1>0, <1>1, RowViews
<1>4. View' = [View EXCEPT ![j] = Queue!ClaimedRow(View[j])]
  BY <1>0, <1>3, ViewOf
<1>5. Held(w)' = j /\ Held(w) = NoJob
  BY <1>0 DEF Claim, Held, Loop, RunSteps
<1>6. Holds' = [Holds EXCEPT ![w] = j] /\ Holds[w] = NoJob
  BY <1>0, <1>5, HoldsOf DEF Holds
<1>7. \E i \in Queue!Jobs :
        /\ Queue!IsOldest(View, i)
        /\ View' = [View EXCEPT ![i] = Queue!ClaimedRow(@)]
        /\ Holds' = [Holds EXCEPT ![w] = i]
  BY <1>2, <1>4, <1>6 DEF Queue!Jobs, Jobs
<1>8. up /\ Holds[w] = NoJob /\ UNCHANGED <<up, faults>>
  BY <1>6 DEF Claim
<1> QED
  BY <1>7, <1>8, Zenon DEF Queue!Claim, View, Holds

(* finish and release write the row of the job they are about.             *)
LEMMA ReportRefines ==
    ASSUME TypeOK, RowsInUse, TypeOK', NEW w \in Workers,
           Finish(w) \/ Release(w)
    PROVE  Queue!Finish(w) \/ Queue!Release(w)
<1> DEFINE i == wk[w].job
<1>0. /\ jobs \in [Jobs -> JobRow] /\ wk \in [Workers -> Loop] /\ wk[w] \in Loop
  BY DEF TypeOK
<1>1. Held(w) = i /\ i \in Jobs /\ i # NoJob
  BY QueueAssumption DEF Finish, Release, Held, RunSteps, RowsInUse, Jobs
<1>2. Held(w)' = NoJob /\ \A v \in Workers : v # w => wk'[v] = wk[v]
  BY <1>0 DEF Finish, Release, Rest, Goto, Held, RunSteps, IdleWorker, Loop
<1>3. Holds' = [Holds EXCEPT ![w] = NoJob] /\ Holds[w] = i
  BY <1>1, <1>2, HoldsOf DEF Holds
<1>4. View[i] = Row(jobs[i]) /\ jobs[i] \in JobRow
  BY <1>0, <1>1 DEF View, Row
<1>5. \A j \in Jobs : j # i => jobs'[j] = jobs[j]
  BY <1>0 DEF Finish, Release
<1>6. CASE Finish(w)
  <2> DEFINE q == IF Queue!Exists(View[i]) THEN Queue!FinishedRow(View[i]) ELSE View[i]
  <2>1. Row(jobs'[i]) = q
    BY <1>0, <1>1, <1>4, <1>6, RowViews DEF Finish
  <2>2. View' = [View EXCEPT ![i] = q]
    BY <1>1, <1>5, <2>1, ViewOf
  <2> QED
    BY <1>1, <1>3, <1>6, <2>2 DEF Queue!Finish, Finish, View, Holds
<1>7. CASE Release(w)
  <2> DEFINE q == IF Queue!Exists(View[i]) THEN Queue!ReleasedRow(View[i]) ELSE View[i]
  <2>1. Row(jobs'[i]) = q
    BY <1>0, <1>1, <1>4, <1>7, RowViews DEF Release
  <2>2. View' = [View EXCEPT ![i] = q]
    BY <1>1, <1>5, <2>1, ViewOf
  <2> QED
    BY <1>1, <1>3, <1>7, <2>2 DEF Queue!Release, Release, View, Holds
<1> QED
  BY <1>6, <1>7

LEMMA ErrorRefines ==
    ASSUME TypeOK, RowsInUse, Alive, NEW w \in Workers, LoopError(w)
    PROVE  Queue!ReleaseRaises(w) \/ Queue!Blip
<1>0. wk \in [Workers -> Loop] /\ wk[w] \in Loop /\ up
  BY DEF TypeOK, Alive, LoopError
<1>1. View' = View
  BY DEF LoopError, View
<1>2. Held(w)' = NoJob /\ \A v \in Workers : v # w => wk'[v] = wk[v]
  BY <1>0 DEF LoopError, Rest, Held, RunSteps, IdleWorker
<1>3. Holds' = [Holds EXCEPT ![w] = NoJob]
  BY <1>2, HoldsOf
<1>4. CASE wk[w].at = "release"
  <2>1. Holds[w] # NoJob
    BY <1>4, QueueAssumption DEF Holds, Held, RowsInUse, Jobs
  <2> QED
    BY <1>1, <1>3, <2>1 DEF LoopError, Queue!ReleaseRaises, View, Holds
<1>5. CASE wk[w].at # "release"
  <2>1. Holds[w] = NoJob
    BY <1>5 DEF LoopError, Holds, Held, RunSteps
  <2>2. Holds' = Holds
    BY <1>3, <2>1 DEF Holds
  <2> QED
    BY <1>0, <1>1, <2>2 DEF LoopError, Queue!Blip, View, Holds
<1> QED
  BY <1>4, <1>5

(* RowViews at a job. *)
LEMMA ViewAt ==
    ASSUME TypeOK, NEW j \in Jobs
    PROVE  /\ View[j] = Row(jobs[j])
           /\ View[j].status = jobs[j].status /\ View[j].beat = jobs[j].beat
           /\ Row(ReclaimedRow(jobs[j])) = Queue!ReclaimedRow(View[j])
           /\ \A d \in Docs : Row(NewJob(jobs[j], d)) = Queue!EnqueuedRow(View[j])
           /\ Row([jobs[j] EXCEPT !.status = "deleted"]) = [View[j] EXCEPT !.status = "deleted"]
           /\ Row([jobs[j] EXCEPT !.beat = "stale"]) = [View[j] EXCEPT !.beat = "stale"]
           /\ Exists(jobs[j]) <=> Queue!Exists(View[j])
           /\ Stalled(jobs[j]) <=> Queue!Stalled(View[j])
           /\ RunningRow(jobs[j]) <=> Queue!RunningRow(View[j])
<1>1. jobs[j] \in JobRow
  BY DEF TypeOK
<1>2. View[j] = Row(jobs[j])
  BY DEF View, Row
<1>3. View[j].status = jobs[j].status /\ View[j].beat = jobs[j].beat
  BY DEF View
<1> QED
  BY <1>1, <1>2, <1>3, RowViews

LEMMA RequestRefines ==
    ASSUME TypeOK, RowsInUse, TypeOK',
           \/ \E d \in Docs, v \in Versions : Upload(d, v)
           \/ Reindex
           \/ \E d \in Docs : DeleteDocument(d)
           \/ DeleteWorkspace
    PROVE  \E S \in SUBSET Jobs : Queue!Enqueue(S) \/ Queue!Cascade(S)
<1>0. /\ jobs \in [Jobs -> JobRow] /\ \A j \in Jobs : jobs[j] \in JobRow
      /\ \A j \in Jobs : View[j] = Row(jobs[j])
  BY DEF TypeOK, View, Row
<1>1. up /\ up' = up /\ faults' = faults /\ Holds' = Holds
  BY DEF Upload, Reindex, DeleteDocument, DeleteWorkspace, Holds, Held
<1>2. ASSUME NEW S \in SUBSET Jobs, \A j \in S : jobs[j].status = "none",
             \A j \in Jobs : IF j \in S THEN Row(jobs'[j]) = Queue!EnqueuedRow(View[j])
                             ELSE jobs'[j] = jobs[j]
      PROVE  Queue!Enqueue(S)
  <2>1. View' = [j \in Queue!Jobs |-> IF j \in S THEN Queue!EnqueuedRow(View[j]) ELSE View[j]]
    BY <1>0, <1>2 DEF View, Row, Queue!Jobs, Jobs
  <2>2. \A j \in S : View[j].status = "none"
    BY <1>2, ViewAt
  <2> QED
    BY <1>1, <2>1, <2>2 DEF Queue!Enqueue, View, Holds
<1>3. ASSUME NEW S \in SUBSET Jobs, \A j \in S : Exists(jobs[j]),
             jobs' = [j \in Jobs |-> IF j \in S THEN [jobs[j] EXCEPT !.status = "deleted"]
                                     ELSE jobs[j]]
      PROVE  Queue!Cascade(S)
  <2>1. \A j \in S : Row(jobs'[j]) = [View[j] EXCEPT !.status = "deleted"]
    BY <1>3, ViewAt
  <2>2. View' = [j \in Queue!Jobs |-> IF j \in S THEN [View[j] EXCEPT !.status = "deleted"]
                                      ELSE View[j]]
    BY <1>0, <1>3, <2>1 DEF View, Row, Queue!Jobs, Jobs
  <2>3. \A j \in S : Queue!Exists(View[j])
    BY <1>3, ViewAt
  <2> QED
    BY <1>1, <2>2, <2>3 DEF Queue!Cascade, View, Holds
<1>4. ASSUME NEW d \in Docs, NEW v \in Versions, Upload(d, v)
      PROVE  \E S \in SUBSET Jobs : Queue!Enqueue(S)
  <2>1. PICK j \in Jobs : /\ jobs[j].status = "none"
                          /\ jobs' = [jobs EXCEPT ![j] = NewJob(@, d)]
    BY <1>4 DEF Upload, Unused
  <2>2. Row(jobs'[j]) = Queue!EnqueuedRow(View[j])
    BY <1>0, <2>1, ViewAt
  <2>3. Queue!Enqueue({j})
    BY <1>0, <1>2, <2>1, <2>2
  <2> QED
    BY <2>3
<1>5. ASSUME Reindex PROVE \E S \in SUBSET Jobs : Queue!Enqueue(S)
  <2>0. PICK D \in SUBSET Docs, J \in SUBSET Unused : \E f \in [J -> D] :
          jobs' = [j \in Jobs |-> IF j \in J THEN NewJob(jobs[j], f[j]) ELSE jobs[j]]
    <3> DEFINE E == {d \in Docs : DocExists(d)}
               K == {j \in Unused : Cardinality({i \in Unused : i < j}) < Cardinality(E)}
    <3>1. \E f \in [K -> E] :
            jobs' = [j \in Jobs |-> IF j \in K THEN NewJob(jobs[j], f[j]) ELSE jobs[j]]
      BY <1>5 DEF Reindex
    <3>2. K \in SUBSET Unused /\ E \in SUBSET Docs
      OBVIOUS
    <3> HIDE DEF E, K
    <3> QED
      BY <3>1, <3>2
  <2>1. PICK f \in [J -> D] :
          jobs' = [j \in Jobs |-> IF j \in J THEN NewJob(jobs[j], f[j]) ELSE jobs[j]]
    BY <2>0
  <2>2. J \in SUBSET Jobs /\ \A j \in J : jobs[j].status = "none"
    BY DEF Unused
  <2>3. ASSUME NEW j \in J PROVE Row(jobs'[j]) = Queue!EnqueuedRow(View[j])
    <3>1. f[j] \in Docs /\ j \in Jobs /\ jobs'[j] = NewJob(jobs[j], f[j])
      BY <2>1, <2>2
    <3>2. \A d \in Docs : Row(NewJob(jobs[j], d)) = Queue!EnqueuedRow(View[j])
      BY <3>1, ViewAt
    <3> QED
      BY <3>1, <3>2
  <2>4. \A j \in Jobs : IF j \in J THEN Row(jobs'[j]) = Queue!EnqueuedRow(View[j])
                        ELSE jobs'[j] = jobs[j]
    BY <2>1, <2>3
  <2> QED
    BY <1>2, <2>2, <2>4
<1>6. ASSUME NEW D \in SUBSET Docs, DeleteRows(D)
      PROVE  \E S \in SUBSET Jobs : Queue!Cascade(S)
  <2>1. PICK S \in SUBSET Jobs : S = {j \in Jobs : \E d \in D : j \in JobsOf(d)}
    OBVIOUS
  <2>2. \A j \in S : Exists(jobs[j])
    BY <2>1 DEF JobsOf
  <2>3. jobs' = [j \in Jobs |-> IF j \in S THEN [jobs[j] EXCEPT !.status = "deleted"]
                                ELSE jobs[j]]
    BY <1>6, <2>1 DEF DeleteRows
  <2> QED
    BY <1>3, <2>2, <2>3
<1>7. ASSUME NEW d \in Docs, DeleteDocument(d)
      PROVE  \E S \in SUBSET Jobs : Queue!Cascade(S)
  BY <1>6, <1>7 DEF DeleteDocument
<1>8. ASSUME DeleteWorkspace PROVE \E S \in SUBSET Jobs : Queue!Cascade(S)
  BY <1>6, <1>8 DEF DeleteWorkspace
<1> QED
  BY <1>4, <1>5, <1>7, <1>8

LEMMA ProcessRefines ==
    ASSUME TypeOK, RowsInUse, TypeOK',
           (\E j \in Jobs : Lapse(j)) \/ Sweep \/ Crash \/ Restart
    PROVE  \/ \E j \in Jobs : Queue!Lapse(j)
           \/ Queue!Sweep \/ Queue!Crash \/ Queue!Restart
<1>0. /\ jobs \in [Jobs -> JobRow] /\ \A j \in Jobs : jobs[j] \in JobRow
      /\ \A j \in Jobs : View[j] = Row(jobs[j])
      /\ \A w \in Workers : Holds[w] = Held(w)
      /\ Queue!Jobs = Jobs
  BY DEF TypeOK, View, Row, Holds, Queue!Jobs, Jobs
<1>1. ASSUME NEW j \in Jobs, Lapse(j) PROVE Queue!Lapse(j)
  <2>1. Row(jobs'[j]) = [View[j] EXCEPT !.beat = "stale"]
    BY <1>0, <1>1, ViewAt DEF Lapse
  <2>2. View' = [View EXCEPT ![j] = [View[j] EXCEPT !.beat = "stale"]]
    BY <1>0, <1>1, <2>1, ViewOf DEF Lapse
  <2>3. View[j].status = "running" /\ View[j].beat = "fresh" /\ Holds' = Holds
    BY <1>1, ViewAt DEF Lapse, Holds, Held
  <2> QED
    BY <1>0, <1>1, <2>2, <2>3 DEF Lapse, Queue!Lapse, View, Holds
<1>2. CASE Sweep
  <2>1. \A j \in Jobs : Stalled(jobs[j]) <=> Queue!Stalled(View[j])
    BY ViewAt
  <2>2. \A j \in Jobs : Row(jobs'[j]) = IF Queue!Stalled(View[j])
                                        THEN Queue!ReclaimedRow(View[j]) ELSE View[j]
    BY <1>2, <2>1, ViewAt DEF Sweep
  <2>3. View' = [j \in Queue!Jobs |-> IF Queue!Stalled(View[j])
                                      THEN Queue!ReclaimedRow(View[j]) ELSE View[j]]
    BY <1>0, <2>2 DEF View, Row
  <2>4. up /\ (\E j \in Queue!Jobs : Queue!Stalled(View[j])) /\ Holds' = Holds
        /\ up' = up /\ faults' = faults
    BY <1>0, <1>2, <2>1 DEF Sweep, Holds, Held
  <2> QED
    BY <2>3, <2>4 DEF Queue!Sweep, View, Holds
<1>3. CASE Crash
  <2>1. Holds' = [w \in Workers |-> NoJob] /\ View' = View
    BY <1>3 DEF Crash, Holds, Held, IdleWorker, RunSteps, View
  <2> QED
    BY <1>3, <2>1 DEF Crash, Queue!Crash, View, Holds
<1>4. CASE Restart
  <2>1. \A j \in Jobs : RunningRow(jobs[j]) <=> Queue!RunningRow(View[j])
    BY ViewAt
  <2>2. \A j \in Jobs : Row(jobs'[j]) = IF Queue!RunningRow(View[j])
                                        THEN Queue!ReclaimedRow(View[j]) ELSE View[j]
    BY <1>4, <2>1, ViewAt DEF Restart
  <2>3. View' = [j \in Queue!Jobs |-> IF Queue!RunningRow(View[j])
                                      THEN Queue!ReclaimedRow(View[j]) ELSE View[j]]
    BY <1>0, <2>2 DEF View, Row
  <2>4. Holds' = Holds
    BY <1>4 DEF Restart, Holds, Held
  <2> QED
    BY <1>4, <2>3, <2>4 DEF Restart, Queue!Restart, View, Holds
<1> QED
  BY <1>1, <1>2, <1>3, <1>4

(* Every step of the pipeline is a step of the queue or leaves it alone.   *)
LEMMA NextRefines ==
    ASSUME TypeOK, RowsInUse, Owned, Alive, TypeOK', [Next]_vars
    PROVE  [Queue!Next]_(Queue!vars)
<1>0. Queue!Jobs = Jobs
  BY DEF Queue!Jobs, Jobs
<1>1. CASE UNCHANGED vars
  BY <1>1, Stutters DEF vars, Held
<1>2. ASSUME NEW w \in Workers, Step(w) PROVE [Queue!Next]_(Queue!vars)
  <2>1. Silent(w) \/ Finish(w) \/ Release(w)
    BY <1>2 DEF Step, Silent
  <2>2. Silent(w) => UNCHANGED Queue!vars
    BY SilentStutters
  <2>3. Finish(w) \/ Release(w) => Queue!Next
    BY ReportRefines DEF Queue!Next
  <2> QED
    BY <2>1, <2>2, <2>3
<1>3. ASSUME NEW w \in Workers, Claim(w) PROVE Queue!Next
  BY <1>3, ClaimRefines DEF Queue!Next
<1>4. ASSUME NEW w \in Workers, LoopError(w) PROVE Queue!Next
  BY <1>4, ErrorRefines DEF Queue!Next
<1>5. ASSUME \/ \E d \in Docs, v \in Versions : Upload(d, v)
             \/ Reindex
             \/ \E d \in Docs : DeleteDocument(d)
             \/ DeleteWorkspace
      PROVE  Queue!Next
  BY <1>0, <1>5, RequestRefines DEF Queue!Next
<1>6. ASSUME (\E j \in Jobs : Lapse(j)) \/ Sweep \/ Crash \/ Restart
      PROVE  Queue!Next
  BY <1>0, <1>6, ProcessRefines DEF Queue!Next
<1> QED
  BY <1>1, <1>2, <1>3, <1>4, <1>5, <1>6 DEF Next

LEMMA InitRefines == Init => Queue!Init /\ Owned /\ Alive
BY DEF Init, Queue!Init, Queue!Jobs, Jobs, Owned, Alive, Held, IdleWorker, RunSteps

LEMMA NextOwned ==
    TypeOK /\ RowsInUse /\ Owned /\ Alive /\ [Next]_vars => Owned'
<1> SUFFICES ASSUME TypeOK, RowsInUse, Owned, Alive, [Next]_vars PROVE Owned'
  OBVIOUS
<1>1. TypeOK' /\ RowsInUse'
  BY NextTyped
<1>2. QP!TypeOK /\ QP!Ownership
  BY ViewTyped, OwnedIsOwnership
<1>3. [QP!Next]_(QP!vars)
  <2>1. Queue!Next \/ UNCHANGED Queue!vars
    BY <1>1, NextRefines
  <2>2. UNCHANGED Queue!vars => UNCHANGED QP!vars
    BY DEF Queue!vars, QP!vars, View, Holds
  <2> QED
    BY <2>1, <2>2, SameQueue
<1>4. QP!Ownership'
  BY <1>2, <1>3, QP!NextOwned, QueueAssumption
<1>5. TypeOK' /\ RowsInUse' => (Owned' <=> QP!Ownership')
  BY OwnedIsOwnership, PTL
<1> QED
  BY <1>1, <1>4, <1>5

LEMMA NextAlive == TypeOK /\ Alive /\ [Next]_vars => Alive'
<1> SUFFICES ASSUME TypeOK, Alive, [Next]_vars PROVE Alive'
  OBVIOUS
<1>1. ASSUME NEW w \in Workers, Claim(w) \/ Step(w) \/ LoopError(w) PROVE Alive'
  <2>1. up /\ up' = up
    BY <1>1 DEF Alive, Claim, LoopError, Step, Load, Advance, Mark, Parse, Pages,
       Profile, Chunk, Count, Batch, Embed, Progress, Ready, Finish, Raise, Release,
       ReadStatus, MarkFailed, RunSteps
  <2> QED
    BY <2>1 DEF Alive
<1>2. CASE \/ \E d \in Docs, v \in Versions : Upload(d, v)
           \/ Reindex
           \/ \E d \in Docs : DeleteDocument(d)
           \/ DeleteWorkspace
           \/ \E j \in Jobs : Lapse(j)
           \/ Sweep
  <2>1. wk' = wk /\ up' = up
    BY <1>2 DEF Upload, Reindex, DeleteDocument, DeleteWorkspace, Lapse, Sweep
  <2> QED
    BY <2>1 DEF Alive
<1>3. CASE Crash
  BY <1>3 DEF Alive, Crash, IdleWorker
<1>4. CASE Restart \/ UNCHANGED vars
  BY <1>4 DEF Alive, Restart, vars
<1> QED
  BY <1>1, <1>2, <1>3, <1>4 DEF Next

(* The tables and loops of the pipeline, whatever requests, failures and   *)
(* crashes come between its transactions, behave as the queue of           *)
(* JobQueue.tla.                                                           *)
THEOREM RefinesQueue == Spec => ImplementsQueue
<1>1. TypeOK /\ RowsInUse /\ Owned /\ Alive /\ [Next]_vars
      => TypeOK' /\ RowsInUse' /\ Owned' /\ Alive'
  BY NextTyped, NextOwned, NextAlive
<1>2. TypeOK /\ RowsInUse /\ Owned /\ Alive /\ TypeOK' /\ [Next]_vars
      => [Queue!Next]_(Queue!vars)
  BY NextRefines
<1> QED
  BY <1>1, <1>2, InitTyped, InitRefines, PTL DEF Spec, ImplementsQueue

(* So no two loops ever run the same job in the pipeline either, and a job *)
(* under way is a running row with a fresh heartbeat, or was deleted with  *)
(* its document: no sweep, restart or second claim takes it away.          *)
THEOREM PipelineOwnership == Spec => []Owned
<1>1. TypeOK /\ RowsInUse /\ Owned /\ Alive /\ [Next]_vars
      => TypeOK' /\ RowsInUse' /\ Owned' /\ Alive'
  BY NextTyped, NextOwned, NextAlive
<1> QED
  BY <1>1, InitTyped, InitRefines, PTL DEF Spec

=============================================================================
