------------------------------ MODULE JobQueue ------------------------------
(***************************************************************************)
(* The Postgres job queue of app/workers/queue.py, driven by the loops of  *)
(* one process (app/workers/worker.py): worker loops that claim, run and   *)
(* report jobs, a sweep that returns stalled jobs, and the restart that    *)
(* reclaims everything still marked running.                               *)
(* What a job does while a worker holds it is the subject of               *)
(* Ingestion.tla, which implements this module.                            *)
(***************************************************************************)
EXTENDS QueueRows

VARIABLES
    jobs,      \* the ingest_jobs table
    held,      \* the job each worker loop is processing
    up,        \* whether the process is alive
    faults     \* faults so far, at most MaxFaults

vars == <<jobs, held, up, faults>>

-----------------------------------------------------------------------------

Init ==
    /\ jobs = [j \in Jobs |-> [status |-> "none", attempts |-> 0, beat |-> "none"]]
    /\ held = [w \in Workers |-> NoJob]
    /\ up = TRUE
    /\ faults = 0

(* Uploads and reindexes insert rows.  created_at is the start of the      *)
(* inserting transaction, so rows may become visible in any order.         *)
Enqueue(S) ==
    /\ up
    /\ \A j \in S : jobs[j].status = "none"
    /\ jobs' = [j \in Jobs |-> IF j \in S THEN EnqueuedRow(jobs[j]) ELSE jobs[j]]
    /\ UNCHANGED <<held, up, faults>>

(* The rows of S go with their document (ON DELETE CASCADE). *)
Cascade(S) ==
    /\ up
    /\ \A j \in S : Exists(jobs[j])
    /\ jobs' = [j \in Jobs |-> IF j \in S THEN [jobs[j] EXCEPT !.status = "deleted"]
                               ELSE jobs[j]]
    /\ UNCHANGED <<held, up, faults>>

(* An idle loop takes the oldest pending job in one statement. *)
Claim(w) ==
    /\ up
    /\ held[w] = NoJob
    /\ \E j \in Jobs :
        /\ IsOldest(jobs, j)
        /\ jobs' = [jobs EXCEPT ![j] = ClaimedRow(@)]
        /\ held' = [held EXCEPT ![w] = j]
    /\ UNCHANGED <<up, faults>>

(* process: the run returned and finish recorded it. *)
Finish(w) ==
    /\ held[w] # NoJob
    /\ jobs' = [jobs EXCEPT ![held[w]] = IF Exists(@) THEN FinishedRow(@) ELSE @]
    /\ held' = [held EXCEPT ![w] = NoJob]
    /\ UNCHANGED <<up, faults>>

(* process: the run raised and release recorded it. *)
Release(w) ==
    /\ held[w] # NoJob
    /\ jobs' = [jobs EXCEPT ![held[w]] = IF Exists(@) THEN ReleasedRow(@) ELSE @]
    /\ held' = [held EXCEPT ![w] = NoJob]
    /\ UNCHANGED <<up, faults>>

(* The run raised and so did release (the database is away): worker_loop   *)
(* logs it and carries on, and the row stays running with nobody on it.    *)
ReleaseRaises(w) ==
    /\ held[w] # NoJob
    /\ faults < MaxFaults
    /\ held' = [held EXCEPT ![w] = NoJob]
    /\ faults' = faults + 1
    /\ UNCHANGED <<jobs, up>>

(* The timeout passes for a running row whose heartbeat task is gone.  A   *)
(* live one beats every 15 seconds and its parser runs in a thread, so it  *)
(* is never a whole timeout (an hour) late.                                *)
Lapse(j) ==
    /\ up
    /\ jobs[j].status = "running"
    /\ jobs[j].beat = "fresh"
    /\ \A w \in Workers : held[w] # j
    /\ jobs' = [jobs EXCEPT ![j].beat = "stale"]
    /\ UNCHANGED <<held, up, faults>>

(* reclaim_loop: one statement returns every stalled job. *)
Sweep ==
    /\ up
    /\ \E j \in Jobs : Stalled(jobs[j])
    /\ jobs' = [j \in Jobs |-> IF Stalled(jobs[j]) THEN ReclaimedRow(jobs[j])
                               ELSE jobs[j]]
    /\ UNCHANGED <<held, up, faults>>

(* The process dies, or is told to stop and cancels its loops: either way  *)
(* the rows of its jobs are left running.                                  *)
Crash ==
    /\ up
    /\ faults < MaxFaults
    /\ up' = FALSE
    /\ held' = [w \in Workers |-> NoJob]
    /\ faults' = faults + 1
    /\ UNCHANGED jobs

(* WorkerPool.start: reclaim with timeout 0, then start the loops. *)
Restart ==
    /\ ~up
    /\ up' = TRUE
    /\ jobs' = [j \in Jobs |-> IF RunningRow(jobs[j]) THEN ReclaimedRow(jobs[j])
                               ELSE jobs[j]]
    /\ UNCHANGED <<held, faults>>

(* Another call a loop makes after release fails, and the loop shrugs it   *)
(* off: the job is not marked on its document, the queue is untouched.     *)
Blip ==
    /\ up
    /\ faults < MaxFaults
    /\ faults' = faults + 1
    /\ UNCHANGED <<jobs, held, up>>

Next ==
    \/ \E S \in SUBSET Jobs : Enqueue(S)
    \/ \E S \in SUBSET Jobs : Cascade(S)
    \/ \E w \in Workers :
        \/ Claim(w)
        \/ Finish(w)
        \/ Release(w)
        \/ ReleaseRaises(w)
    \/ \E j \in Jobs : Lapse(j)
    \/ Sweep
    \/ Crash
    \/ Blip
    \/ Restart

(* The process restarts after a death; a loop keeps claiming; a run ends   *)
(* (every call it makes has a timeout or bounded retries); time passes;    *)
(* the sweep keeps running.                                                *)
Fairness ==
    /\ WF_vars(Restart)
    /\ WF_vars(Sweep)
    /\ \A j \in Jobs : WF_vars(Lapse(j))
    /\ \A w \in Workers : WF_vars(Claim(w)) /\ WF_vars(Finish(w) \/ Release(w))

Spec == Init /\ [][Next]_vars /\ Fairness

-----------------------------------------------------------------------------
(* Properties. *)

JobRow == [status : Statuses, attempts : Nat, beat : {"none", "fresh", "stale"}]

(* Type invariant of the queue's rows and of the worker loops' memory. *)
TypeOK ==
    /\ jobs \in [Jobs -> JobRow]
    /\ held \in [Workers -> Jobs \cup {NoJob}]
    /\ up \in BOOLEAN
    /\ faults \in 0..MaxFaults

(* "SKIP LOCKED keeps them off each other's jobs" (worker.py): no two      *)
(* worker loops ever run the same job, whatever was reclaimed in between.  *)
NoSharedJob ==
    \A v, w \in Workers : v # w /\ held[v] # NoJob => held[v] # held[w]

(* A retry costs an attempt: the queue starts a job at most MaxAttempts    *)
(* times, plus once for every fault, because reclaim_stalled and claim do  *)
(* not look at the limit that release enforces.                            *)
AttemptsBounded ==
    \A j \in Jobs : jobs[j].attempts <= MaxAttempts + faults

(* What exclusive ownership rests on: a held job is a running row (or one  *)
(* deleted under the run), and its heartbeat is fresh, so no sweep takes   *)
(* it; nobody holds anything while the process is down.                    *)
HeldRuns ==
    \A w \in Workers : held[w] # NoJob =>
        /\ up
        /\ jobs[held[w]].status \in {"running", "deleted"}
        /\ jobs[held[w]].beat = "fresh"

(* What the bound on attempts rests on: an attempt is left for every row   *)
(* that can still be claimed, the stranded ones included.                  *)
AttemptLeft(j) ==
    /\ jobs[j].attempts <= MaxAttempts + faults
    /\ \/ jobs[j].status \in {"none", "pending"}
       \/ jobs[j].status = "running" /\ \A w \in Workers : held[w] # j
       => jobs[j].attempts < MaxAttempts + faults

QueueInv == TypeOK /\ NoSharedJob /\ HeldRuns /\ \A j \in Jobs : AttemptLeft(j)

(* A job that succeeded or failed for good is never run again: no late     *)
(* release, finish, sweep or restart revives it.                           *)
TerminalIsFinal ==
    [][\A j \in Jobs : jobs[j].status \in {"succeeded", "failed"} =>
            jobs'[j].status \in {jobs[j].status, "deleted"}]_vars

(* Every queued job is eventually done, failed for good or deleted with    *)
(* its document, across crashes and failing calls of release: none is      *)
(* stranded in the running state.                                          *)
EveryJobSettles ==
    \A j \in Jobs : jobs[j].status = "pending" ~>
                        jobs[j].status \in {"succeeded", "failed", "deleted"}

=============================================================================
