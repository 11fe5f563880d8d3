----------------------------- MODULE QueueRows ------------------------------
(***************************************************************************)
(* The rows of ingest_jobs and what the statements of                      *)
(* app/workers/queue.py read and write in them.  Each operator is the SET  *)
(* or the WHERE clause of one statement and applies to any record with the *)
(* fields it names; JobQueue.tla and Ingestion.tla are built from them.    *)
(*                                                                         *)
(* A job is a number; smaller numbers have earlier created_at.  Time is    *)
(* reduced to what the sweep's cutoff tells apart: the heartbeat of a      *)
(* running job is "fresh" or "stale", and "none" is the NULL of a job that *)
(* waits in the queue.                                                     *)
(***************************************************************************)
EXTENDS Integers

CONSTANTS
    MaxJobs,       \* bound: the number of jobs ever enqueued
    Workers,       \* the worker loops, worker_concurrency many
    NoJob,         \* an idle worker loop
    MaxAttempts,   \* settings.job_max_attempts
    MaxFaults      \* bound: process deaths and failed calls of release

(* Settings bounds nothing, but 0 attempts still lets a job run once. *)
ASSUME QueueAssumption ==
    /\ MaxJobs \in Nat
    /\ MaxAttempts \in Nat \ {0}
    /\ MaxFaults \in Nat
    /\ NoJob \notin 1..MaxJobs

Jobs == 1..MaxJobs

Statuses == {"none", "pending", "running", "succeeded", "failed", "deleted"}

(* A row enqueue inserts. *)
EnqueuedRow_Queued(r) == [r EXCEPT !.status = "queued"]
EnqueuedRow(r) == [r EXCEPT !.status = "pending"]

(* The row after claim's UPDATE. *)
ClaimedRow(r) ==
    [r EXCEPT !.status = "running", !.attempts = @ + 1, !.beat = "fresh"]

(* The row after finish, reported without an error. *)
FinishedRow(r) == [r EXCEPT !.status = "succeeded"]

(* The row after release: out of attempts it fails for good, otherwise it *)
(* goes back to the queue with whatever else it records left intact.      *)
ReleasedRow_OneTooMany(r) ==
    IF r.attempts > MaxAttempts
    THEN [r EXCEPT !.status = "failed"]
    ELSE [r EXCEPT !.status = "pending", !.beat = "none"]
ReleasedRow(r) ==
    IF r.attempts >= MaxAttempts
    THEN [r EXCEPT !.status = "failed"]
    ELSE [r EXCEPT !.status = "pending", !.beat = "none"]

(* The row after reclaim_stalled picks it: nothing looks at attempts. *)
ReclaimedRow(r) == [r EXCEPT !.status = "pending", !.beat = "none"]

(* A row an UPDATE by id finds: rows that are gone match nothing. *)
Exists(r) == r.status \notin {"none", "deleted"}

(* What the sweep's WHERE clause selects, with the process's own timeout   *)
(* and with the timeout 0 that WorkerPool.start passes.                    *)
Stalled_NullBeat(r) == r.status = "running" /\ r.beat = "none"
Stalled(r) == r.status = "running" /\ r.beat = "stale"
RunningRow_Unfinished(r) == r.status \in {"running", "failed"}
RunningRow(r) == r.status = "running"

(* What claim's WHERE clause selects. *)
Claimable_Running(r) == r.status \in {"pending", "running"}
Claimable(r) == r.status = "pending"

(* The first claimable row of the table t by created_at. *)
IsOldest_Newest(t, j) ==
    /\ Claimable(t[j])
    /\ \A i \in Jobs : i > j => ~Claimable(t[i])
IsOldest(t, j) ==
    /\ Claimable(t[j])
    /\ \A i \in Jobs : i < j => ~Claimable(t[i])

=============================================================================
