--------------------------- MODULE JobQueueProofs ---------------------------
(***************************************************************************)
(* What holds of the job queue for every number of jobs, worker loops,     *)
(* attempts and faults: types, exclusive ownership, the bound on attempts  *)
(* and the finality of finished jobs.                                      *)
(***************************************************************************)
EXTENDS JobQueue, TLAPS

-----------------------------------------------------------------------------
(* Types. *)

(* Every statement of queue.py writes a well-typed row over one. *)
LEMMA RowTypes ==
    ASSUME NEW r \in JobRow
    PROVE  /\ EnqueuedRow(r) \in JobRow
           /\ ClaimedRow(r) \in JobRow
           /\ FinishedRow(r) \in JobRow
           /\ ReleasedRow(r) \in JobRow
           /\ ReclaimedRow(r) \in JobRow
           /\ [r EXCEPT !.status = "deleted"] \in JobRow
           /\ [r EXCEPT !.beat = "stale"] \in JobRow
<1> USE DEF JobRow, Statuses
<1>1. EnqueuedRow(r) \in JobRow
  BY DEF EnqueuedRow
<1>2. ClaimedRow(r) \in JobRow
  <2>1. r.attempts + 1 \in Nat
    OBVIOUS
  <2> QED
    BY <2>1 DEF ClaimedRow
<1>3. FinishedRow(r) \in JobRow
  BY DEF FinishedRow
<1>4. ReleasedRow(r) \in JobRow
  BY DEF ReleasedRow
<1>5. ReclaimedRow(r) \in JobRow
  BY DEF ReclaimedRow
<1>6. [r EXCEPT !.status = "deleted"] \in JobRow
  OBVIOUS
<1>7. [r EXCEPT !.beat = "stale"] \in JobRow
  OBVIOUS
<1> QED
  BY <1>1, <1>2, <1>3, <1>4, <1>5, <1>6, <1>7

LEMMA InitTyped == Init => TypeOK
  BY QueueAssumption DEF Init, TypeOK, JobRow, Statuses

LEMMA NextTyped == TypeOK /\ [Next]_vars => TypeOK'
<1> SUFFICES ASSUME TypeOK, [Next]_vars PROVE TypeOK'
  OBVIOUS
<1> USE DEF TypeOK
<1>1. ASSUME NEW S \in SUBSET Jobs, Enqueue(S) PROVE TypeOK'
  BY <1>1, RowTypes DEF Enqueue
<1>2. ASSUME NEW S \in SUBSET Jobs, Cascade(S) PROVE TypeOK'
  BY <1>2, RowTypes DEF Cascade
<1>3. ASSUME NEW w \in Workers, Claim(w) PROVE TypeOK'
  <2> PICK j \in Jobs : /\ jobs' = [jobs EXCEPT ![j] = ClaimedRow(@)]
                        /\ held' = [held EXCEPT ![w] = j]
    BY <1>3 DEF Claim
  <2> QED
    BY <1>3, RowTypes DEF Claim
<1>4. ASSUME NEW w \in Workers, Finish(w) PROVE TypeOK'
  BY <1>4, RowTypes DEF Finish
<1>5. ASSUME NEW w \in Workers, Release(w) PROVE TypeOK'
  BY <1>5, RowTypes DEF Release
<1>6. ASSUME NEW w \in Workers, ReleaseRaises(w) PROVE TypeOK'
  <2>1. faults' \in 0..MaxFaults
    BY <1>6, QueueAssumption DEF ReleaseRaises
  <2> QED
    BY <1>6, <2>1 DEF ReleaseRaises
<1>7. ASSUME NEW j \in Jobs, Lapse(j) PROVE TypeOK'
  BY <1>7, RowTypes DEF Lapse
<1>8. CASE Sweep
  BY <1>8, RowTypes DEF Sweep
<1>9. CASE Crash
  <2>1. faults' \in 0..MaxFaults
    BY <1>9, QueueAssumption DEF Crash
  <2> QED
    BY <1>9, <2>1 DEF Crash
<1>10. CASE Restart
  BY <1>10, RowTypes DEF Restart
<1>11. CASE UNCHANGED vars
  BY <1>11 DEF vars
<1>12. CASE Blip
  <2>1. faults' \in 0..MaxFaults
    BY <1>12, QueueAssumption DEF Blip
  <2> QED
    BY <1>12, <2>1 DEF Blip
<1> QED
  BY <1>1, <1>2, <1>3, <1>4, <1>5, <1>6, <1>7, <1>8, <1>9, <1>10, <1>11, <1>12
  DEF Next

(* The rows and the loops' memory are well typed in every reachable state. *)
THEOREM TypeCorrect == Spec => []TypeOK
  BY InitTyped, NextTyped, PTL DEF Spec

-----------------------------------------------------------------------------
(* Ownership. *)

(* What the statements write into the fields ownership reads. *)
LEMMA RowEffects ==
    ASSUME NEW r \in JobRow
    PROVE  /\ EnqueuedRow(r).status = "pending"
           /\ EnqueuedRow(r).attempts = r.attempts
           /\ ClaimedRow(r).status = "running"
           /\ ClaimedRow(r).beat = "fresh"
           /\ ClaimedRow(r).attempts = r.attempts + 1
           /\ FinishedRow(r).status = "succeeded"
           /\ FinishedRow(r).attempts = r.attempts
           /\ ReleasedRow(r).status \in {"pending", "failed"}
           /\ ReleasedRow(r).status = "pending" => r.attempts < MaxAttempts
           /\ ReleasedRow(r).attempts = r.attempts
           /\ ReclaimedRow(r).status = "pending"
           /\ ReclaimedRow(r).attempts = r.attempts
<1> USE DEF JobRow
<1>1. /\ EnqueuedRow(r).status = "pending"
      /\ EnqueuedRow(r).attempts = r.attempts
  BY DEF EnqueuedRow
<1>2. /\ ClaimedRow(r).status = "running"
      /\ ClaimedRow(r).beat = "fresh"
      /\ ClaimedRow(r).attempts = r.attempts + 1
  BY DEF ClaimedRow
<1>3. /\ FinishedRow(r).status = "succeeded"
      /\ FinishedRow(r).attempts = r.attempts
  BY DEF FinishedRow
<1>4. /\ ReleasedRow(r).status \in {"pending", "failed"}
      /\ ReleasedRow(r).status = "pending" => r.attempts < MaxAttempts
      /\ ReleasedRow(r).attempts = r.attempts
  BY QueueAssumption DEF ReleasedRow
<1>5. /\ ReclaimedRow(r).status = "pending"
      /\ ReclaimedRow(r).attempts = r.attempts
  BY DEF ReclaimedRow
<1> QED
  BY <1>1, <1>2, <1>3, <1>4, <1>5

(* No two loops on one job, and why. *)
Ownership == NoSharedJob /\ HeldRuns

LEMMA InitOwned == Init => Ownership
  BY DEF Init, Ownership, NoSharedJob, HeldRuns

LEMMA NextOwned == TypeOK /\ Ownership /\ [Next]_vars => Ownership'
<1> SUFFICES ASSUME TypeOK, Ownership, [Next]_vars PROVE Ownership'
  OBVIOUS
<1> USE DEF Ownership, NoSharedJob, HeldRuns, TypeOK
<1>1. ASSUME NEW S \in SUBSET Jobs, Enqueue(S) PROVE Ownership'
  BY <1>1 DEF Enqueue
<1>2. ASSUME NEW S \in SUBSET Jobs, Cascade(S) PROVE Ownership'
  <2>1. \A j \in Jobs : /\ jobs'[j].beat = jobs[j].beat
                        /\ jobs'[j].status \in {jobs[j].status, "deleted"}
    BY <1>2 DEF Cascade, JobRow
  <2> QED
    BY <1>2, <2>1 DEF Cascade
<1>3. ASSUME NEW w \in Workers, Claim(w) PROVE Ownership'
  <2> PICK j \in Jobs : /\ jobs[j].status = "pending"
                        /\ jobs' = [jobs EXCEPT ![j] = ClaimedRow(@)]
                        /\ held' = [held EXCEPT ![w] = j]
    BY <1>3 DEF Claim, IsOldest, Claimable
  <2>1. \A v \in Workers : held[v] # j
    BY QueueAssumption DEF Jobs
  <2>2. NoSharedJob'
    BY <2>1
  <2>3. HeldRuns'
    <3> SUFFICES ASSUME NEW v \in Workers, held'[v] # NoJob
                 PROVE  /\ up'
                        /\ jobs'[held'[v]].status \in {"running", "deleted"}
                        /\ jobs'[held'[v]].beat = "fresh"
      OBVIOUS
    <3>1. CASE v = w
      BY <1>3, <3>1, RowEffects DEF Claim
    <3>2. CASE v # w
      <4>1. held'[v] = held[v] /\ jobs'[held[v]] = jobs[held[v]]
        BY <2>1, <3>2
      <4> QED
        BY <1>3, <4>1 DEF Claim
    <3> QED
      BY <3>1, <3>2
  <2> QED
    BY <2>2, <2>3
<1>4. ASSUME NEW w \in Workers, held[w] # NoJob,
             held' = [held EXCEPT ![w] = NoJob], up' = up,
             \A j \in Jobs : j # held[w] => jobs'[j] = jobs[j]
      PROVE  Ownership'
  <2>1. NoSharedJob'
    BY <1>4
  <2>2. HeldRuns'
    <3> SUFFICES ASSUME NEW v \in Workers, held'[v] # NoJob
                 PROVE  /\ up'
                        /\ jobs'[held'[v]].status \in {"running", "deleted"}
                        /\ jobs'[held'[v]].beat = "fresh"
      OBVIOUS
    <3>1. v # w /\ held'[v] = held[v] /\ held[v] # held[w]
      BY <1>4
    <3>2. jobs'[held[v]] = jobs[held[v]]
      BY <1>4, <3>1
    <3> QED
      BY <1>4, <3>1, <3>2
  <2> QED
    BY <2>1, <2>2
<1>5. ASSUME NEW w \in Workers, Finish(w) \/ Release(w) \/ ReleaseRaises(w)
      PROVE  Ownership'
  BY <1>4, <1>5 DEF Finish, Release, ReleaseRaises
<1>6. ASSUME NEW j \in Jobs, Lapse(j) PROVE Ownership'
  <2>1. \A w \in Workers : held[w] # NoJob => jobs'[held[w]] = jobs[held[w]]
    BY <1>6 DEF Lapse
  <2> QED
    BY <1>6, <2>1 DEF Lapse
<1>7. CASE Sweep
  <2>1. \A w \in Workers : held[w] # NoJob => jobs'[held[w]] = jobs[held[w]]
    BY <1>7 DEF Sweep, Stalled
  <2> QED
    BY <1>7, <2>1 DEF Sweep
<1>8. CASE Crash
  BY <1>8 DEF Crash
<1>9. CASE Restart
  BY <1>9 DEF Restart
<1>10. CASE Blip \/ UNCHANGED vars
  BY <1>10 DEF Blip, vars
<1> QED
  BY <1>1, <1>2, <1>3, <1>5, <1>6, <1>7, <1>8, <1>9, <1>10 DEF Next

(* No two worker loops ever run the same job, for any number of loops: the *)
(* promise the worker module makes of SKIP LOCKED.                         *)
THEOREM ExclusiveRuns == Spec => []NoSharedJob
<1>1. TypeOK /\ Ownership /\ [Next]_vars => TypeOK' /\ Ownership'
  BY NextTyped, NextOwned
<1>2. Ownership => NoSharedJob
  BY DEF Ownership
<1> QED
  BY <1>1, <1>2, InitTyped, InitOwned, PTL DEF Spec

-----------------------------------------------------------------------------
(* The bound on attempts. *)

(* Every row has attempts left for as often as it may still be claimed. *)
AttemptsLeft == \A j \in Jobs : AttemptLeft(j)

LEMMA InitAttempts == Init => AttemptsLeft
  BY QueueAssumption DEF Init, AttemptsLeft, AttemptLeft

(* A row that keeps its attempts keeps its budget, unless it becomes       *)
(* claimable or is let go by its holder.                                   *)
LEMMA BudgetKept ==
    ASSUME TypeOK, TypeOK', AttemptsLeft, NEW j \in Jobs,
           jobs'[j].attempts = jobs[j].attempts,
           faults' >= faults,
           \/ jobs[j].attempts < MaxAttempts + faults'
           \/ jobs'[j].status \in {"succeeded", "failed", "deleted"}
           \/ /\ jobs'[j].status = "running"
              /\ \E w \in Workers : held'[w] = j
    PROVE  AttemptLeft(j)'
  BY QueueAssumption DEF TypeOK, JobRow, AttemptsLeft, AttemptLeft

LEMMA NextAttempts ==
    TypeOK /\ TypeOK' /\ Ownership /\ AttemptsLeft /\ [Next]_vars => AttemptsLeft'
<1> SUFFICES ASSUME TypeOK, TypeOK', Ownership, AttemptsLeft, [Next]_vars,
                    NEW j \in Jobs
             PROVE  AttemptLeft(j)'
  BY DEF AttemptsLeft
<1> DEFINE Idle == \A w \in Workers : held[w] # j
<1> USE QueueAssumption
<1>0. jobs[j] \in JobRow /\ jobs[j].attempts \in Nat /\ faults \in Nat /\ faults' \in Nat
  BY DEF TypeOK, JobRow
<1>1. ASSUME NEW S \in SUBSET Jobs, Enqueue(S) PROVE AttemptLeft(j)'
  <2>1. CASE j \in S
    <3>1. jobs[j].attempts < MaxAttempts + faults
      BY <1>1, <2>1 DEF Enqueue, AttemptsLeft, AttemptLeft
    <3> QED
      BY <1>0, <1>1, <2>1, <3>1, RowEffects, BudgetKept DEF Enqueue, TypeOK
  <2>2. CASE j \notin S
    BY <1>1, <2>2 DEF Enqueue, AttemptsLeft, AttemptLeft
  <2> QED
    BY <2>1, <2>2
<1>2. ASSUME NEW S \in SUBSET Jobs, Cascade(S) PROVE AttemptLeft(j)'
  <2>1. CASE j \in S
    <3>1. jobs'[j].attempts = jobs[j].attempts /\ jobs'[j].status = "deleted"
      BY <1>0, <1>2, <2>1 DEF Cascade, JobRow
    <3> QED
      BY <1>0, <1>2, <3>1, BudgetKept DEF Cascade
  <2>2. CASE j \notin S
    BY <1>2, <2>2 DEF Cascade, AttemptsLeft, AttemptLeft
  <2> QED
    BY <2>1, <2>2
<1>3. ASSUME NEW w \in Workers, Claim(w) PROVE AttemptLeft(j)'
  <2> PICK i \in Jobs : /\ jobs[i].status = "pending"
                        /\ jobs' = [jobs EXCEPT ![i] = ClaimedRow(@)]
                        /\ held' = [held EXCEPT ![w] = i]
    BY <1>3 DEF Claim, IsOldest, Claimable
  <2>1. CASE i = j
    <3>1. /\ jobs'[j].attempts = jobs[j].attempts + 1
          /\ jobs'[j].status = "running"
          /\ held'[w] = j
      BY <1>0, <2>1, RowEffects DEF TypeOK
    <3>2. jobs[j].attempts < MaxAttempts + faults
      BY <2>1 DEF AttemptsLeft, AttemptLeft
    <3> QED
      BY <1>0, <1>3, <3>1, <3>2 DEF AttemptLeft, Claim
  <2>2. CASE i # j
    <3>1. jobs'[j] = jobs[j] /\ \A v \in Workers : held[v] = j => v # w
      BY <1>3, <2>2 DEF TypeOK, Claim, Jobs
    <3>2. (\E v \in Workers : held[v] = j) => (\E v \in Workers : held'[v] = j)
      BY <3>1 DEF TypeOK
    <3> QED
      BY <1>3, <3>1, <3>2 DEF AttemptsLeft, AttemptLeft, Claim
  <2> QED
    BY <2>1, <2>2
<1>4. ASSUME NEW w \in Workers, Finish(w) \/ Release(w) PROVE AttemptLeft(j)'
  <2>1. CASE held[w] = j
    <3>1. jobs[j].status \in {"running", "deleted"}
      BY <1>4, <2>1 DEF Finish, Release, Ownership, HeldRuns
    <3>2. CASE jobs[j].status = "deleted"
      <4>1. jobs'[j] = jobs[j]
        BY <1>4, <2>1, <3>2 DEF Finish, Release, Exists, TypeOK
      <4> QED
        BY <1>0, <1>4, <3>2, <4>1, BudgetKept DEF Finish, Release
    <3>3. CASE jobs[j].status = "running"
      <4>1. jobs'[j] = FinishedRow(jobs[j]) \/ jobs'[j] = ReleasedRow(jobs[j])
        BY <1>4, <2>1, <3>3 DEF Finish, Release, Exists, TypeOK
      <4>2. /\ jobs'[j].attempts = jobs[j].attempts
            /\ \/ jobs'[j].status \in {"succeeded", "failed"}
               \/ jobs[j].attempts < MaxAttempts + faults
        BY <1>0, <4>1, RowEffects
      <4> QED
        BY <1>0, <1>4, <4>2, BudgetKept DEF Finish, Release
    <3> QED
      BY <3>1, <3>2, <3>3
  <2>2. CASE held[w] # j
    <3>1. jobs'[j] = jobs[j]
      BY <1>4, <2>2 DEF Finish, Release, TypeOK
    <3>2. (\E v \in Workers : held[v] = j) => (\E v \in Workers : held'[v] = j)
      BY <1>4, <2>2 DEF Finish, Release, TypeOK
    <3> QED
      BY <1>4, <3>1, <3>2 DEF AttemptsLeft, AttemptLeft, Finish, Release
  <2> QED
    BY <2>1, <2>2
<1>5. ASSUME jobs' = jobs, faults' = faults + 1 PROVE AttemptLeft(j)'
  BY <1>0, <1>5 DEF AttemptsLeft, AttemptLeft
<1>6. ASSUME NEW w \in Workers, ReleaseRaises(w) PROVE AttemptLeft(j)'
  BY <1>5, <1>6 DEF ReleaseRaises
<1>7. ASSUME NEW i \in Jobs, Lapse(i) PROVE AttemptLeft(j)'
  <2>1. jobs'[j].status = jobs[j].status /\ jobs'[j].attempts = jobs[j].attempts
    BY <1>0, <1>7 DEF Lapse, TypeOK, JobRow
  <2> QED
    BY <1>7, <2>1 DEF Lapse, AttemptsLeft, AttemptLeft
<1>8. ASSUME Idle, jobs[j].status = "running", faults' = faults,
             jobs'[j] = ReclaimedRow(jobs[j])
      PROVE  AttemptLeft(j)'
  <2>1. jobs[j].attempts < MaxAttempts + faults
    BY <1>8 DEF AttemptsLeft, AttemptLeft
  <2> QED
    BY <1>0, <1>8, <2>1, RowEffects, BudgetKept
<1>9. CASE Sweep
  <2>1. CASE Stalled(jobs[j])
    <3>1. Idle
      BY <2>1 DEF Stalled, Ownership, HeldRuns, TypeOK, Jobs
    <3> QED
      BY <1>8, <1>9, <2>1, <3>1 DEF Sweep, Stalled
  <2>2. CASE ~Stalled(jobs[j])
    BY <1>9, <2>2 DEF Sweep, AttemptsLeft, AttemptLeft
  <2> QED
    BY <2>1, <2>2
<1>10. CASE Crash \/ Blip
  BY <1>5, <1>10 DEF Crash, Blip
<1>11. CASE Restart
  <2>1. CASE RunningRow(jobs[j])
    <3>1. Idle
      BY <1>11 DEF Restart, Ownership, HeldRuns, Jobs
    <3> QED
      BY <1>8, <1>11, <2>1, <3>1 DEF Restart, RunningRow
  <2>2. CASE ~RunningRow(jobs[j])
    BY <1>11, <2>2 DEF Restart, AttemptsLeft, AttemptLeft
  <2> QED
    BY <2>1, <2>2
<1>12. CASE UNCHANGED vars
  BY <1>12 DEF vars, AttemptsLeft, AttemptLeft
<1> QED
  BY <1>1, <1>2, <1>3, <1>4, <1>6, <1>7, <1>9, <1>10, <1>11, <1>12 DEF Next

(* A job is started at most MaxAttempts times plus once per fault. *)
THEOREM AttemptsAreBounded == Spec => []AttemptsBounded
<1>1. TypeOK /\ Ownership /\ AttemptsLeft /\ [Next]_vars
      => TypeOK' /\ Ownership' /\ AttemptsLeft'
  BY NextTyped, NextOwned, NextAttempts
<1>2. AttemptsLeft => AttemptsBounded
  BY DEF AttemptsLeft, AttemptLeft, AttemptsBounded
<1> QED
  BY <1>1, <1>2, InitTyped, InitOwned, InitAttempts, PTL DEF Spec

-----------------------------------------------------------------------------
(* Finality. *)

(* Succeeded and failed jobs stay so until their document is deleted. *)
THEOREM Finality == Spec => TerminalIsFinal
<1> DEFINE Done(j) == jobs[j].status \in {"succeeded", "failed"}
           Stays(j) == jobs'[j].status \in {jobs[j].status, "deleted"}
<1>1. ASSUME TypeOK, Ownership, [Next]_vars, NEW j \in Jobs, Done(j)
      PROVE  Stays(j)
  <2>1. \A w \in Workers : held[w] # j
    BY <1>1, QueueAssumption DEF Ownership, HeldRuns, Jobs
  <2>2. ASSUME NEW S \in SUBSET Jobs, Enqueue(S) \/ Cascade(S) PROVE Stays(j)
    <3>1. CASE j \in S
      <4>1. ~Enqueue(S)
        BY <1>1, <3>1 DEF Enqueue
      <4>2. jobs'[j] = [jobs[j] EXCEPT !.status = "deleted"]
        BY <2>2, <3>1, <4>1 DEF Cascade
      <4> QED
        BY <1>1, <4>2 DEF TypeOK, JobRow
    <3>2. CASE j \notin S
      BY <2>2, <3>2 DEF Enqueue, Cascade
    <3> QED
      BY <3>1, <3>2
  <2>3. ASSUME NEW w \in Workers, Claim(w) PROVE Stays(j)
    BY <1>1, <2>3 DEF Claim, IsOldest, Claimable, TypeOK
  <2>4. ASSUME NEW w \in Workers, Finish(w) \/ Release(w) \/ ReleaseRaises(w)
        PROVE  Stays(j)
    BY <1>1, <2>1, <2>4 DEF Finish, Release, ReleaseRaises, TypeOK
  <2>5. ASSUME NEW i \in Jobs, Lapse(i) PROVE Stays(j)
    BY <1>1, <2>5 DEF Lapse, TypeOK, JobRow
  <2>6. CASE Sweep \/ Crash \/ Restart
    BY <1>1, <2>6 DEF Sweep, Stalled, Crash, Restart, RunningRow
  <2>7. CASE Blip \/ UNCHANGED vars
    BY <2>7 DEF Blip, vars
  <2> QED
    BY <1>1, <2>2, <2>3, <2>4, <2>5, <2>6, <2>7 DEF Next
<1>2. TypeOK /\ Ownership /\ [Next]_vars => TypeOK' /\ Ownership'
  BY NextTyped, NextOwned
<1>3. TypeOK /\ Ownership /\ [Next]_vars
      => [\A j \in Jobs : Done(j) => Stays(j)]_vars
  BY <1>1
<1> QED
  BY <1>2, <1>3, InitTyped, InitOwned, PTL DEF Spec, TerminalIsFinal

=============================================================================
