---------------------------- MODULE IntakeProofs ----------------------------
(***************************************************************************)
(* Proofs about Intake.  For any number of uploads at once, what a ready   *)
(* document answers from is its stored bytes or a job is queued; and as    *)
(* long as uploads come one after the other, hashes, stored bytes and      *)
(* versions agree.                                                         *)
(***************************************************************************)
EXTENDS Intake, TLAPS

Memory == [at : {"idle", "unseen", "found", "cleared", "stored"},
           file : Files \cup {NoFile}, name : Names \cup {NoName},
           doc : Docs \cup {NoDoc}, loaded : Rows, cleared : BOOLEAN]

InHandRuns == [doc : Docs \cup {NoDoc}, file : Files \cup {NoFile}]

-----------------------------------------------------------------------------
(* Types. *)

(* Nothing in hand is well typed. *)
LEMMA IdleTyped ==
    NoRow \in Rows /\ IdleReq \in Memory /\ IdleRun \in InHandRuns
  BY DEF NoRow, Rows, Statuses, IdleReq, Memory, IdleRun, InHandRuns

(* What an upload makes of a row is a row. *)
LEMMA RowTyped ==
    ASSUME NEW row \in Rows, NEW l \in Rows, NEW f \in Files \cup {NoFile},
           NEW n \in Names \cup {NoName}
    PROVE  /\ Changed(row, l, f, n) \in Rows
           /\ NewRow(f, n) \in Rows
           /\ NewJobs(l) \in Nat
  BY DEF Changed, NewRow, NewJobs, NextVersion, Rows, Statuses

(* The requests' steps. *)
LEMMA RequestTyped ==
    ASSUME TypeOK, NEW r \in Requests, Arrive(r) \/ Proceed(r)
    PROVE  TypeOK'
  <1>t. /\ rows \in [Docs -> Rows] /\ req \in [Requests -> Memory]
        /\ req[r] \in Memory /\ IdleReq \in Memory
    BY IdleTyped DEF TypeOK, Memory
  <1>1. CASE Arrive(r)
    <2>1. PICK f \in Files, n \in Names :
            \/ \E d \in Docs : Deduplicate(r, f, d) \/ TakeIdentical(r, f, n, d)
            \/ Unseen(r, f, n)
            \/ RefuseIdentical(r, f)
      BY <1>1 DEF Arrive
    <2>2. Receive(r)
      BY <2>1 DEF Deduplicate, TakeIdentical, Unseen, RefuseIdentical
    <2>3. /\ UNCHANGED <<rows, file, idx, jobs, run>>
          /\ uploads' \in 0..MaxUploads /\ overlapped' \in BOOLEAN
      BY <2>2, IntakeAssumption DEF Receive, TypeOK
    <2>4. req' \in [Requests -> Memory]
      <3>1. CASE UNCHANGED req
        BY <1>t, <3>1
      <3>2. CASE \E d \in Docs : TakeIdentical(r, f, n, d)
        <4>1. PICK d \in Docs : TakeIdentical(r, f, n, d)
          BY <3>2
        <4>2. [IdleReq EXCEPT !.at = "found", !.file = f, !.name = n, !.doc = d,
                              !.loaded = rows[d]] \in Memory
          BY <1>t DEF Memory
        <4> QED
          BY <1>t, <4>1, <4>2 DEF TakeIdentical
      <3>3. CASE Unseen(r, f, n)
        <4>1. [IdleReq EXCEPT !.at = "unseen", !.file = f, !.name = n] \in Memory
          BY <1>t DEF Memory
        <4> QED
          BY <1>t, <3>3, <4>1 DEF Unseen
      <3> QED
        BY <2>1, <3>1, <3>2, <3>3 DEF Deduplicate, RefuseIdentical
    <2> QED
      BY <2>3, <2>4 DEF TypeOK, Memory
  <1>2. CASE Proceed(r) /\ ~Commit(r)
    <2>1. UNCHANGED <<rows, file, idx, jobs, run, uploads, overlapped>>
      BY <1>2 DEF Proceed, TakeNamesake, Insert, Clear, Put, Abort
    <2>2. req' \in [Requests -> Memory]
      <3>1. CASE \E d \in Docs : TakeNamesake(r, d)
        <4>1. PICK d \in Docs : TakeNamesake(r, d)
          BY <3>1
        <4>2. [req[r] EXCEPT !.at = "found", !.doc = d, !.loaded = rows[d]] \in Memory
          BY <1>t DEF Memory
        <4> QED
          BY <1>t, <4>1, <4>2 DEF TakeNamesake
      <3>2. CASE \E d \in Docs : Insert(r, d)
        <4>1. PICK d \in Docs : Insert(r, d)
          BY <3>2
        <4>2. [req[r] EXCEPT !.at = "cleared", !.doc = d] \in Memory
          BY <1>t DEF Memory
        <4> QED
          BY <1>t, <4>1, <4>2 DEF Insert
      <3>3. CASE Clear(r)
        <4>1. [req[r] EXCEPT !.at = "cleared", !.cleared = idx[req[r].doc] # NoFile]
                \in Memory
          BY <1>t DEF Memory
        <4> QED
          BY <1>t, <3>3, <4>1 DEF Clear
      <3>4. CASE Put(r)
        <4>1. [req[r] EXCEPT !.at = "stored"] \in Memory
          BY <1>t DEF Memory
        <4> QED
          BY <1>t, <3>4, <4>1 DEF Put
      <3>5. CASE Abort(r)
        BY <1>t, <3>5 DEF Abort
      <3> QED
        BY <1>2, <3>1, <3>2, <3>3, <3>4, <3>5 DEF Proceed
    <2> QED
      BY <2>1, <2>2 DEF TypeOK, Memory
  <1>3. CASE Commit(r)
    <2> DEFINE q == req[r]
               d == q.doc
    <2>1. /\ q.file \in Files \cup {NoFile} /\ q.name \in Names \cup {NoName}
          /\ q.loaded \in Rows
      BY <1>t DEF Memory
    <2>2. rows' \in [Docs -> Rows]
      BY <1>3, <1>t, <2>1, RowTyped DEF Commit
    <2>3. jobs' \in [Docs -> Nat]
      <3>1. jobs' = [jobs EXCEPT ![d] = jobs[d] + 1] /\ jobs \in [Docs -> Nat]
        BY <1>3 DEF Commit, TypeOK, NewJobs
      <3>2. ASSUME NEW e \in Docs PROVE jobs'[e] \in Nat
        <4>1. jobs[e] \in Nat
          BY <3>1
        <4> QED
          BY <3>1, <4>1
      <3> QED
        BY <3>1, <3>2
    <2>4. file' \in [Docs -> Files \cup {NoFile}] /\ idx' \in [Docs -> Files \cup {NoFile}]
      BY <1>3, <2>1 DEF Commit, TypeOK
    <2>5. req' \in [Requests -> Memory] /\ UNCHANGED <<run, uploads, overlapped>>
      BY <1>3, <1>t DEF Commit
    <2> QED
      BY <2>2, <2>3, <2>4, <2>5 DEF TypeOK, Memory
  <1> QED
    BY <1>1, <1>2, <1>3

(* The worker's steps and a deletion. *)
LEMMA ServiceTyped ==
    ASSUME TypeOK, Start \/ Stop \/ \E d \in Docs : Delete(d)
    PROVE  TypeOK'
  <1>t. rows \in [Docs -> Rows] /\ run \in InHandRuns /\ IdleRun \in InHandRuns
    BY IdleTyped DEF TypeOK, InHandRuns
  <1>r. ASSUME NEW row \in Rows, NEW s \in Statuses
        PROVE  [row EXCEPT !.status = s] \in Rows
    BY DEF Rows
  <1>1. ASSUME NEW d \in Docs, StartRun(d) PROVE TypeOK'
    <2>1. rows' \in [Docs -> Rows]
      BY <1>1, <1>t, <1>r DEF StartRun, Statuses
    <2>2. jobs' \in [Docs -> Nat]
      BY <1>1 DEF StartRun, Claimable, TypeOK
    <2>3. run' \in InHandRuns
      BY <1>1 DEF StartRun, InHandRuns, TypeOK
    <2> QED
      BY <1>1, <2>1, <2>2, <2>3 DEF StartRun, TypeOK, InHandRuns
  <1>2. CASE EndRun
    <2>1. rows' \in [Docs -> Rows]
      BY <1>2, <1>t, <1>r DEF EndRun, Statuses, Live
    <2>2. idx' \in [Docs -> Files \cup {NoFile}] /\ run' \in InHandRuns
      BY <1>2, <1>t DEF EndRun, InHandRuns, TypeOK
    <2> QED
      BY <1>2, <2>1, <2>2 DEF EndRun, TypeOK, InHandRuns
  <1>3. CASE FailRun
    <2>1. rows' \in [Docs -> Rows]
      BY <1>3, <1>t, <1>r DEF FailRun, Statuses, Live
    <2>2. run' \in InHandRuns
      BY <1>3, <1>t DEF FailRun
    <2> QED
      BY <1>3, <2>1, <2>2 DEF FailRun, TypeOK, InHandRuns
  <1>4. ASSUME NEW d \in Docs, Delete(d) PROVE TypeOK'
    <2>1. rows' \in [Docs -> Rows]
      BY <1>4, <1>t, <1>r, IdleTyped DEF Delete, Statuses
    <2> QED
      BY <1>4, <2>1 DEF Delete, TypeOK
  <1> QED
    BY <1>1, <1>2, <1>3, <1>4 DEF Start, Stop

(* Every step keeps the types, *)
LEMMA NextTyped == TypeOK /\ [Next]_vars => TypeOK'
  <1>1. ASSUME TypeOK, UNCHANGED vars PROVE TypeOK'
    BY <1>1 DEF vars, TypeOK
  <1> QED
    BY <1>1, RequestTyped, ServiceTyped DEF Next

(* which hold at first. *)
LEMMA InitTyped == Init => TypeOK
  <1> SUFFICES ASSUME Init PROVE TypeOK
    OBVIOUS
  <1>1. rows \in [Docs -> Rows] /\ req \in [Requests -> Memory] /\ run \in InHandRuns
    BY IdleTyped DEF Init
  <1>2. uploads \in 0..MaxUploads
    BY IntakeAssumption DEF Init
  <1> QED
    BY <1>1, <1>2 DEF Init, TypeOK, Memory, InHandRuns

(* The rows, the run and the requests' memory always have their types. *)
THEOREM TypeCorrect == Spec => []TypeOK
  BY InitTyped, NextTyped, PTL DEF Spec

-----------------------------------------------------------------------------
(* A job for whatever is stale. *)

(* What a run has read is what is stored, or a job has come since. *)
RunIsFresh == run.doc \in Live => file[run.doc] = run.file \/ jobs[run.doc] > 0

FreshInv == TypeOK /\ RunIsFresh /\ StaleHasJob

(* A step that leaves the documents alone keeps both. *)
LEMMA DocumentsKept ==
    ASSUME RunIsFresh, StaleHasJob, UNCHANGED <<rows, file, idx, jobs, run>>
    PROVE  RunIsFresh' /\ StaleHasJob'
  BY DEF RunIsFresh, StaleHasJob, Live

(* Every step keeps both. *)
LEMMA NextFresh == FreshInv /\ [Next]_vars => FreshInv'
  <1> SUFFICES ASSUME FreshInv, [Next]_vars PROVE RunIsFresh' /\ StaleHasJob'
    BY NextTyped DEF FreshInv
  <1>t. /\ rows \in [Docs -> Rows] /\ jobs \in [Docs -> Nat]
        /\ file \in [Docs -> Files \cup {NoFile}] /\ idx \in [Docs -> Files \cup {NoFile}]
        /\ RunIsFresh /\ StaleHasJob /\ Live \subseteq Docs
    BY DEF FreshInv, TypeOK, Live
  <1>1. ASSUME NEW r \in Requests, Arrive(r) PROVE RunIsFresh' /\ StaleHasJob'
    <2>1. UNCHANGED <<rows, file, idx, jobs, run>>
      BY <1>1 DEF Arrive, Deduplicate, TakeIdentical, Unseen, RefuseIdentical, Receive
    <2> QED
      BY <1>t, <2>1, DocumentsKept
  <1>2. ASSUME NEW r \in Requests, Proceed(r), ~Commit(r) PROVE RunIsFresh' /\ StaleHasJob'
    <2>1. UNCHANGED <<rows, file, idx, jobs, run>>
      BY <1>2 DEF Proceed, TakeNamesake, Insert, Clear, Put, Abort
    <2> QED
      BY <1>t, <2>1, DocumentsKept
  <1>3. ASSUME NEW r \in Requests, Commit(r) PROVE RunIsFresh' /\ StaleHasJob'
    <2> DEFINE c == req[r].doc
    <2>1. /\ jobs' = [jobs EXCEPT ![c] = jobs[c] + 1] /\ UNCHANGED run
          /\ \A d \in Docs \ {c} : rows'[d] = rows[d] /\ file'[d] = file[d] /\ idx'[d] = idx[d]
      BY <1>t, <1>3 DEF Commit, NewJobs
    <2>2. c \in Docs => jobs'[c] > 0
      BY <1>t, <2>1
    <2>3. \A d \in Docs \ {c} : jobs'[d] = jobs[d] /\ (d \in Live' <=> d \in Live)
      BY <1>t, <2>1 DEF Live
    <2>4. Live' \subseteq Docs
      BY DEF Live
    <2> QED
      BY <1>t, <2>1, <2>2, <2>3, <2>4 DEF RunIsFresh, StaleHasJob
  <1>4. ASSUME NEW c \in Docs, StartRun(c) PROVE RunIsFresh' /\ StaleHasJob'
    <2>1. /\ run'.doc = c /\ run'.file = file[c] /\ UNCHANGED <<file, idx>>
          /\ rows'[c].status = "working"
          /\ \A d \in Docs \ {c} : rows'[d] = rows[d] /\ jobs'[d] = jobs[d]
      BY <1>t, <1>4 DEF StartRun, Rows
    <2>2. \A d \in Docs \ {c} : d \in Live' <=> d \in Live
      BY <2>1 DEF Live
    <2>3. Live' \subseteq Docs
      BY DEF Live
    <2> QED
      BY <1>t, <2>1, <2>2, <2>3 DEF RunIsFresh, StaleHasJob
  <1>5. CASE EndRun
    <2> DEFINE c == run.doc
    <2>1. /\ run'.doc = NoDoc /\ UNCHANGED <<file, jobs>> /\ c \in Live
          /\ idx'[c] = run.file
          /\ \A d \in Docs \ {c} : rows'[d] = rows[d] /\ idx'[d] = idx[d]
      BY <1>t, <1>5 DEF EndRun, IdleRun
    <2>2. \A d \in Docs \ {c} : d \in Live' <=> d \in Live
      BY <2>1 DEF Live
    <2>3. Live' \subseteq Docs /\ NoDoc \notin Docs
      BY IntakeAssumption DEF Live
    <2> QED
      BY <1>t, <2>1, <2>2, <2>3 DEF RunIsFresh, StaleHasJob
  <1>6. CASE FailRun
    <2>1. /\ run'.doc = NoDoc /\ UNCHANGED <<file, jobs, idx>>
          /\ \A d \in Docs : \/ rows'[d] = rows[d]
                              \/ rows'[d].status = "failed"
      <3>1. CASE run.doc \in Live
        <4>1. rows' = [rows EXCEPT ![run.doc].status = "failed"]
          BY <1>6, <3>1 DEF FailRun
        <4>2. \A d \in Docs : d # run.doc => rows'[d] = rows[d]
          BY <1>t, <4>1
        <4>3. run.doc \in Docs => rows'[run.doc].status = "failed"
          BY <1>t, <4>1 DEF Rows
        <4> QED
          BY <1>6, <4>2, <4>3 DEF FailRun, IdleRun
      <3>2. CASE run.doc \notin Live
        BY <1>6, <3>2 DEF FailRun, IdleRun
      <3> QED
        BY <3>1, <3>2
    <2>2. Live' \subseteq Docs /\ NoDoc \notin Docs
      BY IntakeAssumption DEF Live
    <2>3. \A d \in Live' : rows'[d].status = "ready" => d \in Live /\ rows[d].status = "ready"
      BY <2>1, <2>2 DEF Live
    <2> QED
      BY <1>t, <2>1, <2>2, <2>3 DEF RunIsFresh, StaleHasJob
  <1>7. ASSUME NEW c \in Docs, Delete(c) PROVE RunIsFresh' /\ StaleHasJob'
    <2>1. /\ rows'[c].status = "gone" /\ UNCHANGED run
          /\ \A d \in Docs \ {c} : /\ rows'[d] = rows[d] /\ file'[d] = file[d]
                                   /\ idx'[d] = idx[d] /\ jobs'[d] = jobs[d]
      BY <1>t, <1>7 DEF Delete, NoRow
    <2>2. \A d \in Docs \ {c} : d \in Live' <=> d \in Live
      BY <2>1 DEF Live
    <2>3. Live' \subseteq Docs \ {c}
      BY <2>1 DEF Live
    <2> QED
      BY <1>t, <2>1, <2>2, <2>3 DEF RunIsFresh, StaleHasJob
  <1>8. CASE UNCHANGED vars
    BY <1>t, <1>8, DocumentsKept DEF vars
  <1> QED
    BY <1>1, <1>2, <1>3, <1>4, <1>5, <1>6, <1>7, <1>8 DEF Next, Start, Stop

(* Search never answers from text that is neither that of the stored bytes *)
(* nor about to be replaced, whatever uploads overlap.                     *)
THEOREM StaleIsQueued == Spec => []StaleHasJob
  <1>1. Init => FreshInv
    <2>1. Init => Live = {}
      BY DEF Init, Live, NoRow
    <2> QED
      BY <2>1, InitTyped DEF FreshInv, RunIsFresh, StaleHasJob
  <1>2. FreshInv => StaleHasJob
    BY DEF FreshInv
  <1> QED
    BY <1>1, <1>2, NextFresh, PTL DEF Spec

-----------------------------------------------------------------------------
(* Uploads one after the other. *)

(* A request that has stored its file into a document keeps it from being  *)
(* deleted.                                                                *)
StoredIsLive ==
    \A r \in Requests :
        req[r].at = "stored" /\ req[r].loaded # NoRow => req[r].doc \in Live

OneAtATime ==
    \A r, q \in Requests : req[r].at # "idle" /\ req[q].at # "idle" => r = q

(* No other document has the bytes of the upload under way, *)
OnlyHere ==
    \A r \in Requests : req[r].at # "idle" =>
        \A d \in Live :
            rows[d].hash = req[r].file => req[r].at # "unseen" /\ d = req[r].doc

(* and its document is as it was loaded. *)
AsLoaded ==
    \A r \in Requests : req[r].at \in {"found", "cleared", "stored"} /\ req[r].doc \in Live =>
        /\ req[r].loaded # NoRow
        /\ req[r].loaded.hash = rows[req[r].doc].hash
        /\ req[r].loaded.ver = rows[req[r].doc].ver

Hashed == \A d \in Live : rows[d].hash = file[d]
Distinct == \A d, e \in Live : rows[d].hash = rows[e].hash => d = e

Serial == ~overlapped => OneAtATime /\ OnlyHere /\ AsLoaded /\ Hashed /\ Distinct

SerialInv == TypeOK /\ StoredIsLive /\ Serial

(* What one step may do to the versions. *)
Grows ==
    \A d \in Live : d \in Live' =>
        rows[d].ver' = rows[d].ver + (IF file[d]' # file[d] THEN 1 ELSE 0)

(* A step that gives no document other bytes and no request a turn. *)
LEMMA ContentKept ==
    ASSUME TypeOK, Serial, UNCHANGED <<req, overlapped>>,
           \A d \in Live' : /\ d \in Live
                            /\ rows'[d].hash = rows[d].hash /\ rows'[d].ver = rows[d].ver
                            /\ file'[d] = file[d]
    PROVE  Serial' /\ Grows
  <1>1. \A d \in Live : rows[d].ver \in Nat
    BY DEF TypeOK, Rows, Live
  <1>2. Grows
    BY <1>1 DEF Grows
  <1>3. SUFFICES ASSUME ~overlapped PROVE (OneAtATime /\ OnlyHere /\ AsLoaded /\ Hashed /\ Distinct)'
    BY <1>2 DEF Serial
  <1>4. OneAtATime /\ OnlyHere /\ AsLoaded /\ Hashed /\ Distinct
    BY <1>3 DEF Serial
  <1>5. OneAtATime' /\ OnlyHere'
    BY <1>4 DEF OneAtATime, OnlyHere
  <1>6. AsLoaded'
    BY <1>4 DEF AsLoaded
  <1>7. Hashed' /\ Distinct'
    BY <1>4 DEF Hashed, Distinct
  <1> QED
    BY <1>5, <1>6, <1>7

(* The worker changes statuses alone; a deletion spares stored files. *)
LEMMA ServiceSerial ==
    ASSUME SerialInv, Start \/ Stop \/ (\E d \in Docs : Delete(d))
    PROVE  StoredIsLive' /\ Serial' /\ Grows
  <1>t. /\ rows \in [Docs -> Rows] /\ TypeOK /\ StoredIsLive /\ Serial
        /\ Live \subseteq Docs
    BY DEF SerialInv, TypeOK, Live
  <1>s. ASSUME NEW c \in Docs, NEW s \in Statuses \ {"none", "gone"}, c \in Live,
               rows' = [rows EXCEPT ![c].status = s], UNCHANGED <<req, file, overlapped>>
        PROVE  StoredIsLive' /\ Serial' /\ Grows
    <2>1. \A d \in Docs : /\ rows'[d].hash = rows[d].hash /\ rows'[d].ver = rows[d].ver
                          /\ d # c => rows'[d] = rows[d]
      BY <1>t, <1>s DEF Rows
    <2>2. rows'[c].status = s
      BY <1>t, <1>s DEF Rows
    <2>3. Live' = Live
      BY <1>s, <2>1, <2>2 DEF Live
    <2> QED
      BY <1>t, <1>s, <2>1, <2>3, ContentKept DEF StoredIsLive
  <1>1. ASSUME NEW c \in Docs, StartRun(c) PROVE StoredIsLive' /\ Serial' /\ Grows
    BY <1>1, <1>s DEF StartRun, Statuses
  <1>2. CASE EndRun
    BY <1>t, <1>2, <1>s DEF EndRun, Statuses
  <1>3. CASE FailRun
    <2>1. CASE run.doc \in Live
      BY <1>t, <1>3, <2>1, <1>s DEF FailRun, Statuses
    <2>2. CASE run.doc \notin Live
      <3>1. UNCHANGED <<rows, req, file, overlapped>>
        BY <1>3, <2>2 DEF FailRun
      <3>2. Live' = Live
        BY <3>1 DEF Live
      <3> QED
        BY <1>t, <3>1, <3>2, ContentKept DEF StoredIsLive
    <2> QED
      BY <2>1, <2>2
  <1>4. ASSUME NEW c \in Docs, Delete(c) PROVE StoredIsLive' /\ Serial' /\ Grows
    <2>1. /\ \A d \in Docs \ {c} : rows'[d] = rows[d] /\ file'[d] = file[d]
          /\ rows'[c].status = "gone" /\ UNCHANGED <<req, overlapped>>
          /\ FileFree(c)
      BY <1>t, <1>4 DEF Delete, NoRow, TypeOK
    <2>2. Live' = Live \ {c}
      BY <2>1 DEF Live
    <2>3. StoredIsLive'
      BY <1>t, <2>1, <2>2 DEF StoredIsLive, FileFree
    <2> QED
      BY <1>t, <2>1, <2>2, <2>3, ContentKept
  <1> QED
    BY <1>1, <1>2, <1>3, <1>4 DEF Start, Stop

(* A new upload: if it comes while another is under way, nothing more is   *)
(* promised.                                                               *)
LEMMA ArriveSerial ==
    ASSUME SerialInv, NEW r \in Requests, Arrive(r)
    PROVE  StoredIsLive' /\ Serial' /\ Grows
  <1>t. /\ req \in [Requests -> Memory] /\ TypeOK /\ StoredIsLive /\ Serial
    BY DEF SerialInv, TypeOK, Memory
  <1>1. PICK f \in Files, n \in Names :
          \/ \E d \in Docs : Deduplicate(r, f, d) \/ TakeIdentical(r, f, n, d)
          \/ Unseen(r, f, n)
          \/ RefuseIdentical(r, f)
    BY DEF Arrive
  <1>2. Receive(r)
    BY <1>1 DEF Deduplicate, TakeIdentical, Unseen, RefuseIdentical
  <1>3. /\ UNCHANGED <<rows, file>> /\ Live' = Live
        /\ overlapped' = (overlapped \/ \E q \in Requests : req[q].at # "idle")
    BY <1>2 DEF Receive, Live
  <1>4. \A d \in Live : rows[d].ver \in Nat
    BY DEF SerialInv, TypeOK, Rows, Live
  <1>5. Grows
    BY <1>3, <1>4 DEF Grows
  <1>6. \A q \in Requests \ {r} : req'[q] = req[q]
    BY <1>1, <1>t DEF Deduplicate, TakeIdentical, Unseen, RefuseIdentical
  <1>7. \/ req'[r] = req[r]
        \/ /\ req'[r].at = "found" /\ req'[r].doc \in Docs
           /\ Identical(f) = {req'[r].doc} /\ req'[r].file = f
           /\ req'[r].loaded = rows[req'[r].doc]
        \/ /\ req'[r].at = "unseen" /\ Identical(f) = {} /\ req'[r].file = f
    <2>1. ASSUME NEW d \in Docs, TakeIdentical(r, f, n, d)
          PROVE  /\ req'[r].at = "found" /\ req'[r].doc \in Docs
                 /\ Identical(f) = {req'[r].doc} /\ req'[r].file = f
                 /\ req'[r].loaded = rows[req'[r].doc]
      BY <1>t, <2>1 DEF TakeIdentical, IdleReq
    <2>2. ASSUME Unseen(r, f, n)
          PROVE  req'[r].at = "unseen" /\ Identical(f) = {} /\ req'[r].file = f
      BY <1>t, <2>2 DEF Unseen, IdleReq
    <2>3. ASSUME RefuseIdentical(r, f) \/ \E d \in Docs : Deduplicate(r, f, d)
          PROVE  req'[r] = req[r]
      BY <2>3 DEF RefuseIdentical, Deduplicate
    <2> QED
      BY <1>1, <2>1, <2>2, <2>3
  <1>8. StoredIsLive'
    BY <1>t, <1>3, <1>6, <1>7 DEF StoredIsLive
  <1>9. ASSUME ~overlapped' PROVE (OneAtATime /\ OnlyHere /\ AsLoaded /\ Hashed /\ Distinct)'
    <2>1. /\ OneAtATime /\ OnlyHere /\ AsLoaded /\ Hashed /\ Distinct
          /\ \A q \in Requests : req[q].at = "idle"
      BY <1>t, <1>3, <1>9 DEF Serial
    <2>2. OneAtATime' /\ Hashed' /\ Distinct'
      BY <1>3, <1>6, <2>1 DEF OneAtATime, Hashed, Distinct
    <2>3. OnlyHere'
      BY <1>3, <1>6, <1>7, <2>1 DEF OnlyHere, Identical
    <2>4. AsLoaded'
      <3>1. \A d \in Live : rows[d] # NoRow
        BY DEF Live, NoRow
      <3> QED
        BY <1>3, <1>6, <1>7, <2>1, <3>1 DEF AsLoaded
    <2> QED
      BY <2>2, <2>3, <2>4
  <1> QED
    BY <1>5, <1>8, <1>9 DEF Serial

(* The statements before the commit. *)
LEMMA ProceedSerial ==
    ASSUME SerialInv, NEW r \in Requests, Proceed(r), ~Commit(r)
    PROVE  StoredIsLive' /\ Serial' /\ Grows
  <1>t. /\ req \in [Requests -> Memory] /\ TypeOK /\ StoredIsLive /\ Serial
    BY DEF SerialInv, TypeOK, Memory
  <1>1. UNCHANGED <<rows, file, overlapped>> /\ Live' = Live
    BY DEF Proceed, TakeNamesake, Insert, Clear, Put, Abort, Live
  <1>2. \A d \in Live : rows[d].ver \in Nat /\ rows[d] # NoRow
    BY DEF SerialInv, TypeOK, Rows, Live, NoRow
  <1>3. Grows
    BY <1>1, <1>2 DEF Grows
  <1>4. \A q \in Requests \ {r} : req'[q] = req[q]
    BY <1>t DEF Proceed, TakeNamesake, Insert, Clear, Put, Abort
  <1>5. \/ /\ req[r].at = "unseen" /\ req'[r].at = "found" /\ req'[r].file = req[r].file
           /\ req'[r].loaded = rows[req'[r].doc]
        \/ /\ req[r].at = "unseen" /\ req'[r].at = "cleared" /\ req'[r].file = req[r].file
           /\ req'[r].doc \notin Live
        \/ /\ req[r].at = "found" /\ req'[r].at = "cleared" /\ req'[r].file = req[r].file
           /\ req'[r].doc = req[r].doc /\ req'[r].loaded = req[r].loaded
        \/ /\ req[r].at = "cleared" /\ req'[r].at = "stored" /\ req'[r].file = req[r].file
           /\ req'[r].doc = req[r].doc /\ req'[r].loaded = req[r].loaded
           /\ req[r].loaded = NoRow \/ req[r].doc \in Live
        \/ req'[r].at = "idle"
    <2>m. req[r] \in Memory
      BY <1>t
    <2>1. ASSUME NEW d \in Docs, TakeNamesake(r, d)
          PROVE  /\ req[r].at = "unseen" /\ req'[r].at = "found" /\ req'[r].file = req[r].file
                 /\ req'[r].loaded = rows[req'[r].doc]
      BY <1>t, <2>m, <2>1 DEF TakeNamesake, Memory
    <2>2. ASSUME NEW d \in Docs, Insert(r, d)
          PROVE  /\ req[r].at = "unseen" /\ req'[r].at = "cleared" /\ req'[r].file = req[r].file
                 /\ req'[r].doc \notin Live
      BY <1>t, <2>m, <2>2 DEF Insert, Memory, Live
    <2>3. ASSUME Clear(r)
          PROVE  /\ req[r].at = "found" /\ req'[r].at = "cleared" /\ req'[r].file = req[r].file
                 /\ req'[r].doc = req[r].doc /\ req'[r].loaded = req[r].loaded
      BY <1>t, <2>m, <2>3 DEF Clear, Memory
    <2>4. ASSUME Put(r)
          PROVE  /\ req[r].at = "cleared" /\ req'[r].at = "stored" /\ req'[r].file = req[r].file
                 /\ req'[r].doc = req[r].doc /\ req'[r].loaded = req[r].loaded
                 /\ req[r].loaded = NoRow \/ req[r].doc \in Live
      BY <1>t, <2>m, <2>4 DEF Put, Memory
    <2>5. ASSUME Abort(r) PROVE req'[r].at = "idle"
      BY <1>t, <2>5 DEF Abort, IdleReq
    <2> QED
      BY <2>1, <2>2, <2>3, <2>4, <2>5 DEF Proceed
  <1>6. StoredIsLive'
    BY <1>t, <1>1, <1>4, <1>5 DEF StoredIsLive
  <1>7. ASSUME ~overlapped PROVE (OneAtATime /\ OnlyHere /\ AsLoaded /\ Hashed /\ Distinct)'
    <2>1. OneAtATime /\ OnlyHere /\ AsLoaded /\ Hashed /\ Distinct
      BY <1>t, <1>7 DEF Serial
    <2>2. OneAtATime' /\ Hashed' /\ Distinct'
      BY <1>1, <1>4, <1>5, <2>1 DEF OneAtATime, Hashed, Distinct
    <2>3. OnlyHere'
      BY <1>1, <1>4, <1>5, <2>1 DEF OnlyHere
    <2>4. AsLoaded'
      BY <1>1, <1>2, <1>4, <1>5, <2>1 DEF AsLoaded
    <2> QED
      BY <2>2, <2>3, <2>4
  <1> QED
    BY <1>1, <1>3, <1>6, <1>7 DEF Serial

(* The commit. *)
LEMMA CommitSerial ==
    ASSUME SerialInv, NEW r \in Requests, Commit(r)
    PROVE  StoredIsLive' /\ Serial' /\ (~overlapped' => Grows)
  <1> DEFINE c == req[r].doc
             l == req[r].loaded
             f == req[r].file
  <1>t. /\ req \in [Requests -> Memory] /\ req[r] \in Memory /\ rows \in [Docs -> Rows]
        /\ file \in [Docs -> Files \cup {NoFile}]
        /\ TypeOK /\ StoredIsLive /\ Serial /\ Live \subseteq Docs
    BY DEF SerialInv, TypeOK, Memory, Live
  <1>1. /\ req[r].at = "stored" /\ req'[r].at = "idle" /\ UNCHANGED overlapped
        /\ \A q \in Requests \ {r} : req'[q] = req[q]
        /\ \A d \in Docs \ {c} : rows'[d] = rows[d] /\ file'[d] = file[d]
    BY <1>t DEF Commit, IdleReq
  <1>2. c \in Docs => /\ file'[c] = f
                      /\ l = NoRow => rows'[c].hash = f /\ rows'[c].status = "pending"
                      /\ l # NoRow => rows'[c] = Changed(rows[c], l, f, req[r].name)
    BY <1>t DEF Commit, NewRow
  <1>3. l # NoRow => c \in Live
    BY <1>t, <1>1 DEF StoredIsLive
  <1>4. l # NoRow => /\ rows'[c].hash = (IF l.hash = f THEN rows[c].hash ELSE f)
                     /\ rows'[c].ver = (IF l.hash = f THEN rows[c].ver ELSE l.ver + 1)
                     /\ rows'[c].status = (IF l.status = "pending" THEN rows[c].status
                                                                   ELSE "pending")
    BY <1>t, <1>2, <1>3 DEF Changed, NextVersion
  <1>5. \A d \in Docs \ {c} : d \in Live' <=> d \in Live
    BY <1>1 DEF Live
  <1>6. c \in Docs => c \in Live'
    BY <1>t, <1>2, <1>3, <1>4 DEF Live
  <1>7. Live' \subseteq Docs
    BY DEF Live
  <1>8. StoredIsLive'
    BY <1>t, <1>1, <1>5, <1>6 DEF StoredIsLive
  <1>9. ASSUME ~overlapped
        PROVE  (OneAtATime /\ OnlyHere /\ AsLoaded /\ Hashed /\ Distinct)' /\ Grows
    <2>1. /\ OneAtATime /\ OnlyHere /\ AsLoaded /\ Hashed /\ Distinct
          /\ \A q \in Requests : req'[q].at = "idle"
      BY <1>t, <1>1, <1>9 DEF Serial, OneAtATime
    <2>2. OneAtATime' /\ OnlyHere' /\ AsLoaded'
      BY <2>1 DEF OneAtATime, OnlyHere, AsLoaded
    <2>3. c \in Live => l # NoRow /\ l.hash = rows[c].hash /\ l.ver = rows[c].ver
      BY <1>1, <2>1 DEF AsLoaded
    <2>4. c \in Docs => rows'[c].hash = f
      BY <1>2, <1>3, <1>4, <2>3
    <2>5. \A d \in Live : rows[d].hash = f => d = c
      BY <1>1, <2>1 DEF OnlyHere
    <2>6. Hashed'
      BY <1>1, <1>2, <1>5, <1>7, <2>1, <2>4 DEF Hashed
    <2>7. Distinct'
      BY <1>1, <1>5, <1>7, <2>1, <2>4, <2>5 DEF Distinct
    <2>8. Grows
      <3>1. ASSUME NEW d \in Live, d # c
            PROVE  rows'[d].ver = rows[d].ver + (IF file'[d] # file[d] THEN 1 ELSE 0)
        BY <1>t, <1>1, <3>1 DEF Rows
      <3>2. ASSUME c \in Live
            PROVE  rows'[c].ver = rows[c].ver + (IF file'[c] # file[c] THEN 1 ELSE 0)
        <4>1. rows[c].hash = file[c] /\ rows[c].ver \in Nat
          BY <1>t, <2>1, <3>2 DEF Hashed, Rows
        <4> QED
          BY <1>t, <1>2, <1>4, <2>3, <3>2, <4>1
      <3> QED
        BY <3>1, <3>2 DEF Grows
    <2> QED
      BY <2>2, <2>6, <2>7, <2>8
  <1> QED
    BY <1>1, <1>8, <1>9 DEF Serial

(* Every step keeps what uploads one after the other rely on, *)
LEMMA NextSerial ==
    SerialInv /\ [Next]_vars => SerialInv' /\ [~overlapped' => Grows]_vars
  <1> SUFFICES ASSUME SerialInv, [Next]_vars
               PROVE  SerialInv' /\ [~overlapped' => Grows]_vars
    OBVIOUS
  <1>1. TypeOK'
    BY NextTyped DEF SerialInv
  <1>2. CASE UNCHANGED vars
    <2>1. StoredIsLive' /\ Serial'
      BY <1>2 DEF vars, SerialInv, StoredIsLive, Serial, OneAtATime, OnlyHere, AsLoaded,
                  Hashed, Distinct, Live
    <2> QED
      BY <1>1, <1>2, <2>1 DEF SerialInv
  <1>3. CASE Next
    <2>1. StoredIsLive' /\ Serial' /\ (~overlapped' => Grows)
      BY <1>3, ArriveSerial, ProceedSerial, CommitSerial, ServiceSerial DEF Next
    <2> QED
      BY <1>1, <2>1 DEF SerialInv
  <1> QED
    BY <1>2, <1>3

(* and it holds at first. *)
LEMMA InitSerial == Init => SerialInv
  <1> SUFFICES ASSUME Init PROVE SerialInv
    OBVIOUS
  <1>1. Live = {} /\ \A r \in Requests : req[r].at = "idle"
    BY DEF Init, Live, NoRow, IdleReq
  <1> QED
    BY <1>1, InitTyped
    DEF SerialInv, StoredIsLive, Serial, OneAtATime, OnlyHere, AsLoaded, Hashed, Distinct

(* As long as uploads come one after the other, a document's hash is that  *)
(* of its stored bytes and no file is two documents.                       *)
THEOREM HashesAreTrue == Spec => []StoredIsHashed
  <1>1. SerialInv => StoredIsHashed
    BY DEF SerialInv, Serial, Hashed, Distinct, StoredIsHashed
  <1>2. SerialInv /\ [Next]_vars => SerialInv'
    BY NextSerial
  <1> QED
    BY <1>1, <1>2, InitSerial, PTL DEF Spec

(* And the version label goes up by one exactly when the bytes change. *)
THEOREM VersionsCount == Spec => VersionsGrow
  <1>1. SerialInv /\ [Next]_vars => SerialInv' /\ [~overlapped' => Grows]_vars
    BY NextSerial
  <1> QED
    BY <1>1, InitSerial, PTL DEF Spec, VersionsGrow, Grows

=============================================================================
