------------------------------- MODULE Intake -------------------------------
(***************************************************************************)
(* Uploads of one workspace (app/pipeline/intake.py): which document row   *)
(* an upload resolves to, and what it makes of it, statement by statement  *)
(* under READ COMMITTED.  A file is its SHA-256.  The worker is the single *)
(* loop of the default configuration, reduced to what an upload can tell:  *)
(* a run reads the stored bytes, and later replaces chunks and status      *)
(* (Ingestion has the steps in between).                                   *)
(***************************************************************************)
EXTENDS Integers, FiniteSets

CONSTANTS
    Docs,          \* document ids that may ever be given out
    Files,         \* contents
    Names,         \* file names
    Requests,      \* uploads under way at the same time
    NoDoc, NoFile, NoName,
    MaxUploads     \* bound: uploads ever received

ASSUME IntakeAssumption ==
    /\ NoDoc \notin Docs /\ NoFile \notin Files /\ NoName \notin Names
    /\ MaxUploads \in Nat

VARIABLES
    rows,      \* documents: status, file_hash, filename, version_label
    file,      \* document_files: the stored bytes of each document
    idx,       \* the file whose chunks are stored for each document
    jobs,      \* queued jobs of each document
    run,       \* the document and the bytes the worker is indexing
    req,       \* intake_upload in each request
    uploads,   \* uploads received so far, at most MaxUploads
    overlapped \* history: two uploads were under way at the same time

vars == <<rows, file, idx, jobs, run, req, uploads, overlapped>>

-----------------------------------------------------------------------------
(* Rows. *)

Statuses == {"none", "pending", "working", "ready", "failed", "gone"}

Rows == [status : Statuses, hash : Files \cup {NoFile}, name : Names \cup {NoName},
         ver : Nat]

NoRow == [status |-> "none", hash |-> NoFile, name |-> NoName, ver |-> 0]

Live == {d \in Docs : rows[d].status \notin {"none", "gone"}}

(* SELECT by file_hash, SELECT by filename. *)
Identical(f) == {d \in Live : rows[d].hash = f}
Namesakes(n) == {d \in Live : rows[d].name = n}

NextVersion_Same(v) == v
NextVersion(v) == v + 1

NewRow(f, n) == [status |-> "pending", hash |-> f, name |-> n, ver |-> 1]

(* The UPDATE of a row that was loaded as l: the session sends the columns *)
(* whose values differ from the loaded ones, and no others.                *)
Changed_OldHash(row, l, f, n) ==
    [NewRow(row.hash, n) EXCEPT !.ver = IF l.hash = f THEN row.ver ELSE NextVersion(l.ver)]
Changed(row, l, f, n) ==
    [status |-> IF l.status = "pending" THEN row.status ELSE "pending",
     hash |-> IF l.hash = f THEN row.hash ELSE f,
     name |-> IF l.name = n THEN row.name ELSE n,
     ver |-> IF l.hash = f THEN row.ver ELSE NextVersion(l.ver)]

(* Every accepted upload queues a job, whatever it loaded. *)
NewJobs_UnlessQueued(l) == IF l.status = "pending" THEN 0 ELSE 1
NewJobs_UnlessFailed(l) == IF l.status = "failed" THEN 0 ELSE 1
NewJobs(l) == 1

-----------------------------------------------------------------------------
(* Requests and row locks. *)

IdleReq == [at |-> "idle", file |-> NoFile, name |-> NoName, doc |-> NoDoc,
            loaded |-> NoRow, cleared |-> FALSE]

IdleRun == [doc |-> NoDoc, file |-> NoFile]

(* Chunks a request deleted, and the file it put, are locked by it until   *)
(* it ends.                                                                *)
ChunksFree(d) == \A r \in Requests : req[r].doc = d => ~req[r].cleared
FileFree(d) == \A r \in Requests : req[r].doc = d => req[r].at # "stored"

Init ==
    /\ rows = [d \in Docs |-> NoRow]
    /\ file = [d \in Docs |-> NoFile]
    /\ idx = [d \in Docs |-> NoFile]
    /\ jobs = [d \in Docs |-> 0]
    /\ run = IdleRun
    /\ req = [r \in Requests |-> IdleReq]
    /\ uploads = 0
    /\ overlapped = FALSE

Receive(r) ==
    /\ req[r].at = "idle"
    /\ uploads < MaxUploads
    /\ uploads' = uploads + 1
    /\ overlapped' = (overlapped \/ \E q \in Requests : req[q].at # "idle")
    /\ UNCHANGED <<rows, file, idx, jobs, run>>

(* The same bytes are there and ready: nothing to do. *)
Deduplicate(r, f, d) ==
    /\ Receive(r)
    /\ Identical(f) = {d}
    /\ rows[d].status = "ready"
    /\ UNCHANGED req

(* They are there in a document that is not ready, which is taken over. *)
TakeIdentical(r, f, n, d) ==
    /\ Receive(r)
    /\ Identical(f) = {d}
    /\ rows[d].status # "ready"
    /\ req' = [req EXCEPT ![r] = [IdleReq EXCEPT !.at = "found", !.file = f, !.name = n,
                                                 !.doc = d, !.loaded = rows[d]]]

(* They are not there: the name decides. *)
Unseen(r, f, n) ==
    /\ Receive(r)
    /\ Identical(f) = {}
    /\ req' = [req EXCEPT ![r] = [IdleReq EXCEPT !.at = "unseen", !.file = f, !.name = n]]

(* They are there twice: scalar_one_or_none raises. *)
RefuseIdentical(r, f) ==
    /\ Receive(r)
    /\ \E d, e \in Identical(f) : d # e
    /\ UNCHANGED req

TakeNamesake(r, d) ==
    /\ req[r].at = "unseen"
    /\ Namesakes(req[r].name) = {d}
    /\ req' = [req EXCEPT ![r] = [@ EXCEPT !.at = "found", !.doc = d, !.loaded = rows[d]]]
    /\ UNCHANGED <<rows, file, idx, jobs, run, uploads, overlapped>>

(* No document has the name: INSERT one, seen by others at the commit. *)
Insert(r, d) ==
    /\ req[r].at = "unseen"
    /\ Namesakes(req[r].name) = {}
    /\ rows[d].status = "none" /\ \A q \in Requests : req[q].doc # d
    /\ req' = [req EXCEPT ![r] = [@ EXCEPT !.at = "cleared", !.doc = d]]
    /\ UNCHANGED <<rows, file, idx, jobs, run, uploads, overlapped>>

(* delete_by_document: the chunks there are now. *)
Clear(r) ==
    /\ req[r].at = "found"
    /\ ChunksFree(req[r].doc)
    /\ req' = [req EXCEPT ![r] = [@ EXCEPT !.at = "cleared",
                                           !.cleared = idx[req[r].doc] # NoFile]]
    /\ UNCHANGED <<rows, file, idx, jobs, run, uploads, overlapped>>

(* PostgresFileStore.put: a document deleted meanwhile fails its foreign   *)
(* key (Abort).                                                            *)
Put(r) ==
    /\ req[r].at = "cleared"
    /\ FileFree(req[r].doc)
    /\ req[r].loaded = NoRow \/ req[r].doc \in Live
    /\ req' = [req EXCEPT ![r].at = "stored"]
    /\ UNCHANGED <<rows, file, idx, jobs, run, uploads, overlapped>>

(* enqueue flushes the row and the job; upload_document commits. *)
Commit(r) ==
    LET q == req[r]
        d == q.doc
    IN
    /\ q.at = "stored"
    /\ rows' = [rows EXCEPT ![d] = IF q.loaded = NoRow
                                   THEN NewRow(q.file, q.name)
                                   ELSE Changed(@, q.loaded, q.file, q.name)]
    /\ file' = [file EXCEPT ![d] = q.file]
    /\ idx' = [idx EXCEPT ![d] = IF q.cleared THEN NoFile ELSE @]
    /\ jobs' = [jobs EXCEPT ![d] = @ + NewJobs(q.loaded)]
    /\ req' = [req EXCEPT ![r] = IdleReq]
    /\ UNCHANGED <<run, uploads, overlapped>>

(* Any failing statement, two namesakes among them: all is rolled back. *)
Abort(r) ==
    /\ req[r].at # "idle"
    /\ req' = [req EXCEPT ![r] = IdleReq]
    /\ UNCHANGED <<rows, file, idx, jobs, run, uploads, overlapped>>

-----------------------------------------------------------------------------
(* The worker and delete_document. *)

Claimable_Always(d) == TRUE
Claimable(d) == jobs[d] > 0

StartRun(d) ==
    /\ run = IdleRun
    /\ d \in Live
    /\ Claimable(d)
    /\ jobs' = [jobs EXCEPT ![d] = @ - 1]
    /\ run' = [doc |-> d, file |-> file[d]]
    /\ rows' = [rows EXCEPT ![d].status = "working"]
    /\ UNCHANGED <<file, idx, req, uploads, overlapped>>

EndRun ==
    /\ run.doc \in Live
    /\ ChunksFree(run.doc)
    /\ idx' = [idx EXCEPT ![run.doc] = run.file]
    /\ rows' = [rows EXCEPT ![run.doc].status = "ready"]
    /\ run' = IdleRun
    /\ UNCHANGED <<file, jobs, req, uploads, overlapped>>

FailRun ==
    /\ run # IdleRun
    /\ rows' = IF run.doc \in Live THEN [rows EXCEPT ![run.doc].status = "failed"] ELSE rows
    /\ run' = IdleRun
    /\ UNCHANGED <<file, idx, jobs, req, uploads, overlapped>>

(* The row goes with its chunks, file and queued jobs; requests that hold  *)
(* any of them are waited for.                                             *)
Delete(d) ==
    /\ d \in Live
    /\ ChunksFree(d) /\ FileFree(d)
    /\ rows' = [rows EXCEPT ![d] = [NoRow EXCEPT !.status = "gone"]]
    /\ file' = [file EXCEPT ![d] = NoFile]
    /\ idx' = [idx EXCEPT ![d] = NoFile]
    /\ jobs' = [jobs EXCEPT ![d] = 0]
    /\ UNCHANGED <<run, req, uploads, overlapped>>

-----------------------------------------------------------------------------

Arrive(r) ==
    \E f \in Files, n \in Names :
        \/ \E d \in Docs : Deduplicate(r, f, d) \/ TakeIdentical(r, f, n, d)
        \/ Unseen(r, f, n)
        \/ RefuseIdentical(r, f)

Proceed(r) ==
    \/ \E d \in Docs : TakeNamesake(r, d) \/ Insert(r, d)
    \/ Clear(r)
    \/ Put(r)
    \/ Commit(r)
    \/ Abort(r)

Start == \E d \in Docs : StartRun(d)

Stop == EndRun \/ FailRun

Next ==
    \/ \E r \in Requests : Arrive(r) \/ Proceed(r)
    \/ Start
    \/ Stop
    \/ \E d \in Docs : Delete(d)

(* A request under way ends, one way or the other; the loop polls, and a   *)
(* run ends.  Nobody has to upload or delete.                              *)
Fairness ==
    /\ \A r \in Requests : WF_vars(Proceed(r))
    /\ WF_vars(Start)
    /\ WF_vars(Stop)

Spec == Init /\ [][Next]_vars /\ Fairness

-----------------------------------------------------------------------------
(* Properties. *)

(* Type invariant of the rows, the run and the requests' memory. *)
TypeOK ==
    /\ rows \in [Docs -> Rows]
    /\ file \in [Docs -> Files \cup {NoFile}]
    /\ idx \in [Docs -> Files \cup {NoFile}]
    /\ jobs \in [Docs -> Nat]
    /\ run \in [doc : Docs \cup {NoDoc}, file : Files \cup {NoFile}]
    /\ req \in [Requests ->
                   [at : {"idle", "unseen", "found", "cleared", "stored"},
                    file : Files \cup {NoFile}, name : Names \cup {NoName},
                    doc : Docs \cup {NoDoc}, loaded : Rows, cleared : BOOLEAN]]
    /\ uploads \in 0..MaxUploads
    /\ overlapped \in BOOLEAN

(* What search may answer from (a ready document) is the text of the       *)
(* stored bytes, or a job that will make it so is queued: also when a run  *)
(* of the bytes before ends after the upload, and when the upload leaves   *)
(* the status alone because it loaded the row as pending.                  *)
StaleHasJob ==
    \A d \in Live : rows[d].status = "ready" /\ idx[d] # file[d] => jobs[d] > 0

(* "Queued for ingestion" (upload_document): once nobody uploads any more, *)
(* every document gets indexed from its stored bytes, or failed, or went.  *)
Converges ==
    \A d \in Docs :
        <>[](d \in Live => \/ rows[d].status = "failed"
                           \/ rows[d].status = "ready" /\ idx[d] = file[d])

(* The two below are of uploads one after the other. *)

(* What deduplication by hash relies on: the hash of a document is that of *)
(* its stored bytes, and no file is two documents, so that the lookup      *)
(* never finds two rows.                                                   *)
StoredIsHashed ==
    ~overlapped =>
        /\ \A d \in Live : rows[d].hash = file[d]
        /\ \A d, e \in Live : rows[d].hash = rows[e].hash => d = e

(* "version_label bumped" (README, Versioning): the label goes up by one   *)
(* exactly when the stored bytes of a document change.                     *)
VersionsGrow ==
    [][~overlapped' => \A d \in Live : d \in Live' =>
           rows[d].ver' = rows[d].ver + (IF file[d]' # file[d] THEN 1 ELSE 0)]_vars

-----------------------------------------------------------------------------
(* What the repository says of uploads and the code does not do.           *)

(* "`documents` holds one row per (workspace, filename)" (README). *)
OneRowPerName == \A d, e \in Live : rows[d].name = rows[e].name => d = e

(* "Identical content is already indexed" (upload_document), also with two *)
(* uploads at the same time.                                               *)
DedupIsTrue ==
    [][\A r \in Requests, f \in Files, d \in Docs :
           Deduplicate(r, f, d) => file[d] = f]_vars

=============================================================================
