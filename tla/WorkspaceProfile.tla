-------------------------- MODULE WorkspaceProfile --------------------------
(***************************************************************************)
(* The vocabulary of one workspace (app/pipeline/profiling.py): counts of  *)
(* the topics of its documents, raised when a run stores a document's      *)
(* profile (store_document_profile) and recomputed when a document is      *)
(* deleted (delete_document).  Topics stand for topics, entities and       *)
(* document types, which are counted alike.                                *)
(*                                                                         *)
(* Both are transactions of several statements under READ COMMITTED that   *)
(* take the document's row lock and then the workspace's; a write is seen  *)
(* by others when it commits.  The variables are the committed rows.       *)
(***************************************************************************)
EXTENDS Integers, FiniteSets

CONSTANTS
    Docs,          \* document rows of the workspace that may ever exist
    Topics,
    Workers,       \* the runs that may store a profile at the same time
    Admins,        \* the delete requests under way at the same time
    Nobody,        \* holder of a free lock
    NoDoc,         \* no document in hand
    NoProfile,     \* the empty profile column of a document never profiled
    MaxStores      \* bound: profiles ever computed

ASSUME ProfileAssumption ==
    /\ IsFiniteSet(Docs)
    /\ MaxStores \in Nat
    /\ Workers \cap Admins = {}
    /\ Nobody \notin Workers \cup Admins
    /\ NoDoc \notin Docs
    /\ NoProfile \notin SUBSET Topics

VARIABLES
    docs,      \* documents: "none", "live" or "gone"
    prof,      \* documents.profile
    ws,        \* workspaces.profile
    run,       \* store_document_profile in each worker loop
    del,       \* delete_document in each request
    lock,      \* who holds the workspace row FOR UPDATE
    stores     \* profiles computed so far, at most MaxStores

vars == <<docs, prof, ws, run, del, lock, stores>>

-----------------------------------------------------------------------------
(* profiling.py. *)

Vocabulary == [count : Nat, topics : [Topics -> Nat]]

Empty == [count |-> 0, topics |-> [t \in Topics |-> 0]]

(* merge_workspace_profile: one more document, one more of each topic. *)
Merged_Restarted(v, p) ==
    [count |-> v.count + 1, topics |-> [t \in p |-> v.topics[t] + 1]]
Merged_OnlyNew(v, p) ==
    [count |-> v.count + 1,
     topics |-> [t \in Topics |->
                   IF t \in p /\ v.topics[t] = 0 THEN 1 ELSE v.topics[t]]]
Merged(v, p) ==
    [count |-> v.count + 1,
     topics |-> [t \in Topics |-> v.topics[t] + (IF t \in p THEN 1 ELSE 0)]]

(* rebuild_workspace_profile, from the profiles s[d] of documents. *)
Rebuilt(s) ==
    [count |-> Cardinality({d \in Docs : s[d] # NoProfile}),
     topics |-> [t \in Topics |->
                   Cardinality({d \in Docs : s[d] # NoProfile /\ t \in s[d]})]]

Live == {d \in Docs : docs[d] = "live"}

(* SELECT profile of the documents D. *)
Stored(D) == [d \in Docs |-> IF d \in D THEN prof[d] ELSE NoProfile]

-----------------------------------------------------------------------------
(* Row locks, held until the transaction ends. *)

IdleRun == [at |-> "idle", doc |-> NoDoc, prof |-> {}, ws |-> Empty]

IdleDel == [at |-> "idle", doc |-> NoDoc, rest |-> [d \in Docs |-> NoProfile]]

(* An UPDATE or DELETE of row d that found it holds it.  When d is gone    *)
(* the statement found nothing and holds nothing.                          *)
RowFree_RunsOnly(d) ==
    \A w \in Workers : run[w].at \in {"stored", "locked"} => run[w].doc # d
RowFree(d) ==
    \A p \in Workers \cup Admins :
        IF p \in Workers THEN run[p].at \in {"stored", "locked"} => run[p].doc # d
                         ELSE del[p].at \in {"removed", "locked", "read"} => del[p].doc # d

LockFree_Always(p) == TRUE
LockFree(p) == lock = Nobody

(* The rows a deletion finds left: its own DELETE is flushed before.       *)
Remaining_Unflushed(a) == Live
Remaining(a) == Live \ {del[a].doc}

Unlocked_Kept(p) == lock
Unlocked(p) == IF lock = p THEN Nobody ELSE lock

Init ==
    /\ docs = [d \in Docs |-> "none"]
    /\ prof = [d \in Docs |-> NoProfile]
    /\ ws = Empty
    /\ run = [w \in Workers |-> IdleRun]
    /\ del = [a \in Admins |-> IdleDel]
    /\ lock = Nobody
    /\ stores = 0

(* intake_upload creates a row without a profile; a re-upload or a reindex *)
(* leaves the profile of a row alone.                                      *)
Create(d) ==
    /\ docs[d] = "none"
    /\ docs' = [docs EXCEPT ![d] = "live"]
    /\ UNCHANGED <<prof, ws, run, del, lock, stores>>

(* A run of any job of d has the LLM describe the document; a failing call *)
(* gives the empty profile.  This takes long, and d may go meanwhile.      *)
Describe(w, d, p) ==
    /\ run[w].at = "idle"
    /\ docs[d] = "live"
    /\ stores < MaxStores
    /\ stores' = stores + 1
    /\ run' = [run EXCEPT ![w] = [@ EXCEPT !.at = "described", !.doc = d, !.prof = p]]
    /\ UNCHANGED <<docs, prof, ws, del, lock>>

(* store_document_profile: UPDATE the document, *)
StoreDoc(w) ==
    /\ run[w].at = "described"
    /\ RowFree(run[w].doc) \/ run[w].doc \notin Live
    /\ run' = [run EXCEPT ![w].at = "stored"]
    /\ UNCHANGED <<docs, prof, ws, del, lock, stores>>

(* SELECT the workspace FOR UPDATE, *)
StoreLock(w) ==
    /\ run[w].at = "stored"
    /\ LockFree(w)
    /\ lock' = w
    /\ run' = [run EXCEPT ![w] = [@ EXCEPT !.at = "locked", !.ws = ws]]
    /\ UNCHANGED <<docs, prof, ws, del, stores>>

(* fold the profile in and commit both rows. *)
StoreCommit(w) ==
    /\ run[w].at = "locked"
    /\ ws' = Merged(run[w].ws, run[w].prof)
    /\ prof' = IF docs[run[w].doc] = "live"
               THEN [prof EXCEPT ![run[w].doc] = run[w].prof]
               ELSE prof
    /\ lock' = Unlocked(w)
    /\ run' = [run EXCEPT ![w] = IdleRun]
    /\ UNCHANGED <<docs, del, stores>>

(* The transaction fails, or the process dies: nothing was written. *)
StoreAbort(w) ==
    /\ run[w].at # "idle"
    /\ lock' = Unlocked(w)
    /\ run' = [run EXCEPT ![w] = IdleRun]
    /\ UNCHANGED <<docs, prof, ws, del, stores>>

(* delete_document: look the row up, *)
Find(a, d) ==
    /\ del[a].at = "idle"
    /\ docs[d] = "live"
    /\ del' = [del EXCEPT ![a] = [@ EXCEPT !.at = "found", !.doc = d]]
    /\ UNCHANGED <<docs, prof, ws, run, lock, stores>>

(* DELETE it, its chunks and its file, *)
Remove(a) ==
    /\ del[a].at = "found"
    /\ RowFree(del[a].doc) \/ del[a].doc \notin Live
    /\ del' = [del EXCEPT ![a].at = "removed"]
    /\ UNCHANGED <<docs, prof, ws, run, lock, stores>>

(* SELECT the workspace FOR UPDATE, *)
DeleteLock(a) ==
    /\ del[a].at = "removed"
    /\ LockFree(a)
    /\ lock' = a
    /\ del' = [del EXCEPT ![a].at = "locked"]
    /\ UNCHANGED <<docs, prof, ws, run, stores>>

(* SELECT the profiles of the documents that remain, *)
ReadRest(a) ==
    /\ del[a].at = "locked"
    /\ del' = [del EXCEPT ![a] = [@ EXCEPT !.at = "read",
                                           !.rest = Stored(Remaining(a))]]
    /\ UNCHANGED <<docs, prof, ws, run, lock, stores>>

(* recompute the vocabulary and commit. *)
DeleteCommit(a) ==
    /\ del[a].at = "read"
    /\ ws' = Rebuilt(del[a].rest)
    /\ docs' = [docs EXCEPT ![del[a].doc] = "gone"]
    /\ lock' = Unlocked(a)
    /\ del' = [del EXCEPT ![a] = IdleDel]
    /\ UNCHANGED <<prof, run, stores>>

DeleteAbort(a) ==
    /\ del[a].at # "idle"
    /\ lock' = Unlocked(a)
    /\ del' = [del EXCEPT ![a] = IdleDel]
    /\ UNCHANGED <<docs, prof, ws, run, stores>>

StoreStep(w) == StoreDoc(w) \/ StoreLock(w) \/ StoreCommit(w) \/ StoreAbort(w)

DeleteStep(a) ==
    Remove(a) \/ DeleteLock(a) \/ ReadRest(a) \/ DeleteCommit(a) \/ DeleteAbort(a)

Next ==
    \/ \E d \in Docs : Create(d)
    \/ \E w \in Workers :
        \/ \E d \in Docs, p \in SUBSET Topics : Describe(w, d, p)
        \/ StoreStep(w)
    \/ \E a \in Admins :
        \/ \E d \in Docs : Find(a, d)
        \/ DeleteStep(a)

(* A statement runs once nothing blocks it (weak fairness); PostgreSQL      *)
(* queues those that wait for a row, so a lock that keeps being freed is    *)
(* obtained in the end (strong fairness).  No transaction has to fail.      *)
Fairness ==
    /\ \A w \in Workers :
        SF_vars(StoreDoc(w)) /\ SF_vars(StoreLock(w)) /\ WF_vars(StoreCommit(w))
    /\ \A a \in Admins :
        /\ SF_vars(Remove(a)) /\ SF_vars(DeleteLock(a)) /\ WF_vars(ReadRest(a))
        /\ WF_vars(DeleteCommit(a))

Spec == Init /\ [][Next]_vars /\ Fairness

-----------------------------------------------------------------------------
(* Properties. *)

Profile == {NoProfile} \cup SUBSET Topics

(* Type invariant of the rows and of the transactions' memory. *)
TypeOK ==
    /\ docs \in [Docs -> {"none", "live", "gone"}]
    /\ prof \in [Docs -> Profile]
    /\ ws \in Vocabulary
    /\ run \in [Workers -> [at : {"idle", "described", "stored", "locked"},
                            doc : Docs \cup {NoDoc}, prof : SUBSET Topics,
                            ws : Vocabulary]]
    /\ del \in [Admins -> [at : {"idle", "found", "removed", "locked", "read"},
                           doc : Docs \cup {NoDoc}, rest : [Docs -> Profile]]]
    /\ lock \in Workers \cup Admins \cup {Nobody}
    /\ stores \in 0..MaxStores

AtLeast(v, u) == v.count >= u.count /\ \A t \in Topics : v.topics[t] >= u.topics[t]

(* Whatever stores and deletions overlap, no stored profile is missing     *)
(* from the vocabulary: neither is lost to a rebuild that read the rows    *)
(* before the store, nor to a merge into a vocabulary read before it.      *)
NeverUnder == AtLeast(ws, Rebuilt(Stored(Live)))

(* "Removing a document means recomputing it" (delete_document): the       *)
(* vocabulary a deletion commits is that of the documents that remain at   *)
(* that moment, whatever drifted before.                                   *)
DeletionIsExact ==
    [][\A a \in Admins : DeleteCommit(a) => (ws = Rebuilt(Stored(Live)))']_vars

(* Stores and deletions of any documents never block each other for good:  *)
(* both take the document before the workspace.                            *)
NobodyWaitsForever ==
    /\ \A w \in Workers : run[w].at = "stored" ~> run[w].at = "idle"
    /\ \A a \in Admins : del[a].at = "found" ~> del[a].at = "idle"

(* What the two rest on.  Only the holder of the workspace's lock is about *)
(* to write it; what it read under the lock is still so; a document that   *)
(* does not exist yet has no profile; a transaction has a document.        *)
HolderWrites ==
    /\ \A w \in Workers : run[w].at = "locked" => lock = w
    /\ \A a \in Admins : del[a].at \in {"locked", "read"} => lock = a

ReadIsFresh ==
    /\ \A w \in Workers : run[w].at = "locked" => run[w].ws = ws
    /\ \A a \in Admins : del[a].at = "read" => del[a].rest = Stored(Live \ {del[a].doc})

Unborn == \A d \in Docs : docs[d] = "none" => prof[d] = NoProfile

InHand ==
    /\ \A w \in Workers : run[w].at # "idle" => run[w].doc \in Docs
    /\ \A a \in Admins : del[a].at # "idle" => del[a].doc \in Docs

LockInv == HolderWrites /\ ReadIsFresh /\ Unborn /\ InHand

-----------------------------------------------------------------------------
(* What the repository says of the vocabulary and the code does not do.    *)

(* "The workspace can never count a document whose own profile failed to   *)
(* save" (store_document_profile).                                         *)
CountedIsSaved ==
    [][\A w \in Workers : StoreCommit(w) => prof'[run[w].doc] = run[w].prof]_vars

(* "Needed after a delete or a reindex, where incrementing counts would    *)
(* leave the vocabulary describing documents that are no longer there"     *)
(* (rebuild_workspace_profile): with no store or deletion under way the    *)
(* vocabulary is that of the documents there are.                          *)
NoDrift ==
    (\A w \in Workers : run[w].at = "idle") /\ (\A a \in Admins : del[a].at = "idle")
        => ws = Rebuilt(Stored(Live))

=============================================================================
