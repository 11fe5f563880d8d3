---------------------------- MODULE WorkspaceLocks ----------------------------
(***************************************************************************)
(* The transactions of WorkspaceProfile.tla together with the two requests *)
(* that take the same rows in another order: a reindex (requeue_workspace) *)
(* updates document after document and, from the first job it inserts on,  *)
(* shares the workspace's row; the deletion of the workspace takes its row *)
(* first and cascades to the documents.  PostgreSQL ends a cycle of waits  *)
(* by failing one of its transactions.                                     *)
(*                                                                         *)
(* Transactions that hold no row while they wait (a status, a claim, a     *)
(* batch of vectors) are left out: they are on no cycle.                   *)
(***************************************************************************)
EXTENDS WorkspaceProfile, Sequences

CONSTANTS
    Reindexers,    \* reindex requests under way at the same time
    Removers       \* requests that delete the workspace

Bulk == Reindexers \cup Removers

Short == Workers \cup Admins

Procs == Short \cup Bulk

ASSUME LocksAssumption ==
    /\ Bulk \cap (Short \cup {Nobody}) = {}
    /\ Reindexers \cap Removers = {}

VARIABLES
    bulk,      \* each one's place, the documents to come, the rows it holds
    gone       \* the workspace is deleted, and everything in it

lvars == <<docs, prof, ws, run, del, lock, stores, bulk, gone>>

IdleBulk == [at |-> "idle", todo |-> <<>>, done |-> {}, shares |-> FALSE]

(* What commit or rollback leaves of a request: its locks are released. *)
Ended_NoRollback(r) == [bulk EXCEPT ![r].at = "idle"]
Ended(r) == [bulk EXCEPT ![r] = IdleBulk]

(* The rows a SELECT or a cascade goes through, in any order. *)
Orders(D) ==
    {s \in [1..Cardinality(D) -> D] : \A i, j \in DOMAIN s : i # j => s[i] # s[j]}

-----------------------------------------------------------------------------
(* Who holds a row, and who waits for whom. *)

HoldsRow(p, d) ==
    \/ p \in Workers /\ run[p].at \in {"stored", "locked"} /\ run[p].doc = d
    \/ p \in Admins /\ del[p].at \in {"removed", "locked", "read"} /\ del[p].doc = d
    \/ p \in Bulk /\ d \in bulk[p].done

(* The workspace's row: FOR UPDATE or DELETE takes it alone, the foreign   *)
(* key of an inserted job shares it.                                       *)
Owns(p) ==
    \/ p \in Short /\ lock = p
    \/ p \in Removers /\ bulk[p].at = "cascade"

Shares(p) == p \in Reindexers /\ bulk[p].shares

(* What a waiting transaction waits for. *)
WantsRow(p, d) ==
    \/ p \in Workers /\ run[p].at = "described" /\ run[p].doc = d
    \/ p \in Admins /\ del[p].at = "found" /\ del[p].doc = d
    \/ /\ p \in Bulk /\ bulk[p].at \in {"listed", "cascade"}
       /\ bulk[p].todo # <<>> /\ Head(bulk[p].todo) = d

WantsAlone(p) ==
    \/ p \in Workers /\ run[p].at = "stored"
    \/ p \in Admins /\ del[p].at = "removed"
    \/ p \in Removers /\ bulk[p].at = "counted"

WantsShare(p) == p \in Reindexers /\ bulk[p].at = "touched"

Waits(p, q) ==
    \/ \E d \in Live : WantsRow(p, d) /\ HoldsRow(q, d)
    \/ WantsAlone(p) /\ (Owns(q) \/ Shares(q))
    \/ WantsShare(p) /\ Owns(q)

Blockers(p) == {q \in Procs \ {p} : Waits(p, q)}

(* Those of P that wait, through others of P, for themselves: such a p is  *)
(* in every set that holds who p waits for, who those wait for, and so on. *)
Cyclic(P) ==
    LET after == [p \in P |-> Blockers(p) \cap P]
    IN  {p \in P : \A S \in SUBSET P :
           after[p] \subseteq S /\ (\A q \in S : after[q] \subseteq S) => p \in S}

-----------------------------------------------------------------------------
(* The statements of stores and deletions wait for the others' rows too,   *)
(* and find no workspace once it is gone.                                  *)
Free(p) == Blockers(p) \cap Bulk = {}

LocksUnchanged == UNCHANGED <<bulk, gone>>

LInit ==
    /\ Init
    /\ bulk = [r \in Bulk |-> IdleBulk]
    /\ gone = FALSE

LCreate(d) == Create(d) /\ ~gone /\ (\A p \in Procs : ~Owns(p)) /\ LocksUnchanged

LDescribe(w, d, p) == Describe(w, d, p) /\ ~gone /\ LocksUnchanged

LStoreDoc(w) == StoreDoc(w) /\ Free(w) /\ LocksUnchanged

LStoreLock(w) == StoreLock(w) /\ Free(w) /\ ~gone /\ LocksUnchanged

LStoreCommit(w) == StoreCommit(w) /\ LocksUnchanged

LFind(a, d) == Find(a, d) /\ ~gone /\ LocksUnchanged

LRemove(a) == Remove(a) /\ Free(a) /\ LocksUnchanged

LDeleteLock(a) == DeleteLock(a) /\ Free(a) /\ ~gone /\ LocksUnchanged

LReadRest(a) == ReadRest(a) /\ LocksUnchanged

LDeleteCommit(a) == DeleteCommit(a) /\ LocksUnchanged

(* requeue_workspace: SELECT the documents, *)
List(r) ==
    /\ bulk[r].at = "idle"
    /\ ~gone
    /\ \E s \in Orders(Live) :
        bulk' = [bulk EXCEPT ![r] = [IdleBulk EXCEPT !.at = "listed", !.todo = s]]
    /\ UNCHANGED <<vars, gone>>

(* UPDATE the next one (it is flushed before the job), *)
Touch(r) ==
    /\ bulk[r].at = "listed"
    /\ bulk[r].todo # <<>>
    /\ Head(bulk[r].todo) \in Live
    /\ ~gone
    /\ Blockers(r) = {}
    /\ bulk' = [bulk EXCEPT ![r] =
                  [at |-> "touched", todo |-> Tail(bulk[r].todo),
                   done |-> bulk[r].done \cup {Head(bulk[r].todo)},
                   shares |-> bulk[r].shares]]
    /\ UNCHANGED <<vars, gone>>

(* INSERT its job, *)
Share(r) ==
    /\ bulk[r].at = "touched"
    /\ Blockers(r) = {}
    /\ bulk' = [bulk EXCEPT ![r] =
                  [at |-> "listed", todo |-> bulk[r].todo,
                   done |-> bulk[r].done, shares |-> TRUE]]
    /\ UNCHANGED <<vars, gone>>

(* and commit them all. *)
Requeued(r) ==
    /\ bulk[r].at = "listed"
    /\ bulk[r].todo = <<>>
    /\ bulk' = Ended(r)
    /\ UNCHANGED <<vars, gone>>

(* delete_workspace: SELECT the counts, *)
Count(x) ==
    /\ bulk[x].at = "idle"
    /\ ~gone
    /\ bulk' = [bulk EXCEPT ![x].at = "counted"]
    /\ UNCHANGED <<vars, gone>>

(* DELETE the workspace, *)
Take(x) ==
    /\ bulk[x].at = "counted"
    /\ ~gone
    /\ Blockers(x) = {}
    /\ \E s \in Orders(Live) :
        bulk' = [bulk EXCEPT ![x] = [IdleBulk EXCEPT !.at = "cascade", !.todo = s]]
    /\ UNCHANGED <<vars, gone>>

(* which deletes the documents one after the other, *)
Cascade(x) ==
    /\ bulk[x].at = "cascade"
    /\ bulk[x].todo # <<>>
    /\ Blockers(x) = {}
    /\ bulk' = [bulk EXCEPT ![x] =
                  [at |-> "cascade", todo |-> Tail(bulk[x].todo),
                   done |-> bulk[x].done \cup ({Head(bulk[x].todo)} \cap Live),
                   shares |-> FALSE]]
    /\ UNCHANGED <<vars, gone>>

(* and commit. *)
Deleted(x) ==
    /\ bulk[x].at = "cascade"
    /\ bulk[x].todo = <<>>
    /\ gone' = TRUE
    /\ bulk' = Ended(x)
    /\ UNCHANGED vars

(* Any statement may fail, and rolls its transaction back. *)
Abort(p) ==
    \/ p \in Workers /\ StoreAbort(p) /\ LocksUnchanged
    \/ p \in Admins /\ DeleteAbort(p) /\ LocksUnchanged
    \/ p \in Bulk /\ bulk[p].at # "idle" /\ bulk' = Ended(p) /\ UNCHANGED <<vars, gone>>

(* It has to: the workspace is gone (scalar_one raises), or the document   *)
(* of an UPDATE that counts its rows is.                                   *)
Doomed(p) ==
    \/ gone
    \/ /\ p \in Reindexers /\ bulk[p].at = "listed" /\ bulk[p].todo # <<>>
       /\ Head(bulk[p].todo) \notin Live

(* What a transaction under way does next, but for failing of itself. *)
LStep(p) ==
    \/ p \in Workers /\ (LStoreDoc(p) \/ LStoreLock(p) \/ LStoreCommit(p))
    \/ p \in Admins /\ (LRemove(p) \/ LDeleteLock(p) \/ LReadRest(p) \/ LDeleteCommit(p))
    \/ p \in Reindexers /\ (Touch(p) \/ Share(p) \/ Requeued(p))
    \/ p \in Removers /\ (Take(p) \/ Cascade(p) \/ Deleted(p))
    \/ Doomed(p) /\ Abort(p)

LNext ==
    \/ \E d \in Docs : LCreate(d)
    \/ \E w \in Workers, d \in Docs, p \in SUBSET Topics : LDescribe(w, d, p)
    \/ \E a \in Admins, d \in Docs : LFind(a, d)
    \/ \E r \in Reindexers : List(r)
    \/ \E x \in Removers : Count(x)
    \/ \E p \in Procs : LStep(p) \/ Abort(p)

(* A statement that waits gets its row if it keeps being freed, as in      *)
(* WorkspaceProfile; and PostgreSQL finds every cycle of waits and fails   *)
(* one of the transactions on it.                                          *)
LFairness ==
    /\ \A p \in Procs : SF_lvars(LStep(p))
    /\ WF_lvars(\E p \in Cyclic(Procs) : Abort(p))

LSpec == LInit /\ [][LNext]_lvars /\ LFairness

-----------------------------------------------------------------------------
(* Properties. *)

BulkRow == [at : {"idle", "listed", "touched", "counted", "cascade"},
            todo : Seq(Docs), done : SUBSET Docs, shares : BOOLEAN]

(* Type invariant of the requests, and what row locks are for: a document  *)
(* that is there is held by one transaction at most, and is not deleted    *)
(* under a reindex that has updated it.                                    *)
LocksOK ==
    /\ bulk \in [Bulk -> BulkRow]
    /\ gone \in BOOLEAN
    /\ \A d \in Live : \A p, q \in Procs : HoldsRow(p, d) /\ HoldsRow(q, d) => p = q
    /\ \A r \in Bulk : bulk[r].done \subseteq Live

(* Profile stores and document deletions, however many and of whichever    *)
(* documents, never wait in a cycle: both take the document before the     *)
(* workspace.  Only a reindex or a workspace deletion can make PostgreSQL  *)
(* fail one of them.                                                       *)
NoCycleWithoutBulk == Cyclic(Short) = {}

(* A reindex or a workspace deletion that meets them ends, by its commit   *)
(* or by failing, and so do they (NobodyWaitsForever).                     *)
EveryRequestEnds == \A r \in Bulk : bulk[r].at # "idle" ~> bulk[r].at = "idle"

(* What NoCycleWithoutBulk rests on: who holds the workspace's lock has    *)
(* all the rows it needs.                                                  *)
OwnerIsDone ==
    \A p \in Short : lock = p =>
        \/ p \in Workers /\ run[p].at = "locked"
        \/ p \in Admins /\ del[p].at \in {"locked", "read"}

=============================================================================
