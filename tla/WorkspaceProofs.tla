-------------------------- MODULE WorkspaceProofs --------------------------
(***************************************************************************)
(* Proofs about WorkspaceProfile: no stored profile is ever missing from   *)
(* the vocabulary and a deletion leaves it exact, for any number of        *)
(* documents, topics, runs and deletions at once.  And about               *)
(* WorkspaceLocks: that still holds while the workspace is reindexed and   *)
(* deleted, rows have one holder, and stores and document deletions never  *)
(* wait for each other in a cycle.                                         *)
(***************************************************************************)
EXTENDS WorkspaceLocks, FiniteSetTheorems, TLAPS

-----------------------------------------------------------------------------
(* Counting. *)

(* Sets of documents can be counted, and a larger set counts for more. *)
LEMMA Counts ==
    ASSUME NEW A \in SUBSET Docs, NEW B \in SUBSET Docs, A \subseteq B
    PROVE  /\ Cardinality(A) \in Nat
           /\ Cardinality(B) \in Nat
           /\ Cardinality(A) <= Cardinality(B)
  <1>1. IsFiniteSet(A) /\ IsFiniteSet(B)
    BY FS_Subset, ProfileAssumption
  <1> QED
    BY <1>1, FS_CardinalityType, FS_Subset

(* One more document raises a count by at most one. *)
LEMMA CountsOneMore ==
    ASSUME NEW A \in SUBSET Docs, NEW B \in SUBSET Docs, NEW d \in Docs,
           A \subseteq B \cup {d}
    PROVE  Cardinality(A) <= Cardinality(B) + 1
  <1>1. IsFiniteSet(B)
    BY FS_Subset, ProfileAssumption
  <1>2. Cardinality(B \cup {d}) <= Cardinality(B) + 1
    <2>1. Cardinality(B) \in Nat
      BY Counts
    <2>2. Cardinality(B \cup {d}) = IF d \in B THEN Cardinality(B) ELSE Cardinality(B) + 1
      BY <1>1, FS_AddElement
    <2> QED
      BY <2>1, <2>2
  <1>3. /\ Cardinality(A) <= Cardinality(B \cup {d})
        /\ Cardinality(A) \in Nat /\ Cardinality(B \cup {d}) \in Nat
        /\ Cardinality(B) \in Nat
    BY Counts
  <1> QED
    BY <1>2, <1>3

Counted(s) == {d \in Docs : s[d] # NoProfile}
CountedWith(s, t) == {d \in Docs : s[d] # NoProfile /\ t \in s[d]}

(* Rebuilt, field by field. *)
LEMMA RebuiltFields ==
    ASSUME NEW s
    PROVE  /\ Rebuilt(s).count = Cardinality(Counted(s))
           /\ \A t \in Topics : Rebuilt(s).topics[t] = Cardinality(CountedWith(s, t))
           /\ Rebuilt(s) \in Vocabulary
  <1>1. Counted(s) \in SUBSET Docs /\ \A t \in Topics : CountedWith(s, t) \in SUBSET Docs
    BY DEF Counted, CountedWith
  <1>2. /\ Cardinality(Counted(s)) \in Nat
        /\ \A t \in Topics : Cardinality(CountedWith(s, t)) \in Nat
    BY <1>1, Counts
  <1> QED
    BY <1>2 DEF Rebuilt, Vocabulary, Counted, CountedWith

(* Merged, field by field. *)
LEMMA MergedFields ==
    ASSUME NEW v \in Vocabulary, NEW p \in SUBSET Topics
    PROVE  /\ Merged(v, p).count = v.count + 1
           /\ \A t \in Topics :
                Merged(v, p).topics[t] = v.topics[t] + (IF t \in p THEN 1 ELSE 0)
           /\ Merged(v, p) \in Vocabulary
  <1>1. v.count \in Nat /\ v.topics \in [Topics -> Nat]
    BY DEF Vocabulary
  <1> QED
    BY <1>1 DEF Vocabulary, Merged

(* A vocabulary that accounts for the stored profiles s still does when    *)
(* p is merged into it and stored for d, or when d has gone.               *)
LEMMA MergeCovers ==
    ASSUME NEW s \in [Docs -> Profile], NEW r \in [Docs -> Profile],
           NEW d \in Docs, NEW p \in SUBSET Topics, NEW v \in Vocabulary,
           r = s \/ r = [s EXCEPT ![d] = p],
           AtLeast(v, Rebuilt(s))
    PROVE  AtLeast(Merged(v, p), Rebuilt(r))
  <1>1. Merged(v, p).count >= Rebuilt(r).count
    <2>1. Counted(r) \subseteq Counted(s) \cup {d}
      BY DEF Counted
    <2>2. Cardinality(Counted(r)) <= Cardinality(Counted(s)) + 1
      BY <2>1, CountsOneMore, Counted(r) \in SUBSET Docs, Counted(s) \in SUBSET Docs
      DEF Counted
    <2>3. Cardinality(Counted(r)) \in Nat /\ Cardinality(Counted(s)) \in Nat
      BY Counts, Counted(r) \in SUBSET Docs, Counted(s) \in SUBSET Docs DEF Counted
    <2>4. v.count \in Nat /\ v.count >= Cardinality(Counted(s))
      BY RebuiltFields DEF AtLeast, Vocabulary
    <2> QED
      BY <2>2, <2>3, <2>4, RebuiltFields, MergedFields
  <1>2. ASSUME NEW t \in Topics
        PROVE  Merged(v, p).topics[t] >= Rebuilt(r).topics[t]
    <2>1. CountedWith(r, t) \in SUBSET Docs /\ CountedWith(s, t) \in SUBSET Docs
      BY DEF CountedWith
    <2>2. /\ Cardinality(CountedWith(r, t)) \in Nat
          /\ Cardinality(CountedWith(s, t)) \in Nat
      BY <2>1, Counts
    <2>3. v.topics[t] \in Nat /\ v.topics[t] >= Cardinality(CountedWith(s, t))
      BY RebuiltFields DEF AtLeast, Vocabulary
    <2>4. CASE t \in p
      <3>1. CountedWith(r, t) \subseteq CountedWith(s, t) \cup {d}
        BY DEF CountedWith
      <3>2. Cardinality(CountedWith(r, t)) <= Cardinality(CountedWith(s, t)) + 1
        BY <2>1, <3>1, CountsOneMore
      <3> QED
        BY <2>2, <2>3, <2>4, <3>2, RebuiltFields, MergedFields
    <2>5. CASE t \notin p
      <3>1. CountedWith(r, t) \subseteq CountedWith(s, t)
        BY <2>5 DEF CountedWith
      <3>2. Cardinality(CountedWith(r, t)) <= Cardinality(CountedWith(s, t))
        BY <2>1, <3>1, Counts
      <3> QED
        BY <2>2, <2>3, <2>5, <3>2, RebuiltFields, MergedFields
    <2> QED
      BY <2>4, <2>5
  <1> QED
    BY <1>1, <1>2 DEF AtLeast

(* A rebuilt vocabulary accounts for what it was rebuilt from. *)
LEMMA RebuiltCovers ==
    ASSUME NEW s
    PROVE  AtLeast(Rebuilt(s), Rebuilt(s))
  BY RebuiltFields DEF AtLeast, Vocabulary

-----------------------------------------------------------------------------
(* Types. *)

Runs == [at : {"idle", "described", "stored", "locked"}, doc : Docs \cup {NoDoc},
         prof : SUBSET Topics, ws : Vocabulary]
Deletions == [at : {"idle", "found", "removed", "locked", "read"},
              doc : Docs \cup {NoDoc}, rest : [Docs -> Profile]]

(* Nothing in hand is well typed. *)
LEMMA IdleTyped == Empty \in Vocabulary /\ IdleRun \in Runs /\ IdleDel \in Deletions
  BY DEF Empty, Vocabulary, IdleRun, Runs, IdleDel, Deletions, Profile

(* What a SELECT of profiles returns is well typed. *)
LEMMA StoredTyped ==
    ASSUME TypeOK, NEW D
    PROVE  Stored(D) \in [Docs -> Profile]
  BY DEF TypeOK, Stored, Profile

(* Every step keeps the rows and the transactions' memory well typed. *)
LEMMA NextTyped == TypeOK /\ [Next]_vars => TypeOK'
  <1> SUFFICES ASSUME TypeOK, [Next]_vars PROVE TypeOK'
    OBVIOUS
  <1> USE DEF TypeOK
  <1>1. ASSUME NEW d \in Docs, Create(d) PROVE TypeOK'
    BY <1>1 DEF Create
  <1>2. ASSUME NEW w \in Workers, NEW d \in Docs, NEW p \in SUBSET Topics,
               Describe(w, d, p)
        PROVE  TypeOK'
    <2>1. [run[w] EXCEPT !.at = "described", !.doc = d, !.prof = p] \in Runs
      BY DEF Runs
    <2>2. run' \in [Workers -> Runs]
      BY <1>2, <2>1 DEF Describe, Runs
    <2> QED
      BY <1>2, <2>2, ProfileAssumption DEF Describe, Runs
  <1>3. ASSUME NEW w \in Workers, StoreStep(w) PROVE TypeOK'
    <2>1. CASE StoreDoc(w)
      BY <2>1 DEF StoreDoc
    <2>2. CASE StoreLock(w)
      BY <2>2 DEF StoreLock
    <2>3. CASE StoreCommit(w)
      <3>1. ws' \in Vocabulary
        BY <2>3, MergedFields DEF StoreCommit
      <3>2. prof' \in [Docs -> Profile]
        BY <2>3 DEF StoreCommit, Profile
      <3>3. run' \in [Workers -> Runs] /\ lock' \in Workers \cup Admins \cup {Nobody}
        BY <2>3, IdleTyped DEF StoreCommit, Unlocked, Runs
      <3> QED
        BY <2>3, <3>1, <3>2, <3>3 DEF StoreCommit, Runs
    <2>4. CASE StoreAbort(w)
      <3>1. run' \in [Workers -> Runs] /\ lock' \in Workers \cup Admins \cup {Nobody}
        BY <2>4, IdleTyped DEF StoreAbort, Unlocked, Runs
      <3> QED
        BY <2>4, <3>1 DEF StoreAbort, Runs
    <2> QED
      BY <1>3, <2>1, <2>2, <2>3, <2>4 DEF StoreStep
  <1>4. ASSUME NEW a \in Admins, NEW d \in Docs, Find(a, d) PROVE TypeOK'
    BY <1>4 DEF Find
  <1>5. ASSUME NEW a \in Admins, DeleteStep(a) PROVE TypeOK'
    <2>1. CASE Remove(a)
      BY <2>1 DEF Remove
    <2>2. CASE DeleteLock(a)
      BY <2>2 DEF DeleteLock
    <2>3. CASE ReadRest(a)
      <3>1. Stored(Remaining(a)) \in [Docs -> Profile]
        BY StoredTyped
      <3> QED
        BY <2>3, <3>1 DEF ReadRest
    <2>4. CASE DeleteCommit(a)
      <3>1. ws' \in Vocabulary
        BY <2>4, RebuiltFields DEF DeleteCommit
      <3>2. del' \in [Admins -> Deletions] /\ lock' \in Workers \cup Admins \cup {Nobody}
        BY <2>4, IdleTyped DEF DeleteCommit, Unlocked, Deletions
      <3> QED
        BY <2>4, <3>1, <3>2 DEF DeleteCommit, Deletions
    <2>5. CASE DeleteAbort(a)
      <3>1. del' \in [Admins -> Deletions] /\ lock' \in Workers \cup Admins \cup {Nobody}
        BY <2>5, IdleTyped DEF DeleteAbort, Unlocked, Deletions
      <3> QED
        BY <2>5, <3>1 DEF DeleteAbort, Deletions
    <2> QED
      BY <1>5, <2>1, <2>2, <2>3, <2>4, <2>5 DEF DeleteStep
  <1>6. CASE UNCHANGED vars
    BY <1>6 DEF vars
  <1> QED
    BY <1>1, <1>2, <1>3, <1>4, <1>5, <1>6 DEF Next

(* Initially everything is well typed. *)
LEMMA InitTyped == Init => TypeOK
  BY IdleTyped, ProfileAssumption DEF Init, TypeOK, Runs, Deletions, Profile

(* The rows and the transactions' memory always have their types. *)
THEOREM TypeCorrect == Spec => []TypeOK
  BY InitTyped, NextTyped, PTL DEF Spec

-----------------------------------------------------------------------------
(* The locks, and the vocabulary. *)

(* A SELECT of profiles depends on the rows it returns alone. *)
LEMMA SameRows ==
    ASSUME NEW D, NEW E, TypeOK,
           \A d \in Docs : (d \in D /\ prof[d] # NoProfile) <=> (d \in E /\ prof[d] # NoProfile)
    PROVE  Stored(D) = Stored(E)
  BY DEF Stored

Inv == TypeOK /\ LockInv /\ NeverUnder

(* Creating a document changes no profile. *)
LEMMA CreateKeeps ==
    ASSUME Inv, NEW d \in Docs, Create(d)
    PROVE  LockInv' /\ NeverUnder'
  <1> USE DEF Inv, Create
  <1>1. Live' = Live \cup {d}
    BY DEF Live, TypeOK
  <1>2. prof[d] = NoProfile
    BY DEF LockInv, Unborn
  <1>3. \A D : Stored(D)' = Stored(D)
    BY DEF Stored
  <1>4. Stored(Live)' = Stored(Live)
    BY <1>1, <1>2, SameRows DEF Stored
  <1>5. ASSUME NEW a \in Admins, del[a].at = "read"
        PROVE  Stored(Live \ {del[a].doc})' = Stored(Live \ {del[a].doc})
    BY <1>1, <1>2, <1>5 DEF Stored
  <1>6. NeverUnder'
    BY <1>4 DEF NeverUnder, Rebuilt, AtLeast
  <1>7. HolderWrites' /\ InHand'
    BY DEF LockInv, HolderWrites, InHand
  <1>8. ReadIsFresh'
    BY <1>5 DEF LockInv, ReadIsFresh
  <1>9. Unborn'
    BY DEF LockInv, Unborn, TypeOK
  <1> QED
    BY <1>6, <1>7, <1>8, <1>9 DEF LockInv

(* A step that changes no row keeps what is known of the rows. *)
LEMMA RowsKept ==
    ASSUME Inv, UNCHANGED <<docs, prof, ws>>
    PROVE  /\ NeverUnder'
           /\ Unborn'
           /\ \A D : Stored(D)' = Stored(D)
           /\ Live' = Live
  BY DEF Inv, LockInv, NeverUnder, Unborn, Stored, Live, Rebuilt, AtLeast

(* The steps of store_document_profile. *)
LEMMA StoreKeeps ==
    ASSUME Inv, NEW w \in Workers,
           \/ \E d \in Docs, p \in SUBSET Topics : Describe(w, d, p)
           \/ StoreStep(w)
    PROVE  LockInv' /\ NeverUnder'
  <1> USE DEF Inv
  <1>t. /\ run \in [Workers -> Runs] /\ del \in [Admins -> Deletions]
        /\ ws \in Vocabulary /\ Workers \cap Admins = {}
    BY ProfileAssumption DEF TypeOK, Runs, Deletions
  <1>1. ASSUME NEW d \in Docs, NEW p \in SUBSET Topics, Describe(w, d, p)
        PROVE  LockInv' /\ NeverUnder'
    <2>1. /\ run'[w].at = "described" /\ run'[w].doc = d
          /\ \A v \in Workers \ {w} : run'[v] = run[v]
      BY <1>t, <1>1 DEF Describe, Runs
    <2> QED
      BY <1>1, <2>1, RowsKept DEF Describe, LockInv, HolderWrites, ReadIsFresh, InHand
  <1>2. CASE StoreDoc(w)
    <2>1. /\ run'[w].at = "stored" /\ run'[w].doc = run[w].doc
          /\ run[w].at # "idle"
          /\ \A v \in Workers \ {w} : run'[v] = run[v]
      BY <1>t, <1>2 DEF StoreDoc, Runs
    <2> QED
      BY <1>2, <2>1, RowsKept DEF StoreDoc, LockInv, HolderWrites, ReadIsFresh, InHand
  <1>3. CASE StoreLock(w)
    <2>1. /\ run'[w].at = "locked" /\ run'[w].doc = run[w].doc /\ run'[w].ws = ws
          /\ run[w].at # "idle"
          /\ \A v \in Workers \ {w} : run'[v] = run[v]
      BY <1>t, <1>3 DEF StoreLock, Runs
    <2>2. /\ lock = Nobody /\ lock' = w
          /\ UNCHANGED <<docs, prof, ws, del>>
      BY <1>3 DEF StoreLock, LockFree
    <2>3. /\ \A v \in Workers : run[v].at # "locked"
          /\ \A a \in Admins : del[a].at \notin {"locked", "read"}
      BY <2>2, ProfileAssumption DEF LockInv, HolderWrites
    <2> QED
      BY <2>1, <2>2, <2>3, RowsKept DEF LockInv, HolderWrites, ReadIsFresh, InHand
  <1>4. CASE StoreCommit(w)
    <2> DEFINE d == run[w].doc
               p == run[w].prof
    <2>1. /\ lock = w /\ run[w].ws = ws /\ d \in Docs /\ p \in SUBSET Topics
          /\ ws' = Merged(ws, p)
      BY <1>t, <1>4 DEF StoreCommit, LockInv, HolderWrites, ReadIsFresh, InHand, Runs
    <2>2. /\ run'[w].at = "idle" /\ \A v \in Workers \ {w} : run'[v] = run[v]
          /\ UNCHANGED <<docs, del>>
      BY <1>t, <1>4 DEF StoreCommit, IdleRun
    <2>3. /\ \A v \in Workers \ {w} : run[v].at # "locked"
          /\ \A a \in Admins : del[a].at \notin {"locked", "read"}
      BY <1>t, <2>1 DEF LockInv, HolderWrites
    <2>4. HolderWrites' /\ ReadIsFresh' /\ InHand'
      BY <2>2, <2>3 DEF LockInv, HolderWrites, ReadIsFresh, InHand
    <2>5. Unborn'
      BY <1>4, <2>1 DEF StoreCommit, LockInv, Unborn, TypeOK
    <2>6. Stored(Live)' = Stored(Live) \/ Stored(Live)' = [Stored(Live) EXCEPT ![d] = p]
      BY <1>4, <2>1 DEF StoreCommit, Stored, Live, TypeOK
    <2>7. Stored(Live) \in [Docs -> Profile] /\ Stored(Live)' \in [Docs -> Profile]
      BY <2>1, <2>6, StoredTyped DEF Profile
    <2>8. AtLeast(Merged(ws, p), Rebuilt(Stored(Live)'))
      BY <1>t, <2>1, <2>6, <2>7, MergeCovers DEF NeverUnder
    <2>9. NeverUnder'
      BY <2>1, <2>8 DEF NeverUnder, AtLeast, Rebuilt
    <2> QED
      BY <2>4, <2>5, <2>9 DEF LockInv
  <1>5. CASE StoreAbort(w)
    <2>1. run'[w].at = "idle" /\ \A v \in Workers \ {w} : run'[v] = run[v]
      BY <1>t, <1>5 DEF StoreAbort, IdleRun
    <2>2. UNCHANGED <<docs, prof, ws, del>> /\ lock' = IF lock = w THEN Nobody ELSE lock
      BY <1>5 DEF StoreAbort, Unlocked
    <2> QED
      BY <1>t, <2>1, <2>2, RowsKept DEF LockInv, HolderWrites, ReadIsFresh, InHand
  <1> QED
    BY <1>1, <1>2, <1>3, <1>4, <1>5 DEF StoreStep

(* The steps of delete_document. *)
LEMMA DeleteKeeps ==
    ASSUME Inv, NEW a \in Admins, (\E d \in Docs : Find(a, d)) \/ DeleteStep(a)
    PROVE  LockInv' /\ NeverUnder'
  <1> USE DEF Inv
  <1>t. /\ run \in [Workers -> Runs] /\ del \in [Admins -> Deletions]
        /\ Workers \cap Admins = {}
    BY ProfileAssumption DEF TypeOK, Runs, Deletions
  <1>1. ASSUME NEW d \in Docs, Find(a, d)
        PROVE  LockInv' /\ NeverUnder'
    <2>1. /\ del'[a].at = "found" /\ del'[a].doc = d
          /\ \A b \in Admins \ {a} : del'[b] = del[b]
      BY <1>t, <1>1 DEF Find, Deletions
    <2> QED
      BY <1>1, <2>1, RowsKept DEF Find, LockInv, HolderWrites, ReadIsFresh, InHand
  <1>2. CASE Remove(a)
    <2>1. /\ del'[a].at = "removed" /\ del'[a].doc = del[a].doc
          /\ del[a].at # "idle"
          /\ \A b \in Admins \ {a} : del'[b] = del[b]
      BY <1>t, <1>2 DEF Remove, Deletions
    <2> QED
      BY <1>2, <2>1, RowsKept DEF Remove, LockInv, HolderWrites, ReadIsFresh, InHand
  <1>3. CASE DeleteLock(a)
    <2>1. /\ del'[a].at = "locked" /\ del'[a].doc = del[a].doc
          /\ del[a].at # "idle"
          /\ \A b \in Admins \ {a} : del'[b] = del[b]
      BY <1>t, <1>3 DEF DeleteLock, Deletions
    <2>2. /\ lock = Nobody /\ lock' = a
          /\ UNCHANGED <<docs, prof, ws, run>>
      BY <1>3 DEF DeleteLock, LockFree
    <2>3. /\ \A w \in Workers : run[w].at # "locked"
          /\ \A b \in Admins : del[b].at \notin {"locked", "read"}
      BY <2>2, ProfileAssumption DEF LockInv, HolderWrites
    <2> QED
      BY <2>1, <2>2, <2>3, RowsKept DEF LockInv, HolderWrites, ReadIsFresh, InHand
  <1>4. CASE ReadRest(a)
    <2>1. /\ del'[a].at = "read" /\ del'[a].doc = del[a].doc
          /\ del'[a].rest = Stored(Live \ {del[a].doc})
          /\ del[a].at = "locked"
          /\ \A b \in Admins \ {a} : del'[b] = del[b]
      BY <1>t, <1>4 DEF ReadRest, Remaining, Deletions
    <2>2. UNCHANGED <<docs, prof, ws, run, lock>>
      BY <1>4 DEF ReadRest
    <2> QED
      BY <2>1, <2>2, RowsKept DEF LockInv, HolderWrites, ReadIsFresh, InHand
  <1>5. CASE DeleteCommit(a)
    <2> DEFINE d == del[a].doc
    <2>1. /\ lock = a /\ d \in Docs /\ del[a].rest = Stored(Live \ {d})
          /\ ws' = Rebuilt(Stored(Live \ {d}))
      BY <1>5 DEF DeleteCommit, LockInv, HolderWrites, ReadIsFresh, InHand
    <2>2. /\ del'[a].at = "idle" /\ \A b \in Admins \ {a} : del'[b] = del[b]
          /\ UNCHANGED <<prof, run>>
      BY <1>t, <1>5 DEF DeleteCommit, IdleDel
    <2>3. /\ \A w \in Workers : run[w].at # "locked"
          /\ \A b \in Admins \ {a} : del[b].at \notin {"locked", "read"}
      BY <1>t, <2>1 DEF LockInv, HolderWrites
    <2>4. HolderWrites' /\ ReadIsFresh' /\ InHand'
      BY <2>2, <2>3 DEF LockInv, HolderWrites, ReadIsFresh, InHand
    <2>5. Unborn'
      BY <1>5, <2>1 DEF DeleteCommit, LockInv, Unborn, TypeOK
    <2>6. Stored(Live)' = Stored(Live \ {d})
      BY <1>5, <2>1 DEF DeleteCommit, Stored, Live, TypeOK
    <2>7. AtLeast(Rebuilt(Stored(Live \ {d})), Rebuilt(Stored(Live \ {d})))
      BY RebuiltCovers
    <2>8. NeverUnder'
      BY <2>1, <2>6, <2>7 DEF NeverUnder, AtLeast, Rebuilt
    <2> QED
      BY <2>4, <2>5, <2>8 DEF LockInv
  <1>6. CASE DeleteAbort(a)
    <2>1. del'[a].at = "idle" /\ \A b \in Admins \ {a} : del'[b] = del[b]
      BY <1>t, <1>6 DEF DeleteAbort, IdleDel
    <2>2. UNCHANGED <<docs, prof, ws, run>> /\ lock' = IF lock = a THEN Nobody ELSE lock
      BY <1>6 DEF DeleteAbort, Unlocked
    <2> QED
      BY <1>t, <2>1, <2>2, RowsKept DEF LockInv, HolderWrites, ReadIsFresh, InHand
  <1> QED
    BY <1>1, <1>2, <1>3, <1>4, <1>5, <1>6 DEF DeleteStep

-----------------------------------------------------------------------------
(* The theorems. *)

(* The invariant holds at first: no document, no profile, nobody writing. *)
LEMMA InitInv == Init => Inv
  <1> SUFFICES ASSUME Init PROVE Inv
    OBVIOUS
  <1>1. TypeOK
    BY InitTyped
  <1>2. Stored(Live) = [d \in Docs |-> NoProfile]
    BY DEF Init, Stored, Live
  <1>3. Counted(Stored(Live)) = {} /\ \A t \in Topics : CountedWith(Stored(Live), t) = {}
    BY <1>2 DEF Counted, CountedWith
  <1>4. NeverUnder
    <2>1. /\ Rebuilt(Stored(Live)).count = 0
          /\ \A t \in Topics : Rebuilt(Stored(Live)).topics[t] = 0
      BY <1>3, RebuiltFields, FS_EmptySet
    <2>2. ws.count = 0 /\ \A t \in Topics : ws.topics[t] = 0
      BY DEF Init, Empty
    <2> QED
      BY <2>1, <2>2 DEF NeverUnder, AtLeast
  <1>5. LockInv
    BY DEF Init, IdleRun, IdleDel, LockInv, HolderWrites, ReadIsFresh, Unborn, InHand
  <1> QED
    BY <1>1, <1>4, <1>5 DEF Inv

(* and every step keeps it. *)
LEMMA NextInv == Inv /\ [Next]_vars => Inv'
  <1> SUFFICES ASSUME Inv, [Next]_vars PROVE Inv'
    OBVIOUS
  <1>1. TypeOK'
    BY NextTyped DEF Inv
  <1>2. LockInv' /\ NeverUnder'
    <2>1. CASE UNCHANGED vars
      BY <2>1, RowsKept DEF vars, Inv, LockInv, HolderWrites, ReadIsFresh, InHand
    <2> QED
      BY <2>1, CreateKeeps, StoreKeeps, DeleteKeeps DEF Next
  <1> QED
    BY <1>1, <1>2 DEF Inv

(* so it always holds. *)
LEMMA SpecInv == Spec => []Inv
  BY InitInv, NextInv, PTL DEF Spec

(* Whatever stores and deletions overlap, the vocabulary accounts for      *)
(* every stored profile of a document that exists.                         *)
THEOREM NothingIsLost == Spec => []NeverUnder
  <1>1. Inv => NeverUnder
    BY DEF Inv
  <1> QED
    BY <1>1, SpecInv, PTL

(* What a transaction read under the workspace's lock is still so when it  *)
(* writes.                                                                 *)
THEOREM ReadsHold == Spec => []LockInv
  <1>1. Inv => LockInv
    BY DEF Inv
  <1> QED
    BY <1>1, SpecInv, PTL

(* The vocabulary a deletion commits is exactly that of the documents that *)
(* remain.                                                                 *)
THEOREM ExactAfterDeletion == Spec => DeletionIsExact
  <1>1. Inv /\ [Next]_vars
          => [\A a \in Admins : DeleteCommit(a) => (ws = Rebuilt(Stored(Live)))']_vars
    <2> SUFFICES ASSUME Inv, NEW a \in Admins, DeleteCommit(a)
                 PROVE  (ws = Rebuilt(Stored(Live)))'
      OBVIOUS
    <2>1. del[a].doc \in Docs /\ ws' = Rebuilt(Stored(Live \ {del[a].doc}))
      BY DEF DeleteCommit, Inv, LockInv, ReadIsFresh, InHand
    <2>2. Stored(Live)' = Stored(Live \ {del[a].doc})
      BY <2>1 DEF DeleteCommit, Stored, Live, Inv, TypeOK
    <2> QED
      BY <2>1, <2>2 DEF Rebuilt
  <1> QED
    BY <1>1, SpecInv, PTL DEF Spec, DeletionIsExact

-----------------------------------------------------------------------------
(* Reindexes and workspace deletions. *)

(* Reindex and workspace deletion only add guards to the steps of          *)
(* WorkspaceProfile, and steps that leave its variables alone.             *)
LEMMA StepIsStep == [LNext]_lvars => [Next]_vars
  <1> SUFFICES ASSUME [LNext]_lvars PROVE [Next]_vars
    OBVIOUS
  <1>1. CASE UNCHANGED lvars
    BY <1>1 DEF lvars, vars
  <1>2. ASSUME NEW d \in Docs, LCreate(d) PROVE Next
    BY <1>2 DEF LCreate, Next
  <1>3. ASSUME NEW w \in Workers, NEW d \in Docs, NEW p \in SUBSET Topics, LDescribe(w, d, p)
        PROVE  Next
    BY <1>3 DEF LDescribe, Next
  <1>4. ASSUME NEW a \in Admins, NEW d \in Docs, LFind(a, d) PROVE Next
    BY <1>4 DEF LFind, Next
  <1>5. ASSUME NEW r \in Reindexers, List(r) PROVE UNCHANGED vars
    BY <1>5 DEF List
  <1>6. ASSUME NEW x \in Removers, Count(x) PROVE UNCHANGED vars
    BY <1>6 DEF Count
  <1>7. ASSUME NEW p \in Procs, Abort(p) PROVE [Next]_vars
    BY <1>7 DEF Abort, Next, StoreStep, DeleteStep
  <1>8. ASSUME NEW p \in Procs, LStep(p) PROVE [Next]_vars
    <2>1. CASE p \in Workers /\ (LStoreDoc(p) \/ LStoreLock(p) \/ LStoreCommit(p))
      BY <2>1 DEF LStoreDoc, LStoreLock, LStoreCommit, Next, StoreStep
    <2>2. CASE p \in Admins
                 /\ (LRemove(p) \/ LDeleteLock(p) \/ LReadRest(p) \/ LDeleteCommit(p))
      BY <2>2 DEF LRemove, LDeleteLock, LReadRest, LDeleteCommit, Next, DeleteStep
    <2>3. CASE p \in Reindexers /\ (Touch(p) \/ Share(p) \/ Requeued(p))
      BY <2>3 DEF Touch, Share, Requeued
    <2>4. CASE p \in Removers /\ (Take(p) \/ Cascade(p) \/ Deleted(p))
      BY <2>4 DEF Take, Cascade, Deleted
    <2>5. CASE Doomed(p) /\ Abort(p)
      BY <2>5, <1>7
    <2> QED
      BY <1>8, <2>1, <2>2, <2>3, <2>4, <2>5 DEF LStep
  <1> QED
    BY <1>1, <1>2, <1>3, <1>4, <1>5, <1>6, <1>7, <1>8 DEF LNext

(* so the invariant proved there holds here. *)
LEMMA LocksKeepInv == LSpec => []Inv
  <1>1. LInit => Inv
    BY InitInv DEF LInit
  <1> QED
    BY <1>1, StepIsStep, NextInv, PTL DEF LSpec

(* No stored profile is lost while the workspace is reindexed or deleted.  *)
THEOREM NothingIsLostToLocks == LSpec => []NeverUnder
  <1>1. Inv => NeverUnder
    BY DEF Inv
  <1> QED
    BY <1>1, LocksKeepInv, PTL

-----------------------------------------------------------------------------
(* The order of locks. *)

(* The holder of the workspace's lock is at the place that writes it. *)
LEMMA OwnerKept == Inv /\ OwnerIsDone /\ [Next]_vars => OwnerIsDone'
  <1> SUFFICES ASSUME Inv, OwnerIsDone, [Next]_vars PROVE OwnerIsDone'
    OBVIOUS
  <1> USE DEF OwnerIsDone
  <1>t. /\ run \in [Workers -> Runs] /\ del \in [Admins -> Deletions]
        /\ Workers \cap Admins = {} /\ Nobody \notin Short
    BY ProfileAssumption DEF Inv, TypeOK, Runs, Deletions, Short
  <1>1. CASE UNCHANGED <<run, del, lock>>
    BY <1>1
  <1>2. ASSUME NEW w \in Workers,
               \/ \E d \in Docs, p \in SUBSET Topics : Describe(w, d, p)
               \/ StoreStep(w)
        PROVE  OwnerIsDone'
    BY <1>2, <1>t DEF Describe, StoreStep, StoreDoc, StoreLock, StoreCommit, StoreAbort,
                 Unlocked, LockFree, IdleRun, Short, Runs
  <1>3. ASSUME NEW a \in Admins, (\E d \in Docs : Find(a, d)) \/ DeleteStep(a)
        PROVE  OwnerIsDone'
    BY <1>3, <1>t DEF Find, DeleteStep, Remove, DeleteLock, ReadRest, DeleteCommit,
                 DeleteAbort, Unlocked, LockFree, IdleDel, Short, Deletions
  <1> QED
    BY <1>1, <1>2, <1>3 DEF Next, vars, Create

(* Who waits for a document holds nothing, and who waits for the workspace *)
(* waits for one that waits for nobody: no set of waits among them closes. *)
LEMMA NoCycle == OwnerIsDone => NoCycleWithoutBulk
  <1> SUFFICES ASSUME OwnerIsDone, NEW p \in Cyclic(Short) PROVE FALSE
    BY DEF NoCycleWithoutBulk
  <1> DEFINE after == [q \in Short |-> Blockers(q) \cap Short]
             last == {q \in Short : lock = q}
             holding == {q \in Short : \E d \in Live : HoldsRow(q, d)} \cup last
  <1>1. /\ p \in Short
        /\ \A S \in SUBSET Short :
             after[p] \subseteq S /\ (\A q \in S : after[q] \subseteq S) => p \in S
    BY DEF Cyclic
  <1>d. /\ Short \cap Bulk = {}
        /\ Workers \cap Admins = {} /\ Reindexers \cap Short = {} /\ Removers \cap Short = {}
    BY LocksAssumption, ProfileAssumption DEF Short, Bulk
  <1>2. \A q \in last : after[q] = {}
    BY <1>d DEF OwnerIsDone, Blockers, Waits, WantsRow, WantsAlone, WantsShare, Short, Bulk
  <1>3. \A q \in holding : after[q] \subseteq last
    BY <1>d DEF OwnerIsDone, Blockers, Waits, WantsRow, WantsAlone, WantsShare, Owns, Shares,
             HoldsRow, Short, Bulk
  <1>4. \A q \in Short : after[q] \subseteq holding
    BY <1>d DEF Blockers, Waits, Owns, Shares, WantsShare, Short, Bulk
  <1>5. p \in holding
    BY <1>1, <1>3, <1>4
  <1>6. p \in last
    BY <1>1, <1>2, <1>3, <1>5
  <1> QED
    BY <1>1, <1>2, <1>6

(* Profile stores and document deletions, however many and of whichever    *)
(* documents, never wait in a cycle without a reindex or a deletion of the *)
(* workspace on it.                                                        *)
THEOREM LockOrder == LSpec => []NoCycleWithoutBulk
  <1>1. LInit => OwnerIsDone
    BY ProfileAssumption DEF LInit, Init, OwnerIsDone, Short
  <1>2. LSpec => []OwnerIsDone
    BY <1>1, StepIsStep, OwnerKept, LocksKeepInv, PTL DEF LSpec
  <1> QED
    BY <1>2, NoCycle, PTL


-----------------------------------------------------------------------------
(* Row locks. *)

(* A document is held by one transaction at most. *)
OneRowHolder ==
    \A d \in Live : \A p, q \in Procs : HoldsRow(p, d) /\ HoldsRow(q, d) => p = q

BulkTyped == bulk \in [Bulk -> BulkRow] /\ gone \in BOOLEAN

UpdatedAreThere == \A r \in Bulk : bulk[r].done \subseteq Live

(* A transaction takes documents that were created: a new one is in nobody's *)
(* hand.                                                                     *)
HandsMade ==
    /\ \A w \in Workers : run[w].at # "idle" => docs[run[w].doc] # "none"
    /\ \A a \in Admins : del[a].at # "idle" => docs[del[a].doc] # "none"

RowsInv == BulkTyped /\ OneRowHolder /\ UpdatedAreThere /\ HandsMade

(* The four kinds of transaction are of different processes. *)
LEMMA Kinds ==
    /\ Workers \cap Admins = {} /\ Workers \cap Bulk = {} /\ Admins \cap Bulk = {}
    /\ Reindexers \cap Removers = {}
    /\ Procs = Workers \cup Admins \cup Bulk /\ Bulk = Reindexers \cup Removers
  BY LocksAssumption, ProfileAssumption DEF Procs, Short, Bulk

(* The documents a SELECT goes through are a sequence of documents. *)
LEMMA OrdersTyped == Orders(Live) \subseteq Seq(Docs)
  <1>1. Cardinality(Live) \in Nat
    BY Counts, Live \in SUBSET Docs DEF Live
  <1>2. ASSUME NEW s \in [1..Cardinality(Live) -> Live] PROVE s \in Seq(Docs)
    <2>1. s \in [1..Cardinality(Live) -> Docs]
      BY DEF Live
    <2> QED
      BY <1>1, <2>1
  <1> QED
    BY <1>2 DEF Orders

(* A step in which only x gets a row, that nobody else held, leaves each   *)
(* with one holder.                                                        *)
LEMMA OneGets ==
    ASSUME OneRowHolder, NEW x \in Procs, Live' \subseteq Live,
           \A p \in Procs \ {x}, d \in Live : HoldsRow(p, d)' => HoldsRow(p, d),
           \A d \in Live : HoldsRow(x, d)' =>
              HoldsRow(x, d) \/ \A q \in Procs \ {x} : ~HoldsRow(q, d)
    PROVE  OneRowHolder'
  <1> SUFFICES ASSUME NEW d \in Live, NEW p \in Procs, NEW q \in Procs,
                      HoldsRow(p, d)', HoldsRow(q, d)', d \in Live'
               PROVE  p = q
    BY DEF OneRowHolder, Procs, Short, Bulk
  <1>1. CASE p # x /\ q # x
    BY <1>1 DEF OneRowHolder
  <1>2. CASE p = x /\ q # x
    <2>1. HoldsRow(q, d)
      BY <1>2
    <2>2. HoldsRow(p, d)
      BY <1>2, <2>1
    <2> QED
      BY <2>1, <2>2 DEF OneRowHolder
  <1>3. CASE q = x /\ p # x
    <2>1. HoldsRow(p, d)
      BY <1>3
    <2>2. HoldsRow(q, d)
      BY <1>3, <2>1
    <2> QED
      BY <2>1, <2>2 DEF OneRowHolder
  <1> QED
    BY <1>1, <1>2, <1>3

(* What a statement that waits for nobody may take. *)
LEMMA NobodyElse ==
    ASSUME NEW p \in Procs, NEW d \in Live, WantsRow(p, d), NEW q \in Procs \ {p},
           q \notin Blockers(p)
    PROVE  ~HoldsRow(q, d)
  BY DEF Blockers, Waits

(* A document that is created is in nobody's hand. *)
LEMMA CreateRows ==
    ASSUME Inv, RowsInv, NEW d \in Docs, LCreate(d)
    PROVE  RowsInv'
  <1> USE DEF RowsInv
  <1>1. /\ docs[d] = "none" /\ docs' = [docs EXCEPT ![d] = "live"]
        /\ UNCHANGED <<run, del, bulk, gone>>
    BY DEF LCreate, Create, LocksUnchanged
  <1>2. docs \in [Docs -> {"none", "live", "gone"}]
    BY DEF Inv, TypeOK
  <1>3. Live' = Live \cup {d} /\ d \notin Live
    BY <1>1, <1>2 DEF Live
  <1>4. BulkTyped'
    BY <1>1 DEF BulkTyped
  <1>5. UpdatedAreThere'
    BY <1>1, <1>3 DEF UpdatedAreThere
  <1>6. HandsMade'
    BY <1>1, <1>2 DEF HandsMade
  <1>7. \A p \in Procs : ~HoldsRow(p, d)
    BY <1>1, <1>3, Kinds DEF HoldsRow, HandsMade, UpdatedAreThere
  <1>8. \A p \in Procs, e \in Docs : HoldsRow(p, e)' <=> HoldsRow(p, e)
    BY <1>1 DEF HoldsRow
  <1>9. OneRowHolder'
    <2> SUFFICES ASSUME NEW e \in Live', NEW p \in Procs, NEW q \in Procs,
                        HoldsRow(p, e)', HoldsRow(q, e)'
                 PROVE  p = q
      BY DEF OneRowHolder, Procs, Short, Bulk
    <2>1. HoldsRow(p, e) /\ HoldsRow(q, e)
      BY <1>3, <1>8 DEF Live
    <2> QED
      BY <2>1, <1>3, <1>7 DEF OneRowHolder
  <1> QED
    BY <1>4, <1>5, <1>6, <1>9

(* What store_document_profile does to the rows: it takes one, keeps it to *)
(* its end.                                                                *)
LEMMA StoreRows ==
    ASSUME Inv, RowsInv, NEW w \in Workers,
           \/ \E d \in Docs, p \in SUBSET Topics : LDescribe(w, d, p)
           \/ LStoreDoc(w) \/ LStoreLock(w) \/ LStoreCommit(w)
           \/ StoreAbort(w) /\ LocksUnchanged
    PROVE  RowsInv'
  <1> USE DEF RowsInv
  <1>t. run \in [Workers -> Runs]
    BY DEF Inv, TypeOK, Runs
  <1>1. UNCHANGED <<docs, del, bulk, gone>>
    BY DEF LDescribe, LStoreDoc, LStoreLock, LStoreCommit, Describe, StoreDoc, StoreLock,
           StoreCommit, StoreAbort, LocksUnchanged
  <1>2. /\ \A v \in Workers \ {w} : run'[v] = run[v]
        /\ \/ run'[w].at = "described" /\ docs[run'[w].doc] = "live"
           \/ /\ LStoreDoc(w) /\ run[w].at = "described" /\ run'[w].at = "stored"
              /\ run'[w].doc = run[w].doc
           \/ /\ run[w].at = "stored" /\ run'[w].at = "locked"
              /\ run'[w].doc = run[w].doc
           \/ run'[w].at = "idle"
    <2>1. ASSUME NEW d \in Docs, NEW p \in SUBSET Topics, LDescribe(w, d, p)
          PROVE  /\ \A v \in Workers \ {w} : run'[v] = run[v]
                 /\ run'[w].at = "described" /\ docs[run'[w].doc] = "live"
      BY <1>t, <2>1 DEF LDescribe, Describe, Runs
    <2>2. CASE LStoreDoc(w)
      BY <1>t, <2>2 DEF LStoreDoc, StoreDoc, Runs
    <2>3. CASE LStoreLock(w)
      BY <1>t, <2>3 DEF LStoreLock, StoreLock, Runs
    <2>4. CASE LStoreCommit(w) \/ StoreAbort(w)
      BY <1>t, <2>4 DEF LStoreCommit, StoreCommit, StoreAbort, IdleRun
    <2> QED
      BY <2>1, <2>2, <2>3, <2>4
  <1>3. BulkTyped' /\ UpdatedAreThere' /\ Live' = Live
    BY <1>1 DEF BulkTyped, UpdatedAreThere, Live
  <1>4. HandsMade'
    BY <1>1, <1>2 DEF HandsMade
  <1>5. \A p \in Procs \ {w}, d \in Live : HoldsRow(p, d)' => HoldsRow(p, d)
    BY <1>1, <1>2 DEF HoldsRow
  <1>6. ASSUME NEW d \in Live, HoldsRow(w, d)', ~HoldsRow(w, d), NEW q \in Procs \ {w}
        PROVE  ~HoldsRow(q, d)
    <2>1. run'[w].at \in {"stored", "locked"} /\ run'[w].doc = d
      BY <1>6, Kinds DEF HoldsRow
    <2>2. run[w].at \notin {"stored", "locked"} \/ run[w].doc # d
      BY <1>6 DEF HoldsRow
    <2>3. LStoreDoc(w) /\ run[w].doc = d
      BY <1>2, <2>1, <2>2
    <2>5. RowFree(d) /\ WantsRow(w, d) /\ Free(w)
      BY <2>3 DEF LStoreDoc, StoreDoc, WantsRow
    <2>6. CASE q \in Bulk
      <3>1. q \notin Blockers(w)
        BY <2>5, <2>6 DEF Free
      <3> QED
        BY <2>5, <3>1, NobodyElse, Kinds
    <2>7. CASE q \in Workers \cup Admins
      BY <2>5, <2>7, Kinds DEF RowFree, HoldsRow
    <2> QED
      BY <2>6, <2>7, Kinds
  <1>7. OneRowHolder'
    <2>1. w \in Procs
      BY Kinds
    <2> QED
      BY <2>1, <1>3, <1>5, <1>6, OneGets
  <1> QED
    BY <1>3, <1>4, <1>7

(* What delete_document does: the same, and the row it deletes is its own. *)
LEMMA DeleteRows ==
    ASSUME Inv, RowsInv, NEW a \in Admins,
           \/ \E d \in Docs : LFind(a, d)
           \/ LRemove(a) \/ LDeleteLock(a) \/ LReadRest(a) \/ LDeleteCommit(a)
           \/ DeleteAbort(a) /\ LocksUnchanged
    PROVE  RowsInv'
  <1> USE DEF RowsInv
  <1>t. /\ del \in [Admins -> Deletions] /\ docs \in [Docs -> {"none", "live", "gone"}]
        /\ InHand
    BY DEF Inv, TypeOK, Deletions, LockInv
  <1>1. UNCHANGED <<run, bulk, gone>>
    BY DEF LFind, LRemove, LDeleteLock, LReadRest, LDeleteCommit, Find, Remove, DeleteLock,
           ReadRest, DeleteCommit, DeleteAbort, LocksUnchanged
  <1>2. /\ \A b \in Admins \ {a} : del'[b] = del[b]
        /\ \/ del'[a].at = "found" /\ docs[del'[a].doc] = "live"
           \/ /\ LRemove(a) /\ del[a].at = "found" /\ del'[a].at = "removed"
              /\ del'[a].doc = del[a].doc
           \/ /\ del[a].at \in {"removed", "locked"} /\ del'[a].at \in {"locked", "read"}
              /\ del'[a].doc = del[a].doc
           \/ del'[a].at = "idle"
    <2>1. ASSUME NEW d \in Docs, LFind(a, d)
          PROVE  /\ \A b \in Admins \ {a} : del'[b] = del[b]
                 /\ del'[a].at = "found" /\ docs[del'[a].doc] = "live"
      BY <1>t, <2>1 DEF LFind, Find, Deletions
    <2>2. CASE LRemove(a)
      BY <1>t, <2>2 DEF LRemove, Remove, Deletions
    <2>3. CASE LDeleteLock(a) \/ LReadRest(a)
      BY <1>t, <2>3 DEF LDeleteLock, DeleteLock, LReadRest, ReadRest, Deletions
    <2>4. CASE LDeleteCommit(a) \/ DeleteAbort(a)
      BY <1>t, <2>4 DEF LDeleteCommit, DeleteCommit, DeleteAbort, IdleDel
    <2> QED
      BY <2>1, <2>2, <2>3, <2>4
  <1>3. \/ docs' = docs
        \/ LDeleteCommit(a) /\ del[a].at = "read" /\ del[a].doc \in Docs
             /\ docs' = [docs EXCEPT ![del[a].doc] = "gone"]
    BY <1>t DEF LFind, LRemove, LDeleteLock, LReadRest, LDeleteCommit, Find, Remove, DeleteLock,
           ReadRest, DeleteCommit, DeleteAbort, InHand
  <1>4. Live' \subseteq Live
    BY <1>t, <1>3 DEF Live
  <1>5. BulkTyped'
    BY <1>1 DEF BulkTyped
  <1>6. UpdatedAreThere'
    <2>1. CASE docs' = docs
      BY <2>1, <1>1 DEF UpdatedAreThere, Live
    <2>2. CASE del[a].at = "read" /\ docs' = [docs EXCEPT ![del[a].doc] = "gone"]
      <3> DEFINE d == del[a].doc
      <3>1. Live' = Live \ {d}
        BY <1>t, <2>2 DEF Live
      <3>2. HoldsRow(a, d)
        BY <2>2 DEF HoldsRow
      <3>3. ASSUME NEW r \in Bulk, d \in Live PROVE d \notin bulk[r].done
        <4>1. a \in Procs /\ r \in Procs /\ a # r
          BY Kinds
        <4>2. ~HoldsRow(r, d)
          BY <3>2, <3>3, <4>1 DEF OneRowHolder
        <4> QED
          BY <4>2 DEF HoldsRow
      <3> QED
        BY <3>1, <3>3, <1>1 DEF UpdatedAreThere
    <2> QED
      BY <1>3, <2>1, <2>2
  <1>7. \A d \in Docs : docs[d] # "none" => docs'[d] # "none"
    BY <1>t, <1>3
  <1>8. HandsMade'
    <2>1. \A w \in Workers : run[w].at # "idle" => docs'[run[w].doc] # "none"
      BY <1>7, <1>t DEF HandsMade, InHand
    <2>2. \A b \in Admins : del[b].at # "idle" => docs'[del[b].doc] # "none"
      BY <1>7, <1>t DEF HandsMade, InHand
    <2>3. del'[a].at # "idle" => docs'[del'[a].doc] # "none"
      <3>1. CASE docs' = docs
        BY <3>1, <2>2, <1>2
      <3>2. CASE LDeleteCommit(a)
        BY <3>2, <1>t DEF LDeleteCommit, DeleteCommit, IdleDel
      <3> QED
        BY <1>3, <3>1, <3>2
    <2> QED
      BY <1>1, <1>2, <2>1, <2>2, <2>3 DEF HandsMade
  <1>9. \A p \in Procs \ {a}, d \in Live : HoldsRow(p, d)' => HoldsRow(p, d)
    BY <1>1, <1>2 DEF HoldsRow
  <1>10. ASSUME NEW d \in Live, HoldsRow(a, d)', ~HoldsRow(a, d), NEW q \in Procs \ {a}
         PROVE  ~HoldsRow(q, d)
    <2>1. del'[a].at \in {"removed", "locked", "read"} /\ del'[a].doc = d
      BY <1>10, Kinds DEF HoldsRow
    <2>2. del[a].at \notin {"removed", "locked", "read"} \/ del[a].doc # d
      BY <1>10 DEF HoldsRow
    <2>3. LRemove(a) /\ del[a].doc = d
      BY <1>2, <2>1, <2>2
    <2>5. RowFree(d) /\ WantsRow(a, d) /\ Free(a)
      BY <2>3 DEF LRemove, Remove, WantsRow
    <2>6. CASE q \in Bulk
      <3>1. q \notin Blockers(a)
        BY <2>5, <2>6 DEF Free
      <3> QED
        BY <2>5, <3>1, NobodyElse, Kinds
    <2>7. CASE q \in Workers \cup Admins
      BY <2>5, <2>7, Kinds DEF RowFree, HoldsRow
    <2> QED
      BY <2>6, <2>7, Kinds
  <1>11. OneRowHolder'
    <2>1. a \in Procs
      BY Kinds
    <2> QED
      BY <2>1, <1>4, <1>9, <1>10, OneGets
  <1> QED
    BY <1>5, <1>6, <1>8, <1>11

(* A reindex or a deletion of the workspace whose rows, after a step, are  *)
(* those it had and some that nobody held.                                 *)
LEMMA BulkRows ==
    ASSUME Inv, RowsInv, NEW r \in Bulk, UNCHANGED vars, gone' \in BOOLEAN,
           NEW row \in BulkRow, bulk' = [bulk EXCEPT ![r] = row],
           \A d \in row.done : \/ d \in bulk[r].done
                               \/ d \in Live /\ \A q \in Procs \ {r} : ~HoldsRow(q, d)
    PROVE  RowsInv'
  <1> USE DEF RowsInv
  <1>1. /\ bulk \in [Bulk -> BulkRow]
        /\ bulk'[r] = row /\ \A s \in Bulk \ {r} : bulk'[s] = bulk[s]
        /\ Live' = Live
    BY DEF BulkTyped, vars, Live
  <1>2. BulkTyped'
    BY <1>1 DEF BulkTyped
  <1>3. UpdatedAreThere'
    BY <1>1 DEF UpdatedAreThere
  <1>4. HandsMade'
    BY DEF HandsMade, vars
  <1>5. \A p \in Procs \ {r}, d \in Live : HoldsRow(p, d)' => HoldsRow(p, d)
    BY <1>1 DEF HoldsRow, vars
  <1>6. \A d \in Live : HoldsRow(r, d)' =>
          HoldsRow(r, d) \/ \A q \in Procs \ {r} : ~HoldsRow(q, d)
    BY <1>1, Kinds DEF HoldsRow, vars
  <1>7. OneRowHolder'
    <2>1. r \in Procs
      BY Kinds
    <2> QED
      BY <2>1, <1>1, <1>5, <1>6, OneGets
  <1> QED
    BY <1>2, <1>3, <1>4, <1>7

(* Nothing in hand. *)
LEMMA IdleBulkTyped == IdleBulk \in BulkRow /\ IdleBulk.done = {}
  BY DEF IdleBulk, BulkRow

(* What requeue_workspace and delete_workspace do to the rows. *)
LEMMA RequestRows ==
    ASSUME Inv, RowsInv, NEW r \in Bulk,
           \/ List(r) \/ Touch(r) \/ Share(r) \/ Requeued(r)
           \/ Count(r) \/ Take(r) \/ Cascade(r) \/ Deleted(r)
           \/ bulk' = Ended(r) /\ UNCHANGED <<vars, gone>>
    PROVE  RowsInv'
  <1>t. /\ bulk \in [Bulk -> BulkRow] /\ gone \in BOOLEAN /\ bulk[r] \in BulkRow
        /\ bulk[r].todo \in Seq(Docs) /\ bulk[r].done \in SUBSET Docs
        /\ r \in Procs
    BY Kinds DEF RowsInv, BulkTyped, BulkRow
  <1>s. bulk[r].todo # <<>> =>
          Head(bulk[r].todo) \in Docs /\ Tail(bulk[r].todo) \in Seq(Docs)
    BY <1>t
  <1>g. UNCHANGED vars /\ gone' \in BOOLEAN
    BY <1>t DEF List, Touch, Share, Requeued, Count, Take, Cascade, Deleted
  <1>1. CASE Requeued(r) \/ Deleted(r) \/ bulk' = Ended(r)
    <2>1. bulk' = [bulk EXCEPT ![r] = IdleBulk]
      BY <1>1 DEF Requeued, Deleted, Ended
    <2> QED
      BY <2>1, <1>g, IdleBulkTyped, BulkRows
  <1>2. CASE List(r) \/ Take(r)
    <2>1. PICK s \in Orders(Live), at \in {"listed", "cascade"} :
            bulk' = [bulk EXCEPT ![r] = [IdleBulk EXCEPT !.at = at, !.todo = s]]
      BY <1>2 DEF List, Take
    <2> DEFINE row == [IdleBulk EXCEPT !.at = at, !.todo = s]
    <2>2. row \in BulkRow /\ row.done = {}
      BY OrdersTyped DEF IdleBulk, BulkRow
    <2>3. bulk' = [bulk EXCEPT ![r] = row]
      BY <2>1
    <2> HIDE DEF row
    <2> QED
      BY <2>2, <2>3, <1>g, BulkRows
  <1>3. CASE Count(r)
    <2> DEFINE row == [bulk[r] EXCEPT !.at = "counted"]
    <2>1. row \in BulkRow /\ row.done = bulk[r].done
      BY <1>t DEF BulkRow
    <2>2. bulk' = [bulk EXCEPT ![r] = row]
      BY <1>3 DEF Count
    <2> HIDE DEF row
    <2> QED
      BY <2>1, <2>2, <1>g, BulkRows
  <1>4. CASE Share(r)
    <2> DEFINE row == [at |-> "listed", todo |-> bulk[r].todo, done |-> bulk[r].done,
                       shares |-> TRUE]
    <2>1. row \in BulkRow /\ row.done = bulk[r].done
      BY <1>t DEF BulkRow
    <2>2. bulk' = [bulk EXCEPT ![r] = row]
      BY <1>4 DEF Share
    <2> HIDE DEF row
    <2> QED
      BY <2>1, <2>2, <1>g, BulkRows
  <1>5. CASE Touch(r)
    <2> DEFINE d == Head(bulk[r].todo)
               row == [at |-> "touched", todo |-> Tail(bulk[r].todo),
                       done |-> bulk[r].done \cup {d}, shares |-> bulk[r].shares]
    <2>1. /\ d \in Live /\ WantsRow(r, d) /\ Blockers(r) = {}
          /\ bulk' = [bulk EXCEPT ![r] = row] /\ bulk[r].todo # <<>>
      BY <1>5 DEF Touch, WantsRow
    <2>2. \A q \in Procs \ {r} : ~HoldsRow(q, d)
      BY <2>1, <1>t, NobodyElse
    <2>3. row \in BulkRow /\ row.done = bulk[r].done \cup {d}
      BY <2>1, <1>t, <1>s DEF BulkRow
    <2> HIDE DEF d, row
    <2>4. \A e \in row.done : \/ e \in bulk[r].done
                              \/ e \in Live /\ \A q \in Procs \ {r} : ~HoldsRow(q, e)
      BY <2>1, <2>2, <2>3
    <2> QED
      BY <2>1, <2>3, <2>4, <1>g, BulkRows
  <1>6. CASE Cascade(r)
    <2> DEFINE d == Head(bulk[r].todo)
               row == [at |-> "cascade", todo |-> Tail(bulk[r].todo),
                       done |-> bulk[r].done \cup ({d} \cap Live), shares |-> FALSE]
    <2>1. /\ d \in Live => WantsRow(r, d)
          /\ Blockers(r) = {} /\ bulk[r].todo # <<>>
          /\ bulk' = [bulk EXCEPT ![r] = row]
      BY <1>6 DEF Cascade, WantsRow
    <2>2. d \in Live => \A q \in Procs \ {r} : ~HoldsRow(q, d)
      BY <2>1, <1>t, NobodyElse
    <2>3. row \in BulkRow /\ row.done = bulk[r].done \cup ({d} \cap Live)
      BY <2>1, <1>t, <1>s DEF BulkRow
    <2> HIDE DEF d, row
    <2>4. \A e \in row.done : \/ e \in bulk[r].done
                              \/ e \in Live /\ \A q \in Procs \ {r} : ~HoldsRow(q, e)
      BY <2>1, <2>2, <2>3
    <2> QED
      BY <2>1, <2>3, <2>4, <1>g, BulkRows
  <1> QED
    BY <1>1, <1>2, <1>3, <1>4, <1>5, <1>6

(* Every step leaves each row with one holder. *)
LEMMA NextRows == Inv /\ RowsInv /\ [LNext]_lvars => RowsInv'
  <1> SUFFICES ASSUME Inv, RowsInv, [LNext]_lvars PROVE RowsInv'
    OBVIOUS
  <1>1. CASE UNCHANGED lvars
    BY <1>1 DEF lvars, RowsInv, BulkTyped, OneRowHolder, UpdatedAreThere, HandsMade, HoldsRow,
       Live
  <1>2. ASSUME NEW p \in Procs, Abort(p) PROVE RowsInv'
    BY <1>2, StoreRows, DeleteRows, RequestRows DEF Abort
  <1>3. ASSUME NEW p \in Procs, LStep(p) PROVE RowsInv'
    BY <1>3, <1>2, StoreRows, DeleteRows, RequestRows, Kinds DEF LStep
  <1> QED
    BY <1>1, <1>2, <1>3, CreateRows, StoreRows, DeleteRows, RequestRows, Kinds DEF LNext

(* Initially nobody holds one. *)
LEMMA InitRows == LInit => RowsInv
  <1> SUFFICES ASSUME LInit PROVE RowsInv
    OBVIOUS
  <1>1. Live = {} /\ \A r \in Bulk : bulk[r] = IdleBulk
    BY DEF LInit, Init, Live
  <1> QED
    BY <1>1, IdleBulkTyped DEF LInit, Init, RowsInv, BulkTyped, OneRowHolder, UpdatedAreThere,
       HandsMade, IdleRun, IdleDel

(* However many reindexes, deletions and stores overlap, a document is     *)
(* held by one transaction at most, and none is deleted under a reindex    *)
(* that has updated it.                                                    *)
THEOREM OneHolderPerDocument == LSpec => []LocksOK
  <1>1. RowsInv => LocksOK
    BY DEF RowsInv, BulkTyped, OneRowHolder, UpdatedAreThere, LocksOK
  <1> QED
    BY <1>1, InitRows, NextRows, LocksKeepInv, PTL DEF LSpec

=============================================================================
