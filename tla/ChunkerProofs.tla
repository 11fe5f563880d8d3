---------------------------- MODULE ChunkerProofs ---------------------------
(***************************************************************************)
(* Proofs about Chunker, for every document, target, overlap and ceiling.  *)
(*                                                                         *)
(* What is computed word by word is a fold, and a fold over n elements is  *)
(* reasoned about through the values it goes through, acc[0] to acc[n]     *)
(* (FoldValues); that each of them has some property is an induction over  *)
(* 0..n, a set of naturals that has a least element outside (InductTo).    *)
(***************************************************************************)
EXTENDS Chunker, SequenceTheorems, WellFoundedInduction, TLAPS

-----------------------------------------------------------------------------
(* Induction. *)

(* Every set of naturals has a least element, *)
LEMMA Least ==
    ASSUME NEW T \in SUBSET Nat, T # {}
    PROVE  \E n \in T : \A m \in T : n <= m
  <1> DEFINE R == {ss \in Nat \X Nat : ss[1] < ss[2]}
  <1>1. IsWellFoundedOn(R, Nat)
    BY NatLessThanWellFounded DEF OpToRel
  <1> HIDE DEF R
  <1>2. PICK n \in T : \A m \in T : ~ (<<m, n>> \in R)
    BY <1>1, WFMin
  <1>3. ASSUME NEW m \in T PROVE n <= m
    <2>1. m < n => <<m, n>> \in R
      BY <1>3 DEF R
    <2> QED
      BY <1>2, <2>1
  <1> QED
    BY <1>3

(* so a set that holds what follows each of its members holds them all. *)
LEMMA Induct ==
    ASSUME NEW S, 0 \in S, \A n \in Nat : n \in S => n + 1 \in S
    PROVE  \A n \in Nat : n \in S
  <1> SUFFICES ASSUME NEW k \in Nat, k \notin S PROVE FALSE
    OBVIOUS
  <1>1. PICK n \in Nat \ S : \A m \in Nat \ S : n <= m
    BY Least
  <1>2. n # 0 /\ n - 1 \in Nat
    OBVIOUS
  <1> QED
    BY <1>1, <1>2

(* The same up to n. *)
LEMMA InductTo ==
    ASSUME NEW n \in Nat, NEW S, 0 \in S, \A k \in 1..n : k - 1 \in S => k \in S
    PROVE  \A k \in 0..n : k \in S
  <1> DEFINE T == {k \in Nat : k <= n => k \in S}
  <1>1. 0 \in T
    OBVIOUS
  <1>2. \A k \in Nat : k \in T => k + 1 \in T
    OBVIOUS
  <1>3. \A k \in Nat : k \in T
    <2> HIDE DEF T
    <2> QED
      BY <1>1, <1>2, Induct
  <1> QED
    BY <1>3

-----------------------------------------------------------------------------
(* Folds. *)

(* The largest of some numbers up to n. *)
LEMMA MaxUpTo ==
    ASSUME NEW n \in Nat, NEW s \in SUBSET (1..n), s # {}
    PROVE  Max(s) \in s /\ \A y \in s : Max(s) >= y
  <1> DEFINE T == {n - y : y \in s}
  <1>1. PICK m \in T : \A k \in T : m <= k
    <2>1. T \in SUBSET Nat
      <3> SUFFICES ASSUME NEW y \in s PROVE n - y \in Nat
        OBVIOUS
      <3>1. y \in 1..n
        OBVIOUS
      <3> QED
        BY <3>1
    <2>2. T # {}
      <3>1. PICK y \in s : TRUE
        OBVIOUS
      <3>2. n - y \in T
        BY <3>1
      <3> QED
        BY <3>2
    <2> HIDE DEF T
    <2> QED
      BY <2>1, <2>2, Least
  <1>2. PICK x \in s : m = n - x
    OBVIOUS
  <1>3. \A y \in s : x >= y
    <2> SUFFICES ASSUME NEW y \in s PROVE x >= y
      OBVIOUS
    <2>1. n - x <= n - y
      BY <1>1, <1>2
    <2> QED
      BY <2>1
  <1> QED
    BY <1>3 DEF Max

(* What the fold over the first k elements adds to that over k - 1. *)
LEMMA MaxOfAll ==
    ASSUME NEW n \in Nat, NEW k \in 1..n
    PROVE  /\ 1..k \in SUBSET (1..n) /\ 1..k # {} /\ 1..(k - 1) \in SUBSET (1..n)
           /\ Max(1..k) = k
           /\ (1..k) \ {k} = 1..(k - 1)
  <1>1. 1..k \in SUBSET (1..n) /\ 1..k # {} /\ k \in 1..k
    OBVIOUS
  <1>2. Max(1..k) \in 1..k /\ \A y \in 1..k : Max(1..k) >= y
    BY <1>1, MaxUpTo
  <1>3. Max(1..k) = k
    BY <1>1, <1>2
  <1> QED
    BY <1>1, <1>3

(* A fold over n elements, of which step makes the next value. *)
IsFold(n, base, step, F) ==
    F = [s \in SUBSET (1..n) |->
            IF s = {} THEN base ELSE step[<<Max(s), F[s \ {Max(s)}]>>]]

(* There is one, if each step stays in D. *)
LEMMA FoldExists ==
    ASSUME NEW n \in Nat, NEW D, NEW base \in D, NEW step \in [(1..n) \X D -> D]
    PROVE  \E F \in [SUBSET (1..n) -> D] : IsFold(n, base, step, F)
  <1> DEFINE S == {k \in 0..n : \E F \in [SUBSET (1..k) -> D] : IsFold(k, base, step, F)}
  <1>1. 0 \in S
    <2> DEFINE F == [s \in SUBSET (1..0) |-> base]
    <2>1. 1..0 = {}
      OBVIOUS
    <2>2. F \in [SUBSET (1..0) -> D] /\ IsFold(0, base, step, F)
      BY <2>1 DEF IsFold
    <2> QED
      BY <2>2
  <1>2. ASSUME NEW k \in 1..n, k - 1 \in S PROVE k \in S
    <2>1. PICK F \in [SUBSET (1..(k - 1)) -> D] : IsFold(k - 1, base, step, F)
      BY <1>2
    <2> DEFINE G == [s \in SUBSET (1..k) |->
                        IF k \in s THEN step[<<k, F[s \ {k}]>>] ELSE F[s]]
    <2>2. \A s \in SUBSET (1..k) : /\ k \in s => s \ {k} \in SUBSET (1..(k - 1))
                                   /\ k \notin s => s \in SUBSET (1..(k - 1))
      OBVIOUS
    <2>3. G \in [SUBSET (1..k) -> D]
      BY <2>2
    <2>4. ASSUME NEW s \in SUBSET (1..k)
          PROVE  G[s] = IF s = {} THEN base ELSE step[<<Max(s), G[s \ {Max(s)}]>>]
      <3>1. CASE k \in s
        <4>1. Max(s) = k
          <5>1. Max(s) \in s /\ \A y \in s : Max(s) >= y
            BY <3>1, MaxUpTo, k \in Nat, s # {}
          <5>2. Max(s) \in 1..k
            BY <5>1
          <5> QED
            BY <3>1, <5>1, <5>2
        <4>2. G[s \ {k}] = F[s \ {k}]
          BY <2>2, <3>1
        <4> QED
          BY <3>1, <4>1, <4>2
      <3>2. CASE k \notin s
        <4>1. G[s] = F[s] /\ s \in SUBSET (1..(k - 1))
          BY <2>2, <3>2
        <4>2. F[s] = IF s = {} THEN base ELSE step[<<Max(s), F[s \ {Max(s)}]>>]
          BY <2>1, <4>1 DEF IsFold
        <4>3. G[s \ {Max(s)}] = F[s \ {Max(s)}]
          BY <2>2, <3>2
        <4> QED
          BY <4>1, <4>2, <4>3
      <3> QED
        BY <3>1, <3>2
    <2>5. IsFold(k, base, step, G)
      BY <2>4 DEF IsFold
    <2> HIDE DEF G
    <2> QED
      BY <2>3, <2>5
  <1>3. n \in S
    <2> HIDE DEF S
    <2>1. \A k \in 0..n : k \in S
      BY <1>1, <1>2, InductTo
    <2> QED
      BY <2>1, n \in 0..n
  <1> QED
    BY <1>3, Zenon

(* and its values come one from the other. *)
Steps(n, D, base, step, F) ==
    /\ F[{}] = base
    /\ \A s \in SUBSET (1..n) :
         s # {} /\ F[s \ {Max(s)}] \in D => F[s] = step[<<Max(s), F[s \ {Max(s)}]>>]

Values(n, D, base, step, last, acc) ==
    /\ acc \in [0..n -> D]
    /\ acc[0] = base
    /\ \A k \in 1..n : acc[k - 1] \in D /\ acc[k] = step[<<k, acc[k - 1]>>]
    /\ last = acc[n]

(* It has values in D, each made of the one before. *)
LEMMA FoldValues ==
    ASSUME NEW n \in Nat, NEW D, NEW base \in D, NEW step \in [(1..n) \X D -> D],
           NEW F, Steps(n, D, base, step, F)
    PROVE  \E acc : Values(n, D, base, step, F[1..n], acc)
  <1> DEFINE acc == [k \in 0..n |-> F[1..k]]
             S == {k \in 0..n : F[1..k] \in D}
  <1>1. F[1..0] = base
    <2>1. 1..0 = {}
      OBVIOUS
    <2> QED
      BY <2>1 DEF Steps
  <1>2. ASSUME NEW k \in 1..n, F[1..(k - 1)] \in D
        PROVE  F[1..k] = step[<<k, F[1..(k - 1)]>>] /\ F[1..k] \in D
    <2> DEFINE s == 1..k
    <2>1. s \in SUBSET (1..n) /\ s # {} /\ Max(s) = k /\ s \ {k} = 1..(k - 1)
      BY MaxOfAll
    <2> HIDE DEF s
    <2>2. F[s] = step[<<k, F[1..(k - 1)]>>]
      BY <1>2, <2>1 DEF Steps
    <2>3. <<k, F[1..(k - 1)]>> \in (1..n) \X D
      BY <1>2
    <2>4. step[<<k, F[1..(k - 1)]>>] \in D
      BY <2>3
    <2> QED
      BY <2>2, <2>4 DEF s
  <1>3. \A k \in 0..n : k \in S
    <2>1. 0 \in S
      BY <1>1
    <2>2. ASSUME NEW k \in 1..n, k - 1 \in S PROVE k \in S
      <3>1. F[1..(k - 1)] \in D /\ k \in 0..n
        BY <2>2
      <3>2. F[1..k] \in D
        BY <3>1, <1>2
      <3> QED
        BY <3>1, <3>2
    <2> HIDE DEF S
    <2> QED
      BY <2>1, <2>2, InductTo
  <1>4. \A k \in 0..n : F[1..k] \in D
    BY <1>3
  <1> HIDE DEF S
  <1>5. ASSUME NEW k \in 1..n PROVE acc[k - 1] \in D /\ acc[k] = step[<<k, acc[k - 1]>>]
    <2>1. k - 1 \in 0..n /\ k \in 0..n
      OBVIOUS
    <2> QED
      BY <1>2, <1>4, <2>1
  <1>6. acc \in [0..n -> D] /\ acc[0] = base /\ F[1..n] = acc[n]
    BY <1>1, <1>4
  <1> QED
    BY <1>5, <1>6 DEF Values

-----------------------------------------------------------------------------
(* Tokens. *)

(* The running sum of t's sizes. *)
IsSum(t, acc) ==
    /\ acc \in [0..Len(t) -> Nat]
    /\ acc[0] = 0
    /\ \A k \in 1..Len(t) : acc[k] = acc[k - 1] + t[k].size

(* Tokens is a running sum. *)
LEMMA TokensAre ==
    ASSUME NEW t \in Seq(Word)
    PROVE  \E acc : IsSum(t, acc) /\ Tokens(t) = acc[Len(t)]
  <1> DEFINE n == Len(t)
             step == [p \in (1..n) \X Nat |-> p[2] + t[p[1]].size]
             Rec(F) == F = [s \in SUBSET DOMAIN t |->
                              IF s = {} THEN 0 ELSE F[s \ {Max(s)}] + t[Max(s)].size]
             sum == CHOOSE F : Rec(F)
  <1>1. n \in Nat /\ DOMAIN t = 1..n /\ \A k \in 1..n : t[k].size \in Nat
    <2>1. n \in Nat /\ DOMAIN t = 1..n
      OBVIOUS
    <2>2. \A k \in 1..n : t[k] \in Word
      BY <2>1
    <2> QED
      BY <2>1, <2>2 DEF Word
  <1>2. step \in [(1..n) \X Nat -> Nat]
    BY <1>1
  <1>3. \E F : Rec(F)
    <2>1. PICK F \in [SUBSET (1..n) -> Nat] : IsFold(n, 0, step, F)
      BY <1>1, <1>2, FoldExists
    <2>2. ASSUME NEW s \in SUBSET (1..n), s # {}
          PROVE  step[<<Max(s), F[s \ {Max(s)}]>>] = F[s \ {Max(s)}] + t[Max(s)].size
      BY <1>1, <2>2, MaxUpTo
    <2>3. F = [s \in SUBSET (1..n) |->
                  IF s = {} THEN 0 ELSE step[<<Max(s), F[s \ {Max(s)}]>>]]
      BY <2>1 DEF IsFold
    <2> HIDE DEF step
    <2>4. F = [s \in SUBSET (1..n) |->
                  IF s = {} THEN 0 ELSE F[s \ {Max(s)}] + t[Max(s)].size]
      BY <2>2, <2>3
    <2> QED
      BY <1>1, <2>4
  <1>4. Tokens(t) = sum[DOMAIN t]
    BY DEF Tokens, FoldLeft, MapThenFoldSet
  <1>5. Rec(sum)
    BY <1>3
  <1> HIDE DEF sum
  <1>6. Steps(n, Nat, 0, step, sum)
    <2>1. sum[{}] = 0
      BY <1>5
    <2>2. ASSUME NEW s \in SUBSET (1..n), s # {}, sum[s \ {Max(s)}] \in Nat
          PROVE  sum[s] = step[<<Max(s), sum[s \ {Max(s)}]>>]
      BY <1>1, <1>5, <2>2, MaxUpTo
    <2> QED
      BY <2>1, <2>2 DEF Steps
  <1>7. PICK acc : Values(n, Nat, 0, step, sum[1..n], acc)
    <2> HIDE DEF step, n
    <2> QED
      BY <1>1, <1>2, <1>6, FoldValues
  <1>8. \A k \in 1..n : acc[k] = acc[k - 1] + t[k].size
    BY <1>1, <1>7 DEF Values
  <1> QED
    BY <1>1, <1>4, <1>7, <1>8 DEF IsSum, Values

(* The m words of s after the first i are as large as those of t after j. *)
SameSizes(s, i, t, j, m) == \A k \in 1..m : s[i + k].size = t[j + k].size

(* Two stretches of the same sizes add up to the same. *)
LEMMA SameSum ==
    ASSUME NEW s \in Seq(Word), NEW t \in Seq(Word), NEW a, NEW b, IsSum(s, a), IsSum(t, b),
           NEW i \in Nat, NEW j \in Nat, NEW m \in Nat, i + m <= Len(s), j + m <= Len(t),
           SameSizes(s, i, t, j, m)
    PROVE  a[i + m] + b[j] = a[i] + b[j + m]
  <1> DEFINE S == {k \in 0..m : a[i + k] + b[j] = a[i] + b[j + k]}
  <1>1. Len(s) \in Nat /\ Len(t) \in Nat
    OBVIOUS
  <1>2. /\ \A k \in 0..Len(s) : a[k] \in Nat
        /\ \A k \in 0..Len(t) : b[k] \in Nat
    BY DEF IsSum
  <1>3. 0 \in S
    BY <1>1, <1>2
  <1>4. ASSUME NEW k \in 1..m, k - 1 \in S PROVE k \in S
    <2>1. i + k \in 1..Len(s) /\ j + k \in 1..Len(t)
      BY <1>1
    <2>2. a[i + k] = a[(i + k) - 1] + s[i + k].size
      BY <2>1 DEF IsSum
    <2>3. b[j + k] = b[(j + k) - 1] + t[j + k].size
      BY <2>1 DEF IsSum
    <2>4. s[i + k] \in Word /\ t[j + k] \in Word
      BY <2>1
    <2>5. s[i + k].size \in Nat /\ s[i + k].size = t[j + k].size
      BY <2>4 DEF Word, SameSizes
    <2>6. a[i + (k - 1)] + b[j] = a[i] + b[j + (k - 1)]
      BY <1>4
    <2>7. (i + k) - 1 = i + (k - 1) /\ (j + k) - 1 = j + (k - 1)
      OBVIOUS
    <2>8. /\ a[i + (k - 1)] \in Nat /\ b[j] \in Nat /\ a[i] \in Nat /\ b[j + (k - 1)] \in Nat
          /\ a[i + k] = a[i + (k - 1)] + s[i + k].size
          /\ b[j + k] = b[j + (k - 1)] + s[i + k].size
      BY <1>1, <1>2, <2>2, <2>3, <2>5, <2>7, SMTT(30)
    <2> DEFINE before == a[i + (k - 1)]
               after == b[j + (k - 1)]
               size == s[i + k].size
               now == a[i + k]
               then == b[j + k]
               here == a[i]
               there == b[j]
    <2>9. now \in Nat /\ then \in Nat
      BY <1>1, <1>2, <2>1
    <2>10. before + there = here + after /\ now = before + size /\ then = after + size
      BY <2>6, <2>8
    <2>11. before \in Nat /\ there \in Nat /\ here \in Nat /\ after \in Nat /\ size \in Nat
      BY <2>5, <2>8
    <2> HIDE DEF before, after, size, now, then, here, there
    <2>12. now + there = here + then
      BY <2>9, <2>10, <2>11
    <2> QED
      BY <2>12 DEF now, then, here, there
  <1>5. m \in S
    <2> HIDE DEF S
    <2> QED
      BY <1>3, <1>4, InductTo, m \in 0..m
  <1> QED
    BY <1>5

(* Tokens of joined texts add up. *)
LEMMA TokensAdd ==
    ASSUME NEW s \in Seq(Word), NEW t \in Seq(Word)
    PROVE  Tokens(s) \in Nat /\ Tokens(t) \in Nat /\ Tokens(s \o t) = Tokens(s) + Tokens(t)
  <1> DEFINE u == s \o t
             n == Len(s)
             m == Len(t)
  <1>1. /\ u \in Seq(Word) /\ n \in Nat /\ m \in Nat /\ Len(u) = n + m
        /\ \A k \in 1..n : u[k] = s[k]
        /\ \A k \in 1..m : u[n + k] = t[k]
    OBVIOUS
  <1>2. PICK a : IsSum(s, a) /\ Tokens(s) = a[n]
    BY TokensAre
  <1>3. PICK b : IsSum(t, b) /\ Tokens(t) = b[m]
    BY TokensAre
  <1>4. PICK c : IsSum(u, c) /\ Tokens(u) = c[n + m]
    BY <1>1, TokensAre
  <1> HIDE DEF u, n, m
  <1>5. c[0 + n] + a[0] = c[0] + a[0 + n]
    <2>1. SameSizes(u, 0, s, 0, n)
      BY <1>1 DEF SameSizes
    <2>2. 0 + n <= Len(u) /\ 0 + n <= Len(s) /\ s \in Seq(Word)
      BY <1>1 DEF n
    <2> QED
      BY <1>1, <1>2, <1>4, <2>1, <2>2, SameSum
  <1>6. c[n + m] + b[0] = c[n] + b[0 + m]
    <2>1. SameSizes(u, n, t, 0, m)
      BY <1>1 DEF SameSizes
    <2>2. n + m <= Len(u) /\ 0 + m <= Len(t) /\ t \in Seq(Word)
      BY <1>1 DEF m
    <2> QED
      BY <1>1, <1>3, <1>4, <2>1, <2>2, SameSum
  <1>7. /\ a[0] = 0 /\ b[0] = 0 /\ c[0] = 0
        /\ a[n] \in Nat /\ b[m] \in Nat /\ c[n] \in Nat /\ c[n + m] \in Nat
    <2>1. a[0] = 0 /\ a \in [0..n -> Nat]
      BY <1>2 DEF IsSum, n
    <2>2. b[0] = 0 /\ b \in [0..m -> Nat]
      BY <1>3 DEF IsSum, m
    <2>3. c[0] = 0 /\ c \in [0..(n + m) -> Nat]
      BY <1>1, <1>4 DEF IsSum
    <2>4. n \in 0..n /\ m \in 0..m /\ n \in 0..(n + m) /\ n + m \in 0..(n + m)
      BY <1>1
    <2> QED
      BY <2>1, <2>2, <2>3, <2>4
  <1> QED
    BY <1>1, <1>2, <1>3, <1>4, <1>5, <1>6, <1>7 DEF u

(* Nothing has no tokens. *)
LEMMA TokensOfNothing == Tokens(<<>>) = 0
  <1>1. <<>> \in Seq(Word) /\ <<>> \o <<>> = <<>>
    OBVIOUS
  <1>2. Tokens(<<>>) \in Nat /\ Tokens(<<>>) = Tokens(<<>>) + Tokens(<<>>)
    BY <1>1, TokensAdd
  <1> QED
    BY <1>2

-----------------------------------------------------------------------------
(* Packing. *)

Texts == Seq(Seq(Word))

Packing == [groups : Texts, current : Seq(Word), tokens : Nat]

NothingPacked == [groups |-> <<>>, current |-> <<>>, tokens |-> 0]

(* What pack makes of one more unit. *)
Put(p, u, limit) ==
    LET n == Tokens(u) + 1 IN
    IF p.current # <<>> /\ p.tokens + n > limit
    THEN [groups |-> Append(p.groups, p.current), current |-> u, tokens |-> n]
    ELSE [p EXCEPT !.current = @ \o u, !.tokens = @ + n]

(* What pack holds stays of its type, *)
LEMMA PutTyped ==
    ASSUME NEW p \in Packing, NEW u \in Seq(Word), NEW limit
    PROVE  Put(p, u, limit) \in Packing
  <1>1. Tokens(u) \in Nat
    BY TokensAdd
  <1>2. Tokens(u) + 1 \in Nat
    BY <1>1
  <1>3. p.groups \in Seq(Seq(Word)) /\ p.current \in Seq(Word) /\ p.tokens \in Nat
    BY DEF Packing, Texts
  <1>4. Append(p.groups, p.current) \in Seq(Seq(Word)) /\ p.current \o u \in Seq(Word)
    BY <1>3
  <1>5. p.tokens + (Tokens(u) + 1) \in Nat
    BY <1>1, <1>3
  <1> QED
    BY <1>2, <1>3, <1>4, <1>5 DEF Put, Packing, Texts

(* pack runs over its units. *)
IsPacking(units, limit, acc) ==
    /\ acc \in [0..Len(units) -> Packing]
    /\ acc[0] = NothingPacked
    /\ \A k \in 1..Len(units) : acc[k] = Put(acc[k - 1], units[k], limit)

(* pack is such a run, *)
LEMMA PackIs ==
    ASSUME NEW units \in Texts, NEW limit
    PROVE  \E acc : LET end == acc[Len(units)] IN
             /\ IsPacking(units, limit, acc)
             /\ pack(units, limit) =
                  IF end.current = <<>> THEN end.groups ELSE Append(end.groups, end.current)
  <1> DEFINE n == Len(units)
             step == [p \in (1..n) \X Packing |-> Put(p[2], units[p[1]], limit)]
             Rec(F) == F = [s \in SUBSET DOMAIN units |->
                              IF s = {} THEN NothingPacked
                              ELSE Put(F[s \ {Max(s)}], units[Max(s)], limit)]
             fold == CHOOSE F : Rec(F)
             end == fold[DOMAIN units]
  <1>1. n \in Nat /\ DOMAIN units = 1..n /\ \A k \in 1..n : units[k] \in Seq(Word)
    BY DEF Texts
  <1>2. step \in [(1..n) \X Packing -> Packing]
    BY <1>1, PutTyped
  <1>0. NothingPacked \in Packing
    BY DEF NothingPacked, Packing, Texts
  <1>3. \E F : Rec(F)
    <2>1. PICK F \in [SUBSET (1..n) -> Packing] : IsFold(n, NothingPacked, step, F)
      BY <1>0, <1>1, <1>2, FoldExists
    <2>2. ASSUME NEW s \in SUBSET (1..n), s # {}
          PROVE  step[<<Max(s), F[s \ {Max(s)}]>>] = Put(F[s \ {Max(s)}], units[Max(s)], limit)
      BY <1>1, <2>2, MaxUpTo
    <2>3. F = [s \in SUBSET (1..n) |->
                  IF s = {} THEN NothingPacked ELSE step[<<Max(s), F[s \ {Max(s)}]>>]]
      BY <2>1 DEF IsFold
    <2> HIDE DEF step
    <2>4. F = [s \in SUBSET (1..n) |->
                  IF s = {} THEN NothingPacked ELSE Put(F[s \ {Max(s)}], units[Max(s)], limit)]
      BY <2>2, <2>3
    <2> QED
      BY <1>1, <2>4
  <1>4. pack(units, limit) =
          IF end.current = <<>> THEN end.groups ELSE Append(end.groups, end.current)
    BY DEF pack, FoldLeft, MapThenFoldSet, Put, NothingPacked
  <1>5. Rec(fold)
    BY <1>3
  <1> HIDE DEF fold
  <1>6. Steps(n, Packing, NothingPacked, step, fold)
    <2>1. fold[{}] = NothingPacked
      BY <1>5
    <2>2. ASSUME NEW s \in SUBSET (1..n), s # {}, fold[s \ {Max(s)}] \in Packing
          PROVE  fold[s] = step[<<Max(s), fold[s \ {Max(s)}]>>]
      BY <1>1, <1>5, <2>2, MaxUpTo
    <2> QED
      BY <2>1, <2>2 DEF Steps
  <1>7. PICK acc : Values(n, Packing, NothingPacked, step, fold[1..n], acc)
    <2> HIDE DEF step, n
    <2> QED
      BY <1>0, <1>1, <1>2, <1>6, FoldValues
  <1>8. \A k \in 1..n : acc[k] = Put(acc[k - 1], units[k], limit)
    BY <1>1, <1>7 DEF Values
  <1>9. IsPacking(units, limit, acc) /\ end = acc[n]
    BY <1>1, <1>7, <1>8 DEF IsPacking, Values
  <1> QED
    BY <1>4, <1>9

(* its groups are texts, *)
LEMMA PackTyped ==
    ASSUME NEW units \in Texts, NEW limit
    PROVE  pack(units, limit) \in Texts
  <1> DEFINE n == Len(units)
  <1>1. PICK acc : /\ IsPacking(units, limit, acc)
                   /\ pack(units, limit) =
                        IF acc[n].current = <<>> THEN acc[n].groups
                        ELSE Append(acc[n].groups, acc[n].current)
    BY PackIs
  <1>2. acc[n] \in Packing
    BY <1>1, n \in 0..n DEF IsPacking, Texts
  <1>3. acc[n].groups \in Seq(Seq(Word)) /\ acc[n].current \in Seq(Word)
    BY <1>2 DEF Packing, Texts
  <1> QED
    BY <1>1, <1>3 DEF Texts

(* A packed text fits, or is a unit as it was. *)
FitsOrUnit(t, units, limit) == Tokens(t) <= limit \/ \E j \in DOMAIN units : t = units[j]

(* and each is within the limit or a unit as it was. *)
LEMMA PackFits ==
    ASSUME NEW units \in Texts, NEW limit \in Int
    PROVE  \A i \in DOMAIN pack(units, limit) :
              FitsOrUnit(pack(units, limit)[i], units, limit)
  <1> DEFINE n == Len(units)
             Good(p) == /\ Tokens(p.current) <= p.tokens
                        /\ \/ p.current = <<>>
                           \/ p.tokens <= limit
                           \/ \E j \in DOMAIN units : p.current = units[j]
                        /\ \A i \in DOMAIN p.groups : FitsOrUnit(p.groups[i], units, limit)
  <1>1. PICK acc : /\ IsPacking(units, limit, acc)
                   /\ pack(units, limit) =
                        IF acc[n].current = <<>> THEN acc[n].groups
                        ELSE Append(acc[n].groups, acc[n].current)
    BY PackIs
  <1>2. /\ n \in Nat /\ DOMAIN units = 1..n /\ \A k \in 1..n : units[k] \in Seq(Word)
        /\ \A k \in 0..n : acc[k] \in Packing
    <2>1. n \in Nat /\ DOMAIN units = 1..n /\ \A k \in 1..n : units[k] \in Seq(Word)
      BY DEF Texts
    <2>2. acc \in [0..n -> Packing]
      BY <1>1 DEF IsPacking
    <2> QED
      BY <2>1, <2>2
  <1>3. \A p \in Packing : /\ p.groups \in Seq(Seq(Word)) /\ p.current \in Seq(Word)
                           /\ p.tokens \in Nat /\ Tokens(p.current) \in Nat
    BY TokensAdd DEF Packing, Texts
  <1>4. ASSUME NEW p \in Packing, Good(p)
        PROVE  \A i \in DOMAIN Append(p.groups, p.current) : p.current # <<>> =>
                  FitsOrUnit(Append(p.groups, p.current)[i], units, limit)
    <2> SUFFICES ASSUME NEW i \in DOMAIN Append(p.groups, p.current), p.current # <<>>
                 PROVE  FitsOrUnit(Append(p.groups, p.current)[i], units, limit)
      OBVIOUS
    <2>1. /\ p.groups \in Seq(Seq(Word)) /\ p.current \in Seq(Word)
          /\ p.tokens \in Nat /\ Tokens(p.current) \in Nat
      BY <1>3
    <2>2. FitsOrUnit(p.current, units, limit)
      BY <1>4, <2>1 DEF FitsOrUnit
    <2>3. \/ Append(p.groups, p.current)[i] = p.current
          \/ i \in DOMAIN p.groups /\ Append(p.groups, p.current)[i] = p.groups[i]
      BY <2>1
    <2> QED
      BY <1>4, <2>2, <2>3
  <1>5. Good(acc[0])
    <2>1. acc[0] = NothingPacked
      BY <1>1 DEF IsPacking
    <2> QED
      BY <2>1, TokensOfNothing DEF NothingPacked
  <1>6. ASSUME NEW k \in 1..n, Good(acc[k - 1]) PROVE Good(acc[k])
    <2> DEFINE p == acc[k - 1]
               u == units[k]
               m == Tokens(u) + 1
    <2>1. /\ acc[k] = Put(p, u, limit) /\ p \in Packing /\ u \in Seq(Word)
          /\ k \in DOMAIN units /\ Tokens(u) \in Nat
      BY <1>1, <1>2, TokensAdd DEF IsPacking
    <2>2. /\ p.groups \in Seq(Seq(Word)) /\ p.current \in Seq(Word)
          /\ p.tokens \in Nat /\ Tokens(p.current) \in Nat
          /\ Tokens(p.current \o u) = Tokens(p.current) + Tokens(u)
      BY <1>3, <2>1, TokensAdd
    <2>3. CASE p.current # <<>> /\ p.tokens + m > limit
      <3>1. /\ acc[k].groups = Append(p.groups, p.current)
            /\ acc[k].current = u /\ acc[k].tokens = m
        BY <2>1, <2>3, SMTT(30) DEF Put
      <3>2. \A i \in DOMAIN acc[k].groups : FitsOrUnit(acc[k].groups[i], units, limit)
        BY <1>4, <1>6, <2>1, <2>3, <3>1
      <3>3. Tokens(u) <= m
        BY <2>1
      <3>4. \E j \in DOMAIN units : u = units[j]
        BY <2>1
      <3> QED
        BY <3>1, <3>2, <3>3, <3>4
    <2>4. CASE ~(p.current # <<>> /\ p.tokens + m > limit)
      <3>1. acc[k] = [p EXCEPT !.current = @ \o u, !.tokens = @ + m]
        BY <2>1, <2>4 DEF Put
      <3>2. /\ acc[k].groups = p.groups
            /\ acc[k].current = p.current \o u /\ acc[k].tokens = p.tokens + m
        BY <2>1, <3>1 DEF Packing
      <3>3. Tokens(p.current \o u) <= p.tokens + m
        BY <1>6, <2>1, <2>2, SMTT(30)
      <3>4. p.current = <<>> => \E j \in DOMAIN units : p.current \o u = units[j]
        BY <2>1
      <3>5. p.current # <<>> => p.tokens + m <= limit
        BY <2>1, <2>2, <2>4
      <3> QED
        BY <1>6, <3>2, <3>3, <3>4, <3>5
    <2> QED
      BY <2>3, <2>4
  <1>7. Good(acc[n])
    <2> DEFINE S == {k \in 0..n : Good(acc[k])}
    <2>1. 0 \in S
      BY <1>2, <1>5
    <2>2. ASSUME NEW k \in 1..n, k - 1 \in S PROVE k \in S
      <3>1. Good(acc[k - 1])
        BY <2>2
      <3>2. Good(acc[k])
        BY <1>6, <3>1
      <3> HIDE DEF Good
      <3> QED
        BY <3>2
    <2>3. n \in S
      <3> HIDE DEF S
      <3> QED
        BY <1>2, <2>1, <2>2, InductTo, n \in 0..n
    <2> HIDE DEF Good
    <2> QED
      BY <2>3
  <1>8. acc[n] \in Packing
    BY <1>2
  <1> QED
    BY <1>1, <1>4, <1>7, <1>8

-----------------------------------------------------------------------------
(* Cutting. *)

(* What CutBefore makes of word i, when a piece begins at each index in B. *)
CutPut(t, B, pieces, i) ==
    IF i = 1 \/ i \in B THEN Append(pieces, <<t[i]>>)
    ELSE [pieces EXCEPT ![Len(pieces)] = Append(@, t[i])]

IsCutFold(t, B, F) ==
    F = [s \in SUBSET (1..Len(t)) |->
            IF s = {} THEN <<>> ELSE CutPut(t, B, F[s \ {Max(s)}], Max(s))]

(* CutBefore goes through t's words. *)
IsCut(t, B, acc) ==
    /\ acc \in [0..Len(t) -> Texts]
    /\ acc[0] = <<>>
    /\ \A k \in 1..Len(t) : acc[k] = CutPut(t, B, acc[k - 1], k)

(* The pieces stay texts. *)
LEMMA CutPutTyped ==
    ASSUME NEW t \in Seq(Word), NEW B, NEW pieces \in Texts, NEW i \in 1..Len(t)
    PROVE  CutPut(t, B, pieces, i) \in Texts
  <1>1. t[i] \in Word /\ <<t[i]>> \in Seq(Word)
    OBVIOUS
  <1>2. pieces \in Seq(Seq(Word)) /\ Len(pieces) \in Nat /\ DOMAIN pieces = 1..Len(pieces)
    BY DEF Texts
  <1>3. Append(pieces, <<t[i]>>) \in Seq(Seq(Word))
    BY <1>1, <1>2
  <1>4. [pieces EXCEPT ![Len(pieces)] = Append(@, t[i])] \in Seq(Seq(Word))
    <2>1. CASE Len(pieces) \in DOMAIN pieces
      <3> DEFINE last == Append(pieces[Len(pieces)], t[i])
      <3>1. last \in Seq(Word) /\ \A j \in 1..Len(pieces) : pieces[j] \in Seq(Word)
        BY <1>1, <1>2, <2>1
      <3> HIDE DEF last
      <3>2. [pieces EXCEPT ![Len(pieces)] = last] \in [1..Len(pieces) -> Seq(Word)]
        BY <1>2, <3>1
      <3> QED
        BY <1>2, <3>2 DEF last
    <2>2. CASE Len(pieces) \notin DOMAIN pieces
      <3>1. [pieces EXCEPT ![Len(pieces)] = Append(@, t[i])] = pieces
        BY <1>2, <2>2
      <3> QED
        BY <1>2, <3>1
    <2> QED
      BY <2>1, <2>2
  <1> QED
    BY <1>3, <1>4 DEF CutPut, Texts

(* The fold exists, *)
LEMMA CutExists ==
    ASSUME NEW t \in Seq(Word), NEW B
    PROVE  \E F : IsCutFold(t, B, F)
  <1> DEFINE n == Len(t)
             step == [p \in (1..n) \X Texts |-> CutPut(t, B, p[2], p[1])]
  <1>1. n \in Nat /\ step \in [(1..n) \X Texts -> Texts] /\ <<>> \in Texts
    BY CutPutTyped DEF Texts
  <1>2. PICK F \in [SUBSET (1..n) -> Texts] : IsFold(n, <<>>, step, F)
    BY <1>1, FoldExists
  <1>3. ASSUME NEW s \in SUBSET (1..n), s # {}
        PROVE  step[<<Max(s), F[s \ {Max(s)}]>>] = CutPut(t, B, F[s \ {Max(s)}], Max(s))
    BY <1>1, <1>3, MaxUpTo
  <1>4. F = [s \in SUBSET (1..n) |->
                IF s = {} THEN <<>> ELSE step[<<Max(s), F[s \ {Max(s)}]>>]]
    BY <1>2 DEF IsFold
  <1> HIDE DEF step
  <1> QED
    <2>1. [s \in SUBSET (1..n) |-> IF s = {} THEN <<>> ELSE step[<<Max(s), F[s \ {Max(s)}]>>]]
            = [s \in SUBSET (1..n) |-> IF s = {} THEN <<>> ELSE CutPut(t, B, F[s \ {Max(s)}], Max(s))]
      BY <1>3
    <2>2. IsCutFold(t, B, F)
      BY <1>4, <2>1 DEF IsCutFold
    <2> QED
      BY <2>2

(* and has values. *)
LEMMA CutValues ==
    ASSUME NEW t \in Seq(Word), NEW B, NEW F, IsCutFold(t, B, F)
    PROVE  \E acc : IsCut(t, B, acc) /\ F[1..Len(t)] = acc[Len(t)]
  <1> DEFINE n == Len(t)
             step == [p \in (1..n) \X Texts |-> CutPut(t, B, p[2], p[1])]
  <1>1. n \in Nat /\ step \in [(1..n) \X Texts -> Texts] /\ <<>> \in Texts
    BY CutPutTyped DEF Texts
  <1>2. Steps(n, Texts, <<>>, step, F)
    <2>1. F[{}] = <<>>
      BY DEF IsCutFold
    <2>2. ASSUME NEW s \in SUBSET (1..n), s # {}, F[s \ {Max(s)}] \in Texts
          PROVE  F[s] = step[<<Max(s), F[s \ {Max(s)}]>>]
      BY <1>1, <2>2, MaxUpTo DEF IsCutFold
    <2> QED
      BY <2>1, <2>2 DEF Steps
  <1>3. PICK acc : Values(n, Texts, <<>>, step, F[1..n], acc)
    <2> HIDE DEF step, n
    <2> QED
      BY <1>1, <1>2, FoldValues
  <1>4. \A k \in 1..n : acc[k] = CutPut(t, B, acc[k - 1], k)
    BY <1>1, <1>3 DEF Values
  <1> QED
    BY <1>3, <1>4 DEF IsCut, Values

(* A text that is not empty gives pieces, none empty. *)
LEMMA CutFacts ==
    ASSUME NEW t \in Seq(Word), NEW B, NEW acc, IsCut(t, B, acc)
    PROVE  /\ acc[Len(t)] \in Texts
           /\ t # <<>> => Len(acc[Len(t)]) > 0
           /\ 1..Len(t) \subseteq B => \A i \in DOMAIN acc[Len(t)] : Len(acc[Len(t)][i]) = 1
  <1> DEFINE n == Len(t)
             Good(k) == /\ k > 0 => Len(acc[k]) > 0
                        /\ 1..n \subseteq B => \A i \in DOMAIN acc[k] : Len(acc[k][i]) = 1
             S == {k \in 0..n : Good(k)}
  <1>1. n \in Nat /\ acc \in [0..n -> Texts]
    BY DEF IsCut
  <1>2. 0 \in S
    BY <1>1 DEF IsCut
  <1>3. ASSUME NEW k \in 1..n, k - 1 \in S PROVE k \in S
    <2> DEFINE a == acc[k - 1]
    <2>1. /\ a \in Seq(Seq(Word)) /\ acc[k] = CutPut(t, B, a, k)
          /\ k > 1 => Len(a) > 0
          /\ 1..n \subseteq B => \A i \in DOMAIN a : Len(a[i]) = 1
      <3>1. k - 1 \in 0..n /\ a \in Texts
        BY <1>1
      <3>2. Good(k - 1)
        <4> HIDE DEF Good
        <4> QED
          BY <1>3
      <3>3. acc[k] = CutPut(t, B, a, k)
        BY DEF IsCut
      <3> QED
        BY <3>1, <3>2, <3>3 DEF Texts
    <2>2. t[k] \in Word
      OBVIOUS
    <2>3. CASE k = 1 \/ k \in B
      <3>1. acc[k] = Append(a, <<t[k]>>)
        BY <2>1, <2>3 DEF CutPut
      <3>2. Len(acc[k]) > 0
        BY <2>1, <3>1
      <3>3. ASSUME 1..n \subseteq B, NEW i \in DOMAIN acc[k] PROVE Len(acc[k][i]) = 1
        <4>1. \/ acc[k][i] = <<t[k]>>
              \/ i \in DOMAIN a /\ acc[k][i] = a[i]
          BY <2>1, <3>1, <3>3
        <4> QED
          BY <2>1, <3>3, <4>1
      <3> QED
        BY <3>2, <3>3
    <2>4. CASE k # 1 /\ k \notin B
      <3>1. acc[k] = [a EXCEPT ![Len(a)] = Append(@, t[k])]
        BY <2>1, <2>4 DEF CutPut
      <3>2. Len(acc[k]) = Len(a) /\ Len(a) > 0
        BY <2>1, <2>4, <3>1
      <3>3. ~(1..n \subseteq B)
        BY <2>4
      <3> QED
        BY <3>2, <3>3
    <2> QED
      BY <2>3, <2>4
  <1>4. n \in S
    <2> HIDE DEF S
    <2> QED
      BY <1>1, <1>2, <1>3, InductTo, n \in 0..n
  <1> QED
    BY <1>1, <1>4

(* Pieces of t: it is cut before some of its words. *)
IsPieces(t, B, pieces) == \E acc : IsCut(t, B, acc) /\ pieces = acc[Len(t)]

(* The four ways a text is cut. *)
LEMMA WordsCut ==
    ASSUME NEW t \in Seq(Word)
    PROVE  IsPieces(t, 1..Len(t), Words(t))
  <1> DEFINE idx == [i \in DOMAIN t |-> i]
             Rec(F) == F = [s \in SUBSET DOMAIN idx |->
                              IF s = {} THEN <<>>
                              ELSE IF idx[Max(s)] = 1 \/ TRUE
                                   THEN Append(F[s \ {Max(s)}], <<t[idx[Max(s)]]>>)
                                   ELSE [F[s \ {Max(s)}] EXCEPT ![Len(F[s \ {Max(s)}])] =
                                            Append(@, t[idx[Max(s)]])]]
             fold == CHOOSE F : Rec(F)
  <1>1. Words(t) = fold[DOMAIN idx]
    BY DEF Words, CutBefore, FoldLeftDomain, FoldLeft, MapThenFoldSet
  <1>2. ASSUME NEW s \in SUBSET (1..Len(t)), s # {}
        PROVE  /\ Max(s) \in 1..Len(t) /\ idx[Max(s)] = Max(s)
    <2>1. Len(t) \in Nat
      OBVIOUS
    <2>2. Max(s) \in 1..Len(t)
      BY <1>2, <2>1, MaxUpTo
    <2> QED
      BY <2>2
  <1>3. DOMAIN idx = 1..Len(t)
    OBVIOUS
  <1>4. ASSUME NEW F PROVE Rec(F) <=> IsCutFold(t, 1..Len(t), F)
    <2> HIDE DEF idx
    <2> QED
      BY <1>2, <1>3, ZenonT(60) DEF IsCutFold, CutPut
  <1>5. IsCutFold(t, 1..Len(t), fold)
    <2>1. \E F : Rec(F)
      <3> HIDE DEF Rec
      <3> QED
        BY <1>4, CutExists
    <2>2. Rec(fold)
      BY <2>1
    <2> HIDE DEF Rec
    <2> QED
      BY <1>4, <2>2
  <1> HIDE DEF fold
  <1> QED
    BY <1>1, <1>3, <1>5, CutValues DEF IsPieces

Stops(t) == {i \in 1..Len(t) : t[i - 1].stop}

(* Sentences begin after a stop,                                           *)
LEMMA SentencesCut ==
    ASSUME NEW t \in Seq(Word)
    PROVE  IsPieces(t, Stops(t), Sentences(t))
  <1> DEFINE idx == [i \in DOMAIN t |-> i]
             Rec(F) == F = [s \in SUBSET DOMAIN idx |->
                              IF s = {} THEN <<>>
                              ELSE IF idx[Max(s)] = 1 \/ t[idx[Max(s)] - 1].stop
                                   THEN Append(F[s \ {Max(s)}], <<t[idx[Max(s)]]>>)
                                   ELSE [F[s \ {Max(s)}] EXCEPT ![Len(F[s \ {Max(s)}])] =
                                            Append(@, t[idx[Max(s)]])]]
             fold == CHOOSE F : Rec(F)
  <1>1. Sentences(t) = fold[DOMAIN idx]
    BY DEF Sentences, CutBefore, FoldLeftDomain, FoldLeft, MapThenFoldSet
  <1>2. ASSUME NEW s \in SUBSET (1..Len(t)), s # {}
        PROVE  /\ Max(s) \in 1..Len(t) /\ idx[Max(s)] = Max(s)
    <2>1. Len(t) \in Nat
      OBVIOUS
    <2>2. Max(s) \in 1..Len(t)
      BY <1>2, <2>1, MaxUpTo
    <2> QED
      BY <2>2
  <1>3. DOMAIN idx = 1..Len(t)
    OBVIOUS
  <1>4. ASSUME NEW F PROVE Rec(F) <=> IsCutFold(t, Stops(t), F)
    <2> HIDE DEF idx
    <2> QED
      BY <1>2, <1>3, ZenonT(60) DEF IsCutFold, CutPut, Stops
  <1>5. IsCutFold(t, Stops(t), fold)
    <2>1. \E F : Rec(F)
      <3> HIDE DEF Rec
      <3> QED
        BY <1>4, CutExists
    <2>2. Rec(fold)
      BY <2>1
    <2> HIDE DEF Rec
    <2> QED
      BY <1>4, <2>2
  <1> HIDE DEF fold
  <1> QED
    BY <1>1, <1>3, <1>5, CutValues DEF IsPieces

Breaks(t) == {i \in 1..Len(t) : t[i].line}

(* lines where a line is opened,                                           *)
LEMMA LinesCut ==
    ASSUME NEW t \in Seq(Word)
    PROVE  IsPieces(t, Breaks(t), Lines(t))
  <1> DEFINE idx == [i \in DOMAIN t |-> i]
             Rec(F) == F = [s \in SUBSET DOMAIN idx |->
                              IF s = {} THEN <<>>
                              ELSE IF idx[Max(s)] = 1 \/ t[idx[Max(s)]].line
                                   THEN Append(F[s \ {Max(s)}], <<t[idx[Max(s)]]>>)
                                   ELSE [F[s \ {Max(s)}] EXCEPT ![Len(F[s \ {Max(s)}])] =
                                            Append(@, t[idx[Max(s)]])]]
             fold == CHOOSE F : Rec(F)
  <1>1. Lines(t) = fold[DOMAIN idx]
    BY DEF Lines, CutBefore, FoldLeftDomain, FoldLeft, MapThenFoldSet
  <1>2. ASSUME NEW s \in SUBSET (1..Len(t)), s # {}
        PROVE  /\ Max(s) \in 1..Len(t) /\ idx[Max(s)] = Max(s)
    <2>1. Len(t) \in Nat
      OBVIOUS
    <2>2. Max(s) \in 1..Len(t)
      BY <1>2, <2>1, MaxUpTo
    <2> QED
      BY <2>2
  <1>3. DOMAIN idx = 1..Len(t)
    OBVIOUS
  <1>4. ASSUME NEW F PROVE Rec(F) <=> IsCutFold(t, Breaks(t), F)
    <2> HIDE DEF idx
    <2> QED
      BY <1>2, <1>3, ZenonT(60) DEF IsCutFold, CutPut, Breaks
  <1>5. IsCutFold(t, Breaks(t), fold)
    <2>1. \E F : Rec(F)
      <3> HIDE DEF Rec
      <3> QED
        BY <1>4, CutExists
    <2>2. Rec(fold)
      BY <2>1
    <2> HIDE DEF Rec
    <2> QED
      BY <1>4, <2>2
  <1> HIDE DEF fold
  <1> QED
    BY <1>1, <1>3, <1>5, CutValues DEF IsPieces

Numbers(t) == {i \in 1..Len(t) : t[i].line /\ t[i].step # NoStep}

(* steps where a numbered line is.                                         *)
LEMMA StepsCut ==
    ASSUME NEW t \in Seq(Word)
    PROVE  IsPieces(t, Numbers(t), split_steps(t))
  <1> DEFINE idx == [i \in DOMAIN t |-> i]
             Rec(F) == F = [s \in SUBSET DOMAIN idx |->
                              IF s = {} THEN <<>>
                              ELSE IF idx[Max(s)] = 1 \/ (t[idx[Max(s)]].line /\ t[idx[Max(s)]].step # NoStep)
                                   THEN Append(F[s \ {Max(s)}], <<t[idx[Max(s)]]>>)
                                   ELSE [F[s \ {Max(s)}] EXCEPT ![Len(F[s \ {Max(s)}])] =
                                            Append(@, t[idx[Max(s)]])]]
             fold == CHOOSE F : Rec(F)
  <1>1. split_steps(t) = fold[DOMAIN idx]
    BY DEF split_steps, CutBefore, FoldLeftDomain, FoldLeft, MapThenFoldSet
  <1>2. ASSUME NEW s \in SUBSET (1..Len(t)), s # {}
        PROVE  /\ Max(s) \in 1..Len(t) /\ idx[Max(s)] = Max(s)
    <2>1. Len(t) \in Nat
      OBVIOUS
    <2>2. Max(s) \in 1..Len(t)
      BY <1>2, <2>1, MaxUpTo
    <2> QED
      BY <2>2
  <1>3. DOMAIN idx = 1..Len(t)
    OBVIOUS
  <1>4. ASSUME NEW F PROVE Rec(F) <=> IsCutFold(t, Numbers(t), F)
    <2> HIDE DEF idx
    <2> QED
      BY <1>2, <1>3, ZenonT(60) DEF IsCutFold, CutPut, Numbers
  <1>5. IsCutFold(t, Numbers(t), fold)
    <2>1. \E F : Rec(F)
      <3> HIDE DEF Rec
      <3> QED
        BY <1>4, CutExists
    <2>2. Rec(fold)
      BY <2>1
    <2> HIDE DEF Rec
    <2> QED
      BY <1>4, <2>2
  <1> HIDE DEF fold
  <1> QED
    BY <1>1, <1>3, <1>5, CutValues DEF IsPieces

-----------------------------------------------------------------------------
(* Joining. *)

(* FlattenSeq joins one sequence of S after the other. *)
IsJoin(ss, S, acc) ==
    /\ acc \in [0..Len(ss) -> Seq(S)]
    /\ acc[0] = <<>>
    /\ \A k \in 1..Len(ss) : acc[k] = acc[k - 1] \o ss[k]

(* It does so one by one. *)
LEMMA FlattenIs ==
    ASSUME NEW S, NEW ss \in Seq(Seq(S))
    PROVE  \E acc : IsJoin(ss, S, acc) /\ FlattenSeq(ss) = acc[Len(ss)]
  <1> DEFINE n == Len(ss)
             step == [p \in (1..n) \X Seq(S) |-> p[2] \o ss[p[1]]]
             Rec(f) == f = [i \in 1..n |-> IF i = 1 THEN ss[i] ELSE f[i - 1] \o ss[i]]
             joined == CHOOSE f : Rec(f)
  <1>1. n \in Nat /\ \A k \in 1..n : ss[k] \in Seq(S)
    OBVIOUS
  <1>2. step \in [(1..n) \X Seq(S) -> Seq(S)] /\ <<>> \in Seq(S)
    BY <1>1
  <1>3. CASE n = 0
    <2> DEFINE acc == [k \in 0..n |-> <<>>]
    <2>1. ss = <<>> /\ FlattenSeq(ss) = <<>>
      BY <1>3 DEF FlattenSeq
    <2>2. IsJoin(ss, S, acc)
      BY <1>3 DEF IsJoin
    <2> QED
      BY <1>3, <2>1, <2>2
  <1>4. CASE n # 0
    <2>1. PICK F \in [SUBSET (1..n) -> Seq(S)] : IsFold(n, <<>>, step, F)
      BY <1>1, <1>2, FoldExists
    <2>2. Steps(n, Seq(S), <<>>, step, F)
      <3>1. F[{}] = <<>>
        BY <2>1 DEF IsFold
      <3> QED
        BY <2>1, <3>1 DEF IsFold, Steps
    <2>3. PICK acc : Values(n, Seq(S), <<>>, step, F[1..n], acc)
      <3> HIDE DEF step, n
      <3> QED
        BY <1>1, <1>2, <2>2, FoldValues
    <2>4. /\ acc \in [0..n -> Seq(S)] /\ acc[0] = <<>>
          /\ \A k \in 1..n : acc[k - 1] \in Seq(S) /\ acc[k] = acc[k - 1] \o ss[k]
      BY <1>1, <2>3 DEF Values
    <2>a. ASSUME NEW k \in 1..n
          PROVE  acc[k] = IF k = 1 THEN ss[k] ELSE acc[k - 1] \o ss[k]
      <3>1. ss[k] \in Seq(S) /\ <<>> \o ss[k] = ss[k]
        BY <1>1
      <3>2. k = 1 => acc[k - 1] = <<>>
        BY <2>4
      <3> QED
        BY <2>4, <3>1, <3>2
    <2>5. Rec([k \in 1..n |-> acc[k]])
      <3> DEFINE f == [k \in 1..n |-> acc[k]]
      <3>1. \A k \in 1..n : f[k] = IF k = 1 THEN ss[k] ELSE f[k - 1] \o ss[k]
        BY <2>a
      <3> QED
        BY <3>1, Zenon
    <2>6. Rec(joined)
      BY <2>5, Zenon
    <2> HIDE DEF joined
    <2>7. \A k \in 1..n : joined[k] = acc[k]
      <3> DEFINE T == {k \in 0..n : k > 0 => joined[k] = acc[k]}
      <3>1. 0 \in T
        BY <1>1
      <3>2. ASSUME NEW k \in 1..n, k - 1 \in T PROVE k \in T
        <4>1. joined[k] = IF k = 1 THEN ss[k] ELSE joined[k - 1] \o ss[k]
          BY <2>6
        <4>2. k # 1 => joined[k - 1] = acc[k - 1]
          BY <3>2
        <4>3. joined[k] = acc[k]
          BY <2>a, <4>1, <4>2
        <4> QED
          BY <4>3
      <3>3. \A k \in 0..n : k \in T
        <4> HIDE DEF T
        <4> QED
          BY <1>1, <3>1, <3>2, InductTo
      <3> QED
        BY <3>3
    <2>8. FlattenSeq(ss) = joined[n]
      BY <1>4 DEF FlattenSeq, joined
    <2>9. FlattenSeq(ss) = acc[n]
      BY <1>1, <1>4, <2>7, <2>8
    <2> QED
      BY <2>4, <2>9 DEF IsJoin
  <1> QED
    BY <1>3, <1>4

(* What is joined comes from one of the parts. *)
LEMMA FlattenFacts ==
    ASSUME NEW S, NEW ss \in Seq(Seq(S))
    PROVE  /\ FlattenSeq(ss) \in Seq(S)
           /\ \A i \in DOMAIN FlattenSeq(ss) :
                \E j \in DOMAIN ss : \E k \in DOMAIN ss[j] : FlattenSeq(ss)[i] = ss[j][k]
  <1> DEFINE n == Len(ss)
             From(x) == \E j \in DOMAIN ss : \E k \in DOMAIN ss[j] : x = ss[j][k]
  <1>1. PICK acc : IsJoin(ss, S, acc) /\ FlattenSeq(ss) = acc[n]
    BY FlattenIs
  <1> DEFINE Good(k) == \A i \in DOMAIN acc[k] : From(acc[k][i])
             T == {k \in 0..n : Good(k)}
  <1>2. n \in Nat /\ acc \in [0..n -> Seq(S)] /\ DOMAIN ss = 1..n
    BY <1>1 DEF IsJoin
  <1>3. 0 \in T
    BY <1>1, <1>2 DEF IsJoin
  <1>4. ASSUME NEW k \in 1..n, k - 1 \in T PROVE k \in T
    <2>1. Good(k - 1)
      <3> HIDE DEF Good
      <3> QED
        BY <1>4
    <2>2. acc[k] = acc[k - 1] \o ss[k] /\ acc[k - 1] \in Seq(S) /\ ss[k] \in Seq(S)
      <3>1. acc[k] = acc[k - 1] \o ss[k]
        BY <1>1 DEF IsJoin
      <3>2. k - 1 \in 0..n /\ k \in DOMAIN ss
        BY <1>2
      <3> QED
        BY <1>2, <3>1, <3>2
    <2>3. ASSUME NEW i \in DOMAIN acc[k] PROVE From(acc[k][i])
      <3>1. CASE i \in DOMAIN acc[k - 1]
        <4>1. acc[k][i] = acc[k - 1][i]
          BY <2>2, <3>1
        <4> QED
          BY <2>1, <3>1, <4>1
      <3>2. CASE i \notin DOMAIN acc[k - 1]
        <4> DEFINE a == acc[k - 1]
                   b == ss[k]
                   m == i - Len(a)
        <4>0. a \in Seq(S) /\ b \in Seq(S) /\ i \in DOMAIN (a \o b) /\ i \notin DOMAIN a
          BY <2>2, <2>3, <3>2
        <4>1. m \in DOMAIN ss[k] /\ acc[k][i] = ss[k][m]
          <5> HIDE DEF a, b
          <5>1. m \in DOMAIN b /\ (a \o b)[i] = b[m]
            BY <4>0
          <5> QED
            BY <2>2, <5>1 DEF a, b
        <4> QED
          BY <1>2, <4>1
      <3> QED
        BY <3>1, <3>2
    <2> QED
      BY <2>3
  <1>5. n \in T
    <2> HIDE DEF T
    <2> QED
      BY <1>2, <1>3, <1>4, InductTo, n \in 0..n
  <1>6. Good(n)
    <2> HIDE DEF Good
    <2> QED
      BY <1>5
  <1> QED
    BY <1>1, <1>2, <1>6

-----------------------------------------------------------------------------
(* Parts. *)

(* "No chunk exceeds the limit", except by a single word. *)
Small(t, limit) == Tokens(t) <= limit \/ Len(t) = 1

AllSmall(texts, limit) == \A i \in DOMAIN texts : Small(texts[i], limit)

(* Sentences, lines and steps are texts. *)
LEMMA CutTyped ==
    ASSUME NEW t \in Seq(Word)
    PROVE  /\ Words(t) \in Texts /\ \A i \in DOMAIN Words(t) : Len(Words(t)[i]) = 1
           /\ Sentences(t) \in Texts /\ (t # <<>> => Len(Sentences(t)) > 0)
           /\ Lines(t) \in Texts
           /\ split_steps(t) \in Texts
  BY CutFacts, WordsCut, SentencesCut, LinesCut, StepsCut DEF IsPieces

(* Parts of parts. *)
LEMMA FlattenSmall ==
    ASSUME NEW n \in Nat, NEW parts \in [1..n -> Texts], NEW limit,
           \A i \in 1..n : AllSmall(parts[i], limit)
    PROVE  FlattenSeq(parts) \in Texts /\ AllSmall(FlattenSeq(parts), limit)
  <1>1. parts \in Seq(Seq(Seq(Word))) /\ DOMAIN parts = 1..n
    BY DEF Texts
  <1>2. FlattenSeq(parts) \in Seq(Seq(Word))
    BY <1>1, FlattenFacts
  <1>3. \A i \in DOMAIN FlattenSeq(parts) :
           \E j \in DOMAIN parts : \E k \in DOMAIN parts[j] : FlattenSeq(parts)[i] = parts[j][k]
    BY <1>1, FlattenFacts
  <1> QED
    BY <1>1, <1>2, <1>3 DEF Texts, AllSmall

(* Sequences of S, joined. *)
LEMMA FlattenTyped ==
    ASSUME NEW S, NEW n \in Nat, NEW parts \in [1..n -> Seq(S)]
    PROVE  FlattenSeq(parts) \in Seq(S)
  <1>1. parts \in Seq(Seq(S))
    OBVIOUS
  <1> QED
    BY <1>1, FlattenFacts

(* Words, packed. *)
LEMMA WordParts ==
    ASSUME NEW t \in Seq(Word), NEW limit
    PROVE  /\ word_parts(t, limit) \in Texts
           /\ limit \in Int => AllSmall(word_parts(t, limit), limit)
  <1>1. Words(t) \in Texts /\ \A i \in DOMAIN Words(t) : Len(Words(t)[i]) = 1
    BY CutTyped
  <1>2. pack(Words(t), limit) \in Texts
    BY <1>1, PackTyped
  <1>3. ASSUME limit \in Int PROVE AllSmall(pack(Words(t), limit), limit)
    BY <1>1, <1>3, PackFits DEF FitsOrUnit, AllSmall, Small
  <1> QED
    BY <1>2, <1>3 DEF word_parts

(* Units, the large ones in words, *)
LEMMA BrokenInWords ==
    ASSUME NEW units \in Texts, NEW limit
    PROVE  /\ Broken(units, limit, word_parts) \in Texts
           /\ limit \in Int => AllSmall(Broken(units, limit, word_parts), limit)
  <1> DEFINE parts == [i \in DOMAIN units |->
                         IF Tokens(units[i]) > limit THEN word_parts(units[i], limit)
                         ELSE <<units[i]>>]
             n == Len(units)
  <1>1. n \in Nat /\ DOMAIN units = 1..n /\ \A i \in 1..n : units[i] \in Seq(Word)
    BY DEF Texts
  <1>2. \A i \in 1..n : parts[i] \in Texts
    BY <1>1, WordParts DEF Texts
  <1>3. parts \in [1..n -> Texts]
    BY <1>1, <1>2
  <1>4. Broken(units, limit, word_parts) = FlattenSeq(parts)
    BY DEF Broken
  <1>5. FlattenSeq(parts) \in Texts
    <2> HIDE DEF parts
    <2> QED
      BY <1>1, <1>3, FlattenTyped DEF Texts
  <1>6. ASSUME limit \in Int PROVE AllSmall(FlattenSeq(parts), limit)
    <2>1. ASSUME NEW i \in 1..n PROVE AllSmall(parts[i], limit)
      <3>1. Tokens(units[i]) \in Nat
        BY <1>1, TokensAdd
      <3>2. CASE Tokens(units[i]) > limit
        BY <1>1, <1>6, <3>2, WordParts
      <3>3. CASE ~(Tokens(units[i]) > limit)
        <4>1. parts[i] = <<units[i]>> /\ Tokens(units[i]) <= limit
          BY <1>1, <1>6, <3>1, <3>3
        <4> HIDE DEF parts
        <4>2. DOMAIN parts[i] = {1} /\ parts[i][1] = units[i]
          <5>1. ASSUME NEW x, NEW p, p = <<x>> PROVE DOMAIN p = {1} /\ p[1] = x
            BY <5>1
          <5> QED
            BY <4>1, <5>1
        <4> QED
          BY <4>1, <4>2 DEF AllSmall, Small
      <3> QED
        BY <3>2, <3>3
    <2> HIDE DEF parts
    <2> QED
      BY <1>1, <1>3, <2>1, FlattenSmall
  <1> QED
    BY <1>4, <1>5, <1>6

(* and sentences, the large ones in words, packed. *)
LEMMA SentenceParts ==
    ASSUME NEW t \in Seq(Word), NEW limit
    PROVE  /\ sentence_parts(t, limit) \in Texts
           /\ limit \in Int => AllSmall(sentence_parts(t, limit), limit)
  <1> DEFINE units == Broken(Sentences(t), limit, word_parts)
  <1>1. units \in Texts /\ (limit \in Int => AllSmall(units, limit))
    BY CutTyped, BrokenInWords
  <1>2. sentence_parts(t, limit) = pack(units, limit)
    BY DEF sentence_parts
  <1> HIDE DEF units
  <1>3. pack(units, limit) \in Texts
    BY <1>1, PackTyped
  <1>4. ASSUME limit \in Int PROVE AllSmall(pack(units, limit), limit)
    BY <1>1, <1>4, PackFits DEF FitsOrUnit, AllSmall, Small
  <1> QED
    BY <1>2, <1>3, <1>4

(* Units, the large ones in sentences. *)
LEMMA BrokenInSentences ==
    ASSUME NEW units \in Texts, NEW limit
    PROVE  Broken(units, limit, sentence_parts) \in Texts
  <1> DEFINE parts == [i \in DOMAIN units |->
                         IF Tokens(units[i]) > limit THEN sentence_parts(units[i], limit)
                         ELSE <<units[i]>>]
             n == Len(units)
  <1>1. n \in Nat /\ DOMAIN units = 1..n /\ \A i \in 1..n : units[i] \in Seq(Word)
    BY DEF Texts
  <1>2. \A i \in 1..n : parts[i] \in Texts
    BY <1>1, SentenceParts DEF Texts
  <1>3. parts \in [1..n -> Texts]
    BY <1>1, <1>2
  <1>4. Broken(units, limit, sentence_parts) = FlattenSeq(parts)
    BY DEF Broken
  <1> HIDE DEF parts
  <1> QED
    BY <1>1, <1>3, <1>4, FlattenTyped DEF Texts

(* CONTINUED is a text. *)
LEMMA ContinuedTyped == CONTINUED \in Seq(Word)
  <1>1. [id |-> <<0, 0>>, size |-> 1, stop |-> FALSE, line |-> TRUE, step |-> NoStep] \in Word
    BY DEF Word, NoStep
  <1> QED
    BY <1>1 DEF CONTINUED

(* The parts of a table and of a procedure are texts. *)
LEMMA TablePartsTyped ==
    ASSUME NEW b \in Block, NEW limit
    PROVE  table_parts(b, limit) \in Texts
  <1>1. b.text \in Seq(Word) /\ b.header \in Seq(Word)
    BY DEF Block
  <1> DEFINE body == SubSeq(b.text, Len(b.header) + 1, Len(b.text))
  <1>2. body \in Seq(Word)
    BY <1>1
  <1> HIDE DEF body
  <1>3. \A budget : pack(Broken(Lines(body), budget, word_parts), budget) \in Texts
    BY <1>2, CutTyped, BrokenInWords, PackTyped
  <1>4. ASSUME NEW groups \in Texts
        PROVE  [i \in DOMAIN groups |-> b.header \o groups[i]] \in Texts
    <2>1. Len(groups) \in Nat /\ DOMAIN groups = 1..Len(groups)
             /\ \A i \in DOMAIN groups : groups[i] \in Seq(Word)
      BY DEF Texts
    <2>2. \A i \in DOMAIN groups : b.header \o groups[i] \in Seq(Word)
      BY <1>1, <2>1
    <2> QED
      BY <2>1, <2>2 DEF Texts
  <1>5. <<b.text>> \in Texts
    BY <1>1 DEF Texts
  <1> QED
    BY <1>3, <1>4, <1>5 DEF table_parts, body

(* Parts of a procedure are texts. *)
LEMMA ProcedurePartsTyped ==
    ASSUME NEW t \in Seq(Word), NEW limit
    PROVE  procedure_parts(t, limit) \in Texts
  <1>1. \A budget : pack(Broken(split_steps(t), budget, sentence_parts), budget) \in Texts
    BY CutTyped, BrokenInSentences, PackTyped
  <1>2. ASSUME NEW parts \in Texts
        PROVE  [i \in DOMAIN parts |-> IF i = 1 THEN parts[i] ELSE CONTINUED \o parts[i]] \in Texts
    <2>1. Len(parts) \in Nat /\ DOMAIN parts = 1..Len(parts)
             /\ \A i \in DOMAIN parts : parts[i] \in Seq(Word)
      BY DEF Texts
    <2>2. \A i \in DOMAIN parts : CONTINUED \o parts[i] \in Seq(Word)
      BY <2>1, ContinuedTyped
    <2> QED
      BY <2>1, <2>2 DEF Texts
  <1>3. sentence_parts(t, limit) \in Texts
    BY SentenceParts
  <1> QED
    BY <1>1, <1>2, <1>3 DEF procedure_parts

(* The end of a text is its last sentences. *)
LEMMA TailIs ==
    ASSUME NEW t \in Seq(Word), NEW limit
    PROVE  LET s == Sentences(t) IN
           \/ tail_overlap(t, limit) = <<>>
           \/ \E m \in 1..Len(s) : tail_overlap(t, limit) = FlattenSeq(SubSeq(s, m, Len(s)))
  <1> DEFINE s == Sentences(t)
             tail(k) == FlattenSeq(SubSeq(s, Len(s) - k + 1, Len(s)))
             kept == {k \in 1..Len(s) : Tokens(tail(k)) <= limit} \cup {1}
             most == CHOOSE k \in kept : \A j \in kept : j <= k
  <1>1. CASE limit <= 0 \/ t = <<>>
    BY <1>1 DEF tail_overlap
  <1>2. CASE ~(limit <= 0 \/ t = <<>>)
    <2>1. s \in Seq(Seq(Word)) /\ Len(s) > 0
      BY <1>2, CutTyped DEF Texts
    <2> HIDE DEF s
    <2>2. Len(s) \in Nat /\ 1..Len(s) # {} /\ 1 \in 1..Len(s)
      <3>1. ASSUME NEW S, NEW q \in Seq(S), Len(q) > 0
            PROVE  Len(q) \in Nat /\ 1 \in 1..Len(q)
        BY <3>1
      <3> QED
        BY <2>1, <3>1
    <2>3. kept \in SUBSET (1..Len(s)) /\ kept # {}
      BY <2>2
    <2> HIDE DEF kept
    <2>4. \E k \in kept : \A j \in kept : j <= k
      <3>1. Max(kept) \in kept /\ \A j \in kept : Max(kept) >= j
        BY <2>2, <2>3, MaxUpTo
      <3>2. \A j \in kept : j \in Int
        BY <2>2, <2>3
      <3> QED
        BY <3>1, <3>2
    <2>5. most \in kept
      BY <2>4
    <2>6. tail_overlap(t, limit) = tail(most)
      BY <1>2 DEF tail_overlap, s, kept
    <2> HIDE DEF most
    <2>7. Len(s) - most + 1 \in 1..Len(s)
      <3>1. most \in 1..Len(s)
        BY <2>3, <2>5
      <3> QED
        BY <2>2, <3>1
    <2> QED
      BY <2>6, <2>7 DEF s
  <1> QED
    BY <1>1, <1>2

(* It is a text. *)
LEMMA TailTyped ==
    ASSUME NEW t \in Seq(Word), NEW limit
    PROVE  tail_overlap(t, limit) \in Seq(Word)
  <1> DEFINE s == Sentences(t)
  <1>1. s \in Seq(Seq(Word))
    BY CutTyped DEF Texts
  <1> HIDE DEF s
  <1>2. ASSUME NEW m \in 1..Len(s) PROVE FlattenSeq(SubSeq(s, m, Len(s))) \in Seq(Word)
    <2>1. SubSeq(s, m, Len(s)) \in Seq(Seq(Word))
      BY <1>1
    <2> QED
      BY <2>1, FlattenFacts
  <1>3. \/ tail_overlap(t, limit) = <<>>
        \/ \E m \in 1..Len(s) : tail_overlap(t, limit) = FlattenSeq(SubSeq(s, m, Len(s)))
    BY TailIs DEF s
  <1>4. <<>> \in Seq(Word)
    OBVIOUS
  <1> QED
    BY <1>2, <1>3, <1>4

-----------------------------------------------------------------------------
(* Chunks. *)

(* Joined texts are a text. *)
LEMMA JoinedTyped ==
    ASSUME NEW texts \in Texts
    PROVE  Joined(texts) \in Seq(Word)
  <1> DEFINE end(t) == [t EXCEPT ![Len(t)].stop = TRUE]
             n == Len(texts)
             parts == [i \in DOMAIN texts |-> end(texts[i])]
  <1>1. n \in Nat /\ DOMAIN texts = 1..n /\ \A i \in 1..n : texts[i] \in Seq(Word)
    BY DEF Texts
  <1>2. ASSUME NEW t \in Seq(Word) PROVE end(t) \in Seq(Word)
    <2>1. Len(t) \in Nat /\ DOMAIN t = 1..Len(t) /\ \A i \in 1..Len(t) : t[i] \in Word
      OBVIOUS
    <2>2. \A w \in Word : [w EXCEPT !.stop = TRUE] \in Word
      BY DEF Word
    <2>3. end(t) \in [1..Len(t) -> Word]
      BY <2>1, <2>2
    <2> QED
      BY <2>1, <2>3
  <1>3. parts \in [1..n -> Seq(Word)]
    BY <1>1, <1>2
  <1>4. Joined(texts) = FlattenSeq(parts)
    BY DEF Joined
  <1> HIDE DEF parts
  <1> QED
    BY <1>1, <1>3, <1>4, FlattenTyped

(* A chunk is small, or broken up until it is. *)
LEMMA PiecesFit ==
    ASSUME NEW t \in Seq(Word)
    PROVE  Pieces(t) \in Texts /\ AllSmall(Pieces(t), Ceiling)
  <1>1. Ceiling \in Int /\ Tokens(t) \in Nat
    BY ChunkerAssumption, TokensAdd
  <1>2. CASE Tokens(t) <= Ceiling
    <2>1. Pieces(t) = <<t>>
      BY <1>2 DEF Pieces
    <2>2. <<t>> \in Seq(Seq(Word)) /\ DOMAIN <<t>> = {1} /\ <<t>>[1] = t
      OBVIOUS
    <2> QED
      BY <1>2, <2>1, <2>2 DEF AllSmall, Small, Texts
  <1>3. CASE ~(Tokens(t) <= Ceiling)
    BY <1>1, <1>3, SentenceParts DEF Pieces
  <1> QED
    BY <1>2, <1>3

(* More small chunks. *)
LEMMA MoreSmall ==
    ASSUME NEW a \in Texts, NEW b \in Texts, NEW limit, AllSmall(a, limit), AllSmall(b, limit)
    PROVE  a \o b \in Texts /\ AllSmall(a \o b, limit)
  <1>1. a \in Seq(Seq(Word)) /\ b \in Seq(Seq(Word))
    BY DEF Texts
  <1>2. a \o b \in Seq(Seq(Word))
    BY <1>1
  <1>3. ASSUME NEW i \in DOMAIN (a \o b)
        PROVE  \/ i \in DOMAIN a /\ (a \o b)[i] = a[i]
               \/ i - Len(a) \in DOMAIN b /\ (a \o b)[i] = b[i - Len(a)]
    BY <1>1
  <1> QED
    BY <1>2, <1>3 DEF Texts, AllSmall

-----------------------------------------------------------------------------
(* Blocks. *)

(* The smallest of some numbers. *)
LEMMA MinOf ==
    ASSUME NEW s \in SUBSET Nat, s # {}
    PROVE  Min(s) \in s
  <1>1. \E x \in s : \A y \in s : x <= y
    BY Least
  <1> QED
    BY <1>1 DEF Min

(* FirstSeen runs over its sequence. *)
See(kept, x) == IF x \in ToSet(kept) THEN kept ELSE Append(kept, x)

IsSeen(seq, S, acc) ==
    /\ acc \in [0..Len(seq) -> Seq(S)]
    /\ acc[0] = <<>>
    /\ \A k \in 1..Len(seq) : acc[k] = See(acc[k - 1], seq[k])

(* FirstSeen sees one element after the other.                             *)
LEMMA FirstSeenIs ==
    ASSUME NEW S, NEW seq \in Seq(S)
    PROVE  \E acc : IsSeen(seq, S, acc) /\ FirstSeen(seq) = acc[Len(seq)]
  <1> DEFINE n == Len(seq)
             step == [p \in (1..n) \X Seq(S) |-> See(p[2], seq[p[1]])]
             Rec(F) == F = [s \in SUBSET DOMAIN seq |->
                              IF s = {} THEN <<>> ELSE See(F[s \ {Max(s)}], seq[Max(s)])]
             fold == CHOOSE F : Rec(F)
  <1>1. n \in Nat /\ DOMAIN seq = 1..n /\ \A k \in 1..n : seq[k] \in S
    OBVIOUS
  <1>2. step \in [(1..n) \X Seq(S) -> Seq(S)] /\ <<>> \in Seq(S)
    <2>1. ASSUME NEW kept \in Seq(S), NEW x \in S PROVE See(kept, x) \in Seq(S)
      BY DEF See
    <2> QED
      BY <1>1, <2>1
  <1>3. \E F : Rec(F)
    <2>1. PICK F \in [SUBSET (1..n) -> Seq(S)] : IsFold(n, <<>>, step, F)
      BY <1>1, <1>2, FoldExists
    <2>2. ASSUME NEW s \in SUBSET (1..n), s # {}
          PROVE  step[<<Max(s), F[s \ {Max(s)}]>>] = See(F[s \ {Max(s)}], seq[Max(s)])
      <3>1. Max(s) \in 1..n /\ F[s \ {Max(s)}] \in Seq(S)
        BY <1>1, <2>2, MaxUpTo
      <3> QED
        BY <3>1
    <2>3. F = [s \in SUBSET (1..n) |->
                  IF s = {} THEN <<>> ELSE step[<<Max(s), F[s \ {Max(s)}]>>]]
      BY <2>1 DEF IsFold
    <2> HIDE DEF step
    <2>4. F = [s \in SUBSET (1..n) |->
                  IF s = {} THEN <<>> ELSE See(F[s \ {Max(s)}], seq[Max(s)])]
      BY <2>2, <2>3
    <2> QED
      BY <1>1, <2>4
  <1>4. FirstSeen(seq) = fold[DOMAIN seq]
    BY DEF FirstSeen, FoldLeft, MapThenFoldSet, See
  <1>5. Rec(fold)
    BY <1>3
  <1> HIDE DEF fold
  <1>6. Steps(n, Seq(S), <<>>, step, fold)
    <2>1. fold[{}] = <<>>
      BY <1>5
    <2>2. ASSUME NEW s \in SUBSET (1..n), s # {}, fold[s \ {Max(s)}] \in Seq(S)
          PROVE  fold[s] = step[<<Max(s), fold[s \ {Max(s)}]>>]
      BY <1>1, <1>5, <2>2, MaxUpTo
    <2> QED
      BY <2>1, <2>2 DEF Steps
  <1>7. PICK acc : Values(n, Seq(S), <<>>, step, fold[1..n], acc)
    <2> HIDE DEF step, n
    <2> QED
      BY <1>1, <1>2, <1>6, FoldValues
  <1>8. \A k \in 1..n : acc[k] = See(acc[k - 1], seq[k])
    BY <1>1, <1>7 DEF Values
  <1>9. IsSeen(seq, S, acc) /\ fold[1..n] = acc[n]
    BY <1>1, <1>7, <1>8 DEF IsSeen, Values
  <1> QED
    BY <1>1, <1>4, <1>9

(* The first appearances in a sequence. *)
LEMMA FirstSeenTyped ==
    ASSUME NEW S, NEW seq \in Seq(S)
    PROVE  FirstSeen(seq) \in Seq(S)
  BY FirstSeenIs, Len(seq) \in 0..Len(seq) DEF IsSeen

(* A sequence made of parts, each of which says at which place the next    *)
(* one starts.                                                             *)
IsChain(n, next, part, F) ==
    F = [i \in 1..(n + 1) |-> IF i > n THEN <<>> ELSE part[i] \o F[next[i]]]

(* Its members come from the parts. *)
LEMMA ChainTyped ==
    ASSUME NEW n \in Nat, NEW S, NEW next, NEW part \in [1..n -> Seq(S)],
           \A i \in 1..n : next[i] \in (i + 1)..(n + 1),
           NEW F, IsChain(n, next, part, F)
    PROVE  F[1] \in Seq(S)
  <1> DEFINE T == {k \in 0..n : \A i \in (n + 1 - k)..(n + 1) : F[i] \in Seq(S)}
  <1>1. 0 \in T
    <2>1. ASSUME NEW i \in (n + 1 - 0)..(n + 1) PROVE F[i] \in Seq(S)
      <3>1. i = n + 1 /\ i \in 1..(n + 1)
        OBVIOUS
      <3>2. F[i] = <<>>
        BY <3>1 DEF IsChain
      <3> QED
        BY <3>2
    <2> QED
      BY <2>1
  <1>2. ASSUME NEW k \in 1..n, k - 1 \in T PROVE k \in T
    <2>1. ASSUME NEW i \in (n + 1 - k)..(n + 1) PROVE F[i] \in Seq(S)
      <3>1. CASE i > n + 1 - k
        BY <1>2, <3>1
      <3>2. CASE i = n + 1 - k
        <4>1. i \in 1..n /\ i \in 1..(n + 1) /\ ~(i > n)
          BY <3>2
        <4>2. F[i] = part[i] \o F[next[i]]
          BY <4>1 DEF IsChain
        <4>3. next[i] \in (n + 1 - (k - 1))..(n + 1)
          BY <3>2, <4>1
        <4>4. F[next[i]] \in Seq(S) /\ part[i] \in Seq(S)
          BY <1>2, <4>1, <4>3
        <4> QED
          BY <4>2, <4>4
      <3> QED
        BY <3>1, <3>2
    <2> QED
      BY <2>1
  <1>3. \A k \in 0..n : k \in T
    <2> HIDE DEF T
    <2> QED
      BY <1>1, <1>2, InductTo
  <1>4. n \in T
    <2> HIDE DEF T
    <2> QED
      BY <1>3, n \in 0..n
  <1>5. 1 \in (n + 1 - n)..(n + 1)
    OBVIOUS
  <1> QED
    BY <1>4, <1>5

(* There is one. *)
LEMMA ChainExists ==
    ASSUME NEW n \in Nat, NEW next, NEW part,
           \A i \in 1..n : next[i] \in (i + 1)..(n + 1)
    PROVE  \E F : IsChain(n, next, part, F)
  <1> DEFINE From(k, F) ==
               /\ DOMAIN F = (n + 1 - k)..(n + 1)
               /\ \A i \in (n + 1 - k)..(n + 1) :
                    F[i] = IF i > n THEN <<>> ELSE part[i] \o F[next[i]]
             T == {k \in 0..n : \E F : From(k, F)}
  <1>1. 0 \in T
    <2> DEFINE F == [i \in (n + 1 - 0)..(n + 1) |-> <<>>]
    <2>1. \A i \in (n + 1 - 0)..(n + 1) : i > n
      OBVIOUS
    <2>2. From(0, F)
      BY <2>1
    <2> HIDE DEF From, F
    <2> QED
      BY <2>2
  <1>2. ASSUME NEW k \in 1..n, k - 1 \in T PROVE k \in T
    <2>1. PICK F : From(k - 1, F)
      BY <1>2
    <2> DEFINE j == n + 1 - k
               G == [i \in (n + 1 - k)..(n + 1) |->
                       IF i = j THEN part[j] \o F[next[j]] ELSE F[i]]
    <2>2. j \in 1..n /\ next[j] \in (j + 1)..(n + 1)
      OBVIOUS
    <2>3. ASSUME NEW i \in (n + 1 - k)..(n + 1)
          PROVE  G[i] = IF i > n THEN <<>> ELSE part[i] \o G[next[i]]
      <3>1. CASE i = j
        <4>1. G[i] = part[j] \o F[next[j]]
          BY <3>1
        <4>2. next[j] \in (n + 1 - k)..(n + 1) /\ next[j] # j
          BY <2>2
        <4>3. G[next[j]] = F[next[j]]
          BY <4>2
        <4>4. ~(i > n)
          BY <2>2, <3>1
        <4> HIDE DEF G, j
        <4> QED
          BY <3>1, <4>1, <4>3, <4>4
      <3>2. CASE i # j
        <4>1. i \in (n + 1 - (k - 1))..(n + 1) /\ G[i] = F[i]
          BY <3>2
        <4>2. F[i] = IF i > n THEN <<>> ELSE part[i] \o F[next[i]]
          BY <2>1, <4>1
        <4>3. CASE i > n
          BY <4>1, <4>2, <4>3
        <4>4. CASE ~(i > n)
          <5>1. i \in 1..n
            BY <4>1, <4>4
          <5>2. next[i] \in (i + 1)..(n + 1)
            BY <5>1
          <5>3. next[i] \in (n + 1 - k)..(n + 1) /\ next[i] # j
            BY <4>1, <5>2
          <5>4. G[next[i]] = F[next[i]]
            BY <5>3
          <5> QED
            BY <4>1, <4>2, <4>4, <5>4
        <4> QED
          BY <4>3, <4>4
      <3> QED
        BY <3>1, <3>2
    <2>4. DOMAIN G = (n + 1 - k)..(n + 1)
      OBVIOUS
    <2> HIDE DEF G
    <2>5. From(k, G)
      BY <2>3, <2>4
    <2> HIDE DEF From, G
    <2> QED
      BY <2>5
  <1>3. \A k \in 0..n : k \in T
    <2> HIDE DEF T
    <2> QED
      BY <1>1, <1>2, InductTo
  <1>4. PICK F : From(n, F)
    BY <1>3
  <1>5. n + 1 - n = 1
    OBVIOUS
  <1>6. \E G : IsChain(n, next, part, G)
    <2> DEFINE G == [i \in 1..(n + 1) |-> F[i]]
    <2>1. ASSUME NEW i \in 1..(n + 1)
          PROVE  G[i] = IF i > n THEN <<>> ELSE part[i] \o G[next[i]]
      <3>1. F[i] = IF i > n THEN <<>> ELSE part[i] \o F[next[i]]
        BY <1>4, <1>5
      <3>2. CASE i > n
        BY <3>1, <3>2
      <3>3. CASE ~(i > n)
        <4>1. next[i] \in 1..(n + 1)
          <5>1. i \in 1..n
            BY <3>3
          <5>2. next[i] \in (i + 1)..(n + 1)
            BY <5>1
          <5> QED
            BY <5>2
        <4> QED
          BY <3>1, <3>3, <4>1
      <3> QED
        BY <3>2, <3>3
    <2>2. G = [i \in 1..(n + 1) |-> G[i]]
      OBVIOUS
    <2> HIDE DEF G
    <2>3. G = [i \in 1..(n + 1) |-> IF i > n THEN <<>> ELSE part[i] \o G[next[i]]]
      BY <2>1, <2>2
    <2> QED
      BY <2>3 DEF IsChain
  <1> QED
    BY <1>6

(* A procedure ends after its first block and within the document. *)
LEMMA RunEndIs ==
    ASSUME NEW bs \in Seq(Block), NEW i \in 1..Len(bs)
    PROVE  RunEnd(bs, i) \in (i + 1)..(Len(bs) + 1)
  <1> DEFINE n == Len(bs)
             ends == {c \in (i + 1)..(n + 1) : c = n + 1 \/ ~Continues(bs, i, c)}
  <1>1. n \in Nat /\ i \in 1..n
    OBVIOUS
  <1> HIDE DEF n
  <1>2. n + 1 \in (i + 1)..(n + 1) /\ (i + 1)..(n + 1) \in SUBSET Nat
    BY <1>1
  <1>3. ends \in SUBSET Nat /\ ends # {}
    BY <1>2
  <1>4. RunEnd(bs, i) = Min(ends)
    BY DEF RunEnd, n
  <1>5. ends \subseteq (i + 1)..(n + 1)
    OBVIOUS
  <1> HIDE DEF ends
  <1>6. Min(ends) \in ends
    BY <1>3, MinOf
  <1> QED
    BY <1>4, <1>5, <1>6 DEF n

(* A parsed block: a table's header begins the table, and one that may not *)
(* be broken has none.                                                     *)
Parsed == {b \in Block : IsPrefix(b.header, b.text) /\ (b.atomic => b.header = <<>>)}

(* Such blocks are blocks.                                                 *)
LEMMA ParsedAreBlocks ==
    ASSUME NEW bs \in Seq(Parsed)
    PROVE  bs \in Seq(Block) /\ \A i \in 1..Len(bs) : bs[i] \in Block
  <1>1. Len(bs) \in Nat /\ \A i \in 1..Len(bs) : bs[i] \in Block
    BY DEF Parsed
  <1>2. bs \in [1..Len(bs) -> Block]
    BY <1>1
  <1> QED
    BY <1>1, <1>2

(* Blocks of a procedure make one block, *)
LEMMA MergedTyped ==
    ASSUME NEW bs \in Seq(Parsed), NEW i \in 1..Len(bs), NEW j \in i..Len(bs)
    PROVE  Merged(bs, i, j) \in Parsed
  <1> DEFINE n == j - i + 1
             texts == [k \in 1..n |-> bs[i + k - 1].text]
  <1>1. n \in Nat
    OBVIOUS
  <1>2. ASSUME NEW k \in 1..n PROVE bs[i + k - 1].text \in Seq(Word)
    <2>1. i + k - 1 \in 1..Len(bs)
      OBVIOUS
    <2>2. bs[i + k - 1] \in Block
      BY <2>1, ParsedAreBlocks
    <2> QED
      BY <2>2 DEF Block
  <1>3. texts \in [1..n -> Seq(Word)]
    BY <1>2
  <1>4. bs[i].slide \in Int
    <2>1. bs[i] \in Block
      BY ParsedAreBlocks
    <2> QED
      BY <2>1 DEF Block
  <1>5. FlattenSeq(texts) \in Seq(Word)
    <2> HIDE DEF texts, n
    <2> QED
      BY <1>1, <1>3, FlattenTyped
  <1>6. Merged(bs, i, j) =
          [kind |-> "list", header |-> <<>>, slide |-> bs[i].slide, atomic |-> TRUE,
           text |-> FlattenSeq(texts)]
    BY DEF Merged
  <1> HIDE DEF texts
  <1>7. ASSUME NEW slide \in Int, NEW text \in Seq(Word)
        PROVE  [kind |-> "list", header |-> <<>>, slide |-> slide, atomic |-> TRUE,
                text |-> text] \in Parsed
    <2>1. ASSUME NEW header \in Seq(Word), NEW kind \in BlockKind, NEW atomic \in BOOLEAN
          PROVE  [kind |-> kind, header |-> header, slide |-> slide, atomic |-> atomic,
                  text |-> text] \in Block
      BY DEF Block
    <2>2. <<>> \in Seq(Word)
      OBVIOUS
    <2>3. "list" \in BlockKind
      BY DEF BlockKind
    <2>4. IsPrefix(<<>>, text)
      <3>1. SubSeq(text, 1, 0) = <<>> /\ SubSeq(<<>>, 1, 0) = <<>> /\ Len(<<>>) = 0
        BY <2>2
      <3>2. 0 <= Len(text)
        OBVIOUS
      <3> QED
        BY <3>1, <3>2 DEF IsPrefix
    <2> QED
      BY <2>1, <2>2, <2>3, <2>4 DEF Parsed
  <1> QED
    BY <1>4, <1>5, <1>6, <1>7

(* and grouping is a chain of merged blocks and of blocks as they were. *)
NextPlace(bs) == [i \in 1..Len(bs) |-> IF IsProcedure(bs, i) THEN RunEnd(bs, i) ELSE i + 1]

PartAt(bs) ==
    [i \in 1..Len(bs) |->
        IF IsProcedure(bs, i) THEN <<Merged(bs, i, RunEnd(bs, i) - 1)>> ELSE <<bs[i]>>]

(* group_numbered_procedures goes from place to place.                     *)
LEMMA GroupedIs ==
    ASSUME NEW bs \in Seq(Block)
    PROVE  /\ \A i \in 1..Len(bs) : NextPlace(bs)[i] \in (i + 1)..(Len(bs) + 1)
           /\ \E F : /\ IsChain(Len(bs), NextPlace(bs), PartAt(bs), F)
                    /\ group_numbered_procedures(bs) = F[1]
  <1> DEFINE n == Len(bs)
             next == NextPlace(bs)
             part == PartAt(bs)
             Rec(F) == F = [i \in 1..(n + 1) |->
                              IF i > n THEN <<>>
                              ELSE IF IsProcedure(bs, i)
                              THEN <<Merged(bs, i, RunEnd(bs, i) - 1)>> \o F[RunEnd(bs, i)]
                              ELSE <<bs[i]>> \o F[i + 1]]
             from == CHOOSE F : Rec(F)
  <1>1. n \in Nat
    OBVIOUS
  <1>2. ASSUME NEW i \in 1..n PROVE next[i] \in (i + 1)..(n + 1)
    <2>1. RunEnd(bs, i) \in (i + 1)..(n + 1)
      BY RunEndIs
    <2>2. i + 1 \in (i + 1)..(n + 1)
      OBVIOUS
    <2> QED
      BY <2>1, <2>2 DEF NextPlace
  <1>3. ASSUME NEW F PROVE IsChain(n, next, part, F) <=> Rec(F)
    <2> DEFINE A(i) == IF i > n THEN <<>> ELSE part[i] \o F[next[i]]
               B(i) == IF i > n THEN <<>>
                       ELSE IF IsProcedure(bs, i)
                       THEN <<Merged(bs, i, RunEnd(bs, i) - 1)>> \o F[RunEnd(bs, i)]
                       ELSE <<bs[i]>> \o F[i + 1]
    <2>1. ASSUME NEW i \in 1..(n + 1) PROVE A(i) = B(i)
      <3>1. CASE i > n
        BY <3>1
      <3>2. CASE ~(i > n)
        <4>1. i \in 1..n
          BY <3>2
        <4> QED
          BY <3>2, <4>1 DEF NextPlace, PartAt
      <3> QED
        BY <3>1, <3>2
    <2>2. IsChain(n, next, part, F) <=> F = [i \in 1..(n + 1) |-> A(i)]
      BY DEF IsChain
    <2>3. Rec(F) <=> F = [i \in 1..(n + 1) |-> B(i)]
      OBVIOUS
    <2> HIDE DEF A, B, Rec, next, part
    <2> QED
      BY <2>1, <2>2, <2>3
  <1>4. group_numbered_procedures(bs) = from[1]
    BY DEF group_numbered_procedures
  <1>5. \E F : Rec(F)
    <2> HIDE DEF Rec, next, part
    <2> QED
      BY <1>1, <1>2, <1>3, ChainExists
  <1>6. Rec(from)
    <2> HIDE DEF Rec
    <2> QED
      BY <1>5
  <1> HIDE DEF from, Rec
  <1>7. IsChain(n, next, part, from)
    BY <1>3, <1>6
  <1> QED
    BY <1>2, <1>4, <1>7

(* The blocks that are left are blocks. *)
LEMMA GroupedTyped ==
    ASSUME NEW bs \in Seq(Parsed)
    PROVE  group_numbered_procedures(bs) \in Seq(Parsed)
  <1> DEFINE n == Len(bs)
  <1>1. n \in Nat /\ bs \in Seq(Block)
    BY ParsedAreBlocks
  <1>2. PICK F : /\ IsChain(n, NextPlace(bs), PartAt(bs), F)
                 /\ group_numbered_procedures(bs) = F[1]
    BY <1>1, GroupedIs
  <1>3. \A i \in 1..n : NextPlace(bs)[i] \in (i + 1)..(n + 1)
    BY <1>1, GroupedIs
  <1>4. ASSUME NEW i \in 1..n PROVE PartAt(bs)[i] \in Seq(Parsed)
    <2>1. RunEnd(bs, i) \in (i + 1)..(n + 1)
      BY <1>1, RunEndIs
    <2>2. RunEnd(bs, i) - 1 \in i..n
      BY <2>1
    <2>3. Merged(bs, i, RunEnd(bs, i) - 1) \in Parsed
      BY <2>2, MergedTyped
    <2>4. bs[i] \in Parsed
      OBVIOUS
    <2> QED
      BY <2>3, <2>4 DEF PartAt
  <1>5. PartAt(bs) \in [1..n -> Seq(Parsed)]
    BY <1>4 DEF PartAt
  <1> QED
    BY <1>1, <1>2, <1>3, <1>5, ChainTyped

-----------------------------------------------------------------------------
(* The slides of a deck. *)
LEMMA SlidesTyped ==
    ASSUME NEW bs \in Seq(Block)
    PROVE  /\ DOMAIN Slides(bs) = 1..Len(Slides(bs)) /\ Len(Slides(bs)) \in Nat
           /\ \A k \in DOMAIN Slides(bs) : Slides(bs)[k] \in Seq(Block)
  <1> DEFINE slides == [i \in DOMAIN bs |-> SlideOf(bs[i])]
             order == FirstSeen(slides)
             one(s) == [i \in DOMAIN bs |-> IF SlideOf(bs[i]) = s THEN <<bs[i]>> ELSE <<>>]
  <1>1. Len(bs) \in Nat /\ DOMAIN bs = 1..Len(bs) /\ \A i \in 1..Len(bs) : bs[i] \in Block
    OBVIOUS
  <1>2. \A b \in Block : SlideOf(b) \in Int
    BY DEF SlideOf, Block
  <1>3. slides \in Seq(Int)
    BY <1>1, <1>2
  <1>4. order \in Seq(Int)
    <2> HIDE DEF slides
    <2> QED
      BY <1>3, FirstSeenTyped
  <1>5. Slides(bs) = [k \in DOMAIN order |-> FlattenSeq(one(order[k]))]
    BY DEF Slides, OnSlide
  <1>6. ASSUME NEW s PROVE FlattenSeq(one(s)) \in Seq(Block)
    <2>1. one(s) \in [1..Len(bs) -> Seq(Block)]
      BY <1>1
    <2> HIDE DEF one
    <2> QED
      BY <1>1, <2>1, FlattenTyped
  <1> HIDE DEF order, one
  <1>7. DOMAIN order = 1..Len(order) /\ Len(order) \in Nat
    BY <1>4
  <1> QED
    BY <1>5, <1>6, <1>7

(* The text of a slide is a text, *)
LEMMA SlideTextTyped ==
    ASSUME NEW bs \in Seq(Block)
    PROVE  SlideText(bs) \in Seq(Word)
  <1> DEFINE texts == [i \in DOMAIN bs |-> bs[i].text]
  <1>1. texts \in Texts
    <2>1. \A b \in Block : b.text \in Seq(Word)
      BY DEF Block
    <2>2. Len(bs) \in Nat /\ DOMAIN bs = 1..Len(bs) /\ \A i \in 1..Len(bs) : bs[i] \in Block
      OBVIOUS
    <2>3. texts \in [1..Len(bs) -> Seq(Word)]
      BY <2>1, <2>2
    <2> QED
      BY <2>2, <2>3 DEF Texts
  <1> HIDE DEF texts
  <1>2. Joined(texts) \in Seq(Word)
    BY <1>1, JoinedTyped
  <1> QED
    BY <1>2 DEF SlideText, texts

(* and what it is broken into is small. *)
LEMMA SlidesFit ==
    ASSUME NEW bs \in Seq(Block)
    PROVE  LET chunks == FlattenSeq([k \in DOMAIN Slides(bs) |-> Pieces(SlideText(Slides(bs)[k]))])
           IN  chunks \in Texts /\ AllSmall(chunks, Ceiling)
  <1> DEFINE parts == [k \in DOMAIN Slides(bs) |-> Pieces(SlideText(Slides(bs)[k]))]
             n == Len(Slides(bs))
  <1>1. n \in Nat /\ DOMAIN Slides(bs) = 1..n
    BY SlidesTyped
  <1>2. ASSUME NEW k \in 1..n PROVE parts[k] \in Texts /\ AllSmall(parts[k], Ceiling)
    <2>1. Slides(bs)[k] \in Seq(Block)
      BY <1>1, SlidesTyped
    <2>2. SlideText(Slides(bs)[k]) \in Seq(Word)
      BY <2>1, SlideTextTyped
    <2> QED
      BY <1>1, <2>2, PiecesFit
  <1>3. parts \in [1..n -> Texts]
    BY <1>1, <1>2
  <1> HIDE DEF parts, n
  <1>4. FlattenSeq(parts) \in Texts /\ AllSmall(FlattenSeq(parts), Ceiling)
    BY <1>1, <1>2, <1>3, FlattenSmall
  <1> QED
    BY <1>4 DEF parts

-----------------------------------------------------------------------------
(* What is left of a block. *)
Part == [alone : BOOLEAN, text : Seq(Word)]

(* Parts of a block, each alone or not, *)
LEMMA EachTyped ==
    ASSUME NEW alone \in BOOLEAN, NEW texts \in Texts
    PROVE  Each(alone, texts) \in Seq(Part)
  <1>1. Len(texts) \in Nat /\ DOMAIN texts = 1..Len(texts)
        /\ \A i \in 1..Len(texts) : texts[i] \in Seq(Word)
    BY DEF Texts
  <1>2. \A t \in Seq(Word) : [alone |-> alone, text |-> t] \in Part
    BY DEF Part
  <1>3. Each(alone, texts) \in [1..Len(texts) -> Part]
    BY <1>1, <1>2 DEF Each
  <1> QED
    BY <1>1, <1>3

(* which is what a block is turned into. *)
LEMMA PlanTyped ==
    ASSUME NEW b \in Block
    PROVE  Plan(b) \in Seq(Part)
  <1>1. b.text \in Seq(Word)
    BY DEF Block
  <1>2. /\ table_parts(b, Target) \in Texts
        /\ procedure_parts(b.text, Ceiling) \in Texts
        /\ sentence_parts(b.text, Target) \in Texts
    BY <1>1, TablePartsTyped, ProcedurePartsTyped, SentenceParts
  <1>3. <<b.text>> \in Texts
    BY <1>1 DEF Texts
  <1>4. /\ Each(TRUE, table_parts(b, Target)) \in Seq(Part)
        /\ Each(TRUE, procedure_parts(b.text, Ceiling)) \in Seq(Part)
        /\ Each(FALSE, sentence_parts(b.text, Target)) \in Seq(Part)
        /\ Each(FALSE, <<b.text>>) \in Seq(Part)
    BY <1>2, <1>3, EachTyped
  <1> QED
    BY <1>4, Zenon DEF Plan

(* What the chunker holds: blocks, parts of blocks and texts, and chunks   *)
(* none of which is above the ceiling unless it is a word.                 *)
ChunkInv ==
    /\ document \in Seq(Parsed) /\ blocks \in Seq(Parsed)
    /\ todo \in Seq(Part)
    /\ buffer \in Texts /\ carried \in Seq(Word)
    /\ drafts \in Texts /\ AllSmall(drafts, Ceiling)

(* A flush adds small chunks, *)
LEMMA FlushedFits ==
    ASSUME ChunkInv
    PROVE  Flushed(buffer) \in Texts /\ AllSmall(Flushed(buffer), Ceiling)
  <1>1. Joined(buffer) \in Seq(Word)
    BY JoinedTyped DEF ChunkInv
  <1>2. Pieces(Joined(buffer)) \in Texts /\ AllSmall(Pieces(Joined(buffer)), Ceiling)
    BY <1>1, PiecesFit
  <1>3. drafts \in Texts /\ AllSmall(drafts, Ceiling)
    BY DEF ChunkInv
  <1>4. /\ drafts \o Pieces(Joined(buffer)) \in Texts
        /\ AllSmall(drafts \o Pieces(Joined(buffer)), Ceiling)
    BY <1>2, <1>3, MoreSmall
  <1> QED
    BY <1>3, <1>4, Zenon DEF Flushed

(* carries a text over, *)
LEMMA CarriedTyped ==
    ASSUME ChunkInv
    PROVE  CarriedFrom(buffer) \in Seq(Word)
  <1>1. Joined(buffer) \in Seq(Word)
    BY JoinedTyped DEF ChunkInv
  <1>2. tail_overlap(Joined(buffer), Overlap) \in Seq(Word) /\ carried \in Seq(Word)
    BY <1>1, TailTyped DEF ChunkInv
  <1> QED
    BY <1>2, Zenon DEF CarriedFrom

(* and a part that is taken leaves parts. *)
LEMMA HeadOfTodo ==
    ASSUME ChunkInv, todo # <<>>
    PROVE  /\ Head(todo).alone \in BOOLEAN /\ Head(todo).text \in Seq(Word)
           /\ Tail(todo) \in Seq(Part)
  <1>1. Head(todo) \in Part /\ Tail(todo) \in Seq(Part)
    BY DEF ChunkInv
  <1> QED
    BY <1>1 DEF Part

(* Each step keeps ChunkInv. *)
LEMMA AddFits == ChunkInv /\ Add => ChunkInv'
  <1> SUFFICES ASSUME ChunkInv, Add PROVE ChunkInv'
    OBVIOUS
  <1> DEFINE t == Head(todo).text
             overlap == IF Fits(t) THEN carried ELSE CarriedFrom(buffer)
             kept == IF Fits(t) THEN buffer ELSE <<>>
             first == IF kept = <<>> THEN Started(overlap) ELSE kept
  <1>1. t \in Seq(Word) /\ Tail(todo) \in Seq(Part)
    BY HeadOfTodo DEF Add
  <1>2. overlap \in Seq(Word)
    BY CarriedTyped DEF ChunkInv
  <1>3. kept \in Texts
    BY DEF ChunkInv, Texts
  <1>4. buffer' = Append(first, t) /\ carried' = IF kept = <<>> THEN <<>> ELSE overlap
    BY Zenon DEF Add
  <1>5. drafts' = IF Fits(t) THEN drafts ELSE Flushed(buffer)
    BY Zenon DEF Add
  <1>6. todo' = Tail(todo) /\ document' = document /\ blocks' = blocks
    BY DEF Add
  <1> HIDE DEF t, overlap, kept
  <1>7. Started(overlap) \in Texts
    BY <1>2 DEF Started, Texts
  <1>8. first \in Texts
    BY <1>3, <1>7
  <1> HIDE DEF first
  <1>9. buffer' \in Texts
    BY <1>1, <1>4, <1>8 DEF Texts
  <1>10. carried' \in Seq(Word)
    BY <1>2, <1>4
  <1>11. drafts' \in Texts /\ AllSmall(drafts', Ceiling)
    BY <1>5, FlushedFits, Zenon DEF ChunkInv
  <1> QED
    BY <1>1, <1>6, <1>9, <1>10, <1>11 DEF ChunkInv

(* emit_standalone keeps the chunks small, too.                            *)
LEMMA EmitFits == ChunkInv /\ EmitStandalone => ChunkInv'
  <1> SUFFICES ASSUME ChunkInv, EmitStandalone PROVE ChunkInv'
    OBVIOUS
  <1> DEFINE pieces == Pieces(Joined(<<Head(todo).text>>))
  <1>1. Head(todo).text \in Seq(Word) /\ Tail(todo) \in Seq(Part)
    BY HeadOfTodo DEF EmitStandalone
  <1>2. <<Head(todo).text>> \in Texts
    BY <1>1 DEF Texts
  <1>3. Joined(<<Head(todo).text>>) \in Seq(Word)
    BY <1>2, JoinedTyped
  <1>4. pieces \in Texts /\ AllSmall(pieces, Ceiling)
    BY <1>3, PiecesFit
  <1>5. /\ drafts' = Flushed(buffer) \o pieces /\ buffer' = <<>> /\ carried' = <<>>
        /\ todo' = Tail(todo) /\ document' = document /\ blocks' = blocks
    BY DEF EmitStandalone
  <1> HIDE DEF pieces
  <1>6. Flushed(buffer) \o pieces \in Texts /\ AllSmall(Flushed(buffer) \o pieces, Ceiling)
    BY <1>4, FlushedFits, MoreSmall
  <1>7. <<>> \in Seq(Word) /\ <<>> \in Texts
    BY DEF Texts
  <1>8. document \in Seq(Parsed) /\ blocks \in Seq(Parsed)
    BY DEF ChunkInv
  <1> QED
    BY <1>1, <1>5, <1>6, <1>7, <1>8 DEF ChunkInv

(* A document is made of parsed blocks. *)
LEMMA DocumentsParsed ==
    ASSUME NEW doc \in Documents
    PROVE  doc \in Seq(Parsed)
  <1>1. /\ doc \in Seq(Block)
        /\ \A i \in DOMAIN doc :
             IsPrefix(doc[i].header, doc[i].text) /\ (doc[i].atomic => doc[i].header = <<>>)
    BY ChunkerAssumption
  <1>2. Len(doc) \in Nat /\ DOMAIN doc = 1..Len(doc) /\ \A i \in 1..Len(doc) : doc[i] \in Block
    BY <1>1
  <1>3. doc \in [1..Len(doc) -> Parsed]
    <2>1. ASSUME NEW i \in 1..Len(doc) PROVE doc[i] \in Parsed
      <3>1. i \in DOMAIN doc /\ doc[i] \in Block
        BY <1>2
      <3>2. IsPrefix(doc[i].header, doc[i].text) /\ (doc[i].atomic => doc[i].header = <<>>)
        BY <1>1, <3>1, Zenon
      <3> QED
        BY <3>1, <3>2, Zenon DEF Parsed
    <2>2. doc = [i \in 1..Len(doc) |-> doc[i]]
      BY <1>1
    <2> QED
      BY <2>1, <2>2
  <1> QED
    BY <1>2, <1>3

(* So it is at the start,                                                  *)
LEMMA InitFits == Init => ChunkInv
  <1> SUFFICES ASSUME Init PROVE ChunkInv
    OBVIOUS
  <1>1. document \in Seq(Parsed)
    BY DocumentsParsed DEF Init
  <1>2. blocks \in Seq(Parsed)
    BY <1>1, GroupedTyped, Zenon DEF Init
  <1>3. todo = <<>> /\ buffer = <<>> /\ carried = <<>> /\ drafts = <<>>
    BY DEF Init
  <1>4. <<>> \in Seq(Part) /\ <<>> \in Seq(Word) /\ <<>> \in Texts /\ DOMAIN <<>> = {}
    BY DEF Texts
  <1>5. AllSmall(<<>>, Ceiling)
    BY <1>4 DEF AllSmall
  <1> QED
    BY <1>1, <1>2, <1>3, <1>4, <1>5 DEF ChunkInv

(* and after every step.                                                   *)
LEMMA NextFits == ChunkInv /\ [Next]_vars => ChunkInv'
  <1> SUFFICES ASSUME ChunkInv, [Next]_vars PROVE ChunkInv'
    OBVIOUS
  <1>1. CASE NextBlock
    <2>1. Head(blocks) \in Block /\ Tail(blocks) \in Seq(Parsed)
      BY <1>1 DEF ChunkInv, NextBlock, Parsed
    <2>2. Plan(Head(blocks)) \in Seq(Part)
      BY <2>1, PlanTyped
    <2> QED
      BY <1>1, <2>1, <2>2 DEF ChunkInv, NextBlock
  <1>2. CASE Add
    BY <1>2, AddFits
  <1>3. CASE EmitStandalone
    BY <1>3, EmitFits
  <1>4. CASE Finish
    <2>1. <<>> \in Texts
      BY DEF Texts
    <2>2. Flushed(buffer) \in Texts /\ AllSmall(Flushed(buffer), Ceiling)
      BY FlushedFits
    <2>3. CarriedFrom(buffer) \in Seq(Word)
      BY CarriedTyped
    <2> QED
      BY <1>4, <2>1, <2>2, <2>3 DEF ChunkInv, Finish
  <1>5. CASE ChunkSlides
    <2> DEFINE chunks == FlattenSeq([k \in DOMAIN Slides(document) |->
                                       Pieces(SlideText(Slides(document)[k]))])
    <2>1. chunks \in Texts /\ AllSmall(chunks, Ceiling)
      BY SlidesFit, ParsedAreBlocks DEF ChunkInv
    <2>2. /\ drafts' = chunks /\ blocks' = <<>>
          /\ UNCHANGED <<document, todo, buffer, carried>>
      BY <1>5 DEF ChunkSlides
    <2> HIDE DEF chunks
    <2>3. <<>> \in Seq(Parsed)
      OBVIOUS
    <2> QED
      BY <2>1, <2>2, <2>3 DEF ChunkInv
  <1>6. CASE UNCHANGED vars
    BY <1>6 DEF ChunkInv, vars
  <1> QED
    BY <1>1, <1>2, <1>3, <1>4, <1>5, <1>6 DEF Next

(* Whatever the document, the target, the overlap and the ceiling, no      *)
(* chunk is above the ceiling, unless it is one word that is: neither the  *)
(* overlap a chunk starts with, nor a procedure or a table kept whole, nor *)
(* a dense slide gets past it (_emit, emit_standalone, _chunk_slides).     *)
THEOREM NoChunkAboveTheCeiling == Spec => []UnderTheCeiling
  <1>1. ChunkInv => UnderTheCeiling
    BY DEF ChunkInv, AllSmall, Small, UnderTheCeiling
  <1> QED
    BY InitFits, NextFits, <1>1, PTL DEF Spec

-----------------------------------------------------------------------------
(* Sequences, one element after the other. *)

(* A set with the empty sequence and what is one longer than each member.  *)
LEMMA SeqInduct ==
    ASSUME NEW S, NEW T, <<>> \in T,
           \A s \in Seq(S), x \in S : s \in T => Append(s, x) \in T
    PROVE  \A s \in Seq(S) : s \in T
  <1> SUFFICES ASSUME NEW s \in Seq(S) PROVE s \in T
    OBVIOUS
  <1> DEFINE n == Len(s)
             G == {k \in 0..n : SubSeq(s, 1, k) \in T}
  <1>1. n \in Nat
    OBVIOUS
  <1>2. 0 \in G
    <2>1. SubSeq(s, 1, 0) = <<>>
      OBVIOUS
    <2>2. SubSeq(s, 1, 0) \in T
      BY <2>1, Zenon
    <2>3. 0 \in 0..n
      BY <1>1
    <2> QED
      BY <2>2, <2>3, Zenon
  <1>3. ASSUME NEW k \in 1..n, k - 1 \in G PROVE k \in G
    <2>1. SubSeq(s, 1, k - 1) \in Seq(S) /\ s[k] \in S
      OBVIOUS
    <2>2. SubSeq(s, 1, k) = SubSeq(s, 1, k - 1) \o <<s[k]>>
      BY SubSeqRecursiveSecond, 1 \in 1..Len(s), k \in 1..Len(s)
    <2>3. SubSeq(s, 1, k) = Append(SubSeq(s, 1, k - 1), s[k])
      BY <2>1, <2>2, AppendIsConcat
    <2>4. SubSeq(s, 1, k) \in T
      BY <1>3, <2>1, <2>3
    <2> QED
      BY <2>4
  <1>4. \A k \in 0..n : k \in G
    <2> HIDE DEF G, n
    <2> QED
      BY <1>1, <1>2, <1>3, InductTo
  <1>5. SubSeq(s, 1, n) \in T
    BY <1>1, <1>4
  <1> QED
    BY <1>5, SubSeqFull

(* What FlattenSeq makes of nothing and of one more. *)
LEMMA FlattenMore ==
    ASSUME NEW S, NEW ss \in Seq(Seq(S)), NEW t \in Seq(S)
    PROVE  /\ FlattenSeq(<<>>) = <<>>
           /\ FlattenSeq(Append(ss, t)) = FlattenSeq(ss) \o t
  <1> DEFINE n == Len(ss)
             more == Append(ss, t)
  <1>1. FlattenSeq(<<>>) = <<>>
    BY DEF FlattenSeq
  <1>2. PICK a : IsJoin(ss, S, a) /\ FlattenSeq(ss) = a[n]
    BY FlattenIs
  <1>3. /\ n \in Nat /\ more \in Seq(Seq(S)) /\ Len(more) = n + 1
        /\ more[n + 1] = t /\ \A k \in 1..n : more[k] = ss[k]
    OBVIOUS
  <1> HIDE DEF more, n
  <1>4. PICK b : IsJoin(more, S, b) /\ FlattenSeq(more) = b[n + 1]
    BY <1>3, FlattenIs
  <1> DEFINE G == {k \in 0..n : a[k] = b[k]}
  <1>5. 0 \in G
    BY <1>2, <1>3, <1>4 DEF IsJoin
  <1>6. ASSUME NEW k \in 1..n, k - 1 \in G PROVE k \in G
    <2>1. a[k] = a[k - 1] \o ss[k]
      BY <1>2 DEF IsJoin, n
    <2>2. b[k] = b[k - 1] \o more[k]
      <3>1. k \in 1..Len(more)
        BY <1>3
      <3> QED
        BY <1>4, <3>1 DEF IsJoin
    <2>3. a[k] = b[k]
      BY <1>3, <1>6, <2>1, <2>2
    <2> QED
      BY <2>3
  <1>7. \A k \in 0..n : k \in G
    <2> HIDE DEF G
    <2> QED
      BY <1>3, <1>5, <1>6, InductTo
  <1>8. a[n] = b[n]
    <2>1. n \in Nat
      BY <1>3
    <2>2. n \in 0..n
      BY <2>1
    <2> QED
      BY <1>7, <2>2
  <1>9. b[n + 1] = b[n] \o t
    <2>1. \A k \in 1..Len(more) : b[k] = b[k - 1] \o more[k]
      BY <1>4 DEF IsJoin
    <2>2. ASSUME NEW k, k = n + 1 PROVE b[k] = b[n] \o t
      <3>1. k \in 1..Len(more) /\ k - 1 = n /\ more[k] = t
        BY <1>3, <2>2
      <3> QED
        BY <2>1, <3>1
    <2> QED
      BY <2>2
  <1> QED
    BY <1>1, <1>2, <1>4, <1>8, <1>9 DEF more

(* One sequence, concatenated, is itself.                                  *)
LEMMA FlattenOne ==
    ASSUME NEW S, NEW t \in Seq(S)
    PROVE  FlattenSeq(<<t>>) = t
  <1>1. <<>> \in Seq(Seq(S)) /\ Append(<<>>, t) = <<t>> /\ <<>> \o t = t
    OBVIOUS
  <1>2. FlattenSeq(Append(<<>>, t)) = FlattenSeq(<<>>) \o t
    BY <1>1, FlattenMore
  <1>3. FlattenSeq(<<>>) = <<>>
    BY <1>1, FlattenMore
  <1> QED
    BY <1>1, <1>2, <1>3

(* Sequences put together in either grouping. *)
Regroups(p, q, r) == (p \o q) \o r = p \o (q \o r)

(* They may be.                                                            *)
LEMMA Regrouped ==
    ASSUME NEW S, NEW p \in Seq(S), NEW q \in Seq(S), NEW r \in Seq(S)
    PROVE  Regroups(p, q, r)
  <1>1. (p \o q) \o r = p \o (q \o r)
    BY ConcatAssociative
  <1> QED
    BY <1>1 DEF Regroups

(* Sequences put together are concatenated together.                       *)
LEMMA FlattenConcat ==
    ASSUME NEW S, NEW a \in Seq(Seq(S)), NEW b \in Seq(Seq(S))
    PROVE  FlattenSeq(a \o b) = FlattenSeq(a) \o FlattenSeq(b)
  <1> DEFINE T == {c \in Seq(Seq(S)) : FlattenSeq(a \o c) = FlattenSeq(a) \o FlattenSeq(c)}
  <1>0. FlattenSeq(a) \in Seq(S) /\ <<>> \in Seq(Seq(S)) /\ <<>> \in Seq(S)
    BY FlattenFacts
  <1>1. <<>> \in T
    <2>1. FlattenSeq(<<>>) = <<>>
      BY <1>0, FlattenMore
    <2>2. a \o <<>> = a /\ FlattenSeq(a) \o <<>> = FlattenSeq(a)
      BY <1>0
    <2> QED
      BY <1>0, <2>1, <2>2
  <1>2. ASSUME NEW c \in Seq(Seq(S)), NEW x \in Seq(S), c \in T PROVE Append(c, x) \in T
    <2>1. a \o c \in Seq(Seq(S)) /\ Append(c, x) \in Seq(Seq(S))
      OBVIOUS
    <2>0. a \o Append(c, x) = Append(a \o c, x)
      <3> HIDE DEF T
      <3>1. ASSUME NEW R, NEW p \in Seq(R), NEW q \in Seq(R), NEW y \in R
            PROVE  p \o Append(q, y) = Append(p \o q, y)
        OBVIOUS
      <3> QED
        BY <3>1, SMTT(30)
    <2>2. /\ FlattenSeq(Append(a \o c, x)) = FlattenSeq(a \o c) \o x
          /\ FlattenSeq(Append(c, x)) = FlattenSeq(c) \o x
      BY <2>1, FlattenMore
    <2>3. FlattenSeq(c) \in Seq(S)
      BY FlattenFacts
    <2>4. (FlattenSeq(a) \o FlattenSeq(c)) \o x = FlattenSeq(a) \o (FlattenSeq(c) \o x)
      <3>1. Regroups(FlattenSeq(a), FlattenSeq(c), x)
        BY <1>0, <2>3, Regrouped
      <3> QED
        BY <3>1 DEF Regroups
    <2>5. FlattenSeq(a \o Append(c, x)) = FlattenSeq(a) \o FlattenSeq(Append(c, x))
      BY <1>2, <2>0, <2>2, <2>4
    <2> QED
      BY <2>1, <2>5
  <1>3. \A c \in Seq(Seq(S)) : c \in T
    <2> HIDE DEF T
    <2> QED
      BY <1>1, <1>2, SeqInduct
  <1> QED
    BY <1>3

-----------------------------------------------------------------------------
(* What FirstSeen keeps. *)

(* The elements of longer sequences.                                       *)
LEMMA ToSetMore ==
    ASSUME NEW S, NEW a \in Seq(S), NEW b \in Seq(S), NEW x \in S
    PROVE  /\ ToSet(<<>>) = {} /\ ToSet(a) \in SUBSET S
           /\ ToSet(Append(a, x)) = ToSet(a) \cup {x}
           /\ ToSet(a \o b) = ToSet(a) \cup ToSet(b)
  <1>1. ToSet(<<>>) = {} /\ ToSet(a) \in SUBSET S
    BY DEF ToSet
  <1>2. ToSet(a \o b) = ToSet(a) \cup ToSet(b)
    <2>1. ASSUME NEW i \in DOMAIN (a \o b) PROVE (a \o b)[i] \in ToSet(a) \cup ToSet(b)
      <3>1. \/ i \in DOMAIN a /\ (a \o b)[i] = a[i]
            \/ i - Len(a) \in DOMAIN b /\ (a \o b)[i] = b[i - Len(a)]
        OBVIOUS
      <3> QED
        BY <3>1 DEF ToSet
    <2>2. ASSUME NEW i \in DOMAIN a PROVE a[i] \in ToSet(a \o b)
      <3>1. i \in DOMAIN (a \o b) /\ (a \o b)[i] = a[i]
        OBVIOUS
      <3> QED
        BY <3>1 DEF ToSet
    <2>3. ASSUME NEW i \in DOMAIN b PROVE b[i] \in ToSet(a \o b)
      <3>1. Len(a) + i \in DOMAIN (a \o b) /\ (a \o b)[Len(a) + i] = b[i]
        OBVIOUS
      <3> QED
        BY <3>1 DEF ToSet
    <2> QED
      BY <2>1, <2>2, <2>3 DEF ToSet
  <1>3. ToSet(Append(a, x)) = ToSet(a) \cup {x}
    <2>1. ASSUME NEW i \in DOMAIN Append(a, x) PROVE Append(a, x)[i] \in ToSet(a) \cup {x}
      <3>1. \/ i \in DOMAIN a /\ Append(a, x)[i] = a[i]
            \/ Append(a, x)[i] = x
        OBVIOUS
      <3> QED
        BY <3>1 DEF ToSet
    <2>2. ASSUME NEW i \in DOMAIN a PROVE a[i] \in ToSet(Append(a, x))
      <3>1. i \in DOMAIN Append(a, x) /\ Append(a, x)[i] = a[i]
        OBVIOUS
      <3> QED
        BY <3>1 DEF ToSet
    <2>3. x \in ToSet(Append(a, x))
      <3>1. Len(a) + 1 \in DOMAIN Append(a, x) /\ Append(a, x)[Len(a) + 1] = x
        OBVIOUS
      <3> QED
        BY <3>1 DEF ToSet
    <2> QED
      BY <2>1, <2>2, <2>3 DEF ToSet
  <1> QED
    BY <1>1, <1>2, <1>3

(* One element more is seen or was seen.                                   *)
LEMMA FirstSeenMore ==
    ASSUME NEW S, NEW seq \in Seq(S), NEW x \in S
    PROVE  /\ FirstSeen(<<>>) = <<>>
           /\ FirstSeen(Append(seq, x)) = See(FirstSeen(seq), x)
  <1> DEFINE n == Len(seq)
             more == Append(seq, x)
  <1>1. FirstSeen(<<>>) = <<>>
    <2>1. <<>> \in Seq(S) /\ Len(<<>>) = 0
      OBVIOUS
    <2>2. PICK acc : IsSeen(<<>>, S, acc) /\ FirstSeen(<<>>) = acc[Len(<<>>)]
      BY <2>1, FirstSeenIs
    <2> QED
      BY <2>1, <2>2 DEF IsSeen
  <1>2. PICK a : IsSeen(seq, S, a) /\ FirstSeen(seq) = a[n]
    BY FirstSeenIs
  <1>3. /\ n \in Nat /\ more \in Seq(S) /\ Len(more) = n + 1
        /\ more[n + 1] = x /\ \A k \in 1..n : more[k] = seq[k]
    OBVIOUS
  <1> HIDE DEF more, n
  <1>4. PICK b : IsSeen(more, S, b) /\ FirstSeen(more) = b[n + 1]
    BY <1>3, FirstSeenIs
  <1> DEFINE G == {k \in 0..n : a[k] = b[k]}
  <1>5. 0 \in G
    BY <1>2, <1>3, <1>4 DEF IsSeen
  <1>6. ASSUME NEW k \in 1..n, k - 1 \in G PROVE k \in G
    <2>1. a[k] = See(a[k - 1], seq[k])
      BY <1>2 DEF IsSeen, n
    <2>2. b[k] = See(b[k - 1], more[k])
      <3>1. k \in 1..Len(more)
        BY <1>3
      <3> QED
        BY <1>4, <3>1 DEF IsSeen
    <2>3. a[k] = b[k]
      BY <1>3, <1>6, <2>1, <2>2
    <2> QED
      BY <2>3
  <1>7. \A k \in 0..n : k \in G
    <2> HIDE DEF G
    <2> QED
      BY <1>3, <1>5, <1>6, InductTo
  <1>8. a[n] = b[n]
    BY <1>3, <1>7
  <1>9. b[n + 1] = See(b[n], x)
    <2>1. \A k \in 1..Len(more) : b[k] = See(b[k - 1], more[k])
      BY <1>4 DEF IsSeen
    <2>2. ASSUME NEW k, k = n + 1 PROVE b[k] = See(b[n], x)
      <3>1. k \in 1..Len(more) /\ k - 1 = n /\ more[k] = x
        BY <1>3, <2>2
      <3> QED
        BY <2>1, <3>1
    <2> QED
      BY <2>2
  <1> QED
    BY <1>1, <1>2, <1>4, <1>8, <1>9 DEF more

(* Each element is kept. *)
LEMMA SeenAre ==
    ASSUME NEW S, NEW seq \in Seq(S)
    PROVE  ToSet(FirstSeen(seq)) = ToSet(seq)
  <1> DEFINE T == {s \in Seq(S) : ToSet(FirstSeen(s)) = ToSet(s)}
  <1>1. <<>> \in T
    <2>1. <<>> \in Seq(S)
      OBVIOUS
    <2>2. PICK acc : IsSeen(<<>>, S, acc) /\ FirstSeen(<<>>) = acc[Len(<<>>)]
      BY <2>1, FirstSeenIs
    <2>3. FirstSeen(<<>>) = <<>>
      BY <2>2 DEF IsSeen
    <2> QED
      BY <2>1, <2>3
  <1>2. ASSUME NEW s \in Seq(S), NEW x \in S, s \in T PROVE Append(s, x) \in T
    <2>1. FirstSeen(Append(s, x)) = See(FirstSeen(s), x)
      BY FirstSeenMore
    <2>2. FirstSeen(s) \in Seq(S)
      BY FirstSeenTyped
    <2>3. ToSet(Append(s, x)) = ToSet(s) \cup {x}
      BY ToSetMore
    <2>4. ToSet(See(FirstSeen(s), x)) = ToSet(FirstSeen(s)) \cup {x}
      <3>1. ToSet(Append(FirstSeen(s), x)) = ToSet(FirstSeen(s)) \cup {x}
        BY <2>2, ToSetMore
      <3> QED
        BY <3>1 DEF See
    <2>5. ToSet(FirstSeen(Append(s, x))) = ToSet(Append(s, x))
      BY <1>2, <2>1, <2>3, <2>4
    <2> QED
      BY <2>5
  <1>3. \A s \in Seq(S) : s \in T
    <2> HIDE DEF T
    <2> QED
      BY <1>1, <1>2, SeqInduct
  <1> QED
    BY <1>3

(* What is read after two sequences that leave the same leaves the same, *)
LEMMA SameAfter ==
    ASSUME NEW S, NEW p \in Seq(S), NEW q \in Seq(S), FirstSeen(p) = FirstSeen(q),
           NEW b \in Seq(S)
    PROVE  FirstSeen(p \o b) = FirstSeen(q \o b)
  <1> DEFINE T == {s \in Seq(S) : FirstSeen(p \o s) = FirstSeen(q \o s)}
  <1>1. <<>> \in T
    <2>1. p \o <<>> = p /\ q \o <<>> = q /\ <<>> \in Seq(S)
      OBVIOUS
    <2> QED
      BY <2>1
  <1>2. ASSUME NEW s \in Seq(S), NEW x \in S, s \in T PROVE Append(s, x) \in T
    <2>1. /\ p \o Append(s, x) = Append(p \o s, x) /\ p \o s \in Seq(S)
          /\ q \o Append(s, x) = Append(q \o s, x) /\ q \o s \in Seq(S)
          /\ Append(s, x) \in Seq(S)
      OBVIOUS
    <2>2. /\ FirstSeen(Append(p \o s, x)) = See(FirstSeen(p \o s), x)
          /\ FirstSeen(Append(q \o s, x)) = See(FirstSeen(q \o s), x)
      BY <2>1, FirstSeenMore
    <2>3. FirstSeen(p \o Append(s, x)) = FirstSeen(q \o Append(s, x))
      BY <1>2, <2>1, <2>2
    <2> QED
      BY <2>1, <2>3
  <1>3. \A s \in Seq(S) : s \in T
    <2> HIDE DEF T
    <2> QED
      BY <1>1, <1>2, SeqInduct
  <1> QED
    BY <1>3

(* what was read before leaves nothing, *)
LEMMA SeenAgain ==
    ASSUME NEW S, NEW a \in Seq(S), NEW b \in Seq(S), ToSet(b) \subseteq ToSet(a)
    PROVE  FirstSeen(a \o b) = FirstSeen(a)
  <1> DEFINE T == {s \in Seq(S) : ToSet(s) \subseteq ToSet(a) => FirstSeen(a \o s) = FirstSeen(a)}
  <1>1. <<>> \in T
    <2>1. a \o <<>> = a /\ <<>> \in Seq(S)
      OBVIOUS
    <2> QED
      BY <2>1
  <1>2. ASSUME NEW s \in Seq(S), NEW x \in S, s \in T PROVE Append(s, x) \in T
    <2>1. a \o Append(s, x) = Append(a \o s, x) /\ a \o s \in Seq(S) /\ Append(s, x) \in Seq(S)
      OBVIOUS
    <2>2. ASSUME ToSet(Append(s, x)) \subseteq ToSet(a)
          PROVE  FirstSeen(a \o Append(s, x)) = FirstSeen(a)
      <3>1. ToSet(s) \subseteq ToSet(a) /\ x \in ToSet(a)
        BY <2>2, ToSetMore
      <3>2. FirstSeen(Append(a \o s, x)) = See(FirstSeen(a \o s), x)
        BY <2>1, FirstSeenMore
      <3>3. FirstSeen(a \o s) = FirstSeen(a)
        BY <1>2, <3>1
      <3>4. x \in ToSet(FirstSeen(a))
        BY <3>1, SeenAre
      <3> QED
        BY <2>1, <3>2, <3>3, <3>4 DEF See
    <2> QED
      BY <2>1, <2>2
  <1>3. \A s \in Seq(S) : s \in T
    <2> HIDE DEF T
    <2> QED
      BY <1>1, <1>2, SeqInduct
  <1> QED
    BY <1>3

(* and what repeats nothing is left as it is. *)
LEMMA AllNew ==
    ASSUME NEW S, NEW seq \in Seq(S), IsInjective(seq)
    PROVE  FirstSeen(seq) = seq
  <1> DEFINE T == {s \in Seq(S) : IsInjective(s) => FirstSeen(s) = s}
  <1>1. <<>> \in T
    <2>1. <<>> \in Seq(S)
      OBVIOUS
    <2>2. PICK acc : IsSeen(<<>>, S, acc) /\ FirstSeen(<<>>) = acc[Len(<<>>)]
      BY <2>1, FirstSeenIs
    <2>3. FirstSeen(<<>>) = <<>>
      BY <2>2 DEF IsSeen
    <2> QED
      BY <2>1, <2>3
  <1>2. ASSUME NEW s \in Seq(S), NEW x \in S, s \in T PROVE Append(s, x) \in T
    <2>1. ASSUME IsInjective(Append(s, x)) PROVE FirstSeen(Append(s, x)) = Append(s, x)
      <3> DEFINE more == Append(s, x)
                 n == Len(s)
      <3>1. /\ n \in Nat /\ DOMAIN s = 1..n /\ DOMAIN more = 1..(n + 1)
            /\ more[n + 1] = x /\ \A k \in 1..n : more[k] = s[k]
        OBVIOUS
      <3>2. \A i, j \in DOMAIN more : more[i] = more[j] => i = j
        BY <2>1 DEF IsInjective
      <3> HIDE DEF more, n
      <3>3. ASSUME NEW i \in DOMAIN s PROVE s[i] # x
        BY <3>1, <3>2
      <3>4. ASSUME NEW i \in DOMAIN s, NEW j \in DOMAIN s, s[i] = s[j] PROVE i = j
        <4>1. i \in DOMAIN more /\ j \in DOMAIN more /\ more[i] = more[j]
          BY <3>1, <3>4
        <4> QED
          BY <3>2, <4>1
      <3>5. FirstSeen(s) = s
        BY <1>2, <3>4 DEF IsInjective
      <3>6. x \notin ToSet(s)
        BY <3>3 DEF ToSet
      <3>7. FirstSeen(Append(s, x)) = See(FirstSeen(s), x)
        BY FirstSeenMore
      <3> QED
        BY <3>5, <3>6, <3>7 DEF See
    <2>2. Append(s, x) \in Seq(S)
      OBVIOUS
    <2> QED
      BY <2>1, <2>2
  <1>3. \A s \in Seq(S) : s \in T
    <2> HIDE DEF T
    <2> QED
      BY <1>1, <1>2, SeqInduct
  <1> QED
    BY <1>3

-----------------------------------------------------------------------------
(* What a reader of a text reads. *)

(* Texts are put together in either grouping,                              *)
LEMMA Assoc ==
    ASSUME NEW p \in Seq(Word), NEW q \in Seq(Word), NEW r \in Seq(Word)
    PROVE  (p \o q) \o r = p \o (q \o r) /\ p \o q \in Seq(Word)
  BY ConcatAssociative

(* after the mark of a continued procedure as well.                        *)
LEMMA ContinuedAssoc ==
    ASSUME NEW p \in Seq(Word), NEW q \in Seq(Word)
    PROVE  (CONTINUED \o p) \o q = CONTINUED \o (p \o q)
  BY Assoc, ContinuedTyped

Id == Nat \X Nat

IdsOf(t) == ToSet(Ids(t))

(* The identities of the words of two texts, put together.                 *)
LEMMA IdsMore ==
    ASSUME NEW p \in Seq(Word), NEW q \in Seq(Word)
    PROVE  /\ Ids(p) \in Seq(Id) /\ Len(Ids(p)) = Len(p)
           /\ Ids(p \o q) = Ids(p) \o Ids(q)
           /\ IdsOf(p \o q) = IdsOf(p) \cup IdsOf(q)
  <1>1. \A w \in Word : w.id \in Id
    BY DEF Word, Id
  <1>2. ASSUME NEW t \in Seq(Word) PROVE Ids(t) \in Seq(Id) /\ Len(Ids(t)) = Len(t)
    <2>1. Len(t) \in Nat /\ DOMAIN t = 1..Len(t) /\ \A i \in 1..Len(t) : t[i] \in Word
      OBVIOUS
    <2>2. Ids(t) \in [1..Len(t) -> Id]
      BY <1>1, <2>1 DEF Ids
    <2> QED
      BY <2>1, <2>2
  <1>3. Ids(p \o q) = Ids(p) \o Ids(q)
    <2>1. p \o q \in Seq(Word) /\ Len(p \o q) = Len(p) + Len(q)
      OBVIOUS
    <2>2. /\ Ids(p) \in Seq(Id) /\ Ids(q) \in Seq(Id) /\ Ids(p \o q) \in Seq(Id)
          /\ Len(Ids(p)) = Len(p) /\ Len(Ids(q)) = Len(q)
          /\ Len(Ids(p \o q)) = Len(p) + Len(q)
      BY <1>2, <2>1
    <2>3. Ids(p) \o Ids(q) \in Seq(Id) /\ Len(Ids(p) \o Ids(q)) = Len(p) + Len(q)
      BY <2>2, ConcatProperties
    <2>4. ASSUME NEW i \in 1..(Len(p) + Len(q))
          PROVE  Ids(p \o q)[i] = (Ids(p) \o Ids(q))[i]
      <3>1. Ids(p \o q)[i] = (p \o q)[i].id
        BY <2>1 DEF Ids
      <3>2. CASE i <= Len(p)
        <4>1. (p \o q)[i] = p[i] /\ Ids(p)[i] = p[i].id
          BY <3>2 DEF Ids
        <4>2. (Ids(p) \o Ids(q))[i] = Ids(p)[i]
          BY <2>2, <3>2
        <4> QED
          BY <3>1, <4>1, <4>2
      <3>3. CASE ~(i <= Len(p))
        <4>1. (p \o q)[i] = q[i - Len(p)] /\ Ids(q)[i - Len(p)] = q[i - Len(p)].id
          BY <3>3 DEF Ids
        <4>2. (Ids(p) \o Ids(q))[i] = Ids(q)[i - Len(p)]
          BY <2>2, <3>3
        <4> QED
          BY <3>1, <4>1, <4>2
      <3> QED
        BY <3>2, <3>3
    <2> QED
      BY <2>2, <2>3, <2>4, SeqEqual
  <1>4. Ids(p) \in Seq(Id) /\ Ids(q) \in Seq(Id) /\ <<0, 0>> \in Id
    BY <1>2 DEF Id
  <1>5. ToSet(Ids(p) \o Ids(q)) = ToSet(Ids(p)) \cup ToSet(Ids(q))
    BY <1>4, ToSetMore
  <1> QED
    BY <1>2, <1>3, <1>5 DEF IdsOf

(* The same, if it follows the same. *)
Reads(p, q) ==
    \A a \in Seq(Word) :
        FirstSeen(Ids(CONTINUED \o (a \o p))) = FirstSeen(Ids(CONTINUED \o (a \o q)))

(* Texts of the same words are read the same.                              *)
LEMMA ReadsSame ==
    ASSUME NEW p \in Seq(Word), NEW q \in Seq(Word), Ids(p) = Ids(q)
    PROVE  Reads(p, q)
  <1> SUFFICES ASSUME NEW a \in Seq(Word)
               PROVE  Ids(CONTINUED \o (a \o p)) = Ids(CONTINUED \o (a \o q))
    BY DEF Reads
  <1>1. CONTINUED \in Seq(Word) /\ a \o p \in Seq(Word) /\ a \o q \in Seq(Word)
    BY ContinuedTyped
  <1>2. Ids(a \o p) = Ids(a \o q)
    <2>1. Ids(a \o p) = Ids(a) \o Ids(p)
      BY IdsMore
    <2>2. Ids(a \o q) = Ids(a) \o Ids(q)
      BY IdsMore
    <2> QED
      BY <2>1, <2>2
  <1>3. Ids(CONTINUED \o (a \o p)) = Ids(CONTINUED) \o Ids(a \o p)
    BY <1>1, IdsMore
  <1>4. Ids(CONTINUED \o (a \o q)) = Ids(CONTINUED) \o Ids(a \o q)
    BY <1>1, IdsMore
  <1> QED
    BY <1>2, <1>3, <1>4

(* What is read as q is read as what q is read as.                         *)
LEMMA ReadsTrans ==
    ASSUME NEW p, NEW q, NEW r, Reads(p, q), Reads(q, r)
    PROVE  Reads(p, r) /\ Reads(q, p)
  BY DEF Reads

(* before and after the same *)
LEMMA ReadsWithin ==
    ASSUME NEW p \in Seq(Word), NEW q \in Seq(Word), NEW a \in Seq(Word), Reads(p, q)
    PROVE  Reads(a \o p, a \o q) /\ Reads(p \o a, q \o a)
  <1>1. Reads(a \o p, a \o q)
    <2> SUFFICES ASSUME NEW b \in Seq(Word)
                 PROVE  FirstSeen(Ids(CONTINUED \o (b \o (a \o p)))) =
                          FirstSeen(Ids(CONTINUED \o (b \o (a \o q))))
      BY DEF Reads
    <2>1. (b \o a) \o p = b \o (a \o p) /\ (b \o a) \o q = b \o (a \o q)
      <3>1. Regroups(b, a, p) /\ Regroups(b, a, q)
        BY Regrouped
      <3> QED
        BY <3>1 DEF Regroups
    <2>2. b \o a \in Seq(Word)
      OBVIOUS
    <2> QED
      BY <2>1, <2>2 DEF Reads
  <1>2. Reads(p \o a, q \o a)
    <2> SUFFICES ASSUME NEW b \in Seq(Word)
                 PROVE  FirstSeen(Ids(CONTINUED \o (b \o (p \o a)))) =
                          FirstSeen(Ids(CONTINUED \o (b \o (q \o a))))
      BY DEF Reads
    <2>1. CONTINUED \in Seq(Word) /\ b \o p \in Seq(Word) /\ b \o q \in Seq(Word)
      BY ContinuedTyped
    <2>2. CONTINUED \o (b \o p) \in Seq(Word) /\ CONTINUED \o (b \o q) \in Seq(Word)
      BY <2>1
    <2>3. /\ CONTINUED \o (b \o (p \o a)) = (CONTINUED \o (b \o p)) \o a
          /\ CONTINUED \o (b \o (q \o a)) = (CONTINUED \o (b \o q)) \o a
      <3>1. b \o (p \o a) = (b \o p) \o a /\ b \o (q \o a) = (b \o q) \o a
        <4>1. Regroups(b, p, a) /\ Regroups(b, q, a)
          BY Regrouped
        <4> QED
          BY <4>1 DEF Regroups
      <3>2. (CONTINUED \o (b \o p)) \o a = CONTINUED \o ((b \o p) \o a)
        BY <2>1, ContinuedAssoc
      <3>3. (CONTINUED \o (b \o q)) \o a = CONTINUED \o ((b \o q) \o a)
        BY <2>1, ContinuedAssoc
      <3> QED
        BY <3>1, <3>2, <3>3
    <2>4. /\ Ids((CONTINUED \o (b \o p)) \o a) = Ids(CONTINUED \o (b \o p)) \o Ids(a)
          /\ Ids((CONTINUED \o (b \o q)) \o a) = Ids(CONTINUED \o (b \o q)) \o Ids(a)
          /\ Ids(CONTINUED \o (b \o p)) \in Seq(Id) /\ Ids(CONTINUED \o (b \o q)) \in Seq(Id)
          /\ Ids(a) \in Seq(Id)
      BY <2>2, IdsMore
    <2>5. FirstSeen(Ids(CONTINUED \o (b \o p))) = FirstSeen(Ids(CONTINUED \o (b \o q)))
      BY DEF Reads
    <2>6. FirstSeen(Ids(CONTINUED \o (b \o p)) \o Ids(a)) =
            FirstSeen(Ids(CONTINUED \o (b \o q)) \o Ids(a))
      BY <2>4, <2>5, SameAfter
    <2> QED
      BY <2>3, <2>4, <2>6
  <1> QED
    BY <1>1, <1>2

(* and with a repetition after it. *)
LEMMA ReadsAgain ==
    ASSUME NEW p \in Seq(Word), NEW q \in Seq(Word),
           IdsOf(q) \subseteq IdsOf(CONTINUED \o p)
    PROVE  Reads(p \o q, p)
  <1> SUFFICES ASSUME NEW a \in Seq(Word)
               PROVE  FirstSeen(Ids(CONTINUED \o (a \o (p \o q)))) =
                        FirstSeen(Ids(CONTINUED \o (a \o p)))
    BY DEF Reads
  <1>1. CONTINUED \in Seq(Word) /\ a \o p \in Seq(Word)
    BY ContinuedTyped
  <1>2. CONTINUED \o (a \o p) \in Seq(Word)
    BY <1>1
  <1>3. CONTINUED \o (a \o (p \o q)) = (CONTINUED \o (a \o p)) \o q
    <2>1. Regroups(a, p, q) /\ Regroups(CONTINUED, a \o p, q)
      BY <1>1, Regrouped
    <2> QED
      BY <2>1 DEF Regroups
  <1>4. /\ Ids((CONTINUED \o (a \o p)) \o q) = Ids(CONTINUED \o (a \o p)) \o Ids(q)
        /\ Ids(CONTINUED \o (a \o p)) \in Seq(Id) /\ Ids(q) \in Seq(Id)
    BY <1>2, IdsMore
  <1>5. IdsOf(CONTINUED \o (a \o p)) = IdsOf(CONTINUED) \cup (IdsOf(a) \cup IdsOf(p))
        /\ IdsOf(CONTINUED \o p) = IdsOf(CONTINUED) \cup IdsOf(p)
    <2>1. IdsOf(a \o p) = IdsOf(a) \cup IdsOf(p)
      BY IdsMore
    <2>2. IdsOf(CONTINUED \o (a \o p)) = IdsOf(CONTINUED) \cup IdsOf(a \o p)
      BY <1>1, IdsMore
    <2>3. IdsOf(CONTINUED \o p) = IdsOf(CONTINUED) \cup IdsOf(p)
      BY <1>1, IdsMore
    <2> QED
      BY <2>1, <2>2, <2>3
  <1>6. ToSet(Ids(q)) \subseteq ToSet(Ids(CONTINUED \o (a \o p)))
    BY <1>5 DEF IdsOf
  <1>7. FirstSeen(Ids(CONTINUED \o (a \o p)) \o Ids(q)) = FirstSeen(Ids(CONTINUED \o (a \o p)))
    BY <1>4, <1>6, SeenAgain
  <1> QED
    BY <1>3, <1>4, <1>7

-----------------------------------------------------------------------------
(* Splitting keeps every word in its place. *)

(* A unit is added to the group being packed or begins the next one. *)
LEMMA PutAdds ==
    ASSUME NEW p \in Packing, NEW u, NEW limit
    PROVE  \/ /\ Put(p, u, limit).groups = Append(p.groups, p.current)
              /\ Put(p, u, limit).current = u
           \/ /\ Put(p, u, limit).groups = p.groups
              /\ Put(p, u, limit).current = p.current \o u
  BY DEF Put, Packing

(* Packed units are the units. *)
LEMMA PackKeeps ==
    ASSUME NEW units \in Texts, NEW limit
    PROVE  FlattenSeq(pack(units, limit)) = FlattenSeq(units)
  <1> DEFINE n == Len(units)
             Whole(p) == FlattenSeq(p.groups) \o p.current
  <1>1. PICK acc : /\ IsPacking(units, limit, acc)
                   /\ pack(units, limit) =
                        IF acc[n].current = <<>> THEN acc[n].groups
                        ELSE Append(acc[n].groups, acc[n].current)
    BY PackIs
  <1>2. PICK joined : IsJoin(units, Word, joined) /\ FlattenSeq(units) = joined[n]
    BY FlattenIs DEF Texts
  <1>3. /\ n \in Nat /\ \A k \in 1..n : units[k] \in Seq(Word)
        /\ \A k \in 0..n : acc[k] \in Packing
    <2>1. n \in Nat /\ \A k \in 1..n : units[k] \in Seq(Word)
      BY DEF Texts
    <2>2. acc \in [0..n -> Packing]
      BY <1>1 DEF IsPacking
    <2> QED
      BY <2>1, <2>2
  <1>4. ASSUME NEW p \in Packing
        PROVE  /\ p.groups \in Seq(Seq(Word)) /\ p.current \in Seq(Word)
               /\ FlattenSeq(p.groups) \in Seq(Word)
               /\ FlattenSeq(Append(p.groups, p.current)) = Whole(p)
    <2>1. p.groups \in Seq(Seq(Word)) /\ p.current \in Seq(Word)
      BY DEF Packing, Texts
    <2> QED
      BY <2>1, FlattenMore, FlattenFacts
  <1> DEFINE G == {k \in 0..n : Whole(acc[k]) = joined[k]}
  <1>5. 0 \in G
    <2>1. acc[0] = NothingPacked /\ joined[0] = <<>>
      BY <1>1, <1>2 DEF IsPacking, IsJoin
    <2>2. FlattenSeq(<<>>) = <<>>
      BY DEF FlattenSeq
    <2>3. Whole(NothingPacked) = <<>>
      BY <2>2 DEF NothingPacked
    <2> HIDE DEF Whole
    <2> QED
      BY <1>3, <2>1, <2>3
  <1>6. ASSUME NEW k \in 1..n, k - 1 \in G PROVE k \in G
    <2> DEFINE p == acc[k - 1]
               u == units[k]
    <2>1. /\ acc[k] = Put(p, u, limit) /\ p \in Packing /\ u \in Seq(Word)
          /\ joined[k] = joined[k - 1] \o u /\ Whole(p) = joined[k - 1]
      BY <1>1, <1>2, <1>3, <1>6 DEF IsPacking, IsJoin
    <2>2. /\ p.groups \in Seq(Seq(Word)) /\ p.current \in Seq(Word)
          /\ FlattenSeq(p.groups) \in Seq(Word)
          /\ FlattenSeq(Append(p.groups, p.current)) = Whole(p)
      BY <1>4, <2>1
    <2>3. \/ acc[k].groups = Append(p.groups, p.current) /\ acc[k].current = u
          \/ acc[k].groups = p.groups /\ acc[k].current = p.current \o u
      <3> HIDE DEF p, u
      <3>1. \/ /\ Put(p, u, limit).groups = Append(p.groups, p.current)
               /\ Put(p, u, limit).current = u
            \/ /\ Put(p, u, limit).groups = p.groups
               /\ Put(p, u, limit).current = p.current \o u
        BY <2>1, PutAdds
      <3> QED
        BY <2>1, <3>1
    <2>4. (FlattenSeq(p.groups) \o p.current) \o u = FlattenSeq(p.groups) \o (p.current \o u)
      BY <2>1, <2>2, Assoc
    <2>5. Whole(acc[k]) = Whole(p) \o u
      BY <2>2, <2>3, <2>4
    <2>6. Whole(acc[k]) = joined[k]
      <3> HIDE DEF Whole, p, u
      <3> QED
        BY <2>1, <2>5
    <2> HIDE DEF Whole
    <2> QED
      BY <2>6
  <1>7. \A k \in 0..n : k \in G
    <2> HIDE DEF G, n
    <2> QED
      BY <1>3, <1>5, <1>6, InductTo
  <1>8. Whole(acc[n]) = joined[n]
    <2>1. n \in G
      <3> HIDE DEF G
      <3> QED
        BY <1>3, <1>7
    <2> HIDE DEF Whole
    <2> QED
      BY <2>1
  <1>9. acc[n] \in Packing
    BY <1>3
  <1>10. /\ FlattenSeq(acc[n].groups) \o <<>> = FlattenSeq(acc[n].groups)
         /\ FlattenSeq(Append(acc[n].groups, acc[n].current)) = Whole(acc[n])
    <2> DEFINE p == acc[n]
    <2> HIDE DEF p
    <2>1. p \in Packing
      BY <1>9 DEF p
    <2>2. /\ FlattenSeq(p.groups) \in Seq(Word)
          /\ FlattenSeq(Append(p.groups, p.current)) = Whole(p)
      BY <1>4, <2>1
    <2>3. \A q \in Seq(Word) : q \o <<>> = q
      OBVIOUS
    <2> HIDE DEF Whole
    <2>4. FlattenSeq(p.groups) \o <<>> = FlattenSeq(p.groups)
      BY <2>2, <2>3
    <2> QED
      BY <2>2, <2>4 DEF p
  <1> QED
    BY <1>1, <1>2, <1>8, <1>10

(* The last element replaced. *)
LEMMA LastReplaced ==
    ASSUME NEW S, NEW s \in Seq(S), s # <<>>, NEW x \in S
    PROVE  [s EXCEPT ![Len(s)] = x] = Append(SubSeq(s, 1, Len(s) - 1), x)
  <1> DEFINE n == Len(s)
             front == SubSeq(s, 1, n - 1)
             l == [s EXCEPT ![n] = x]
             m == Append(front, x)
  <1>1. n \in Nat \ {0} /\ DOMAIN s = 1..n /\ \A i \in 1..n : s[i] \in S
    OBVIOUS
  <1>2. front \in Seq(S) /\ Len(front) = n - 1 /\ \A i \in 1..(n - 1) : front[i] = s[i]
    <2>1. ASSUME NEW k \in 0..Len(s)
          PROVE  /\ SubSeq(s, 1, k) \in Seq(S) /\ Len(SubSeq(s, 1, k)) = k
                 /\ \A i \in 1..k : SubSeq(s, 1, k)[i] = s[i]
      OBVIOUS
    <2>2. n - 1 \in 0..Len(s)
      BY <1>1
    <2> QED
      BY <2>1, <2>2
  <1>3. l = [i \in 1..n |-> IF i = n THEN x ELSE s[i]]
    <2> HIDE DEF n
    <2> QED
      BY <1>1
  <1> HIDE DEF front, n
  <1>4. /\ m \in Seq(S) /\ Len(m) = n
        /\ \A i \in 1..(n - 1) : m[i] = s[i]
        /\ \A i : i = n => m[i] = x
    BY <1>1, <1>2
  <1> HIDE DEF l, m
  <1>5. m = [i \in 1..n |-> m[i]]
    BY <1>1, <1>4
  <1>6. \A i \in 1..n : m[i] = IF i = n THEN x ELSE s[i]
    BY <1>1, <1>4
  <1>7. l = m
    BY <1>3, <1>5, <1>6
  <1> QED
    BY <1>7 DEF l, m, front, n

(* The pieces of a text are the text. *)
LEMMA CutKeeps ==
    ASSUME NEW t \in Seq(Word), NEW B, NEW pieces, IsPieces(t, B, pieces)
    PROVE  FlattenSeq(pieces) = t
  <1> DEFINE n == Len(t)
  <1>1. PICK acc : IsCut(t, B, acc) /\ pieces = acc[n]
    BY DEF IsPieces
  <1>2. n \in Nat /\ acc \in [0..n -> Texts] /\ \A k \in 1..n : t[k] \in Word
    BY <1>1 DEF IsCut
  <1> DEFINE G == {k \in 0..n : /\ k > 0 => acc[k] # <<>>
                                /\ FlattenSeq(acc[k]) = SubSeq(t, 1, k)}
  <1>3. 0 \in G
    <2>1. SubSeq(t, 1, 0) = <<>> /\ acc[0] = <<>>
      BY <1>1 DEF IsCut
    <2>2. FlattenSeq(<<>>) = <<>>
      BY DEF FlattenSeq
    <2> QED
      BY <1>2, <2>1, <2>2
  <1>4. ASSUME NEW k \in 1..n, k - 1 \in G PROVE k \in G
    <2> DEFINE a == acc[k - 1]
    <2>1. /\ a \in Seq(Seq(Word)) /\ acc[k] = CutPut(t, B, a, k)
          /\ k # 1 => a # <<>>
          /\ FlattenSeq(a) = SubSeq(t, 1, k - 1)
          /\ t[k] \in Word
      <3>1. a \in Texts /\ t[k] \in Word
        BY <1>2
      <3>2. acc[k] = CutPut(t, B, a, k)
        BY <1>1 DEF IsCut
      <3> QED
        BY <1>4, <3>1, <3>2 DEF Texts
    <2>2. SubSeq(t, 1, k) = SubSeq(t, 1, k - 1) \o <<t[k]>>
      BY SubSeqRecursiveSecond, 1 \in 1..Len(t), k \in 1..Len(t)
    <2>3. CASE k = 1 \/ k \in B
      <3>1. acc[k] = Append(a, <<t[k]>>)
        BY <2>1, <2>3 DEF CutPut
      <3>2. <<t[k]>> \in Seq(Word)
        BY <2>1
      <3>3. FlattenSeq(acc[k]) = FlattenSeq(a) \o <<t[k]>>
        BY <2>1, <3>1, <3>2, FlattenMore
      <3>4. acc[k] # <<>>
        <4>1. ASSUME NEW f \in Seq(Seq(Word)), NEW x \in Seq(Word) PROVE Append(f, x) # <<>>
          <5>1. Len(Append(f, x)) = Len(f) + 1 /\ Len(f) \in Nat /\ Len(<<>>) = 0
            OBVIOUS
          <5>2. Len(Append(f, x)) # Len(<<>>)
            BY <5>1
          <5> QED
            BY <5>2, Zenon
        <4>2. a \in Seq(Seq(Word))
          BY <2>1
        <4> QED
          BY <3>1, <3>2, <4>1, <4>2
      <3>5. FlattenSeq(acc[k]) = SubSeq(t, 1, k)
        BY <2>1, <2>2, <3>3
      <3>6. k \in 0..n
        OBVIOUS
      <3> QED
        BY <3>4, <3>5, <3>6
    <2>4. CASE ~(k = 1 \/ k \in B)
      <3> DEFINE m == Len(a)
                 front == SubSeq(a, 1, m - 1)
                 last == a[m]
      <3>1. acc[k] = [a EXCEPT ![m] = Append(last, t[k])]
        BY <2>1, <2>4 DEF CutPut
      <3>0. a \in Seq(Seq(Word)) /\ a # <<>> /\ t[k] \in Word
        BY <2>1, <2>4
      <3> HIDE DEF a
      <3>2. m \in Nat \ {0} /\ front \in Seq(Seq(Word)) /\ last \in Seq(Word)
        BY <3>0
      <3>3. Append(last, t[k]) \in Seq(Word) /\ Append(last, t[k]) = last \o <<t[k]>>
        <4> HIDE DEF last
        <4> QED
          BY <3>0, <3>2, AppendIsConcat
      <3>4. a = Append(front, last)
        BY <3>0
      <3>5. acc[k] = Append(front, Append(last, t[k]))
        <4>1. ASSUME NEW x \in Seq(Word) PROVE [a EXCEPT ![m] = x] = Append(front, x)
          BY <3>0, LastReplaced
        <4> HIDE DEF front, last, m, a
        <4> QED
          BY <3>1, <3>3, <4>1
      <3> HIDE DEF front, last, m
      <3>6. FlattenSeq(a) = FlattenSeq(front) \o last
        BY <3>2, <3>4, FlattenMore
      <3>7. FlattenSeq(acc[k]) = FlattenSeq(front) \o Append(last, t[k])
        BY <3>2, <3>3, <3>5, FlattenMore
      <3>8. FlattenSeq(front) \in Seq(Word) /\ <<t[k]>> \in Seq(Word)
        BY <2>1, <3>2, FlattenFacts
      <3>9. (FlattenSeq(front) \o last) \o <<t[k]>> = FlattenSeq(front) \o (last \o <<t[k]>>)
        <4> DEFINE w == <<t[k]>>
                   f == FlattenSeq(front)
        <4>1. w \in Seq(Word) /\ f \in Seq(Word)
          BY <3>8
        <4> HIDE DEF w, f
        <4>2. (f \o last) \o w = f \o (last \o w)
          <5>1. last \in Seq(Word)
            BY <3>2
          <5>2. Regroups(f, last, w)
            BY <4>1, <5>1, Regrouped
          <5> QED
            BY <5>2 DEF Regroups
        <4> QED
          BY <4>2 DEF w, f
      <3>10. FlattenSeq(acc[k]) = SubSeq(t, 1, k)
        BY <2>1, <2>2, <3>3, <3>6, <3>7, <3>9
      <3>11. acc[k] # <<>>
        <4>1. ASSUME NEW f \in Seq(Seq(Word)), NEW x \in Seq(Word) PROVE Append(f, x) # <<>>
          <5>1. Len(Append(f, x)) = Len(f) + 1 /\ Len(f) \in Nat /\ Len(<<>>) = 0
            OBVIOUS
          <5>2. Len(Append(f, x)) # Len(<<>>)
            BY <5>1
          <5> QED
            BY <5>2, Zenon
        <4> QED
          BY <3>2, <3>3, <3>5, <4>1
      <3> QED
        BY <3>10, <3>11
    <2> QED
      BY <2>3, <2>4
  <1>5. \A k \in 0..n : k \in G
    <2> HIDE DEF G, n
    <2> QED
      BY <1>2, <1>3, <1>4, InductTo
  <1>6. FlattenSeq(acc[n]) = SubSeq(t, 1, n)
    BY <1>2, <1>5
  <1> QED
    BY <1>1, <1>6, SubSeqFull

(* Each unit is made of its parts. *)
PartsOf(units, parts, n) ==
    /\ units \in [1..n -> Seq(Word)]
    /\ parts \in [1..n -> Seq(Seq(Word))]
    /\ \A i \in 1..n : FlattenSeq(parts[i]) = units[i]

(* Joined part by part, joined parts are the whole. *)
LEMMA FlattenNested ==
    ASSUME NEW n \in Nat, NEW units, NEW parts, PartsOf(units, parts, n)
    PROVE  FlattenSeq(FlattenSeq(parts)) = FlattenSeq(units)
  <1>0. /\ units \in [1..n -> Seq(Word)] /\ parts \in [1..n -> Seq(Seq(Word))]
        /\ \A i \in 1..n : FlattenSeq(parts[i]) = units[i]
    BY DEF PartsOf
  <1>1. /\ units \in Seq(Seq(Word)) /\ Len(units) = n
        /\ parts \in Seq(Seq(Seq(Word))) /\ Len(parts) = n
    BY <1>0
  <1>2. PICK a : IsJoin(parts, Seq(Word), a) /\ FlattenSeq(parts) = a[n]
    BY <1>1, FlattenIs
  <1>3. PICK b : IsJoin(units, Word, b) /\ FlattenSeq(units) = b[n]
    BY <1>1, FlattenIs
  <1> DEFINE G == {k \in 0..n : FlattenSeq(a[k]) = b[k]}
  <1>4. 0 \in G
    <2>1. a[0] = <<>> /\ b[0] = <<>>
      BY <1>2, <1>3 DEF IsJoin
    <2>2. FlattenSeq(<<>>) = <<>>
      BY DEF FlattenSeq
    <2> QED
      BY <2>1, <2>2
  <1>5. ASSUME NEW k \in 1..n, k - 1 \in G PROVE k \in G
    <2>1. a[k] = a[k - 1] \o parts[k] /\ a[k - 1] \in Seq(Seq(Word))
      <3>1. k - 1 \in 0..Len(parts) /\ k \in 1..Len(parts)
        BY <1>1
      <3> QED
        BY <1>2, <3>1 DEF IsJoin
    <2>2. b[k] = b[k - 1] \o units[k]
      BY <1>1, <1>3 DEF IsJoin
    <2>3. parts[k] \in Seq(Seq(Word)) /\ FlattenSeq(parts[k]) = units[k]
      BY <1>0
    <2>4. FlattenSeq(a[k - 1] \o parts[k]) = FlattenSeq(a[k - 1]) \o FlattenSeq(parts[k])
      BY <2>1, <2>3, FlattenConcat
    <2>5. FlattenSeq(a[k]) = b[k]
      BY <1>5, <2>1, <2>2, <2>3, <2>4
    <2> QED
      BY <2>5
  <1>6. \A k \in 0..n : k \in G
    <2> HIDE DEF G
    <2> QED
      BY <1>4, <1>5, InductTo
  <1>7. n \in G
    <2> HIDE DEF G
    <2> QED
      BY <1>6
  <1> QED
    BY <1>2, <1>3, <1>7

(* Words, sentences, and what is packed of them, are the text. *)
LEMMA WordPartsKeep ==
    ASSUME NEW t \in Seq(Word), NEW limit
    PROVE  FlattenSeq(word_parts(t, limit)) = t
  <1>1. Words(t) \in Texts /\ FlattenSeq(Words(t)) = t
    BY CutTyped, WordsCut, CutKeeps
  <1> QED
    BY <1>1, PackKeeps DEF word_parts

(* Units broken at words are still the same text.                          *)
LEMMA BrokenInWordsKeeps ==
    ASSUME NEW units \in Texts, NEW limit
    PROVE  FlattenSeq(Broken(units, limit, word_parts)) = FlattenSeq(units)
  <1> DEFINE parts == [i \in DOMAIN units |->
                         IF Tokens(units[i]) > limit THEN word_parts(units[i], limit)
                         ELSE <<units[i]>>]
             n == Len(units)
  <1>1. /\ n \in Nat /\ DOMAIN units = 1..n /\ units \in [1..n -> Seq(Word)]
        /\ \A i \in 1..n : units[i] \in Seq(Word)
    BY DEF Texts
  <1>2. ASSUME NEW i \in 1..n
        PROVE  parts[i] \in Seq(Seq(Word)) /\ FlattenSeq(parts[i]) = units[i]
    <2>1. units[i] \in Seq(Word) /\ <<units[i]>> \in Seq(Seq(Word))
      BY <1>1
    <2>2. FlattenSeq(<<units[i]>>) = units[i]
      BY <2>1, FlattenOne
    <2>3. /\ word_parts(units[i], limit) \in Seq(Seq(Word))
          /\ FlattenSeq(word_parts(units[i], limit)) = units[i]
      BY <2>1, WordParts, WordPartsKeep DEF Texts
    <2> QED
      BY <1>1, <2>1, <2>2, <2>3
  <1>3. parts \in [1..n -> Seq(Seq(Word))]
    BY <1>1, <1>2
  <1>4. Broken(units, limit, word_parts) = FlattenSeq(parts)
    BY DEF Broken
  <1> HIDE DEF parts, n
  <1>5. FlattenSeq(FlattenSeq(parts)) = FlattenSeq(units)
    <2>1. \A i \in 1..n : FlattenSeq(parts[i]) = units[i]
      BY <1>2
    <2> QED
      <3>1. PartsOf(units, parts, n)
        BY <1>1, <1>3, <2>1 DEF PartsOf
      <3>2. n \in Nat
        BY <1>1
      <3> QED
        BY <3>1, <3>2, FlattenNested
  <1> QED
    BY <1>4, <1>5

(* So is a text cut at sentences,                                          *)
LEMMA SentencePartsKeep ==
    ASSUME NEW t \in Seq(Word), NEW limit
    PROVE  FlattenSeq(sentence_parts(t, limit)) = t
  <1> DEFINE units == Broken(Sentences(t), limit, word_parts)
  <1>1. Sentences(t) \in Texts /\ FlattenSeq(Sentences(t)) = t
    BY CutTyped, SentencesCut, CutKeeps
  <1>2. units \in Texts /\ FlattenSeq(units) = t
    BY <1>1, BrokenInWords, BrokenInWordsKeeps
  <1>3. sentence_parts(t, limit) = pack(units, limit)
    BY DEF sentence_parts
  <1> HIDE DEF units
  <1> QED
    BY <1>2, <1>3, PackKeeps

(* and units broken at sentences.                                          *)
LEMMA BrokenInSentencesKeeps ==
    ASSUME NEW units \in Texts, NEW limit
    PROVE  FlattenSeq(Broken(units, limit, sentence_parts)) = FlattenSeq(units)
  <1> DEFINE parts == [i \in DOMAIN units |->
                         IF Tokens(units[i]) > limit THEN sentence_parts(units[i], limit)
                         ELSE <<units[i]>>]
             n == Len(units)
  <1>1. /\ n \in Nat /\ DOMAIN units = 1..n /\ units \in [1..n -> Seq(Word)]
        /\ \A i \in 1..n : units[i] \in Seq(Word)
    BY DEF Texts
  <1>2. ASSUME NEW i \in 1..n
        PROVE  parts[i] \in Seq(Seq(Word)) /\ FlattenSeq(parts[i]) = units[i]
    <2>1. units[i] \in Seq(Word) /\ <<units[i]>> \in Seq(Seq(Word))
      BY <1>1
    <2>2. FlattenSeq(<<units[i]>>) = units[i]
      BY <2>1, FlattenOne
    <2>3. /\ sentence_parts(units[i], limit) \in Seq(Seq(Word))
          /\ FlattenSeq(sentence_parts(units[i], limit)) = units[i]
      BY <2>1, SentenceParts, SentencePartsKeep DEF Texts
    <2> QED
      BY <1>1, <2>1, <2>2, <2>3
  <1>3. parts \in [1..n -> Seq(Seq(Word))]
    BY <1>1, <1>2
  <1>4. Broken(units, limit, sentence_parts) = FlattenSeq(parts)
    BY DEF Broken
  <1> HIDE DEF parts, n
  <1>5. FlattenSeq(FlattenSeq(parts)) = FlattenSeq(units)
    <2>1. \A i \in 1..n : FlattenSeq(parts[i]) = units[i]
      BY <1>2
    <2> QED
      <3>1. PartsOf(units, parts, n)
        BY <1>1, <1>3, <2>1 DEF PartsOf
      <3>2. n \in Nat
        BY <1>1
      <3> QED
        BY <3>1, <3>2, FlattenNested
  <1> QED
    BY <1>4, <1>5

(* A chunk that is split is its pieces. *)
LEMMA PiecesKeep ==
    ASSUME NEW t \in Seq(Word)
    PROVE  FlattenSeq(Pieces(t)) = t
  <1>1. FlattenSeq(<<t>>) = t /\ FlattenSeq(sentence_parts(t, Ceiling)) = t
    BY FlattenOne, SentencePartsKeep
  <1> QED
    BY <1>1 DEF Pieces

(* Parts that begin with something, the first with k, the others with h. *)
Headed(k, h, groups) ==
    [i \in DOMAIN groups |-> IF i = 1 THEN k \o groups[i] ELSE h \o groups[i]]

(* One group more under the header.                                        *)
LEMMA HeadedMore ==
    ASSUME NEW k \in Seq(Word), NEW h \in Seq(Word), NEW groups \in Texts, NEW x \in Seq(Word)
    PROVE  /\ Headed(k, h, groups) \in Texts
           /\ Headed(k, h, Append(groups, x)) =
                Append(Headed(k, h, groups), IF groups = <<>> THEN k \o x ELSE h \o x)
  <1>1. ASSUME NEW gs \in Texts
        PROVE  Headed(k, h, gs) \in Seq(Seq(Word)) /\ Len(Headed(k, h, gs)) = Len(gs)
    <2>1. Len(gs) \in Nat /\ DOMAIN gs = 1..Len(gs) /\ \A i \in 1..Len(gs) : gs[i] \in Seq(Word)
      BY DEF Texts
    <2>2. \A i \in 1..Len(gs) : k \o gs[i] \in Seq(Word) /\ h \o gs[i] \in Seq(Word)
      BY <2>1
    <2>3. Headed(k, h, gs) \in [1..Len(gs) -> Seq(Word)]
      BY <2>1, <2>2 DEF Headed
    <2> QED
      BY <2>1, <2>3
  <1> DEFINE more == Append(groups, x)
             last == IF groups = <<>> THEN k \o x ELSE h \o x
             a == Headed(k, h, more)
             b == Headed(k, h, groups)
             n == Len(groups)
  <1>2. /\ more \in Texts /\ Len(more) = n + 1 /\ n \in Nat
        /\ more[n + 1] = x /\ \A i \in 1..n : more[i] = groups[i]
        /\ DOMAIN more = 1..(n + 1) /\ DOMAIN groups = 1..n
        /\ (n = 0 <=> groups = <<>>)
    <2>1. ASSUME NEW gs \in Seq(Seq(Word))
          PROVE  /\ Append(gs, x) \in Seq(Seq(Word)) /\ Len(Append(gs, x)) = Len(gs) + 1
                 /\ Len(gs) \in Nat
                 /\ Append(gs, x)[Len(gs) + 1] = x
                 /\ \A i \in 1..Len(gs) : Append(gs, x)[i] = gs[i]
                 /\ DOMAIN Append(gs, x) = 1..(Len(gs) + 1) /\ DOMAIN gs = 1..Len(gs)
                 /\ (Len(gs) = 0 <=> gs = <<>>)
      OBVIOUS
    <2> QED
      BY <2>1 DEF Texts
  <1> HIDE DEF more, n
  <1>3. last \in Seq(Word)
    OBVIOUS
  <1>4. b \in Seq(Seq(Word)) /\ Len(b) = n /\ a \in Seq(Seq(Word)) /\ Len(a) = n + 1
    <2>1. b \in Seq(Seq(Word)) /\ Len(b) = n
      BY <1>1 DEF n
    <2>2. a \in Seq(Seq(Word)) /\ Len(a) = n + 1
      BY <1>1, <1>2
    <2> QED
      BY <2>1, <2>2
  <1>5. a[n + 1] = last
    <2>1. ASSUME NEW i, i = n + 1 PROVE a[i] = last
      <3>1. i \in DOMAIN more /\ more[i] = x /\ (i = 1 <=> groups = <<>>)
        BY <1>2, <2>1
      <3>2. a[i] = IF i = 1 THEN k \o more[i] ELSE h \o more[i]
        BY <3>1 DEF Headed
      <3> QED
        BY <3>1, <3>2
    <2> QED
      BY <2>1
  <1>6. ASSUME NEW i \in 1..n PROVE a[i] = b[i]
    <2>1. i \in DOMAIN more /\ i \in DOMAIN groups /\ more[i] = groups[i]
      BY <1>2
    <2> QED
      BY <2>1 DEF Headed
  <1> HIDE DEF last, a, b
  <1>7. a = Append(b, last)
    <2>1. Append(b, last) \in Seq(Seq(Word)) /\ Len(Append(b, last)) = n + 1
      BY <1>3, <1>4
    <2>2. ASSUME NEW i \in 1..(n + 1) PROVE a[i] = Append(b, last)[i]
      <3>1. CASE i = n + 1
        <4>1. Append(b, last)[n + 1] = last
          BY <1>3, <1>4
        <4> QED
          BY <1>5, <3>1, <4>1
      <3>2. CASE i # n + 1
        <4>1. i \in 1..n
          BY <1>2, <3>2
        <4>2. Append(b, last)[i] = b[i]
          BY <1>3, <1>4, <4>1
        <4> QED
          BY <1>6, <4>1, <4>2
      <3> QED
        BY <3>1, <3>2
    <2> QED
      BY <1>4, <2>1, <2>2, SeqEqual
  <1> QED
    BY <1>4, <1>7 DEF Texts, a, b, last, more

(* If what the others begin with was in the first, it is read once. *)
LEMMA HeadsAreRead ==
    ASSUME NEW k \in Seq(Word), NEW h \in Seq(Word), IdsOf(h) \subseteq IdsOf(CONTINUED \o k),
           NEW groups \in Texts, groups # <<>>
    PROVE  Reads(FlattenSeq(Headed(k, h, groups)), k \o FlattenSeq(groups))
  <1> DEFINE Good(gs) == Reads(FlattenSeq(Headed(k, h, gs)), k \o FlattenSeq(gs))
             T == {gs \in Seq(Seq(Word)) : gs # <<>> => Good(gs)}
  <1>1. <<>> \in T
    <2>1. <<>> \in Seq(Seq(Word))
      OBVIOUS
    <2> HIDE DEF Good
    <2> QED
      BY <2>1
  <1>2. ASSUME NEW gs \in Seq(Seq(Word)), NEW x \in Seq(Word), gs \in T
        PROVE  Append(gs, x) \in T
    <2> DEFINE parts == Headed(k, h, gs)
               p == FlattenSeq(parts)
               f == FlattenSeq(gs)
    <2>1. /\ parts \in Seq(Seq(Word)) /\ p \in Seq(Word) /\ f \in Seq(Word)
          /\ k \o x \in Seq(Word) /\ h \o x \in Seq(Word)
      <3>1. parts \in Seq(Seq(Word))
        BY HeadedMore DEF Texts
      <3> HIDE DEF parts
      <3> QED
        BY <3>1, FlattenFacts
    <2>2. /\ FlattenSeq(Append(gs, x)) = f \o x
          /\ FlattenSeq(Headed(k, h, Append(gs, x))) = p \o (IF gs = <<>> THEN k \o x ELSE h \o x)
      <3>1. FlattenSeq(Append(gs, x)) = f \o x
        BY FlattenMore
      <3>2. Headed(k, h, Append(gs, x)) =
              Append(parts, IF gs = <<>> THEN k \o x ELSE h \o x)
        BY HeadedMore DEF Texts
      <3> DEFINE last == IF gs = <<>> THEN k \o x ELSE h \o x
      <3>3. last \in Seq(Word)
        BY <2>1
      <3> HIDE DEF last, parts
      <3>4. FlattenSeq(Append(parts, last)) = FlattenSeq(parts) \o last
        BY <2>1, <3>3, FlattenMore
      <3> QED
        BY <3>1, <3>2, <3>4 DEF last
    <2>3. ASSUME gs = <<>> PROVE Good(Append(gs, x))
      <3>1. f = <<>> /\ p = <<>>
        <4>1. FlattenSeq(<<>>) = <<>>
          BY DEF FlattenSeq
        <4>2. Headed(k, h, <<>>) = <<>>
          BY DEF Headed
        <4> QED
          BY <2>3, <4>1, <4>2
      <3>2. <<>> \o (k \o x) = k \o x /\ <<>> \o x = x
        BY <2>1
      <3>3. Ids(p \o (k \o x)) = Ids(k \o (f \o x))
        BY <3>1, <3>2
      <3>4. p \o (k \o x) \in Seq(Word) /\ k \o (f \o x) \in Seq(Word)
        BY <2>1
      <3> HIDE DEF p, f
      <3>5. Reads(p \o (k \o x), k \o (f \o x))
        BY <3>3, <3>4, ReadsSame
      <3> QED
        BY <2>2, <2>3, <3>5 DEF p, f
    <2>4. ASSUME gs # <<>> PROVE Good(Append(gs, x))
      <3>1. Reads(p, k \o f)
        BY <1>2, <2>4
      <3> HIDE DEF p, f, parts
      <3>2. k \o f \in Seq(Word) /\ (k \o f) \o h \in Seq(Word)
        BY <2>1
      <3>3. Reads(p \o (h \o x), (k \o f) \o (h \o x))
        BY <2>1, <3>1, <3>2, ReadsWithin
      <3>4. IdsOf(h) \subseteq IdsOf(CONTINUED \o (k \o f))
        <4>1. /\ IdsOf(CONTINUED \o k) = IdsOf(CONTINUED) \cup IdsOf(k)
              /\ IdsOf(CONTINUED \o (k \o f)) = IdsOf(CONTINUED) \cup IdsOf(k \o f)
              /\ IdsOf(k \o f) = IdsOf(k) \cup IdsOf(f)
          BY <2>1, <3>2, ContinuedTyped, IdsMore
        <4> QED
          BY <4>1
      <3>5. Reads((k \o f) \o h, k \o f)
        BY <3>2, <3>4, ReadsAgain
      <3>6. Reads(((k \o f) \o h) \o x, (k \o f) \o x)
        BY <3>2, <3>5, ReadsWithin
      <3>7. ((k \o f) \o h) \o x = (k \o f) \o (h \o x) /\ (k \o f) \o x = k \o (f \o x)
        <4>1. ASSUME NEW q \in Seq(Word) PROVE (q \o h) \o x = q \o (h \o x)
          BY Assoc
        <4>2. ASSUME NEW q \in Seq(Word) PROVE (k \o q) \o x = k \o (q \o x)
          BY Assoc
        <4> QED
          BY <2>1, <3>2, <4>1, <4>2
      <3>8. Reads(p \o (h \o x), k \o (f \o x))
        BY <3>3, <3>6, <3>7, ReadsTrans
      <3> QED
        BY <2>2, <2>4, <3>8 DEF p, f
    <2>5. Good(Append(gs, x)) /\ Append(gs, x) \in Seq(Seq(Word))
      <3> HIDE DEF Good
      <3> QED
        BY <2>3, <2>4
    <2> HIDE DEF Good
    <2> QED
      BY <2>5
  <1>3. \A gs \in Seq(Seq(Word)) : gs \in T
    <2> HIDE DEF T
    <2> QED
      BY <1>1, <1>2, SeqInduct
  <1>4. groups \in T
    <2> HIDE DEF T
    <2> QED
      BY <1>3 DEF Texts
  <1>5. Good(groups)
    <2> HIDE DEF Good
    <2> QED
      BY <1>4, Zenon
  <1> QED
    BY <1>5

(* A text is its beginning and the rest. *)
LEMMA PrefixAndRest ==
    ASSUME NEW h \in Seq(Word), NEW t \in Seq(Word), IsPrefix(h, t)
    PROVE  LET rest == SubSeq(t, Len(h) + 1, Len(t)) IN rest \in Seq(Word) /\ h \o rest = t
  <1> DEFINE m == Len(h)
             n == Len(t)
  <1>1. m \in Nat /\ n \in Nat /\ m <= n /\ SubSeq(h, 1, m) = SubSeq(t, 1, m)
    BY DEF IsPrefix
  <1>2. SubSeq(h, 1, m) = h /\ SubSeq(t, 1, n) = t
    BY SubSeqFull
  <1>3. SubSeq(t, 1, m) \o SubSeq(t, m + 1, n) = SubSeq(t, 1, n)
    <2>1. 1 \in 1..(Len(t) + 1) /\ m \in (1 - 1)..Len(t) /\ n \in m..Len(t)
      BY <1>1
    <2> HIDE DEF m, n
    <2> QED
      BY <2>1, ConcatAdjacentSubSeq
  <1>4. SubSeq(t, m + 1, n) \in Seq(Word)
    BY <1>1, SubSeqProperties
  <1> QED
    BY <1>1, <1>2, <1>3, <1>4

(* The parts of a table are read as the table, *)
LEMMA TableKeeps ==
    ASSUME NEW b \in Block, IsPrefix(b.header, b.text), NEW limit
    PROVE  Reads(FlattenSeq(table_parts(b, limit)), b.text)
  <1>1. b.text \in Seq(Word) /\ b.header \in Seq(Word)
    BY DEF Block
  <1> DEFINE h == b.header
             body == SubSeq(b.text, Len(h) + 1, Len(b.text))
             groups(budget) == pack(Broken(Lines(body), budget, word_parts), budget)
  <1>2. body \in Seq(Word) /\ h \o body = b.text
    BY <1>1, PrefixAndRest
  <1> HIDE DEF body
  <1>3. ASSUME NEW budget
        PROVE  groups(budget) \in Texts /\ FlattenSeq(groups(budget)) = body
    <2>1. Lines(body) \in Texts /\ FlattenSeq(Lines(body)) = body
      BY <1>2, CutTyped, LinesCut, CutKeeps
    <2> DEFINE units == Broken(Lines(body), budget, word_parts)
    <2>2. units \in Texts /\ FlattenSeq(units) = body
      BY <2>1, BrokenInWords, BrokenInWordsKeeps
    <2> HIDE DEF units
    <2>3. pack(units, budget) \in Texts /\ FlattenSeq(pack(units, budget)) = body
      BY <2>2, PackTyped, PackKeeps
    <2> QED
      BY <2>3 DEF units
  <1>4. PICK budget : table_parts(b, limit) =
          IF groups(budget) = <<>> THEN <<b.text>>
          ELSE [i \in DOMAIN groups(budget) |-> h \o groups(budget)[i]]
    BY DEF table_parts, body
  <1> DEFINE gs == groups(budget)
  <1>5. gs \in Texts /\ FlattenSeq(gs) = body
    BY <1>3
  <1> HIDE DEF gs
  <1>6. CASE gs = <<>>
    <2>1. FlattenSeq(table_parts(b, limit)) = b.text
      BY <1>1, <1>4, <1>6, FlattenOne DEF gs
    <2> QED
      BY <1>1, <2>1, ReadsSame
  <1>7. CASE gs # <<>>
    <2>1. table_parts(b, limit) = Headed(h, h, gs)
      BY <1>4, <1>7 DEF Headed, gs
    <2>2. IdsOf(h) \subseteq IdsOf(CONTINUED \o h)
      BY <1>1, ContinuedTyped, IdsMore
    <2>3. Reads(FlattenSeq(Headed(h, h, gs)), h \o FlattenSeq(gs))
      BY <1>1, <1>5, <1>7, <2>2, HeadsAreRead
    <2> QED
      BY <1>2, <1>5, <2>1, <2>3
  <1> QED
    BY <1>6, <1>7

(* and those of a procedure as the procedure. *)
LEMMA ProcedureKeeps ==
    ASSUME NEW t \in Seq(Word), NEW limit
    PROVE  Reads(FlattenSeq(procedure_parts(t, limit)), t)
  <1> DEFINE parts(budget) == pack(Broken(split_steps(t), budget, sentence_parts), budget)
  <1>1. ASSUME NEW budget
        PROVE  parts(budget) \in Texts /\ FlattenSeq(parts(budget)) = t
    <2>1. split_steps(t) \in Texts /\ FlattenSeq(split_steps(t)) = t
      BY CutTyped, StepsCut, CutKeeps
    <2> DEFINE units == Broken(split_steps(t), budget, sentence_parts)
    <2>2. units \in Texts /\ FlattenSeq(units) = t
      BY <2>1, BrokenInSentences, BrokenInSentencesKeeps
    <2> HIDE DEF units
    <2>3. pack(units, budget) \in Texts /\ FlattenSeq(pack(units, budget)) = t
      BY <2>2, PackTyped, PackKeeps
    <2> QED
      BY <2>3 DEF units
  <1>2. PICK budget : procedure_parts(t, limit) =
          IF Len(split_steps(t)) <= 1 THEN sentence_parts(t, limit)
          ELSE [i \in DOMAIN parts(budget) |->
                   IF i = 1 THEN parts(budget)[i] ELSE CONTINUED \o parts(budget)[i]]
    BY DEF procedure_parts
  <1> DEFINE ps == parts(budget)
  <1>3. ps \in Texts /\ FlattenSeq(ps) = t
    BY <1>1
  <1> HIDE DEF ps
  <1>4. CASE Len(split_steps(t)) <= 1
    <2>1. FlattenSeq(procedure_parts(t, limit)) = t
      BY <1>2, <1>4, SentencePartsKeep
    <2> QED
      BY <2>1, ReadsSame
  <1>5. CASE ~(Len(split_steps(t)) <= 1)
    <2>1. procedure_parts(t, limit) =
            [i \in DOMAIN ps |-> IF i = 1 THEN ps[i] ELSE CONTINUED \o ps[i]]
      BY <1>2, <1>5 DEF ps
    <2>2. Headed(<<>>, CONTINUED, ps) =
            [i \in DOMAIN ps |-> IF i = 1 THEN ps[i] ELSE CONTINUED \o ps[i]]
      <3>1. ASSUME NEW i \in DOMAIN ps PROVE <<>> \o ps[i] = ps[i]
        <4>1. ps[i] \in Seq(Word)
          BY <1>3 DEF Texts
        <4> QED
          BY <4>1
      <3> QED
        BY <3>1 DEF Headed
    <2>3. <<>> \in Seq(Word) /\ <<>> \o t = t /\ CONTINUED \o <<>> = CONTINUED
      BY ContinuedTyped
    <2>4. CASE ps = <<>>
      <3>1. procedure_parts(t, limit) = <<>>
        BY <2>1, <2>4
      <3>2. FlattenSeq(procedure_parts(t, limit)) = t
        BY <1>3, <2>4, <3>1
      <3> QED
        BY <3>2, ReadsSame
    <2>5. CASE ps # <<>>
      <3>1. IdsOf(CONTINUED) \subseteq IdsOf(CONTINUED \o <<>>)
        BY <2>3
      <3>2. Reads(FlattenSeq(Headed(<<>>, CONTINUED, ps)), <<>> \o FlattenSeq(ps))
        BY <1>3, <2>3, <2>5, <3>1, ContinuedTyped, HeadsAreRead
      <3> QED
        BY <1>3, <2>1, <2>2, <2>3, <3>2
    <2> QED
      BY <2>4, <2>5
  <1> QED
    BY <1>4, <1>5

(* Texts of the same words, one by one. *)
SameIds(a, b, n) ==
    /\ a \in [1..n -> Seq(Word)] /\ b \in [1..n -> Seq(Word)]
    /\ \A i \in 1..n : Ids(a[i]) = Ids(b[i])

(* Texts with the same words have the same words when joined, *)
LEMMA SameIdsJoined ==
    ASSUME NEW n \in Nat, NEW a, NEW b, SameIds(a, b, n)
    PROVE  Ids(FlattenSeq(a)) = Ids(FlattenSeq(b))
  <1>0. /\ a \in [1..n -> Seq(Word)] /\ b \in [1..n -> Seq(Word)]
        /\ \A i \in 1..n : Ids(a[i]) = Ids(b[i])
    BY DEF SameIds
  <1>1. a \in Seq(Seq(Word)) /\ Len(a) = n /\ b \in Seq(Seq(Word)) /\ Len(b) = n
    BY <1>0
  <1>2. PICK j : IsJoin(a, Word, j) /\ FlattenSeq(a) = j[n]
    BY <1>1, FlattenIs
  <1>3. PICK k : IsJoin(b, Word, k) /\ FlattenSeq(b) = k[n]
    BY <1>1, FlattenIs
  <1> DEFINE G == {i \in 0..n : Ids(j[i]) = Ids(k[i])}
  <1>4. 0 \in G
    BY <1>2, <1>3 DEF IsJoin
  <1>5. ASSUME NEW i \in 1..n, i - 1 \in G PROVE i \in G
    <2>1. /\ j[i] = j[i - 1] \o a[i] /\ j[i - 1] \in Seq(Word)
          /\ k[i] = k[i - 1] \o b[i] /\ k[i - 1] \in Seq(Word)
      <3>1. i - 1 \in 0..Len(a) /\ i \in 1..Len(a) /\ i - 1 \in 0..Len(b) /\ i \in 1..Len(b)
        BY <1>1
      <3>2. j[i] = j[i - 1] \o a[i] /\ j[i - 1] \in Seq(Word)
        BY <1>2, <3>1 DEF IsJoin
      <3>3. k[i] = k[i - 1] \o b[i] /\ k[i - 1] \in Seq(Word)
        BY <1>3, <3>1 DEF IsJoin
      <3> QED
        BY <3>2, <3>3
    <2>2. a[i] \in Seq(Word) /\ b[i] \in Seq(Word)
      BY <1>0
    <2>3. Ids(j[i - 1] \o a[i]) = Ids(j[i - 1]) \o Ids(a[i])
      BY <2>1, <2>2, IdsMore
    <2>4. Ids(k[i - 1] \o b[i]) = Ids(k[i - 1]) \o Ids(b[i])
      BY <2>1, <2>2, IdsMore
    <2>5. Ids(j[i]) = Ids(k[i])
      BY <1>0, <1>5, <2>1, <2>3, <2>4
    <2> QED
      BY <2>5
  <1>6. n \in G
    <2>1. \A i \in 0..n : i \in G
      <3> HIDE DEF G
      <3> QED
        BY <1>4, <1>5, InductTo
    <2> HIDE DEF G
    <2> QED
      BY <2>1
  <1> QED
    BY <1>2, <1>3, <1>6

(* so a blank line between them changes none. *)
LEMMA JoinedKeeps ==
    ASSUME NEW texts \in Texts
    PROVE  Ids(Joined(texts)) = Ids(FlattenSeq(texts))
  <1> DEFINE end(t) == [t EXCEPT ![Len(t)].stop = TRUE]
             n == Len(texts)
             parts == [i \in DOMAIN texts |-> end(texts[i])]
  <1>1. /\ n \in Nat /\ DOMAIN texts = 1..n /\ \A i \in 1..n : texts[i] \in Seq(Word)
        /\ texts \in [1..n -> Seq(Word)]
    BY DEF Texts
  <1>2. ASSUME NEW t \in Seq(Word) PROVE end(t) \in Seq(Word) /\ Ids(end(t)) = Ids(t)
    <2>1. Len(t) \in Nat /\ DOMAIN t = 1..Len(t) /\ \A i \in 1..Len(t) : t[i] \in Word
      OBVIOUS
    <2>2. \A w \in Word : [w EXCEPT !.stop = TRUE] \in Word /\ [w EXCEPT !.stop = TRUE].id = w.id
      BY DEF Word
    <2>3. end(t) \in [1..Len(t) -> Word] /\ \A i \in 1..Len(t) : end(t)[i].id = t[i].id
      BY <2>1, <2>2
    <2> HIDE DEF end
    <2>4. DOMAIN end(t) = 1..Len(t)
      BY <2>3
    <2> QED
      BY <2>1, <2>3, <2>4 DEF Ids
  <1> HIDE DEF end
  <1>3. parts \in [1..n -> Seq(Word)] /\ \A i \in 1..n : Ids(parts[i]) = Ids(texts[i])
    BY <1>1, <1>2
  <1>4. Joined(texts) = FlattenSeq(parts)
    BY DEF Joined, end
  <1> HIDE DEF parts, n
  <1>5. SameIds(parts, texts, n) /\ n \in Nat
    BY <1>1, <1>3 DEF SameIds
  <1> QED
    BY <1>4, <1>5, SameIdsJoined

(* The words of the end of a text are words of it. *)
LEMMA TailKeeps ==
    ASSUME NEW t \in Seq(Word), NEW limit
    PROVE  IdsOf(tail_overlap(t, limit)) \subseteq IdsOf(t)
  <1> DEFINE s == Sentences(t)
  <1>1. s \in Seq(Seq(Word)) /\ FlattenSeq(s) = t
    BY CutTyped, SentencesCut, CutKeeps DEF Texts
  <1>2. \/ tail_overlap(t, limit) = <<>>
        \/ \E m \in 1..Len(s) : tail_overlap(t, limit) = FlattenSeq(SubSeq(s, m, Len(s)))
    BY TailIs
  <1> HIDE DEF s
  <1>3. CASE tail_overlap(t, limit) = <<>>
    <2>1. IdsOf(<<>>) = {}
      BY DEF IdsOf, Ids, ToSet
    <2> QED
      BY <1>3, <2>1
  <1>4. ASSUME NEW m \in 1..Len(s), tail_overlap(t, limit) = FlattenSeq(SubSeq(s, m, Len(s)))
        PROVE  IdsOf(tail_overlap(t, limit)) \subseteq IdsOf(t)
    <2> DEFINE front == SubSeq(s, 1, m - 1)
               back == SubSeq(s, m, Len(s))
    <2>1. front \in Seq(Seq(Word)) /\ back \in Seq(Seq(Word))
      BY <1>1
    <2>2. front \o back = s
      <3>1. Len(s) \in Nat
        BY <1>1
      <3>2. /\ 1 \in 1..(Len(s) + 1) /\ m - 1 \in (1 - 1)..Len(s) /\ Len(s) \in (m - 1)..Len(s)
            /\ (m - 1) + 1 = m
        BY <3>1
      <3>3. SubSeq(s, 1, m - 1) \o SubSeq(s, (m - 1) + 1, Len(s)) = SubSeq(s, 1, Len(s))
        BY <1>1, <3>2, ConcatAdjacentSubSeq
      <3>4. SubSeq(s, 1, Len(s)) = s
        BY <1>1, SubSeqFull
      <3> QED
        BY <3>2, <3>3, <3>4
    <2> HIDE DEF front, back
    <2>3. FlattenSeq(front \o back) = FlattenSeq(front) \o FlattenSeq(back)
      BY <2>1, FlattenConcat
    <2>4. FlattenSeq(front) \in Seq(Word) /\ FlattenSeq(back) \in Seq(Word)
      BY <2>1, FlattenFacts
    <2>5. IdsOf(FlattenSeq(front) \o FlattenSeq(back)) =
            IdsOf(FlattenSeq(front)) \cup IdsOf(FlattenSeq(back))
      BY <2>4, IdsMore
    <2> QED
      BY <1>1, <1>4, <2>2, <2>3, <2>5 DEF back
  <1> QED
    BY <1>2, <1>3, <1>4

(* Blocks and parts of blocks have texts. *)
HaveTexts(S) == \A x \in S : x.text \in Seq(Word)

(* They have.                                                              *)
LEMMA TextOf == HaveTexts(Block) /\ HaveTexts(Part)
  BY DEF HaveTexts, Block, Part

(* The text of blocks put together,                                        *)
LEMMA TextMore ==
    ASSUME NEW S, HaveTexts(S), NEW a \in Seq(S), NEW b \in Seq(S)
    PROVE  /\ [i \in DOMAIN a |-> a[i].text] \in Texts /\ Text(a) \in Seq(Word)
           /\ Text(<<>>) = <<>>
           /\ Text(a \o b) = Text(a) \o Text(b)
  <1> DEFINE texts(bs) == [i \in DOMAIN bs |-> bs[i].text]
  <1>1. ASSUME NEW bs \in Seq(S)
        PROVE  texts(bs) \in Seq(Seq(Word)) /\ Len(texts(bs)) = Len(bs)
    <2>1. Len(bs) \in Nat /\ DOMAIN bs = 1..Len(bs) /\ \A i \in 1..Len(bs) : bs[i] \in S
      OBVIOUS
    <2>2. \A x \in S : x.text \in Seq(Word)
      BY DEF HaveTexts
    <2>3. texts(bs) \in [1..Len(bs) -> Seq(Word)]
      BY <2>1, <2>2
    <2> QED
      BY <2>1, <2>3
  <1>2. texts(a \o b) = texts(a) \o texts(b)
    <2>1. a \o b \in Seq(S) /\ Len(a \o b) = Len(a) + Len(b)
      OBVIOUS
    <2>2. /\ texts(a) \in Seq(Seq(Word)) /\ Len(texts(a)) = Len(a)
          /\ texts(b) \in Seq(Seq(Word)) /\ Len(texts(b)) = Len(b)
          /\ texts(a \o b) \in Seq(Seq(Word)) /\ Len(texts(a \o b)) = Len(a) + Len(b)
      <3> HIDE DEF texts
      <3> QED
        BY <1>1, <2>1
    <2>3. /\ texts(a) \o texts(b) \in Seq(Seq(Word))
          /\ Len(texts(a) \o texts(b)) = Len(a) + Len(b)
      <3> HIDE DEF texts
      <3> QED
        BY <2>2, ConcatProperties
    <2>4. ASSUME NEW i \in 1..(Len(a) + Len(b))
          PROVE  texts(a \o b)[i] = (texts(a) \o texts(b))[i]
      <3>1. texts(a \o b)[i] = (a \o b)[i].text
        BY <2>1
      <3>2. CASE i <= Len(a)
        <4>1. (a \o b)[i] = a[i] /\ texts(a)[i] = a[i].text
          BY <3>2
        <4>2. (texts(a) \o texts(b))[i] = texts(a)[i]
          <5> HIDE DEF texts
          <5> QED
            BY <2>2, <3>2
        <4> QED
          BY <3>1, <4>1, <4>2
      <3>3. CASE ~(i <= Len(a))
        <4>1. (a \o b)[i] = b[i - Len(a)] /\ texts(b)[i - Len(a)] = b[i - Len(a)].text
          BY <3>3
        <4>2. (texts(a) \o texts(b))[i] = texts(b)[i - Len(a)]
          <5>1. ASSUME NEW p \in Seq(Seq(Word)), NEW q \in Seq(Seq(Word)),
                       NEW k \in 1..(Len(p) + Len(q)), ~(k <= Len(p))
                PROVE  (p \o q)[k] = q[k - Len(p)]
            BY <5>1
          <5> DEFINE p == texts(a)
                     q == texts(b)
          <5> HIDE DEF texts
          <5>2. /\ p \in Seq(Seq(Word)) /\ q \in Seq(Seq(Word))
                /\ Len(p) = Len(a) /\ Len(q) = Len(b)
            BY <2>2
          <5> HIDE DEF p, q
          <5>3. i \in 1..(Len(p) + Len(q)) /\ ~(i <= Len(p))
            BY <3>3, <5>2
          <5>4. (p \o q)[i] = q[i - Len(p)]
            BY <5>1, <5>2, <5>3
          <5> QED
            BY <5>2, <5>4 DEF p, q
        <4> QED
          BY <3>1, <4>1, <4>2
      <3> QED
        BY <3>2, <3>3
    <2> HIDE DEF texts
    <2> QED
      BY <2>2, <2>3, <2>4, SeqEqual
  <1>3. texts(a) \in Seq(Seq(Word)) /\ texts(b) \in Seq(Seq(Word))
    <2> HIDE DEF texts
    <2> QED
      BY <1>1
  <1>4. FlattenSeq(texts(a) \o texts(b)) = FlattenSeq(texts(a)) \o FlattenSeq(texts(b))
    <2> HIDE DEF texts
    <2> QED
      BY <1>3, FlattenConcat
  <1>5. FlattenSeq(texts(a)) \in Seq(Word)
    <2> HIDE DEF texts
    <2> QED
      BY <1>3, FlattenFacts
  <1>6. Text(<<>>) = <<>>
    BY DEF Text, FlattenSeq
  <1>7. /\ Text(a) = FlattenSeq(texts(a)) /\ Text(b) = FlattenSeq(texts(b))
        /\ Text(a \o b) = FlattenSeq(texts(a \o b))
    BY DEF Text
  <1>8. Text(a \o b) = Text(a) \o Text(b)
    <2> HIDE DEF texts
    <2> QED
      BY <1>2, <1>4, <1>7
  <1>9. [i \in DOMAIN a |-> a[i].text] \in Texts
    BY <1>3 DEF Texts
  <1>10. Text(a) \in Seq(Word)
    <2> HIDE DEF texts
    <2> QED
      BY <1>5, <1>7
  <1> QED
    BY <1>6, <1>8, <1>9, <1>10

(* and of one.                                                             *)
LEMMA TextOne ==
    ASSUME NEW S, HaveTexts(S), NEW b \in S
    PROVE  <<b>> \in Seq(S) /\ Text(<<b>>) = b.text /\ b.text \in Seq(Word)
  <1>1. b.text \in Seq(Word) /\ <<b>> \in Seq(S)
    BY DEF HaveTexts
  <1>2. [i \in DOMAIN <<b>> |-> <<b>>[i].text] = <<b.text>>
    OBVIOUS
  <1> QED
    BY <1>1, <1>2, FlattenOne DEF Text

(* Blocks of a procedure keep their text, *)
LEMMA MergedKeeps ==
    ASSUME NEW bs \in Seq(Block), NEW i \in 1..Len(bs), NEW j \in i..Len(bs)
    PROVE  Merged(bs, i, j).text = Text(SubSeq(bs, i, j))
  <1> DEFINE n == j - i + 1
             some == SubSeq(bs, i, j)
  <1>1. n \in Nat /\ some \in Seq(Block) /\ Len(some) = n
    <2>1. i \in Int /\ j \in Int /\ i <= j /\ SubSeq(bs, i, j) \in Seq(Block)
      BY SubSeqProperties
    <2> QED
      BY <2>1, SubSeqProperties
  <1>2. \A k \in 1..n : some[k] = bs[i + k - 1]
    BY SubSeqProperties
  <1>3. DOMAIN some = 1..n
    <2> HIDE DEF some, n
    <2> QED
      BY <1>1
  <1>4. [k \in 1..n |-> bs[i + k - 1].text] = [k \in DOMAIN some |-> some[k].text]
    <2> HIDE DEF some, n
    <2> QED
      BY <1>2, <1>3
  <1>5. Merged(bs, i, j).text = FlattenSeq([k \in 1..n |-> bs[i + k - 1].text])
    BY DEF Merged
  <1> HIDE DEF some, n
  <1> QED
    BY <1>4, <1>5 DEF Text, some

(* and so do those of a document whose procedures are grouped. *)
LEMMA GroupedKeeps ==
    ASSUME NEW bs \in Seq(Parsed)
    PROVE  Text(group_numbered_procedures(bs)) = Text(bs)
  <1> DEFINE n == Len(bs)
             next == NextPlace(bs)
             part == PartAt(bs)
  <1>1. n \in Nat /\ bs \in Seq(Block)
    BY ParsedAreBlocks
  <1>2. PICK F : IsChain(n, next, part, F) /\ group_numbered_procedures(bs) = F[1]
    BY <1>1, GroupedIs
  <1>3. \A i \in 1..n : next[i] \in (i + 1)..(n + 1)
    BY <1>1, GroupedIs
  <1>4. ASSUME NEW i \in 1..n
        PROVE  part[i] \in Seq(Block) /\ Text(part[i]) = Text(SubSeq(bs, i, next[i] - 1))
    <2>1. RunEnd(bs, i) - 1 \in i..n /\ bs[i] \in Block
      BY <1>1, RunEndIs
    <2>2. CASE IsProcedure(bs, i)
      <3> DEFINE b == Merged(bs, i, RunEnd(bs, i) - 1)
      <3>1. part[i] = <<b>> /\ next[i] = RunEnd(bs, i)
        BY <2>2 DEF PartAt, NextPlace
      <3>2. b \in Block
        BY <2>1, MergedTyped DEF Parsed
      <3>3. b.text = Text(SubSeq(bs, i, RunEnd(bs, i) - 1))
        BY <1>1, <2>1, MergedKeeps
      <3> HIDE DEF b
      <3> QED
        BY <3>1, <3>2, <3>3, TextOne, TextOf
    <2>3. CASE ~IsProcedure(bs, i)
      <3>1. part[i] = <<bs[i]>> /\ next[i] = i + 1
        BY <2>3 DEF PartAt, NextPlace
      <3>2. SubSeq(bs, i, (i + 1) - 1) = <<bs[i]>>
        <4>1. (i + 1) - 1 = i /\ i \in 1..Len(bs)
          OBVIOUS
        <4>2. ASSUME NEW s \in Seq(Block), NEW k \in 1..Len(s) PROVE SubSeq(s, k, k) = <<s[k]>>
          <5>1. SubSeq(s, k, k) = SubSeq(s, k, k - 1) \o <<s[k]>>
            BY SubSeqRecursiveSecond, k \in k..Len(s)
          <5>2. SubSeq(s, k, k - 1) = <<>>
            BY SubSeqEmpty
          <5>3. <<>> \o <<s[k]>> = <<s[k]>>
            OBVIOUS
          <5> QED
            BY <5>1, <5>2, <5>3
        <4> QED
          BY <1>1, <4>1, <4>2
      <3> QED
        BY <2>1, <3>1, <3>2, TextOne, TextOf
    <2> QED
      BY <2>2, <2>3
  <1> HIDE DEF next, part, n
  <1> DEFINE Rest(i) == SubSeq(bs, i, n)
             Good(i) == F[i] \in Seq(Block) /\ Text(F[i]) = Text(Rest(i))
             T == {k \in 0..n : \A i \in (n + 1 - k)..(n + 1) : Good(i)}
  <1>5. 0 \in T
    <2>1. ASSUME NEW i \in (n + 1 - 0)..(n + 1) PROVE Good(i)
      <3>1. i = n + 1 /\ i \in 1..(n + 1) /\ i > n
        BY <1>1
      <3>2. F[i] = <<>>
        BY <1>2, <3>1 DEF IsChain
      <3>3. Rest(i) = <<>>
        BY <1>1, <3>1, SubSeqEmpty
      <3>4. <<>> \in Seq(Block)
        OBVIOUS
      <3> QED
        BY <3>2, <3>3, <3>4
    <2> HIDE DEF Good
    <2> QED
      BY <1>1, <2>1
  <1>6. ASSUME NEW k \in 1..n, k - 1 \in T PROVE k \in T
    <2>1. \A i \in (n + 1 - (k - 1))..(n + 1) : Good(i)
      <3> HIDE DEF Good
      <3> QED
        BY <1>6
    <2>2. ASSUME NEW i \in (n + 1 - k)..(n + 1) PROVE Good(i)
      <3>1. CASE i > n + 1 - k
        <4>1. i \in (n + 1 - (k - 1))..(n + 1)
          BY <1>1, <3>1
        <4> HIDE DEF Good
        <4> QED
          BY <2>1, <4>1
      <3>2. CASE i = n + 1 - k
        <4>1. i \in 1..n /\ i \in 1..(n + 1) /\ ~(i > n)
          BY <1>1, <3>2
        <4>2. F[i] = part[i] \o F[next[i]]
          BY <1>2, <4>1 DEF IsChain
        <4> DEFINE m == next[i]
        <4>3. m \in (i + 1)..(n + 1)
          BY <1>3, <4>1
        <4>4. m \in (n + 1 - (k - 1))..(n + 1)
          BY <1>1, <3>2, <4>1, <4>3
        <4>5. F[m] \in Seq(Block) /\ Text(F[m]) = Text(Rest(m))
          <5>1. Good(m)
            <6> HIDE DEF Good, m
            <6> QED
              BY <2>1, <4>4
          <5> QED
            BY <5>1
        <4>6. part[i] \in Seq(Block) /\ Text(part[i]) = Text(SubSeq(bs, i, m - 1))
          BY <1>4, <4>1
        <4>7. Text(F[i]) = Text(part[i]) \o Text(F[m]) /\ F[i] \in Seq(Block)
          <5> DEFINE p == part[i]
                     q == F[m]
          <5>1. p \in Seq(Block) /\ q \in Seq(Block) /\ F[i] = p \o q
            BY <4>2, <4>5, <4>6
          <5> HIDE DEF p, q
          <5>2. Text(p \o q) = Text(p) \o Text(q)
            BY <5>1, TextMore, TextOf, Zenon
          <5>3. p \o q \in Seq(Block)
            BY <5>1
          <5> QED
            BY <5>1, <5>2, <5>3 DEF p, q
        <4> HIDE DEF m
        <4>8. SubSeq(bs, i, m - 1) \o SubSeq(bs, m, n) = SubSeq(bs, i, n)
          <5>1. /\ i \in 1..(Len(bs) + 1) /\ m - 1 \in (i - 1)..Len(bs)
                /\ Len(bs) \in (m - 1)..Len(bs) /\ (m - 1) + 1 = m
            BY <1>1, <4>1, <4>3 DEF n
          <5>2. SubSeq(bs, i, m - 1) \o SubSeq(bs, (m - 1) + 1, Len(bs)) = SubSeq(bs, i, Len(bs))
            BY <1>1, <5>1, ConcatAdjacentSubSeq
          <5> QED
            BY <5>1, <5>2 DEF n
        <4>9. SubSeq(bs, i, m - 1) \in Seq(Block) /\ SubSeq(bs, m, n) \in Seq(Block)
          <5>1. \A u \in 1..(n + 1), v \in 0..n : SubSeq(bs, u, v) \in Seq(Block)
            BY <1>1, SubSeqProperties DEF n
          <5>2. i \in 1..(n + 1) /\ m \in 1..(n + 1) /\ m - 1 \in 0..n /\ n \in 0..n
            BY <1>1, <4>1, <4>3
          <5> QED
            BY <5>1, <5>2
        <4>10. Text(SubSeq(bs, i, m - 1) \o SubSeq(bs, m, n)) =
                 Text(SubSeq(bs, i, m - 1)) \o Text(SubSeq(bs, m, n))
          BY <4>9, TextMore, TextOf
        <4> QED
          BY <4>5, <4>6, <4>7, <4>8, <4>10
      <3> QED
        BY <1>1, <3>1, <3>2
    <2> HIDE DEF Good
    <2> QED
      BY <2>2
  <1>7. n \in T
    <2>1. \A k \in 0..n : k \in T
      <3> HIDE DEF T
      <3> QED
        BY <1>1, <1>5, <1>6, InductTo
    <2> HIDE DEF T
    <2> QED
      BY <1>1, <2>1
  <1>8. Good(1)
    <2>1. \A i \in (n + 1 - n)..(n + 1) : Good(i)
      <3> HIDE DEF Good
      <3> QED
        BY <1>7
    <2> HIDE DEF Good
    <2> QED
      BY <1>1, <2>1
  <1>9. Rest(1) = bs
    BY <1>1, SubSeqFull DEF n
  <1> QED
    BY <1>2, <1>8, <1>9

(* The text of what is left, one part or one block less. *)
LEMMA TextRest ==
    ASSUME NEW S, HaveTexts(S), NEW s \in Seq(S), s # <<>>
    PROVE  /\ Head(s).text \in Seq(Word) /\ Text(Tail(s)) \in Seq(Word)
           /\ Text(s) = Head(s).text \o Text(Tail(s))
  <1>1. Head(s) \in S /\ Tail(s) \in Seq(S) /\ <<Head(s)>> \in Seq(S)
    OBVIOUS
  <1>2. s = <<Head(s)>> \o Tail(s)
    OBVIOUS
  <1>3. Text(<<Head(s)>>) = Head(s).text /\ Head(s).text \in Seq(Word)
    BY <1>1, TextOne
  <1>4. Text(<<Head(s)>> \o Tail(s)) = Text(<<Head(s)>>) \o Text(Tail(s))
    BY <1>1, TextMore
  <1>5. Text(Tail(s)) \in Seq(Word)
    BY <1>1, TextMore
  <1> QED
    BY <1>2, <1>3, <1>4, <1>5

(* What becomes of a block is read as the block. *)
LEMMA PlanKeeps ==
    ASSUME NEW b \in Parsed
    PROVE  Reads(Text(Plan(b)), b.text)
  <1>1. b \in Block /\ b.text \in Seq(Word) /\ IsPrefix(b.header, b.text)
    BY DEF Parsed, Block
  <1>2. ASSUME NEW alone, NEW texts \in Texts PROVE Text(Each(alone, texts)) = FlattenSeq(texts)
    <2>1. [i \in DOMAIN Each(alone, texts) |-> Each(alone, texts)[i].text] = texts
      <3>1. texts \in Seq(Seq(Word))
        BY DEF Texts
      <3>2. DOMAIN Each(alone, texts) = DOMAIN texts
            /\ \A i \in DOMAIN texts : Each(alone, texts)[i].text = texts[i]
        BY DEF Each
      <3>3. texts = [i \in DOMAIN texts |-> texts[i]]
        BY <3>1
      <3> QED
        BY <3>2, <3>3
    <2> QED
      BY <2>1 DEF Text
  <1>3. /\ table_parts(b, Target) \in Texts
        /\ procedure_parts(b.text, Ceiling) \in Texts
        /\ sentence_parts(b.text, Target) \in Texts
        /\ <<b.text>> \in Texts
    BY <1>1, TablePartsTyped, ProcedurePartsTyped, SentenceParts DEF Texts
  <1>4. /\ Reads(FlattenSeq(table_parts(b, Target)), b.text)
        /\ Reads(FlattenSeq(procedure_parts(b.text, Ceiling)), b.text)
    BY <1>1, TableKeeps, ProcedureKeeps
  <1>5. FlattenSeq(sentence_parts(b.text, Target)) = b.text /\ FlattenSeq(<<b.text>>) = b.text
    BY <1>1, SentencePartsKeep, FlattenOne
  <1>6. Reads(b.text, b.text)
    BY DEF Reads
  <1>7. /\ Text(Each(TRUE, table_parts(b, Target))) = FlattenSeq(table_parts(b, Target))
        /\ Text(Each(TRUE, procedure_parts(b.text, Ceiling))) =
             FlattenSeq(procedure_parts(b.text, Ceiling))
        /\ Text(Each(FALSE, sentence_parts(b.text, Target))) = b.text
        /\ Text(Each(FALSE, <<b.text>>)) = b.text
    BY <1>2, <1>3, <1>5
  <1>8. \/ Plan(b) = Each(TRUE, table_parts(b, Target))
        \/ Plan(b) = Each(TRUE, procedure_parts(b.text, Ceiling))
        \/ Plan(b) = Each(FALSE, sentence_parts(b.text, Target))
        \/ Plan(b) = Each(FALSE, <<b.text>>)
    BY Zenon DEF Plan
  <1> QED
    BY <1>4, <1>6, <1>7, <1>8

(* What is read after a, then p, then what is left, if a is what was       *)
(* written and held, and p is read after it as what is taken, t.           *)
LEMMA NextWords ==
    ASSUME NEW d \in Seq(Word), NEW h \in Seq(Word), NEW t \in Seq(Word), NEW r \in Seq(Word),
           NEW x \in Seq(Word), NEW a \in Seq(Word), NEW p \in Seq(Word),
           Reads(a, d \o h), Reads(a \o p, a \o t)
    PROVE  Reads((a \o p) \o (r \o x), d \o (h \o ((t \o r) \o x)))
  <1> DEFINE left == r \o x
             dh == d \o h
             tl == t \o left
  <1>1. left \in Seq(Word) /\ dh \in Seq(Word) /\ a \o p \in Seq(Word) /\ a \o t \in Seq(Word)
    OBVIOUS
  <1>2. tl \in Seq(Word) /\ tl = (t \o r) \o x
    <2>1. t \o (r \o x) = (t \o r) \o x
      <3>1. Regroups(t, r, x)
        BY Regrouped
      <3> QED
        BY <3>1 DEF Regroups
    <2> QED
      BY <1>1, <2>1
  <1>3. Reads(a, dh)
    OBVIOUS
  <1> HIDE DEF left, dh
  <1>4. Reads((a \o p) \o left, (a \o t) \o left)
    BY <1>1, ReadsWithin
  <1>5. (a \o t) \o left = a \o tl
    <2>1. Regroups(a, t, left)
      BY <1>1, Regrouped
    <2> QED
      BY <2>1 DEF Regroups
  <1> HIDE DEF tl
  <1>6. Reads(a \o tl, dh \o tl)
    BY <1>1, <1>2, <1>3, ReadsWithin
  <1>7. Reads((a \o p) \o left, dh \o tl)
    BY <1>4, <1>5, <1>6, ReadsTrans
  <1>8. dh \o tl = d \o (h \o tl)
    <2>1. Regroups(d, h, tl)
      BY <1>2, Regrouped
    <2> QED
      BY <2>1 DEF Regroups, dh
  <1> QED
    BY <1>2, <1>7, <1>8 DEF left

(* A flush writes what the buffer holds, and carries over some of that. *)
LEMMA FlushKeeps ==
    ASSUME ChunkInv
    PROVE  LET flushed == FlattenSeq(Flushed(buffer)) IN
           /\ FlattenSeq(drafts) \in Seq(Word) /\ FlattenSeq(buffer) \in Seq(Word)
           /\ flushed \in Seq(Word)
           /\ Reads(flushed, FlattenSeq(drafts) \o FlattenSeq(buffer))
           /\ buffer # <<>> => IdsOf(CarriedFrom(buffer)) \subseteq IdsOf(flushed)
  <1> DEFINE d == FlattenSeq(drafts)
             h == FlattenSeq(buffer)
             j == Joined(buffer)
             flushed == FlattenSeq(Flushed(buffer))
  <1>1. drafts \in Seq(Seq(Word)) /\ buffer \in Seq(Seq(Word)) /\ buffer \in Texts
    BY DEF ChunkInv, Texts
  <1>2. d \in Seq(Word) /\ h \in Seq(Word)
    BY <1>1, FlattenFacts
  <1>3. j \in Seq(Word) /\ Ids(j) = Ids(h)
    BY <1>1, JoinedTyped, JoinedKeeps
  <1>4. CASE buffer = <<>>
    <2>1. Flushed(buffer) = drafts
      BY <1>4 DEF Flushed
    <2>2. h = <<>>
      BY <1>4 DEF FlattenSeq
    <2>3. flushed = d
      BY <2>1
    <2> HIDE DEF d, h, flushed
    <2>4. d \o h = d
      BY <1>2, <2>2
    <2>5. Reads(flushed, d \o h)
      BY <2>3, <2>4 DEF Reads
    <2> QED
      BY <1>2, <1>4, <2>3, <2>5 DEF d, h, flushed
  <1>5. CASE buffer # <<>>
    <2>1. Flushed(buffer) = drafts \o Pieces(j)
      BY <1>5 DEF Flushed
    <2> HIDE DEF j
    <2>2. Pieces(j) \in Seq(Seq(Word)) /\ FlattenSeq(Pieces(j)) = j
      BY <1>3, PiecesFit, PiecesKeep DEF Texts
    <2>3. FlattenSeq(drafts \o Pieces(j)) = d \o FlattenSeq(Pieces(j))
      BY <1>1, <2>2, FlattenConcat
    <2>4. flushed = d \o j
      BY <2>1, <2>2, <2>3
    <2>5. IdsOf(CarriedFrom(buffer)) \subseteq IdsOf(j)
      <3>1. CarriedFrom(buffer) = tail_overlap(j, Overlap)
        BY <1>5 DEF CarriedFrom, j
      <3> QED
        BY <1>3, <3>1, TailKeeps
    <2> HIDE DEF d, h, flushed
    <2>6. /\ Ids(d \o j) = Ids(d) \o Ids(j) /\ Ids(d \o h) = Ids(d) \o Ids(h)
          /\ IdsOf(d \o j) = IdsOf(d) \cup IdsOf(j)
      BY <1>2, <1>3, IdsMore
    <2>7. d \o j \in Seq(Word) /\ d \o h \in Seq(Word)
      BY <1>2, <1>3
    <2>8. Reads(d \o j, d \o h)
      BY <1>3, <2>6, <2>7, ReadsSame
    <2> QED
      BY <1>2, <2>4, <2>5, <2>6, <2>7, <2>8 DEF d, h, flushed
  <1> QED
    BY <1>4, <1>5

(* A document that is no deck is read in the chunks, the buffer, and what  *)
(* is left of the block being looked at and of the document.               *)
ReadInv ==
    ~IsDeck(document) =>
        /\ Reads(FlattenSeq(drafts) \o (FlattenSeq(buffer) \o (Text(todo) \o Text(blocks))),
                 Text(document))
        /\ phase # "done" => carried = <<>>
        /\ phase = "done" => todo = <<>> /\ blocks = <<>> /\ buffer = <<>>

(* What is left is text.                                                   *)
LEMMA Left ==
    ASSUME ChunkInv
    PROVE  /\ Text(todo) \in Seq(Word) /\ Text(blocks) \in Seq(Word)
           /\ Text(document) \in Seq(Word)
           /\ todo \in Seq(Part) /\ blocks \in Seq(Block) /\ document \in Seq(Block)
  <1>1. todo \in Seq(Part) /\ blocks \in Seq(Block) /\ document \in Seq(Block)
    BY ParsedAreBlocks DEF ChunkInv
  <1> QED
    BY <1>1, TextMore, TextOf

(* add keeps a document readable, the overlap being read before,           *)
LEMMA AddReads == ChunkInv /\ ReadInv /\ Add => ReadInv'
  <1> SUFFICES ASSUME ChunkInv, ReadInv, Add, ~IsDeck(document) PROVE ReadInv'
    BY DEF ReadInv, Add
  <1> DEFINE t == Head(todo).text
             r == Text(Tail(todo))
             x == Text(blocks)
             d == FlattenSeq(drafts)
             h == FlattenSeq(buffer)
             flushed == FlattenSeq(Flushed(buffer))
  <1>1. /\ t \in Seq(Word) /\ r \in Seq(Word) /\ x \in Seq(Word) /\ Text(todo) = t \o r
    BY Left, TextRest, TextOf DEF Add
  <1>2. /\ d \in Seq(Word) /\ h \in Seq(Word) /\ flushed \in Seq(Word)
        /\ Reads(flushed, d \o h)
        /\ buffer # <<>> => IdsOf(CarriedFrom(buffer)) \subseteq IdsOf(flushed)
    BY FlushKeeps
  <1>3. carried = <<>> /\ phase # "done"
    BY DEF ReadInv, Add
  <1>4. /\ todo' = Tail(todo) /\ blocks' = blocks /\ document' = document /\ phase' = phase
    BY DEF Add
  <1>5. Reads(d \o (h \o (Text(todo) \o x)), Text(document))
    BY DEF ReadInv
  <1>6. buffer \in Seq(Seq(Word)) /\ drafts \in Seq(Seq(Word))
    BY DEF ChunkInv, Texts
  <1>7. carried' = <<>>
    BY <1>3, Zenon DEF Add
  <1>8. CASE Fits(Head(todo).text)
    <2>1. drafts' = drafts
      BY <1>8 DEF Add
    <2>2. buffer' = Append(buffer, t)
      <3>1. buffer' = Append(IF buffer = <<>> THEN Started(carried) ELSE buffer, t)
        BY <1>8 DEF Add
      <3>2. Started(carried) = <<>>
        BY <1>3 DEF Started
      <3> QED
        BY <3>1, <3>2
    <2>3. FlattenSeq(buffer') = h \o t
      BY <1>1, <1>6, <2>2, FlattenMore
    <2>4. (h \o t) \o (r \o x) = h \o ((t \o r) \o x)
      <3> HIDE DEF t, r, x, h
      <3>1. r \o x \in Seq(Word)
        BY <1>1
      <3>2. Regroups(t, r, x) /\ Regroups(h, t, r \o x)
        BY <1>1, <1>2, <3>1, Regrouped
      <3> QED
        BY <3>2 DEF Regroups
    <2>5. Reads(FlattenSeq(drafts') \o (FlattenSeq(buffer') \o (Text(todo') \o Text(blocks'))),
                Text(document'))
      BY <1>1, <1>4, <1>5, <2>1, <2>3, <2>4
    <2> QED
      BY <1>3, <1>4, <1>7, <2>5 DEF ReadInv
  <1>9. CASE ~Fits(Head(todo).text)
    <2> DEFINE o == CarriedFrom(buffer)
    <2>1. buffer # <<>>
      BY <1>9 DEF Fits
    <2>2. o \in Seq(Word)
      BY CarriedTyped
    <2>3. drafts' = Flushed(buffer) /\ buffer' = Append(Started(o), t)
      BY <1>9 DEF Add
    <2> HIDE DEF o, d, h, r, x, t, flushed
    <2>4. Started(o) \in Seq(Seq(Word)) /\ FlattenSeq(Started(o)) = o
      <3>1. FlattenSeq(<<o>>) = o /\ FlattenSeq(<<>>) = <<>>
        BY <2>2, FlattenOne DEF FlattenSeq
      <3> QED
        BY <2>2, <3>1 DEF Started
    <2>5. FlattenSeq(buffer') = o \o t
      <3>1. FlattenSeq(Append(Started(o), t)) = FlattenSeq(Started(o)) \o t
        BY <1>1, <2>4, FlattenMore
      <3> QED
        BY <2>3, <2>4, <3>1
    <2>6. Reads(flushed \o (o \o t), flushed \o t)
      <3>1. IdsOf(o) \subseteq IdsOf(CONTINUED \o flushed)
        <4>1. IdsOf(CONTINUED \o flushed) = IdsOf(CONTINUED) \cup IdsOf(flushed)
          BY <1>2, ContinuedTyped, IdsMore
        <4> QED
          BY <1>2, <2>1, <4>1 DEF o
      <3>2. Reads(flushed \o o, flushed)
        BY <1>2, <2>2, <3>1, ReadsAgain
      <3>3. flushed \o o \in Seq(Word)
        BY <1>2, <2>2
      <3>4. Reads((flushed \o o) \o t, flushed \o t)
        BY <1>1, <1>2, <3>2, <3>3, ReadsWithin
      <3>5. (flushed \o o) \o t = flushed \o (o \o t)
        <4>1. Regroups(flushed, o, t)
          BY <1>1, <1>2, <2>2, Regrouped
        <4> QED
          BY <4>1 DEF Regroups
      <3> QED
        BY <3>4, <3>5
    <2>7. o \o t \in Seq(Word)
      BY <1>1, <2>2
    <2>8. Reads((flushed \o (o \o t)) \o (r \o x), d \o (h \o ((t \o r) \o x)))
      BY <1>1, <1>2, <2>6, <2>7, NextWords
    <2>9. (flushed \o (o \o t)) \o (r \o x) = flushed \o ((o \o t) \o (r \o x))
      <3>1. r \o x \in Seq(Word)
        BY <1>1
      <3>2. Regroups(flushed, o \o t, r \o x)
        BY <1>2, <2>7, <3>1, Regrouped
      <3> QED
        BY <3>2 DEF Regroups
    <2>10. Reads(flushed \o ((o \o t) \o (r \o x)), Text(document))
      BY <1>1, <1>5, <2>8, <2>9, ReadsTrans
    <2>11. Reads(FlattenSeq(drafts') \o (FlattenSeq(buffer') \o (Text(todo') \o Text(blocks'))),
                 Text(document'))
      BY <1>4, <2>3, <2>5, <2>10 DEF flushed, r, x
    <2> QED
      BY <1>3, <1>4, <1>7, <2>11 DEF ReadInv
  <1> QED
    BY <1>8, <1>9

(* emit_standalone does, as it flushes first,                              *)
LEMMA EmitReads == ChunkInv /\ ReadInv /\ EmitStandalone => ReadInv'
  <1> SUFFICES ASSUME ChunkInv, ReadInv, EmitStandalone, ~IsDeck(document) PROVE ReadInv'
    BY DEF ReadInv, EmitStandalone
  <1> DEFINE t == Head(todo).text
             r == Text(Tail(todo))
             x == Text(blocks)
             d == FlattenSeq(drafts)
             h == FlattenSeq(buffer)
             j == Joined(<<t>>)
             flushed == FlattenSeq(Flushed(buffer))
  <1>1. /\ t \in Seq(Word) /\ r \in Seq(Word) /\ x \in Seq(Word) /\ Text(todo) = t \o r
    BY Left, TextRest, TextOf DEF EmitStandalone
  <1>2. /\ d \in Seq(Word) /\ h \in Seq(Word) /\ flushed \in Seq(Word)
        /\ Reads(flushed, d \o h)
    BY FlushKeeps
  <1>3. phase # "done"
    BY DEF ReadInv, EmitStandalone
  <1>4. /\ todo' = Tail(todo) /\ blocks' = blocks /\ document' = document /\ phase' = phase
        /\ carried' = <<>> /\ buffer' = <<>>
        /\ drafts' = Flushed(buffer) \o Pieces(j)
    BY DEF EmitStandalone
  <1>5. Reads(d \o (h \o (Text(todo) \o x)), Text(document))
    BY DEF ReadInv
  <1>6. Flushed(buffer) \in Seq(Seq(Word))
    BY FlushedFits DEF Texts
  <1> HIDE DEF t, r, x, d, h
  <1>7. j \in Seq(Word) /\ Ids(j) = Ids(t)
    <2>1. <<t>> \in Texts /\ FlattenSeq(<<t>>) = t
      BY <1>1, FlattenOne DEF Texts
    <2> QED
      BY <2>1, JoinedTyped, JoinedKeeps
  <1> HIDE DEF j
  <1>8. FlattenSeq(drafts') = flushed \o j
    <2>1. Pieces(j) \in Seq(Seq(Word)) /\ FlattenSeq(Pieces(j)) = j
      BY <1>7, PiecesFit, PiecesKeep DEF Texts
    <2>2. FlattenSeq(Flushed(buffer) \o Pieces(j)) =
            FlattenSeq(Flushed(buffer)) \o FlattenSeq(Pieces(j))
      BY <1>6, <2>1, FlattenConcat
    <2> QED
      BY <1>4, <2>1, <2>2
  <1> HIDE DEF flushed
  <1>9. Reads(flushed \o j, flushed \o t)
    <2>1. Reads(j, t)
      BY <1>1, <1>7, ReadsSame
    <2> QED
      BY <1>1, <1>2, <1>7, <2>1, ReadsWithin
  <1>10. Reads((flushed \o j) \o (r \o x), d \o (h \o ((t \o r) \o x)))
    BY <1>1, <1>2, <1>7, <1>9, NextWords
  <1>11. Reads((flushed \o j) \o (r \o x), Text(document))
    BY <1>1, <1>5, <1>10, ReadsTrans
  <1>12. FlattenSeq(buffer') \o (r \o x) = r \o x
    <2>1. FlattenSeq(buffer') = <<>>
      BY <1>4 DEF FlattenSeq
    <2>2. <<>> \o (r \o x) = r \o x
      BY <1>1
    <2> QED
      BY <2>1, <2>2
  <1>13. Reads(FlattenSeq(drafts') \o (FlattenSeq(buffer') \o (Text(todo') \o Text(blocks'))),
               Text(document'))
    BY <1>4, <1>8, <1>11, <1>12 DEF r, x
  <1> QED
    BY <1>3, <1>4, <1>13 DEF ReadInv

(* a block does whatever it is turned into,                                *)
LEMMA NextBlockReads == ChunkInv /\ ReadInv /\ NextBlock => ReadInv'
  <1> SUFFICES ASSUME ChunkInv, ReadInv, NextBlock PROVE ReadInv'
    OBVIOUS
  <1> DEFINE b == Head(blocks)
             t == b.text
             p == Text(Plan(b))
             x == Text(Tail(blocks))
             d == FlattenSeq(drafts)
             h == FlattenSeq(buffer)
  <1>1. t \in Seq(Word) /\ x \in Seq(Word) /\ Text(blocks) = t \o x
    BY Left, TextRest, TextOf DEF NextBlock
  <1>2. d \in Seq(Word) /\ h \in Seq(Word)
    BY FlushKeeps
  <1>3. /\ todo' = Plan(b) /\ blocks' = Tail(blocks) /\ document' = document /\ phase' = phase
        /\ carried' = carried /\ buffer' = buffer /\ drafts' = drafts
        /\ todo = <<>> /\ phase # "done" /\ ~IsDeck(document)
    BY DEF NextBlock
  <1>4. b \in Parsed
    BY DEF ChunkInv, NextBlock
  <1>5. p \in Seq(Word) /\ Reads(p, t)
    <2>1. Plan(b) \in Seq(Part)
      BY <1>4, PlanTyped DEF Parsed
    <2> QED
      BY <1>4, <2>1, TextMore, TextOf, PlanKeeps
  <1>6. Reads(d \o (h \o (Text(todo) \o Text(blocks))), Text(document)) /\ carried = <<>>
    BY <1>3 DEF ReadInv
  <1>7. Text(todo) = <<>>
    BY <1>3 DEF Text, FlattenSeq
  <1> HIDE DEF t, p, x, d, h, b
  <1>8. <<>> \o (t \o x) = t \o x
    BY <1>1
  <1>9. Reads(d \o (h \o (t \o x)), Text(document))
    BY <1>1, <1>6, <1>7, <1>8
  <1>10. Reads(d \o (h \o (p \o x)), d \o (h \o (t \o x)))
    <2>1. Reads(p \o x, t \o x) /\ p \o x \in Seq(Word) /\ t \o x \in Seq(Word)
      BY <1>1, <1>5, ReadsWithin
    <2>2. ASSUME NEW g \in Seq(Word), NEW q \in Seq(Word), NEW s \in Seq(Word), Reads(q, s)
          PROVE  Reads(g \o q, g \o s) /\ g \o q \in Seq(Word) /\ g \o s \in Seq(Word)
      BY <2>2, ReadsWithin
    <2>3. Reads(h \o (p \o x), h \o (t \o x))
          /\ h \o (p \o x) \in Seq(Word) /\ h \o (t \o x) \in Seq(Word)
      BY <1>2, <2>1, <2>2
    <2> QED
      BY <1>2, <2>2, <2>3
  <1>11. Reads(d \o (h \o (p \o x)), Text(document))
    BY <1>9, <1>10, ReadsTrans
  <1>12. Reads(FlattenSeq(drafts') \o (FlattenSeq(buffer') \o (Text(todo') \o Text(blocks'))),
               Text(document'))
    BY <1>3, <1>11 DEF d, h, p, x
  <1> QED
    BY <1>3, <1>6, <1>12 DEF ReadInv

(* and so does the last flush.                                             *)
LEMMA FinishReads == ChunkInv /\ ReadInv /\ Finish => ReadInv'
  <1> SUFFICES ASSUME ChunkInv, ReadInv, Finish PROVE ReadInv'
    OBVIOUS
  <1> DEFINE d == FlattenSeq(drafts)
             h == FlattenSeq(buffer)
             flushed == FlattenSeq(Flushed(buffer))
  <1>1. /\ d \in Seq(Word) /\ h \in Seq(Word) /\ flushed \in Seq(Word)
        /\ Reads(flushed, d \o h)
    BY FlushKeeps
  <1>2. /\ todo = <<>> /\ blocks = <<>> /\ todo' = <<>> /\ blocks' = <<>> /\ buffer' = <<>>
        /\ drafts' = Flushed(buffer) /\ document' = document /\ phase' = "done"
        /\ ~IsDeck(document)
    BY DEF Finish
  <1>3. Reads(d \o (h \o (Text(todo) \o Text(blocks))), Text(document))
    BY <1>2 DEF ReadInv
  <1>4. Text(<<>>) = <<>> /\ FlattenSeq(<<>>) = <<>>
    BY DEF Text, FlattenSeq
  <1> HIDE DEF d, h
  <1>5. h \o (<<>> \o <<>>) = h /\ flushed \o (<<>> \o (<<>> \o <<>>)) = flushed
    <2>1. \A s \in Seq(Word) : s \o (<<>> \o <<>>) = s /\ s \o (<<>> \o (<<>> \o <<>>)) = s
      OBVIOUS
    <2> HIDE DEF flushed
    <2> QED
      BY <1>1, <2>1
  <1>6. Reads(flushed, Text(document))
    BY <1>1, <1>2, <1>3, <1>4, <1>5, ReadsTrans
  <1>7. Reads(FlattenSeq(drafts') \o (FlattenSeq(buffer') \o (Text(todo') \o Text(blocks'))),
              Text(document'))
    BY <1>2, <1>4, <1>5, <1>6
  <1> QED
    BY <1>2, <1>7 DEF ReadInv

(* At the start the document is all that is left.                          *)
LEMMA InitReads == Init => ReadInv
  <1> SUFFICES ASSUME Init, ~IsDeck(document) PROVE ReadInv
    BY DEF ReadInv
  <1>1. /\ todo = <<>> /\ buffer = <<>> /\ drafts = <<>> /\ carried = <<>> /\ phase # "done"
        /\ document \in Documents /\ blocks = group_numbered_procedures(document)
    BY DEF Init
  <1>2. Text(blocks) = Text(document)
    BY <1>1, DocumentsParsed, GroupedKeeps
  <1>3. Text(document) \in Seq(Word)
    <2>1. document \in Seq(Block)
      BY <1>1, DocumentsParsed, ParsedAreBlocks
    <2> QED
      BY <2>1, TextMore, TextOf
  <1>4. Text(<<>>) = <<>> /\ FlattenSeq(<<>>) = <<>>
    BY DEF Text, FlattenSeq
  <1>5. <<>> \o (<<>> \o (<<>> \o Text(document))) = Text(document)
    BY <1>3
  <1>6. FlattenSeq(drafts) \o (FlattenSeq(buffer) \o (Text(todo) \o Text(blocks))) = Text(document)
    BY <1>1, <1>2, <1>4, <1>5
  <1> QED
    BY <1>1, <1>6 DEF ReadInv, Reads

(* At the end the chunks are the document, words seen before skipped. *)
LEMMA ReadInFull ==
    ASSUME ChunkInv, document \in Documents, ReadInv, Done, ~IsDeck(document)
    PROVE  FirstSeen(Ids(CONTINUED \o FlattenSeq(drafts))) = Ids(CONTINUED \o Text(document))
  <1> DEFINE d == FlattenSeq(drafts)
             t == Text(document)
  <1>1. d \in Seq(Word) /\ t \in Seq(Word)
    BY FlushKeeps, Left
  <1>2. /\ todo = <<>> /\ blocks = <<>> /\ buffer = <<>>
        /\ Reads(d \o (FlattenSeq(buffer) \o (Text(todo) \o Text(blocks))), t)
    BY DEF ReadInv, Done
  <1>3. Text(<<>>) = <<>> /\ FlattenSeq(<<>>) = <<>>
    BY DEF Text, FlattenSeq
  <1>4. IsInjective(Ids(CONTINUED \o t))
    BY ChunkerAssumption
  <1> HIDE DEF d, t
  <1>5. d \o (<<>> \o (<<>> \o <<>>)) = d /\ <<>> \o d = d /\ <<>> \o t = t
        /\ <<>> \in Seq(Word)
    BY <1>1
  <1>6. Reads(d, t)
    BY <1>2, <1>3, <1>5
  <1>7. FirstSeen(Ids(CONTINUED \o d)) = FirstSeen(Ids(CONTINUED \o t))
    BY <1>5, <1>6 DEF Reads
  <1>8. Ids(CONTINUED \o t) \in Seq(Id)
    <2>1. CONTINUED \o t \in Seq(Word)
      BY <1>1, ContinuedTyped
    <2> QED
      BY <2>1, IdsMore
  <1>9. FirstSeen(Ids(CONTINUED \o t)) = Ids(CONTINUED \o t)
    BY <1>4, <1>8, AllNew
  <1> QED
    BY <1>7, <1>9 DEF d, t

-----------------------------------------------------------------------------
(* Words of which none comes twice. *)

(* A sequence is injective iff its two halves are and have nothing in      *)
(* common.                                                                 *)
LEMMA InjectiveHalves ==
    ASSUME NEW S, NEW a \in Seq(S), NEW b \in Seq(S)
    PROVE  IsInjective(a \o b) <=>
             IsInjective(a) /\ IsInjective(b) /\ ToSet(a) \cap ToSet(b) = {}
  <1> DEFINE c == a \o b
             m == Len(a)
             n == Len(b)
  <1>1. /\ m \in Nat /\ n \in Nat /\ DOMAIN a = 1..m /\ DOMAIN b = 1..n
        /\ DOMAIN c = 1..(m + n)
        /\ \A i \in 1..m : c[i] = a[i]
        /\ \A i \in 1..n : c[m + i] = b[i]
    OBVIOUS
  <1>2. /\ \A x : x \in ToSet(a) <=> \E i \in 1..m : x = a[i]
        /\ \A x : x \in ToSet(b) <=> \E i \in 1..n : x = b[i]
    BY <1>1 DEF ToSet
  <1> HIDE DEF c, m, n
  <1>3. ASSUME IsInjective(c) PROVE IsInjective(a) /\ IsInjective(b) /\ ToSet(a) \cap ToSet(b) = {}
    <2>1. \A i, j \in 1..(m + n) : c[i] = c[j] => i = j
      BY <1>1, <1>3 DEF IsInjective
    <2>2. IsInjective(a)
      <3> SUFFICES ASSUME NEW i \in 1..m, NEW j \in 1..m, a[i] = a[j] PROVE i = j
        BY <1>1 DEF IsInjective
      <3>1. i \in 1..(m + n) /\ j \in 1..(m + n) /\ c[i] = c[j]
        BY <1>1
      <3> QED
        BY <2>1, <3>1
    <2>3. IsInjective(b)
      <3> SUFFICES ASSUME NEW i \in 1..n, NEW j \in 1..n, b[i] = b[j] PROVE i = j
        BY <1>1 DEF IsInjective
      <3>1. m + i \in 1..(m + n) /\ m + j \in 1..(m + n) /\ c[m + i] = c[m + j]
        BY <1>1
      <3>2. m + i = m + j
        BY <2>1, <3>1
      <3> QED
        BY <1>1, <3>2
    <2>4. ASSUME NEW i \in 1..m, NEW j \in 1..n, a[i] = b[j] PROVE FALSE
      <3>1. i \in 1..(m + n) /\ m + j \in 1..(m + n) /\ c[i] = c[m + j]
        BY <1>1, <2>4
      <3>2. i = m + j
        BY <2>1, <3>1
      <3> QED
        BY <1>1, <3>2
    <2> QED
      BY <1>2, <2>2, <2>3, <2>4
  <1>4. ASSUME IsInjective(a), IsInjective(b), ToSet(a) \cap ToSet(b) = {} PROVE IsInjective(c)
    <2> SUFFICES ASSUME NEW i \in 1..(m + n), NEW j \in 1..(m + n), c[i] = c[j] PROVE i = j
      BY <1>1 DEF IsInjective
    <2>1. ASSUME NEW k \in 1..(m + n), k > m PROVE k - m \in 1..n /\ c[k] = b[k - m]
      <3>1. k - m \in 1..n /\ m + (k - m) = k
        BY <1>1, <2>1
      <3> QED
        BY <1>1, <3>1
    <2>2. ASSUME NEW k \in 1..(m + n), k <= m PROVE k \in 1..m /\ c[k] = a[k]
      BY <1>1, <2>2
    <2>3. ASSUME NEW k \in 1..m, NEW l \in 1..n, a[k] = b[l] PROVE FALSE
      BY <1>2, <1>4, <2>3
    <2>4. (\A k, l \in 1..m : a[k] = a[l] => k = l) /\ (\A k, l \in 1..n : b[k] = b[l] => k = l)
      BY <1>1, <1>4 DEF IsInjective
    <2>5. CASE i <= m /\ j <= m
      BY <2>2, <2>4, <2>5
    <2>6. CASE i > m /\ j > m
      <3>1. i - m \in 1..n /\ j - m \in 1..n /\ b[i - m] = b[j - m]
        BY <2>1, <2>6
      <3>2. i - m = j - m
        BY <2>4, <3>1
      <3> QED
        BY <1>1, <3>2
    <2>7. CASE i <= m /\ j > m
      BY <2>1, <2>2, <2>3, <2>7
    <2>8. CASE i > m /\ j <= m
      BY <2>1, <2>2, <2>3, <2>8
    <2> QED
      BY <1>1, <2>5, <2>6, <2>7, <2>8
  <1> QED
    BY <1>3, <1>4 DEF c

Covered(ss) == UNION {ToSet(ss[i]) : i \in DOMAIN ss}

Apart(ss) ==
    /\ \A i \in DOMAIN ss : IsInjective(ss[i])
    /\ \A i, j \in DOMAIN ss : i # j => ToSet(ss[i]) \cap ToSet(ss[j]) = {}

(* What is covered, and whether it is apart, with one more sequence. *)
LEMMA OneMoreApart ==
    ASSUME NEW S, NEW ss \in Seq(Seq(S)), NEW t \in Seq(S)
    PROVE  /\ Covered(Append(ss, t)) = Covered(ss) \cup ToSet(t)
           /\ Apart(Append(ss, t)) <=>
                Apart(ss) /\ IsInjective(t) /\ Covered(ss) \cap ToSet(t) = {}
  <1> DEFINE m == Append(ss, t)
             n == Len(ss)
  <1>1. /\ n \in Nat /\ DOMAIN ss = 1..n /\ DOMAIN m = 1..(n + 1)
        /\ \A i \in 1..n : m[i] = ss[i]
        /\ m[n + 1] = t
    OBVIOUS
  <1> HIDE DEF m, n
  <1>2. ASSUME NEW x PROVE x \in Covered(ss) <=> \E i \in 1..n : x \in ToSet(ss[i])
    BY <1>1 DEF Covered
  <1>3. ASSUME NEW x PROVE x \in Covered(m) <=> x \in Covered(ss) \/ x \in ToSet(t)
    <2>1. x \in Covered(m) <=> \E i \in 1..(n + 1) : x \in ToSet(m[i])
      BY <1>1 DEF Covered
    <2>2. (\E i \in 1..(n + 1) : x \in ToSet(m[i])) <=>
            (\E i \in 1..n : x \in ToSet(m[i])) \/ x \in ToSet(m[n + 1])
      <3>1. 1..(n + 1) = (1..n) \cup {n + 1}
        BY <1>1
      <3> QED
        BY <3>1
    <2> QED
      BY <1>1, <1>2, <2>1, <2>2
  <1>4. Covered(m) = Covered(ss) \cup ToSet(t)
    BY <1>3
  <1>5. ASSUME Apart(m) PROVE Apart(ss) /\ IsInjective(t) /\ Covered(ss) \cap ToSet(t) = {}
    <2>1. \A i \in 1..n : i \in 1..(n + 1) /\ i # n + 1 /\ n + 1 \in 1..(n + 1)
      BY <1>1
    <2>2. n + 1 \in 1..(n + 1)
      BY <1>1
    <2>3. Apart(ss)
      BY <1>1, <1>5, <2>1 DEF Apart
    <2>4. IsInjective(t)
      BY <1>1, <1>5, <2>2 DEF Apart
    <2>5. \A i \in 1..n : ToSet(ss[i]) \cap ToSet(t) = {}
      BY <1>1, <1>5, <2>1 DEF Apart
    <2> QED
      BY <1>2, <2>3, <2>4, <2>5
  <1>6. ASSUME Apart(ss), IsInjective(t), Covered(ss) \cap ToSet(t) = {} PROVE Apart(m)
    <2>1. \A i \in 1..(n + 1) : i \in 1..n \/ i = n + 1
      BY <1>1
    <2>2. \A i \in 1..(n + 1) : IsInjective(m[i])
      BY <1>1, <1>6, <2>1 DEF Apart
    <2>3. \A i \in 1..n : ToSet(ss[i]) \cap ToSet(t) = {}
      BY <1>2, <1>6
    <2>4. \A i, j \in 1..n : i # j => ToSet(ss[i]) \cap ToSet(ss[j]) = {}
      BY <1>1, <1>6 DEF Apart
    <2>5. ASSUME NEW i \in 1..(n + 1), NEW j \in 1..(n + 1), i # j
          PROVE  ToSet(m[i]) \cap ToSet(m[j]) = {}
      <3>1. CASE i \in 1..n /\ j \in 1..n
        BY <1>1, <2>4, <2>5, <3>1
      <3>2. CASE i \in 1..n /\ j = n + 1
        BY <1>1, <2>3, <3>2
      <3>3. CASE i = n + 1 /\ j \in 1..n
        BY <1>1, <2>3, <3>3
      <3> QED
        BY <2>1, <2>5, <3>1, <3>2, <3>3
    <2> QED
      BY <1>1, <2>2, <2>5 DEF Apart
  <1> QED
    BY <1>4, <1>5, <1>6 DEF m

(* What a concatenation holds, and that no element of it comes twice iff   *)
(* its parts are apart.                                                    *)
LEMMA FlattenApart ==
    ASSUME NEW S, NEW ss \in Seq(Seq(S))
    PROVE  /\ ToSet(FlattenSeq(ss)) = Covered(ss)
           /\ IsInjective(FlattenSeq(ss)) <=> Apart(ss)
  <1> DEFINE Good(xs) == /\ ToSet(FlattenSeq(xs)) = Covered(xs)
                         /\ IsInjective(FlattenSeq(xs)) <=> Apart(xs)
             T == {xs \in Seq(Seq(S)) : Good(xs)}
  <1>1. Good(<<>>) /\ <<>> \in Seq(Seq(S))
    <2>1. FlattenSeq(<<>>) = <<>> /\ DOMAIN <<>> = {}
      BY DEF FlattenSeq
    <2>2. ASSUME NEW e, DOMAIN e = {}
          PROVE  ToSet(e) = {} /\ Covered(e) = {} /\ IsInjective(e) /\ Apart(e)
      BY <2>2 DEF ToSet, Covered, IsInjective, Apart
    <2>3. ASSUME NEW e, DOMAIN e = {}, FlattenSeq(e) = e PROVE Good(e)
      BY <2>2, <2>3
    <2>4. <<>> \in Seq(Seq(S))
      OBVIOUS
    <2> HIDE DEF Good
    <2>5. Good(<<>>)
      BY <2>1, <2>3, Zenon
    <2> QED
      BY <2>4, <2>5
  <1>2. ASSUME NEW xs \in Seq(Seq(S)), NEW t \in Seq(S), Good(xs)
        PROVE  Append(xs, t) \in Seq(Seq(S)) /\ Good(Append(xs, t))
    <2> DEFINE more == Append(xs, t)
               f == FlattenSeq(xs)
    <2>1. more \in Seq(Seq(S)) /\ FlattenSeq(more) = f \o t /\ f \in Seq(S)
      BY FlattenMore, FlattenFacts
    <2>2. /\ Covered(more) = Covered(xs) \cup ToSet(t)
          /\ Apart(more) <=> Apart(xs) /\ IsInjective(t) /\ Covered(xs) \cap ToSet(t) = {}
      BY OneMoreApart
    <2>3. ToSet(f) = Covered(xs) /\ (IsInjective(f) <=> Apart(xs))
      BY <1>2
    <2> HIDE DEF more, f
    <2>4. ToSet(f \o t) = ToSet(f) \cup ToSet(t)
      <3>1. CASE S = {}
        <4>1. t = <<>> /\ f = <<>>
          BY <2>1, <3>1
        <4>2. f \o t = f /\ ToSet(t) = {}
          BY <2>1, <4>1 DEF ToSet
        <4> QED
          BY <4>2
      <3>2. CASE S # {}
        BY <2>1, <3>2, ToSetMore
      <3> QED
        BY <3>1, <3>2
    <2>5. IsInjective(f \o t) <=> IsInjective(f) /\ IsInjective(t) /\ ToSet(f) \cap ToSet(t) = {}
      BY <2>1, InjectiveHalves
    <2>6. ToSet(FlattenSeq(more)) = Covered(more)
      BY <2>1, <2>2, <2>3, <2>4
    <2>7. IsInjective(FlattenSeq(more)) <=> Apart(more)
      BY <2>1, <2>2, <2>3, <2>5
    <2> QED
      BY <2>1, <2>6, <2>7 DEF more
  <1> HIDE DEF Good
  <1>3. \A xs \in Seq(Seq(S)) : xs \in T
    <2>1. <<>> \in T /\ \A xs \in Seq(Seq(S)), t \in Seq(S) : xs \in T => Append(xs, t) \in T
      BY <1>1, <1>2
    <2> HIDE DEF T
    <2> QED
      BY <2>1, SeqInduct
  <1> QED
    BY <1>3 DEF Good

(* What was seen is kept once. *)
LEMMA SeenOnce ==
    ASSUME NEW S, NEW seq \in Seq(S)
    PROVE  IsInjective(FirstSeen(seq))
  <1> DEFINE T == {s \in Seq(S) : IsInjective(FirstSeen(s))}
  <1>1. <<>> \in T
    <2>1. \A e : DOMAIN e = {} => IsInjective(e)
      BY DEF IsInjective
    <2>2. DOMAIN <<>> = {} /\ <<>> \in Seq(S)
      OBVIOUS
    <2>3. IsInjective(<<>>)
      BY <2>1, <2>2, Zenon
    <2>4. FirstSeen(<<>>) = <<>>
      <3>1. PICK acc : IsSeen(<<>>, S, acc) /\ FirstSeen(<<>>) = acc[Len(<<>>)]
        BY <2>2, FirstSeenIs
      <3>2. Len(<<>>) = 0
        OBVIOUS
      <3> QED
        BY <3>1, <3>2 DEF IsSeen
    <2> QED
      BY <2>2, <2>3, <2>4
  <1>2. ASSUME NEW s \in Seq(S), NEW x \in S, s \in T PROVE Append(s, x) \in T
    <2> DEFINE k == FirstSeen(s)
    <2>1. k \in Seq(S) /\ FirstSeen(Append(s, x)) = See(k, x) /\ IsInjective(k)
      BY <1>2, FirstSeenTyped, FirstSeenMore
    <2> HIDE DEF k
    <2>2. ASSUME x \notin ToSet(k) PROVE IsInjective(Append(k, x))
      <3>1. /\ DOMAIN k = 1..Len(k) /\ DOMAIN Append(k, x) = 1..(Len(k) + 1) /\ Len(k) \in Nat
            /\ \A i \in 1..Len(k) : Append(k, x)[i] = k[i]
            /\ Append(k, x)[Len(k) + 1] = x
        BY <2>1
      <3>2. \A i \in 1..Len(k) : k[i] # x
        BY <2>2, <3>1 DEF ToSet
      <3>3. \A i, j \in 1..Len(k) : k[i] = k[j] => i = j
        BY <2>1, <3>1 DEF IsInjective
      <3>4. \A i \in 1..(Len(k) + 1) : i \in 1..Len(k) \/ i = Len(k) + 1
        BY <3>1
      <3> DEFINE more == Append(k, x)
      <3>5. \A i, j \in DOMAIN more : more[i] = more[j] => i = j
        <4> HIDE DEF more
        <4>1. /\ DOMAIN more = 1..(Len(k) + 1)
              /\ \A i \in 1..Len(k) : more[i] = k[i]
              /\ more[Len(k) + 1] = x
          BY <3>1 DEF more
        <4> QED
          BY <3>2, <3>3, <3>4, <4>1
      <3> QED
        BY <3>5 DEF IsInjective
    <2>3. IsInjective(See(k, x))
      BY <2>1, <2>2 DEF See
    <2> QED
      BY <2>1, <2>3
  <1>3. \A s \in Seq(S) : s \in T
    <2> HIDE DEF T
    <2> QED
      BY <1>1, <1>2, SeqInduct
  <1> QED
    BY <1>3

Maps(f, S, R) == f \in [S -> R]

Mapped(f, s) == [i \in DOMAIN s |-> f[s[i]]]

(* Element by element, with one more. *)
LEMMA MappedMore ==
    ASSUME NEW S, NEW R, NEW f, Maps(f, S, R), NEW s \in Seq(S), NEW x \in S
    PROVE  /\ Mapped(f, s) \in Seq(R) /\ Mapped(f, <<>>) = <<>>
           /\ Mapped(f, Append(s, x)) = Append(Mapped(f, s), f[x])
  <1> DEFINE n == Len(s)
             more == Append(s, x)
             ms == Mapped(f, s)
  <1>1. /\ n \in Nat /\ DOMAIN s = 1..n /\ \A i \in 1..n : s[i] \in S
        /\ more \in Seq(S) /\ Len(more) = n + 1 /\ DOMAIN more = 1..(n + 1)
        /\ \A i \in 1..n : more[i] = s[i]
        /\ more[n + 1] = x
    OBVIOUS
  <1> HIDE DEF more, n
  <1>0. f \in [S -> R]
    BY DEF Maps
  <1>2. ms \in [1..n -> R] /\ \A i \in 1..n : ms[i] = f[s[i]]
    BY <1>0, <1>1 DEF Mapped
  <1>3. DOMAIN Mapped(f, more) = 1..(n + 1)
        /\ \A i \in 1..(n + 1) : Mapped(f, more)[i] = f[more[i]]
    BY <1>1 DEF Mapped
  <1> HIDE DEF ms
  <1>4. ms \in Seq(R) /\ Len(ms) = n /\ DOMAIN ms = 1..n
    BY <1>1, <1>2
  <1>5. f[x] \in R
    BY <1>0
  <1>6. /\ Append(ms, f[x]) \in Seq(R) /\ Len(Append(ms, f[x])) = n + 1
        /\ \A i \in 1..n : Append(ms, f[x])[i] = ms[i]
        /\ \A i : i = n + 1 => Append(ms, f[x])[i] = f[x]
    BY <1>4, <1>5
  <1> DEFINE am == Append(ms, f[x])
             mm == Mapped(f, more)
  <1>7. mm \in [1..(n + 1) -> R]
    <2>1. \A i \in 1..(n + 1) : more[i] \in S
      BY <1>1
    <2> QED
      BY <1>0, <2>1, <1>1 DEF Mapped
  <1> HIDE DEF am, mm
  <1>8. am \in [1..(n + 1) -> R]
    <2>1. ASSUME NEW q \in Seq(R), NEW m \in Nat, Len(q) = m PROVE q \in [1..m -> R]
      BY <2>1
    <2>2. n + 1 \in Nat
      BY <1>1
    <2>3. am \in Seq(R) /\ Len(am) = n + 1
      BY <1>6 DEF am
    <2> QED
      BY <2>1, <2>2, <2>3
  <1>9. ASSUME NEW i \in 1..(n + 1) PROVE mm[i] = am[i]
    <2>1. CASE i \in 1..n
      BY <1>1, <1>2, <1>3, <1>6, <2>1 DEF am, mm
    <2>2. CASE i = n + 1
      BY <1>1, <1>3, <1>6, <2>2 DEF am, mm
    <2> QED
      BY <1>1, <2>1, <2>2
  <1>10. mm = am
    <2>1. mm = [i \in 1..(n + 1) |-> mm[i]]
      BY <1>7
    <2>2. am = [i \in 1..(n + 1) |-> am[i]]
      BY <1>8
    <2> QED
      BY <1>9, <2>1, <2>2
  <1>11. Mapped(f, <<>>) = <<>>
    <2>1. DOMAIN <<>> = {}
      OBVIOUS
    <2>2. Mapped(f, <<>>) = [i \in {} |-> f[<<>>[i]]]
      BY <2>1 DEF Mapped
    <2> QED
      BY <2>2
  <1>12. Mapped(f, s) \in Seq(R)
    BY <1>4 DEF ms
  <1>13. Mapped(f, Append(s, x)) = Append(Mapped(f, s), f[x])
    BY <1>10, Zenon DEF ms, mm, am, more
  <1> QED
    BY <1>11, <1>12, <1>13

IdsEach(texts) == [i \in DOMAIN texts |-> Ids(texts[i])]

(* Identities of joined texts are the joined identities. *)
LEMMA IdsJoined ==
    ASSUME NEW texts \in Texts
    PROVE  IdsEach(texts) \in Seq(Seq(Id)) /\ Ids(FlattenSeq(texts)) = FlattenSeq(IdsEach(texts))
  <1> DEFINE f == [t \in Seq(Word) |-> Ids(t)]
             Good(ts) == /\ IdsEach(ts) \in Seq(Seq(Id))
                         /\ Ids(FlattenSeq(ts)) = FlattenSeq(IdsEach(ts))
             T == {ts \in Texts : Good(ts)}
  <1>1. Maps(f, Seq(Word), Seq(Id))
    <2>1. \A t \in Seq(Word) : Ids(t) \in Seq(Id)
      BY IdsMore
    <2> QED
      BY <2>1 DEF Maps
  <1>2. ASSUME NEW ts \in Texts PROVE IdsEach(ts) = Mapped(f, ts)
    <2>1. ts \in Seq(Seq(Word))
      BY DEF Texts
    <2>2. \A i \in DOMAIN ts : ts[i] \in Seq(Word)
      BY <2>1
    <2> QED
      BY <2>2 DEF IdsEach, Mapped
  <1>3. \A t \in Seq(Word) : f[t] = Ids(t)
    OBVIOUS
  <1> HIDE DEF f
  <1>4. <<>> \in Seq(Seq(Word)) /\ <<>> \in Seq(Word) /\ <<>> \in Texts
    BY DEF Texts
  <1>5. Good(<<>>)
    <2>1. IdsEach(<<>>) = <<>>
      <3>1. Mapped(f, <<>>) = <<>>
        BY <1>1, <1>4, MappedMore
      <3>2. IdsEach(<<>>) = Mapped(f, <<>>)
        BY <1>2, <1>4, Zenon
      <3> QED
        BY <3>1, <3>2
    <2>2. FlattenSeq(<<>>) = <<>> /\ Ids(<<>>) = <<>> /\ <<>> \in Seq(Seq(Id))
      BY DEF FlattenSeq, Ids
    <2>3. \A e : e \in Seq(Seq(Id)) /\ FlattenSeq(e) = e /\ Ids(e) = e /\ IdsEach(e) = e => Good(e)
      OBVIOUS
    <2> HIDE DEF Good
    <2> QED
      BY <2>1, <2>2, <2>3, Zenon
  <1>6. ASSUME NEW ts \in Seq(Seq(Word)), NEW t \in Seq(Word), Good(ts)
        PROVE  Append(ts, t) \in Texts /\ Good(Append(ts, t))
    <2> DEFINE e == IdsEach(ts)
               fl == FlattenSeq(ts)
    <2>1. ts \in Texts /\ Append(ts, t) \in Texts
      <3>1. Append(ts, t) \in Seq(Seq(Word))
        OBVIOUS
      <3> QED
        BY <3>1 DEF Texts
    <2>2. Mapped(f, Append(ts, t)) = Append(Mapped(f, ts), f[t])
      BY <1>1, MappedMore
    <2>3. IdsEach(Append(ts, t)) = Append(e, Ids(t))
      BY <1>2, <1>3, <2>1, <2>2
    <2>4. FlattenSeq(Append(ts, t)) = fl \o t /\ fl \in Seq(Word)
      BY FlattenMore, FlattenFacts
    <2>5. e \in Seq(Seq(Id)) /\ Ids(fl) = FlattenSeq(e)
      BY <1>6
    <2> HIDE DEF e, fl
    <2>6. Ids(t) \in Seq(Id) /\ Ids(fl \o t) = Ids(fl) \o Ids(t)
      BY <2>4, IdsMore
    <2>7. FlattenSeq(Append(e, Ids(t))) = FlattenSeq(e) \o Ids(t) /\ Append(e, Ids(t)) \in Seq(Seq(Id))
      BY <2>5, <2>6, FlattenMore
    <2> QED
      BY <2>1, <2>3, <2>4, <2>5, <2>6, <2>7
  <1> HIDE DEF Good
  <1>7. \A ts \in Seq(Seq(Word)) : ts \in T
    <2>1. <<>> \in T
      BY <1>4, <1>5
    <2>2. \A ts \in Seq(Seq(Word)), t \in Seq(Word) : ts \in T => Append(ts, t) \in T
      BY <1>6
    <2> HIDE DEF T
    <2> QED
      BY <2>1, <2>2, SeqInduct
  <1> QED
    BY <1>7 DEF Good, Texts

TextEach(parts) == [i \in DOMAIN parts |-> Text(parts[i])]

(* The text of joined sequences of blocks is the joined texts. *)
LEMMA TextJoined ==
    ASSUME NEW S, HaveTexts(S), NEW parts \in Seq(Seq(S))
    PROVE  TextEach(parts) \in Texts /\ Text(FlattenSeq(parts)) = FlattenSeq(TextEach(parts))
  <1> DEFINE f == [t \in Seq(S) |-> Text(t)]
             Good(ps) == /\ TextEach(ps) \in Seq(Seq(Word))
                         /\ Text(FlattenSeq(ps)) = FlattenSeq(TextEach(ps))
             T == {ps \in Seq(Seq(S)) : Good(ps)}
  <1>1. Maps(f, Seq(S), Seq(Word))
    BY TextMore DEF Maps
  <1>2. ASSUME NEW ps \in Seq(Seq(S)) PROVE TextEach(ps) = Mapped(f, ps)
    BY DEF TextEach, Mapped
  <1>3. \A t \in Seq(S) : f[t] = Text(t)
    OBVIOUS
  <1> HIDE DEF f
  <1>4. <<>> \in Seq(Seq(S)) /\ <<>> \in Seq(S)
    OBVIOUS
  <1>5. Good(<<>>)
    <2>1. TextEach(<<>>) = <<>>
      BY <1>1, <1>2, <1>4, MappedMore
    <2>2. FlattenSeq(<<>>) = <<>> /\ <<>> \in Seq(Seq(Word))
      BY DEF FlattenSeq
    <2>3. Text(<<>>) = <<>>
      BY <1>4, TextMore
    <2>4. \A e : e \in Seq(Seq(Word)) /\ FlattenSeq(e) = e /\ Text(e) = e /\ TextEach(e) = e => Good(e)
      OBVIOUS
    <2> HIDE DEF Good
    <2> QED
      BY <2>1, <2>2, <2>3, <2>4, Zenon
  <1>6. ASSUME NEW ps \in Seq(Seq(S)), NEW t \in Seq(S), Good(ps)
        PROVE  Append(ps, t) \in Seq(Seq(S)) /\ Good(Append(ps, t))
    <2> DEFINE e == TextEach(ps)
               fl == FlattenSeq(ps)
    <2>1. Append(ps, t) \in Seq(Seq(S))
      OBVIOUS
    <2>2. Mapped(f, Append(ps, t)) = Append(Mapped(f, ps), f[t])
      BY <1>1, MappedMore
    <2>3. TextEach(Append(ps, t)) = Append(e, Text(t))
      BY <1>2, <1>3, <2>1, <2>2
    <2>4. FlattenSeq(Append(ps, t)) = fl \o t /\ fl \in Seq(S)
      BY FlattenMore, FlattenFacts
    <2>5. e \in Seq(Seq(Word)) /\ Text(fl) = FlattenSeq(e)
      BY <1>6
    <2> HIDE DEF e, fl
    <2>6. Text(t) \in Seq(Word) /\ Text(fl \o t) = Text(fl) \o Text(t)
      BY <2>4, TextMore
    <2>7. FlattenSeq(Append(e, Text(t))) = FlattenSeq(e) \o Text(t)
          /\ Append(e, Text(t)) \in Seq(Seq(Word))
      BY <2>5, <2>6, FlattenMore
    <2> QED
      BY <2>1, <2>3, <2>4, <2>5, <2>6, <2>7
  <1> HIDE DEF Good
  <1>7. \A ps \in Seq(Seq(S)) : ps \in T
    <2>1. <<>> \in T
      BY <1>4, <1>5
    <2>2. \A ps \in Seq(Seq(S)), t \in Seq(S) : ps \in T => Append(ps, t) \in T
      BY <1>6
    <2> HIDE DEF T
    <2> QED
      BY <2>1, <2>2, SeqInduct
  <1> QED
    BY <1>7 DEF Good, Texts

(* The sequences of u whose key is y, nothing in place of the others. *)
Kept(u, key, y) == [i \in DOMAIN u |-> IF key[i] = y THEN u[i] ELSE <<>>]

SortedBy(u, key, order) == [k \in DOMAIN order |-> FlattenSeq(Kept(u, key, order[k]))]

(* Sequences sorted by their keys, the keys in some order without          *)
(* repetition: if u was apart, so is what they become, and it covers what  *)
(* u does.                                                                 *)
LEMMA Sorted ==
    ASSUME NEW S, NEW u \in Seq(Seq(S)), Apart(u),
           NEW key, NEW order \in Seq(Int), IsInjective(order),
           \A i \in DOMAIN u : key[i] \in ToSet(order)
    PROVE  /\ SortedBy(u, key, order) \in Seq(Seq(S)) /\ Apart(SortedBy(u, key, order))
           /\ Covered(SortedBy(u, key, order)) = Covered(u)
  <1> DEFINE n == Len(u)
             m == Len(order)
             w == [k \in DOMAIN order |-> FlattenSeq(Kept(u, key, order[k]))]
  <1>1. /\ n \in Nat /\ DOMAIN u = 1..n /\ \A i \in 1..n : u[i] \in Seq(S)
        /\ m \in Nat /\ DOMAIN order = 1..m
    OBVIOUS
  <1>2. /\ \A i \in 1..n : IsInjective(u[i])
        /\ \A i, j \in 1..n : i # j => ToSet(u[i]) \cap ToSet(u[j]) = {}
    BY <1>1 DEF Apart
  <1>3. \A k, l \in 1..m : order[k] = order[l] => k = l
    BY <1>1 DEF IsInjective
  <1>4. \A i \in 1..n : \E k \in 1..m : key[i] = order[k]
    BY <1>1 DEF ToSet
  <1> HIDE DEF n, m
  <1>5. ASSUME NEW y
        PROVE  /\ FlattenSeq(Kept(u, key, y)) \in Seq(S)
               /\ IsInjective(FlattenSeq(Kept(u, key, y)))
               /\ \A x : x \in ToSet(FlattenSeq(Kept(u, key, y))) <=>
                           \E i \in 1..n : key[i] = y /\ x \in ToSet(u[i])
    <2> DEFINE v == Kept(u, key, y)
    <2>1. DOMAIN v = 1..n
          /\ \A i \in 1..n : v[i] = IF key[i] = y THEN u[i] ELSE <<>>
      BY <1>1 DEF Kept
    <2>2. <<>> \in Seq(S) /\ ToSet(<<>>) = {} /\ IsInjective(<<>>)
      <3>1. \A e : DOMAIN e = {} => ToSet(e) = {} /\ IsInjective(e)
        BY DEF ToSet, IsInjective
      <3>2. DOMAIN <<>> = {} /\ <<>> \in Seq(S)
        OBVIOUS
      <3> QED
        BY <3>1, <3>2, Zenon
    <2> HIDE DEF v
    <2>3. \A i \in 1..n : v[i] \in Seq(S)
      BY <1>1, <2>1, <2>2
    <2>4. v \in Seq(Seq(S))
      <3>1. v = [i \in 1..n |-> v[i]]
        BY <2>1 DEF v, Kept
      <3>2. v \in [1..n -> Seq(S)]
        BY <2>3, <3>1
      <3> QED
        BY <1>1, <3>2
    <2>5. \A i \in 1..n : /\ IsInjective(v[i])
                          /\ key[i] = y => v[i] = u[i]
                          /\ key[i] # y => ToSet(v[i]) = {}
      BY <1>2, <2>1, <2>2
    <2>6. \A i \in 1..n : \A x : x \in ToSet(v[i]) <=> key[i] = y /\ x \in ToSet(u[i])
      BY <2>5
    <2>7. \A i, j \in 1..n : i # j => ToSet(v[i]) \cap ToSet(v[j]) = {}
      BY <1>2, <2>6
    <2>8. Apart(v)
      BY <2>1, <2>5, <2>7 DEF Apart
    <2>9. \A x : x \in Covered(v) <=> \E i \in 1..n : x \in ToSet(v[i])
      BY <2>1 DEF Covered
    <2>10. FlattenSeq(v) \in Seq(S)
      BY <2>4, FlattenFacts
    <2>11. IsInjective(FlattenSeq(v)) /\ ToSet(FlattenSeq(v)) = Covered(v)
      BY <2>4, <2>8, FlattenApart
    <2>12. \A x : x \in ToSet(FlattenSeq(v)) <=> \E i \in 1..n : key[i] = y /\ x \in ToSet(u[i])
      <3> TAKE x
      <3>1. x \in ToSet(FlattenSeq(v)) <=> \E i \in 1..n : x \in ToSet(v[i])
        BY <2>9, <2>11
      <3> HIDE DEF w
      <3>2. (\E i \in 1..n : x \in ToSet(v[i])) <=> \E i \in 1..n : key[i] = y /\ x \in ToSet(u[i])
        BY <2>6, Zenon
      <3> QED
        BY <3>1, <3>2
    <2> QED
      BY <2>10, <2>11, <2>12, Zenon DEF v
  <1>6. DOMAIN w = 1..m /\ \A k \in 1..m : w[k] = FlattenSeq(Kept(u, key, order[k]))
    BY <1>1
  <1>7. w \in Seq(Seq(S))
    <2>1. w \in [1..m -> Seq(S)]
      BY <1>1, <1>5
    <2> HIDE DEF w
    <2> QED
      BY <1>1, <2>1
  <1> HIDE DEF w
  <1>8. \A k \in 1..m : IsInjective(w[k])
    BY <1>5, <1>6
  <1>9. \A k \in 1..m : \A x : x \in ToSet(w[k]) <=>
                                 \E i \in 1..n : key[i] = order[k] /\ x \in ToSet(u[i])
    BY <1>5, <1>6
  <1>10. ASSUME NEW k \in 1..m, NEW l \in 1..m, k # l PROVE ToSet(w[k]) \cap ToSet(w[l]) = {}
    <2> SUFFICES ASSUME NEW x, x \in ToSet(w[k]), x \in ToSet(w[l]) PROVE FALSE
      OBVIOUS
    <2>1. PICK i \in 1..n : key[i] = order[k] /\ x \in ToSet(u[i])
      BY <1>9
    <2>2. PICK j \in 1..n : key[j] = order[l] /\ x \in ToSet(u[j])
      BY <1>9
    <2>3. i # j
      BY <1>3, <1>10, <2>1, <2>2
    <2> QED
      BY <1>2, <2>1, <2>2, <2>3
  <1>11. Apart(w)
    BY <1>6, <1>8, <1>10 DEF Apart
  <1>12. ASSUME NEW x PROVE x \in Covered(w) <=> x \in Covered(u)
    <2>1. x \in Covered(w) <=> \E k \in 1..m : x \in ToSet(w[k])
      BY <1>6 DEF Covered
    <2>2. x \in Covered(u) <=> \E i \in 1..n : x \in ToSet(u[i])
      BY <1>1 DEF Covered
    <2> QED
      BY <1>4, <1>9, <2>1, <2>2
  <1>13. Covered(w) = Covered(u)
    BY <1>12
  <1> QED
    BY <1>7, <1>11, <1>13, Zenon DEF w, SortedBy

(* The words on one slide: those of the blocks that are on it. *)
LEMMA SlideWords ==
    ASSUME NEW bs \in Seq(Block), NEW y
    PROVE  LET one == [i \in DOMAIN bs |-> IF SlideOf(bs[i]) = y THEN <<bs[i]>> ELSE <<>>]
               u == [i \in DOMAIN bs |-> Ids(bs[i].text)]
               key == [i \in DOMAIN bs |-> SlideOf(bs[i])]
           IN  Ids(Text(FlattenSeq(one))) = FlattenSeq(Kept(u, key, y))
  <1> DEFINE one == [i \in DOMAIN bs |-> IF SlideOf(bs[i]) = y THEN <<bs[i]>> ELSE <<>>]
             u == [i \in DOMAIN bs |-> Ids(bs[i].text)]
             key == [i \in DOMAIN bs |-> SlideOf(bs[i])]
             n == Len(bs)
             t == TextEach(one)
  <1>1. n \in Nat /\ DOMAIN bs = 1..n /\ \A i \in 1..n : bs[i] \in Block
    OBVIOUS
  <1>2. DOMAIN one = 1..n /\ \A i \in 1..n : one[i] = IF SlideOf(bs[i]) = y THEN <<bs[i]>> ELSE <<>>
    BY <1>1
  <1>3. \A b \in Block : <<b>> \in Seq(Block) /\ Text(<<b>>) = b.text
    BY TextOf, TextOne
  <1>4. Text(<<>>) = <<>> /\ <<>> \in Seq(Block)
    BY DEF Text, FlattenSeq
  <1>5. one \in Seq(Seq(Block))
    <2>1. one \in [1..n -> Seq(Block)]
      BY <1>1, <1>3, <1>4
    <2> HIDE DEF one
    <2> QED
      BY <1>1, <2>1
  <1> HIDE DEF one, n
  <1>6. t \in Texts /\ Text(FlattenSeq(one)) = FlattenSeq(t)
    BY <1>5, TextOf, TextJoined
  <1>7. DOMAIN t = 1..n /\ \A i \in 1..n : t[i] = IF SlideOf(bs[i]) = y THEN bs[i].text ELSE <<>>
    BY <1>1, <1>2, <1>3, <1>4 DEF TextEach
  <1> HIDE DEF t
  <1>8. Ids(FlattenSeq(t)) = FlattenSeq(IdsEach(t))
    BY <1>6, IdsJoined
  <1>9. IdsEach(t) = Kept(u, key, y)
    <2>1. Ids(<<>>) = <<>>
      BY DEF Ids
    <2>2. \A i \in 1..n : Ids(t[i]) = IF key[i] = y THEN u[i] ELSE <<>>
      BY <1>1, <1>7, <2>1
    <2>3. IdsEach(t) = [i \in 1..n |-> Ids(t[i])]
      BY <1>7 DEF IdsEach
    <2>4. Kept(u, key, y) = [i \in 1..n |-> IF key[i] = y THEN u[i] ELSE <<>>]
      BY <1>1 DEF Kept
    <2> HIDE DEF u, key
    <2> QED
      BY <2>2, <2>3, <2>4
  <1> QED
    BY <1>6, <1>8, <1>9 DEF one, u, key

DeckDrafts(bs) == FlattenSeq([k \in DOMAIN Slides(bs) |-> Pieces(SlideText(Slides(bs)[k]))])

(* The words of a deck's chunks are, slide by slide, those of the slides. *)
LEMMA DeckWords ==
    ASSUME NEW bs \in Seq(Block)
    PROVE  Ids(FlattenSeq(DeckDrafts(bs))) =
             FlattenSeq([k \in DOMAIN Slides(bs) |-> Ids(Text(Slides(bs)[k]))])
  <1> DEFINE s == Slides(bs)
             n == Len(s)
             units == [k \in 1..n |-> SlideText(s[k])]
             parts == [k \in 1..n |-> Pieces(units[k])]
  <1>1. n \in Nat /\ DOMAIN s = 1..n /\ \A k \in 1..n : s[k] \in Seq(Block)
    BY SlidesTyped
  <1>2. DeckDrafts(bs) = FlattenSeq(parts)
    <2>1. [k \in DOMAIN s |-> Pieces(SlideText(s[k]))] = parts
      <3> HIDE DEF s, n
      <3> QED
        BY <1>1
    <2> QED
      BY <2>1 DEF DeckDrafts
  <1> HIDE DEF s, n
  <1>3. ASSUME NEW k \in 1..n
        PROVE  SlideText(s[k]) \in Seq(Word) /\ Ids(SlideText(s[k])) = Ids(Text(s[k]))
    <2>1. s[k] \in Seq(Block)
      BY <1>1
    <2> DEFINE c == s[k]
               texts == [i \in DOMAIN c |-> c[i].text]
    <2> HIDE DEF c
    <2>2. c \in Seq(Block)
      BY <2>1 DEF c
    <2>3. texts \in Texts
      BY <2>2, TextOf, TextMore
    <2>4. SlideText(c) = Joined(texts) /\ Text(c) = FlattenSeq(texts)
      BY DEF SlideText, Text
    <2> HIDE DEF texts
    <2>5. Ids(Joined(texts)) = Ids(FlattenSeq(texts))
      BY <2>3, JoinedKeeps
    <2>6. SlideText(c) \in Seq(Word)
      BY <2>2, SlideTextTyped
    <2> QED
      BY <2>4, <2>5, <2>6 DEF c
  <1>4. units \in [1..n -> Seq(Word)]
    BY <1>3
  <1>5. \A k \in 1..n : units[k] \in Seq(Word) /\ Ids(units[k]) = Ids(Text(s[k]))
    BY <1>3
  <1> HIDE DEF units
  <1>6. \A k \in 1..n : parts[k] \in Seq(Seq(Word)) /\ FlattenSeq(parts[k]) = units[k]
    BY <1>5, PiecesFit, PiecesKeep DEF Texts
  <1>7. parts \in [1..n -> Seq(Seq(Word))]
    BY <1>6
  <1> HIDE DEF parts
  <1>8. FlattenSeq(FlattenSeq(parts)) = FlattenSeq(units)
    <2>1. \A k \in 1..n : FlattenSeq(parts[k]) = units[k]
      BY <1>6
    <2> QED
      <3>1. PartsOf(units, parts, n)
        BY <1>4, <1>7, <2>1 DEF PartsOf
      <3>2. n \in Nat
        BY <1>1
      <3> QED
        BY <3>1, <3>2, FlattenNested
  <1>9. units \in Texts
    BY <1>1, <1>4 DEF Texts
  <1>10. Ids(FlattenSeq(units)) = FlattenSeq(IdsEach(units))
    BY <1>9, IdsJoined
  <1>11. IdsEach(units) = [k \in DOMAIN s |-> Ids(Text(s[k]))]
    <2>1. DOMAIN units = 1..n
      BY <1>4
    <2> QED
      BY <1>1, <1>5, <2>1 DEF IdsEach
  <1>12. Ids(FlattenSeq(DeckDrafts(bs))) = FlattenSeq([k \in DOMAIN s |-> Ids(Text(s[k]))])
    BY <1>2, <1>8, <1>10, <1>11
  <1> QED
    BY <1>12, Zenon DEF s

(* A deck is kept word for word. *)
LEMMA DeckKeeps ==
    ASSUME NEW bs \in Seq(Block), IsInjective(Ids(Text(bs)))
    PROVE  LET read == FlattenSeq(DeckDrafts(bs)) IN
           ToSet(Ids(read)) = ToSet(Ids(Text(bs))) /\ IsInjective(Ids(read))
  <1> DEFINE texts == [i \in DOMAIN bs |-> bs[i].text]
             u == [i \in DOMAIN bs |-> Ids(bs[i].text)]
             key == [i \in DOMAIN bs |-> SlideOf(bs[i])]
             order == FirstSeen(key)
             w == SortedBy(u, key, order)
  <1>1. Len(bs) \in Nat /\ DOMAIN bs = 1..Len(bs) /\ \A i \in 1..Len(bs) : bs[i] \in Block
    OBVIOUS
  <1>2. texts \in Texts /\ Text(bs) = FlattenSeq(texts)
    BY TextOf, TextMore DEF Text
  <1>3. u = IdsEach(texts)
    BY DEF IdsEach
  <1>4. DOMAIN u = DOMAIN bs
    OBVIOUS
  <1>5. key \in Seq(Int) /\ DOMAIN key = DOMAIN bs
    <2>1. \A b \in Block : SlideOf(b) \in Int
      BY DEF SlideOf, Block
    <2> QED
      BY <1>1, <2>1
  <1>6. Ids(FlattenSeq(DeckDrafts(bs))) = FlattenSeq(w)
    <2>1. \A k \in DOMAIN order :
            Slides(bs)[k] = FlattenSeq([i \in DOMAIN bs |->
                              IF SlideOf(bs[i]) = order[k] THEN <<bs[i]>> ELSE <<>>])
          /\ DOMAIN Slides(bs) = DOMAIN order
      BY DEF Slides, OnSlide
    <2>2. DOMAIN Slides(bs) = DOMAIN order
      BY DEF Slides, OnSlide
    <2>3. \A k \in DOMAIN order : Ids(Text(Slides(bs)[k])) = FlattenSeq(Kept(u, key, order[k]))
      <3> TAKE k \in DOMAIN order
      <3> DEFINE y == order[k]
      <3>1. Slides(bs)[k] = FlattenSeq([i \in DOMAIN bs |->
                              IF SlideOf(bs[i]) = y THEN <<bs[i]>> ELSE <<>>])
        BY <2>1
      <3> HIDE DEF y, order
      <3>2. Ids(Text(FlattenSeq([i \in DOMAIN bs |-> IF SlideOf(bs[i]) = y THEN <<bs[i]>> ELSE <<>>])))
              = FlattenSeq(Kept(u, key, y))
        BY SlideWords
      <3> QED
        BY <3>1, <3>2 DEF y
    <2>4. [k \in DOMAIN Slides(bs) |-> Ids(Text(Slides(bs)[k]))] = w
      <3> HIDE DEF order, u, key
      <3> QED
        BY <2>2, <2>3 DEF SortedBy
    <2> QED
      BY <2>4, DeckWords
  <1> HIDE DEF texts, u, key, w
  <1>7. u \in Seq(Seq(Id)) /\ Ids(Text(bs)) = FlattenSeq(u)
    BY <1>2, <1>3, IdsJoined
  <1>8. Apart(u) /\ ToSet(Ids(Text(bs))) = Covered(u)
    BY <1>7, FlattenApart
  <1>9. /\ order \in Seq(Int) /\ IsInjective(order) /\ ToSet(order) = ToSet(key)
    BY <1>5, FirstSeenTyped, SeenOnce, SeenAre
  <1>10. \A i \in DOMAIN u : key[i] \in ToSet(order)
    BY <1>4, <1>5, <1>9 DEF ToSet
  <1> HIDE DEF order
  <1>11. w \in Seq(Seq(Id)) /\ Apart(w) /\ Covered(w) = Covered(u)
    BY <1>7, <1>8, <1>9, <1>10, Sorted DEF w
  <1>12. IsInjective(FlattenSeq(w)) /\ ToSet(FlattenSeq(w)) = Covered(w)
    BY <1>11, FlattenApart
  <1> QED
    BY <1>6, <1>8, <1>11, <1>12

(* A deck is chunked in one step. *)
DeckInv ==
    IsDeck(document) =>
        /\ todo = <<>>
        /\ phase = "done" => drafts = DeckDrafts(document)

WordsInv == ChunkInv /\ document \in Documents /\ ReadInv /\ DeckInv

(* All of this holds whenever the chunker is looked at.                    *)
LEMMA WordsKept == Spec => []WordsInv
  <1>1. Init => WordsInv
    <2> SUFFICES ASSUME Init PROVE WordsInv
      OBVIOUS
    <2>1. ChunkInv /\ ReadInv
      BY InitFits, InitReads
    <2> QED
      BY <2>1 DEF WordsInv, DeckInv, Init
  <1>2. WordsInv /\ [Next]_vars => WordsInv'
    <2> SUFFICES ASSUME WordsInv, [Next]_vars PROVE WordsInv'
      OBVIOUS
    <2>1. ChunkInv /\ ReadInv /\ DeckInv /\ document \in Documents
      BY DEF WordsInv
    <2>2. ChunkInv'
      BY <2>1, NextFits
    <2>3. document' = document
      BY DEF Next, NextBlock, Add, EmitStandalone, Finish, ChunkSlides, vars
    <2>4. ReadInv'
      <3>1. CASE ChunkSlides
        BY <3>1 DEF ReadInv, ChunkSlides
      <3>2. CASE UNCHANGED vars
        BY <2>1, <3>2 DEF ReadInv, vars
      <3> QED
        BY <2>1, <3>1, <3>2, NextBlockReads, AddReads, EmitReads, FinishReads DEF Next
    <2>5. DeckInv'
      <3>1. CASE ChunkSlides
        BY <2>1, <3>1 DEF DeckInv, ChunkSlides, DeckDrafts
      <3>2. CASE UNCHANGED vars
        BY <2>1, <3>2 DEF DeckInv, vars
      <3>3. CASE Add \/ EmitStandalone
        BY <2>1, <2>3, <3>3 DEF DeckInv, Add, EmitStandalone
      <3>4. CASE NextBlock \/ Finish
        BY <2>3, <3>4 DEF DeckInv, NextBlock, Finish
      <3> QED
        BY <3>1, <3>2, <3>3, <3>4 DEF Next
    <2> QED
      BY <2>1, <2>2, <2>3, <2>4, <2>5 DEF WordsInv
  <1> QED
    BY <1>1, <1>2, PTL DEF Spec

(* Whatever the document, whose words are all distinct, and whatever the   *)
(* target, the overlap and the ceiling: read in order, words met before    *)
(* skipped, the chunks are the document, and those of a deck hold each of  *)
(* its words once.  Neither an overlap, a repeated header, a "(procedure   *)
(* continued)", a part broken at a step, a sentence or a word, nor a       *)
(* buffer that was not flushed yet loses or displaces a word (_add,        *)
(* emit_standalone, _flush, chunk_blocks, _chunk_slides).                  *)
THEOREM NoWordIsLost == Spec => []NothingIsLost
  <1>1. WordsInv => NothingIsLost
    <2> SUFFICES ASSUME WordsInv, Done PROVE NothingIsLost
      BY DEF NothingIsLost
    <2>1. ChunkInv /\ ReadInv /\ DeckInv /\ document \in Documents
      BY DEF WordsInv
    <2>2. CASE ~IsDeck(document)
      BY <2>1, <2>2, ReadInFull DEF NothingIsLost
    <2>3. CASE IsDeck(document)
      <3>1. document \in Seq(Block) /\ Text(document) \in Seq(Word)
        BY <2>1, Left
      <3>2. drafts = DeckDrafts(document)
        BY <2>1, <2>3 DEF DeckInv, Done
      <3>3. IsInjective(Ids(Text(document)))
        <4>1. IsInjective(Ids(CONTINUED \o Text(document)))
          BY <2>1, ChunkerAssumption
        <4>2. /\ Ids(CONTINUED) \in Seq(Id) /\ Ids(Text(document)) \in Seq(Id)
              /\ Ids(CONTINUED \o Text(document)) = Ids(CONTINUED) \o Ids(Text(document))
          BY <3>1, ContinuedTyped, IdsMore
        <4> QED
          BY <4>1, <4>2, InjectiveHalves
      <3>4. LET read == FlattenSeq(DeckDrafts(document)) IN
            ToSet(Ids(read)) = ToSet(Ids(Text(document))) /\ IsInjective(Ids(read))
        BY <3>1, <3>3, DeckKeeps
      <3> QED
        BY <2>3, <3>2, <3>4 DEF NothingIsLost
    <2> QED
      BY <2>2, <2>3
  <1> QED
    BY WordsKept, <1>1, PTL

-----------------------------------------------------------------------------
(* Whole units. *)

(* t is a stretch of d. *)
Within(t, d) == \E x \in Seq(Word) : \E y \in Seq(Word) : d = x \o (t \o y)

(* The middle of three sequences is where its length says. *)
InMiddle(a, b, c) ==
    /\ SubSeq(a \o (b \o c), Len(a) + 1, Len(a) + Len(b)) = b
    /\ Len(a \o (b \o c)) = Len(a) + (Len(b) + Len(c))

(* So it is.                                                               *)
LEMMA Middle ==
    ASSUME NEW S, NEW a \in Seq(S), NEW b \in Seq(S), NEW c \in Seq(S)
    PROVE  InMiddle(a, b, c)
  <1> DEFINE d == a \o (b \o c)
             s == SubSeq(d, Len(a) + 1, Len(a) + Len(b))
  <1>1. /\ Len(a) \in Nat /\ Len(b) \in Nat /\ Len(c) \in Nat
        /\ b \o c \in Seq(S) /\ Len(b \o c) = Len(b) + Len(c)
        /\ \A k \in 1..Len(b) : (b \o c)[k] = b[k]
    OBVIOUS
  <1>2. /\ d \in Seq(S) /\ Len(d) = Len(a) + (Len(b) + Len(c))
        /\ \A k \in 1..Len(b) : d[Len(a) + k] = (b \o c)[k]
    BY <1>1
  <1> HIDE DEF d
  <1>3. /\ s \in Seq(S) /\ Len(s) = Len(b)
        /\ \A k \in 1..Len(b) : s[k] = d[Len(a) + k]
    BY <1>1, <1>2
  <1> HIDE DEF s
  <1>4. s = b
    BY <1>1, <1>2, <1>3
  <1> QED
    BY <1>2, <1>4 DEF s, d, InMiddle

(* The identities of a text. *)
LEMMA IdsTyped ==
    ASSUME NEW t \in Seq(Word)
    PROVE  Ids(t) \in Seq(Id) /\ Len(Ids(t)) = Len(t)
  BY IdsMore, Zenon

(* A draft with the words of a text holds each stretch of it. *)
LEMMA HoldsStretch ==
    ASSUME NEW d \in Seq(Word), NEW e \in Seq(Word), NEW t \in Seq(Word),
           Within(t, d), Ids(e) = Ids(d)
    PROVE  Holds(e, t)
  <1>1. PICK x \in Seq(Word), y \in Seq(Word) : d = x \o (t \o y)
    BY DEF Within
  <1>2. /\ Ids(x) \in Seq(Id) /\ Len(Ids(x)) = Len(x)
        /\ Ids(t) \in Seq(Id) /\ Len(Ids(t)) = Len(t)
        /\ Ids(y) \in Seq(Id)
    BY IdsTyped
  <1>3. Ids(d) = Ids(x) \o (Ids(t) \o Ids(y))
    <2> DEFINE ty == t \o y
    <2>1. ty \in Seq(Word) /\ Ids(ty) = Ids(t) \o Ids(y)
      BY IdsMore, Assoc
    <2> HIDE DEF ty
    <2>2. Ids(x \o ty) = Ids(x) \o Ids(ty)
      BY <2>1, IdsMore
    <2> QED
      BY <1>1, <2>1, <2>2, Zenon DEF ty
  <1>4. Len(e) = Len(Ids(e))
    BY IdsTyped
  <1>5. /\ SubSeq(Ids(d), Len(x) + 1, Len(x) + Len(t)) = Ids(t)
        /\ Len(Ids(d)) = Len(x) + (Len(t) + Len(Ids(y)))
    <2> DEFINE a == Ids(x)
               b == Ids(t)
               c == Ids(y)
    <2>1. InMiddle(a, b, c)
      <3>1. a \in Seq(Id) /\ b \in Seq(Id) /\ c \in Seq(Id)
        BY <1>2
      <3> HIDE DEF a, b, c
      <3> QED
        BY <3>1, Middle
    <2>2. Len(a) = Len(x) /\ Len(b) = Len(t) /\ Ids(d) = a \o (b \o c)
      BY <1>2, <1>3
    <2> QED
      BY <2>1, <2>2, Zenon DEF InMiddle
  <1>6. Len(x) \in Nat /\ Len(t) \in Nat /\ Len(Ids(y)) \in Nat
    BY <1>2
  <1>7. Len(x) \in 0..(Len(e) - Len(t))
    BY <1>4, <1>5, <1>6
  <1> QED
    BY <1>5, <1>7 DEF Holds

(* A text is a stretch of itself with more before or after it, *)
LEMMA WithinItself ==
    ASSUME NEW t \in Seq(Word), NEW a \in Seq(Word)
    PROVE  Within(t, t) /\ Within(t, t \o a) /\ Within(t, a \o t)
  <1>1. <<>> \in Seq(Word) /\ t = <<>> \o (t \o <<>>) /\ t \o a = <<>> \o (t \o a)
        /\ a \o t = a \o (t \o <<>>)
    OBVIOUS
  <1> QED
    BY <1>1 DEF Within

(* and its stretches are stretches of the longer text. *)
LEMMA WithinMore ==
    ASSUME NEW t \in Seq(Word), NEW d \in Seq(Word), NEW a \in Seq(Word), Within(t, d)
    PROVE  Within(t, d \o a) /\ Within(t, a \o d)
  <1>1. PICK x \in Seq(Word), y \in Seq(Word) : d = x \o (t \o y)
    BY DEF Within
  <1> DEFINE ty == t \o y
             ya == y \o a
             ax == a \o x
  <1>2. ty \in Seq(Word) /\ ya \in Seq(Word) /\ ax \in Seq(Word)
    BY Assoc
  <1>3. d = x \o ty /\ ty \o a = t \o ya
    <2>1. Regroups(t, y, a)
      BY Regrouped
    <2> QED
      BY <1>1, <2>1, Zenon DEF Regroups
  <1>4. a \o d = ax \o (t \o y)
    <2>1. (a \o x) \o ty = a \o (x \o ty)
      <3> HIDE DEF ty
      <3>1. Regroups(a, x, ty)
        BY <1>2, Regrouped
      <3> QED
        BY <3>1, Zenon DEF Regroups
    <2> QED
      BY <1>3, <2>1, Zenon DEF ty, ax
  <1> HIDE DEF ty, ya, ax
  <1>5. d \o a = x \o (t \o ya)
    <2>1. Regroups(x, ty, a)
      BY <1>2, Regrouped
    <2>2. (x \o ty) \o a = x \o (ty \o a)
      BY <2>1, Zenon DEF Regroups
    <2> QED
      BY <1>3, <2>2, Zenon
  <1> QED
    BY <1>2, <1>4, <1>5, Zenon DEF Within

(* Pieces are not empty. *)
LEMMA PiecesNotEmpty ==
    ASSUME NEW t \in Seq(Word), NEW B, NEW pieces, IsPieces(t, B, pieces)
    PROVE  \A i \in DOMAIN pieces : pieces[i] # <<>>
  <1> DEFINE n == Len(t)
             Good(a) == \A i \in DOMAIN a : Len(a[i]) > 0
  <1>1. PICK acc : IsCut(t, B, acc) /\ pieces = acc[n]
    BY DEF IsPieces
  <1>2. n \in Nat /\ acc \in [0..n -> Texts] /\ acc[0] = <<>>
        /\ \A k \in 1..n : acc[k] = CutPut(t, B, acc[k - 1], k)
    BY <1>1 DEF IsCut
  <1> DEFINE S == {k \in 0..n : Good(acc[k])}
  <1>3. 0 \in S
    BY <1>2
  <1>4. ASSUME NEW k \in 1..n, k - 1 \in S PROVE k \in S
    <2> DEFINE a == acc[k - 1]
    <2>1. Good(a) /\ a \in Seq(Seq(Word)) /\ acc[k] = CutPut(t, B, a, k) /\ t[k] \in Word
      <3>1. k - 1 \in 0..n
        OBVIOUS
      <3> QED
        BY <1>2, <1>4, <3>1 DEF Texts
    <2> HIDE DEF a
    <2>2. \A w \in Word : <<w>> \in Seq(Word) /\ Len(<<w>>) = 1
      OBVIOUS
    <2>3. CASE k = 1 \/ k \in B
      <3>1. acc[k] = Append(a, <<t[k]>>)
        BY <2>1, <2>3 DEF CutPut
      <3>2. ASSUME NEW i \in DOMAIN acc[k]
            PROVE  acc[k][i] = <<t[k]>> \/ (i \in DOMAIN a /\ acc[k][i] = a[i])
        BY <2>1, <3>1
      <3>3. Len(<<t[k]>>) > 0
        BY <2>1, <2>2
      <3>4. Good(acc[k])
        BY <2>1, <3>2, <3>3
      <3> QED
        BY <3>4
    <2>4. CASE ~(k = 1 \/ k \in B)
      <3>1. acc[k] = [a EXCEPT ![Len(a)] = Append(@, t[k])]
        BY <2>1, <2>4 DEF CutPut
      <3>2. ASSUME NEW i \in DOMAIN acc[k] PROVE Len(acc[k][i]) > 0
        <4>1. i \in DOMAIN a /\ a[i] \in Seq(Word) /\ Len(a[i]) > 0
          BY <2>1, <3>1
        <4>2. Len(Append(a[i], t[k])) = Len(a[i]) + 1
          BY <2>1, <4>1
        <4>3. acc[k][i] = a[i] \/ acc[k][i] = Append(a[i], t[k])
          BY <2>1, <3>1, <4>1
        <4> QED
          BY <4>1, <4>2, <4>3
      <3> QED
        BY <3>2
    <2> QED
      BY <2>3, <2>4
  <1>5. n \in S
    <2> HIDE DEF S
    <2> QED
      BY <1>2, <1>3, <1>4, InductTo, n \in 0..n
  <1>6. Good(pieces) /\ pieces \in Seq(Seq(Word))
    BY <1>1, <1>2, <1>5 DEF Texts
  <1>7. ASSUME NEW i \in DOMAIN pieces PROVE pieces[i] # <<>>
    <2>1. Len(pieces[i]) > 0
      BY <1>6
    <2>2. Len(<<>>) = 0
      OBVIOUS
    <2> QED
      BY <2>1, <2>2
  <1> QED
    BY <1>7

(* What is packed so far has u in one of its groups. *)
HasUnit(u, p) ==
    \/ \E i \in DOMAIN p.groups : Within(u, p.groups[i])
    \/ Within(u, p.current)

(* The next unit is in one of the groups, and none of the earlier ones is  *)
(* taken out of its own.                                                   *)
LEMMA PutHas ==
    ASSUME NEW p \in Packing, NEW v \in Seq(Word), NEW limit, NEW u \in Seq(Word)
    PROVE  /\ HasUnit(v, Put(p, v, limit))
           /\ HasUnit(u, p) => HasUnit(u, Put(p, v, limit))
  <1> DEFINE q == Put(p, v, limit)
  <1>1. p.groups \in Seq(Seq(Word)) /\ p.current \in Seq(Word)
    BY DEF Packing, Texts
  <1>2. \/ q.groups = Append(p.groups, p.current) /\ q.current = v
        \/ q.groups = p.groups /\ q.current = p.current \o v
    BY PutAdds
  <1> HIDE DEF q
  <1>3. HasUnit(v, q)
    BY <1>1, <1>2, WithinItself DEF HasUnit
  <1>4. ASSUME HasUnit(u, p) PROVE HasUnit(u, q)
    <2>1. CASE q.groups = Append(p.groups, p.current) /\ q.current = v
      <3>1. /\ DOMAIN q.groups = 1..(Len(p.groups) + 1) /\ Len(p.groups) \in Nat
            /\ q.groups[Len(p.groups) + 1] = p.current
            /\ DOMAIN p.groups = 1..Len(p.groups)
            /\ \A i \in DOMAIN p.groups : q.groups[i] = p.groups[i]
        BY <1>1, <2>1
      <3>2. Len(p.groups) + 1 \in DOMAIN q.groups /\ \A i \in DOMAIN p.groups : i \in DOMAIN q.groups
        BY <3>1
      <3> QED
        BY <1>4, <3>1, <3>2 DEF HasUnit
    <2>2. CASE q.groups = p.groups /\ q.current = p.current \o v
      <3>1. Within(u, p.current) => Within(u, q.current)
        BY <1>1, <2>2, WithinMore
      <3> QED
        BY <1>4, <2>2, <3>1 DEF HasUnit
    <2> QED
      BY <1>2, <2>1, <2>2
  <1> QED
    BY <1>3, <1>4 DEF q

(* pack puts every unit that is not empty into one group. *)
LEMMA PackHas ==
    ASSUME NEW units \in Texts, NEW limit, NEW j \in DOMAIN units, units[j] # <<>>
    PROVE  \E i \in DOMAIN pack(units, limit) : Within(units[j], pack(units, limit)[i])
  <1> DEFINE n == Len(units)
             u == units[j]
             m == n - j
  <1>1. PICK acc : /\ IsPacking(units, limit, acc)
                   /\ pack(units, limit) =
                        IF acc[n].current = <<>> THEN acc[n].groups
                        ELSE Append(acc[n].groups, acc[n].current)
    BY PackIs
  <1>2. n \in Nat /\ DOMAIN units = 1..n /\ \A k \in 1..n : units[k] \in Seq(Word)
    BY DEF Texts
  <1>3. /\ \A k \in 0..n : acc[k] \in Packing
        /\ \A k \in 1..n : acc[k] = Put(acc[k - 1], units[k], limit)
    BY <1>1 DEF IsPacking
  <1> DEFINE S == {k \in 0..m : HasUnit(u, acc[j + k])}
  <1>4. j \in 1..n /\ m \in Nat /\ u \in Seq(Word) /\ m \in 0..m /\ j + m = n
    BY <1>2
  <1>5. 0 \in S
    <2>1. acc[j - 1] \in Packing /\ acc[j] = Put(acc[j - 1], u, limit) /\ j + 0 = j
      BY <1>2, <1>3, <1>4
    <2>2. HasUnit(u, acc[j])
      BY <1>4, <2>1, PutHas
    <2> QED
      BY <1>4, <2>1, <2>2
  <1>6. ASSUME NEW k \in 1..m, k - 1 \in S PROVE k \in S
    <2>1. j + k \in 1..n /\ j + k - 1 \in 0..n /\ j + (k - 1) = j + k - 1 /\ k \in 0..m
      BY <1>2, <1>4
    <2>2. HasUnit(u, acc[j + k - 1])
      BY <1>6, <2>1
    <2>3. /\ acc[j + k - 1] \in Packing /\ units[j + k] \in Seq(Word)
          /\ acc[j + k] = Put(acc[j + k - 1], units[j + k], limit)
      BY <1>2, <1>3, <2>1
    <2>4. HasUnit(u, acc[j + k])
      BY <1>4, <2>2, <2>3, PutHas
    <2> QED
      BY <2>1, <2>4
  <1>7. m \in S
    <2> HIDE DEF S, m
    <2> QED
      BY <1>4, <1>5, <1>6, InductTo
  <1>8. HasUnit(u, acc[n]) /\ acc[n] \in Packing
    BY <1>2, <1>3, <1>4, <1>7
  <1>9. acc[n].groups \in Seq(Seq(Word)) /\ acc[n].current \in Seq(Word)
    BY <1>8 DEF Packing, Texts
  <1>10. CASE acc[n].current = <<>>
    <2>1. ~Within(u, acc[n].current)
      <3>1. ASSUME NEW x \in Seq(Word), NEW y \in Seq(Word), <<>> = x \o (u \o y) PROVE FALSE
        <4>1. Len(u) > 0 /\ Len(x) \in Nat /\ Len(y) \in Nat
          BY <1>4
        <4>2. Len(x \o (u \o y)) = Len(x) + (Len(u) + Len(y))
          BY <1>4
        <4>3. Len(<<>>) = 0
          OBVIOUS
        <4> QED
          BY <3>1, <4>1, <4>2, <4>3
      <3> QED
        BY <1>10, <3>1 DEF Within
    <2> QED
      BY <1>1, <1>8, <1>10, <2>1 DEF HasUnit
  <1>11. CASE acc[n].current # <<>>
    <2> DEFINE g == acc[n].groups
               c == acc[n].current
    <2>1. pack(units, limit) = Append(g, c)
      BY <1>1, <1>11
    <2>2. HasUnit(u, acc[n]) <=> (\E i \in DOMAIN g : Within(u, g[i])) \/ Within(u, c)
      BY DEF HasUnit
    <2> HIDE DEF g, c
    <2>3. g \in Seq(Seq(Word)) /\ c \in Seq(Word)
      BY <1>9 DEF g, c
    <2>4. /\ DOMAIN Append(g, c) = 1..(Len(g) + 1) /\ Len(g) \in Nat
          /\ Append(g, c)[Len(g) + 1] = c
          /\ DOMAIN g = 1..Len(g)
          /\ \A i \in DOMAIN g : Append(g, c)[i] = g[i]
      BY <2>3
    <2>5. Len(g) + 1 \in DOMAIN Append(g, c) /\ \A i \in DOMAIN g : i \in DOMAIN Append(g, c)
      BY <2>4
    <2>6. \E i \in DOMAIN Append(g, c) : Within(u, Append(g, c)[i])
      <3> HIDE DEF u
      <3> QED
        BY <1>8, <2>2, <2>4, <2>5
    <2> QED
      BY <2>1, <2>6
  <1> QED
    BY <1>10, <1>11

(* A unit taken as it is, is among the units after the breaking. *)
LEMMA TakenAsItIs ==
    ASSUME NEW n \in Nat, NEW parts \in [1..n -> Texts], NEW j \in 1..n, NEW u \in Seq(Word),
           parts[j] = <<u>>
    PROVE  \E m \in DOMAIN FlattenSeq(parts) : FlattenSeq(parts)[m] = u
  <1> DEFINE all == FlattenSeq(parts)
  <1>1. parts \in Seq(Seq(Seq(Word))) /\ DOMAIN parts = 1..n
    BY DEF Texts
  <1>2. ToSet(all) = Covered(parts) /\ all \in Seq(Seq(Word))
    BY <1>1, FlattenApart, FlattenFacts
  <1> HIDE DEF all
  <1>3. u \in ToSet(parts[j])
    <2>1. ASSUME NEW p, p = <<u>> PROVE u \in ToSet(p)
      <3>1. 1 \in DOMAIN p /\ p[1] = u
        BY <2>1
      <3> QED
        BY <3>1 DEF ToSet
    <2> QED
      BY <2>1
  <1>4. u \in ToSet(all)
    BY <1>1, <1>2, <1>3 DEF Covered
  <1>5. \E m \in DOMAIN all : all[m] = u
    BY <1>4 DEF ToSet
  <1> QED
    BY <1>5 DEF all

(* So a unit within the limit is not broken into words, *)
LEMMA NotInWords ==
    ASSUME NEW units \in Texts, NEW limit \in Int, NEW j \in DOMAIN units,
           Tokens(units[j]) <= limit
    PROVE  \E m \in DOMAIN Broken(units, limit, word_parts) :
              Broken(units, limit, word_parts)[m] = units[j]
  <1> DEFINE parts == [i \in DOMAIN units |->
                         IF Tokens(units[i]) > limit THEN word_parts(units[i], limit)
                         ELSE <<units[i]>>]
             n == Len(units)
  <1>1. n \in Nat /\ DOMAIN units = 1..n /\ \A i \in 1..n : units[i] \in Seq(Word)
    BY DEF Texts
  <1>2. \A i \in 1..n : parts[i] \in Texts
    BY <1>1, WordParts DEF Texts
  <1>3. parts \in [1..n -> Texts]
    BY <1>1, <1>2
  <1>4. Tokens(units[j]) \in Nat
    BY <1>1, TokensAdd
  <1>5. parts[j] = <<units[j]>>
    BY <1>4
  <1>6. Broken(units, limit, word_parts) = FlattenSeq(parts)
    BY DEF Broken
  <1>7. j \in 1..n /\ units[j] \in Seq(Word)
    BY <1>1
  <1> HIDE DEF parts, n
  <1>8. \E m \in DOMAIN FlattenSeq(parts) : FlattenSeq(parts)[m] = units[j]
    BY <1>1, <1>3, <1>5, <1>7, TakenAsItIs
  <1> QED
    BY <1>6, <1>8, Zenon

(* nor into sentences, *)
LEMMA NotInSentences ==
    ASSUME NEW units \in Texts, NEW limit \in Int, NEW j \in DOMAIN units,
           Tokens(units[j]) <= limit
    PROVE  \E m \in DOMAIN Broken(units, limit, sentence_parts) :
              Broken(units, limit, sentence_parts)[m] = units[j]
  <1> DEFINE parts == [i \in DOMAIN units |->
                         IF Tokens(units[i]) > limit THEN sentence_parts(units[i], limit)
                         ELSE <<units[i]>>]
             n == Len(units)
  <1>1. n \in Nat /\ DOMAIN units = 1..n /\ \A i \in 1..n : units[i] \in Seq(Word)
    BY DEF Texts
  <1>2. \A i \in 1..n : parts[i] \in Texts
    BY <1>1, SentenceParts DEF Texts
  <1>3. parts \in [1..n -> Texts]
    BY <1>1, <1>2
  <1>4. Tokens(units[j]) \in Nat
    BY <1>1, TokensAdd
  <1>5. parts[j] = <<units[j]>>
    BY <1>4
  <1>6. Broken(units, limit, sentence_parts) = FlattenSeq(parts)
    BY DEF Broken
  <1>7. j \in 1..n /\ units[j] \in Seq(Word)
    BY <1>1
  <1> HIDE DEF parts, n
  <1>8. \E m \in DOMAIN FlattenSeq(parts) : FlattenSeq(parts)[m] = units[j]
    BY <1>1, <1>3, <1>5, <1>7, TakenAsItIs
  <1> QED
    BY <1>6, <1>8, Zenon

(* and what is broken into sentences is small. *)
LEMMA SentencesSmall ==
    ASSUME NEW units \in Texts, NEW limit \in Int
    PROVE  AllSmall(Broken(units, limit, sentence_parts), limit)
  <1> DEFINE parts == [i \in DOMAIN units |->
                         IF Tokens(units[i]) > limit THEN sentence_parts(units[i], limit)
                         ELSE <<units[i]>>]
             n == Len(units)
  <1>1. n \in Nat /\ DOMAIN units = 1..n /\ \A i \in 1..n : units[i] \in Seq(Word)
    BY DEF Texts
  <1>2. \A i \in 1..n : parts[i] \in Texts
    BY <1>1, SentenceParts DEF Texts
  <1>3. parts \in [1..n -> Texts]
    BY <1>1, <1>2
  <1>4. ASSUME NEW i \in 1..n PROVE AllSmall(parts[i], limit)
    <2>1. Tokens(units[i]) \in Nat
      BY <1>1, TokensAdd
    <2>2. CASE Tokens(units[i]) > limit
      BY <1>1, <2>2, SentenceParts
    <2>3. CASE ~(Tokens(units[i]) > limit)
      <3>1. parts[i] = <<units[i]>> /\ Tokens(units[i]) <= limit
        BY <1>1, <2>1, <2>3
      <3> HIDE DEF parts
      <3>2. DOMAIN parts[i] = {1} /\ parts[i][1] = units[i]
        <4>1. ASSUME NEW x, NEW p, p = <<x>> PROVE DOMAIN p = {1} /\ p[1] = x
          BY <4>1
        <4> QED
          BY <3>1, <4>1
      <3> QED
        BY <3>1, <3>2 DEF AllSmall, Small
    <2> QED
      BY <2>2, <2>3
  <1>5. Broken(units, limit, sentence_parts) = FlattenSeq(parts)
    BY DEF Broken
  <1> HIDE DEF parts, n
  <1> QED
    BY <1>1, <1>3, <1>4, <1>5, FlattenSmall

(* A text with u in it is u, or has more than one word. *)
LEMMA NoRoom ==
    ASSUME NEW u \in Seq(Word), u # <<>>, NEW g \in Seq(Word), Within(u, g), Len(g) = 1
    PROVE  Tokens(g) = Tokens(u)
  <1>1. PICK x \in Seq(Word), y \in Seq(Word) : g = x \o (u \o y)
    BY DEF Within
  <1>2. Len(x) \in Nat /\ Len(y) \in Nat /\ Len(u) \in Nat /\ Len(u) > 0
    OBVIOUS
  <1>3. Len(u \o y) = Len(u) + Len(y) /\ u \o y \in Seq(Word)
    OBVIOUS
  <1>4. Len(g) = Len(x) + (Len(u) + Len(y))
    BY <1>1, <1>3
  <1>5. Len(x) = 0 /\ Len(y) = 0
    <2>1. ASSUME NEW a \in Nat, NEW b \in Nat, NEW c \in Nat, c > 0, a + (c + b) = 1
          PROVE  a = 0 /\ b = 0
      BY <2>1
    <2> QED
      BY <1>2, <1>4, <2>1
  <1>6. x = <<>> /\ y = <<>>
    BY <1>5
  <1>7. Tokens(x) = 0 /\ Tokens(y) = 0
    BY <1>6, TokensOfNothing
  <1>8. /\ Tokens(u \o y) = Tokens(u) + Tokens(y) /\ Tokens(u) \in Nat
        /\ Tokens(x \o (u \o y)) = Tokens(x) + Tokens(u \o y)
    BY <1>3, TokensAdd
  <1> QED
    BY <1>1, <1>7, <1>8

(* A unit within the limit is whole in a group within the limit. *)
LEMMA PackedWhole ==
    ASSUME NEW units \in Texts, NEW limit \in Int, AllSmall(units, limit),
           NEW j \in DOMAIN units, units[j] # <<>>, Tokens(units[j]) <= limit
    PROVE  LET groups == pack(units, limit) IN
           \E i \in DOMAIN groups : Within(units[j], groups[i]) /\ Tokens(groups[i]) <= limit
  <1> DEFINE groups == pack(units, limit)
  <1>1. PICK i \in DOMAIN groups : Within(units[j], groups[i])
    BY PackHas
  <1>2. groups \in Seq(Seq(Word)) /\ units \in Seq(Seq(Word)) /\ FitsOrUnit(groups[i], units, limit)
    BY PackTyped, PackFits DEF Texts
  <1> HIDE DEF groups
  <1>3. groups[i] \in Seq(Word) /\ units[j] \in Seq(Word)
    BY <1>2
  <1>4. Tokens(groups[i]) <= limit \/ Len(groups[i]) = 1
    BY <1>2 DEF FitsOrUnit, AllSmall, Small
  <1>5. Tokens(groups[i]) <= limit
    BY <1>1, <1>3, <1>4, NoRoom
  <1> QED
    BY <1>1, <1>5 DEF groups

(* The stretch of one element. *)
LEMMA JustOne ==
    ASSUME NEW S, NEW s \in Seq(S), NEW k \in 1..Len(s)
    PROVE  SubSeq(s, k, k) = <<s[k]>>
  <1>1. SubSeq(s, k, k) = SubSeq(s, k, k - 1) \o <<s[k]>>
    BY SubSeqRecursiveSecond, k \in k..Len(s)
  <1>2. SubSeq(s, k, k - 1) = <<>>
    BY SubSeqEmpty
  <1>3. <<>> \o <<s[k]>> = <<s[k]>>
    OBVIOUS
  <1> QED
    BY <1>1, <1>2, <1>3

(* A word of a text is a stretch of it. *)
LEMMA WordWithin ==
    ASSUME NEW t \in Seq(Word), NEW k \in DOMAIN t
    PROVE  Within(<<t[k]>>, t)
  <1> DEFINE n == Len(t)
             x == SubSeq(t, 1, k - 1)
             y == SubSeq(t, k + 1, n)
  <1>1. n \in Nat /\ k \in 1..n
    OBVIOUS
  <1>2. x \in Seq(Word) /\ y \in Seq(Word)
    <2>1. 1 \in 1..(n + 1) /\ k - 1 \in 0..n /\ k + 1 \in 1..(n + 1) /\ n \in 0..n
      BY <1>1
    <2> QED
      BY <2>1, SubSeqProperties
  <1>3. t = x \o SubSeq(t, k, n)
    <2>1. 1 \in 1..(Len(t) + 1) /\ k - 1 \in (1 - 1)..Len(t) /\ n \in (k - 1)..Len(t) /\ (k - 1) + 1 = k
      BY <1>1
    <2>2. SubSeq(t, 1, k - 1) \o SubSeq(t, (k - 1) + 1, n) = SubSeq(t, 1, n)
      BY <2>1, ConcatAdjacentSubSeq
    <2>3. SubSeq(t, 1, n) = t
      OBVIOUS
    <2> QED
      BY <2>1, <2>2, <2>3
  <1>4. SubSeq(t, k, n) = <<t[k]>> \o y
    <2>1. k \in 1..(Len(t) + 1) /\ k \in (k - 1)..Len(t) /\ n \in k..Len(t)
      BY <1>1
    <2>2. SubSeq(t, k, k) \o SubSeq(t, k + 1, n) = SubSeq(t, k, n)
      BY <2>1, ConcatAdjacentSubSeq
    <2>3. SubSeq(t, k, k) = <<t[k]>>
      BY <1>1, JustOne
    <2> QED
      BY <2>2, <2>3
  <1> HIDE DEF x, y
  <1> QED
    BY <1>2, <1>3, <1>4, Zenon DEF Within

(* A table without its header, its rows, and what has room under a header. *)
Body(b) == SubSeq(b.text, Len(b.header) + 1, Len(b.text))
Rows(b) == Lines(Body(b))

UnderHeader(b, t, limit) == Tokens(b.header) + Larger(1, Tokens(t)) <= limit

(* Some part within the limit has both texts whole. *)
HasBoth(parts, limit, h, t) ==
    \E i \in DOMAIN parts : Within(h, parts[i]) /\ Within(t, parts[i]) /\ Tokens(parts[i]) <= limit

(* A row that fits under the header is in a part of the table with it. *)
LEMMA RowWithHeader ==
    ASSUME NEW b \in Parsed, NEW limit \in Int, NEW k \in DOMAIN Rows(b),
           UnderHeader(b, Rows(b)[k], limit)
    PROVE  HasBoth(table_parts(b, limit), limit, b.header, Rows(b)[k])
  <1> DEFINE h == b.header
             body == SubSeq(b.text, Len(h) + 1, Len(b.text))
             rows == Lines(body)
             budget == Larger(1, limit - Tokens(h))
             units == Broken(rows, budget, word_parts)
             groups == pack(units, budget)
             parts == [i \in DOMAIN groups |-> h \o groups[i]]
             r == rows[k]
  <1>1. h \in Seq(Word) /\ b.text \in Seq(Word) /\ body \in Seq(Word)
    <2>1. h \in Seq(Word) /\ b.text \in Seq(Word) /\ IsPrefix(h, b.text)
      BY DEF Parsed, Block
    <2> QED
      BY <2>1, PrefixAndRest
  <1>2. Rows(b) = rows
    BY DEF Rows, Body
  <1>3. table_parts(b, limit) = IF groups = <<>> THEN <<b.text>> ELSE parts
    BY DEF table_parts
  <1> HIDE DEF body
  <1>4. rows \in Texts /\ k \in DOMAIN rows /\ r # <<>>
    <2>1. IsPieces(body, Breaks(body), rows) /\ rows \in Texts
      BY <1>1, LinesCut, CutTyped
    <2> HIDE DEF rows
    <2> QED
      BY <1>1, <1>2, <2>1, PiecesNotEmpty
  <1>5. /\ r \in Seq(Word) /\ Tokens(h) \in Nat /\ Tokens(r) \in Nat
        /\ Tokens(h) + Tokens(r) <= limit /\ Tokens(h) + 1 <= limit
    <2>1. r \in Seq(Word)
      <3> HIDE DEF rows
      <3> QED
        BY <1>4 DEF Texts
    <2>2. Tokens(h) \in Nat /\ Tokens(r) \in Nat
      BY <1>1, <2>1, TokensAdd
    <2>3. Tokens(h) + Larger(1, Tokens(r)) <= limit
      BY <1>2 DEF UnderHeader
    <2> HIDE DEF h, r
    <2> QED
      BY <2>1, <2>2, <2>3 DEF Larger
  <1>6. budget = limit - Tokens(h) /\ budget \in Int /\ Tokens(r) <= budget
    <2> HIDE DEF h, r
    <2> QED
      BY <1>5 DEF Larger
  <1> HIDE DEF budget, rows
  <1>7. units \in Texts /\ AllSmall(units, budget)
    BY <1>4, <1>6, BrokenInWords
  <1>8. PICK m \in DOMAIN units : units[m] = r
    BY <1>4, <1>6, NotInWords
  <1> HIDE DEF units
  <1>9. PICK i \in DOMAIN groups : Within(r, groups[i]) /\ Tokens(groups[i]) <= budget
    BY <1>4, <1>6, <1>7, <1>8, PackedWhole
  <1>10. groups \in Seq(Seq(Word))
    BY <1>7, PackTyped DEF Texts
  <1> HIDE DEF groups, h, r
  <1>11. groups[i] \in Seq(Word) /\ groups # <<>>
    BY <1>9, <1>10
  <1>12. parts[i] = h \o groups[i] /\ DOMAIN parts = DOMAIN groups
    BY <1>9
  <1>13. Within(h, h \o groups[i]) /\ Within(r, h \o groups[i])
    BY <1>1, <1>5, <1>9, <1>11, WithinItself, WithinMore
  <1>14. Tokens(h \o groups[i]) <= limit
    <2>1. Tokens(h \o groups[i]) = Tokens(h) + Tokens(groups[i]) /\ Tokens(groups[i]) \in Nat
      BY <1>1, <1>11, TokensAdd
    <2> QED
      BY <1>5, <1>6, <1>9, <2>1
  <1> HIDE DEF parts
  <1>15. table_parts(b, limit) = parts
    BY <1>3, <1>11
  <1>16. HasBoth(parts, limit, h, r)
    BY <1>9, <1>12, <1>13, <1>14 DEF HasBoth
  <1> QED
    BY <1>2, <1>15, <1>16 DEF h, r

(* A word that fits under the header is in a part of the table with it,    *)
(* whatever room the header leaves.                                        *)
LEMMA WordWithHeader ==
    ASSUME NEW b \in Parsed, NEW limit \in Int, limit <= Ceiling, NEW k \in DOMAIN Body(b),
           UnderHeader(b, <<Body(b)[k]>>, Ceiling)
    PROVE  HasBoth(table_parts(b, limit), Ceiling, b.header, <<Body(b)[k]>>)
  <1> DEFINE h == b.header
             body == SubSeq(b.text, Len(h) + 1, Len(b.text))
             rows == Lines(body)
             budget == Larger(1, limit - Tokens(h))
             units == Broken(rows, budget, word_parts)
             groups == pack(units, budget)
             parts == [i \in DOMAIN groups |-> h \o groups[i]]
             w == <<body[k]>>
  <1>1. h \in Seq(Word) /\ body \in Seq(Word)
    <2>1. h \in Seq(Word) /\ b.text \in Seq(Word) /\ IsPrefix(h, b.text)
      BY DEF Parsed, Block
    <2> QED
      BY <2>1, PrefixAndRest
  <1>2. Body(b) = body /\ k \in DOMAIN body
    BY DEF Body
  <1>3. table_parts(b, limit) = IF groups = <<>> THEN <<b.text>> ELSE parts
    BY DEF table_parts
  <1> HIDE DEF body
  <1>4. rows \in Texts /\ FlattenSeq(rows) = body
    BY <1>1, CutTyped, LinesCut, CutKeeps
  <1>5. /\ w \in Seq(Word) /\ Tokens(h) \in Nat /\ Tokens(w) \in Nat /\ Ceiling \in Int
        /\ Tokens(h) + Tokens(w) <= Ceiling /\ Tokens(h) + 1 <= Ceiling
    <2>1. w \in Seq(Word) /\ Ceiling \in Int
      <3>1. body[k] \in Word
        BY <1>1, <1>2
      <3> QED
        BY <3>1, ChunkerAssumption
    <2>2. Tokens(h) \in Nat /\ Tokens(w) \in Nat
      BY <1>1, <2>1, TokensAdd
    <2>3. Tokens(h) + Larger(1, Tokens(w)) <= Ceiling
      BY <1>2 DEF UnderHeader
    <2> HIDE DEF h, w
    <2> QED
      BY <2>1, <2>2, <2>3 DEF Larger
  <1>6. budget \in Int /\ Tokens(h) + budget <= Ceiling
    <2> HIDE DEF h
    <2> QED
      BY <1>5 DEF Larger
  <1> HIDE DEF budget, rows
  <1>7. units \in Texts /\ AllSmall(units, budget) /\ FlattenSeq(units) = body
    BY <1>4, <1>6, BrokenInWords, BrokenInWordsKeeps
  <1> HIDE DEF units
  <1>8. /\ groups \in Seq(Seq(Word)) /\ FlattenSeq(groups) = body
        /\ \A i \in DOMAIN groups : FitsOrUnit(groups[i], units, budget)
    BY <1>6, <1>7, PackTyped, PackKeeps, PackFits DEF Texts
  <1> HIDE DEF groups
  <1>9. PICK i \in DOMAIN groups : \E q \in DOMAIN groups[i] : body[k] = groups[i][q]
    BY <1>2, <1>8, FlattenFacts
  <1>10. groups[i] \in Seq(Word) /\ groups # <<>>
    BY <1>8, <1>9
  <1>11. Within(w, groups[i])
    BY <1>9, <1>10, WordWithin
  <1> HIDE DEF w, h
  <1>12. w # <<>>
    BY DEF w
  <1>13. Tokens(groups[i]) \in Nat /\ Tokens(h) + Tokens(groups[i]) <= Ceiling
    <2>1. Tokens(groups[i]) <= budget \/ Len(groups[i]) = 1
      BY <1>7, <1>8, <1>9 DEF FitsOrUnit, AllSmall, Small
    <2>2. Tokens(groups[i]) <= budget \/ Tokens(groups[i]) = Tokens(w)
      BY <1>5, <1>10, <1>11, <1>12, <2>1, NoRoom
    <2>3. Tokens(groups[i]) \in Nat
      BY <1>10, TokensAdd
    <2> QED
      BY <1>5, <1>6, <2>2, <2>3
  <1>14. parts[i] = h \o groups[i] /\ DOMAIN parts = DOMAIN groups
    BY <1>9
  <1>15. Within(h, h \o groups[i]) /\ Within(w, h \o groups[i])
    BY <1>1, <1>5, <1>10, <1>11, WithinItself, WithinMore
  <1>16. Tokens(h \o groups[i]) <= Ceiling
    <2>1. Tokens(h \o groups[i]) = Tokens(h) + Tokens(groups[i])
      BY <1>1, <1>10, TokensAdd
    <2> QED
      BY <1>13, <2>1
  <1> HIDE DEF parts
  <1>17. table_parts(b, limit) = parts
    BY <1>3, <1>10
  <1>18. HasBoth(parts, Ceiling, h, w)
    BY <1>9, <1>14, <1>15, <1>16 DEF HasBoth
  <1> QED
    BY <1>2, <1>17, <1>18 DEF h, w

(* A step that fits under the reminder is whole in a part of the procedure. *)
LEMMA StepInPart ==
    ASSUME NEW t \in Seq(Word), NEW limit \in Int, Tokens(t) > limit,
           NEW s \in ToSet(split_steps(t)), Tokens(s) < limit - Tokens(CONTINUED)
    PROVE  HasBoth(procedure_parts(t, limit), limit, s, s)
  <1> DEFINE steps == split_steps(t)
             c == Tokens(CONTINUED)
             budget == Larger(1, limit - c - 1)
             units == Broken(steps, budget, sentence_parts)
             groups == pack(units, budget)
             parts == [i \in DOMAIN groups |-> IF i = 1 THEN groups[i] ELSE CONTINUED \o groups[i]]
  <1>1. procedure_parts(t, limit) = IF Len(steps) <= 1 THEN sentence_parts(t, limit) ELSE parts
    BY DEF procedure_parts
  <1>2. IsPieces(t, Numbers(t), steps) /\ steps \in Texts
    BY StepsCut, CutTyped
  <1>3. PICK k \in DOMAIN steps : s = steps[k]
    BY DEF ToSet
  <1>4. s # <<>> /\ FlattenSeq(steps) = t
    <2> HIDE DEF steps
    <2> QED
      BY <1>2, <1>3, PiecesNotEmpty, CutKeeps
  <1> HIDE DEF steps
  <1>5. s \in Seq(Word) /\ steps \in Seq(Seq(Word)) /\ Len(steps) \in Nat /\ k \in 1..Len(steps)
    BY <1>2, <1>3 DEF Texts
  <1>6. c \in Nat /\ Tokens(s) \in Nat /\ Tokens(s) < limit - c
    BY <1>5, ContinuedTyped, TokensAdd
  <1>7. ~(Len(steps) <= 1)
    <2> SUFFICES ASSUME Len(steps) <= 1 PROVE FALSE
      OBVIOUS
    <2>1. k = 1 /\ Len(steps) = 1
      <3>1. ASSUME NEW a \in Nat, NEW i \in 1..a, a <= 1 PROVE i = 1 /\ a = 1
        BY <3>1
      <3> QED
        BY <1>5, <3>1
    <2>2. steps = <<s>>
      BY <1>3, <1>5, <2>1
    <2>3. t = s
      BY <1>4, <1>5, <2>2, FlattenOne
    <2> HIDE DEF c
    <2> QED
      BY <1>6, <2>3
  <1>8. budget \in Int /\ Tokens(s) <= budget /\ c + budget <= limit /\ budget <= limit
    <2> HIDE DEF c
    <2> QED
      BY <1>6 DEF Larger
  <1> HIDE DEF budget
  <1>9. units \in Texts /\ AllSmall(units, budget)
    BY <1>2, <1>8, BrokenInSentences, SentencesSmall
  <1>10. PICK m \in DOMAIN units : units[m] = s
    BY <1>2, <1>3, <1>8, NotInSentences
  <1> HIDE DEF units
  <1>11. PICK i \in DOMAIN groups : Within(s, groups[i]) /\ Tokens(groups[i]) <= budget
    BY <1>4, <1>8, <1>9, <1>10, PackedWhole
  <1>12. groups \in Seq(Seq(Word))
    BY <1>9, PackTyped DEF Texts
  <1> HIDE DEF groups
  <1>13. groups[i] \in Seq(Word) /\ Tokens(groups[i]) \in Nat
    BY <1>11, <1>12, TokensAdd
  <1>14. Within(s, CONTINUED \o groups[i]) /\ Tokens(CONTINUED \o groups[i]) <= limit
    <2>1. Tokens(CONTINUED \o groups[i]) = c + Tokens(groups[i])
      BY <1>13, ContinuedTyped, TokensAdd
    <2>2. Within(s, CONTINUED \o groups[i])
      BY <1>5, <1>11, <1>13, ContinuedTyped, WithinMore
    <2> HIDE DEF c
    <2> QED
      BY <1>6, <1>8, <1>11, <1>13, <2>1, <2>2
  <1>15. Tokens(groups[i]) <= limit
    BY <1>8, <1>11, <1>13
  <1>16. /\ DOMAIN parts = DOMAIN groups
         /\ parts[i] = groups[i] \/ parts[i] = CONTINUED \o groups[i]
    BY <1>11
  <1> HIDE DEF parts
  <1>17. HasBoth(parts, limit, s, s)
    BY <1>11, <1>14, <1>15, <1>16 DEF HasBoth
  <1> QED
    BY <1>1, <1>7, <1>17

(* A text on its own is joined to itself. *)
LEMMA JoinedOne ==
    ASSUME NEW t \in Seq(Word)
    PROVE  /\ Joined(<<t>>) \in Seq(Word) /\ Ids(Joined(<<t>>)) = Ids(t)
           /\ Tokens(Joined(<<t>>)) = Tokens(t)
  <1> DEFINE s == [t EXCEPT ![Len(t)].stop = TRUE]
             n == Len(t)
  <1>1. <<t>> \in Texts /\ <<t>> \in Seq(Seq(Word))
    BY DEF Texts
  <1>2. Joined(<<t>>) \in Seq(Word) /\ Ids(Joined(<<t>>)) = Ids(t)
    <2>1. Ids(Joined(<<t>>)) = Ids(FlattenSeq(<<t>>)) /\ FlattenSeq(<<t>>) = t
      BY <1>1, JoinedKeeps, FlattenOne
    <2> QED
      BY <1>1, <2>1, JoinedTyped
  <1>3. n \in Nat /\ DOMAIN t = 1..n /\ \A i \in 1..n : t[i] \in Word
    OBVIOUS
  <1>4. s \in Seq(Word) /\ Len(s) = n /\ \A i \in 1..n : s[i].size = t[i].size
    <2>1. \A w \in Word : [w EXCEPT !.stop = TRUE] \in Word /\ [w EXCEPT !.stop = TRUE].size = w.size
      BY DEF Word
    <2>2. s \in [1..n -> Word] /\ \A i \in 1..n : s[i].size = t[i].size
      BY <1>3, <2>1
    <2> HIDE DEF s
    <2>3. s \in Seq(Word) /\ Len(s) = n
      BY <1>3, <2>2
    <2> QED
      BY <2>2, <2>3
  <1>5. Joined(<<t>>) = s
    <2> DEFINE end(u) == [u EXCEPT ![Len(u)].stop = TRUE]
               parts == [i \in DOMAIN <<t>> |-> end(<<t>>[i])]
    <2>1. Joined(<<t>>) = FlattenSeq(parts) /\ s = end(t)
      BY DEF Joined
    <2> HIDE DEF end
    <2>2. parts = <<s>>
      <3>1. ASSUME NEW p, p = <<t>> PROVE DOMAIN p = 1..1 /\ p[1] = t
        BY <3>1
      <3>2. DOMAIN <<t>> = 1..1 /\ <<t>>[1] = t
        BY <3>1
      <3>3. parts = [i \in 1..1 |-> end(<<t>>[i])]
        BY <3>2, Zenon
      <3>4. \A i \in 1..1 : i = 1
        OBVIOUS
      <3>5. parts = [i \in 1..1 |-> end(t)]
        BY <3>2, <3>3, <3>4, Zenon
      <3>6. ASSUME NEW x PROVE [i \in 1..1 |-> x] = <<x>>
        OBVIOUS
      <3> HIDE DEF parts, s
      <3> QED
        BY <2>1, <3>5, <3>6
    <2>3. Joined(<<t>>) = FlattenSeq(<<s>>)
      BY <2>1, <2>2
    <2> HIDE DEF s
    <2> QED
      BY <1>4, <2>3, FlattenOne
  <1> HIDE DEF s
  <1>6. Tokens(s) = Tokens(t)
    <2>1. PICK a : IsSum(s, a) /\ Tokens(s) = a[Len(s)]
      BY <1>4, TokensAre
    <2>2. PICK b : IsSum(t, b) /\ Tokens(t) = b[Len(t)]
      BY TokensAre
    <2>3. SameSizes(s, 0, t, 0, n)
      BY <1>3, <1>4 DEF SameSizes
    <2>4. a[0 + n] + b[0] = a[0] + b[0 + n]
      <3>1. 0 + n <= Len(s) /\ 0 + n <= Len(t)
        BY <1>3, <1>4
      <3> HIDE DEF n
      <3> QED
        BY <1>3, <1>4, <2>1, <2>2, <2>3, <3>1, SameSum
    <2>5. a[0] = 0 /\ b[0] = 0 /\ a[n] \in Nat /\ b[n] \in Nat /\ 0 + n = n
      BY <1>3, <1>4, <2>1, <2>2, n \in 0..n DEF IsSum
    <2> QED
      BY <1>4, <2>1, <2>2, <2>4, <2>5
  <1> QED
    BY <1>2, <1>5, <1>6

(* Two texts that one draft holds, *)
InOne(ds, h, t) == \E i \in DOMAIN ds : Holds(ds[i], h) /\ Holds(ds[i], t)

(* or that one part still to be emitted has, as a chunk of its own,        *)
Due(parts, h, t) ==
    \E m \in DOMAIN parts : /\ parts[m].alone
                            /\ Within(h, parts[m].text) /\ Within(t, parts[m].text)
                            /\ Tokens(parts[m].text) <= Ceiling

(* and those a block calls for: a row or a word of a table with the header, *)
(* a step (with itself).                                                    *)
RowOwed(b, h, t) ==
    /\ Target <= Ceiling
    /\ HasHeader(b) /\ Tokens(b.text) > Target
    /\ h = b.header
    /\ \E k \in DOMAIN Rows(b) : t = Rows(b)[k] /\ UnderHeader(b, Rows(b)[k], Target)

WordOwed(b, h, t) ==
    /\ Target <= Ceiling
    /\ HasHeader(b) /\ Tokens(b.text) > Target
    /\ h = b.header
    /\ \E k \in DOMAIN Body(b) : t = <<Body(b)[k]>> /\ UnderHeader(b, <<Body(b)[k]>>, Ceiling)

StepOwed(b, h, t) ==
    /\ b.atomic /\ Tokens(b.text) > Ceiling
    /\ h = t /\ t \in ToSet(split_steps(b.text))
    /\ Tokens(t) < Ceiling - Tokens(CONTINUED)

Owed(b, h, t) == RowOwed(b, h, t) \/ WordOwed(b, h, t) \/ StepOwed(b, h, t)

(* A chunk emitted on its own holds what is in its part. *)
LEMMA EachDue ==
    ASSUME NEW texts \in Texts, NEW limit \in Int, limit <= Ceiling, NEW h, NEW t,
           HasBoth(texts, limit, h, t)
    PROVE  Due(Each(TRUE, texts), h, t)
  <1>1. PICK i \in DOMAIN texts : /\ Within(h, texts[i]) /\ Within(t, texts[i])
                                  /\ Tokens(texts[i]) <= limit
    BY DEF HasBoth
  <1>2. Tokens(texts[i]) \in Nat /\ Ceiling \in Int
    <2>1. texts[i] \in Seq(Word)
      BY DEF Texts
    <2> QED
      BY <2>1, TokensAdd, ChunkerAssumption
  <1>3. /\ DOMAIN Each(TRUE, texts) = DOMAIN texts
        /\ Each(TRUE, texts)[i] = [alone |-> TRUE, text |-> texts[i]]
    BY DEF Each
  <1>4. Each(TRUE, texts)[i].alone /\ Each(TRUE, texts)[i].text = texts[i]
    <2>1. ASSUME NEW r, NEW x, r = [alone |-> TRUE, text |-> x] PROVE r.alone /\ r.text = x
      BY <2>1
    <2> QED
      BY <1>3, <2>1
  <1>5. Tokens(texts[i]) <= Ceiling
    BY <1>1, <1>2
  <1> QED
    BY <1>1, <1>3, <1>4, <1>5 DEF Due

(* What a block calls for is in the plan made for it. *)
LEMMA OwedPlanned ==
    ASSUME NEW b \in Parsed, NEW h, NEW t, Owed(b, h, t)
    PROVE  Due(Plan(b), h, t)
  <1>1. /\ b \in Block /\ b.text \in Seq(Word) /\ Tokens(b.text) \in Nat
        /\ Target \in Int /\ Ceiling \in Int
    <2>1. b \in Block /\ b.text \in Seq(Word)
      BY DEF Parsed, Block
    <2> QED
      BY <2>1, TokensAdd, ChunkerAssumption
  <1>2. CASE RowOwed(b, h, t)
    <2>1. HasHeader(b) /\ Tokens(b.text) > Target /\ h = b.header /\ Target <= Ceiling
      BY <1>2 DEF RowOwed
    <2>2. Plan(b) = Each(TRUE, table_parts(b, Target))
      BY <2>1 DEF Plan
    <2>3. HasBoth(table_parts(b, Target), Target, h, t)
      BY <1>1, <1>2, RowWithHeader DEF RowOwed
    <2>4. table_parts(b, Target) \in Texts
      BY <1>1, TablePartsTyped
    <2> QED
      BY <1>1, <2>1, <2>2, <2>3, <2>4, EachDue
  <1>3. CASE WordOwed(b, h, t)
    <2>1. HasHeader(b) /\ Tokens(b.text) > Target /\ h = b.header /\ Target <= Ceiling
      BY <1>3 DEF WordOwed
    <2>2. Plan(b) = Each(TRUE, table_parts(b, Target))
      BY <2>1 DEF Plan
    <2>3. HasBoth(table_parts(b, Target), Ceiling, h, t)
      BY <1>1, <1>3, WordWithHeader DEF WordOwed
    <2>4. table_parts(b, Target) \in Texts /\ Ceiling <= Ceiling
      BY <1>1, TablePartsTyped
    <2> QED
      BY <1>1, <2>1, <2>2, <2>3, <2>4, EachDue
  <1>4. CASE StepOwed(b, h, t)
    <2>1. /\ b.atomic /\ Tokens(b.text) > Ceiling /\ h = t
          /\ t \in ToSet(split_steps(b.text)) /\ Tokens(t) < Ceiling - Tokens(CONTINUED)
      BY <1>4 DEF StepOwed
    <2>2. ~HasHeader(b)
      BY <2>1 DEF Parsed, HasHeader
    <2>3. Plan(b) = Each(TRUE, procedure_parts(b.text, Ceiling))
      BY <2>1, <2>2 DEF Plan
    <2>4. HasBoth(procedure_parts(b.text, Ceiling), Ceiling, h, t)
      BY <1>1, <2>1, StepInPart
    <2>5. procedure_parts(b.text, Ceiling) \in Texts
      BY <1>1, ProcedurePartsTyped
    <2>6. Ceiling <= Ceiling
      BY <1>1
    <2> QED
      BY <1>1, <2>3, <2>4, <2>5, <2>6, EachDue
  <1> QED
    BY <1>2, <1>3, <1>4 DEF Owed

(* Every block still to be looked at, every part still to be emitted, or   *)
(* some draft: each pair of texts a block calls for is there.              *)
OwedInv ==
    ~IsDeck(document) =>
        \A b \in ToSet(Grouped) : \A h, t \in Seq(Word) :
            Owed(b, h, t) => InOne(drafts, h, t) \/ Due(todo, h, t) \/ b \in ToSet(blocks)

(* More drafts hold as much. *)
LEMMA MoreInOne ==
    ASSUME NEW a \in Texts, NEW b \in Texts, NEW h, NEW t, InOne(a, h, t) \/ InOne(b, h, t)
    PROVE  InOne(a \o b, h, t)
  <1>1. a \in Seq(Seq(Word)) /\ b \in Seq(Seq(Word))
    BY DEF Texts
  <1>2. \A i \in DOMAIN a : i \in DOMAIN (a \o b) /\ (a \o b)[i] = a[i]
    BY <1>1
  <1>3. \A i \in DOMAIN b : Len(a) + i \in DOMAIN (a \o b) /\ (a \o b)[Len(a) + i] = b[i]
    BY <1>1
  <1> QED
    BY <1>2, <1>3 DEF InOne

(* Flushing takes no draft away. *)
LEMMA FlushedInOne ==
    ASSUME ChunkInv, NEW h, NEW t, InOne(drafts, h, t)
    PROVE  InOne(Flushed(buffer), h, t)
  <1>1. CASE buffer = <<>>
    BY <1>1 DEF Flushed
  <1>2. CASE buffer # <<>>
    <2>1. drafts \in Texts /\ Joined(buffer) \in Seq(Word)
      BY JoinedTyped DEF ChunkInv
    <2>2. Pieces(Joined(buffer)) \in Texts
      BY <2>1, PiecesFit
    <2> QED
      BY <1>2, <2>1, <2>2, MoreInOne DEF Flushed
  <1> QED
    BY <1>1, <1>2

(* A text within the ceiling, emitted, is a draft with all that is in it. *)
LEMMA EmittedInOne ==
    ASSUME NEW d \in Seq(Word), Tokens(d) <= Ceiling, NEW h \in Seq(Word), NEW t \in Seq(Word),
           Within(h, d), Within(t, d)
    PROVE  InOne(Pieces(Joined(<<d>>)), h, t)
  <1> DEFINE e == Joined(<<d>>)
  <1>1. e \in Seq(Word) /\ Ids(e) = Ids(d) /\ Tokens(e) = Tokens(d)
    BY JoinedOne
  <1> HIDE DEF e
  <1>2. Pieces(e) = <<e>>
    BY <1>1 DEF Pieces
  <1>3. Holds(e, h) /\ Holds(e, t)
    BY <1>1, HoldsStretch
  <1>4. ASSUME NEW p, p = <<e>> PROVE 1 \in DOMAIN p /\ p[1] = e
    BY <1>4
  <1>5. InOne(Pieces(e), h, t)
    BY <1>2, <1>3, <1>4 DEF InOne
  <1> QED
    BY <1>5 DEF e

(* Blocks and parts in line: the first is done with, the others remain. *)
LEMMA HeadOrLater ==
    ASSUME NEW S, NEW s \in Seq(S), s # <<>>
    PROVE  /\ Head(s) \in S
           /\ \A m \in DOMAIN s : s[m] = Head(s) \/ \E k \in DOMAIN Tail(s) : Tail(s)[k] = s[m]
  <1>1. Head(s) \in S /\ Head(s) = s[1] /\ Len(s) \in Nat /\ DOMAIN s = 1..Len(s)
    OBVIOUS
  <1>2. DOMAIN Tail(s) = 1..(Len(s) - 1) /\ \A k \in 1..(Len(s) - 1) : Tail(s)[k] = s[k + 1]
    OBVIOUS
  <1>3. ASSUME NEW m \in DOMAIN s, m # 1 PROVE \E k \in DOMAIN Tail(s) : Tail(s)[k] = s[m]
    <2>1. m - 1 \in 1..(Len(s) - 1) /\ m - 1 + 1 = m
      BY <1>1, <1>3
    <2>2. Tail(s)[m - 1] = s[m - 1 + 1]
      BY <1>2, <2>1
    <2> QED
      BY <1>2, <2>1, <2>2
  <1> QED
    BY <1>1, <1>3

(* The blocks after grouping, all of them parsed. *)
LEMMA GroupedParsed ==
    ASSUME ChunkInv
    PROVE  Grouped \in Seq(Parsed) /\ \A b \in ToSet(Grouped) : b \in Parsed
  <1>1. Grouped \in Seq(Parsed)
    BY GroupedTyped DEF ChunkInv, Grouped
  <1> QED
    BY <1>1 DEF ToSet

(* NextBlock makes the plan of the block it takes away. *)
LEMMA NextBlockOwes == ChunkInv /\ OwedInv /\ NextBlock => OwedInv'
  <1> SUFFICES ASSUME ChunkInv, OwedInv, NextBlock PROVE OwedInv'
    OBVIOUS
  <1>1. /\ document' = document /\ drafts' = drafts /\ ~IsDeck(document)
        /\ blocks # <<>> /\ todo = <<>>
        /\ todo' = Plan(Head(blocks)) /\ blocks' = Tail(blocks)
    BY DEF NextBlock
  <1>2. Grouped' = Grouped
    BY <1>1 DEF Grouped
  <1>3. SUFFICES ASSUME NEW b \in ToSet(Grouped), NEW h \in Seq(Word), NEW t \in Seq(Word),
                        Owed(b, h, t)
                 PROVE  InOne(drafts, h, t) \/ Due(todo', h, t) \/ b \in ToSet(blocks')
    BY <1>1, <1>2, Zenon DEF OwedInv
  <1>4. InOne(drafts, h, t) \/ Due(todo, h, t) \/ b \in ToSet(blocks)
    BY <1>1, <1>3 DEF OwedInv
  <1>5. ~Due(todo, h, t)
    <2>1. \A e : e \notin DOMAIN todo
      BY <1>1
    <2> QED
      BY <2>1 DEF Due
  <1>6. ASSUME b \in ToSet(blocks) PROVE b = Head(blocks) \/ b \in ToSet(blocks')
    <2>1. PICK m \in DOMAIN blocks : blocks[m] = b
      BY <1>6 DEF ToSet
    <2>2. blocks \in Seq(Parsed)
      BY DEF ChunkInv
    <2>3. b = Head(blocks) \/ \E k \in DOMAIN Tail(blocks) : Tail(blocks)[k] = b
      BY <1>1, <2>1, <2>2, HeadOrLater
    <2> QED
      BY <1>1, <2>3 DEF ToSet
  <1>7. ASSUME b = Head(blocks) PROVE Due(todo', h, t)
    <2>1. b \in Parsed
      BY GroupedParsed
    <2> QED
      BY <1>1, <1>3, <1>7, <2>1, OwedPlanned
  <1> QED
    BY <1>4, <1>5, <1>6, <1>7

(* Add takes no part that is a chunk of its own. *)
LEMMA AddOwes == ChunkInv /\ OwedInv /\ Add => OwedInv'
  <1> SUFFICES ASSUME ChunkInv, OwedInv, Add PROVE OwedInv'
    OBVIOUS
  <1>1. /\ document' = document /\ blocks' = blocks
        /\ todo # <<>> /\ ~Head(todo).alone /\ todo' = Tail(todo)
    BY DEF Add
  <1>2. drafts' = drafts \/ drafts' = Flushed(buffer)
    BY DEF Add
  <1>3. Grouped' = Grouped
    BY <1>1 DEF Grouped
  <1>4. SUFFICES ASSUME ~IsDeck(document),
                        NEW b \in ToSet(Grouped), NEW h \in Seq(Word), NEW t \in Seq(Word),
                        Owed(b, h, t)
                 PROVE  InOne(drafts', h, t) \/ Due(todo', h, t) \/ b \in ToSet(blocks)
    BY <1>1, <1>3, Zenon DEF OwedInv
  <1>5. InOne(drafts, h, t) \/ Due(todo, h, t) \/ b \in ToSet(blocks)
    BY <1>4 DEF OwedInv
  <1>6. InOne(drafts, h, t) => InOne(drafts', h, t)
    BY <1>2, FlushedInOne
  <1>7. ASSUME Due(todo, h, t) PROVE Due(todo', h, t)
    <2>1. PICK m \in DOMAIN todo : /\ todo[m].alone
                                   /\ Within(h, todo[m].text) /\ Within(t, todo[m].text)
                                   /\ Tokens(todo[m].text) <= Ceiling
      BY <1>7 DEF Due
    <2>2. todo \in Seq(Part)
      BY DEF ChunkInv
    <2>3. todo[m] = Head(todo) \/ \E k \in DOMAIN Tail(todo) : Tail(todo)[k] = todo[m]
      BY <1>1, <2>2, HeadOrLater
    <2>4. todo[m] # Head(todo)
      BY <1>1, <2>1
    <2> QED
      BY <1>1, <2>1, <2>3, <2>4 DEF Due
  <1> QED
    BY <1>5, <1>6, <1>7

(* EmitStandalone makes its part a draft. *)
LEMMA EmitOwes == ChunkInv /\ OwedInv /\ EmitStandalone => OwedInv'
  <1> SUFFICES ASSUME ChunkInv, OwedInv, EmitStandalone PROVE OwedInv'
    OBVIOUS
  <1> DEFINE d == Head(todo).text
             pieces == Pieces(Joined(<<d>>))
  <1>1. /\ document' = document /\ blocks' = blocks
        /\ todo # <<>> /\ todo' = Tail(todo)
        /\ drafts' = Flushed(buffer) \o pieces
    BY DEF EmitStandalone
  <1>2. d \in Seq(Word)
    BY <1>1, HeadOfTodo
  <1> HIDE DEF d
  <1>3. pieces \in Texts
    BY <1>2, JoinedOne, PiecesFit
  <1>4. Flushed(buffer) \in Texts
    BY FlushedFits
  <1>5. Grouped' = Grouped
    BY <1>1 DEF Grouped
  <1>6. SUFFICES ASSUME ~IsDeck(document),
                        NEW b \in ToSet(Grouped), NEW h \in Seq(Word), NEW t \in Seq(Word),
                        Owed(b, h, t)
                 PROVE  InOne(drafts', h, t) \/ Due(todo', h, t) \/ b \in ToSet(blocks)
    BY <1>1, <1>5, Zenon DEF OwedInv
  <1>7. InOne(drafts, h, t) \/ Due(todo, h, t) \/ b \in ToSet(blocks)
    BY <1>6 DEF OwedInv
  <1>8. InOne(drafts, h, t) => InOne(drafts', h, t)
    <2> HIDE DEF pieces
    <2> QED
      BY <1>1, <1>3, <1>4, FlushedInOne, MoreInOne
  <1>9. ASSUME Due(todo, h, t) PROVE InOne(drafts', h, t) \/ Due(todo', h, t)
    <2>1. PICK m \in DOMAIN todo : /\ todo[m].alone
                                   /\ Within(h, todo[m].text) /\ Within(t, todo[m].text)
                                   /\ Tokens(todo[m].text) <= Ceiling
      BY <1>9 DEF Due
    <2>2. todo \in Seq(Part)
      BY DEF ChunkInv
    <2>3. todo[m] = Head(todo) \/ \E k \in DOMAIN Tail(todo) : Tail(todo)[k] = todo[m]
      BY <1>1, <2>2, HeadOrLater
    <2>4. CASE todo[m] = Head(todo)
      <3>1. Within(h, d) /\ Within(t, d) /\ Tokens(d) <= Ceiling
        BY <2>1, <2>4 DEF d
      <3>2. InOne(pieces, h, t)
        BY <1>2, <3>1, EmittedInOne
      <3> HIDE DEF pieces
      <3> QED
        BY <1>1, <1>3, <1>4, <3>2, MoreInOne
    <2>5. CASE \E k \in DOMAIN Tail(todo) : Tail(todo)[k] = todo[m]
      BY <1>1, <2>1, <2>5 DEF Due
    <2> QED
      BY <2>3, <2>4, <2>5
  <1> QED
    BY <1>7, <1>8, <1>9

(* Finish only flushes. *)
LEMMA FinishOwes == ChunkInv /\ OwedInv /\ Finish => OwedInv'
  <1> SUFFICES ASSUME ChunkInv, OwedInv, Finish PROVE OwedInv'
    OBVIOUS
  <1>1. /\ document' = document /\ blocks' = blocks /\ todo' = todo
        /\ drafts' = Flushed(buffer)
    BY DEF Finish
  <1>2. Grouped' = Grouped
    BY <1>1 DEF Grouped
  <1>3. SUFFICES ASSUME ~IsDeck(document),
                        NEW b \in ToSet(Grouped), NEW h \in Seq(Word), NEW t \in Seq(Word),
                        Owed(b, h, t)
                 PROVE  InOne(drafts', h, t) \/ Due(todo, h, t) \/ b \in ToSet(blocks)
    BY <1>1, <1>2, Zenon DEF OwedInv
  <1>4. InOne(drafts, h, t) \/ Due(todo, h, t) \/ b \in ToSet(blocks)
    BY <1>3 DEF OwedInv
  <1>5. InOne(drafts, h, t) => InOne(drafts', h, t)
    BY <1>1, FlushedInOne
  <1> QED
    BY <1>4, <1>5

UnitsInv == WordsInv /\ OwedInv

(* What blocks call for is there whenever the chunker is looked at. *)
LEMMA UnitsKept == Spec => []UnitsInv
  <1>1. Init => OwedInv
    <2> SUFFICES ASSUME Init, ~IsDeck(document) PROVE OwedInv
      BY DEF OwedInv
    <2>1. blocks = Grouped
      BY DEF Init, Grouped
    <2> QED
      BY <2>1 DEF OwedInv
  <1>2. WordsInv /\ OwedInv /\ [Next]_vars => OwedInv'
    <2> SUFFICES ASSUME WordsInv, OwedInv, [Next]_vars PROVE OwedInv'
      OBVIOUS
    <2>1. ChunkInv
      BY DEF WordsInv
    <2>2. CASE ChunkSlides
      BY <2>2 DEF ChunkSlides, OwedInv
    <2>3. CASE UNCHANGED vars
      <3>1. /\ document' = document /\ drafts' = drafts /\ todo' = todo /\ blocks' = blocks
        BY <2>3 DEF vars
      <3>2. Grouped' = Grouped
        BY <3>1 DEF Grouped
      <3> QED
        BY <3>1, <3>2, Zenon DEF OwedInv
    <2> QED
      BY <2>1, <2>2, <2>3, NextBlockOwes, AddOwes, EmitOwes, FinishOwes DEF Next
  <1> QED
    BY <1>1, <1>2, WordsKept, PTL DEF Spec, UnitsInv

(* Each slide that fits is one chunk of the deck. *)
LEMMA SlideInOne ==
    ASSUME NEW bs \in Seq(Block), NEW b \in ToSet(bs),
           Tokens(SlideText(OnSlide(bs, SlideOf(b)))) <= Ceiling
    PROVE  \E i \in DOMAIN DeckDrafts(bs) :
              DeckDrafts(bs)[i] = SlideText(OnSlide(bs, SlideOf(b)))
  <1> DEFINE slides == [i \in DOMAIN bs |-> SlideOf(bs[i])]
             order == FirstSeen(slides)
             t == SlideText(OnSlide(bs, SlideOf(b)))
             n == Len(Slides(bs))
             parts == [k \in DOMAIN Slides(bs) |-> Pieces(SlideText(Slides(bs)[k]))]
  <1>1. /\ DOMAIN Slides(bs) = 1..n /\ n \in Nat
        /\ \A k \in 1..n : Slides(bs)[k] \in Seq(Block)
    BY SlidesTyped
  <1>2. slides \in Seq(Int)
    <2>1. \A c \in Block : SlideOf(c) \in Int
      BY DEF SlideOf, Block
    <2> QED
      BY <2>1
  <1>3. SlideOf(b) \in ToSet(slides)
    <2>1. PICK i \in DOMAIN bs : b = bs[i]
      BY DEF ToSet
    <2>2. i \in DOMAIN slides /\ slides[i] = SlideOf(b)
      BY <2>1
    <2> HIDE DEF slides
    <2> QED
      BY <2>2 DEF ToSet
  <1>4. Slides(bs) = [k \in DOMAIN order |-> OnSlide(bs, order[k])]
    BY DEF Slides
  <1> HIDE DEF slides
  <1>5. PICK k \in DOMAIN order : order[k] = SlideOf(b)
    <2>1. ToSet(order) = ToSet(slides)
      BY <1>2, SeenAre
    <2> HIDE DEF order
    <2> QED
      BY <1>3, <2>1 DEF ToSet
  <1> HIDE DEF order
  <1>6. k \in 1..n /\ Slides(bs)[k] = OnSlide(bs, SlideOf(b))
    <2>1. k \in DOMAIN Slides(bs) /\ Slides(bs)[k] = OnSlide(bs, order[k])
      BY <1>4
    <2> QED
      BY <1>1, <1>5, <2>1
  <1>7. t \in Seq(Word)
    BY <1>1, <1>6, SlideTextTyped
  <1>8. parts \in [1..n -> Texts]
    <2>1. \A m \in 1..n : Pieces(SlideText(Slides(bs)[m])) \in Texts
      BY <1>1, SlideTextTyped, PiecesFit
    <2> QED
      BY <1>1, <2>1
  <1>9. parts[k] = <<t>>
    <2>1. parts[k] = Pieces(t)
      BY <1>1, <1>6
    <2> QED
      BY <2>1 DEF Pieces
  <1>10. DeckDrafts(bs) = FlattenSeq(parts)
    BY DEF DeckDrafts
  <1> HIDE DEF parts, n, t
  <1>11. \E i \in DOMAIN FlattenSeq(parts) : FlattenSeq(parts)[i] = t
    BY <1>1, <1>6, <1>7, <1>8, <1>9, TakenAsItIs
  <1> QED
    BY <1>10, <1>11, Zenon DEF t

(* Whatever the document and the numbers: each slide that fits the ceiling *)
(* is one chunk, whose words are those of its blocks in order; and of a    *)
(* procedure above the ceiling every step that fits under the "(procedure  *)
(* continued)" line is whole in one chunk, whichever chunks its parts are  *)
(* packed into (_chunk_slides, procedure_parts, pack, emit_standalone).    *)
THEOREM WhatFitsStaysWhole == Spec => []UnitsAreWhole
  <1>1. UnitsInv => UnitsAreWhole
    <2> SUFFICES ASSUME UnitsInv, Done PROVE UnitsAreWhole
      BY DEF UnitsAreWhole
    <2>1. ChunkInv /\ ReadInv /\ DeckInv /\ OwedInv
      BY DEF UnitsInv, WordsInv
    <2>2. ASSUME IsDeck(document), NEW b \in ToSet(document),
                 Tokens(SlideText(OnSlide(document, SlideOf(b)))) <= Ceiling
          PROVE  \E i \in DOMAIN drafts :
                    Ids(drafts[i]) = Ids(SlideText(OnSlide(document, SlideOf(b))))
      <3>1. drafts = DeckDrafts(document)
        BY <2>1, <2>2 DEF DeckInv, Done
      <3>2. document \in Seq(Block)
        BY <2>1, Left
      <3>3. PICK i \in DOMAIN DeckDrafts(document) :
                DeckDrafts(document)[i] = SlideText(OnSlide(document, SlideOf(b)))
        BY <2>2, <3>2, SlideInOne
      <3> QED
        BY <3>1, <3>3, Zenon
    <2>3. ASSUME ~IsDeck(document), NEW g \in ToSet(Grouped), g.atomic, Tokens(g.text) > Ceiling,
                 NEW s \in ToSet(split_steps(g.text)), Tokens(s) < Ceiling - Tokens(CONTINUED)
          PROVE  InOneDraft(s)
      <3>1. s \in Seq(Word)
        <4>1. g \in Parsed
          BY <2>1, GroupedParsed
        <4>2. g.text \in Seq(Word)
          BY <4>1 DEF Parsed, Block
        <4>3. split_steps(g.text) \in Seq(Seq(Word))
          BY <4>2, CutTyped DEF Texts
        <4> QED
          BY <4>3 DEF ToSet
      <3>2. Owed(g, s, s)
        BY <2>3, Zenon DEF Owed, StepOwed
      <3>3. todo = <<>> /\ blocks = <<>>
        BY <2>1, <2>3 DEF ReadInv, Done
      <3>4. ~Due(todo, s, s) /\ g \notin ToSet(blocks)
        <4>1. \A e : e \notin DOMAIN <<>>
          OBVIOUS
        <4> QED
          BY <3>3, <4>1 DEF Due, ToSet
      <3>5. InOne(drafts, s, s)
        BY <2>1, <2>3, <3>1, <3>2, <3>4, Zenon DEF OwedInv
      <3> QED
        BY <3>5 DEF InOne, InOneDraft
    <2> QED
      BY <2>2, <2>3, Zenon DEF UnitsAreWhole
  <1> QED
    BY UnitsKept, <1>1, PTL

(* What a table calls for is in one draft when the chunker is done. *)
LEMMA TableServed ==
    ASSUME UnitsInv, Done, ~IsDeck(document), NEW b \in ToSet(Grouped),
           NEW t \in Seq(Word), Owed(b, b.header, t)
    PROVE  InOne(drafts, b.header, t)
  <1> DEFINE h == b.header
  <1>1. ChunkInv /\ ReadInv /\ OwedInv
    BY DEF UnitsInv, WordsInv
  <1>2. h \in Seq(Word)
    <2>1. b \in Parsed
      BY <1>1, GroupedParsed
    <2> QED
      BY <2>1 DEF Parsed, Block
  <1>3. todo = <<>> /\ blocks = <<>>
    BY <1>1 DEF ReadInv, Done
  <1>4. ~Due(todo, h, t) /\ b \notin ToSet(blocks)
    <2>1. \A e : e \notin DOMAIN <<>>
      OBVIOUS
    <2> HIDE DEF h
    <2> QED
      BY <1>3, <2>1 DEF Due, ToSet
  <1> QED
    BY <1>1, <1>2, <1>4, Zenon DEF OwedInv

(* Its rows and its words are texts. *)
LEMMA BodyTyped ==
    ASSUME NEW b \in Parsed
    PROVE  /\ \A k \in DOMAIN Rows(b) : Rows(b)[k] \in Seq(Word)
           /\ \A k \in DOMAIN Body(b) : <<Body(b)[k]>> \in Seq(Word)
  <1>1. Body(b) \in Seq(Word)
    <2>1. b.header \in Seq(Word) /\ b.text \in Seq(Word) /\ IsPrefix(b.header, b.text)
      BY DEF Parsed, Block
    <2> QED
      BY <2>1, PrefixAndRest DEF Body
  <1>2. Rows(b) \in Seq(Seq(Word))
    BY <1>1, CutTyped DEF Rows, Texts
  <1>3. \A k \in DOMAIN Body(b) : Body(b)[k] \in Word
    BY <1>1
  <1> QED
    BY <1>2, <1>3

(* Whatever the document, when the target is no larger than the ceiling,   *)
(* as the settings have it (500 of 8192): of a table above the target that *)
(* stays a block of its own, that is, was not merged into a procedure,     *)
(* each row that fits under the header within the target, and each word    *)
(* that fits under it within the ceiling, is in one chunk with it,         *)
(* in whichever part of the table it is packed, and also where the header  *)
(* leaves rows no room (table_parts, pack, emit_standalone).               *)
THEOREM RowsKeepTheirHeader ==
    ASSUME Target <= Ceiling
    PROVE  Spec => []RowsHaveTheirHeader
  <1>1. UnitsInv => RowsHaveTheirHeader
    <2> SUFFICES ASSUME UnitsInv, Done, ~IsDeck(document),
                        NEW b \in ToSet(document) \cap ToSet(Grouped),
                        HasHeader(b), Tokens(b.text) > Target
                 PROVE  /\ \A k \in DOMAIN Rows(b) :
                             UnderHeader(b, Rows(b)[k], Target) => InOne(drafts, b.header, Rows(b)[k])
                        /\ \A k \in DOMAIN Body(b) :
                             UnderHeader(b, <<Body(b)[k]>>, Ceiling) =>
                                 InOne(drafts, b.header, <<Body(b)[k]>>)
      BY Zenon DEF RowsHaveTheirHeader, Rows, Body, UnderHeader, InOne
    <2>1. b \in Parsed
      BY GroupedParsed DEF UnitsInv, WordsInv
    <2>2. ASSUME NEW k \in DOMAIN Rows(b), UnderHeader(b, Rows(b)[k], Target)
          PROVE  InOne(drafts, b.header, Rows(b)[k])
      <3>1. Rows(b)[k] \in Seq(Word)
        BY <2>1, BodyTyped
      <3>2. Owed(b, b.header, Rows(b)[k])
        BY <2>2, Zenon DEF Owed, RowOwed
      <3> QED
        BY <3>1, <3>2, TableServed
    <2>3. ASSUME NEW k \in DOMAIN Body(b), UnderHeader(b, <<Body(b)[k]>>, Ceiling)
          PROVE  InOne(drafts, b.header, <<Body(b)[k]>>)
      <3>1. <<Body(b)[k]>> \in Seq(Word)
        BY <2>1, BodyTyped
      <3>2. Owed(b, b.header, <<Body(b)[k]>>)
        BY <2>3, Zenon DEF Owed, WordOwed
      <3> QED
        BY <3>1, <3>2, TableServed
    <2> QED
      BY <2>2, <2>3
  <1> QED
    BY UnitsKept, <1>1, PTL

-----------------------------------------------------------------------------
(* Procedures. *)

(* Going down, as InductTo goes up. *)
LEMMA DownTo ==
    ASSUME NEW n \in Nat, NEW T, n + 1 \in T,
           \A i \in 1..n : (i + 1)..(n + 1) \subseteq T => i \in T
    PROVE  \A i \in 1..(n + 1) : i \in T
  <1> DEFINE S == {k \in 0..n : (n + 1 - k)..(n + 1) \subseteq T}
  <1>1. 0 \in S
    OBVIOUS
  <1>2. ASSUME NEW k \in 1..n, k - 1 \in S PROVE k \in S
    <2>1. n + 1 - k \in 1..n /\ (n + 1 - k) + 1 = n + 1 - (k - 1)
      OBVIOUS
    <2>2. (n + 1 - (k - 1))..(n + 1) \subseteq T
      BY <1>2
    <2>3. n + 1 - k \in T
      BY <2>1, <2>2
    <2>4. ASSUME NEW i \in (n + 1 - k)..(n + 1) PROVE i \in T
      <3>1. i = n + 1 - k \/ i \in (n + 1 - (k - 1))..(n + 1)
        OBVIOUS
      <3> QED
        BY <2>2, <2>3, <3>1
    <2> QED
      BY <2>4
  <1>3. n \in S
    <2> HIDE DEF S
    <2> QED
      BY <1>1, <1>2, InductTo, n \in 0..n
  <1> QED
    BY <1>3

(* Nothing is below the smallest of some numbers. *)
LEMMA MinLeast ==
    ASSUME NEW s \in SUBSET Nat, s # {}
    PROVE  \A y \in s : Min(s) <= y
  <1>1. \E x \in s : \A y \in s : x <= y
    BY Least
  <1> QED
    BY <1>1 DEF Min

(* The number of a step is a number. *)
LEMMA StepTyped ==
    ASSUME NEW b \in Block
    PROVE  step_number(b.text) \in Int /\ step_number(b.text) \in Nat \cup {NoStep}
  <1>1. b.text \in Seq(Word)
    BY DEF Block
  <1>2. b.text # <<>> => b.text[1] \in Word
    BY <1>1
  <1>3. \A w \in Word : w.step \in Nat \cup {NoStep}
    BY DEF Word
  <1>4. step_number(b.text) \in Nat \cup {NoStep}
    BY <1>2, <1>3 DEF step_number
  <1> QED
    BY <1>4 DEF NoStep

(* The number of block k, and the last step of a run from i before c. *)
Num(bs, k) == step_number(bs[k].text)

LastStep(bs, i, c) == Max({k \in i..(c - 1) : Numbered(bs[k])})

(* A step continues a run exactly if it climbs above the last one. *)
LEMMA StepContinues ==
    ASSUME NEW bs, NEW i, NEW c, Numbered(bs[c])
    PROVE  Continues(bs, i, c) <=> Num(bs, c) > Num(bs, LastStep(bs, i, c))
  BY DEF Continues, Numbered, Num, LastStep, Climbs

(* The last step is one, and none is between it and c. *)
LEMMA LastStepIs ==
    ASSUME NEW bs \in Seq(Block), NEW i \in 1..Len(bs), Numbered(bs[i]), NEW c \in Nat,
           i < c, c <= Len(bs)
    PROVE  /\ LastStep(bs, i, c) \in i..(c - 1) /\ Numbered(bs[LastStep(bs, i, c)])
           /\ \A a \in i..(c - 1) : Numbered(bs[a]) => a <= LastStep(bs, i, c)
  <1> DEFINE s == {k \in i..(c - 1) : Numbered(bs[k])}
             n == Len(bs)
  <1>1. n \in Nat /\ s \in SUBSET (1..n) /\ i \in s
    OBVIOUS
  <1>2. LastStep(bs, i, c) = Max(s)
    BY DEF LastStep
  <1>3. \A a \in i..(c - 1) : Numbered(bs[a]) => a \in s
    OBVIOUS
  <1>4. s \subseteq i..(c - 1) /\ \A a \in s : Numbered(bs[a])
    OBVIOUS
  <1> HIDE DEF s, n
  <1>5. Max(s) \in s /\ \A y \in s : Max(s) >= y
    BY <1>1, MaxUpTo
  <1> QED
    BY <1>2, <1>3, <1>4, <1>5

(* A run is what continues it, up to a block that does not. *)
LEMMA RunIs ==
    ASSUME NEW bs \in Seq(Block), NEW i \in 1..Len(bs)
    PROVE  /\ \A c \in (i + 1)..(RunEnd(bs, i) - 1) : Continues(bs, i, c)
           /\ RunEnd(bs, i) <= Len(bs) => ~Continues(bs, i, RunEnd(bs, i))
  <1> DEFINE n == Len(bs)
             e == RunEnd(bs, i)
             ends == {c \in (i + 1)..(n + 1) : c = n + 1 \/ ~Continues(bs, i, c)}
  <1>1. n \in Nat /\ i \in 1..n
    OBVIOUS
  <1>2. e = Min(ends)
    BY DEF RunEnd
  <1>3. e \in (i + 1)..(n + 1)
    BY RunEndIs
  <1> HIDE DEF n
  <1>4. n + 1 \in (i + 1)..(n + 1) /\ (i + 1)..(n + 1) \in SUBSET Nat
    BY <1>1
  <1>5. ends \in SUBSET Nat /\ ends # {}
    BY <1>4
  <1> HIDE DEF e
  <1>6. e \in ends /\ \A y \in ends : e <= y
    <2> HIDE DEF ends
    <2> QED
      BY <1>2, <1>5, MinOf, MinLeast
  <1>7. ASSUME NEW c \in (i + 1)..(e - 1) PROVE Continues(bs, i, c)
    <2>1. c \in (i + 1)..(n + 1) /\ c < e
      BY <1>1, <1>3
    <2>2. c \notin ends
      <3> HIDE DEF ends
      <3> QED
        BY <1>1, <1>3, <1>6, <2>1
    <2> QED
      BY <2>1, <2>2
  <1>8. e <= n => ~Continues(bs, i, e)
    <2>1. e = n + 1 \/ ~Continues(bs, i, e)
      BY <1>6
    <2> QED
      BY <1>1, <1>3, <2>1
  <1> QED
    BY <1>7, <1>8 DEF e, n

(* The numbers of blocks i to j ascend. *)
Ascend(bs, i, j) ==
    \A a, c \in i..j : a < c /\ Numbered(bs[a]) /\ Numbered(bs[c]) => Num(bs, a) < Num(bs, c)

(* In a run they do. *)
LEMMA RunAscends ==
    ASSUME NEW bs \in Seq(Block), NEW i \in 1..Len(bs), Numbered(bs[i])
    PROVE  Ascend(bs, i, RunEnd(bs, i) - 1)
  <1> DEFINE n == Len(bs)
             e == RunEnd(bs, i)
             m == e - 1 - i
             Above(c) == \A a \in i..(c - 1) :
                            Numbered(bs[a]) /\ Numbered(bs[c]) => Num(bs, a) < Num(bs, c)
             S == {k \in 0..m : \A c \in i..(i + k) : Above(c)}
  <1>1. n \in Nat /\ i \in 1..n /\ e \in (i + 1)..(n + 1)
    BY RunEndIs
  <1>2. \A c \in (i + 1)..(e - 1) : Continues(bs, i, c)
    BY RunIs
  <1>3. \A k \in 1..n : Num(bs, k) \in Int
    BY StepTyped DEF Num
  <1> HIDE DEF e
  <1>4. m \in Nat /\ i + m = e - 1
    BY <1>1
  <1>5. Above(i)
    BY <1>1
  <1>6. ASSUME NEW c \in (i + 1)..(e - 1), \A d \in i..(c - 1) : Above(d) PROVE Above(c)
    <2> SUFFICES ASSUME NEW a \in i..(c - 1), Numbered(bs[a]), Numbered(bs[c])
                 PROVE  Num(bs, a) < Num(bs, c)
      OBVIOUS
    <2> DEFINE l == LastStep(bs, i, c)
    <2>1. c \in 1..n /\ i < c /\ c \in Nat /\ c <= n
      BY <1>1
    <2>2. l \in i..(c - 1) /\ Numbered(bs[l]) /\ a <= l
      BY <2>1, LastStepIs DEF n
    <2>3. Num(bs, c) > Num(bs, l)
      BY <1>2, StepContinues
    <2> HIDE DEF l, n
    <2>4. a = l \/ (a \in i..(l - 1) /\ l \in i..(c - 1))
      BY <1>1, <2>1, <2>2
    <2>5. a # l => Num(bs, a) < Num(bs, l)
      BY <1>6, <2>2, <2>4
    <2>6. a \in 1..n /\ l \in 1..n
      BY <1>1, <2>1, <2>2
    <2>7. Num(bs, a) \in Int /\ Num(bs, l) \in Int /\ Num(bs, c) \in Int
      BY <1>3, <2>1, <2>6
    <2> QED
      BY <2>3, <2>5, <2>7
  <1> HIDE DEF Above, n
  <1>7. 0 \in S
    <2>1. \A c \in i..(i + 0) : c = i
      BY <1>1
    <2> QED
      BY <1>4, <1>5, <2>1
  <1>8. ASSUME NEW k \in 1..m, k - 1 \in S PROVE k \in S
    <2>1. \A c \in i..(i + (k - 1)) : Above(c)
      BY <1>8
    <2>2. /\ i + k \in (i + 1)..(e - 1) /\ i + (k - 1) = (i + k) - 1
          /\ \A c \in i..(i + k) : c = i + k \/ c \in i..(i + (k - 1))
      BY <1>1, <1>4
    <2>3. Above(i + k)
      BY <1>6, <2>1, <2>2
    <2> QED
      BY <1>4, <2>1, <2>2, <2>3
  <1>9. m \in S
    <2> HIDE DEF S, m
    <2> QED
      BY <1>4, <1>7, <1>8, InductTo, m \in 0..m
  <1>10. \A c \in i..(e - 1) : Above(c)
    BY <1>4, <1>9
  <1>11. ASSUME NEW a \in i..(e - 1), NEW c \in i..(e - 1), a < c,
                Numbered(bs[a]), Numbered(bs[c])
         PROVE  Num(bs, a) < Num(bs, c)
    <2>1. a \in i..(c - 1) /\ Above(c)
      BY <1>1, <1>10, <1>11
    <2> QED
      BY <1>11, <2>1 DEF Above
  <1> QED
    BY <1>11 DEF Ascend, e

(* What grouping makes of the blocks from place i to the next place. *)
BlockAt(bs) ==
    [i \in 1..Len(bs) |->
        IF IsProcedure(bs, i) THEN Merged(bs, i, RunEnd(bs, i) - 1) ELSE bs[i]]

(* It is one block with the text of them all. *)
LEMMA BlockAtIs ==
    ASSUME NEW bs \in Seq(Parsed), NEW i \in 1..Len(bs)
    PROVE  /\ NextPlace(bs)[i] \in (i + 1)..(Len(bs) + 1)
           /\ PartAt(bs)[i] = <<BlockAt(bs)[i]>>
           /\ BlockAt(bs)[i] \in Parsed
           /\ BlockAt(bs)[i].text = Text(SubSeq(bs, i, NextPlace(bs)[i] - 1))
  <1>1. bs \in Seq(Block) /\ bs[i] \in Block /\ bs[i] \in Parsed
    BY ParsedAreBlocks
  <1>2. NextPlace(bs)[i] \in (i + 1)..(Len(bs) + 1)
    BY <1>1, GroupedIs
  <1>3. RunEnd(bs, i) - 1 \in i..Len(bs)
    <2>1. RunEnd(bs, i) \in (i + 1)..(Len(bs) + 1)
      BY <1>1, RunEndIs
    <2> QED
      BY <2>1
  <1>4. CASE IsProcedure(bs, i)
    <2>1. /\ BlockAt(bs)[i] = Merged(bs, i, RunEnd(bs, i) - 1)
          /\ PartAt(bs)[i] = <<BlockAt(bs)[i]>>
          /\ NextPlace(bs)[i] = RunEnd(bs, i)
      BY <1>4 DEF BlockAt, PartAt, NextPlace
    <2>2. /\ Merged(bs, i, RunEnd(bs, i) - 1) \in Parsed
          /\ Merged(bs, i, RunEnd(bs, i) - 1).text = Text(SubSeq(bs, i, RunEnd(bs, i) - 1))
      BY <1>1, <1>3, MergedTyped, MergedKeeps
    <2> QED
      BY <1>2, <2>1, <2>2
  <1>5. CASE ~IsProcedure(bs, i)
    <2>1. /\ BlockAt(bs)[i] = bs[i]
          /\ PartAt(bs)[i] = <<BlockAt(bs)[i]>>
          /\ NextPlace(bs)[i] = i + 1
      BY <1>5 DEF BlockAt, PartAt, NextPlace
    <2>2. SubSeq(bs, i, (i + 1) - 1) = <<bs[i]>>
      <3>1. (i + 1) - 1 = i
        OBVIOUS
      <3> QED
        BY <3>1, JustOne
    <2>3. Text(<<bs[i]>>) = bs[i].text
      BY <1>1, TextOne, TextOf
    <2> QED
      BY <1>1, <1>2, <2>1, <2>2, <2>3
  <1> QED
    BY <1>4, <1>5

(* A block of the document is in what grouping makes of some place. *)
Places(bs, from, P) ==
    \A k \in from..Len(bs) : \E p \in P : p <= k /\ k < NextPlace(bs)[p]

(* Grouping makes one block of each of some places, and these take in the  *)
(* whole document.                                                         *)
LEMMA GroupedAt ==
    ASSUME NEW bs \in Seq(Parsed)
    PROVE  \E P \in SUBSET (1..Len(bs)) :
              /\ ToSet(group_numbered_procedures(bs)) = {BlockAt(bs)[p] : p \in P}
              /\ Places(bs, 1, P)
  <1> DEFINE n == Len(bs)
             next == NextPlace(bs)
             part == PartAt(bs)
             at == BlockAt(bs)
  <1>1. n \in Nat /\ bs \in Seq(Block)
    BY ParsedAreBlocks
  <1>2. PICK F : IsChain(n, next, part, F) /\ group_numbered_procedures(bs) = F[1]
    BY <1>1, GroupedIs
  <1>3. \A i \in 1..n : next[i] \in (i + 1)..(n + 1) /\ part[i] = <<at[i]>> /\ at[i] \in Parsed
    BY BlockAtIs
  <1>4. \A from, P : Places(bs, from, P) <=>
                       \A k \in from..n : \E p \in P : p <= k /\ k < next[p]
    BY DEF Places
  <1> HIDE DEF n, next, part, at
  <1> DEFINE Good(i) == /\ F[i] \in Seq(Parsed)
                        /\ \E P \in SUBSET (i..n) : /\ ToSet(F[i]) = {at[p] : p \in P}
                                                  /\ Places(bs, i, P)
             T == {i \in 1..(n + 1) : Good(i)}
  <1>5. n + 1 \in T
    <2>1. n + 1 \in 1..(n + 1) /\ n + 1 > n /\ (n + 1)..n = {}
      BY <1>1
    <2>2. F[n + 1] = <<>>
      BY <1>2, <2>1 DEF IsChain
    <2>3. <<>> \in Seq(Parsed) /\ ToSet(<<>>) = {}
      BY DEF ToSet
    <2>4. {} \in SUBSET ((n + 1)..n) /\ {at[p] : p \in {}} = {} /\ Places(bs, n + 1, {})
      BY <1>4, <2>1
    <2> QED
      BY <2>1, <2>2, <2>3, <2>4
  <1>6. ASSUME NEW i \in 1..n, (i + 1)..(n + 1) \subseteq T PROVE i \in T
    <2> DEFINE m == next[i]
    <2>1. m \in (i + 1)..(n + 1) /\ part[i] = <<at[i]>> /\ at[i] \in Parsed
      BY <1>3
    <2>2. i \in 1..(n + 1) /\ ~(i > n)
      BY <1>1
    <2>3. F[i] = <<at[i]>> \o F[m]
      BY <1>2, <2>1, <2>2 DEF IsChain
    <2>4. Good(m)
      BY <1>6, <2>1
    <2>5. PICK P \in SUBSET (m..n) : ToSet(F[m]) = {at[p] : p \in P} /\ Places(bs, m, P)
      BY <2>4
    <2>6. F[m] \in Seq(Parsed) /\ <<at[i]>> \in Seq(Parsed)
      BY <2>1, <2>4
    <2>7. m = next[i]
      OBVIOUS
    <2> HIDE DEF m
    <2> DEFINE Q == {i} \cup P
    <2>8. Q \in SUBSET (i..n)
      BY <1>1, <2>1
    <2>9. ToSet(F[i]) = {at[p] : p \in Q}
      <3>1. ToSet(<<at[i]>> \o F[m]) = ToSet(<<at[i]>>) \cup ToSet(F[m])
        <4>1. ASSUME NEW a \in Seq(Parsed), NEW b \in Seq(Parsed), NEW x \in Parsed
              PROVE  ToSet(a \o b) = ToSet(a) \cup ToSet(b)
          BY ToSetMore
        <4> QED
          BY <2>1, <2>6, <4>1
      <3>2. ToSet(<<at[i]>>) = {at[i]}
        BY DEF ToSet
      <3>3. {at[p] : p \in Q} = {at[i]} \cup {at[p] : p \in P}
        OBVIOUS
      <3> QED
        BY <2>3, <2>5, <3>1, <3>2, <3>3
    <2>10. Places(bs, i, Q)
      <3> SUFFICES ASSUME NEW k \in i..n PROVE \E p \in Q : p <= k /\ k < next[p]
        BY <1>4
      <3>1. CASE k < m
        BY <2>7, <3>1
      <3>2. CASE ~(k < m)
        <4>1. k \in m..n
          BY <1>1, <2>1, <3>2
        <4> QED
          BY <1>4, <2>5, <4>1
      <3> QED
        BY <3>1, <3>2
    <2>11. F[i] \in Seq(Parsed)
      <3>1. \A a, b \in Seq(Parsed) : a \o b \in Seq(Parsed)
        OBVIOUS
      <3> QED
        BY <2>3, <2>6, <3>1
    <2> HIDE DEF Q
    <2>12. Good(i)
      BY <2>8, <2>9, <2>10, <2>11
    <2> HIDE DEF Good
    <2> QED
      BY <2>2, <2>12
  <1>7. \A i \in 1..(n + 1) : i \in T
    <2> HIDE DEF T
    <2> QED
      BY <1>1, <1>5, <1>6, DownTo
  <1>8. Good(1)
    <2>1. 1 \in 1..(n + 1)
      BY <1>1
    <2>2. 1 \in T
      BY <1>7, <2>1, Zenon
    <2> HIDE DEF Good
    <2> QED
      BY <2>2
  <1> QED
    BY <1>2, <1>8 DEF n, at

(* Some of the blocks p to j are a stretch of the text of them all. *)
LEMMA StretchWithin ==
    ASSUME NEW bs \in Seq(Block), NEW p \in 1..Len(bs), NEW j \in p..Len(bs),
           NEW i \in p..j, NEW k \in i..j
    PROVE  /\ Text(SubSeq(bs, i, k)) \in Seq(Word) /\ Text(SubSeq(bs, p, j)) \in Seq(Word)
           /\ Within(Text(SubSeq(bs, i, k)), Text(SubSeq(bs, p, j)))
  <1> DEFINE n == Len(bs)
             a == SubSeq(bs, p, i - 1)
             b == SubSeq(bs, i, k)
             d == SubSeq(bs, k + 1, j)
             bd == b \o d
  <1>1. n \in Nat /\ p \in 1..n /\ j \in 1..n /\ i \in 1..n /\ k \in 1..n /\ p <= i /\ i <= k /\ k <= j
    OBVIOUS
  <1>2. \A u \in 1..(n + 1), v \in 0..n : SubSeq(bs, u, v) \in Seq(Block)
    BY SubSeqProperties
  <1>3. a \in Seq(Block) /\ b \in Seq(Block) /\ d \in Seq(Block)
    <2>1. /\ i - 1 \in 0..n /\ k \in 0..n /\ j \in 0..n
          /\ i \in 1..(n + 1) /\ k + 1 \in 1..(n + 1) /\ p \in 1..(n + 1)
      BY <1>1
    <2> QED
      BY <1>2, <2>1
  <1>4. SubSeq(bs, p, j) = a \o SubSeq(bs, i, j)
    <2>1. /\ p \in 1..(Len(bs) + 1) /\ i - 1 \in (p - 1)..Len(bs) /\ j \in (i - 1)..Len(bs)
          /\ (i - 1) + 1 = i
      BY <1>1
    <2>2. SubSeq(bs, p, i - 1) \o SubSeq(bs, (i - 1) + 1, j) = SubSeq(bs, p, j)
      BY <2>1, ConcatAdjacentSubSeq
    <2> QED
      BY <2>1, <2>2
  <1>5. SubSeq(bs, i, j) = bd
    <2>1. i \in 1..(Len(bs) + 1) /\ k \in (i - 1)..Len(bs) /\ j \in k..Len(bs)
      BY <1>1
    <2> QED
      BY <2>1, ConcatAdjacentSubSeq
  <1>6. SubSeq(bs, p, j) = a \o bd
    BY <1>4, <1>5
  <1>7. bd \in Seq(Block)
    BY <1>3
  <1> HIDE DEF a, b, d
  <1>8. Text(bd) = Text(b) \o Text(d)
    BY <1>3, TextMore, TextOf
  <1> HIDE DEF bd
  <1>9. Text(a \o bd) = Text(a) \o Text(bd)
    BY <1>3, <1>7, TextMore, TextOf
  <1>10. /\ Text(a) \in Seq(Word) /\ Text(b) \in Seq(Word) /\ Text(d) \in Seq(Word)
         /\ Text(SubSeq(bs, p, j)) \in Seq(Word)
    <2>1. SubSeq(bs, p, j) \in Seq(Block)
      BY <1>1, <1>2
    <2> QED
      BY <1>3, <2>1, TextMore, TextOf
  <1>11. Text(SubSeq(bs, p, j)) = Text(a) \o (Text(b) \o Text(d))
    BY <1>6, <1>8, <1>9, Zenon
  <1>12. Within(Text(b), Text(SubSeq(bs, p, j)))
    BY <1>10, <1>11, Zenon DEF Within
  <1> QED
    BY <1>10, <1>12 DEF b

(* Among blocks that can be in a procedure a number makes a step. *)
LEMMA NumberedIn ==
    ASSUME NEW bs, NEW m, bs[m].kind \in Continuable
    PROVE  Numbered(bs[m]) <=> Num(bs, m) # NoStep
  BY DEF Numbered, Num

(* What is a procedure, in terms of Num. *)
LEMMA SequenceIs ==
    ASSUME NEW bs, NEW i, NEW k
    PROVE  IsSequence(bs, i, k) <=>
              /\ i < k
              /\ Num(bs, i) # NoStep /\ Num(bs, i) <= 1 /\ Num(bs, k) # NoStep
              /\ \A m \in i..k : bs[m].kind \in Continuable
              /\ \A m, n \in i..k :
                    m < n /\ Num(bs, m) # NoStep /\ Num(bs, n) # NoStep => Num(bs, m) < Num(bs, n)
              /\ \A m \in i..(k - 1) : Num(bs, m) = NoStep => Num(bs, m + 1) # NoStep
  BY Zenon DEF IsSequence, Num

(* A run that reaches the first step of a procedure takes in all of it. *)
LEMMA RunTakesAll ==
    ASSUME NEW bs \in Seq(Block), NEW p \in 1..Len(bs), Numbered(bs[p]),
           NEW i \in p..Len(bs), NEW k \in 1..Len(bs), IsSequence(bs, i, k), i < RunEnd(bs, p)
    PROVE  k < RunEnd(bs, p)
  <1> DEFINE n == Len(bs)
             e == RunEnd(bs, p)
             l == LastStep(bs, p, e)
  <1>1. /\ n \in Nat /\ p \in 1..n /\ i \in 1..n /\ k \in 1..n /\ p <= i
        /\ e \in (p + 1)..(n + 1) /\ i < e
    BY RunEndIs
  <1>2. /\ i < k /\ Num(bs, i) # NoStep /\ Num(bs, k) # NoStep
        /\ \A m \in i..k : bs[m].kind \in Continuable
        /\ \A m, c \in i..k :
              m < c /\ Num(bs, m) # NoStep /\ Num(bs, c) # NoStep => Num(bs, m) < Num(bs, c)
        /\ \A m \in i..(k - 1) : Num(bs, m) = NoStep => Num(bs, m + 1) # NoStep
    BY SequenceIs
  <1>3. SUFFICES ASSUME e <= k PROVE FALSE
    BY <1>1
  <1>4. ~Continues(bs, p, e)
    BY <1>1, <1>3, RunIs
  <1> HIDE DEF n
  <1>5. e \in 1..n /\ e \in i..k /\ i \in i..k /\ e \in Nat /\ p < e /\ i \in p..(e - 1)
    BY <1>1, <1>3
  <1>6. Numbered(bs[i])
    BY <1>2, <1>5, NumberedIn
  <1>7. /\ l \in p..(e - 1) /\ Numbered(bs[l]) /\ i <= l
    <2> HIDE DEF e
    <2>1. e <= Len(bs)
      BY <1>5 DEF n
    <2> QED
      BY <1>5, <1>6, <2>1, LastStepIs
  <1>8. Continues(bs, p, e) <=>
          /\ bs[e].kind \in Continuable
          /\ \/ Num(bs, e) # NoStep /\ Num(bs, e) > Num(bs, l)
             \/ /\ Num(bs, e) = NoStep /\ e < n
                /\ bs[e + 1].kind \in Continuable /\ Num(bs, e + 1) > Num(bs, l)
    BY DEF Continues, Num, LastStep, Climbs, n, l
  <1> HIDE DEF l
  <1> HIDE DEF e
  <1>9. l \in i..k /\ l < e /\ l \in 1..n
    BY <1>1, <1>5, <1>7
  <1>10. Num(bs, l) # NoStep /\ bs[e].kind \in Continuable
    BY <1>2, <1>5, <1>7 DEF Numbered, Num
  <1>11. \A m \in 1..n : Num(bs, m) \in Int
    BY StepTyped DEF Num, n
  <1>12. CASE Num(bs, e) # NoStep
    <2>1. Num(bs, l) < Num(bs, e)
      BY <1>2, <1>5, <1>9, <1>10, <1>12
    <2>2. Num(bs, e) > Num(bs, l)
      BY <1>5, <1>9, <1>11, <2>1
    <2> QED
      BY <1>4, <1>8, <1>10, <1>12, <2>2
  <1>13. CASE Num(bs, e) = NoStep
    <2>1. e # k
      BY <1>2, <1>13
    <2>2. e \in i..(k - 1) /\ e + 1 \in i..k /\ e + 1 \in 1..n /\ e < n /\ l < e + 1
      BY <1>1, <1>3, <1>5, <1>9, <2>1
    <2>3. Num(bs, e + 1) # NoStep /\ bs[e + 1].kind \in Continuable
      BY <1>2, <1>13, <2>2
    <2>4. Num(bs, l) < Num(bs, e + 1)
      BY <1>2, <1>9, <1>10, <2>2, <2>3
    <2>5. Num(bs, e + 1) > Num(bs, l)
      BY <1>9, <1>11, <2>2, <2>4
    <2> QED
      BY <1>4, <1>8, <1>10, <1>13, <2>2, <2>3, <2>5
  <1> QED
    BY <1>12, <1>13

(* Each procedure is held whole by a block that is merged, *)
LEMMA SequencesMerge ==
    ASSUME NEW bs \in Seq(Parsed), NEW i \in 1..Len(bs), NEW k \in 1..Len(bs),
           IsSequence(bs, i, k)
    PROVE  \E g \in ToSet(group_numbered_procedures(bs)) :
              g.atomic /\ Holds(g.text, Text(SubSeq(bs, i, k)))
  <1> DEFINE n == Len(bs)
  <1>1. bs \in Seq(Block) /\ n \in Nat /\ i \in 1..n /\ k \in 1..n
    BY ParsedAreBlocks
  <1>2. PICK P \in SUBSET (1..n) :
            /\ ToSet(group_numbered_procedures(bs)) = {BlockAt(bs)[p] : p \in P}
            /\ Places(bs, 1, P)
    BY GroupedAt
  <1>3. PICK p \in P : p <= i /\ i < NextPlace(bs)[p]
    BY <1>2 DEF Places
  <1> DEFINE e == RunEnd(bs, p)
  <1>4. p \in 1..n /\ e \in (p + 1)..(n + 1)
    BY <1>1, <1>2, RunEndIs
  <1>5. /\ i < k /\ Num(bs, i) # NoStep /\ Num(bs, i) <= 1 /\ Num(bs, k) # NoStep
        /\ bs[i].kind \in Continuable
    <2>1. i < k /\ \A m \in i..k : bs[m].kind \in Continuable
      BY SequenceIs
    <2>2. i \in i..k
      BY <1>1, <2>1
    <2>3. Num(bs, i) # NoStep /\ Num(bs, i) <= 1 /\ Num(bs, k) # NoStep
      BY SequenceIs
    <2> QED
      BY <2>1, <2>2, <2>3
  <1>6. Numbered(bs[i])
    BY <1>5, NumberedIn
  <1>7. p # i => IsProcedure(bs, p)
    <2> SUFFICES ASSUME p # i, ~IsProcedure(bs, p) PROVE FALSE
      OBVIOUS
    <2>1. NextPlace(bs)[p] = p + 1
      BY <1>4 DEF NextPlace
    <2> QED
      BY <1>1, <1>3, <1>4, <2>1
  <1>8. Numbered(bs[p]) /\ i < e
    <2>1. IsProcedure(bs, p) => Numbered(bs[p]) /\ NextPlace(bs)[p] = e
      BY <1>4 DEF IsProcedure, NextPlace
    <2> QED
      BY <1>3, <1>4, <1>6, <1>7, <2>1
  <1>9. i \in p..n
    BY <1>1, <1>3, <1>4
  <1>10. k < e
    BY <1>1, <1>4, <1>8, <1>9, RunTakesAll
  <1>11. IsProcedure(bs, p)
    <2> SUFFICES ASSUME p = i PROVE IsProcedure(bs, p)
      BY <1>7
    <2>1. k \in (i + 1)..(e - 1)
      <3> HIDE DEF e
      <3> QED
        BY <1>1, <1>4, <1>5, <1>10
    <2>2. step_number(bs[k].text) # NoStep /\ step_number(bs[i].text) <= 1
      BY <1>5 DEF Num
    <2> QED
      BY <1>6, <2>1, <2>2 DEF IsProcedure
  <1> DEFINE g == BlockAt(bs)[p]
             t == Text(SubSeq(bs, i, k))
             d == Text(SubSeq(bs, p, e - 1))
  <1>12. g \in ToSet(group_numbered_procedures(bs)) /\ g.atomic /\ g.text = d
    <2>1. g = Merged(bs, p, e - 1) /\ NextPlace(bs)[p] = e
      BY <1>4, <1>11 DEF BlockAt, NextPlace
    <2>2. Merged(bs, p, e - 1).atomic
      BY DEF Merged
    <2>3. g.text = Text(SubSeq(bs, p, NextPlace(bs)[p] - 1))
      BY <1>4, BlockAtIs
    <2> HIDE DEF g, e
    <2>4. g \in ToSet(group_numbered_procedures(bs))
      BY <1>2, <1>3 DEF g
    <2> QED
      BY <2>1, <2>2, <2>3, <2>4
  <1>13. e - 1 \in p..n /\ i \in p..(e - 1) /\ k \in i..(e - 1)
    <2> HIDE DEF e
    <2> QED
      BY <1>1, <1>3, <1>4, <1>5, <1>10
  <1>14. d \in Seq(Word) /\ t \in Seq(Word) /\ Within(t, d)
    BY <1>1, <1>4, <1>13, StretchWithin
  <1> HIDE DEF d, t, g
  <1>15. Holds(d, t)
    BY <1>14, HoldsStretch
  <1> QED
    BY <1>12, <1>15 DEF t

(* An unnumbered block in a run is followed by a step of it. *)
LEMMA StepFollows ==
    ASSUME NEW bs \in Seq(Block), NEW p \in 1..Len(bs), Numbered(bs[p]),
           NEW c \in (p + 1)..(RunEnd(bs, p) - 1), Num(bs, c) = NoStep
    PROVE  c + 1 < RunEnd(bs, p) /\ Num(bs, c + 1) # NoStep
  <1> DEFINE n == Len(bs)
             e == RunEnd(bs, p)
             l == LastStep(bs, p, c)
  <1>1. n \in Nat /\ p \in 1..n /\ e \in (p + 1)..(n + 1)
    BY RunEndIs
  <1>2. Continues(bs, p, c)
    BY RunIs
  <1>3. e <= n => ~Continues(bs, p, e)
    BY <1>1, RunIs
  <1>4. c < n /\ bs[c + 1].kind \in Continuable /\ Num(bs, c + 1) > Num(bs, l)
    BY <1>2 DEF Continues, Num, LastStep, Climbs
  <1> HIDE DEF e
  <1>5. c \in Nat /\ p < c /\ c <= n /\ c < e /\ c + 1 \in 1..n
    <2>1. c \in (p + 1)..(e - 1)
      BY DEF e
    <2> QED
      BY <1>1, <1>4, <2>1
  <1>6. l \in p..(c - 1) /\ Numbered(bs[l])
    BY <1>5, LastStepIs
  <1>7. LastStep(bs, p, c + 1) = l
    <2>1. ~Numbered(bs[c])
      BY DEF Numbered, Num
    <2>2. {k \in p..((c + 1) - 1) : Numbered(bs[k])} = {k \in p..(c - 1) : Numbered(bs[k])}
      <3>1. \A k : k \in p..((c + 1) - 1) <=> (k \in p..(c - 1) \/ k = c)
        BY <1>1, <1>5
      <3> QED
        BY <2>1, <3>1
    <2> QED
      BY <2>2 DEF LastStep
  <1> HIDE DEF l
  <1>8. \A m \in 1..n : Num(bs, m) \in Nat \cup {NoStep}
    BY StepTyped DEF Num
  <1> HIDE DEF n
  <1>9. Num(bs, l) \in Nat
    <2>1. l \in 1..n
      BY <1>1, <1>5, <1>6
    <2>2. Num(bs, l) # NoStep
      BY <1>6 DEF Numbered, Num
    <2> QED
      BY <1>8, <2>1, <2>2
  <1>10. Num(bs, c + 1) # NoStep
    <2>1. ~(NoStep > Num(bs, l))
      BY <1>9 DEF NoStep
    <2> QED
      BY <1>4, <2>1
  <1>11. Numbered(bs[c + 1])
    BY <1>4, <1>10, NumberedIn
  <1>12. Continues(bs, p, c + 1)
    BY <1>4, <1>7, <1>11, StepContinues
  <1>13. e # c + 1
    BY <1>3, <1>5, <1>12
  <1>14. c + 1 < e
    BY <1>1, <1>5, <1>13
  <1> QED
    BY <1>10, <1>14 DEF e

(* and what a run merges is a procedure. *)
LEMMA MergedIsSequence ==
    ASSUME NEW bs \in Seq(Block), NEW p \in 1..Len(bs), IsProcedure(bs, p)
    PROVE  IsSequence(bs, p, RunEnd(bs, p) - 1) /\ RunEnd(bs, p) - 1 \in 1..Len(bs)
  <1> DEFINE n == Len(bs)
             e == RunEnd(bs, p)
             k == e - 1
  <1>1. n \in Nat /\ p \in 1..n /\ e \in (p + 1)..(n + 1)
    BY RunEndIs
  <1>2. Numbered(bs[p]) /\ Num(bs, p) # NoStep /\ Num(bs, p) <= 1
    BY DEF IsProcedure, Numbered, Num
  <1>3. \E m \in (p + 1)..(e - 1) : Num(bs, m) # NoStep
    BY DEF IsProcedure, Num
  <1>4. \A c \in (p + 1)..(e - 1) : bs[c].kind \in Continuable
    <2>1. \A c \in (p + 1)..(e - 1) : Continues(bs, p, c)
      BY RunIs
    <2> QED
      BY <2>1 DEF Continues
  <1>5. bs[p].kind \in Continuable
    BY <1>2 DEF Numbered
  <1>6. \A c \in (p + 1)..(e - 1) : Num(bs, c) = NoStep => c + 1 < e /\ Num(bs, c + 1) # NoStep
    BY <1>2, StepFollows
  <1>7. Ascend(bs, p, k)
    BY <1>2, RunAscends
  <1> HIDE DEF e, n
  <1>8. p < k /\ k \in (p + 1)..(e - 1) /\ k \in 1..n
    BY <1>1, <1>3
  <1>9. Num(bs, k) # NoStep
    <2>1. ~(k + 1 < e)
      BY <1>1
    <2> QED
      BY <1>6, <1>8, <2>1
  <1>10. \A m \in p..k : bs[m].kind \in Continuable
    <2>1. \A m \in p..k : m = p \/ m \in (p + 1)..(e - 1)
      BY <1>1
    <2> QED
      BY <1>4, <1>5, <2>1
  <1>11. \A m, c \in p..k :
            m < c /\ Num(bs, m) # NoStep /\ Num(bs, c) # NoStep => Num(bs, m) < Num(bs, c)
    <2> HIDE DEF k
    <2> SUFFICES ASSUME NEW m \in p..k, NEW c \in p..k, m < c,
                        Num(bs, m) # NoStep, Num(bs, c) # NoStep
                 PROVE  Num(bs, m) < Num(bs, c)
      OBVIOUS
    <2>1. Numbered(bs[m]) /\ Numbered(bs[c])
      BY <1>10, NumberedIn
    <2> QED
      BY <1>7, <2>1 DEF Ascend
  <1>12. \A m \in p..(k - 1) : Num(bs, m) = NoStep => Num(bs, m + 1) # NoStep
    <2>1. \A m \in p..(k - 1) : m = p \/ m \in (p + 1)..(e - 1)
      BY <1>1
    <2> QED
      BY <1>2, <1>6, <2>1
  <1> HIDE DEF k
  <1>13. IsSequence(bs, p, k)
    BY <1>2, <1>8, <1>9, <1>10, <1>11, <1>12, SequenceIs
  <1> QED
    BY <1>8, <1>13 DEF k, e, n

(* A block of the grouping that is none of the document's is a procedure. *)
LEMMA OnlySequences ==
    ASSUME NEW bs \in Seq(Parsed), NEW g \in ToSet(group_numbered_procedures(bs)), g \notin ToSet(bs)
    PROVE  \E i, k \in 1..Len(bs) : IsSequence(bs, i, k) /\ g.text = Text(SubSeq(bs, i, k))
  <1>1. bs \in Seq(Block)
    BY ParsedAreBlocks
  <1>2. PICK p \in 1..Len(bs) : g = BlockAt(bs)[p]
    <2>1. PICK P \in SUBSET (1..Len(bs)) :
              ToSet(group_numbered_procedures(bs)) = {BlockAt(bs)[q] : q \in P}
      BY GroupedAt
    <2> QED
      BY <2>1
  <1>3. IsProcedure(bs, p)
    <2> SUFFICES ASSUME ~IsProcedure(bs, p) PROVE FALSE
      OBVIOUS
    <2>1. g = bs[p]
      BY <1>2 DEF BlockAt
    <2> QED
      BY <2>1 DEF ToSet
  <1>4. NextPlace(bs)[p] = RunEnd(bs, p)
    BY <1>3 DEF NextPlace
  <1>5. g.text = Text(SubSeq(bs, p, NextPlace(bs)[p] - 1))
    BY <1>2, BlockAtIs
  <1> QED
    BY <1>1, <1>3, <1>4, <1>5, MergedIsSequence

(* Whatever the document: each block that stands for several is exactly a  *)
(* procedure of it (steps that climb from 0 or 1, no two of them more than *)
(* one unnumbered block apart), and each procedure is in one such block,   *)
(* whole and in order, so that a run is never broken at a paragraph or a   *)
(* table, and lists which each start anew are never one procedure          *)
(* (group_numbered_procedures, _is_ascending_run).                         *)
THEOREM MergedStepsAscend == Spec => []OnlySequencesMerge
  <1>1. WordsInv => OnlySequencesMerge
    <2> SUFFICES ASSUME WordsInv PROVE OnlySequencesMerge
      OBVIOUS
    <2>1. document \in Seq(Parsed) /\ DOMAIN document = 1..Len(document)
      BY DEF WordsInv, ChunkInv
    <2>2. ASSUME NEW g \in ToSet(Grouped) \ ToSet(document)
          PROVE  \E i, k \in DOMAIN document :
                    IsSequence(document, i, k) /\ g.text = Text(SubSeq(document, i, k))
      BY <2>1, OnlySequences DEF Grouped
    <2>3. ASSUME NEW i \in DOMAIN document, NEW k \in DOMAIN document, IsSequence(document, i, k)
          PROVE  \E g \in ToSet(Grouped) :
                    g.atomic /\ Holds(g.text, Text(SubSeq(document, i, k)))
      BY <2>1, <2>3, SequencesMerge DEF Grouped
    <2> QED
      BY <2>2, <2>3 DEF OnlySequencesMerge
  <1> QED
    BY WordsKept, <1>1, PTL

=============================================================================
