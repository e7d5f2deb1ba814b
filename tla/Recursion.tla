------------------------------ MODULE Recursion ------------------------------
(***************************************************************************)
(* Induction in the form in which the proofs about loops use it: over sets *)
(* instead of predicates, so that no lemma has an operator as a parameter; *)
(* and what a recursive function over the first elements of a sequence is. *)
(***************************************************************************)
EXTENDS Integers, SequencesExt, WellFoundedInduction, SequenceTheorems, FiniteSetTheorems, TLAPS

\* Every set of naturals that is not empty has a least element.
LEMMA LeastNat ==
  ASSUME NEW A \in SUBSET Nat, A # {}
  PROVE  \E n \in A : \A m \in A : n <= m
<1> DEFINE R == OpToRel(<, Nat)
<1>1. IsWellFoundedOn(R, Nat)
  BY NatLessThanWellFounded
<1>2. \A x, y \in Nat : <<y, x>> \in R <=> y < x
  BY DEF OpToRel
<1> HIDE DEF R
<1>3. PICK n \in A : \A m \in A : ~(<<m, n>> \in R)
  BY <1>1, WFMin
<1>4. ASSUME NEW m \in A PROVE n <= m
  <2>1. m \in Nat /\ n \in Nat
    OBVIOUS
  <2>2. ~(m < n)
    BY <1>2, <1>3, <2>1
  <2>3. QED BY <2>1, <2>2
<1>5. QED BY <1>4

\* ... and one that is bounded has a greatest element.
LEMMA GreatestUpTo ==
  ASSUME NEW n \in Nat, NEW A \in SUBSET (0..n), A # {}
  PROVE  \E x \in A : \A y \in A : y <= x
<1> DEFINE B == {m \in 0..n : n - m \in A}
<1>1. PICK a \in A : a \in 0..n
  OBVIOUS
<1>2. n - a \in B
  BY <1>1
<1>3. PICK b \in B : \A m \in B : b <= m
  <2>1. B \in SUBSET Nat /\ B # {}
    BY <1>2
  <2> HIDE DEF B
  <2>2. QED BY <2>1, LeastNat
<1>4. ASSUME NEW y \in A PROVE y <= n - b
  <2>1. y \in 0..n /\ n - (n - y) = y
    OBVIOUS
  <2>2. n - y \in B
    BY <2>1
  <2>3. b <= n - y /\ b \in 0..n
    BY <1>3, <2>2
  <2>4. QED BY <2>1, <2>3
<1>5. n - b \in A
  BY <1>3
<1>6. QED BY <1>4, <1>5

\* Induction: a set that has 0, and up to n the successor of each of its members, has all
\* the naturals up to n.
LEMMA UpTo ==
  ASSUME NEW A, NEW n \in Nat, 0 \in A, \A k \in 0..(n - 1) : k \in A => k + 1 \in A
  PROVE  \A k \in 0..n : k \in A
<1> SUFFICES ASSUME NEW j \in 0..n, j \notin A PROVE FALSE
  OBVIOUS
<1> DEFINE B == {k \in 0..n : k \notin A}
<1>1. PICK k \in B : \A m \in B : k <= m
  <2>1. B \in SUBSET Nat /\ B # {}
    OBVIOUS
  <2> HIDE DEF B
  <2>2. QED BY <2>1, LeastNat
<1>2. k # 0 /\ k - 1 \in 0..(n - 1) /\ k - 1 \notin B
  BY <1>1
<1>3. QED BY <1>1, <1>2

\* The values of a loop of n rounds, the k-th of which makes step[<<k, x>>] of x.
Rounds(n, first, step, S, g) ==
  g \in [0..n -> S] /\ g[0] = first /\ \A k \in 1..n : g[k] = step[<<k, g[k - 1]>>]

LEMMA RoundsExist ==
  ASSUME NEW S, NEW n \in Nat, NEW first \in S, NEW step \in [(1..n) \X S -> S]
  PROVE  \E g : Rounds(n, first, step, S, g)
<1> USE DEF Rounds
<1> DEFINE A == {m \in 0..n : \E g : Rounds(m, first, step, S, g)}
<1>1. 0 \in A
  <2>1. Rounds(0, first, step, S, [k \in 0..0 |-> first])
    OBVIOUS
  <2> HIDE DEF Rounds
  <2>2. QED BY <2>1
<1>2. ASSUME NEW m \in 0..(n - 1), m \in A PROVE m + 1 \in A
  <2>1. PICK g : Rounds(m, first, step, S, g)
    BY <1>2
  <2> DEFINE h == [k \in 0..(m + 1) |-> IF k = m + 1 THEN step[<<k, g[m]>>] ELSE g[k]]
  <2>2. h \in [0..(m + 1) -> S] /\ h[0] = first
    BY <2>1
  <2>3. \A k \in 1..(m + 1) : h[k] = step[<<k, h[k - 1]>>]
    BY <2>1
  <2>4. Rounds(m + 1, first, step, S, h)
    BY <2>2, <2>3
  <2> HIDE DEF h, Rounds
  <2>5. QED BY <2>4
<1>3. \A m \in 0..n : m \in A
  <2> HIDE DEF A
  <2>1. QED BY <1>1, <1>2, UpTo
<1>4. QED
  <2> HIDE DEF Rounds
  <2>1. QED BY <1>3

\* One sequence after another.
LEMMA Joined ==
  ASSUME NEW S, NEW a \in Seq(S), NEW b \in Seq(S)
  PROVE  /\ a \o b \in Seq(S) /\ Len(a \o b) = Len(a) + Len(b)
         /\ \A k \in 1..Len(a) : (a \o b)[k] = a[k]
         /\ \A k \in 1..Len(b) : (a \o b)[Len(a) + k] = b[k]
<1> DEFINE p == Len(a)
           q == Len(b)
           t == a \o b
<1>1. /\ t \in Seq(S) /\ Len(t) = p + q
      /\ \A i \in 1..(p + q) : t[i] = IF i <= p THEN a[i] ELSE b[i - p]
  BY ConcatProperties
<1>2. p \in Nat /\ q \in Nat
  OBVIOUS
<1> HIDE DEF p, q, t
<1>3. ASSUME NEW k \in 1..p PROVE t[k] = a[k]
  BY <1>1, <1>2
<1>4. ASSUME NEW k \in 1..q PROVE t[p + k] = b[k]
  <2>1. p + k \in 1..(p + q) /\ ~(p + k <= p) /\ p + k - p = k
    BY <1>2
  <2>2. QED BY <1>1, <1>2, <2>1
<1>5. QED BY <1>1, <1>3, <1>4 DEF p, q, t

\* A set that is grown by what its members name, within a finite set, is closed after as
\* many rounds as the set has elements.
LEMMA Saturates ==
  ASSUME NEW D, IsFiniteSet(D), NEW step \in [D -> SUBSET D], NEW first \in D,
         NEW f, f[0] = {first},
         \A k \in 0..(Cardinality(D) - 1) : f[k + 1] = f[k] \cup UNION {step[x] : x \in f[k]}
  PROVE  LET last == f[Cardinality(D)]
         IN  first \in last /\ last \subseteq D /\ \A x \in last : step[x] \subseteq last
<1> DEFINE n == Cardinality(D)
           Closed(A) == \A x \in A : step[x] \subseteq A
           Grown(k) == f[k] \subseteq D /\ first \in f[k] /\ (Cardinality(f[k]) > k \/ Closed(f[k]))
           R == {k \in 0..n : Grown(k)}
<1>0. n \in Nat
  BY FS_CardinalityType
<1>1. 0 \in R
  <2>1. Cardinality(f[0]) = 1
    BY FS_Singleton
  <2>2. f[0] \subseteq D /\ first \in f[0] /\ Cardinality(f[0]) > 0
    BY <2>1
  <2>3. Grown(0)
    <3> HIDE DEF Closed
    <3>1. QED BY <2>2
  <2> HIDE DEF Grown
  <2>4. QED BY <1>0, <2>3
<1>2. ASSUME NEW k \in 0..(n - 1), k \in R PROVE k + 1 \in R
  <2>1. f[k + 1] = f[k] \cup UNION {step[x] : x \in f[k]} /\ f[k] \subseteq D /\ first \in f[k]
    BY <1>2
  <2>2. f[k + 1] \subseteq D /\ first \in f[k + 1] /\ f[k] \subseteq f[k + 1]
    BY <2>1
  <2>3. CASE Closed(f[k])
    <3>1. f[k + 1] = f[k]
      BY <2>1, <2>3
    <3>2. QED BY <1>0, <2>2, <2>3, <3>1
  <2>4. CASE ~Closed(f[k])
    <3>1. Cardinality(f[k]) > k
      BY <1>2, <2>4
    <3>2. f[k] # f[k + 1]
      BY <2>1, <2>4
    <3>3. IsFiniteSet(f[k + 1]) /\ IsFiniteSet(f[k])
      BY <2>1, <2>2, FS_Subset
    <3>4. Cardinality(f[k]) <= Cardinality(f[k + 1]) /\ Cardinality(f[k + 1]) # Cardinality(f[k])
      BY <2>2, <3>2, <3>3, FS_Subset
    <3>5. Cardinality(f[k]) \in Nat /\ Cardinality(f[k + 1]) \in Nat
      BY <3>3, FS_CardinalityType
    <3>6. Cardinality(f[k + 1]) > k + 1
      BY <3>1, <3>4, <3>5
    <3>7. QED BY <1>0, <2>2, <3>6
  <2>5. QED BY <2>3, <2>4
<1>3. n \in R
  <2>1. \A k \in 0..n : k \in R
    <3> HIDE DEF R
    <3>1. QED BY <1>0, <1>1, <1>2, UpTo
  <2>2. QED BY <1>0, <2>1
<1>4. Grown(n)
  BY <1>3
<1>5. Cardinality(f[n]) <= n /\ Cardinality(f[n]) \in Nat
  BY <1>4, FS_Subset, FS_CardinalityType
<1>6. QED BY <1>0, <1>4, <1>5

\* A finite set as a sequence.
LEMMA Sequenced ==
  ASSUME NEW D, IsFiniteSet(D)
  PROVE  /\ Cardinality(D) \in Nat
         /\ SetToSeq(D) \in [1..Cardinality(D) -> D] /\ Len(SetToSeq(D)) = Cardinality(D)
         /\ \A i, j \in 1..Cardinality(D) : SetToSeq(D)[i] = SetToSeq(D)[j] => i = j
         /\ {SetToSeq(D)[i] : i \in 1..Cardinality(D)} = D
<1> DEFINE n == Cardinality(D)
           ids == SetToSeq(D)
<1>1. n \in Nat /\ ExistsBijection(1..n, D)
  BY FS_CardinalityType
<1>2. \E f \in [1..n -> D] : IsInjective(f)
  BY <1>1 DEF ExistsBijection, Bijection, Injection
<1>3. ids \in [1..n -> D] /\ IsInjective(ids)
  BY <1>2 DEF SetToSeq
<1> HIDE DEF ids
<1>4. ids \in Injection(1..n, D)
  BY <1>3 DEF Injection
<1>5. Cardinality(1..n) = n /\ IsFiniteSet(1..n)
  BY <1>1, FS_Interval
<1>6. ids \in Surjection(1..n, D)
  BY <1>4, <1>5, FS_Injection
<1>7. {ids[i] : i \in 1..n} = D
  BY <1>3, <1>6 DEF Surjection
<1>8. Len(ids) = n /\ \A i, j \in 1..n : ids[i] = ids[j] => i = j
  BY <1>1, <1>3 DEF IsInjective
<1>9. QED BY <1>1, <1>3, <1>7, <1>8 DEF ids

-----------------------------------------------------------------------------
(* Trees, as a finite set whose elements have a depth: what is below an       *)
(* element is deeper than it.                                                 *)

Depths(L, n, depth) == n \in Nat /\ depth \in [L -> 1..n]

\* Induction from the leaves up.
LEMMA FromBelow ==
  ASSUME NEW L, NEW n, NEW depth, Depths(L, n, depth), NEW A,
         \A l \in L : (\A k \in L : depth[k] > depth[l] => k \in A) => l \in A
  PROVE  \A l \in L : l \in A
<1>1. n \in Nat /\ \A l \in L : depth[l] \in 1..n
  BY DEF Depths
<1> DEFINE B == {i \in 0..n : \A l \in L : depth[l] > n - i => l \in A}
<1>2. 0 \in B
  BY <1>1
<1>3. ASSUME NEW i \in 0..(n - 1), i \in B PROVE i + 1 \in B
  <2>1. ASSUME NEW l \in L, depth[l] > n - (i + 1) PROVE l \in A
    <3>1. ASSUME NEW k \in L, depth[k] > depth[l] PROVE k \in A
      <4>1. depth[k] > n - i
        BY <1>1, <2>1, <3>1
      <4>2. QED BY <1>3, <4>1
    <3>2. QED BY <3>1
  <2>2. QED BY <1>1, <2>1
<1>4. \A i \in 0..n : i \in B
  <2> HIDE DEF B
  <2>1. QED BY <1>1, <1>2, <1>3, UpTo
<1>5. n \in B
  BY <1>1, <1>4
<1>6. ASSUME NEW l \in L PROVE l \in A
  <2>1. depth[l] > n - n
    BY <1>1
  <2>2. QED BY <1>5, <2>1
<1>7. QED BY <1>6

\* Induction from the roots down.
LEMMA FromAbove ==
  ASSUME NEW L, NEW n, NEW depth, Depths(L, n, depth), NEW A,
         \A l \in L : (\A k \in L : depth[k] < depth[l] => k \in A) => l \in A
  PROVE  \A l \in L : l \in A
<1> DEFINE up == [l \in L |-> (n + 1) - depth[l]]
<1>1. n \in Nat /\ \A l \in L : depth[l] \in 1..n
  BY DEF Depths
<1>2. Depths(L, n, up)
  BY <1>1 DEF Depths
<1>3. \A k, l \in L : up[k] > up[l] <=> depth[k] < depth[l]
  BY <1>1
<1> HIDE DEF up
<1>4. \A l \in L : (\A k \in L : up[k] > up[l] => k \in A) => l \in A
  BY <1>3
<1>5. QED BY <1>2, <1>4, FromBelow

\* G gives an element a value that depends on the values of deeper ones.
FromDeeper(L, depth, V, G) ==
  /\ G \in [L \X [L -> V] -> V]
  /\ \A l \in L : \A f, g \in [L -> V] :
       (\A k \in L : depth[k] > depth[l] => f[k] = g[k]) => G[<<l, f>>] = G[<<l, g>>]

\* What is computed at an element from what was computed below it is a function.
LEMMA Computed ==
  ASSUME NEW L, NEW n, NEW depth, Depths(L, n, depth), NEW V, NEW any \in V, NEW G, FromDeeper(L, depth, V, G)
  PROVE  \E f \in [L -> V] : \A l \in L : f[l] = G[<<l, f>>]
<1> USE DEF FromDeeper
<1> DEFINE S == [L -> V]
           first == [l \in L |-> any]
           step == [kf \in (1..n) \X S |-> [l \in L |-> G[<<l, kf[2]>>]]]
<1>1. n \in Nat /\ \A l \in L : depth[l] \in 1..n
  BY DEF Depths
<1>2. first \in S /\ step \in [(1..n) \X S -> S]
  OBVIOUS
<1>3. \A k \in 1..n, f \in S : step[<<k, f>>] = [l \in L |-> G[<<l, f>>]]
  OBVIOUS
<1> HIDE DEF step, first
<1>4. PICK r : Rounds(n, first, step, S, r)
  <2> HIDE DEF S
  <2>1. QED BY <1>1, <1>2, RoundsExist
<1>5. /\ \A i \in 0..n : r[i] \in S
      /\ \A i \in 0..(n - 1) : \A l \in L : r[i + 1][l] = G[<<l, r[i]>>]
  <2>1. r \in [0..n -> S] /\ \A k \in 1..n : r[k] = step[<<k, r[k - 1]>>]
    BY <1>4 DEF Rounds
  <2>2. ASSUME NEW i \in 0..(n - 1) PROVE r[i + 1] = [l \in L |-> G[<<l, r[i]>>]]
    <3>1. i + 1 \in 1..n /\ i \in 0..n /\ (i + 1) - 1 = i
      BY <1>1
    <3>2. r[i] \in S /\ r[i + 1] = step[<<i + 1, r[i]>>]
      BY <2>1, <3>1
    <3>3. QED BY <1>3, <3>1, <3>2
  <2>3. \A i \in 0..n : r[i] \in S
    BY <2>1
  <2>4. ASSUME NEW i \in 0..(n - 1), NEW l \in L PROVE r[i + 1][l] = G[<<l, r[i]>>]
    BY <2>2
  <2> HIDE DEF S
  <2>5. QED BY <2>3, <2>4
<1> DEFINE B == {i \in 0..n : \A l \in L : depth[l] > n - i => r[i][l] = G[<<l, r[i]>>]}
<1>6. 0 \in B
  BY <1>1
<1>7. ASSUME NEW i \in 0..(n - 1), i \in B PROVE i + 1 \in B
  <2>1. r[i] \in [L -> V] /\ r[i + 1] \in [L -> V] /\ i + 1 \in 0..n
    BY <1>1, <1>5
  <2>2. ASSUME NEW l \in L, depth[l] > n - (i + 1) PROVE r[i + 1][l] = G[<<l, r[i + 1]>>]
    <3>1. ASSUME NEW k \in L, depth[k] > depth[l] PROVE r[i][k] = r[i + 1][k]
      <4>1. depth[k] > n - i
        BY <1>1, <2>2, <3>1
      <4>2. r[i][k] = G[<<k, r[i]>>]
        BY <1>7, <4>1
      <4>3. QED BY <1>5, <4>2
    <3>2. G[<<l, r[i]>>] = G[<<l, r[i + 1]>>]
      BY <2>1, <3>1
    <3>3. QED BY <1>5, <3>2
  <2>3. QED BY <2>1, <2>2
<1>8. \A i \in 0..n : i \in B
  <2> HIDE DEF B
  <2>1. QED BY <1>1, <1>6, <1>7, UpTo
<1>9. n \in B /\ r[n] \in [L -> V]
  <2>1. n \in 0..n
    BY <1>1
  <2>2. n \in B
    BY <1>8, <2>1
  <2>3. r[n] \in S
    BY <1>5, <2>1
  <2>4. QED BY <2>2, <2>3
<1>10. ASSUME NEW l \in L PROVE r[n][l] = G[<<l, r[n]>>]
  <2>1. depth[l] > n - n
    BY <1>1
  <2>2. QED BY <1>9, <2>1
<1>11. QED BY <1>9, <1>10

-----------------------------------------------------------------------------
(* Sequences joined one after another.                                        *)

\* f[k] is what the first k of the sequences make.
JoinsUpTo(seqs, n, S, f) ==
  /\ f \in [0..n -> Seq(S)] /\ f[0] = <<>>
  /\ \A k \in 1..n : f[k] = f[k - 1] \o seqs[k]

Flat(seqs, n, S) == seqs = [i \in 1..n |-> seqs[i]] /\ \A i \in 1..n : seqs[i] \in Seq(S)

LEMMA Flattened ==
  ASSUME NEW S, NEW n \in Nat, NEW seqs, Flat(seqs, n, S)
  PROVE  \E f : JoinsUpTo(seqs, n, S, f) /\ FlattenSeq(seqs) = f[n]
<1> DEFINE T == Seq(S)
           none == <<>>
           step == [kx \in (1..n) \X T |-> kx[2] \o seqs[kx[1]]]
           Loop(g) == g = [i \in 1..Len(seqs) |-> IF i = 1 THEN seqs[i] ELSE g[i - 1] \o seqs[i]]
           h == CHOOSE g : Loop(g)
<1>1. Len(seqs) = n /\ \A k \in 1..n : seqs[k] \in T
  BY DEF Flat
<1>2. none \in T
  OBVIOUS
<1>3. \A k \in 1..n, x \in T : x \o seqs[k] \in T
  <2>1. ASSUME NEW k \in 1..n, NEW x \in T PROVE x \o seqs[k] \in T
    BY <1>1, Joined
  <2>2. QED BY <2>1
<1>4. PICK f : Rounds(n, none, step, T, f)
  <2>1. step \in [(1..n) \X T -> T]
    <3> HIDE DEF T
    <3>1. QED BY <1>3
  <2> HIDE DEF T, none, step
  <2>2. QED BY <1>2, <2>1, RoundsExist
<1>5. f \in [0..n -> T] /\ f[0] = <<>> /\ \A k \in 1..n : f[k] = f[k - 1] \o seqs[k]
  <2>1. \A k \in 1..n, x \in T : step[<<k, x>>] = x \o seqs[k]
    OBVIOUS
  <2> HIDE DEF T, step
  <2>2. f \in [0..n -> T] /\ f[0] = <<>> /\ \A k \in 1..n : f[k] = step[<<k, f[k - 1]>>]
    BY <1>4 DEF Rounds
  <2>3. ASSUME NEW k \in 1..n PROVE f[k] = f[k - 1] \o seqs[k]
    <3>1. k - 1 \in 0..n
      OBVIOUS
    <3>2. f[k - 1] \in T
      BY <2>2, <3>1
    <3>3. QED BY <2>1, <2>2, <3>2
  <2>4. QED BY <2>2, <2>3
<1> HIDE DEF step
<1>6. JoinsUpTo(seqs, n, S, f)
  BY <1>5 DEF JoinsUpTo
<1>7. FlattenSeq(seqs) = IF n = 0 THEN seqs ELSE h[n]
  BY <1>1 DEF FlattenSeq
<1>8. CASE n = 0
  <2>1. seqs = <<>>
    BY <1>8 DEF Flat
  <2>2. QED BY <1>5, <1>6, <1>7, <1>8, <2>1
<1>9. CASE n # 0
  <2>1. f[1] = seqs[1]
    <3>1. 1 \in 1..n /\ 1 - 1 = 0
      BY <1>9
    <3>2. f[1] = <<>> \o seqs[1] /\ seqs[1] \in Seq(S)
      BY <1>1, <1>5, <3>1
    <3>3. QED BY <3>2
  <2> HIDE DEF T
  <2>2. \E g : Loop(g)
    <3> DEFINE g == [k \in 1..n |-> f[k]]
    <3>1. ASSUME NEW k \in 1..n PROVE g[k] = IF k = 1 THEN seqs[k] ELSE g[k - 1] \o seqs[k]
      <4>1. CASE k = 1
        BY <2>1, <4>1
      <4>2. CASE k # 1
        <5>1. k - 1 \in 1..n
          BY <4>2
        <5>2. QED BY <1>5, <4>2, <5>1
      <4>3. QED BY <4>1, <4>2
    <3>2. g = [k \in 1..n |-> g[k]]
      OBVIOUS
    <3> HIDE DEF g
    <3>3. Loop(g)
      BY <1>1, <3>1, <3>2
    <3> HIDE DEF Loop
    <3>4. QED BY <3>3
  <2>3. Loop(h)
    <3> HIDE DEF Loop
    <3>1. QED BY <2>2
  <2> HIDE DEF h
  <2>4. \A k \in 1..n : h[k] = IF k = 1 THEN seqs[k] ELSE h[k - 1] \o seqs[k]
    BY <1>1, <2>3
  <2> DEFINE A == {k \in 0..n : k = 0 \/ h[k] = f[k]}
  <2>5. 0 \in A
    OBVIOUS
  <2>6. ASSUME NEW k \in 0..(n - 1), k \in A PROVE k + 1 \in A
    <3>1. k + 1 \in 1..n /\ (k + 1) - 1 = k
      OBVIOUS
    <3>2. CASE k = 0
      BY <2>1, <2>4, <3>1, <3>2
    <3>3. CASE k # 0
      <4>1. h[k] = f[k] /\ k + 1 # 1
        BY <2>6, <3>3
      <4>2. h[k + 1] = h[k] \o seqs[k + 1]
        BY <2>4, <3>1, <4>1
      <4>3. f[k + 1] = f[k] \o seqs[k + 1]
        BY <1>5, <3>1
      <4>4. h[k + 1] = f[k + 1]
        BY <4>1, <4>2, <4>3
      <4>5. QED BY <3>1, <4>4
    <3>4. QED BY <3>2, <3>3
  <2>7. \A k \in 0..n : k \in A
    <3> HIDE DEF A
    <3>1. QED BY <2>5, <2>6, UpTo
  <2>8. h[n] = f[n]
    BY <1>9, <2>7
  <2>9. QED BY <1>6, <1>7, <1>9, <2>8
<1>10. QED BY <1>8, <1>9

\* s has what val says of each element of H, once each, in some order: of at[i] first.
ListsAs(s, n, H, val, at) ==
  /\ at \in [1..n -> H]
  /\ \A i, j \in 1..n : at[i] = at[j] => i = j
  /\ \A x \in H : \E i \in 1..n : at[i] = x
  /\ \A i \in 1..n : s[i] = val[at[i]]

Lists(s, H, val) == \E at : ListsAs(s, Len(s), H, val, at)

LEMMA ListsNone == ASSUME NEW val PROVE Lists(<<>>, {}, val)
<1>1. ListsAs(<<>>, 0, {}, val, [i \in 1..0 |-> 0]) /\ Len(<<>>) = 0
  BY DEF ListsAs
<1>2. QED BY <1>1 DEF Lists

LEMMA ListsOne == ASSUME NEW val, NEW x PROVE Lists(<<val[x]>>, {x}, val)
<1> DEFINE s == <<val[x]>>
           at == [i \in 1..1 |-> x]
<1>1. Len(s) = 1 /\ s[1] = val[x]
  OBVIOUS
<1>2. at \in [1..1 -> {x}] /\ \A i \in 1..1 : i = 1 /\ at[i] = x
  OBVIOUS
<1> HIDE DEF s, at
<1>3. ListsAs(s, 1, {x}, val, at)
  <2>1. 1 \in 1..1
    OBVIOUS
  <2>2. QED BY <1>1, <1>2, <2>1 DEF ListsAs
<1>4. QED BY <1>1, <1>3 DEF Lists, s

LEMMA ListsJoin ==
  ASSUME NEW S, NEW s \in Seq(S), NEW t \in Seq(S), NEW H, NEW K, NEW val,
         Lists(s, H, val), Lists(t, K, val), H \cap K = {}
  PROVE  Lists(s \o t, H \cup K, val)
<1> DEFINE p == Len(s)
           q == Len(t)
           r == s \o t
<1>1. /\ p \in Nat /\ q \in Nat /\ Len(r) = p + q
      /\ \A k \in 1..p : r[k] = s[k]
      /\ \A k \in 1..q : r[p + k] = t[k]
  BY Joined
<1>2. PICK a : ListsAs(s, p, H, val, a)
  BY DEF Lists
<1>3. PICK b : ListsAs(t, q, K, val, b)
  BY DEF Lists
<1> USE DEF ListsAs
<1> HIDE DEF p, q, r
<1> DEFINE at == [i \in 1..(p + q) |-> IF i <= p THEN a[i] ELSE b[i - p]]
<1>4. ASSUME NEW i \in 1..(p + q)
      PROVE  \/ i \in 1..p /\ at[i] = a[i] /\ at[i] \in H
             \/ i - p \in 1..q /\ ~(i <= p) /\ at[i] = b[i - p] /\ at[i] \in K /\ p + (i - p) = i
  <2>1. CASE i <= p
    <3>1. i \in 1..p
      BY <1>1, <2>1
    <3>2. QED BY <1>2, <2>1, <3>1
  <2>2. CASE ~(i <= p)
    <3>1. i - p \in 1..q /\ p + (i - p) = i
      BY <1>1, <2>2
    <3>2. QED BY <1>3, <2>2, <3>1
  <2>3. QED BY <2>1, <2>2
<1>5. at \in [1..(p + q) -> H \cup K]
  <2>1. \A i \in 1..(p + q) : at[i] \in H \cup K
    BY <1>4
  <2>2. QED BY <2>1
<1>6. ASSUME NEW x \in H \cup K PROVE \E i \in 1..(p + q) : at[i] = x
  <2>1. CASE x \in H
    <3>1. PICK i \in 1..p : a[i] = x
      BY <1>2, <2>1
    <3>2. i \in 1..(p + q) /\ i <= p
      BY <1>1
    <3>3. QED BY <3>1, <3>2
  <2>2. CASE x \in K
    <3>1. PICK i \in 1..q : b[i] = x
      BY <1>3, <2>2
    <3>2. p + i \in 1..(p + q) /\ ~(p + i <= p) /\ (p + i) - p = i
      BY <1>1
    <3>3. at[p + i] = x
      BY <3>1, <3>2
    <3>4. QED BY <3>2, <3>3
  <2>3. QED BY <2>1, <2>2
<1>7. ASSUME NEW i \in 1..(p + q) PROVE r[i] = val[at[i]]
  <2>1. CASE i \in 1..p /\ at[i] = a[i]
    BY <1>1, <1>2, <2>1
  <2>2. CASE i - p \in 1..q /\ at[i] = b[i - p] /\ p + (i - p) = i
    <3>1. r[p + (i - p)] = t[i - p]
      BY <1>1, <2>2
    <3>2. QED BY <1>3, <2>2, <3>1
  <2> HIDE DEF at
  <2>3. QED BY <1>4, <2>1, <2>2
<1> HIDE DEF at
<1>8. ASSUME NEW i \in 1..(p + q), NEW j \in 1..(p + q), at[i] = at[j] PROVE i = j
  <2>1. CASE i \in 1..p /\ at[i] = a[i] /\ j \in 1..p /\ at[j] = a[j]
    BY <1>2, <1>8, <2>1
  <2>2. CASE at[i] \in H /\ at[j] \in K
    BY <1>8, <2>2
  <2>3. CASE at[i] \in K /\ at[j] \in H
    BY <1>8, <2>3
  <2>4. CASE i - p \in 1..q /\ at[i] = b[i - p] /\ p + (i - p) = i /\ j - p \in 1..q /\ at[j] = b[j - p] /\ p + (j - p) = j
    <3>1. i - p = j - p
      BY <1>3, <1>8, <2>4
    <3>2. QED BY <2>4, <3>1
  <2>5. QED BY <1>4, <2>1, <2>2, <2>3, <2>4
<1>9. Lists(r, H \cup K, val)
  <2> DEFINE W == H \cup K
             m == p + q
  <2>1. at \in [1..m -> W] /\ m = Len(r)
    BY <1>1, <1>5
  <2>2. \A i, j \in 1..m : at[i] = at[j] => i = j
    BY <1>8
  <2>3. \A x \in W : \E i \in 1..m : at[i] = x
    BY <1>6
  <2>4. \A i \in 1..m : r[i] = val[at[i]]
    BY <1>7
  <2> HIDE DEF W, m
  <2>5. ListsAs(r, m, W, val, at)
    BY <2>1, <2>2, <2>3, <2>4
  <2> HIDE DEF ListsAs
  <2>6. ListsAs(r, Len(r), W, val, at)
    BY <2>1, <2>5
  <2>7. Lists(r, W, val)
    BY <2>6 DEF Lists
  <2>8. QED BY <2>7 DEF W
<1>10. QED BY <1>9 DEF r

\* Joined sequences list what each of them lists, if they have nothing in common.
LEMMA ListsFlat ==
  ASSUME NEW S, NEW n \in Nat, NEW seqs, Flat(seqs, n, S), NEW Hs, NEW val,
         \A i \in 1..n : Lists(seqs[i], Hs[i], val),
         \A i, j \in 1..n : i # j => Hs[i] \cap Hs[j] = {}
  PROVE  FlattenSeq(seqs) \in Seq(S) /\ Lists(FlattenSeq(seqs), UNION {Hs[i] : i \in 1..n}, val)
<1>1. PICK f : JoinsUpTo(seqs, n, S, f) /\ FlattenSeq(seqs) = f[n]
  BY Flattened
<1>2. f \in [0..n -> Seq(S)] /\ f[0] = <<>> /\ \A k \in 1..n : f[k] = f[k - 1] \o seqs[k]
  BY <1>1 DEF JoinsUpTo
<1> DEFINE U(k) == UNION {Hs[i] : i \in 1..k}
           A == {k \in 0..n : Lists(f[k], U(k), val)}
<1>3. 0 \in A
  <2>1. U(0) = {}
    OBVIOUS
  <2>2. Lists(f[0], U(0), val)
    BY <1>2, <2>1, ListsNone
  <2>3. QED BY <2>2
<1>4. ASSUME NEW k \in 0..(n - 1), k \in A PROVE k + 1 \in A
  <2>1. k + 1 \in 1..n /\ (k + 1) - 1 = k /\ k \in 0..n /\ 1..(k + 1) = (1..k) \cup {k + 1}
    OBVIOUS
  <2>2. f[k] \in Seq(S) /\ seqs[k + 1] \in Seq(S) /\ f[k + 1] = f[k] \o seqs[k + 1]
    BY <1>2, <2>1 DEF Flat
  <2>3. U(k) \cap Hs[k + 1] = {}
    <3>1. \A i \in 1..k : i \in 1..n /\ i # k + 1
      OBVIOUS
    <3>2. QED BY <2>1, <3>1
  <2>4. U(k + 1) = U(k) \cup Hs[k + 1]
    BY <2>1
  <2>5. Lists(f[k], U(k), val) /\ Lists(seqs[k + 1], Hs[k + 1], val)
    BY <1>4, <2>1
  <2> DEFINE H == U(k)
             K == Hs[k + 1]
  <2>6. Lists(f[k] \o seqs[k + 1], H \cup K, val)
    <3>1. H \cap K = {} /\ Lists(f[k], H, val) /\ Lists(seqs[k + 1], K, val)
      BY <2>3, <2>5
    <3> HIDE DEF H, K
    <3>2. QED BY <2>2, <3>1, ListsJoin
  <2>7. Lists(f[k + 1], U(k + 1), val)
    BY <2>2, <2>4, <2>6
  <2> HIDE DEF U
  <2>8. QED BY <2>1, <2>7
<1>5. \A k \in 0..n : k \in A
  <2> HIDE DEF A
  <2>1. QED BY <1>3, <1>4, UpTo
<1>6. n \in A /\ f[n] \in Seq(S)
  <2>1. n \in 0..n
    OBVIOUS
  <2> HIDE DEF A
  <2>2. QED BY <1>2, <1>5, <2>1
<1>7. Lists(f[n], UNION {Hs[i] : i \in 1..n}, val)
  BY <1>6
<1>8. QED BY <1>1, <1>6, <1>7
================================================================================
