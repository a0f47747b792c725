---- MODULE Kie_proofs ----
(***************************************************************************)
(* Proofs about the receipt model: of Receipt, for receipts of any length, *)
(* what the labels and the walk make of words, items and spans, and what   *)
(* the document and its report say of them; of Delivery, for any number of *)
(* trainings, versions, failures and first requests, that one training and *)
(* one version arrive whole.                                               *)
(***************************************************************************)
EXTENDS Receipt, Delivery, FiniteSetTheorems, WellFoundedInduction, TLAPS

----------------------------------------------------------------------------
(* Naturals.                                                               *)

\* A set of naturals has a least element.
LEMMA LeastNat ==
  ASSUME NEW N \in SUBSET Nat, N # {}
  PROVE  \E n \in N : \A m \in N : n <= m
<1>. DEFINE R == {p \in Nat \X Nat : p[1] < p[2]}
<1>1. IsWellFoundedOn(R, Nat)
  <2>1. OpToRel(<, Nat) = R
    BY DEF OpToRel
  <2>. QED BY <2>1, NatLessThanWellFounded
<1>2. PICK n \in N : \A m \in N : <<m, n>> \notin R
  <2>. HIDE DEF R
  <2>. QED BY <1>1, WFMin
<1>3. ASSUME NEW m \in N PROVE n <= m
  <2>1. m \in Nat /\ n \in Nat /\ <<m, n>> \in Nat \X Nat /\ <<m, n>> \notin R
    BY <1>2
  <2>2. ~ (m < n)
    BY <2>1
  <2>. QED BY <2>1, <2>2
<1>. QED BY <1>3

\* Induction, for a set of naturals.
LEMMA AllNaturals ==
  ASSUME NEW N \in SUBSET Nat, 0 \in N, \A n \in N : n + 1 \in N
  PROVE  N = Nat
<1>1. SUFFICES ASSUME Nat \ N # {} PROVE FALSE
  OBVIOUS
<1>2. PICK n \in Nat \ N : \A m \in Nat \ N : n <= m
  BY <1>1, LeastNat
<1>3. n - 1 \in Nat /\ n - 1 \notin N /\ (n - 1) + 1 = n
  <2>1. n # 0
    BY <1>2
  <2>2. n - 1 \in Nat /\ (n - 1) + 1 = n
    BY <2>1
  <2>. QED BY <2>2
<1>. QED BY <1>2, <1>3

----------------------------------------------------------------------------
(* What the folds compute.                                                 *)

\* A fold of the subsets of S takes the element next[s] out of s, and op adds
\* it to what the fold of the others is.
Takes(S, next) == \A s \in SUBSET S : s # {} => next[s] \in s

FoldsOf(S, next, base, op, T) ==
  {g \in [SUBSET S -> T] : \A s \in SUBSET S :
     g[s] = IF s = {} THEN base ELSE op[<<next[s], g[s \ {next[s]}]>>]}

\* What holds for the empty set, and for a set if it does without the element
\* that a fold takes out of it, holds for every subset of a finite set.
LEMMA AllSubsets ==
  ASSUME NEW S, IsFiniteSet(S), NEW next, NEW Q \in SUBSET SUBSET S,
         Takes(S, next),
         {} \in Q,
         \A s \in SUBSET S : s # {} /\ s \ {next[s]} \in Q => s \in Q
  PROVE  Q = SUBSET S
<1>. DEFINE N == {n \in Nat : \A s \in SUBSET S : Cardinality(s) = n => s \in Q}
<1>1. ASSUME NEW s \in SUBSET S
      PROVE  /\ Cardinality(s) \in Nat /\ (Cardinality(s) = 0 <=> s = {})
             /\ s # {} => /\ s \ {next[s]} \in SUBSET S
                          /\ Cardinality(s \ {next[s]}) = Cardinality(s) - 1
  BY FS_Subset, FS_CardinalityType, FS_EmptySet, FS_RemoveElement DEF Takes
<1>2. 0 \in N
  BY <1>1
<1>3. ASSUME NEW n \in N PROVE n + 1 \in N
  <2>1. ASSUME NEW s \in SUBSET S, Cardinality(s) = n + 1 PROVE s \in Q
    <3>1. s # {} /\ Cardinality(s \ {next[s]}) = n
      BY <1>1, <2>1
    <3>. QED BY <1>1, <3>1
  <2>. QED BY <2>1
<1>4. N = Nat
  <2>. HIDE DEF N
  <2>. QED BY <1>2, <1>3, AllNaturals DEF N
<1>. QED BY <1>1, <1>4

\* There is a function that folds the subsets of a finite set.
LEMMA FoldExists ==
  ASSUME NEW S, IsFiniteSet(S), NEW next, NEW T, NEW base \in T,
         NEW op \in [S \X T -> T],
         Takes(S, next)
  PROVE  FoldsOf(S, next, base, op, T) # {}
<1>. DEFINE step(s, g) == IF s = {} THEN base ELSE op[<<next[s], g[s \ {next[s]}]>>]
            UpTo(n) == {s \in SUBSET S : Cardinality(s) <= n}
            Folds(n) == {g \in [UpTo(n) -> T] : \A s \in UpTo(n) : g[s] = step(s, g)}
<1>1. ASSUME NEW s \in SUBSET S, s # {}
      PROVE  /\ s \ {next[s]} \in SUBSET S /\ next[s] \in S
             /\ Cardinality(s) \in Nat \ {0}
             /\ Cardinality(s \ {next[s]}) = Cardinality(s) - 1
  <2>1. next[s] \in s
    BY <1>1 DEF Takes
  <2>2. IsFiniteSet(s)
    BY FS_Subset
  <2>. QED BY <2>1, <2>2, FS_RemoveElement, FS_CardinalityType, FS_EmptySet, <1>1
<1>2. Folds(0) # {}
  <2>1. ASSUME NEW s \in UpTo(0) PROVE s = {}
    <3>1. s \in SUBSET S /\ Cardinality(s) <= 0
      OBVIOUS
    <3>2. SUFFICES ASSUME s # {} PROVE FALSE
      OBVIOUS
    <3>3. Cardinality(s) \in Nat \ {0}
      BY <1>1, <3>1, <3>2
    <3>. QED BY <3>1, <3>3
  <2>. DEFINE h == [s \in UpTo(0) |-> base]
  <2>2. h \in [UpTo(0) -> T] /\ \A s \in UpTo(0) : h[s] = base
    <3>. HIDE DEF UpTo
    <3>. QED OBVIOUS
  <2>3. \A s \in UpTo(0) : step(s, h) = base
    BY <2>1
  <2>. HIDE DEF h, UpTo, step
  <2>. QED BY <2>2, <2>3
<1>3. ASSUME NEW n \in Nat, NEW g \in Folds(n)
      PROVE  Folds(n + 1) # {}
  <2>. DEFINE h == [s \in UpTo(n + 1) |-> step(s, g)]
  <2>1. g \in [UpTo(n) -> T] /\ \A s \in UpTo(n) : g[s] = step(s, g)
    OBVIOUS
  <2>2. ASSUME NEW s \in UpTo(n + 1), s # {}
        PROVE  s \ {next[s]} \in UpTo(n) /\ next[s] \in S
    <3>1. s \in SUBSET S /\ Cardinality(s) <= n + 1
      OBVIOUS
    <3>. QED BY <1>1, <2>2, <3>1
  <2>3. ASSUME NEW s \in UpTo(n + 1) PROVE h[s] = step(s, g) /\ h[s] \in T
    <3>1. s # {} => g[s \ {next[s]}] \in T /\ next[s] \in S
      BY <2>1, <2>2
    <3>. HIDE DEF UpTo
    <3>2. h[s] = step(s, g)
      OBVIOUS
    <3>. QED BY <3>1, <3>2
  <2>4. ASSUME NEW s \in UpTo(n) PROVE s \in UpTo(n + 1) /\ h[s] = g[s]
    <3>1. Cardinality(s) \in Nat
      BY FS_Subset, FS_CardinalityType
    <3>2. s \in UpTo(n + 1)
      BY <3>1
    <3>. HIDE DEF UpTo, h, step
    <3>. QED BY <2>1, <2>3, <3>2
  <2>5. ASSUME NEW s \in UpTo(n + 1) PROVE h[s] = step(s, h)
    <3>1. s # {} => h[s \ {next[s]}] = g[s \ {next[s]}]
      BY <2>2, <2>4
    <3>. HIDE DEF UpTo, h
    <3>. QED BY <2>3, <3>1
  <2>6. h \in [UpTo(n + 1) -> T]
    <3>. HIDE DEF UpTo, step
    <3>. QED BY <2>3
  <2>. HIDE DEF h, UpTo, step
  <2>. QED BY <2>5, <2>6
<1>4. Folds(Cardinality(S)) # {}
  <2>. DEFINE N == {n \in Nat : Folds(n) # {}}
  <2>. HIDE DEF Folds
  <2>1. 0 \in N
    BY <1>2
  <2>2. \A n \in N : n + 1 \in N
    BY <1>3
  <2>3. N = Nat
    <3>1. N \in SUBSET Nat
      OBVIOUS
    <3>. HIDE DEF N
    <3>. QED BY <2>1, <2>2, <3>1, AllNaturals
  <2>. QED BY <2>3, FS_CardinalityType
<1>5. UpTo(Cardinality(S)) = SUBSET S
  BY FS_Subset
<1>6. PICK g \in Folds(Cardinality(S)) : TRUE
  BY <1>4
<1>7. g \in [SUBSET S -> T] /\ \A s \in SUBSET S : g[s] = step(s, g)
  BY <1>5
<1>. QED BY <1>7 DEF FoldsOf

\* A sum of naturals is a natural.
LEMMA SumType ==
  ASSUME NEW S, IsFiniteSet(S), NEW f, \A x \in S : f[x] \in Nat
  PROVE  SumFunctionOnSet(f, S) \in Nat
<1>. DEFINE next == [s \in SUBSET S |-> CHOOSE x \in s : TRUE]
            op == [p \in S \X Nat |-> f[p[1]] + p[2]]
            step(s, g) == IF s = {} THEN 0
                          ELSE f[CHOOSE x \in s : TRUE] + g[s \ {CHOOSE x \in s : TRUE}]
            sum == CHOOSE g : g = [s \in SUBSET S |-> step(s, g)]
<1>1. SumFunctionOnSet(f, S) = sum[S]
  BY DEF SumFunctionOnSet, FoldFunctionOnSet, MapThenFoldSet
<1>2. ASSUME NEW s \in SUBSET S
      PROVE  /\ next[s] = CHOOSE x \in s : TRUE
             /\ s # {} => next[s] \in s /\ next[s] \in S /\ s \ {next[s]} \in SUBSET S
  OBVIOUS
<1>3. op \in [S \X Nat -> Nat]
  OBVIOUS
<1>4. Takes(S, next)
  BY <1>2 DEF Takes
<1>5. PICK g \in FoldsOf(S, next, 0, op, Nat) : TRUE
  <2>. HIDE DEF next, op
  <2>. QED BY <1>3, <1>4, FoldExists
<1>6. ASSUME NEW s \in SUBSET S PROVE g[s] = step(s, g)
  <2>1. s # {} => op[<<next[s], g[s \ {next[s]}]>>] = f[next[s]] + g[s \ {next[s]}]
    <3>1. s # {} => next[s] \in S /\ g[s \ {next[s]}] \in Nat
      BY <1>2 DEF FoldsOf
    <3>. HIDE DEF next
    <3>. QED BY <3>1
  <2>. HIDE DEF op
  <2>. QED BY <1>2, <2>1 DEF FoldsOf
<1>7. g = [s \in SUBSET S |-> step(s, g)]
  <2>1. g \in [SUBSET S -> Nat]
    BY DEF FoldsOf
  <2>. HIDE DEF step
  <2>. QED BY <1>6, <2>1
<1>8. sum = [s \in SUBSET S |-> step(s, sum)]
  BY <1>7
<1>9. {s \in SUBSET S : sum[s] \in Nat} = SUBSET S
  <2>. DEFINE Q == {s \in SUBSET S : sum[s] \in Nat}
  <2>. HIDE DEF sum
  <2>1. {} \in Q
    BY <1>8
  <2>2. ASSUME NEW s \in SUBSET S, s # {}, s \ {next[s]} \in Q PROVE s \in Q
    <3>1. sum[s] = f[next[s]] + sum[s \ {next[s]}]
      BY <1>2, <1>8, <2>2
    <3>. QED BY <1>2, <2>2, <3>1
  <2>. HIDE DEF Q, next
  <2>4. Q \in SUBSET SUBSET S
    BY DEF Q
  <2>5. Q = SUBSET S
    BY <1>4, <2>1, <2>2, <2>4, AllSubsets
  <2>. QED BY <2>5 DEF Q
<1>. QED BY <1>1, <1>9

\* The last of some positions of a sequence.
LEMMA MaxType ==
  ASSUME NEW n \in Nat, NEW s \in SUBSET (1 .. n), s # {}
  PROVE  Max(s) \in s
<1>. DEFINE D == {n - i : i \in s}
<1>1. \A i \in s : i \in Nat /\ n - i \in Nat
  OBVIOUS
<1>2. D \in SUBSET Nat /\ D # {}
  BY <1>1
<1>3. PICK d \in D : \A e \in D : d <= e
  <2>. HIDE DEF D
  <2>. QED BY <1>2, LeastNat
<1>4. PICK i \in s : d = n - i
  OBVIOUS
<1>5. ASSUME NEW j \in s PROVE i >= j
  <2>1. d <= n - j
    BY <1>3
  <2>. QED BY <1>1, <1>4, <2>1
<1>. QED BY <1>5 DEF Max

\* The digits of a text make a natural.
LEMMA NumberType ==
  ASSUME NEW A, NEW text \in Seq(A)
  PROVE  Number(text) \in Nat
<1>. DEFINE S == DOMAIN text
            next == [s \in SUBSET S |-> Max(s)]
            digit(i, value) == IF text[i] \in 0 .. 9 THEN 10 * value + text[i] ELSE value
            op == [p \in S \X Nat |-> digit(p[1], p[2])]
            step(s, g) == IF s = {} THEN 0 ELSE digit(Max(s), g[s \ {Max(s)}])
            number == CHOOSE g : g = [s \in SUBSET S |-> step(s, g)]
<1>0. Len(text) \in Nat /\ S = 1 .. Len(text) /\ IsFiniteSet(S)
  BY FS_Interval
<1>1. Number(text) = number[S]
  BY DEF Number, FoldLeft, MapThenFoldSet
<1>2. ASSUME NEW s \in SUBSET S
      PROVE  /\ next[s] = Max(s)
             /\ s # {} => next[s] \in s /\ next[s] \in S /\ s \ {next[s]} \in SUBSET S
  BY <1>0, MaxType
<1>3. ASSUME NEW i \in S, NEW value \in Nat PROVE digit(i, value) \in Nat
  <2>1. \A d \in 0 .. 9 : 10 * value + d \in Nat
    OBVIOUS
  <2>. QED BY <2>1
<1>4. op \in [S \X Nat -> Nat]
  BY <1>3
<1>5. Takes(S, next)
  BY <1>2 DEF Takes
<1>6. PICK g \in FoldsOf(S, next, 0, op, Nat) : TRUE
  <2>1. IsFiniteSet(S) /\ 0 \in Nat
    BY <1>0
  <2>. HIDE DEF next, op, S
  <2>. QED BY <1>4, <1>5, <2>1, FoldExists
<1>7. ASSUME NEW s \in SUBSET S PROVE g[s] = step(s, g)
  <2>1. s # {} => op[<<next[s], g[s \ {next[s]}]>>] = digit(next[s], g[s \ {next[s]}])
    <3>1. s # {} => next[s] \in S /\ g[s \ {next[s]}] \in Nat
      BY <1>2 DEF FoldsOf
    <3>. HIDE DEF next, S, digit
    <3>. QED BY <3>1
  <2>. HIDE DEF op, S, next, digit
  <2>. QED BY <1>2, <2>1 DEF FoldsOf
<1>8. g = [s \in SUBSET S |-> step(s, g)]
  <2>1. g \in [SUBSET S -> Nat]
    BY DEF FoldsOf
  <2>. HIDE DEF step, S
  <2>. QED BY <1>7, <2>1
<1>9. number = [s \in SUBSET S |-> step(s, number)]
  <2>. HIDE DEF step, S
  <2>. QED BY <1>8
<1>10. {s \in SUBSET S : number[s] \in Nat} = SUBSET S
  <2>. DEFINE Q == {s \in SUBSET S : number[s] \in Nat}
  <2>. HIDE DEF number, S, digit, next
  <2>1. {} \in Q
    BY <1>9
  <2>2. ASSUME NEW s \in SUBSET S, s # {}, s \ {next[s]} \in Q PROVE s \in Q
    <3>1. number[s] = digit(next[s], number[s \ {next[s]}])
      BY <1>2, <1>9, <2>2
    <3>2. next[s] \in S /\ number[s \ {next[s]}] \in Nat
      BY <1>2, <2>2
    <3>. QED BY <1>3, <3>1, <3>2
  <2>3. Q \in SUBSET SUBSET S
    OBVIOUS
  <2>. HIDE DEF Q
  <2>4. Q = SUBSET S
    BY <1>0, <1>5, <2>1, <2>2, <2>3, AllSubsets
  <2>. QED BY <2>4 DEF Q
<1>. QED BY <1>1, <1>10

\* Sequences that are joined make one that is no shorter than any of them.
LEMMA FlattenSeqType ==
  ASSUME NEW A, NEW seqs \in Seq(Seq(A))
  PROVE  /\ FlattenSeq(seqs) \in Seq(A)
         /\ \A n \in 1 .. Len(seqs) : Len(seqs[n]) <= Len(FlattenSeq(seqs))
<1>. DEFINE step(i, g) == IF i = 1 THEN seqs[i] ELSE g[i - 1] \o seqs[i]
            Flats(n) == {g \in [1 .. n -> Seq(A)] : \A i \in 1 .. n : g[i] = step(i, g)}
            flat == CHOOSE g : g = [i \in 1 .. Len(seqs) |-> step(i, g)]
<1>1. Len(seqs) \in Nat /\ \A i \in 1 .. Len(seqs) : seqs[i] \in Seq(A)
  OBVIOUS
<1>2. CASE Len(seqs) = 0
  BY <1>2 DEF FlattenSeq
<1>3. CASE Len(seqs) # 0
  <2>1. FlattenSeq(seqs) = flat[Len(seqs)]
    BY <1>3 DEF FlattenSeq
  <2>2. Flats(0) # {}
    <3>1. [i \in 1 .. 0 |-> <<>>] \in Flats(0)
      OBVIOUS
    <3>. QED BY <3>1
  <2>3. ASSUME NEW n \in Nat, n + 1 <= Len(seqs), NEW g \in Flats(n)
        PROVE  Flats(n + 1) # {}
    <3>. DEFINE h == [i \in 1 .. n + 1 |-> step(i, g)]
    <3>1. ASSUME NEW i \in 1 .. n + 1 PROVE h[i] = step(i, g) /\ h[i] \in Seq(A)
      <4>1. i # 1 => i - 1 \in 1 .. n /\ g[i - 1] \in Seq(A)
        OBVIOUS
      <4>. QED BY <1>1, <2>3, <4>1
    <3>2. ASSUME NEW i \in 1 .. n PROVE h[i] = g[i] /\ i \in 1 .. n + 1
      <4>1. \A j \in 1 .. n : g[j] = step(j, g)
        BY <2>3
      <4>2. i \in 1 .. n + 1
        OBVIOUS
      <4>. HIDE DEF h, step
      <4>. QED BY <3>1, <4>1, <4>2
    <3>3. ASSUME NEW i \in 1 .. n + 1 PROVE h[i] = step(i, h)
      <4>1. i # 1 => i - 1 \in 1 .. n
        OBVIOUS
      <4>. HIDE DEF h
      <4>. QED BY <3>1, <3>2, <4>1
    <3>4. h \in [1 .. n + 1 -> Seq(A)]
      BY <3>1
    <3>. HIDE DEF h, step
    <3>. QED BY <3>3, <3>4
  <2>4. Flats(Len(seqs)) # {}
    <3>. DEFINE N == {n \in Nat : n <= Len(seqs) => Flats(n) # {}}
    <3>. HIDE DEF Flats
    <3>1. 0 \in N
      BY <2>2
    <3>2. ASSUME NEW n \in N PROVE n + 1 \in N
      BY <1>1, <2>3
    <3>3. N \in SUBSET Nat
      OBVIOUS
    <3>4. N = Nat
      <4>. HIDE DEF N
      <4>. QED BY <3>1, <3>2, <3>3, AllNaturals
    <3>. QED BY <1>1, <3>4
  <2>5. \E g : g = [i \in 1 .. Len(seqs) |-> step(i, g)]
    <3>1. PICK g \in Flats(Len(seqs)) : TRUE
      BY <2>4
    <3>2. g \in [1 .. Len(seqs) -> Seq(A)] /\ \A i \in 1 .. Len(seqs) : g[i] = step(i, g)
      OBVIOUS
    <3>. HIDE DEF step
    <3>. QED BY <3>2
  <2>6. flat = [i \in 1 .. Len(seqs) |-> step(i, flat)]
    <3>. HIDE DEF step
    <3>. QED BY <2>5
  <2>. HIDE DEF flat
  <2>. DEFINE Long(n) == flat[n] \in Seq(A) /\ \A m \in 1 .. n : Len(seqs[m]) <= Len(flat[n])
              N == {n \in Nat : n + 1 <= Len(seqs) => Long(n + 1)}
  <2>7. 0 \in N
    <3>1. flat[1] = seqs[1]
      BY <1>1, <1>3, <2>6
    <3>. QED BY <1>1, <1>3, <3>1
  <2>8. ASSUME NEW i \in 2 .. Len(seqs), Long(i - 1) PROVE Long(i)
    <3>1. /\ i \in 1 .. Len(seqs) /\ i # 1 /\ i - 1 \in 1 .. Len(seqs)
          /\ flat[i - 1] \in Seq(A) /\ seqs[i] \in Seq(A)
      BY <1>1, <2>8
    <3>2. flat[i] = flat[i - 1] \o seqs[i]
      BY <2>6, <3>1
    <3>3. /\ flat[i] \in Seq(A)
          /\ Len(flat[i]) = Len(flat[i - 1]) + Len(seqs[i])
          /\ Len(flat[i - 1]) \in Nat /\ Len(seqs[i]) \in Nat
      BY <3>1, <3>2
    <3>4. /\ Len(flat[i - 1]) <= Len(flat[i]) /\ Len(seqs[i]) <= Len(flat[i])
          /\ Len(flat[i]) \in Nat
      <4>1. \A x, y \in Nat : x <= x + y /\ y <= x + y /\ x + y \in Nat
        OBVIOUS
      <4>. QED BY <3>3, <4>1
    <3>5. ASSUME NEW m \in 1 .. i PROVE Len(seqs[m]) <= Len(flat[i])
      <4>1. CASE m = i
        BY <3>4, <4>1
      <4>2. CASE m # i
        <5>1. m \in 1 .. i - 1 /\ m \in 1 .. Len(seqs)
          BY <4>2
        <5>2. Len(seqs[m]) <= Len(flat[i - 1]) /\ Len(seqs[m]) \in Nat
          BY <1>1, <2>8, <5>1
        <5>3. \A x, y, z \in Nat : x <= y /\ y <= z => x <= z
          OBVIOUS
        <5>. QED BY <3>3, <3>4, <5>2, <5>3
      <4>. QED BY <4>1, <4>2
    <3>. QED BY <3>3, <3>5
  <2>9. ASSUME NEW n \in N PROVE n + 1 \in N
    <3>1. SUFFICES ASSUME (n + 1) + 1 <= Len(seqs) PROVE Long((n + 1) + 1)
      OBVIOUS
    <3>2. n \in Nat /\ Long(n + 1)
      BY <1>1, <3>1
    <3>. HIDE DEF Long, N
    <3>3. PICK i \in 2 .. Len(seqs) : i = (n + 1) + 1 /\ i - 1 = n + 1
      BY <1>1, <3>1, <3>2
    <3>4. Long(i)
      BY <2>8, <3>2, <3>3
    <3>. QED BY <3>3, <3>4
  <2>10. N \in SUBSET Nat
    OBVIOUS
  <2>11. N = Nat
    <3>. HIDE DEF N
    <3>. QED BY <2>7, <2>9, <2>10, AllNaturals
  <2>12. Long(Len(seqs))
    <3>1. Len(seqs) - 1 \in Nat /\ (Len(seqs) - 1) + 1 = Len(seqs)
      BY <1>1, <1>3
    <3>2. \A n \in Nat : n + 1 <= Len(seqs) => Long(n + 1)
      BY <2>11
    <3>3. PICK k \in Nat : k + 1 = Len(seqs)
      BY <3>1
    <3>. HIDE DEF Long
    <3>4. Long(k + 1)
      BY <1>1, <3>2, <3>3
    <3>. QED BY <3>3, <3>4
  <2>. QED BY <2>1, <2>12
<1>. QED BY <1>2, <1>3

----------------------------------------------------------------------------
(* Receipt: the labels and the walk.                                       *)

\* No word is read yet.
LEMMA InitInv == Init => ReceiptInv
<1>. SUFFICES ASSUME Init PROVE ReceiptInv
  OBVIOUS
<1>1. WellFormed(receipt) /\ receipt.wordId \in Seq(Nat \ {0})
  BY ReceiptAssumption DEF Init, WellFormed, ReceiptType
<1>2. ReceiptTypeOK
  BY <1>1 DEF Init, ReceiptTypeOK, Scalars
<1>3. LabelInv /\ WalkInv /\ FirstTokenWins /\ WordsShareItems /\ WordsShareSpans
  BY DEF Init, LabelInv, WalkInv, FirstTokenWins, WordsShareItems, WordsShareSpans,
         Collected
<1>. QED BY <1>2, <1>3 DEF ReceiptInv

\* What the next token belongs to: the last word seen or the one after it.
LEMMA NextToken ==
  ASSUME ReceiptTypeOK, LabelInv, token < Len(receipt.wordId)
  PROVE  /\ token + 1 \in 1 .. Len(receipt.wordId)
         /\ receipt.wordId[token + 1] \in {Len(predictions), Len(predictions) + 1}
         /\ receipt.wordId[token + 1] # 0
<1> DEFINE ids == receipt.wordId
<1>1. /\ token \in Nat /\ ids \in Seq(Nat \ {0}) /\ Len(ids) \in Nat
      /\ Len(predictions) \in Nat
  BY DEF ReceiptTypeOK, WellFormed, ReceiptType
<1>2. InOrder(ids, Len(receipt.text))
  BY DEF ReceiptTypeOK, WellFormed
<1>3. /\ token > 0 => Len(predictions) = ids[token]
      /\ token = 0 => Len(predictions) = 0
  BY DEF LabelInv
<1>. HIDE DEF ids
<1>4. token + 1 \in 1 .. Len(ids) /\ ids[token + 1] \in Nat \ {0}
  BY <1>1 DEF ids
<1>5. CASE token = 0
  <2>1. ids # <<>>
    BY <1>1, <1>4
  <2>2. ids[1] = 1
    BY <1>2, <2>1 DEF InOrder
  <2>. QED BY <1>3, <1>4, <1>5, <2>2 DEF ids
<1>6. CASE token > 0
  <2>1. token \in 1 .. Len(ids) - 1
    BY <1>1, <1>4, <1>6
  <2>2. ids[token + 1] \in {ids[token], ids[token] + 1}
    BY <1>2, <2>1 DEF InOrder
  <2>. QED BY <1>3, <1>4, <1>6, <2>2 DEF ids
<1>. QED BY <1>1, <1>5, <1>6, <1>4 DEF ids

\* Reading a token keeps the words in order, one prediction each.
LEMMA LabelTokenStep ==
  ASSUME ReceiptInv, LabelToken
  PROVE  ReceiptInv'
<1> DEFINE w == receipt.wordId[token + 1]
           N == Len(predictions)
<1>1. /\ ReceiptTypeOK /\ LabelInv /\ WalkInv /\ FirstTokenWins
      /\ WordsShareItems /\ WordsShareSpans
      /\ predictions \in Seq([word : Nat \ {0}, label : Labels, conf : Nat])
      /\ N \in Nat /\ token \in Nat
  BY DEF ReceiptInv, ReceiptTypeOK
<1>2. token + 1 \in 1 .. Len(receipt.wordId) /\ w \in {N, N + 1} /\ w # 0
  BY <1>1, NextToken DEF LabelToken
<1>3. itemOf = <<>> /\ spanOf = <<>>
  BY <1>1 DEF LabelToken, LabelInv
<1>4. w \in Seen <=> w = N
  <2>1. \A n \in 1 .. N : predictions[n].word = n
    BY <1>1 DEF FirstTokenWins
  <2>2. w \in Seen <=> w \in 1 .. N
    BY <2>1 DEF Seen
  <2>. QED BY <1>1, <1>2, <2>2
<1>5. Prediction(token + 1) \in [word : Nat \ {0}, label : Labels, conf : Nat]
  BY <1>1, <1>2 DEF Prediction, ReceiptTypeOK, WellFormed, ReceiptType
<1>6. predictions' = IF w = N THEN predictions
                     ELSE Append(predictions, Prediction(token + 1))
  BY <1>4 DEF LabelToken
<1>7. Len(predictions') = w
  BY <1>1, <1>2, <1>6
<1>8. ReceiptTypeOK'
  <2>1. Append(predictions, Prediction(token + 1))
          \in Seq([word : Nat \ {0}, label : Labels, conf : Nat])
    BY <1>1, <1>5
  <2>2. predictions' \in Seq([word : Nat \ {0}, label : Labels, conf : Nat])
    BY <1>1, <1>6, <2>1
  <2>. QED BY <1>1, <1>2, <2>2 DEF LabelToken, ReceiptTypeOK, walkVars
<1>9. LabelInv'
  <2>1. \A u \in 1 .. token : receipt.wordId[u] <= N
    BY <1>1 DEF LabelInv
  <2>2. \A u \in 1 .. token : receipt.wordId[u] \in Nat
    BY <1>1 DEF ReceiptTypeOK, WellFormed, ReceiptType
  <2>3. \A u \in 1 .. token + 1 : receipt.wordId[u] <= w
    BY <1>1, <1>2, <2>1, <2>2
  <2>. QED BY <1>1, <1>2, <1>3, <1>7, <2>3 DEF LabelToken, LabelInv, walkVars
<1>10. FirstTokenWins'
  <2>1. token' = token + 1 /\ receipt' = receipt
    BY DEF LabelToken
  <2>2. ASSUME NEW n \in 1 .. N
        PROVE  /\ predictions'[n] = predictions[n]
               /\ predictions[n].word = n
               /\ \E t \in 1 .. token + 1 :
                    /\ predictions[n] = Prediction(t)
                    /\ \A u \in 1 .. t - 1 : receipt.wordId[u] < n
    BY <1>1, <1>6 DEF FirstTokenWins
  <2>3. CASE w = N
    BY <1>6, <2>1, <2>2, <2>3 DEF FirstTokenWins, Prediction
  <2>4. CASE w = N + 1
    <3>1. Len(predictions') = N + 1 /\ predictions'[N + 1] = Prediction(token + 1)
      BY <1>1, <1>6, <2>4
    <3>2. \A u \in 1 .. token : receipt.wordId[u] < N + 1
      <4>1. \A u \in 1 .. token : receipt.wordId[u] \in Nat
        BY <1>1 DEF ReceiptTypeOK, WellFormed, ReceiptType
      <4>2. \A u \in 1 .. token : receipt.wordId[u] <= N
        BY <1>1 DEF LabelInv
      <4>. QED BY <1>1, <4>1, <4>2
    <3>3. Prediction(token + 1).word = N + 1
      BY <2>4 DEF Prediction
    <3>4. \A t : Prediction(t)' = Prediction(t)
      BY <2>1 DEF Prediction
    <3>5. ASSUME NEW n \in 1 .. N + 1
          PROVE  /\ predictions'[n].word = n
                 /\ \E t \in 1 .. token + 1 :
                      /\ predictions'[n] = Prediction(t)
                      /\ \A u \in 1 .. t - 1 : receipt.wordId[u] < n
      <4>1. CASE n \in 1 .. N
        BY <4>1, <2>2
      <4>2. CASE n = N + 1
        <5>1. \A u \in 1 .. (token + 1) - 1 : receipt.wordId[u] < n
          BY <1>1, <3>2, <4>2
        <5>. QED BY <1>1, <3>1, <3>3, <4>2, <5>1
      <4>. QED BY <1>1, <4>1, <4>2
    <3>. QED BY <2>1, <3>1, <3>4, <3>5 DEF FirstTokenWins
  <2>. QED BY <1>2, <2>3, <2>4
<1>11. (WalkInv /\ WordsShareItems /\ WordsShareSpans)'
  <2>1. items' = items /\ itemOf' = <<>> /\ spanOf' = <<>> /\ Len(predictions') \in Nat
    BY <1>2, <1>3, <1>7, <1>8 DEF LabelToken, walkVars, ReceiptTypeOK
  <2>2. items = 0
    BY <1>1, <1>3 DEF WalkInv, Collected
  <2>. QED BY <2>1, <2>2 DEF WalkInv, WordsShareItems, WordsShareSpans, Collected
<1>. QED BY <1>8, <1>9, <1>10, <1>11 DEF ReceiptInv

\* The field of a word is one of the labels', and only a line field starts an item.
LEMMA CategoryType ==
  ASSUME ReceiptTypeOK, NEW n \in 1 .. Len(predictions)
  PROVE  /\ Category(n) \in LineFields \union Scalars \union {"outside"}
         /\ StartsItem(n) => Category(n) \in LineFields
         /\ ~(Category(n) \in LineFields /\ Category(n) \in Scalars)
<1> DEFINE T == [word : Nat \ {0}, label : Labels, conf : Nat]
<1>1. predictions[n] \in T
  <2>1. predictions \in Seq(T)
    BY DEF ReceiptTypeOK
  <2>. HIDE DEF T
  <2>. QED BY <2>1
<1>2. Category(n) \in LineFields \union Scalars \union {"outside"}
  BY <1>1 DEF Labels, Category
<1>. QED BY <1>2 DEF StartsItem, LineFields, Scalars

\* What one step of the walk does to the words before, and to its own.
LEMMA CollectWordEffect ==
  ASSUME ReceiptInv, CollectWord, NEW n, n = Len(itemOf) + 1
  PROVE  /\ n \in Nat \ {0} /\ n <= Len(predictions)
         /\ Len(itemOf') = n /\ Len(spanOf') = n
         /\ Collected = 1 .. n - 1 /\ Collected' = 1 .. n
         /\ \A m \in 1 .. n - 1 : itemOf'[m] = itemOf[m] /\ spanOf'[m] = spanOf[m]
         /\ OfLine(n) => itemOf'[n] = items'
         /\ Category(n) \in Scalars => spanOf'[n] = spans'[Category(n)]
         /\ items' = IF StartsItem(n) THEN items + 1 ELSE items
         /\ spans' = IF Category(n) \in Scalars
                          /\ (Begins(n) \/ spans[Category(n)] = 0)
                       THEN [spans EXCEPT ![Category(n)] = @ + 1] ELSE spans
         /\ ReceiptTypeOK'
<1>1. /\ ReceiptTypeOK /\ itemOf \in Seq(Nat) /\ spanOf \in Seq(Nat) /\ items \in Nat
      /\ spans \in [Scalars -> Nat] /\ Len(spanOf) = Len(itemOf)
      /\ Len(itemOf) \in Nat /\ Len(predictions) \in Nat
  BY DEF ReceiptInv, ReceiptTypeOK, WalkInv
<1>2. n \in Nat \ {0} /\ n - 1 = Len(itemOf) /\ n <= Len(predictions)
  BY <1>1 DEF CollectWord
<1>3. items' = IF StartsItem(n) THEN items + 1 ELSE items
  BY DEF CollectWord
<1>4. spans' = IF Category(n) \in Scalars /\ (Begins(n) \/ spans[Category(n)] = 0)
               THEN [spans EXCEPT ![Category(n)] = @ + 1] ELSE spans
  BY DEF CollectWord
<1> DEFINE i == IF Category(n) \in LineFields THEN items' ELSE 0
           s == IF Category(n) \in Scalars THEN spans'[Category(n)] ELSE 0
<1>5. itemOf' = Append(itemOf, i) /\ spanOf' = Append(spanOf, s)
  BY DEF CollectWord
<1>6. items' \in Nat /\ spans' \in [Scalars -> Nat]
  BY <1>1, <1>3, <1>4
<1>7. i \in Nat /\ s \in Nat
  BY <1>6
<1>. HIDE DEF i, s
<1>8. /\ Len(itemOf') = n /\ itemOf'[n] = i /\ itemOf' \in Seq(Nat)
      /\ \A m \in 1 .. n - 1 : itemOf'[m] = itemOf[m]
  BY <1>1, <1>2, <1>5, <1>7
<1>9. /\ Len(spanOf') = n /\ spanOf'[n] = s /\ spanOf' \in Seq(Nat)
      /\ \A m \in 1 .. n - 1 : spanOf'[m] = spanOf[m]
  BY <1>1, <1>2, <1>5, <1>7
<1>10. ReceiptTypeOK'
  BY <1>1, <1>6, <1>8, <1>9 DEF CollectWord, ReceiptTypeOK, inputVars
<1>11. /\ OfLine(n) => itemOf'[n] = items'
       /\ Category(n) \in Scalars => spanOf'[n] = spans'[Category(n)]
  BY <1>8, <1>9 DEF i, s, OfLine
<1>. QED BY <1>2, <1>3, <1>4, <1>8, <1>9, <1>10, <1>11 DEF Collected

\* A word that is walked over keeps the relation of items and spans to words.
LEMMA CollectWordStep ==
  ASSUME ReceiptInv, CollectWord
  PROVE  ReceiptInv'
<1> DEFINE n == Len(itemOf) + 1
           Quiet(m, l) == \A k \in m .. l : ~StartsItem(k)
           Same(f, m, l) == \A k \in m .. l : ~(Category(k) = f /\ Begins(k))
<1>1. /\ ReceiptTypeOK /\ LabelInv /\ WalkInv /\ FirstTokenWins
      /\ WordsShareItems /\ WordsShareSpans
      /\ items \in Nat /\ spans \in [Scalars -> Nat] /\ itemOf \in Seq(Nat)
  BY DEF ReceiptInv, ReceiptTypeOK
<1>2. /\ receipt' = receipt /\ token' = token /\ predictions' = predictions
      /\ pc = "collect" /\ pc' = pc
  BY DEF CollectWord, inputVars
<1>3. /\ \A k : Category(k)' = Category(k) /\ Begins(k)' = Begins(k)
      /\ \A k : StartsItem(k)' = StartsItem(k) /\ OfLine(k)' = OfLine(k)
      /\ \A k : Prediction(k)' = Prediction(k)
  BY <1>2 DEF Category, Begins, StartsItem, OfLine, Prediction
<1>4. /\ n \in Nat \ {0} /\ n <= Len(predictions)
      /\ Len(itemOf') = n /\ Len(spanOf') = n
      /\ Collected = 1 .. n - 1 /\ Collected' = 1 .. n
      /\ \A m \in 1 .. n - 1 : itemOf'[m] = itemOf[m] /\ spanOf'[m] = spanOf[m]
      /\ OfLine(n) => itemOf'[n] = items'
      /\ Category(n) \in Scalars => spanOf'[n] = spans'[Category(n)]
      /\ items' = IF StartsItem(n) THEN items + 1 ELSE items
      /\ spans' = IF Category(n) \in Scalars
                       /\ (Begins(n) \/ spans[Category(n)] = 0)
                    THEN [spans EXCEPT ![Category(n)] = @ + 1] ELSE spans
      /\ ReceiptTypeOK'
  BY CollectWordEffect
<1>5. Len(itemOf) = n - 1
  BY <1>1
<1>. HIDE DEF n
<1>6. items' = 0 <=> Quiet(1, n)
  <2>1. items = 0 <=> Quiet(1, n - 1)
    BY <1>1, <1>4 DEF WalkInv
  <2>. QED BY <1>1, <1>4, <2>1
<1>7. ASSUME NEW m \in 1 .. n, OfLine(m)
      PROVE  itemOf'[m] <= items' /\ (itemOf'[m] = items' <=> Quiet(m + 1, n))
  <2>1. CASE m = n
    BY <1>1, <1>4, <1>7, <2>1
  <2>2. CASE m \in 1 .. n - 1
    <3>1. itemOf[m] <= items /\ (itemOf[m] = items <=> Quiet(m + 1, n - 1))
      BY <1>1, <1>4, <1>5, <1>7, <2>2 DEF WalkInv
    <3>2. itemOf[m] \in Nat
      BY <1>1, <1>5, <2>2
    <3>3. Quiet(m + 1, n) <=> Quiet(m + 1, n - 1) /\ ~StartsItem(n)
      BY <1>4, <2>2
    <3>. HIDE DEF Quiet
    <3>. QED BY <1>1, <1>4, <2>2, <3>1, <3>2, <3>3
  <2>. QED BY <1>4, <2>1, <2>2
<1>8. ASSUME NEW m \in 1 .. n, Category(m) \in Scalars
      PROVE  /\ spanOf'[m] \in 1 .. spans'[Category(m)]
             /\ spanOf'[m] = spans'[Category(m)] <=> Same(Category(m), m + 1, n)
  <2>1. \A f \in Scalars : spans[f] \in Nat
    BY <1>1
  <2>2. CASE m = n
    <3>1. spans'[Category(n)] \in Nat \ {0}
      BY <1>1, <1>4, <1>8, <2>1, <2>2
    <3>. QED BY <1>4, <1>8, <2>2, <3>1
  <2>3. CASE m \in 1 .. n - 1
    <3> DEFINE f == Category(m)
    <3>1. /\ spanOf[m] \in 1 .. spans[f]
          /\ spanOf[m] = spans[f] <=> Same(f, m + 1, n - 1)
      BY <1>1, <1>4, <1>5, <1>8, <2>3 DEF WalkInv
    <3>2. Same(f, m + 1, n) <=> Same(f, m + 1, n - 1) /\ ~(Category(n) = f /\ Begins(n))
      BY <1>4, <2>3
    <3>3. spans[f] # 0 /\ spans[f] \in Nat
      BY <1>8, <2>1, <3>1
    <3>4. spans'[f] = IF Category(n) = f /\ Begins(n) THEN spans[f] + 1 ELSE spans[f]
      BY <1>1, <1>4, <1>8, <3>3
    <3>5. spanOf'[m] = spanOf[m]
      BY <1>4, <2>3
    <3>. HIDE DEF Same, f
    <3>6. /\ spanOf'[m] \in 1 .. spans'[f]
          /\ spanOf'[m] = spans'[f] <=> Same(f, m + 1, n)
      BY <3>1, <3>2, <3>3, <3>4, <3>5
    <3>. QED BY <3>6 DEF f
  <2>. QED BY <1>4, <2>2, <2>3
<1>9. WalkInv'
  BY <1>2, <1>3, <1>4, <1>6, <1>7, <1>8 DEF WalkInv
<1>10. WordsShareItems'
  <2>1. ASSUME NEW l \in 1 .. n - 1, OfLine(l)
        PROVE  /\ itemOf'[l] = 0 <=> Quiet(1, l)
               /\ \A m \in 1 .. l :
                    OfLine(m) => (itemOf'[m] = itemOf'[l] <=> Quiet(m + 1, l))
    BY <1>1, <1>4, <2>1 DEF WordsShareItems
  <2>2. OfLine(n) => /\ itemOf'[n] = 0 <=> Quiet(1, n)
                     /\ \A m \in 1 .. n :
                          OfLine(m) => (itemOf'[m] = itemOf'[n] <=> Quiet(m + 1, n))
    BY <1>4, <1>6, <1>7
  <2>3. \A l \in 1 .. n : l = n \/ l \in 1 .. n - 1
    BY <1>4
  <2>. QED BY <1>3, <1>4, <2>1, <2>2, <2>3 DEF WordsShareItems
<1>11. WordsShareSpans'
  <2>1. ASSUME NEW l \in 1 .. n - 1, NEW m \in 1 .. l,
               Category(l) = Category(m), Category(l) \in Scalars
        PROVE  spanOf'[m] = spanOf'[l] <=> Same(Category(l), m + 1, l)
    BY <1>1, <1>4, <2>1 DEF WordsShareSpans
  <2>2. ASSUME NEW m \in 1 .. n, Category(n) = Category(m), Category(n) \in Scalars
        PROVE  spanOf'[m] = spanOf'[n] <=> Same(Category(n), m + 1, n)
    BY <1>4, <1>8, <2>2
  <2>3. \A l \in 1 .. n : l = n \/ l \in 1 .. n - 1
    BY <1>4
  <2>. QED BY <1>3, <1>4, <2>1, <2>2, <2>3 DEF WordsShareSpans
<1>12. LabelInv' /\ FirstTokenWins'
  BY <1>1, <1>2, <1>3 DEF LabelInv, FirstTokenWins
<1>. QED BY <1>4, <1>9, <1>10, <1>11, <1>12 DEF ReceiptInv

----------------------------------------------------------------------------
(* The theorems.                                                           *)

\* The other steps change neither labels nor items nor spans.
LEMMA OtherSteps ==
  ASSUME ReceiptInv, EndTokens \/ EndWords \/ BuildDocument \/ Validate \/ UNCHANGED vars
  PROVE  ReceiptInv'
<1>1. UNCHANGED <<inputVars, walkVars>>
  BY DEF EndTokens, EndWords, BuildDocument, Validate, vars
<1>2. pc' \in {"label", "collect", "build", "validate", "done"}
  BY DEF EndTokens, EndWords, BuildDocument, Validate, vars, ReceiptInv, ReceiptTypeOK
<1>3. pc' = "label" => pc = "label"
  BY DEF EndTokens, EndWords, BuildDocument, Validate, vars
<1>4. /\ ReceiptTypeOK /\ LabelInv /\ WalkInv /\ FirstTokenWins
      /\ WordsShareItems /\ WordsShareSpans
  BY DEF ReceiptInv
<1>5. ReceiptTypeOK' /\ LabelInv'
  BY <1>1, <1>2, <1>3, <1>4 DEF ReceiptTypeOK, LabelInv, inputVars, walkVars
<1>6. /\ Collected' = Collected
      /\ \A k : Category(k)' = Category(k) /\ Begins(k)' = Begins(k)
      /\ \A k : StartsItem(k)' = StartsItem(k) /\ OfLine(k)' = OfLine(k)
      /\ \A k : Prediction(k)' = Prediction(k)
  BY <1>1 DEF Collected, Category, Begins, StartsItem, OfLine, Prediction,
              inputVars, walkVars
<1>7. (WalkInv /\ FirstTokenWins /\ WordsShareItems /\ WordsShareSpans)'
  BY <1>1, <1>4, <1>6 DEF WalkInv, FirstTokenWins, WordsShareItems, WordsShareSpans,
                          inputVars, walkVars
<1>. QED BY <1>5, <1>7 DEF ReceiptInv

LEMMA NextInv == ReceiptInv /\ [Next]_vars => ReceiptInv'
<1>. SUFFICES ASSUME ReceiptInv, [Next]_vars PROVE ReceiptInv'
  OBVIOUS
<1>1. CASE LabelToken BY <1>1, LabelTokenStep
<1>2. CASE CollectWord BY <1>2, CollectWordStep
<1>3. CASE EndTokens \/ EndWords \/ BuildDocument \/ Validate \/ UNCHANGED vars
  BY <1>3, OtherSteps
<1>. QED BY <1>1, <1>2, <1>3 DEF Next

\* The inductive invariant holds for receipts of any length, whatever the
\* tokenizer cut off and the model answered.
THEOREM Invariance == Spec => []ReceiptInv
BY InitInv, NextInv, PTL DEF Spec

\* words_from_token_logits gives the words in reading order, without a gap or a
\* double, each with the label of its first token.
THEOREM FirstSubwordWins == Spec => []FirstTokenWins
<1>1. ReceiptInv => FirstTokenWins BY DEF ReceiptInv
<1>. QED BY <1>1, Invariance, PTL

\* The walk puts two words in one line item just if no item starts between them.
THEOREM ItemsFollowNames == Spec => []WordsShareItems
<1>1. ReceiptInv => WordsShareItems BY DEF ReceiptInv
<1>. QED BY <1>1, Invariance, PTL

\* The walk puts two words of a field in one span just if no span of that field
\* begins between them.
THEOREM SpansAreNeverGlued == Spec => []WordsShareSpans
<1>1. ReceiptInv => WordsShareSpans BY DEF ReceiptInv
<1>. QED BY <1>1, Invariance, PTL

\* Whatever order the fields of a receipt are interleaved in, the walk groups
\* its words as their labels say.
THEOREM GroupsFollowLabels == Spec => []WordsAreGrouped
<1>1. WordsShareItems /\ WordsShareSpans => WordsAreGrouped BY DEF WordsAreGrouped
<1>. QED BY <1>1, ItemsFollowNames, SpansAreNeverGlued, PTL

----------------------------------------------------------------------------
(* Receipt: texts, amounts and the chosen span.                            *)

\* What a text is read as is an amount, or nothing.
LEMMA ParseMoneyType ==
  ASSUME NEW A, NEW t \in Seq(A)
  PROVE  ParseMoney(t) \in Amounts
<1>1. Number(t) \in Nat
  BY NumberType
<1>. QED BY <1>1 DEF ParseMoney, Amounts

\* Every word that was seen has a text.
LEMMA TextOfWord ==
  ASSUME ReceiptInv, NEW n \in 1 .. Len(predictions)
  PROVE  receipt.text[predictions[n].word] \in Texts
<1>1. /\ WellFormed(receipt) /\ token \in 0 .. Len(receipt.wordId) /\ FirstTokenWins
  BY DEF ReceiptInv, ReceiptTypeOK
<1>2. PICK t \in 1 .. token : predictions[n] = Prediction(t) /\ predictions[n].word = n
  BY <1>1 DEF FirstTokenWins
<1>3. /\ receipt.wordId \in Seq(Nat \ {0}) /\ receipt.text \in Seq(Texts)
      /\ \A u \in 1 .. Len(receipt.wordId) : receipt.wordId[u] <= Len(receipt.text)
  BY <1>1 DEF WellFormed, ReceiptType, InOrder
<1>4. predictions[n].word = receipt.wordId[t]
  BY <1>2 DEF Prediction
<1>5. t \in 1 .. Len(receipt.wordId)
  <2>1. token \in 0 .. Len(receipt.wordId) /\ Len(receipt.wordId) \in Nat
    BY <1>1, <1>3
  <2>. QED BY <2>1
<1>6. receipt.wordId[t] \in Nat \ {0} /\ receipt.wordId[t] <= Len(receipt.text)
  BY <1>3, <1>5
<1>7. receipt.wordId[t] \in 1 .. Len(receipt.text)
  BY <1>3, <1>6
<1>. QED BY <1>3, <1>4, <1>7

\* What words are joined to is a text, and not an empty one.
LEMMA JoinedType ==
  ASSUME ReceiptInv, NEW S
  PROVE  /\ Joined(S) \in Seq(0 .. 9 \union {Separator, Other})
         /\ \A n \in 1 .. Len(predictions) : n \in S => Joined(S) # <<>>
<1>. DEFINE A == 0 .. 9 \union {Separator, Other}
            of(n) == IF n \in S THEN receipt.text[predictions[n].word] ELSE <<>>
            seqs == [n \in 1 .. Len(predictions) |-> of(n)]
<1>1. Len(predictions) \in Nat
  BY DEF ReceiptInv, ReceiptTypeOK
<1>2. \A n \in 1 .. Len(predictions) :
        of(n) \in Seq(A) /\ (n \in S => of(n) # <<>>)
  BY TextOfWord DEF Texts
<1>3. seqs \in Seq(Seq(A)) /\ Len(seqs) = Len(predictions)
  <2>. HIDE DEF of, A
  <2>. QED BY <1>1, <1>2
<1>4. Joined(S) = FlattenSeq(seqs)
  BY DEF Joined
<1>5. /\ FlattenSeq(seqs) \in Seq(A)
      /\ \A n \in 1 .. Len(seqs) : Len(seqs[n]) <= Len(FlattenSeq(seqs))
  <2>. HIDE DEF seqs, A
  <2>. QED BY <1>3, FlattenSeqType
<1>6. ASSUME NEW n \in 1 .. Len(predictions), n \in S PROVE Joined(S) # <<>>
  <2>1. seqs[n] = of(n) /\ of(n) \in Seq(A) /\ of(n) # <<>>
    BY <1>2, <1>6
  <2>2. Len(seqs[n]) > 0 /\ Len(seqs[n]) \in Nat
    <3>. HIDE DEF seqs, of, A
    <3>. QED BY <2>1
  <2>3. Len(seqs[n]) <= Len(Joined(S))
    BY <1>3, <1>4, <1>5
  <2>. HIDE DEF seqs, of, A
  <2>. QED BY <2>2, <2>3
<1>. QED BY <1>4, <1>5, <1>6

\* What is compared is a mean, without dividing: the relation is transitive.
LEMMA MeansAreOrdered ==
  ASSUME NEW a \in Nat, NEW b \in Nat, NEW c \in Nat,
         NEW p \in Nat \ {0}, NEW q \in Nat \ {0}, NEW r \in Nat \ {0},
         a * q >= b * p, b * r >= c * q
  PROVE  a * r >= c * p
<1>1. /\ a * q \in Nat /\ b * p \in Nat /\ b * r \in Nat /\ c * q \in Nat
      /\ a * r \in Nat /\ c * p \in Nat
  OBVIOUS
<1>2. \A x, y \in Nat, z \in Nat : x >= y => x * z >= y * z
  OBVIOUS
<1>3. (a * q) * r >= (b * p) * r
  BY <1>1, <1>2
<1>4. (b * r) * p >= (c * q) * p
  BY <1>1, <1>2
<1>5. /\ (a * q) * r = (a * r) * q /\ (b * p) * r = (b * r) * p
      /\ (c * q) * p = (c * p) * q
  OBVIOUS
<1>6. (a * r) * q >= (c * p) * q
  <2>1. (a * q) * r \in Nat /\ (b * p) * r \in Nat /\ (c * q) * p \in Nat
    BY <1>1
  <2>. QED BY <1>3, <1>4, <1>5, <2>1
<1>7. \A x, y \in Nat : x * q >= y * q => x >= y
  OBVIOUS
<1>. QED BY <1>1, <1>6, <1>7

\* No other has a higher mean, and none before it has the same.
FirstSurest(k, C, sum, count) ==
  \A j \in C :
    /\ sum[k] * count[j] >= sum[j] * count[k]
    /\ j < k => ~(sum[j] * count[k] >= sum[k] * count[j])

\* There is a first of the surest of some spans.
LEMMA SurestExists ==
  ASSUME NEW n \in Nat, NEW C \in SUBSET (1 .. n), C # {},
         NEW sum \in [1 .. n -> Nat], NEW count \in [1 .. n -> Nat \ {0}]
  PROVE  \E k \in C : FirstSurest(k, C, sum, count)
<1>. DEFINE Sure(k, j) == sum[k] * count[j] >= sum[j] * count[k]
            Best(m) == {k \in C : k <= m /\ \A j \in C : j <= m => Sure(k, j)}
            N == {m \in Nat : (\E j \in C : j <= m) => Best(m) # {}}
<1>1. ASSUME NEW i \in C, NEW j \in C, NEW k \in C
      PROVE  /\ Sure(i, j) \/ Sure(j, i)
             /\ Sure(i, j) /\ Sure(j, k) => Sure(i, k)
  <2>1. /\ sum[i] \in Nat /\ sum[j] \in Nat /\ sum[k] \in Nat
        /\ count[i] \in Nat \ {0} /\ count[j] \in Nat \ {0} /\ count[k] \in Nat \ {0}
    OBVIOUS
  <2>2. sum[i] * count[j] \in Nat /\ sum[j] * count[i] \in Nat
    BY <2>1
  <2>3. Sure(i, j) \/ Sure(j, i)
    BY <2>2
  <2>4. Sure(i, j) /\ Sure(j, k) => Sure(i, k)
    BY <2>1, MeansAreOrdered
  <2>. QED BY <2>3, <2>4
<1>. HIDE DEF Sure
<1>2. 0 \in N
  OBVIOUS
<1>3. ASSUME NEW m \in N PROVE m + 1 \in N
  <2>0. m \in Nat /\ \A j \in C : j \in Nat /\ (j <= m + 1 <=> j <= m \/ j = m + 1)
    OBVIOUS
  <2>1. SUFFICES ASSUME \E j \in C : j <= m + 1 PROVE Best(m + 1) # {}
    BY <2>0
  <2>2. CASE m + 1 \notin C
    <3>1. \A j \in C : j <= m + 1 <=> j <= m
      BY <2>0, <2>2
    <3>2. Best(m) # {} /\ Best(m + 1) = Best(m)
      BY <2>1, <3>1
    <3>. QED BY <3>2
  <2>3. CASE m + 1 \in C /\ \A j \in C : ~(j <= m)
    <3>1. \A j \in C : j <= m + 1 => j = m + 1
      BY <2>0, <2>3
    <3>2. m + 1 \in Best(m + 1)
      BY <1>1, <2>0, <2>3, <3>1
    <3>. QED BY <3>2
  <2>4. CASE m + 1 \in C /\ \E j \in C : j <= m
    <3>1. PICK k \in C : k <= m /\ \A j \in C : j <= m => Sure(k, j)
      BY <2>4
    <3>2. CASE Sure(k, m + 1)
      <4>1. k \in Best(m + 1)
        BY <2>0, <3>1, <3>2
      <4>. QED BY <4>1
    <3>3. CASE ~Sure(k, m + 1)
      <4>1. Sure(m + 1, k) /\ Sure(m + 1, m + 1)
        BY <1>1, <2>4, <3>1, <3>3
      <4>2. \A j \in C : j <= m => Sure(m + 1, j)
        BY <1>1, <2>4, <3>1, <4>1
      <4>3. m + 1 \in Best(m + 1)
        BY <2>0, <2>4, <4>1, <4>2
      <4>. QED BY <4>3
    <3>. QED BY <3>2, <3>3
  <2>. QED BY <2>2, <2>3, <2>4
<1>4. N = Nat
  <2>1. N \in SUBSET Nat
    OBVIOUS
  <2>. HIDE DEF N
  <2>. QED BY <1>2, <1>3, <2>1, AllNaturals
<1>5. Best(n) # {} /\ \A j \in C : j <= n /\ j \in Nat
  <2>1. \A j \in C : j <= n /\ j \in Nat
    OBVIOUS
  <2>2. n \in N
    BY <1>4
  <2>. HIDE DEF Best
  <2>. QED BY <2>1, <2>2
<1>6. Best(n) \in SUBSET Nat
  BY <1>5
<1>7. PICK k \in Best(n) : \A j \in Best(n) : k <= j
  <2>. HIDE DEF Best
  <2>. QED BY <1>5, <1>6, LeastNat
<1>8. k \in C /\ \A j \in C : Sure(k, j)
  BY <1>5
<1>9. ASSUME NEW j \in C, j < k PROVE ~Sure(j, k)
  <2>1. SUFFICES ASSUME Sure(j, k) PROVE FALSE
    OBVIOUS
  <2>2. \A i \in C : Sure(j, i)
    BY <1>1, <1>8, <2>1
  <2>3. j \in Best(n)
    BY <1>5, <2>2
  <2>. QED BY <1>5, <1>7, <1>8, <1>9, <2>3
<1>. QED BY <1>8, <1>9 DEF Sure, FirstSurest

\* The words of a span: which they are, and how sure.
LEMMA SpanOfWords ==
  ASSUME ReceiptInv, SpansHaveWords, NEW f \in Scalars, NEW k \in 1 .. spans[f]
  PROVE  /\ Joined(SpanWords(f, k)) # <<>>
         /\ ParseMoney(Joined(SpanWords(f, k))) \in Amounts
         /\ SumOfConf(SpanWords(f, k)) \in Nat
         /\ Cardinality(SpanWords(f, k)) \in Nat \ {0}
<1>. DEFINE S == SpanWords(f, k)
<1>1. /\ predictions \in Seq([word : Nat \ {0}, label : Labels, conf : Nat])
      /\ Len(predictions) \in Nat /\ Len(spanOf) \in Nat /\ Len(spanOf) <= Len(predictions)
  BY DEF ReceiptInv, ReceiptTypeOK, WalkInv
<1>2. S # {} /\ S \subseteq 1 .. Len(predictions)
  BY <1>1 DEF SpansHaveWords, SpanWords
<1>3. IsFiniteSet(S)
  <2>. HIDE DEF S
  <2>1. IsFiniteSet(1 .. Len(predictions))
    BY <1>1, FS_Interval
  <2>. QED BY <1>2, <2>1, FS_Subset
<1>. HIDE DEF S
<1>4. Joined(S) # <<>> /\ ParseMoney(Joined(S)) \in Amounts
  BY <1>2, JoinedType, ParseMoneyType
<1>5. SumOfConf(S) \in Nat
  <2>. DEFINE conf == [n \in S |-> predictions[n].conf]
  <2>1. ASSUME NEW n \in S PROVE conf[n] \in Nat
    <3>. DEFINE P == [word : Nat \ {0}, label : Labels, conf : Nat]
    <3>1. n \in 1 .. Len(predictions) /\ predictions \in Seq(P)
      BY <1>1, <1>2
    <3>2. predictions[n] \in P
      <4>. HIDE DEF P
      <4>. QED BY <3>1
    <3>. QED BY <3>2
  <2>2. SumFunctionOnSet(conf, S) \in Nat
    <3>. HIDE DEF conf
    <3>. QED BY <1>3, <2>1, SumType
  <2>. QED BY <2>2 DEF SumOfConf
<1>6. Cardinality(S) \in Nat \ {0}
  BY <1>2, <1>3, FS_CardinalityType, FS_EmptySet
<1>. QED BY <1>4, <1>5, <1>6 DEF S

\* _select_scalar_span finds one, and a number if there is one.
LEMMA ChosenSpan ==
  ASSUME ReceiptInv, SpansHaveWords, NEW f \in Scalars, spans[f] > 0
  PROVE  /\ Chosen(f) \in 1 .. spans[f]
         /\ (\E k \in 1 .. spans[f] : ParseMoney(Joined(SpanWords(f, k))) # None)
              => ParseMoney(Joined(SpanWords(f, Chosen(f)))) # None
<1>. DEFINE numbers == {k \in 1 .. spans[f] : ParseMoney(Joined(SpanWords(f, k))) # None}
            C == IF numbers = {} THEN 1 .. spans[f] ELSE numbers
            sum == [k \in 1 .. spans[f] |-> SumOfConf(SpanWords(f, k))]
            count == [k \in 1 .. spans[f] |-> Cardinality(SpanWords(f, k))]
            First(k) == \A j \in C :
                          /\ AtLeastAsSure(SpanWords(f, k), SpanWords(f, j))
                          /\ j < k => ~AtLeastAsSure(SpanWords(f, j), SpanWords(f, k))
<1>1. spans[f] \in Nat
  BY DEF ReceiptInv, ReceiptTypeOK
<1>2. C \in SUBSET (1 .. spans[f]) /\ C # {}
  BY <1>1
<1>3. sum \in [1 .. spans[f] -> Nat] /\ count \in [1 .. spans[f] -> Nat \ {0}]
  BY SpanOfWords
<1>4. Chosen(f) = CHOOSE k \in C : First(k)
  BY DEF Chosen
<1>5. \E k \in C : First(k)
  <2>. HIDE DEF C
  <2>1. PICK k \in C : FirstSurest(k, C, sum, count)
    <3>. DEFINE n == spans[f]
    <3>1. n \in Nat /\ C \in SUBSET (1 .. n) /\ C # {}
      BY <1>1, <1>2
    <3>2. sum \in [1 .. n -> Nat] /\ count \in [1 .. n -> Nat \ {0}]
      BY <1>3
    <3>. HIDE DEF sum, count, n
    <3>. QED BY <3>1, <3>2, SurestExists
  <2>2. \A i, j \in C : AtLeastAsSure(SpanWords(f, i), SpanWords(f, j))
                          <=> sum[i] * count[j] >= sum[j] * count[i]
    BY <1>2 DEF AtLeastAsSure
  <2>. HIDE DEF sum, count
  <2>. QED BY <2>1, <2>2 DEF FirstSurest
<1>6. Chosen(f) \in C
  <2>. HIDE DEF C, First
  <2>. QED BY <1>4, <1>5
<1>. QED BY <1>2, <1>6

----------------------------------------------------------------------------
(* Receipt: the document and its report.                                   *)

\* A line item has an amount, or no price.
LEMMA LineItemType ==
  ASSUME ReceiptInv, NEW k
  PROVE  LineItem(k).price \in Amounts
<1>. DEFINE words == {n \in ItemWords(k) : Category(n) = "menu.price"}
<1>1. ParseMoney(Joined(words)) \in Amounts
  BY JoinedType, ParseMoneyType
<1>. QED BY <1>1 DEF LineItem, Amounts

\* Labels and walk leave no document; the walk gives each new span its word.
LEMMA SpansStep ==
  ASSUME ReceiptInv, SpansHaveWords, LabelToken \/ CollectWord
  PROVE  SpansHaveWords'
<1>1. CASE LabelToken
  <2>1. spanOf = <<>> /\ spanOf' = spanOf /\ spans' = spans
    BY <1>1 DEF LabelToken, ReceiptInv, LabelInv, walkVars
  <2>2. \A f, k : SpanWords(f, k) = {} /\ SpanWords(f, k)' = {}
    BY <2>1 DEF SpanWords
  <2>. QED BY <2>1, <2>2 DEF SpansHaveWords
<1>2. CASE CollectWord
  <2>. DEFINE n == Len(itemOf) + 1
  <2>1. /\ n \in Nat \ {0} /\ Len(spanOf') = n /\ n - 1 = Len(spanOf)
        /\ \A m \in 1 .. n - 1 : spanOf'[m] = spanOf[m]
        /\ Category(n) \in Scalars => spanOf'[n] = spans'[Category(n)]
        /\ spans' = IF Category(n) \in Scalars /\ (Begins(n) \/ spans[Category(n)] = 0)
                    THEN [spans EXCEPT ![Category(n)] = @ + 1] ELSE spans
        /\ spans \in [Scalars -> Nat]
    <3>1. Len(itemOf) = Len(spanOf) /\ Len(spanOf) \in Nat /\ spans \in [Scalars -> Nat]
      BY DEF ReceiptInv, ReceiptTypeOK, WalkInv
    <3>. QED BY <1>2, <3>1, CollectWordEffect
  <2>2. \A m : Category(m)' = Category(m)
    BY <1>2 DEF CollectWord, inputVars, Category
  <2>3. ASSUME NEW f \in Scalars, NEW k \in 1 .. spans'[f]
        PROVE  SpanWords(f, k)' # {}
    <3>1. CASE k \in 1 .. spans[f]
      <4>1. PICK m \in SpanWords(f, k) : TRUE
        BY <3>1 DEF SpansHaveWords
      <4>2. m \in 1 .. n - 1 /\ Category(m) = f /\ spanOf[m] = k
        BY <2>1 DEF SpanWords
      <4>3. m \in SpanWords(f, k)'
        BY <2>1, <2>2, <4>2 DEF SpanWords
      <4>. QED BY <4>3
    <3>2. CASE k \notin 1 .. spans[f]
      <4>1. f = Category(n) /\ k = spans'[f]
        BY <2>1, <3>2
      <4>2. n \in SpanWords(f, k)'
        BY <2>1, <2>2, <4>1 DEF SpanWords
      <4>. QED BY <4>2
    <3>. QED BY <3>1, <3>2
  <2>. QED BY <2>3 DEF SpansHaveWords
<1>. QED BY <1>1, <1>2

\* The fields keep their words and texts in the steps after the walk.
LEMMA FieldFrame ==
  ASSUME UNCHANGED <<inputVars, walkVars>>, NEW f, NEW k
  PROVE  /\ SpanWords(f, k)' = SpanWords(f, k) /\ spans' = spans
         /\ ParseMoney(Joined(SpanWords(f, k)))' = ParseMoney(Joined(SpanWords(f, k)))
<1>1. /\ receipt' = receipt /\ predictions' = predictions /\ spans' = spans
      /\ spanOf' = spanOf
  BY DEF inputVars, walkVars
<1>2. SpanWords(f, k)' = SpanWords(f, k)
  BY <1>1 DEF SpanWords, Category
<1>3. Joined(SpanWords(f, k))' = Joined(SpanWords(f, k))
  BY <1>1, <1>2 DEF Joined
<1>4. ParseMoney(Joined(SpanWords(f, k)))' = ParseMoney(Joined(SpanWords(f, k)))
  BY <1>3
<1>. QED BY <1>1, <1>2, <1>4

LEMMA BuildDocumentStep ==
  ASSUME ReceiptInv, DocumentInv, BuildDocument
  PROVE  DocumentInv'
<1>. DEFINE found == {f \in Scalars : spans[f] > 0}
            words(f) == SpanWords(f, Chosen(f))
            value == [f \in Scalars |-> IF f \in found
                                        THEN ParseMoney(Joined(words(f))) ELSE None]
<1>1. /\ pc' = "validate" /\ UNCHANGED <<inputVars, walkVars>>
      /\ document'.lineItems = [k \in 1 .. items |-> LineItem(k)]
      /\ document'.value = value
      /\ document'.unparsed = {f \in found : value[f] = None /\ Joined(words(f)) # <<>>}
  BY DEF BuildDocument
<1>2. SpansHaveWords /\ items \in Nat
  BY DEF DocumentInv, ReceiptInv, ReceiptTypeOK
<1>3. SpansHaveWords'
  BY <1>1, <1>2, FieldFrame DEF SpansHaveWords
<1>4. ASSUME NEW f \in found
      PROVE  /\ value[f] = ParseMoney(Joined(words(f))) /\ value[f] \in Amounts
             /\ Joined(words(f)) # <<>>
             /\ (\E k \in 1 .. spans[f] : ParseMoney(Joined(SpanWords(f, k))) # None)
                  => value[f] # None
  <2>1. f \in Scalars /\ value[f] = ParseMoney(Joined(words(f)))
    OBVIOUS
  <2>2. Chosen(f) \in 1 .. spans[f]
    BY <1>2, ChosenSpan
  <2>3. Joined(words(f)) # <<>> /\ ParseMoney(Joined(words(f))) \in Amounts
    BY <1>2, <2>1, <2>2, SpanOfWords
  <2>4. (\E k \in 1 .. spans[f] : ParseMoney(Joined(SpanWords(f, k))) # None)
          => ParseMoney(Joined(words(f))) # None
    BY <1>2, ChosenSpan
  <2>. HIDE DEF value, words
  <2>. QED BY <2>1, <2>3, <2>4
<1>5. BuiltInv'
  <2>1. document'.value \in [Scalars -> Amounts]
    BY <1>1, <1>4 DEF Amounts
  <2>2. /\ Len(document'.lineItems) = items
        /\ \A k \in 1 .. items : document'.lineItems[k].price \in Amounts
    BY <1>1, <1>2, LineItemType
  <2>3. ASSUME NEW f \in Scalars, spans[f] > 0
        PROVE  /\ document'.value[f] = None => f \in document'.unparsed
               /\ (\E k \in 1 .. spans[f] : ParseMoney(Joined(SpanWords(f, k))) # None)
                    => document'.value[f] # None
    <3>1. f \in found
      BY <2>3
    <3>. HIDE DEF value, words
    <3>. QED BY <1>1, <1>4, <3>1
  <2>4. \A f \in Scalars : spans'[f] > 0 =>
          /\ document'.value[f] = None => f \in document'.unparsed
          /\ (\E k \in 1 .. spans'[f] : ParseMoney(Joined(SpanWords(f, k)))' # None)
               => document'.value[f] # None
    BY <1>1, <2>3, FieldFrame
  <2>. QED BY <1>2, <2>1, <2>2, <2>4 DEF BuiltInv
<1>6. ReportInv'
  BY <1>1 DEF ReportInv
<1>. QED BY <1>3, <1>5, <1>6 DEF DocumentInv

\* The report is of the document, which stays as it is.
LEMMA AfterBuildStep ==
  ASSUME ReceiptInv, DocumentInv, Validate \/ EndTokens \/ EndWords \/ UNCHANGED vars
  PROVE  DocumentInv'
<1>1. SpansHaveWords /\ BuiltInv /\ ReportInv
  BY DEF DocumentInv
<1>2. UNCHANGED <<inputVars, walkVars>> /\ document' = document
  BY DEF Validate, EndTokens, EndWords, vars
<1>3. SpansHaveWords'
  BY <1>1, <1>2, FieldFrame DEF SpansHaveWords
<1>4. pc' \in {"validate", "done"} => pc \in {"validate", "done"}
  BY DEF Validate, EndTokens, EndWords, vars
<1>5. BuiltInv'
  <2>1. \A f \in Scalars : \A k :
          /\ ParseMoney(Joined(SpanWords(f, k)))' = ParseMoney(Joined(SpanWords(f, k)))
          /\ spans' = spans
    BY <1>2, FieldFrame
  <2>. QED BY <1>1, <1>2, <1>4, <2>1 DEF BuiltInv
<1>6. ReportInv'
  <2>1. CASE Validate
    BY <1>2, <2>1 DEF Validate, ReportInv, Reconciliation, RequiredFields, Expected,
       AllPriced, SumOfItems, PricesOf
  <2>2. CASE EndTokens \/ EndWords
    BY <2>2 DEF EndTokens, EndWords, ReportInv
  <2>3. CASE UNCHANGED vars
    BY <1>1, <1>2, <2>3 DEF vars, ReportInv, Reconciliation, RequiredFields, Expected,
       AllPriced, SumOfItems, PricesOf
  <2>. QED BY <2>1, <2>2, <2>3
<1>. QED BY <1>3, <1>5, <1>6 DEF DocumentInv

\* The document follows from the walk, which is as ReceiptInv says.
LEMMA DocumentNextInv == ReceiptInv /\ DocumentInv /\ [Next]_vars => DocumentInv'
<1>. SUFFICES ASSUME ReceiptInv, DocumentInv, [Next]_vars PROVE DocumentInv'
  OBVIOUS
<1>1. CASE LabelToken \/ CollectWord
  <2>1. pc' = pc /\ pc \in {"label", "collect"}
    BY <1>1 DEF LabelToken, CollectWord
  <2>2. SpansHaveWords'
    BY <1>1, SpansStep DEF DocumentInv
  <2>. QED BY <2>1, <2>2 DEF DocumentInv, BuiltInv, ReportInv
<1>2. CASE BuildDocument
  BY <1>2, BuildDocumentStep
<1>3. CASE Validate \/ EndTokens \/ EndWords \/ UNCHANGED vars
  BY <1>3, AfterBuildStep
<1>. QED BY <1>1, <1>2, <1>3 DEF Next

\* Every span has words, every amount of a document is one, and a document that is
\* ok passed its checks.
THEOREM DocumentInvariance == Spec => [](ReceiptInv /\ DocumentInv)
<1>1. Init => DocumentInv
  <2>. SUFFICES ASSUME Init PROVE DocumentInv
    OBVIOUS
  <2>1. pc = "label" /\ \A f \in Scalars : spans[f] = 0
    BY DEF Init
  <2>. QED BY <2>1 DEF DocumentInv, SpansHaveWords, BuiltInv, ReportInv
<1>. QED BY <1>1, InitInv, NextInv, DocumentNextInv, PTL DEF Spec

\* build_document: a field that was found has a value if any of its spans is a
\* number, and is reported as unparsed if none is, for any confidences.
THEOREM FoundFieldsAreReported == Spec => []FieldsAreReported
<1>1. DocumentInv => FieldsAreReported
  BY DEF DocumentInv, BuiltInv, ReportInv, FieldsAreReported
<1>. QED BY <1>1, DocumentInvariance, PTL

\* validate: items, tax and service of a document that is ok make its total.
THEOREM OkDocumentsAddUp == Spec => []OkReconciles
<1>1. ReceiptInv /\ DocumentInv => OkReconciles
  <2>. SUFFICES ASSUME ReceiptInv, DocumentInv, pc = "done", report.ok,
                       AllPriced(document), document.value["subtotal_price"] # None
                PROVE  LET sum == SumOfItems(document)
                                    + OrZero(document.value["tax_price"])
                                    + OrZero(document.value["service_price"])
                           total == document.value["total_price"]
                       IN  sum - total \in -2 * Tolerance .. 2 * Tolerance
    BY DEF OkReconciles
  <2>1. /\ document.value \in [Scalars -> Amounts] /\ Len(document.lineItems) \in Nat
        /\ \A k \in 1 .. Len(document.lineItems) : document.lineItems[k].price \in Amounts
        /\ Reconciliation(document) = {} /\ RequiredFields(document) = {}
    BY DEF DocumentInv, BuiltInv, ReportInv
  <2>. DEFINE subtotal == document.value["subtotal_price"]
              total == document.value["total_price"]
              tax == OrZero(document.value["tax_price"])
              service == OrZero(document.value["service_price"])
              items_ == SumOfItems(document)
  <2>2. subtotal \in Nat /\ tax \in Nat /\ service \in Nat
    BY <2>1 DEF Scalars, Amounts, OrZero
  <2>3. total \in Nat
    BY <2>1 DEF Scalars, Amounts, RequiredFields
  <2>4. items_ \in Nat
    <3>. DEFINE prices == PricesOf(document)
    <3>1. DOMAIN prices = 1 .. Len(document.lineItems) /\ IsFiniteSet(DOMAIN prices)
      BY <2>1, FS_Interval DEF PricesOf
    <3>2. \A k \in DOMAIN prices : prices[k] \in Nat
      BY <2>1, <3>1 DEF AllPriced, Range, PricesOf, Amounts
    <3>3. SumFunctionOnSet(prices, DOMAIN prices) \in Nat
      <4>. HIDE DEF prices
      <4>. QED BY <3>1, <3>2, SumType
    <3>. QED BY <3>3 DEF SumOfItems, SumFunction
  <2>5. ~Differ(subtotal + tax + service, total) /\ ~Differ(items_, subtotal)
    <3>1. ~Differ(Expected(document), total)
      BY <2>1, <2>3, ReceiptAssumption DEF Reconciliation
    <3>2. ~Differ(items_, subtotal)
      BY <2>1 DEF Reconciliation
    <3>. QED BY <3>1, <3>2 DEF Expected
  <2>. HIDE DEF subtotal, total, tax, service, items_
  <2>6. (items_ + tax + service) - total \in -2 * Tolerance .. 2 * Tolerance
    BY <2>2, <2>3, <2>4, <2>5, ReceiptAssumption DEF Differ
  <2>. QED BY <2>6 DEF total, tax, service, items_
<1>. QED BY <1>1, DocumentInvariance, PTL

----------------------------------------------------------------------------
(* Delivery: bundles, the benchmark and the backend of the service.        *)

\* The files of a bundle, in the order in which they are written.
LEMMA FilesOfBundle ==
  /\ Len(BundleFiles) = 4
  /\ BundleFiles[1] = "model" /\ BundleFiles[2] = "processor"
  /\ BundleFiles[3] = "label_map" /\ BundleFiles[4] = "metrics"
  /\ BundleFile = {"model", "processor", "label_map", "metrics"}
<1>1. /\ Len(BundleFiles) = 4
      /\ BundleFiles[1] = "model" /\ BundleFiles[2] = "processor"
      /\ BundleFiles[3] = "label_map" /\ BundleFiles[4] = "metrics"
  BY DEF BundleFiles
<1>2. 1 .. 4 = {1, 2, 3, 4}
  OBVIOUS
<1>. QED BY <1>1, <1>2 DEF BundleFile

\* What an appended element does to a sequence.
LEMMA Appended ==
  ASSUME NEW S, NEW s \in Seq(S), NEW e \in S
  PROVE  /\ Append(s, e) \in Seq(S) /\ Len(Append(s, e)) = Len(s) + 1
         /\ Len(s) \in Nat /\ Append(s, e) # <<>>
         /\ Append(s, e)[Len(s) + 1] = e
         /\ \A i \in 1 .. Len(s) : Append(s, e)[i] = s[i]
OBVIOUS

\* Directories that are empty have the types of their files.
LEMMA MissingType ==
  /\ Absent \in Origin /\ Absent \in Version
  /\ Missing(BundleFile) \in Bundle
  /\ Missing(OnnxFile) \in [OnnxFile -> Origin]
  /\ Missing(OnnxFile) \in [OnnxFile -> Version]
  /\ Missing(OnnxFile) \in [OnnxFile -> Loaders \union {Absent}]
BY DEF Origin, Version, Bundle, Missing

LEMMA AsleepType == Asleep \in LoaderState
BY MissingType DEF Asleep, LoaderState

LEMMA DeliveryInitInv == DeliveryInit => DeliveryInv
<1>. SUFFICES ASSUME DeliveryInit PROVE DeliveryInv
  OBVIOUS
<1>1. /\ versions = [n \in Names |-> <<>>] /\ onnx = <<>>
      /\ versions \in [Names -> Seq(Bundle)] /\ onnx \in Seq(Export)
  BY DEF DeliveryInit
<1>2. /\ fails \in 0 .. MaxFails /\ trained \in 0 .. MaxTrainings
      /\ saving \in 0 .. Len(BundleFiles) \union {Absent} /\ pin \in 1 .. MaxVersions
  BY DeliveryAssumption DEF DeliveryInit
<1>3. /\ work \in Work /\ bundle \in Bundle /\ unzipped \in Bundle
      /\ dest \in [OnnxFile -> Version] /\ opener \in [OnnxFile -> Loaders \union {Absent}]
      /\ loader \in [Loaders -> LoaderState]
  BY MissingType, AsleepType DEF DeliveryInit, Work
<1>4. DeliveryTypeOK
  BY <1>1, <1>2, <1>3 DEF DeliveryInit, DeliveryTypeOK
<1>5. BundleInv
  BY <1>1, FilesOfBundle, DeliveryAssumption DEF DeliveryInit, BundleInv, VersionIsWhole
<1>6. BenchInv
  BY <1>1 DEF DeliveryInit, BenchInv
<1>7. LoadInv /\ FailInv
  BY DEF DeliveryInit, LoadInv, FailInv, LoadedIsPinned, Asleep, OnnxFile
<1>. QED BY <1>4, <1>5, <1>6, <1>7 DEF DeliveryInv

----------------------------------------------------------------------------
(* The bundle and its import.                                              *)

\* What neither Colab nor the laptop does: it leaves the service alone.
LEMMA ServeFrame ==
  ASSUME LoadInv, FailInv, UNCHANGED serveVars
  PROVE  LoadInv' /\ FailInv'
<1>1. UNCHANGED <<pin, local, dest, opener, loader, backend>>
  BY DEF serveVars
<1>2. /\ Configured' = Configured /\ \A g : GraphOK(g)' = GraphOK(g)
      /\ \A f \in OnnxFile : Held(f)' = Held(f)
  BY <1>1 DEF Configured, GraphOK, Alone, Held
<1>3. LoadedIsPinned'
  BY <1>1, <1>2 DEF LoadInv, LoadedIsPinned
<1>4. LoadInv'
  BY <1>1, <1>2, <1>3 DEF LoadInv
<1>5. FailInv'
  BY <1>1 DEF FailInv
<1>. QED BY <1>4, <1>5

LEMMA BenchFrame ==
  ASSUME BenchInv, UNCHANGED <<versions, benchVars>>
  PROVE  BenchInv'
<1>1. UNCHANGED <<versions, bench, source, work, scores, onnx>>
      /\ \A n : Source(n)' = Source(n)
  BY DEF benchVars, Source
<1>. QED BY <1>1 DEF BenchInv

LEMMA ColabStep ==
  ASSUME DeliveryInv, RunTraining \/ SaveBundle \/ TrainingFails \/ DownloadZip
  PROVE  DeliveryInv'
<1>1. DeliveryTypeOK /\ BundleInv /\ BenchInv /\ LoadInv /\ FailInv
  BY DEF DeliveryInv
<1>2. UNCHANGED <<versions, benchVars, serveVars>>
  BY DEF RunTraining, SaveBundle, TrainingFails, DownloadZip
<1>3. BenchInv' /\ LoadInv' /\ FailInv'
  BY <1>1, <1>2, ServeFrame, BenchFrame
<1>4. /\ trained \in 0 .. MaxTrainings /\ MaxTrainings \in Nat /\ Absent \notin Nat
      /\ bundle \in [BundleFile -> Origin] /\ unzipped \in [BundleFile -> Origin]
      /\ fails \in 0 .. MaxFails /\ MaxFails \in Nat
      /\ saving \in 0 .. 4 \union {Absent}
      /\ (saving \in 0 .. 4 => trained > 0)
      /\ \A n \in 1 .. 4 : saving \in 0 .. 4 /\ n <= saving
                             => bundle[BundleFiles[n]] = trained
  BY <1>1, FilesOfBundle, DeliveryAssumption DEF DeliveryTypeOK, BundleInv, Bundle
<1>5. VersionIsWhole'
  BY <1>1, <1>2 DEF BundleInv, VersionIsWhole
<1>6. ASSUME /\ trained' \in 0 .. MaxTrainings /\ fails' \in 0 .. MaxFails
             /\ saving' \in 0 .. 4 \union {Absent}
             /\ bundle' \in [BundleFile -> Origin] /\ unzipped' \in [BundleFile -> Origin]
      PROVE  DeliveryTypeOK'
  BY <1>1, <1>2, <1>6, FilesOfBundle DEF DeliveryTypeOK, benchVars, serveVars, Bundle
<1>7. CASE RunTraining
  <2>1. /\ trained' = trained + 1 /\ trained < MaxTrainings /\ saving' = 0
        /\ UNCHANGED <<fails, bundle, unzipped>>
    BY <1>7 DEF RunTraining
  <2>2. DeliveryTypeOK'
    BY <1>4, <1>6, <2>1
  <2>3. BundleInv'
    BY <1>1, <1>4, <1>5, <2>1 DEF BundleInv, OfOne
  <2>. QED BY <1>3, <2>2, <2>3 DEF DeliveryInv
<1>8. CASE SaveBundle
  <2>1. /\ saving \in 0 .. 3 /\ saving' = saving + 1
        /\ bundle' = [bundle EXCEPT ![BundleFiles[saving']] = trained]
        /\ UNCHANGED <<fails, trained, unzipped>>
    BY <1>8, FilesOfBundle DEF SaveBundle
  <2>2. saving' \in 1 .. 4 /\ BundleFiles[saving'] \in BundleFile
    BY <2>1, FilesOfBundle DEF BundleFile
  <2>3. trained \in Origin /\ trained > 0
    BY <1>4, <2>1 DEF Origin
  <2>4. bundle' \in [BundleFile -> Origin]
    BY <1>4, <2>1, <2>2, <2>3
  <2>5. DeliveryTypeOK'
    BY <1>4, <1>6, <2>1, <2>2, <2>4
  <2>6. ASSUME NEW n \in 1 .. saving' PROVE bundle'[BundleFiles[n]] = trained
    <3>1. n \in 1 .. 4 /\ BundleFiles[n] \in BundleFile
      BY <2>2, FilesOfBundle DEF BundleFile
    <3>2. n = saving' \/ bundle[BundleFiles[n]] = trained
      BY <1>4, <2>1, <3>1
    <3>. QED BY <1>4, <2>1, <2>2, <3>1, <3>2
  <2>7. BundleInv'
    BY <1>1, <1>5, <2>1, <2>3, <2>6 DEF BundleInv, OfOne
  <2>. QED BY <1>3, <2>5, <2>7 DEF DeliveryInv
<1>9. CASE TrainingFails
  <2>1. /\ fails' = fails + 1 /\ fails < MaxFails /\ saving' = Absent
        /\ UNCHANGED <<trained, bundle, unzipped>>
    BY <1>9 DEF TrainingFails
  <2>2. DeliveryTypeOK'
    BY <1>4, <1>6, <2>1
  <2>3. BundleInv'
    BY <1>1, <1>4, <1>5, <2>1, FilesOfBundle DEF BundleInv, OfOne
  <2>. QED BY <1>3, <2>2, <2>3 DEF DeliveryInv
<1>10. CASE DownloadZip
  <2>1. /\ saving = 4 /\ saving' = Absent /\ unzipped' = bundle
        /\ UNCHANGED <<fails, trained, bundle>>
    BY <1>10, FilesOfBundle DEF DownloadZip
  <2>2. DeliveryTypeOK'
    BY <1>4, <1>6, <2>1
  <2>3. \A f \in BundleFile : bundle[f] = trained
    BY <1>4, <2>1, FilesOfBundle
  <2>4. OfOne(unzipped')
    BY <1>4, <2>1, <2>3 DEF OfOne
  <2>5. BundleInv'
    BY <1>4, <1>5, <2>1, <2>4, FilesOfBundle DEF BundleInv, OfOne
  <2>. QED BY <1>3, <2>2, <2>5 DEF DeliveryInv
<1>. QED BY <1>7, <1>8, <1>9, <1>10

\* What is imported is a whole bundle, or there was none to import; the versions
\* that were there stay what they are.
LEMMA ImportBundleStep ==
  ASSUME DeliveryInv, ImportBundle
  PROVE  DeliveryInv'
<1>1. DeliveryTypeOK /\ BundleInv /\ BenchInv /\ LoadInv /\ FailInv
  BY DEF DeliveryInv
<1>2. PICK n \in Names :
        versions' = [versions EXCEPT ![n] = Append(versions[n], unzipped)]
  BY DEF ImportBundle
<1>3. /\ UNCHANGED <<fails, colabVars, unzipped, benchVars, serveVars>>
      /\ unzipped["label_map"] # Absent
  BY DEF ImportBundle
<1>4. versions \in [Names -> Seq(Bundle)] /\ versions[n] \in Seq(Bundle) /\ unzipped \in Bundle
  BY <1>1 DEF DeliveryTypeOK
<1>5. /\ Append(versions[n], unzipped) \in Seq(Bundle)
      /\ Len(Append(versions[n], unzipped)) = Len(versions[n]) + 1 /\ Len(versions[n]) \in Nat
      /\ Append(versions[n], unzipped)[Len(versions[n]) + 1] = unzipped
      /\ \A v \in 1 .. Len(versions[n]) : Append(versions[n], unzipped)[v] = versions[n][v]
  BY <1>4, Appended
<1>6. /\ versions' \in [Names -> Seq(Bundle)] /\ versions'[n] = Append(versions[n], unzipped)
      /\ \A m \in Names : m # n => versions'[m] = versions[m]
  BY <1>2, <1>4, <1>5
<1>7. OfOne(unzipped)
  <2>1. "label_map" \in BundleFile
    BY FilesOfBundle
  <2>. QED BY <1>1, <1>3, <2>1 DEF BundleInv, Missing
<1>8. DeliveryTypeOK'
  BY <1>1, <1>3, <1>6 DEF DeliveryTypeOK, colabVars, benchVars, serveVars
<1>9. BundleInv'
  <2>0. \A m \in Names : \A v \in 1 .. Len(versions[m]) : OfOne(versions[m][v])
    BY <1>1 DEF BundleInv, VersionIsWhole, OfOne
  <2>1. ASSUME NEW m \in Names, NEW v \in 1 .. Len(versions'[m])
        PROVE  OfOne(versions'[m][v])
    <3>1. CASE m # n
      <4>1. versions'[m] = versions[m]
        BY <1>6, <3>1
      <4>. QED BY <2>0, <4>1
    <3>2. CASE m = n /\ v = Len(versions[n]) + 1
      BY <1>5, <1>6, <1>7, <3>2
    <3>3. CASE m = n /\ v # Len(versions[n]) + 1
      <4>1. v \in 1 .. Len(versions[n])
        BY <1>5, <1>6, <3>3
      <4>2. versions'[m][v] = versions[n][v]
        BY <1>5, <1>6, <3>3, <4>1
      <4>. QED BY <2>0, <4>1, <4>2
    <3>. QED BY <3>1, <3>2, <3>3
  <2>2. VersionIsWhole'
    BY <2>1 DEF VersionIsWhole, OfOne
  <2>. QED BY <1>1, <1>3, <2>2 DEF BundleInv, OfOne, colabVars
<1>10. BenchInv'
  <2>1. ASSUME NEW m \in Names, Len(versions[m]) >= SourceVersion
        PROVE  Source(m)' = Source(m) /\ Len(versions'[m]) >= SourceVersion
    <3>1. CASE m # n
      BY <1>6, <2>1, <3>1 DEF Source
    <3>2. CASE m = n
      BY <1>5, <1>6, <2>1, <3>2 DEF Source, SourceVersion
    <3>. QED BY <3>1, <3>2
  <2>2. UNCHANGED <<bench, source, work, scores, onnx>> /\ source \in Names
    BY <1>1, <1>3 DEF benchVars, DeliveryTypeOK
  <2>3. bench # "idle" => Source(source)' = Source(source) /\ Len(versions'[source]) >= SourceVersion
    BY <1>1, <2>1, <2>2 DEF BenchInv
  <2>4. ASSUME NEW i \in 1 .. Len(onnx)
        PROVE  /\ Source(onnx[i].source)' = Source(onnx[i].source)
               /\ Len(versions'[onnx[i].source]) >= SourceVersion
    <3>0. onnx[i] \in Export
      BY <1>1 DEF DeliveryTypeOK
    <3>1. onnx[i].source \in Names
      BY <3>0 DEF Export
    <3>2. Len(versions[onnx[i].source]) >= SourceVersion
      BY <1>1 DEF BenchInv
    <3>3. \A m \in Names : Len(versions[m]) >= SourceVersion =>
            versions'[m][SourceVersion] = versions[m][SourceVersion]
      BY <2>1 DEF Source
    <3>. QED BY <2>1, <2>2, <3>1, <3>2, <3>3 DEF Source
  <2>. QED BY <1>1, <2>2, <2>3, <2>4 DEF BenchInv, Source
<1>11. LoadInv' /\ FailInv'
  BY <1>1, <1>3, ServeFrame
<1>. QED BY <1>8, <1>9, <1>10, <1>11 DEF DeliveryInv

----------------------------------------------------------------------------
(* The benchmark.                                                          *)

\* A step of the benchmark leaves bundles, versions and the service alone.
LEMMA BenchStep ==
  ASSUME DeliveryInv, UNCHANGED <<colabVars, unzipped, versions, serveVars>>,
         fails' \in 0 .. MaxFails,
         bench' \in {"idle", "begun", "bundle", "fp32", "int8", "scored"},
         source' \in Names, work' \in Work, onnx' \in Seq(Export),
         bench' = "scored" => scores' \in Scores,
         BenchInv'
  PROVE  DeliveryInv'
<1>1. DeliveryTypeOK /\ BundleInv /\ LoadInv /\ FailInv
  BY DEF DeliveryInv
<1>2. DeliveryTypeOK'
  BY <1>1 DEF DeliveryTypeOK, colabVars, serveVars
<1>3. BundleInv'
  BY <1>1 DEF BundleInv, OfOne, VersionIsWhole, colabVars
<1>4. LoadInv' /\ FailInv'
  BY <1>1, ServeFrame
<1>. QED BY <1>2, <1>3, <1>4 DEF DeliveryInv

\* The files that a benchmark reads are those of a bundle.
LEMMA SourceFiles ==
  ASSUME DeliveryInv, NEW n \in Names, Len(versions[n]) >= SourceVersion
  PROVE  /\ Source(n) \in Bundle /\ Source(n)["model"] \in Origin
         /\ ScoresOf(Source(n)) \in Scores
<1>1. versions[n] \in Seq(Bundle)
  BY DEF DeliveryInv, DeliveryTypeOK
<1>2. Source(n) \in Bundle
  BY <1>1 DEF Source, SourceVersion
<1>3. /\ Source(n)["model"] \in Origin
      /\ \A f \in SampleFile : Source(n)[f] \in Origin
  BY <1>2, FilesOfBundle DEF Bundle, SampleFile
<1>4. Samples(Source(n)) \in [SampleFile -> Origin]
  BY <1>3 DEF Samples
<1>5. Score(Source(n)["model"], Samples(Source(n)))
        \in [model : Origin, samples : [SampleFile -> Origin]]
  BY <1>3, <1>4 DEF Score
<1>. QED BY <1>2, <1>3, <1>5 DEF ScoresOf, Scores

\* What the exports registered so far say stays true.
LEMMA ExportsStay ==
  ASSUME BenchInv, UNCHANGED <<versions, onnx>>
  PROVE  \A i \in 1 .. Len(onnx') :
           /\ Len(versions'[onnx'[i].source]) >= SourceVersion
           /\ \A f \in OnnxFile :
                onnx'[i].files[f] = versions'[onnx'[i].source][SourceVersion]["model"]
           /\ onnx'[i].scores = ScoresOf(versions'[onnx'[i].source][SourceVersion])
BY DEF BenchInv, Source

LEMMA BeginBenchmarkStep ==
  ASSUME DeliveryInv, BeginBenchmark
  PROVE  DeliveryInv'
<1>1. DeliveryTypeOK /\ BenchInv
  BY DEF DeliveryInv
<1>2. /\ UNCHANGED <<fails, colabVars, unzipped, versions, work, scores, onnx, serveVars>>
      /\ bench' = "begun" /\ source' \in Names /\ Len(versions[source']) >= SourceVersion
  BY DEF BeginBenchmark
<1>3. BenchInv'
  BY <1>1, <1>2, ExportsStay DEF BenchInv, Source
<1>. QED BY <1>1, <1>2, <1>3, BenchStep DEF DeliveryTypeOK

LEMMA BenchmarkStep ==
  ASSUME DeliveryInv,
         DownloadRegistered \/ ExportOnnx \/ QuantizeInt8 \/ Evaluate
  PROVE  DeliveryInv'
<1> DEFINE of == Source(source)
<1>1. DeliveryTypeOK /\ BenchInv
  BY DEF DeliveryInv
<1>2. UNCHANGED <<fails, colabVars, unzipped, versions, source, onnx, serveVars>>
  BY DEF DownloadRegistered, ExportOnnx, QuantizeInt8, Evaluate, Step
<1>3. bench # "idle" /\ source \in Names /\ Len(versions[source]) >= SourceVersion
  BY <1>1 DEF DownloadRegistered, ExportOnnx, QuantizeInt8, Evaluate, Step, BenchInv,
     DeliveryTypeOK
<1>4. /\ of \in Bundle /\ of["model"] \in Origin /\ ScoresOf(of) \in Scores
      /\ Source(source)' = of
  BY <1>2, <1>3, SourceFiles DEF Source
<1>5. work \in Work /\ onnx \in Seq(Export) /\ fails \in 0 .. MaxFails
  BY <1>1 DEF DeliveryTypeOK
<1>6. ASSUME bench' \in {"bundle", "fp32", "int8", "scored"}, work' \in Work,
             bench' = "scored" => scores' \in Scores, BenchInv'
      PROVE  DeliveryInv'
  BY <1>2, <1>3, <1>5, <1>6, BenchStep
<1>7. ASSUME /\ bench' \in {"bundle", "fp32", "int8", "scored"}
             /\ work'.bundle = of
             /\ bench' \in {"fp32", "int8", "scored"} => work'.fp32 = of["model"]
             /\ bench' \in {"int8", "scored"} =>
                  \A f \in OnnxFile : work'.int8[f] = of["model"]
             /\ bench' = "scored" => scores' = ScoresOf(of)
      PROVE  BenchInv'
  BY <1>1, <1>2, <1>3, <1>4, <1>7, ExportsStay DEF BenchInv, Source
<1>. HIDE DEF of
<1>8. CASE DownloadRegistered
  <2>1. /\ bench' = "bundle" /\ work' = [work EXCEPT !.bundle = of]
    BY <1>8 DEF DownloadRegistered, Step, Source, of
  <2>2. work' \in Work /\ work'.bundle = of
    BY <1>4, <1>5, <2>1 DEF Work
  <2>. QED BY <1>6, <1>7, <2>1, <2>2
<1>9. CASE ExportOnnx
  <2>1. /\ bench = "bundle" /\ bench' = "fp32"
        /\ work' = [work EXCEPT !.fp32 = work.bundle["model"]]
    BY <1>9 DEF ExportOnnx, Step
  <2>2. work.bundle = of
    BY <1>1, <2>1 DEF BenchInv, of
  <2>3. work' \in Work /\ work'.bundle = of /\ work'.fp32 = of["model"]
    BY <1>4, <1>5, <2>1, <2>2 DEF Work
  <2>. QED BY <1>6, <1>7, <2>1, <2>3
<1>10. CASE QuantizeInt8
  <2>1. /\ bench = "fp32" /\ bench' = "int8" /\ work' = [work EXCEPT !.int8 = Quantized]
    BY <1>10 DEF QuantizeInt8, Step
  <2>2. work.bundle = of /\ work.fp32 = of["model"]
    BY <1>1, <2>1 DEF BenchInv, of
  <2>3. Quantized \in [OnnxFile -> Origin] /\ \A f \in OnnxFile : Quantized[f] = of["model"]
    BY <1>4, <2>2 DEF Quantized
  <2>4. /\ work' \in Work /\ work'.bundle = of /\ work'.fp32 = of["model"]
        /\ work'.int8 = Quantized
    BY <1>5, <2>1, <2>2, <2>3 DEF Work
  <2>. QED BY <1>6, <1>7, <2>1, <2>3, <2>4
<1>11. CASE Evaluate
  <2>1. /\ bench = "int8" /\ bench' = "scored" /\ UNCHANGED work
        /\ scores' = [c \in Configs |-> Score(Compared(c), Samples(work.bundle))]
    BY <1>11 DEF Evaluate, Step
  <2>2. /\ work.bundle = of /\ work.fp32 = of["model"]
        /\ \A f \in OnnxFile : work.int8[f] = of["model"]
    BY <1>1, <2>1 DEF BenchInv, of
  <2>3. \A c \in Configs : Compared(c) = of["model"]
    BY <2>2 DEF Configs, Compared, OnnxFile
  <2>4. scores' = ScoresOf(of)
    BY <2>1, <2>2, <2>3 DEF ScoresOf
  <2>. QED BY <1>4, <1>5, <1>6, <1>7, <2>1, <2>2, <2>4
<1>. QED BY <1>8, <1>9, <1>10, <1>11

\* What is registered is what the steps before handed on.
LEMMA RegisterOnnxStep ==
  ASSUME DeliveryInv, RegisterOnnx
  PROVE  DeliveryInv'
<1> DEFINE e == [source |-> source, files |-> work.int8, scores |-> scores]
<1>1. DeliveryTypeOK /\ BenchInv
  BY DEF DeliveryInv
<1>2. /\ UNCHANGED <<fails, colabVars, unzipped, versions, source, work, serveVars>>
      /\ bench = "scored" /\ bench' = "idle" /\ onnx' = Append(onnx, e)
  BY DEF RegisterOnnx, Step
<1>3. /\ source \in Names /\ Len(versions[source]) >= SourceVersion
      /\ scores = ScoresOf(Source(source)) /\ scores \in Scores
      /\ \A f \in OnnxFile : work.int8[f] = Source(source)["model"]
  BY <1>1, <1>2 DEF BenchInv, DeliveryTypeOK
<1>4. work.int8 \in [OnnxFile -> Origin] /\ onnx \in Seq(Export) /\ work \in Work
  BY <1>1 DEF DeliveryTypeOK, Work
<1>5. e \in Export
  BY <1>3, <1>4 DEF Export
<1>6. /\ e.source = source /\ e.scores = ScoresOf(Source(source))
      /\ \A f \in OnnxFile : e.files[f] = Source(source)["model"]
  BY <1>3
<1>. HIDE DEF e
<1>7. /\ onnx' \in Seq(Export) /\ Len(onnx') = Len(onnx) + 1 /\ Len(onnx) \in Nat
      /\ onnx'[Len(onnx) + 1] = e
      /\ \A i \in 1 .. Len(onnx) : onnx'[i] = onnx[i]
  BY <1>2, <1>4, <1>5, Appended
<1>8. ASSUME NEW i \in 1 .. Len(onnx')
      PROVE  /\ Len(versions[onnx'[i].source]) >= SourceVersion
             /\ \A f \in OnnxFile : onnx'[i].files[f] = Source(onnx'[i].source)["model"]
             /\ onnx'[i].scores = ScoresOf(Source(onnx'[i].source))
  <2>1. CASE i = Len(onnx) + 1
    BY <1>3, <1>6, <1>7, <2>1
  <2>2. CASE i # Len(onnx) + 1
    <3>1. i \in 1 .. Len(onnx) /\ onnx'[i] = onnx[i]
      BY <1>7, <2>2
    <3>. QED BY <1>1, <3>1 DEF BenchInv
  <2>. QED BY <2>1, <2>2
<1>9. BenchInv'
  BY <1>2, <1>8 DEF BenchInv, Source
<1>. QED BY <1>1, <1>2, <1>3, <1>4, <1>7, <1>9, BenchStep DEF DeliveryTypeOK

\* A directory that is half old and half new has the type of both.
LEMMA MixedType ==
  ASSUME NEW D, NEW old \in [D -> Origin], NEW new \in [D -> Origin], NEW m \in Mixed(old, new)
  PROVE  m \in [D -> Origin]
<1>1. DOMAIN new = D /\ Absent \in Origin
  BY MissingType
<1>2. /\ m \in [D -> UNION {{old[f], new[f], Absent} : f \in D}]
      /\ \A f \in D : m[f] \in {old[f], new[f], Absent}
  BY <1>1 DEF Mixed
<1>3. \A f \in D : m[f] \in Origin
  BY <1>1, <1>2
<1>. QED BY <1>2, <1>3

\* What a benchmark leaves behind that failed is written anew by the next one.
LEMMA BenchmarkFailsStep ==
  ASSUME DeliveryInv, BenchmarkFails
  PROVE  DeliveryInv'
<1>1. DeliveryTypeOK /\ BenchInv /\ work \in Work
  BY DEF DeliveryInv, DeliveryTypeOK
<1>2. /\ UNCHANGED <<colabVars, unzipped, versions, source, onnx, serveVars>>
      /\ fails' = fails + 1 /\ fails < MaxFails /\ bench # "idle" /\ bench' = "idle"
  BY DEF BenchmarkFails
<1>3. work.bundle \in Bundle /\ work.fp32 \in Origin /\ work.int8 \in [OnnxFile -> Origin]
  BY <1>1 DEF Work
<1>4. work' \in Work
  <2>1. CASE bench = "begun"
    <3>1. PICK m \in Mixed(work.bundle, versions[source][SourceVersion]) :
            work' = [work EXCEPT !.bundle = m]
      BY <2>1 DEF BenchmarkFails
    <3>2. source \in Names /\ Len(versions[source]) >= SourceVersion
      BY <1>1, <2>1 DEF BenchInv, DeliveryTypeOK
    <3>3. versions[source][SourceVersion] \in Bundle
      BY <3>2, SourceFiles DEF Source
    <3>4. m \in Bundle
      BY <1>3, <3>3, MixedType DEF Bundle
    <3>. QED BY <1>1, <3>1, <3>4 DEF Work
  <2>2. CASE bench = "bundle"
    <3>1. PICK m \in {work.fp32, Absent} : work' = [work EXCEPT !.fp32 = m]
      BY <2>2 DEF BenchmarkFails
    <3>. QED BY <1>1, <1>3, <3>1, MissingType DEF Work
  <2>3. CASE bench = "fp32"
    <3>1. PICK m \in Mixed(work.int8, Quantized) : work' = [work EXCEPT !.int8 = m]
      BY <2>3 DEF BenchmarkFails
    <3>2. Quantized \in [OnnxFile -> Origin]
      BY <1>3 DEF Quantized
    <3>3. m \in [OnnxFile -> Origin]
      BY <1>3, <3>2, MixedType
    <3>. QED BY <1>1, <3>1, <3>3 DEF Work
  <2>4. CASE bench \in {"int8", "scored"}
    BY <1>1, <2>4 DEF BenchmarkFails
  <2>. QED BY <1>1, <1>2, <2>1, <2>2, <2>3, <2>4 DEF DeliveryTypeOK
<1>5. fails' \in 0 .. MaxFails
  BY <1>1, <1>2, DeliveryAssumption DEF DeliveryTypeOK
<1>6. BenchInv'
  BY <1>1, <1>2, ExportsStay DEF BenchInv, Source
<1>. QED BY <1>1, <1>2, <1>4, <1>5, <1>6, BenchStep DEF DeliveryTypeOK

----------------------------------------------------------------------------
(* The service.                                                            *)

\* What the steps of a loader can read, and of which type it is.
LEMMA LoaderType ==
  ASSUME DeliveryInv
  PROVE  /\ loader \in [Loaders -> LoaderState]
         /\ \A l \in Loaders :
              /\ loader[l] \in LoaderState /\ loader[l].has \subseteq OnnxFile
              /\ loader[l].labels \in Version /\ loader[l].graph \in Version
         /\ dest \in [OnnxFile -> Version] /\ opener \in [OnnxFile -> Loaders \union {Absent}]
         /\ fails \in 0 .. MaxFails /\ pin \in 1 .. MaxVersions
         /\ backend = Absent \/ backend \in [graph : Version, labels : Version]
         /\ Configured \in 1 .. MaxVersions /\ Configured \notin {Absent, Holed}
         /\ pin \notin {Absent, Holed}
         /\ {Absent, Holed, pin, Configured} \subseteq Version
         /\ OnnxFile = {"graph", "labels"}
<1>1. DeliveryTypeOK
  BY DEF DeliveryInv
<1>2. pin \in 1 .. MaxVersions /\ local \in 1 .. MaxVersions \union {Absent}
  BY <1>1 DEF DeliveryTypeOK
<1>3. Configured \in 1 .. MaxVersions
  BY <1>2 DEF Configured
<1>4. Absent \notin 1 .. MaxVersions /\ Holed \notin 1 .. MaxVersions
  BY DeliveryAssumption
<1>5. loader \in [Loaders -> LoaderState]
  BY <1>1 DEF DeliveryTypeOK
<1>6. ASSUME NEW l \in Loaders
      PROVE  /\ loader[l] \in LoaderState /\ loader[l].has \subseteq OnnxFile
             /\ loader[l].labels \in Version /\ loader[l].graph \in Version
  BY <1>5 DEF LoaderState
<1>. QED BY <1>1, <1>2, <1>3, <1>4, <1>5, <1>6 DEF DeliveryTypeOK, Version, OnnxFile

\* The steps are different ones.
LEMMA Places ==
  /\ OnnxFile \intersect {"idle", "resolve", "read", "session", "loaded", "failed",
                          "refused"} = {}
  /\ Active = {"resolve", "read", "session", "graph", "labels"}
BY DEF OnnxFile, Active

\* A step of one loader leaves the files of the others held, but for the one that
\* it opens or closes.
LEMMA HeldStays ==
  ASSUME DeliveryInv, NEW l \in Loaders, NEW to,
         loader' = [loader EXCEPT ![l] = to], loader[l].at # "refused",
         NEW f \in OnnxFile, pin' = pin, dest'[f] = dest[f], opener'[f] = opener[f],
         loader[l].at # f \/ to.at = "refused", Held(f)
  PROVE  Held(f)'
<1>1. loader'[l] = to /\ \A k \in Loaders : k # l => loader'[k] = loader[k]
  BY LoaderType
<1>2. \A k \in Loaders : loader[k].at = "refused" => loader'[k].at = "refused"
  BY <1>1
<1>3. CASE to.at = "refused"
  BY <1>1, <1>3 DEF Held
<1>4. CASE loader[l].at # f
  BY <1>1, <1>2, <1>4 DEF Held
<1>. QED BY <1>3, <1>4

\* A loader's step preserves the invariant if it leaves files held and if what it
\* has come to is right.
LEMMA LoaderStep ==
  ASSUME DeliveryInv,
         UNCHANGED <<colabVars, unzipped, versions, benchVars, pin, local>>,
         fails' \in 0 .. MaxFails,
         dest' \in [OnnxFile -> Version],
         opener' \in [OnnxFile -> Loaders \union {Absent}],
         NEW l \in Loaders, NEW to \in LoaderState,
         loader' = [loader EXCEPT ![l] = to], to.at # "idle",
         \A f \in OnnxFile : Held(f) => Held(f)',
         to.at \in OnnxFile \/ to.has # {} => local = Absent,
         \A f \in OnnxFile : to.at = f \/ f \in to.has => Held(f)',
         to.at \in {"read", "session"} =>
           to.labels = Configured /\ (local = Absent => to.has = OnnxFile),
         to.at = "session" => GraphOK(to.graph),
         \/ backend' = backend
         \/ /\ backend' \in [graph : Version, labels : Version]
            /\ backend'.labels = Configured /\ GraphOK(backend'.graph),
         FailInv'
  PROVE  DeliveryInv'
<1>1. DeliveryTypeOK /\ BundleInv /\ BenchInv /\ LoadInv
  BY DEF DeliveryInv
<1>2. /\ loader' \in [Loaders -> LoaderState] /\ loader'[l] = to
      /\ \A k \in Loaders : k # l => loader'[k] = loader[k]
  BY LoaderType
<1>3. DeliveryTypeOK'
  BY <1>1, <1>2 DEF DeliveryTypeOK, colabVars, benchVars
<1>4. BundleInv'
  BY <1>1 DEF BundleInv, OfOne, VersionIsWhole, colabVars
<1>5. BenchInv'
  BY <1>1, BenchFrame
<1>6. Configured' = Configured
  BY DEF Configured
<1>7. ~Alone => ~Alone'
  <2>1. \A k \in Loaders : loader[k].at # "idle" => loader'[k].at # "idle"
    BY <1>2
  <2>. QED BY <2>1 DEF Alone
<1>8. \A g : GraphOK(g) => GraphOK(g)'
  BY <1>6, <1>7 DEF GraphOK
<1>9. LoadedIsPinned'
  BY <1>1, <1>6, <1>8 DEF LoadInv, LoadedIsPinned
<1>10. ASSUME NEW k \in Loaders
       PROVE  /\ loader'[k].at \in OnnxFile \/ loader'[k].has # {} => local' = Absent
              /\ \A f \in OnnxFile : loader'[k].at = f \/ f \in loader'[k].has => Held(f)'
              /\ loader'[k].at \in {"read", "session"} =>
                   /\ loader'[k].labels = Configured
                   /\ local = Absent => loader'[k].has = OnnxFile
              /\ loader'[k].at = "session" => GraphOK(loader'[k].graph)
  <2>1. CASE k = l
    BY <1>2, <2>1
  <2>2. CASE k # l
    <3>1. loader'[k] = loader[k]
      BY <1>2, <2>2
    <3>. QED BY <1>1, <3>1 DEF LoadInv
  <2>. QED BY <2>1, <2>2
<1>11. ASSUME NEW k \in Loaders, loader'[k].at = "session"
       PROVE  GraphOK(loader[k].graph)'
  BY <1>6, <1>7, <1>10, <1>11 DEF GraphOK
<1>12. LoadInv'
  BY <1>6, <1>9, <1>10, <1>11 DEF LoadInv
<1>. QED BY <1>3, <1>4, <1>5, <1>12 DEF DeliveryInv

\* When nothing is due, all files are local, or they were all downloaded: what is
\* not whole then, another one writes, or a download of another one broke off.
LEMMA NothingDue ==
  ASSUME DeliveryInv, NEW l \in Loaders, AllThere(l) \/ loader[l].at = "read",
         NEW f \in OnnxFile
  PROVE  /\ Content(f) \in {Configured, Absent, Holed}
         /\ local = Absent => loader[l].has = OnnxFile
         /\ Content(f) # Configured =>
              /\ local = Absent
              /\ \E k \in Loaders \ {l} : loader[k].at \in OnnxFile \union {"refused"}
<1>1. LoadInv
  BY DEF DeliveryInv
<1>2. CASE local # Absent
  BY <1>2 DEF Content, Configured
<1>3. CASE local = Absent
  <2>1. loader[l].has = OnnxFile
    BY <1>1, <1>3, LoaderType DEF LoadInv, AllThere, Due
  <2>2. Held(f)
    BY <1>1, <2>1 DEF LoadInv
  <2>3. Content(f) = dest[f] /\ Configured = pin
    BY <1>3 DEF Content, Configured
  <2>4. loader[l].at \notin OnnxFile \union {"refused"}
    BY Places DEF AllThere
  <2>. QED BY <1>3, <2>1, <2>2, <2>3, <2>4 DEF Held
<1>. QED BY <1>2, <1>3

LEMMA BeginLoadStep ==
  ASSUME DeliveryInv, NEW l \in Loaders, BeginLoad(l)
  PROVE  DeliveryInv'
<1> DEFINE to == [loader[l] EXCEPT !.at = "resolve"]
<1>1. /\ UNCHANGED <<fails, colabVars, unzipped, versions, benchVars, pin, local, dest,
                     opener, backend>>
      /\ loader[l].at = "idle" /\ loader' = [loader EXCEPT ![l] = to]
  BY DEF BeginLoad, Serves
<1>2. to \in LoaderState /\ to.at = "resolve" /\ to.has = loader[l].has
  BY LoaderType DEF LoaderState, Active
<1>. HIDE DEF to
<1>3. \A f \in OnnxFile : Held(f) => Held(f)'
  BY <1>1, HeldStays, Places
<1>4. loader'[l].at = "resolve"
  BY <1>1, <1>2, LoaderType
<1>5. FailInv'
  BY <1>4 DEF FailInv, Active
<1>. QED BY <1>1, <1>2, <1>3, <1>5, LoaderType, LoaderStep, Places DEF DeliveryInv, LoadInv

\* A file that is opened is written by this loader until it closes it.
LEMMA OpenFileStep ==
  ASSUME DeliveryInv, NEW l \in Loaders, NEW f \in OnnxFile, OpenFile(l, f)
  PROVE  DeliveryInv'
<1> DEFINE to == [loader[l] EXCEPT !.at = f]
<1>1. /\ UNCHANGED <<fails, colabVars, unzipped, versions, benchVars, pin, local, backend>>
      /\ loader[l].at = "resolve" /\ loader' = [loader EXCEPT ![l] = to]
      /\ local = Absent /\ dest' = [dest EXCEPT ![f] = Absent]
      /\ opener' = [opener EXCEPT ![f] = l]
  BY DEF OpenFile, Serves, Due
<1>2. to \in LoaderState /\ to.at = f /\ to.has = loader[l].has
  BY LoaderType DEF LoaderState, Active
<1>. HIDE DEF to
<1>3. /\ dest' \in [OnnxFile -> Version] /\ opener' \in [OnnxFile -> Loaders \union {Absent}]
      /\ dest'[f] = Absent /\ opener'[f] = l /\ loader'[l].at = f
      /\ \A g \in OnnxFile : g # f => dest'[g] = dest[g] /\ opener'[g] = opener[g]
  BY <1>1, <1>2, LoaderType
<1>4. Held(f)'
  BY <1>3 DEF Held
<1>5. \A g \in OnnxFile : Held(g) => Held(g)'
  BY <1>1, <1>3, <1>4, HeldStays, Places
<1>6. \A g \in OnnxFile : to.at = g \/ g \in to.has => Held(g)'
  BY <1>2, <1>4, <1>5 DEF DeliveryInv, LoadInv
<1>7. FailInv'
  BY <1>3 DEF FailInv, Active
<1>. QED BY <1>1, <1>2, <1>3, <1>5, <1>6, <1>7, LoaderType, LoaderStep, Places

\* A file that is closed is whole, unless another loader truncated it meanwhile.
LEMMA CloseFileStep ==
  ASSUME DeliveryInv, NEW l \in Loaders, NEW f \in OnnxFile, CloseFile(l, f)
  PROVE  DeliveryInv'
<1> DEFINE to == [loader[l] EXCEPT !.at = "resolve", !.has = @ \union {f}]
<1>1. /\ UNCHANGED <<fails, colabVars, unzipped, versions, benchVars, pin, local, opener,
                     backend>>
      /\ loader[l].at = f /\ loader' = [loader EXCEPT ![l] = to]
  BY DEF CloseFile, Serves
<1>2. to \in LoaderState /\ to.at = "resolve" /\ to.has = loader[l].has \union {f}
  <2>1. loader[l] \in LoaderState /\ loader[l].has \union {f} \in SUBSET OnnxFile
    BY LoaderType
  <2>. QED BY <2>1 DEF LoaderState, Active
<1>. HIDE DEF to
<1>3. PICK c \in IF opener[f] = l \/ dest[f] = pin THEN {pin} ELSE {pin, Holed} :
        dest' = [dest EXCEPT ![f] = c]
  BY DEF CloseFile
<1>4. /\ dest' \in [OnnxFile -> Version] /\ dest'[f] = c /\ c \in {pin, Holed}
      /\ \A g \in OnnxFile : g # f => dest'[g] = dest[g]
  BY <1>3, LoaderType
<1>5. loader'[l].at = "resolve" /\ \A k \in Loaders : k # l => loader'[k] = loader[k]
  BY <1>1, <1>2, LoaderType
<1>6. local = Absent /\ Held(f)
  BY <1>1 DEF DeliveryInv, LoadInv
<1>7. Held(f)'
  <2>1. CASE c = pin
    BY <1>1, <1>4, <2>1 DEF Held
  <2>2. CASE c # pin
    <3>1. opener[f] # l /\ dest[f] # pin
      BY <1>3, <2>2
    <3>2. CASE \E k \in Loaders : opener[f] = k /\ loader[k].at = f
      <4>1. PICK k \in Loaders : opener[f] = k /\ loader[k].at = f
        BY <3>2
      <4>2. opener'[f] = k /\ loader'[k].at = f
        BY <1>1, <1>5, <3>1, <4>1
      <4>. QED BY <1>1, <1>4, <4>2 DEF Held
    <3>3. CASE \E k \in Loaders : loader[k].at = "refused"
      <4>1. PICK k \in Loaders : loader[k].at = "refused"
        BY <3>3
      <4>2. loader'[k].at = "refused"
        BY <1>1, <1>5, <4>1, Places
      <4>. QED BY <1>1, <1>4, <4>2 DEF Held
    <3>. QED BY <1>6, <3>1, <3>2, <3>3 DEF Held
  <2>. QED BY <2>1, <2>2
<1>8. \A g \in OnnxFile : Held(g) => Held(g)'
  BY <1>1, <1>4, <1>7, HeldStays, Places
<1>9. \A g \in OnnxFile : to.at = g \/ g \in to.has => Held(g)'
  BY <1>2, <1>7, <1>8, Places DEF DeliveryInv, LoadInv
<1>10. FailInv'
  BY <1>5 DEF FailInv, Active
<1>. QED BY <1>1, <1>2, <1>4, <1>6, <1>8, <1>9, <1>10, LoaderType, LoaderStep, Places

LEMMA ReadLabelsStep ==
  ASSUME DeliveryInv, NEW l \in Loaders, ReadLabels(l)
  PROVE  DeliveryInv'
<1> DEFINE to == [loader[l] EXCEPT !.at = "read", !.labels = Content("labels")]
<1>1. /\ UNCHANGED <<fails, colabVars, unzipped, versions, benchVars, pin, local, dest,
                     opener, backend>>
      /\ AllThere(l) /\ loader[l].at = "resolve" /\ Content("labels") \notin {Absent, Holed}
      /\ loader' = [loader EXCEPT ![l] = to]
  BY DEF ReadLabels, Serves, AllThere
<1>2. Content("labels") = Configured /\ (local = Absent => loader[l].has = OnnxFile)
  BY <1>1, NothingDue, LoaderType
<1>3. to \in LoaderState /\ to.at = "read" /\ to.has = loader[l].has /\ to.labels = Configured
  <2>1. loader[l] \in LoaderState /\ Content("labels") \in Version
    BY <1>2, LoaderType
  <2>. QED BY <1>2, <2>1 DEF LoaderState, Active
<1>. HIDE DEF to
<1>4. \A f \in OnnxFile : Held(f) => Held(f)'
  BY <1>1, HeldStays, Places
<1>5. loader'[l].at = "read"
  BY <1>1, <1>3, LoaderType
<1>6. FailInv'
  BY <1>5 DEF FailInv, Active
<1>. QED BY <1>1, <1>2, <1>3, <1>4, <1>6, LoaderType, LoaderStep, Places DEF DeliveryInv, LoadInv

\* The graph is opened as it is configured, or another loader was there.
LEMMA OpenSessionStep ==
  ASSUME DeliveryInv, NEW l \in Loaders, OpenSession(l)
  PROVE  DeliveryInv'
<1> DEFINE to == [loader[l] EXCEPT !.at = "session", !.graph = Content("graph")]
<1>1. /\ UNCHANGED <<fails, colabVars, unzipped, versions, benchVars, pin, local, dest,
                     opener, backend>>
      /\ loader[l].at = "read" /\ Content("graph") # Absent
      /\ loader' = [loader EXCEPT ![l] = to]
  BY DEF OpenSession, Serves
<1>2. /\ Content("graph") \in {Configured, Holed}
      /\ Content("graph") # Configured =>
           /\ local = Absent
           /\ \E k \in Loaders \ {l} : loader[k].at \in OnnxFile \union {"refused"}
  BY <1>1, NothingDue, LoaderType
<1>3. GraphOK(Content("graph"))
  <2>1. CASE Content("graph") = Configured
    BY <2>1 DEF GraphOK
  <2>2. CASE Content("graph") # Configured
    <3>1. PICK k \in Loaders \ {l} : loader[k].at \in OnnxFile \union {"refused"}
      BY <1>2, <2>2
    <3>2. loader[k].at # "idle" /\ loader[l].at # "idle"
      BY <1>1, <3>1, Places
    <3>. QED BY <1>2, <2>2, <3>1, <3>2 DEF GraphOK, Alone
  <2>. QED BY <2>1, <2>2
<1>4. /\ to \in LoaderState /\ to.at = "session" /\ to.has = loader[l].has
      /\ to.labels = loader[l].labels /\ to.graph = Content("graph")
  <2>1. loader[l] \in LoaderState /\ Content("graph") \in Version
    BY <1>2, LoaderType
  <2>. QED BY <2>1 DEF LoaderState, Active
<1>. HIDE DEF to
<1>5. \A f \in OnnxFile : Held(f) => Held(f)'
  BY <1>1, HeldStays, Places
<1>6. loader'[l].at = "session"
  BY <1>1, <1>4, LoaderType
<1>7. FailInv'
  BY <1>6 DEF FailInv, Active
<1>8. /\ to.at \in OnnxFile \/ to.has # {} => local = Absent
      /\ \A f \in OnnxFile : to.at = f \/ f \in to.has => Held(f)'
      /\ to.labels = Configured /\ (local = Absent => to.has = OnnxFile)
  BY <1>1, <1>4, <1>5, Places DEF DeliveryInv, LoadInv
<1>. QED BY <1>1, <1>3, <1>4, <1>5, <1>7, <1>8, LoaderType, LoaderStep, Places

\* A loader that ends, with a backend or without, leaves what others hold.
LEMMA EndOfLoad ==
  ASSUME DeliveryInv, NEW l \in Loaders, NEW at \in {"loaded", "failed", "refused"},
         loader' = [loader EXCEPT ![l] = [Asleep EXCEPT !.at = at]],
         at = "refused" \/ loader[l].at \notin OnnxFile, loader[l].at # "refused",
         UNCHANGED <<colabVars, unzipped, versions, benchVars, pin, local, dest, opener>>,
         fails' \in 0 .. MaxFails,
         \/ backend' = backend
         \/ /\ backend' \in [graph : Version, labels : Version]
            /\ backend'.labels = Configured /\ GraphOK(backend'.graph),
         FailInv'
  PROVE  DeliveryInv'
<1> DEFINE to == [Asleep EXCEPT !.at = at]
<1>1. to \in LoaderState /\ to.at = at /\ to.has = {}
  BY AsleepType DEF Asleep, LoaderState
<1>. HIDE DEF to
<1>2. loader' = [loader EXCEPT ![l] = to]
  BY DEF to
<1>3. \A f \in OnnxFile : Held(f) => Held(f)'
  BY <1>1, <1>2, HeldStays
<1>. QED BY <1>1, <1>2, <1>3, LoaderType, LoaderStep, Places

\* What get_kie_backend keeps is what load has read.
LEMMA KeepBackendStep ==
  ASSUME DeliveryInv, NEW l \in Loaders, KeepBackend(l)
  PROVE  DeliveryInv'
<1>1. /\ UNCHANGED <<fails, colabVars, unzipped, versions, benchVars, pin, local, dest,
                     opener>>
      /\ loader[l].at = "session"
      /\ loader' = [loader EXCEPT ![l] = [Asleep EXCEPT !.at = "loaded"]]
      /\ backend' = [graph |-> loader[l].graph, labels |-> loader[l].labels]
  BY DEF KeepBackend, Serves
<1>2. loader[l].labels = Configured /\ GraphOK(loader[l].graph)
  BY <1>1 DEF DeliveryInv, LoadInv
<1>3. /\ backend' \in [graph : Version, labels : Version]
      /\ backend'.labels = Configured /\ GraphOK(backend'.graph)
  BY <1>1, <1>2, LoaderType
<1>4. backend' # Absent
  BY <1>1, <1>2, LoaderType, DeliveryAssumption DEF GraphOK
<1>5. FailInv'
  BY <1>4 DEF FailInv
<1>. QED BY <1>1, <1>3, <1>5, EndOfLoad, LoaderType, Places

\* A loader that finds a file spoilt leaves another one that is writing it, or
\* one whose download broke off.
LEMMA LoadRaisesStep ==
  ASSUME DeliveryInv, NEW l \in Loaders, LoadRaises(l)
  PROVE  DeliveryInv'
<1>1. /\ UNCHANGED <<fails, colabVars, unzipped, versions, benchVars, pin, local, dest,
                     opener, backend>>
      /\ loader' = [loader EXCEPT ![l] = [Asleep EXCEPT !.at = "failed"]]
      /\ AllThere(l) \/ loader[l].at = "read"
      /\ \E f \in OnnxFile : Content(f) \in {Absent, Holed}
  BY DEF LoadRaises, Serves, OnnxFile
<1>2. loader[l].at \in {"resolve", "read"}
  BY <1>1 DEF AllThere
<1>3. PICK k \in Loaders \ {l} : loader[k].at \in OnnxFile \union {"refused"}
  BY <1>1, NothingDue, LoaderType
<1>4. loader'[k] = loader[k]
  BY <1>1, <1>3, LoaderType
<1>5. FailInv'
  BY <1>3, <1>4 DEF FailInv, Active
<1>. QED BY <1>1, <1>2, <1>5, EndOfLoad, LoaderType, Places

LEMMA DownloadFailsStep ==
  ASSUME DeliveryInv, NEW l \in Loaders, DownloadFails(l)
  PROVE  DeliveryInv'
<1>1. /\ UNCHANGED <<colabVars, unzipped, versions, benchVars, pin, local, dest, opener,
                     backend>>
      /\ loader[l].at \in {"resolve", "session"} \union OnnxFile
      /\ loader' = [loader EXCEPT ![l] = [Asleep EXCEPT !.at = "refused"]]
      /\ fails' = fails + 1 /\ fails < MaxFails
  BY DEF DownloadFails
<1>2. fails' \in 0 .. MaxFails
  BY <1>1, LoaderType, DeliveryAssumption
<1>3. loader'[l].at = "refused"
  BY <1>1, LoaderType DEF Asleep
<1>4. FailInv'
  BY <1>3 DEF FailInv
<1>. QED BY <1>1, <1>2, <1>4, EndOfLoad, LoaderType, Places

LEMMA RestartStep ==
  ASSUME DeliveryInv, Restart
  PROVE  DeliveryInv'
<1>1. DeliveryTypeOK /\ BundleInv /\ BenchInv
  BY DEF DeliveryInv
<1>2. /\ UNCHANGED <<fails, colabVars, unzipped, versions, benchVars, dest>>
      /\ pin' \in 1 .. MaxVersions /\ local' \in 1 .. MaxVersions \union {Absent}
      /\ loader' = [l \in Loaders |-> Asleep] /\ opener' = Missing(OnnxFile)
      /\ backend' = Absent
  BY DEF Restart
<1>3. DeliveryTypeOK'
  BY <1>1, <1>2, AsleepType, MissingType DEF DeliveryTypeOK, colabVars, benchVars
<1>4. BundleInv' /\ BenchInv'
  BY <1>1, <1>2, BenchFrame DEF BundleInv, OfOne, VersionIsWhole, colabVars
<1>5. LoadInv' /\ FailInv'
  <2>1. \A l \in Loaders : loader'[l].at = "idle" /\ loader'[l].has = {}
    BY <1>2 DEF Asleep
  <2>. QED BY <1>2, <2>1, Places DEF LoadInv, FailInv, LoadedIsPinned
<1>. QED BY <1>3, <1>4, <1>5 DEF DeliveryInv

----------------------------------------------------------------------------
(* The theorems about Delivery.                                            *)

LEMMA DeliveryNextInv == DeliveryInv /\ [DeliveryNext]_deliveryVars => DeliveryInv'
<1>. SUFFICES ASSUME DeliveryInv, [DeliveryNext]_deliveryVars PROVE DeliveryInv'
  OBVIOUS
<1>1. CASE RunTraining \/ SaveBundle \/ TrainingFails \/ DownloadZip BY <1>1, ColabStep
<1>2. CASE ImportBundle BY <1>2, ImportBundleStep
<1>3. CASE \/ BeginBenchmark \/ DownloadRegistered \/ ExportOnnx \/ QuantizeInt8 \/ Evaluate
           \/ RegisterOnnx
  BY <1>3, BeginBenchmarkStep, BenchmarkStep, RegisterOnnxStep
<1>4. CASE BenchmarkFails BY <1>4, BenchmarkFailsStep
<1>5. CASE Restart BY <1>5, RestartStep
<1>6. ASSUME NEW l \in Loaders,
             \/ BeginLoad(l) \/ ReadLabels(l) \/ OpenSession(l)
             \/ LoadRaises(l) \/ KeepBackend(l) \/ DownloadFails(l)
      PROVE  DeliveryInv'
  BY <1>6, BeginLoadStep, ReadLabelsStep, OpenSessionStep, LoadRaisesStep,
     KeepBackendStep, DownloadFailsStep
<1>7. ASSUME NEW l \in Loaders, NEW f \in OnnxFile, OpenFile(l, f) \/ CloseFile(l, f)
      PROVE  DeliveryInv'
  BY <1>7, OpenFileStep, CloseFileStep
<1>8. CASE UNCHANGED deliveryVars
  <2>1. DeliveryTypeOK /\ BundleInv /\ BenchInv /\ LoadInv /\ FailInv
    BY DEF DeliveryInv
  <2>2. UNCHANGED <<fails, colabVars, unzipped, versions, benchVars, serveVars>>
    BY <1>8 DEF deliveryVars
  <2>3. DeliveryTypeOK' /\ BundleInv'
    BY <2>1, <2>2 DEF DeliveryTypeOK, BundleInv, OfOne, VersionIsWhole, colabVars,
       benchVars, serveVars
  <2>. QED BY <2>1, <2>2, <2>3, BenchFrame, ServeFrame DEF DeliveryInv
<1>. QED BY <1>1, <1>2, <1>3, <1>4, <1>5, <1>6, <1>7, <1>8 DEF DeliveryNext

\* The inductive invariant holds for any number of trainings, models, versions,
\* first requests and failures.
THEOREM DeliveryInvariance == DeliverySpec => []DeliveryInv
BY DeliveryInitInv, DeliveryNextInv, PTL DEF DeliverySpec

\* What import_bundle registers is the bundle of one training.
THEOREM ImportedBundleIsWhole == DeliverySpec => []VersionIsWhole
<1>1. DeliveryInv => VersionIsWhole BY DEF DeliveryInv, BundleInv
<1>. QED BY <1>1, DeliveryInvariance, PTL

\* What run_benchmark registers is its source, and so are the models whose scores
\* it logs, on samples of that source.
THEOREM BenchmarkIsOfSource == DeliverySpec => []OnnxIsOfSource
<1>1. DeliveryInv => OnnxIsOfSource
  <2>1. \A files : \A c \in Configs :
          ScoresOf(files)[c] = Score(files["model"], Samples(files))
    BY DEF ScoresOf
  <2>. QED BY <2>1 DEF DeliveryInv, BenchInv, Source, OnnxIsOfSource
<1>. QED BY <1>1, DeliveryInvariance, PTL

\* The backend that get_kie_backend keeps is the version it was configured with,
\* but for a gap that overlapping first requests may leave in its graph.
THEOREM BackendIsConfigured == DeliverySpec => []LoadedIsPinned
<1>1. DeliveryInv => LoadedIsPinned BY DEF DeliveryInv, LoadInv
<1>. QED BY <1>1, DeliveryInvariance, PTL

\* However many first requests download at once, not all of them fail: where
\* registry and hub answered, one has loaded the backend.
THEOREM FirstRequestsDoNotAllFail == DeliverySpec => []OneOfThemLoads
<1>1. DeliveryInv => OneOfThemLoads
  BY Places DEF DeliveryInv, FailInv, OneOfThemLoads
<1>. QED BY <1>1, DeliveryInvariance, PTL

====
