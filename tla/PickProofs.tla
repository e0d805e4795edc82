------------------------------ MODULE PickProofs ------------------------------
(* Pick as a bijection between the indices picked and those of the result,    *)
(* and what follows of its elements.                                          *)
EXTENDS Picks, FiniteSetTheorems, SequenceTheorems, TLAPS

\* The indices of a sequence form a finite set, and so does any part of them.
LEMMA IndicesFinite ==
    ASSUME NEW S, NEW s \in Seq(S), NEW I \in SUBSET (DOMAIN s)
    PROVE  /\ IsFiniteSet(I)
           /\ Cardinality(I) \in Nat
           /\ I \subseteq Nat
<1>1. DOMAIN s = 1..Len(s) /\ Len(s) \in Nat
  BY LenProperties
<1>2. IsFiniteSet(DOMAIN s)
  BY <1>1, FS_Interval
<1>3. IsFiniteSet(I)
  BY <1>2, FS_Subset
<1> QED
  BY <1>1, <1>3, FS_CardinalityType

\* The rank of an index in I numbers I from 1 without gaps.
LEMMA RankBijective ==
    ASSUME NEW S, NEW s \in Seq(S), NEW I \in SUBSET (DOMAIN s)
    PROVE  /\ \A i \in I : Cardinality({j \in I : j <= i}) \in 1..Cardinality(I)
           /\ \A i, l \in I : Cardinality({j \in I : j <= i})
                                = Cardinality({j \in I : j <= l}) => i = l
           /\ \A k \in 1..Cardinality(I) :
                 \E i \in I : Cardinality({j \in I : j <= i}) = k
<1> DEFINE Upto(i) == {j \in I : j <= i}
           Rank(i) == Cardinality(Upto(i))
           n == Cardinality(I)
<1>1. IsFiniteSet(I) /\ n \in Nat /\ I \subseteq Nat
  BY IndicesFinite
<1>2. ASSUME NEW i \in I
      PROVE  IsFiniteSet(Upto(i)) /\ Rank(i) \in 1..n
  <2>1. Upto(i) \in SUBSET I
    OBVIOUS
  <2>2. IsFiniteSet(Upto(i)) /\ Rank(i) <= n
    BY <1>1, <2>1, FS_Subset
  <2>3. Rank(i) \in Nat
    BY <2>2, FS_CardinalityType
  <2>4. Upto(i) # {}
    <3>1. i <= i
      BY <1>1
    <3> QED
      BY <3>1
  <2>5. Rank(i) # 0
    BY <2>2, <2>4, FS_EmptySet
  <2> QED
    BY <1>1, <2>2, <2>3, <2>5
<1>3. ASSUME NEW i \in I, NEW l \in I, i < l
      PROVE  Rank(i) # Rank(l)
  <2>1. Upto(i) \in SUBSET Upto(l)
    BY <1>1, <1>3
  <2>2. l \in Upto(l) /\ l \notin Upto(i)
    BY <1>1, <1>3
  <2>3. IsFiniteSet(Upto(l))
    BY <1>2
  <2> HIDE DEF Upto
  <2>4. Cardinality(Upto(l)) = Cardinality(Upto(i)) => Upto(l) = Upto(i)
    BY <2>1, <2>3, FS_Subset
  <2> QED
    BY <2>2, <2>4
<1>4. \A i, l \in I : Rank(i) = Rank(l) => i = l
  <2> TAKE i \in I, l \in I
  <2>1. i = l \/ i < l \/ l < i
    BY <1>1
  <2> QED
    BY <1>3, <2>1
<1>5. \A k \in 1..n : \E i \in I : Rank(i) = k
  <2> DEFINE r == [i \in I |-> Rank(i)]
  <2>1. r \in Injection(I, 1..n)
    <3>1. r \in [I -> 1..n]
      BY <1>2
    <3>2. \A i, l \in I : r[i] = r[l] => i = l
      BY <1>4
    <3> QED
      BY <3>1, <3>2 DEF Injection, IsInjective
  <2>2. IsFiniteSet(1..n) /\ Cardinality(1..n) = n
    BY <1>1, FS_Interval
  <2>3. r \in Surjection(I, 1..n)
    <3> HIDE DEF r, n
    <3>1. Cardinality(I) = Cardinality(1..n) <=> r \in Surjection(I, 1..n)
      BY <2>1, <2>2, FS_Injection
    <3> QED
      BY <3>1, <2>2 DEF n
  <2>4. \A k \in 1..n : \E i \in I : r[i] = k
    BY <2>3 DEF Surjection
  <2> QED
    BY <2>4
<1> QED
  BY <1>2, <1>4, <1>5

\* t holds the elements of s at I, each once: its k-th is that at f[k].
Draws(t, s, I, f) ==
    /\ f \in [DOMAIN t -> I]
    /\ \A k \in DOMAIN t : t[k] = s[f[k]]
    /\ \A k, l \in DOMAIN t : f[k] = f[l] => k = l
    /\ \A i \in I : \E k \in DOMAIN t : f[k] = i

\* Pick(s, I) does.
LEMMA PickDraws ==
    ASSUME NEW S, NEW s \in Seq(S), NEW I \in SUBSET (DOMAIN s)
    PROVE  Pick(s, I) \in Seq(S) /\ \E f : Draws(Pick(s, I), s, I, f)
<1> DEFINE Rank(i) == Cardinality({j \in I : j <= i})
           n == Cardinality(I)
           f == [k \in 1..n |-> CHOOSE i \in I : Rank(i) = k]
<1>1. n \in Nat
  BY IndicesFinite
<1>2. /\ \A i \in I : Rank(i) \in 1..n
      /\ \A i, l \in I : Rank(i) = Rank(l) => i = l
      /\ \A k \in 1..n : \E i \in I : Rank(i) = k
  BY RankBijective
<1> HIDE DEF Rank, n
<1>3. \A k \in 1..n : f[k] \in I /\ Rank(f[k]) = k
  BY <1>2
<1>4. f \in [1..n -> I]
  BY <1>3
<1>5. \A k, l \in 1..n : f[k] = f[l] => k = l
  BY <1>3
<1>6. \A i \in I : \E k \in 1..n : f[k] = i
  <2> TAKE i \in I
  <2>1. Rank(i) \in 1..n
    BY <1>2
  <2>2. f[Rank(i)] = i
    BY <1>2, <1>3, <2>1
  <2> QED
    BY <2>1, <2>2
<1>7. Pick(s, I) = [k \in 1..n |-> s[f[k]]]
  BY DEF Pick, Rank, n
<1> HIDE DEF f
<1>8. \A k \in 1..n : s[f[k]] \in S
  BY <1>4, ElementOfSeq, LenProperties
<1>9. Pick(s, I) \in Seq(S) /\ Len(Pick(s, I)) = n
  <2>1. Pick(s, I) \in [1..n -> S]
    BY <1>7, <1>8
  <2> QED
    BY <1>1, <2>1, LenProperties
<1>10. DOMAIN Pick(s, I) = 1..n
  BY <1>7
<1>11. Draws(Pick(s, I), s, I, f)
  BY <1>4, <1>5, <1>6, <1>7, <1>10 DEF Draws
<1> QED
  BY <1>9, <1>11

\* Pick(s, I) holds exactly the elements of s at I, each once.
LEMMA PickProperties ==
    ASSUME NEW S, NEW s \in Seq(S), NEW I \in SUBSET (DOMAIN s)
    PROVE  /\ Pick(s, I) \in Seq(S)
           /\ Len(Pick(s, I)) = Cardinality(I)
           /\ Cardinality(I) \in Nat
           /\ \E f \in [1..Cardinality(I) -> I] :
                 /\ \A k \in 1..Cardinality(I) : Pick(s, I)[k] = s[f[k]]
                 /\ \A k, l \in 1..Cardinality(I) : f[k] = f[l] => k = l
                 /\ \A i \in I : \E k \in 1..Cardinality(I) : f[k] = i
<1>1. Pick(s, I) \in Seq(S)
  BY PickDraws
<1>2. PICK f : Draws(Pick(s, I), s, I, f)
  BY PickDraws
<1>3. IsFiniteSet(I) /\ Cardinality(I) \in Nat
  BY IndicesFinite
<1>4. Len(Pick(s, I)) = Cardinality(I) /\ DOMAIN Pick(s, I) = 1..Cardinality(I)
  <2>1. DOMAIN Pick(s, I) = 1..Cardinality(I)
    BY DEF Pick
  <2> QED
    BY <1>1, <1>3, <2>1, LenProperties
<1>5. /\ f \in [1..Cardinality(I) -> I]
      /\ \A k \in 1..Cardinality(I) : Pick(s, I)[k] = s[f[k]]
      /\ \A k, l \in 1..Cardinality(I) : f[k] = f[l] => k = l
      /\ \A i \in I : \E k \in 1..Cardinality(I) : f[k] = i
  BY <1>2, <1>4 DEF Draws
<1> QED
  BY <1>1, <1>3, <1>4, <1>5

\* Among some indices of a sequence there is a least one.
LEMMA LeastIndex ==
    ASSUME NEW S, NEW s \in Seq(S), NEW I \in SUBSET (DOMAIN s), I # {}
    PROVE  \E i \in I : \A j \in I : i <= j
<1> DEFINE Upto(i) == {j \in I : j <= i}
           Rank(i) == Cardinality(Upto(i))
<1>1. IsFiniteSet(I) /\ Cardinality(I) \in Nat /\ I \subseteq Nat
  BY IndicesFinite
<1>2. Cardinality(I) # 0
  BY <1>1, FS_EmptySet
<1>3. /\ \A i \in I : Rank(i) \in 1..Cardinality(I)
      /\ \A i, l \in I : Rank(i) = Rank(l) => i = l
      /\ \A k \in 1..Cardinality(I) : \E i \in I : Rank(i) = k
  BY RankBijective
<1> HIDE DEF Upto, Rank
<1>4. PICK i \in I : Rank(i) = 1
  BY <1>1, <1>2, <1>3
<1>5. PICK x : Upto(i) = {x}
  <2>1. Upto(i) \in SUBSET I
    BY DEF Upto
  <2>2. IsFiniteSet(Upto(i))
    BY <1>1, <2>1, FS_Subset
  <2> QED
    BY <1>4, <2>2, FS_Singleton DEF Rank
<1>6. \A j \in I : j <= i => j = i
  BY <1>1, <1>5 DEF Upto
<1>7. \A j \in I : j \in Nat
  BY <1>1
<1>8. ASSUME NEW j \in I
      PROVE  i <= j
  <2>1. i \in Nat /\ j \in Nat
    BY <1>7
  <2> QED
    BY <1>6, <2>1
<1> QED
  BY <1>8

\* A set of numbers up to n that is not empty has a least element.
LEMMA LeastIn ==
    ASSUME NEW n \in Nat, NEW I \in SUBSET (1..n), I # {}
    PROVE  \E i \in I : \A j \in I : i <= j
<1>1. PICK s : s \in [1..n -> Nat]
  <2>1. [i \in 1..n |-> i] \in [1..n -> Nat]
    OBVIOUS
  <2> QED
    BY <2>1
<1>2. s \in Seq(Nat) /\ DOMAIN s = 1..n
  BY <1>1
<1> QED
  BY <1>2, LeastIndex

\* And a greatest.
LEMMA GreatestIn ==
    ASSUME NEW n \in Nat, NEW I \in SUBSET (1..n), I # {}
    PROVE  \E i \in I : \A j \in I : j <= i
<1> DEFINE J == {k \in 1..n : (n + 1) - k \in I}
<1>1. \A i \in I : (n + 1) - i \in J
  OBVIOUS
<1>2. J \in SUBSET (1..n) /\ J # {}
  BY <1>1
<1>3. \A k \in J : (n + 1) - k \in I /\ k \in 1..n
  OBVIOUS
<1> HIDE DEF J
<1>4. PICK k \in J : \A l \in J : k <= l
  BY <1>2, LeastIn
<1>5. ASSUME NEW j \in I
      PROVE  j <= (n + 1) - k
  <2>1. k <= (n + 1) - j
    BY <1>1, <1>4
  <2> QED
    BY <1>3, <2>1
<1> QED
  BY <1>3, <1>5

\* Each element of Pick(s, I) is one of s at I, and the other way round.
LEMMA PickElements ==
    ASSUME NEW S, NEW s \in Seq(S), NEW I \in SUBSET (DOMAIN s)
    PROVE  /\ Pick(s, I) \in Seq(S)
           /\ \A k \in DOMAIN Pick(s, I) : \E i \in I : Pick(s, I)[k] = s[i]
           /\ \A i \in I : \E k \in DOMAIN Pick(s, I) : Pick(s, I)[k] = s[i]
<1>1. Pick(s, I) \in Seq(S) /\ DOMAIN Pick(s, I) = 1..Cardinality(I)
  BY PickProperties, LenProperties
<1>2. PICK f \in [1..Cardinality(I) -> I] :
          /\ \A k \in 1..Cardinality(I) : Pick(s, I)[k] = s[f[k]]
          /\ \A i \in I : \E k \in 1..Cardinality(I) : f[k] = i
  BY PickProperties, SMTT(60)
<1>. QED BY <1>1, <1>2

=============================================================================
