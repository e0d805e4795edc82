---------------------------- MODULE RouterProofs ----------------------------
(* That Route turns no matching key away, for keys of every length.        *)
EXTENDS Router, TLAPS

-----------------------------------------------------------------------------
(* Cuts of prefixes.                                                       *)

\* The keys are not empty.
LEMMA KeyFacts ==
    ASSUME TypeOK
    PROVE  /\ n \in Nat \ {0} /\ m \in Nat \ {0}
           /\ DOMAIN bkeys = 1..n /\ DOMAIN rkeys = 1..m
           /\ \A p \in 1..n : bkeys[p] \in Word \cup {Star, Hash}
  BY DEF TypeOK, n, m

\* The first k words of a cut of k + 1 are cut where the last one begins.
LEMMA CutPrefix ==
    ASSUME NEW k \in Nat \ {0}, NEW M \in Nat, NEW c \in [0..k -> 0..M], m = M,
           NEW l, IsCut(c, k, l)
    PROVE  Matches(k - 1, c[k - 1])
  <1> DEFINE d == [p \in 0..(k - 1) |-> c[p]]
  <1>1. d \in [0..(k - 1) -> 0..m]
    OBVIOUS
  <1>2. IsCut(d, k - 1, c[k - 1])
    BY DEF IsCut
  <1> QED
    BY <1>1, <1>2 DEF Matches

\* Without words only empty keys match, and keys of "#" only without letters.
LEMMA NoWords ==
    ASSUME TypeOK, NEW l \in 0..m, Matches(0, l)
    PROVE  l = 0
  BY DEF Matches, IsCut

LEMMA OnlyHashes ==
    ASSUME TypeOK, NEW k \in 1..n, Matches(k, 0), NEW p \in 1..k
    PROVE  bkeys[p] = Hash
  <1>1. PICK c \in [0..k -> 0..m] : IsCut(c, k, 0)
    BY DEF Matches
  <1>2. n \in Nat /\ m \in Nat
    BY KeyFacts
  <1>3. p - 1 \in 0..k /\ p \in 0..k /\ k \in 0..k
    BY <1>2
  <1>4. c[p] <= c[k] /\ c[k] = 0 /\ c[p] \in Nat /\ c[p - 1] \in Nat
    BY <1>1, <1>2, <1>3 DEF IsCut
  <1>5. c[p] # c[p - 1] + 1
    BY <1>4
  <1> QED
    BY <1>1, <1>5 DEF IsCut

\* What a cell has to look at.
LEMMA CellStep ==
    ASSUME TypeOK, NEW k \in 1..n, NEW l \in 1..m, Matches(k, l)
    PROVE  \/ bkeys[k] \in {rkeys[l], Star}
           \/ bkeys[k] = Hash /\ (Matches(k - 1, l) \/ Matches(k, l - 1))
  <1>1. n \in Nat /\ m \in Nat
    BY KeyFacts
  <1>2. PICK c \in [0..k -> 0..m] : IsCut(c, k, l)
    BY DEF Matches
  <1>3. k \in 1..k /\ c[k] = l /\ k - 1 \in 0..k /\ k \in 0..k
    BY <1>1, <1>2 DEF IsCut
  <1>4. CASE bkeys[k] # Hash
    BY <1>2, <1>3, <1>4 DEF IsCut
  <1>5. CASE bkeys[k] = Hash /\ c[k - 1] = l
    <2>1. Matches(k - 1, c[k - 1])
      BY <1>1, <1>2, CutPrefix
    <2> QED
      BY <2>1, <1>5
  <1>6. CASE bkeys[k] = Hash /\ c[k - 1] # l
    <2> DEFINE d == [c EXCEPT ![k] = l - 1]
    <2>1. d \in [0..k -> 0..m]
      BY <1>1
    <2>2. c[k - 1] <= c[k] /\ c[k - 1] \in 0..m
      BY <1>1, <1>2, <1>3 DEF IsCut
    <2>3. c[k - 1] <= l - 1
      BY <2>2, <1>3, <1>6, <1>1
    <2>4. \A p \in 0..k : p # k => c[p] <= l - 1
      <3> TAKE p \in 0..k
      <3> HAVE p # k
      <3>1. p <= k - 1
        BY <1>1
      <3>2. c[p] <= c[k - 1] /\ c[p] \in 0..m
        BY <3>1, <1>2, <1>3 DEF IsCut
      <3> QED
        BY <3>2, <2>2, <2>3, <1>1
    <2>5. d[0] = 0 /\ d[k] = l - 1
      BY <1>1, <1>2 DEF IsCut
    <2>6. \A p, r \in 0..k : p <= r => d[p] <= d[r]
      <3> TAKE p, r \in 0..k
      <3> HAVE p <= r
      <3>1. CASE r = k
        BY <3>1, <2>4, <1>1
      <3>2. CASE r # k
        <4>1. p # k
          BY <3>2, <1>1
        <4> QED
          BY <4>1, <3>2, <1>2 DEF IsCut
      <3> QED
        BY <3>1, <3>2
    <2>7. \A p \in 1..k : \/ bkeys[p] = Hash
                          \/ bkeys[p] = Star /\ d[p] = d[p - 1] + 1
                          \/ /\ bkeys[p] \in Word
                             /\ d[p] = d[p - 1] + 1
                             /\ rkeys[d[p]] = bkeys[p]
      <3> TAKE p \in 1..k
      <3>1. CASE p = k
        BY <3>1, <1>6
      <3>2. CASE p # k
        <4>1. d[p] = c[p] /\ d[p - 1] = c[p - 1]
          BY <3>2, <1>1
        <4> QED
          BY <4>1, <1>2 DEF IsCut
      <3> QED
        BY <3>1, <3>2
    <2>8. IsCut(d, k, l - 1)
      BY <2>5, <2>6, <2>7 DEF IsCut
    <2> QED
      BY <2>1, <2>8, <1>6 DEF Matches
  <1> QED
    BY <1>4, <1>5, <1>6

-----------------------------------------------------------------------------
(* The invariant: whatever the loops have filled is complete, and what was *)
(* returned is the last cell.                                              *)

Returned ==
    type = "TOPIC" /\ result # "none" =>
        j > 0 /\ i > n /\ result = Answer(dp[<<n, m>>])

Inv == TypeOK /\ TableComplete /\ Returned

\* No action changes the keys, and with them the table's size and its meaning.
LEMMA SameKeys ==
    ASSUME UNCHANGED <<bkeys, rkeys>>
    PROVE  n' = n /\ m' = m /\ \A k, l : Matches(k, l)' <=> Matches(k, l)
  BY DEF n, m, Matches, IsCut

LEMMA InitInv == Init => Inv
  <1> SUFFICES ASSUME Init PROVE Inv
    OBVIOUS
  <1>1. bkeys \in Seq(Word \cup {Star, Hash}) \ {<<>>} /\ rkeys \in Seq(Word) \ {<<>>}
    BY SMTT(30) DEF Init, Keys
  <1>2. TypeOK
    BY <1>1 DEF Init, TypeOK, n, m
  <1>3. TableComplete
    <2> SUFFICES ASSUME NEW k \in 0..n, NEW l \in 0..m, Filled(k, l), Matches(k, l)
                 PROVE  dp[<<k, l>>]
      BY DEF TableComplete
    <2>1. k = 0
      BY KeyFacts, <1>2 DEF Filled, Init
    <2>2. l = 0
      BY <2>1, <1>2, NoWords
    <2> QED
      BY <2>1, <2>2, <1>2, KeyFacts DEF Init
  <1> QED
    BY <1>2, <1>3 DEF Inv, Returned, Init

LEMMA NotTopicInv == Inv /\ NotTopic => Inv'
  <1> SUFFICES ASSUME Inv, NotTopic PROVE Inv'
    OBVIOUS
  <1>1. TypeOK'
    BY DEF Inv, NotTopic, TypeOK, Answer, n, m
  <1>2. TableComplete' /\ Returned'
    BY DEF NotTopic, TableComplete, Returned
  <1> QED
    BY <1>1, <1>2 DEF Inv

LEMMA FirstColumnInv == Inv /\ FirstColumn => Inv'
  <1> SUFFICES ASSUME Inv, FirstColumn PROVE Inv'
    OBVIOUS
  <1>1. /\ n \in Nat \ {0} /\ m \in Nat \ {0} /\ n' = n /\ m' = m
        /\ \A k, l : Matches(k, l)' <=> Matches(k, l)
    BY KeyFacts, SameKeys DEF Inv, FirstColumn
  <1>2. i \in 1..(n + 1) /\ dp \in [(0..n) \X (0..m) -> BOOLEAN] /\ j = 0
    BY DEF Inv, TypeOK, FirstColumn
  <1>3. TypeOK'
    <2>1. dp' \in [(0..n) \X (0..m) -> BOOLEAN]
      BY <1>2 DEF FirstColumn
    <2>2. i' \in 1..(n + 1) /\ j' \in 0..m
      BY <1>1, <1>2 DEF FirstColumn
    <2>3. UNCHANGED <<type, bkeys, rkeys, result>>
      BY DEF FirstColumn
    <2> QED
      BY <1>1, <2>1, <2>2, <2>3 DEF Inv, TypeOK
  <1>4. TableComplete'
    <2> SUFFICES ASSUME NEW k \in 0..n, NEW l \in 0..m, Filled(k, l)', Matches(k, l)
                 PROVE  dp'[<<k, l>>]
      BY <1>1 DEF TableComplete
    <2>1. \A p \in 0..n, r \in 0..m : Filled(p, r) /\ Matches(p, r) => dp[<<p, r>>]
      BY DEF Inv, TableComplete, FirstColumn
    <2>2. CASE k = 0
      <3>1. Filled(k, l)
        BY <2>2 DEF Filled
      <3>2. dp'[<<k, l>>] = dp[<<k, l>>]
        BY <2>2, <1>2 DEF FirstColumn
      <3> QED
        BY <2>1, <3>1, <3>2
    <2>3. CASE k # 0
      <3>1. l = 0
        BY <2>3, <1>1, <1>2 DEF Filled, FirstColumn
      <3>2. CASE k < i
        <4>1. Filled(k, l)
          BY <3>1, <3>2 DEF Filled
        <4>2. dp'[<<k, l>>] = dp[<<k, l>>]
          BY <3>2, <1>2 DEF FirstColumn
        <4> QED
          BY <2>1, <4>1, <4>2
      <3>3. CASE k >= i
        <4>1. i \in 1..k /\ i <= n
          BY <3>3, <1>1, <1>2
        <4>2. bkeys[i] = Hash
          BY <4>1, <3>1, <2>3, OnlyHashes DEF Inv
        <4>3. i' = i + 1 /\ j' = 0 /\ dp' = [dp EXCEPT ![<<i, 0>>] = TRUE]
          BY <4>1, <4>2, <1>2 DEF FirstColumn
        <4>4. k = i
          BY <4>3, <4>1, <2>3, <3>1, <1>1 DEF Filled
        <4> QED
          BY <4>3, <4>4, <3>1, <1>2
      <3> QED
        BY <3>2, <3>3, <1>1, <1>2
    <2> QED
      BY <2>2, <2>3
  <1>5. Returned'
    BY <1>2 DEF Inv, Returned, FirstColumn
  <1> QED
    BY <1>3, <1>4, <1>5 DEF Inv

LEMMA FillInv == Inv /\ Fill => Inv'
  <1> SUFFICES ASSUME Inv, Fill PROVE Inv'
    OBVIOUS
  <1>1. /\ n \in Nat \ {0} /\ m \in Nat \ {0} /\ n' = n /\ m' = m
        /\ \A k, l : Matches(k, l)' <=> Matches(k, l)
    BY KeyFacts, SameKeys DEF Inv, Fill
  <1>2. i \in 1..n /\ dp \in [(0..n) \X (0..m) -> BOOLEAN] /\ j \in 1..m
    BY <1>1 DEF Inv, TypeOK, Fill
  <1>3. Cell \in BOOLEAN
    BY DEF Cell
  <1>4. TypeOK'
    BY <1>1, <1>2, <1>3 DEF Inv, Fill, TypeOK, n, m
  <1>5. TableComplete'
    <2> SUFFICES ASSUME NEW k \in 0..n, NEW l \in 0..m, Filled(k, l)', Matches(k, l)
                 PROVE  dp'[<<k, l>>]
      BY <1>1 DEF TableComplete
    <2>1. \A p \in 0..n, r \in 0..m : Filled(p, r) /\ Matches(p, r) => dp[<<p, r>>]
      BY DEF Inv, TableComplete, Fill
    <2>2. CASE k = i /\ l = j
      <3>1. /\ bkeys[i] \in {rkeys[j], Star}
            \/ /\ bkeys[i] = Hash
               /\ Matches(i - 1, j) \/ Matches(i, j - 1)
        BY <2>2, <1>2, CellStep DEF Inv
      <3>2. Filled(i - 1, j) /\ Filled(i, j - 1)
        BY <1>1, <1>2 DEF Filled
      <3>3. i - 1 \in 0..n /\ i \in 0..n /\ j - 1 \in 0..m /\ j \in 0..m
        BY <1>1, <1>2
      <3>4. Cell
        BY <3>1, <3>2, <3>3, <2>1 DEF Cell
      <3> QED
        BY <2>2, <3>4, <1>2 DEF Fill
    <2>3. CASE ~(k = i /\ l = j)
      <3>1. dp'[<<k, l>>] = dp[<<k, l>>]
        BY <2>3, <1>2 DEF Fill
      <3>2. Filled(k, l)
        BY <2>3, <1>1, <1>2 DEF Filled, Fill
      <3> QED
        BY <2>1, <3>1, <3>2
    <2> QED
      BY <2>2, <2>3
  <1>6. Returned'
    BY <1>1, <1>2 DEF Inv, Returned, Fill
  <1> QED
    BY <1>4, <1>5, <1>6 DEF Inv

LEMMA ReturnInv == Inv /\ Return => Inv'
  <1> SUFFICES ASSUME Inv, Return PROVE Inv'
    OBVIOUS
  <1>1. n' = n /\ m' = m /\ \A k, l : Matches(k, l)' <=> Matches(k, l)
    BY SameKeys DEF Return
  <1>2. TypeOK'
    BY <1>1 DEF Inv, Return, TypeOK, Answer, n, m
  <1>3. TableComplete'
    BY <1>1 DEF Inv, TableComplete, Return, Filled
  <1>4. Returned'
    BY <1>1 DEF Returned, Return
  <1> QED
    BY <1>2, <1>3, <1>4 DEF Inv

\* Inv is an invariant.
THEOREM Invariance == Spec => []Inv
  <1>1. Inv /\ [Next]_vars => Inv'
    <2> SUFFICES ASSUME Inv, [Next]_vars PROVE Inv'
      OBVIOUS
    <2>1. CASE UNCHANGED vars
      BY <2>1, SameKeys DEF vars, Inv, TypeOK, TableComplete, Returned, Filled, n, m
    <2> QED
      BY <2>1, NotTopicInv, FirstColumnInv, FillInv, ReturnInv DEF Next
  <1> QED
    BY <1>1, InitInv, PTL DEF Spec

\* Every cell of the table that has been filled is set if the prefixes of the
\* keys it stands for match (route.hpp:70-85), whatever the keys.
THEOREM TableIsComplete == Spec => []TableComplete
  <1>1. Inv => TableComplete
    BY DEF Inv
  <1> QED
    BY <1>1, Invariance, PTL

\* Route never says no to a key that matches (route.hpp:87).
THEOREM NoRouteMissed == Spec => []NoMissedRoute
  <1>1. Inv => NoMissedRoute
    <2> SUFFICES ASSUME Inv, type = "TOPIC", Matches(n, m), result = "no" PROVE FALSE
      BY DEF NoMissedRoute
    <2>1. j > 0 /\ i > n /\ result = Answer(dp[<<n, m>>])
      BY DEF Inv, Returned
    <2>2. n \in 0..n /\ m \in 0..m /\ Filled(n, m)
      BY <2>1, KeyFacts DEF Inv, TypeOK, Filled
    <2>3. dp[<<n, m>>]
      BY <2>2 DEF Inv, TableComplete
    <2> QED
      BY <2>1, <2>3 DEF Answer
  <1> QED
    BY <1>1, Invariance, PTL

-----------------------------------------------------------------------------
(* What a cell says of its own word, which is all it is sure of.           *)

OwnWord ==
    type = "TOPIC" =>
        \A k \in 1..n, l \in 1..m :
            bkeys[k] \in Word /\ dp[<<k, l>>] => bkeys[k] = rkeys[l]

LEMMA OwnWordStep == Inv /\ OwnWord /\ [Next]_vars => OwnWord'
  <1> SUFFICES ASSUME Inv, OwnWord, [Next]_vars,
                      type' = "TOPIC",
                      NEW k \in 1..n', NEW l \in 1..m',
                      bkeys'[k] \in Word, dp'[<<k, l>>]
               PROVE  bkeys'[k] = rkeys'[l]
    BY DEF OwnWord
  <1>1. UNCHANGED <<type, bkeys, rkeys>>
    BY DEF Next, vars, NotTopic, FirstColumn, Fill, Return
  <1>2. n' = n /\ m' = m /\ n \in Nat \ {0} /\ m \in Nat \ {0}
    BY <1>1, KeyFacts DEF Inv, n, m
  <1>3. CASE dp[<<k, l>>]
    BY <1>1, <1>2, <1>3 DEF OwnWord
  <1>4. CASE ~dp[<<k, l>>]
    <2>1. <<k, l>> \in (0..n) \X (0..m) /\ dp \in [(0..n) \X (0..m) -> BOOLEAN]
      BY <1>2 DEF Inv, TypeOK
    <2>2. FirstColumn \/ Fill
      BY <1>4 DEF Next, vars, NotTopic, Return
    <2>3. ~FirstColumn
      BY <1>2, <1>4, <2>1 DEF FirstColumn
    <2>4. dp' = [dp EXCEPT ![<<i, j>>] = Cell]
      BY <2>2, <2>3 DEF Fill
    <2>5. k = i /\ l = j /\ Cell
      BY <2>1, <2>4, <1>4
    <2>6. bkeys[i] # Hash /\ bkeys[i] # Star
      BY <2>5, <1>1, RouterAssumption
    <2> QED
      BY <2>5, <2>6, <1>1 DEF Cell
  <1> QED
    BY <1>3, <1>4

\* Route says yes only if the last word of the binding key, when it is a plain
\* word, is that of the routing key: of what it answers by mistake
\* (route.hpp:80), nothing has another last word.
THEOREM LastWord == Spec => []LastWordRespected
  <1>1. Init => OwnWord
    <2> SUFFICES ASSUME Init, NEW k \in 1..n, NEW l \in 1..m, dp[<<k, l>>]
                 PROVE  FALSE
      BY DEF OwnWord
    <2>1. TypeOK
      BY InitInv DEF Inv
    <2>2. <<k, l>> \in (0..n) \X (0..m) /\ <<k, l>> # <<0, 0>>
      BY <2>1, KeyFacts
    <2> QED
      BY <2>2 DEF Init
  <1>2. Inv /\ OwnWord => LastWordRespected
    <2> SUFFICES ASSUME Inv, OwnWord, type = "TOPIC", result = "yes", bkeys[n] \in Word
                 PROVE  bkeys[n] = rkeys[m]
      BY DEF LastWordRespected
    <2>1. n \in 1..n /\ m \in 1..m
      BY KeyFacts DEF Inv
    <2>2. dp[<<n, m>>]
      BY DEF Inv, Returned, Answer
    <2> QED
      BY <2>1, <2>2 DEF OwnWord
  <1> QED
    BY <1>1, <1>2, OwnWordStep, Invariance, PTL DEF Spec

=============================================================================
