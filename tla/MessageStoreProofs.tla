------------------------- MODULE MessageStoreProofs -------------------------
(***************************************************************************)
(* Theorems about MessageStore, for every set of messages and every        *)
(* threshold of GCCheck.                                                   *)
(***************************************************************************)
EXTENDS MessageStore, PickProofs

-----------------------------------------------------------------------------
(* What the three writes do to a file.                                     *)

\* No message has two valid records.
Distinct(d) ==
    \A i, j \in ValidAt(d) : d[i].msg = d[j].msg /\ d[i].msg # Phantom => i = j

LEMMA ValidAtFacts ==
    ASSUME NEW d \in Seq(Record)
    PROVE  /\ ValidAt(d) \in SUBSET (DOMAIN d)
           /\ DOMAIN d = 1..Len(d) /\ Len(d) \in Nat
           /\ IsFiniteSet(ValidAt(d))
           /\ Cardinality(ValidAt(d)) \in Nat
           /\ \A i \in DOMAIN d : d[i] \in Record
<1>1. ValidAt(d) \in SUBSET (DOMAIN d)
  BY DEF ValidAt
<1> QED
  BY <1>1, IndicesFinite, LenProperties, ElementOfSeq

\* A collection keeps the valid records and nothing else.
LEMMA CompactFacts ==
    ASSUME NEW d \in Seq(Record)
    PROVE  LET r == Compact(d) IN
           /\ r \in Seq(Record)
           /\ Len(r) = Cardinality(ValidAt(d))
           /\ ValidAt(r) = DOMAIN r
           /\ Cardinality(ValidAt(r)) = Len(r)
           /\ Stored(r) = Stored(d)
           /\ Distinct(d) => Distinct(r)
<1> DEFINE r == Compact(d)
           V == ValidAt(d)
           n == Cardinality(V)
<1>1. V \in SUBSET (DOMAIN d) /\ n \in Nat
  BY ValidAtFacts
<1>2. r \in Seq(Record) /\ Len(r) = n
  BY <1>1, PickProperties DEF Compact
<1>3. PICK f \in [1..n -> V] :
         /\ \A k \in 1..n : r[k] = d[f[k]]
         /\ \A k, l \in 1..n : f[k] = f[l] => k = l
         /\ \A i \in V : \E k \in 1..n : f[k] = i
  BY <1>1, PickProperties DEF Compact
<1>4. DOMAIN r = 1..n
  BY <1>2, LenProperties
<1> HIDE DEF r, n
<1>5. \A k \in 1..n : f[k] \in V /\ r[k].valid
  BY <1>3 DEF ValidAt
<1>6. ValidAt(r) = DOMAIN r
  BY <1>4, <1>5 DEF ValidAt
<1>7. Cardinality(ValidAt(r)) = Len(r)
  <2>1. Cardinality(1..n) = n
    BY <1>1, FS_Interval DEF n
  <2> QED
    BY <1>2, <1>4, <1>6, <2>1
<1>8. Stored(r) = Stored(d)
  <2>1. Stored(r) = {r[k].msg : k \in 1..n}
    BY <1>4, <1>6 DEF Stored
  <2>2. Stored(d) = {d[i].msg : i \in V}
    BY DEF Stored
  <2> HIDE DEF V
  <2>3. ASSUME NEW m \in Stored(r)
        PROVE  m \in Stored(d)
    BY <1>3, <1>5, <2>1, <2>2
  <2>4. ASSUME NEW m \in Stored(d)
        PROVE  m \in Stored(r)
    BY <1>3, <1>5, <2>1, <2>2
  <2> QED
    BY <2>3, <2>4
<1>9. Distinct(d) => Distinct(r)
  <2> SUFFICES ASSUME Distinct(d),
                      NEW k \in 1..n, NEW l \in 1..n,
                      r[k].msg = r[l].msg, r[k].msg # Phantom
               PROVE  k = l
    BY <1>4, <1>6 DEF Distinct
  <2>1. f[k] = f[l]
    BY <1>3, <1>5 DEF Distinct
  <2> QED
    BY <1>3, <2>1
<1> QED
  BY <1>2, <1>6, <1>7, <1>8, <1>9 DEF r, n

\* An insertion adds one valid record.
LEMMA AppendFacts ==
    ASSUME NEW d \in Seq(Record), NEW e \in Entry
    PROVE  LET r == Append(d, [msg |-> e, valid |-> TRUE]) IN
           /\ r \in Seq(Record)
           /\ Len(r) = Len(d) + 1
           /\ \A i \in DOMAIN d : i \in DOMAIN r /\ r[i] = d[i]
           /\ Len(r) \in DOMAIN r
           /\ r[Len(r)] = [msg |-> e, valid |-> TRUE]
           /\ Cardinality(ValidAt(r)) = Cardinality(ValidAt(d)) + 1
           /\ Stored(r) = Stored(d) \cup {e}
           /\ Distinct(d) /\ (e = Phantom \/ e \notin Stored(d)) => Distinct(r)
<1> DEFINE x == [msg |-> e, valid |-> TRUE]
           r == Append(d, x)
           n == Len(d) + 1
<1>1. x \in Record /\ x.msg = e /\ x.valid
  BY DEF Record
<1>2. /\ r \in Seq(Record)
      /\ Len(r) = n
      /\ \A i \in 1..Len(d) : r[i] = d[i]
      /\ r[n] = x
  BY <1>1, AppendProperties
<1>3. /\ Len(d) \in Nat
      /\ DOMAIN d = 1..Len(d)
      /\ DOMAIN r = DOMAIN d \cup {n}
      /\ n \notin DOMAIN d
  BY <1>2, LenProperties
<1> HIDE DEF r, x, n
<1>4. ValidAt(r) = ValidAt(d) \cup {n}
  BY <1>1, <1>2, <1>3 DEF ValidAt
<1>5. n \notin ValidAt(d)
  BY <1>3 DEF ValidAt
<1>6. Cardinality(ValidAt(r)) = Cardinality(ValidAt(d)) + 1
  BY <1>4, <1>5, ValidAtFacts, FS_AddElement
<1>7. \A i \in ValidAt(d) : r[i] = d[i]
  BY <1>2, <1>3 DEF ValidAt
<1>8. Stored(r) = Stored(d) \cup {e}
  BY <1>1, <1>2, <1>4, <1>7 DEF Stored
<1>9. ASSUME Distinct(d), e = Phantom \/ e \notin Stored(d)
      PROVE  Distinct(r)
  <2> SUFFICES ASSUME NEW i \in ValidAt(r), NEW j \in ValidAt(r),
                      r[i].msg = r[j].msg, r[i].msg # Phantom
               PROVE  i = j
    BY DEF Distinct
  <2>1. CASE i \in ValidAt(d) /\ j \in ValidAt(d)
    BY <1>7, <1>9, <2>1 DEF Distinct
  <2>2. CASE i = n /\ j = n
    BY <2>2
  <2>3. CASE i \in ValidAt(d) /\ j = n
    BY <1>1, <1>2, <1>7, <1>9, <2>3 DEF Stored
  <2>4. CASE i = n /\ j \in ValidAt(d)
    BY <1>1, <1>2, <1>7, <1>9, <2>4 DEF Stored
  <2> QED
    BY <1>4, <2>1, <2>2, <2>3, <2>4
<1>10. \A i \in DOMAIN d : i \in DOMAIN r /\ r[i] = d[i]
  BY <1>2, <1>3
<1> QED
  BY <1>2, <1>3, <1>6, <1>8, <1>9, <1>10 DEF r, x, n

\* A mark changes no length, wherever it falls.
LEMMA MarkTypes ==
    ASSUME NEW d \in Seq(Record), NEW i, NEW m \in Msg
    PROVE  LET r == Invalidate(d, i, m) IN
           /\ r \in Seq(Record)
           /\ Len(r) = Len(d)
           /\ DOMAIN r = DOMAIN d
<1> DEFINE r == Invalidate(d, i, m)
<1>1. /\ Len(d) \in Nat /\ DOMAIN d = 1..Len(d)
      /\ \A k \in DOMAIN d : d[k] \in Record
  BY ValidAtFacts
<1>2. [msg |-> m, valid |-> FALSE] \in Record
  BY DEF Record, Entry
<1>3. r \in [1..Len(d) -> Record]
  BY <1>1, <1>2 DEF Invalidate
<1> QED
  BY <1>1, <1>3

\* An acknowledgement invalidates one record in place.
LEMMA MarkFacts ==
    ASSUME NEW d \in Seq(Record), NEW i \in ValidAt(d), NEW m \in Msg,
           d[i].msg = m, Distinct(d)
    PROVE  LET r == Invalidate(d, i, m) IN
           /\ r \in Seq(Record)
           /\ Len(r) = Len(d)
           /\ DOMAIN r = DOMAIN d
           /\ \A j \in DOMAIN d : j # i => r[j] = d[j]
           /\ Cardinality(ValidAt(r)) = Cardinality(ValidAt(d)) - 1
           /\ Cardinality(ValidAt(d)) # 0
           /\ Stored(r) = Stored(d) \ {m}
           /\ Distinct(r)
<1> DEFINE x == [msg |-> m, valid |-> FALSE]
           r == Invalidate(d, i, m)
<1>1. x \in Record /\ ~x.valid
  BY DEF Record, Entry
<1>2. i \in DOMAIN d /\ DOMAIN d = 1..Len(d)
  BY ValidAtFacts
<1>3. r \in Seq(Record) /\ Len(r) = Len(d) /\ DOMAIN r = DOMAIN d
  BY <1>1, MarkTypes
<1>4. r[i] = x /\ \A j \in DOMAIN d : j # i => r[j] = d[j]
  BY <1>2 DEF Invalidate
<1> HIDE DEF r, x
<1>5. ValidAt(r) = ValidAt(d) \ {i}
  BY <1>1, <1>3, <1>4 DEF ValidAt
<1>6. /\ Cardinality(ValidAt(r)) = Cardinality(ValidAt(d)) - 1
      /\ Cardinality(ValidAt(d)) # 0
  BY <1>5, ValidAtFacts, FS_RemoveElement, FS_EmptySet
<1>7. \A j \in ValidAt(r) : r[j] = d[j] /\ j \in ValidAt(d) /\ j # i
  BY <1>4, <1>5, ValidAtFacts
<1>8. m # Phantom
  BY MessageStoreAssumption
<1>9. \A j \in ValidAt(d) : j # i => d[j].msg # m
  BY <1>8 DEF Distinct
<1>10. Stored(r) = Stored(d) \ {m}
  BY <1>5, <1>7, <1>9 DEF Stored
<1>11. Distinct(r)
  BY <1>7 DEF Distinct
<1> QED
  BY <1>3, <1>4, <1>6, <1>10, <1>11 DEF r, x

-----------------------------------------------------------------------------
(* The inductive invariant.                                                *)

\* No queue object, no memory; and Clear has emptied the file.
Shape ==
    /\ ~Alive => /\ msgs = <<>>
                 /\ durableMsgs = {}
                 /\ waitackMsgs = {}
                 /\ total = 0
                 /\ valid = 0
    /\ status = "cleared" => datafile = <<>>

\* Only messages that were published are anywhere.
Known ==
    /\ accepted \subseteq published
    /\ settled \subseteq published
    /\ waitackMsgs \subseteq published
    /\ \A m \in Entry : InList(m) => m \in published
    /\ Stored(datafile) \subseteq (Persistent \cap published) \cup {Phantom}

\* A persistent message that is queued or unacknowledged is in the index.
Indexed ==
    \A m \in Persistent : InList(m) \/ m \in waitackMsgs => m \in durableMsgs

\* What holds while the file fits its offsets.
Inv ==
    /\ ~outgrown
    /\ TypeOK
    /\ Shape
    /\ Known
    /\ Indexed
    /\ Distinct(datafile)
    /\ OwnRecord
    /\ CountsMatchFile
    /\ IndexMatchesFile
    /\ OnePlace
    /\ AckedStaysGone
    /\ CountsBounded
    /\ SurvivesOutsideSwap

\* The next file does, and none did not.
Fits == outgrown' \in BOOLEAN /\ ~outgrown' /\ ~TooLong(datafile')

\* The offset of a record in a file that is not too long.
LEMMA PlaceFacts ==
    ASSUME NEW i \in Nat \ {0}
    PROVE  /\ Place(i) \in Nat
           /\ i <= OffsetRange => Place(i) = i
  BY MessageStoreAssumption DEF Place

LEMMA EmptyFile ==
    /\ <<>> \in Seq(Record)
    /\ Len(<<>>) = 0
    /\ ValidAt(<<>>) = {}
    /\ Cardinality(ValidAt(<<>>)) = 0
    /\ Stored(<<>>) = {}
    /\ Distinct(<<>>)
<1>1. ValidAt(<<>>) = {}
  BY DEF ValidAt
<1> QED
  BY <1>1, FS_EmptySet DEF Stored, Distinct

\* After a relocation every stored message has its own record.
LEMMA RelocateFacts ==
    ASSUME NEW d \in Seq(Record), offset \in [Persistent -> Nat]
    PROVE  LET r == Compact(d) IN
           /\ Relocate(r) \in [Persistent -> Nat]
           /\ ~TooLong(r) =>
                 \A m \in Stored(d) \cap Persistent :
                    /\ Relocate(r)[m] \in DOMAIN r
                    /\ r[Relocate(r)[m]] = [msg |-> m, valid |-> TRUE]
<1> DEFINE r == Compact(d)
<1>1. /\ r \in Seq(Record)
      /\ ValidAt(r) = DOMAIN r
      /\ Stored(r) = Stored(d)
  BY CompactFacts
<1>2. /\ DOMAIN r = 1..Len(r) /\ Len(r) \in Nat
      /\ \A k \in DOMAIN r : r[k] \in Record
  BY <1>1, ValidAtFacts
<1> HIDE DEF r
<1>3. Relocate(r) \in [Persistent -> Nat]
  <2>1. \A k \in DOMAIN r : Place(k) \in Nat
    BY <1>2, PlaceFacts
  <2> QED
    BY <2>1 DEF Relocate
<1>4. ASSUME ~TooLong(r), NEW m \in Stored(d) \cap Persistent
      PROVE  /\ Relocate(r)[m] \in DOMAIN r
             /\ r[Relocate(r)[m]] = [msg |-> m, valid |-> TRUE]
  <2>1. \E k \in DOMAIN r : r[k].msg = m
    BY <1>1 DEF Stored
  <2> DEFINE k == Relocate(r)[m]
  <2> DEFINE l == CHOOSE i \in DOMAIN r : r[i].msg = m
  <2>5. l \in DOMAIN r /\ r[l].msg = m
    BY <2>1
  <2>6. k = Place(l)
    BY <2>1 DEF Relocate
  <2> HIDE DEF l
  <2>7. l \in Nat \ {0} /\ l <= OffsetRange
    BY <1>2, <1>4, <2>5, MessageStoreAssumption DEF TooLong
  <2>2. k \in DOMAIN r /\ r[k].msg = m
    BY <2>5, <2>6, <2>7, PlaceFacts
  <2> HIDE DEF k
  <2>3. r[k] \in Record /\ r[k].valid = TRUE
    BY <1>1, <1>2, <2>2 DEF ValidAt, Record
  <2>4. r[k] = [msg |-> m, valid |-> TRUE]
    BY <2>2, <2>3 DEF Record
  <2> QED
    BY <2>2, <2>4 DEF k
<1> QED
  BY <1>3, <1>4 DEF r

\* When GCCheck declines, the dead records are few.
LEMMA GcCheckFacts ==
    ASSUME NEW v \in Nat, NEW t \in Nat, ~GcCheck(v, t)
    PROVE  t - v <= GcMinTotal \/ 2 * v >= t
<1>1. CASE t <= GcMinTotal
  BY <1>1, MessageStoreAssumption
<1>2. CASE t > GcMinTotal
  <2> DEFINE q == (v * 10) \div t
  <2>1. t > 0
    BY <1>2, MessageStoreAssumption
  <2>2. q \in Int /\ q * t <= v * 10
    BY <2>1
  <2>3. q >= 5
    BY <1>2, <2>2 DEF GcCheck
  <2> HIDE DEF q
  <2>4. q * t >= 5 * t
    BY <2>1, <2>2, <2>3
  <2> QED
    BY <2>2, <2>4
<1> QED
  BY <1>1, <1>2, MessageStoreAssumption

\* With an index and counters that match the file, the private Gc() keeps
\* both so, queues nothing and bounds the garbage.
LEMMA GcFacts ==
    ASSUME TypeOK,
           NEW d \in Seq(Record),
           Distinct(d),
           total = Len(d),
           NEW v \in Nat, v = Cardinality(ValidAt(d)),
           \A m \in Stored(d) \cap Persistent :
              offset[m] \in DOMAIN d /\ d[offset[m]] = [msg |-> m, valid |-> TRUE],
           Gc(d, Stored(d), v),
           ~TooLong(datafile')
    PROVE  /\ datafile' \in Seq(Record)
           /\ Distinct(datafile')
           /\ Stored(datafile') = Stored(d)
           /\ durableMsgs' = Stored(d)
           /\ msgs' = msgs
           /\ total' = Len(datafile')
           /\ valid' = Cardinality(ValidAt(datafile'))
           /\ total' \in Nat /\ valid' \in Nat
           /\ offset' \in [Persistent -> Nat]
           /\ \A m \in Stored(d) \cap Persistent :
                 /\ offset'[m] \in DOMAIN datafile'
                 /\ datafile'[offset'[m]] = [msg |-> m, valid |-> TRUE]
           /\ total' - valid' <= GcMinTotal \/ 2 * valid' >= total'
<1>1. CASE GcCheck(v, total)
  <2> DEFINE r == Compact(d)
  <2>1. /\ r \in Seq(Record)
        /\ Len(r) = Cardinality(ValidAt(r))
        /\ ValidAt(r) = DOMAIN r
        /\ Stored(r) = Stored(d)
        /\ Distinct(r)
    BY CompactFacts
  <2>2. Len(r) \in Nat
    BY <2>1, ValidAtFacts
  <2>3. /\ Relocate(r) \in [Persistent -> Nat]
        /\ \A m \in Stored(d) \cap Persistent :
              /\ Relocate(r)[m] \in DOMAIN r
              /\ r[Relocate(r)[m]] = [msg |-> m, valid |-> TRUE]
    BY <1>1, RelocateFacts DEF TypeOK, Types, Gc
  <2>4. /\ datafile' = r
        /\ offset' = Relocate(r)
        /\ msgs' = msgs \o Names(Orphans(r, Stored(d)))
        /\ durableMsgs' = Stored(d) \cup Stored(d)
        /\ total' = Len(r)
        /\ valid' = Len(r)
    BY <1>1 DEF Gc
  <2> HIDE DEF r
  <2>5. msgs' = msgs
    <3>1. \A k \in DOMAIN r : r[k].msg \in Stored(d)
      BY <2>1 DEF Stored
    <3>2. Orphans(r, Stored(d)) = Pick(r, {})
      BY <3>1 DEF Orphans
    <3>3. Pick(r, {}) = <<>>
      BY FS_EmptySet DEF Pick
    <3>4. Names(Orphans(r, Stored(d))) = <<>>
      BY <3>2, <3>3 DEF Names
    <3> QED
      BY <2>4, <3>4 DEF TypeOK, Types
  <2>6. total' - valid' <= GcMinTotal
    BY <2>2, <2>4, MessageStoreAssumption
  <2> QED
    BY <2>1, <2>2, <2>3, <2>4, <2>5, <2>6
<1>2. CASE ~GcCheck(v, total)
  <2>1. /\ datafile' = d
        /\ durableMsgs' = Stored(d)
        /\ valid' = v
        /\ offset' = offset /\ msgs' = msgs /\ total' = total
    BY <1>2 DEF Gc
  <2>2. total - v <= GcMinTotal \/ 2 * v >= total
    BY <1>2, GcCheckFacts DEF TypeOK, Types
  <2> QED
    BY <2>1, <2>2 DEF TypeOK, Types
<1> QED
  BY <1>1, <1>2

-----------------------------------------------------------------------------
(* The list of messages.                                                   *)

Occurs(s, x) == \E i \in DOMAIN s : s[i] = x

NoRepeat(s) == \A i, j \in DOMAIN s : s[i] = s[j] => i = j

LEMMA AppendList ==
    ASSUME NEW s \in Seq(Entry), NEW m \in Entry
    PROVE  LET t == Append(s, m) IN
           /\ t \in Seq(Entry)
           /\ \A x : Occurs(t, x) <=> Occurs(s, x) \/ x = m
           /\ NoRepeat(s) /\ ~Occurs(s, m) => NoRepeat(t)
<1> DEFINE t == Append(s, m)
           n == Len(s) + 1
<1>1. /\ t \in Seq(Entry)
      /\ DOMAIN t = DOMAIN s \cup {n}
      /\ n \notin DOMAIN s
      /\ \A i \in DOMAIN s : t[i] = s[i]
      /\ t[n] = m
  BY AppendProperties, LenProperties
<1> HIDE DEF t, n
<1>2. \A x : Occurs(t, x) <=> Occurs(s, x) \/ x = m
  BY <1>1 DEF Occurs
<1>3. NoRepeat(s) /\ ~Occurs(s, m) => NoRepeat(t)
  BY <1>1 DEF NoRepeat, Occurs
<1> QED
  BY <1>1, <1>2, <1>3 DEF t

LEMMA TailList ==
    ASSUME NEW s \in Seq(Entry), s # <<>>, NoRepeat(s)
    PROVE  LET t == Tail(s) IN
           /\ t \in Seq(Entry)
           /\ Head(s) \in Entry
           /\ Occurs(s, Head(s))
           /\ \A x : Occurs(t, x) <=> Occurs(s, x) /\ x # Head(s)
           /\ NoRepeat(t)
<1> DEFINE t == Tail(s)
           n == Len(s)
<1>1. /\ t \in Seq(Entry)
      /\ Len(t) = n - 1
      /\ \A i \in 1..(n - 1) : t[i] = s[i + 1]
      /\ Head(s) = s[1] /\ Head(s) \in Entry
  BY HeadTailProperties
<1>2. n \in Nat /\ n # 0 /\ DOMAIN s = 1..n
  BY LenProperties, EmptySeq
<1>3. DOMAIN t = 1..(n - 1)
  BY <1>1, LenProperties
<1> HIDE DEF t, n
<1>4. 1 \in DOMAIN s /\ Occurs(s, Head(s))
  BY <1>1, <1>2 DEF Occurs
<1>5. \A i \in DOMAIN t : i + 1 \in DOMAIN s /\ t[i] = s[i + 1] /\ i + 1 # 1
  BY <1>1, <1>2, <1>3
<1>6. \A j \in DOMAIN s : j # 1 => j - 1 \in DOMAIN t /\ t[j - 1] = s[j]
  <2> TAKE j \in DOMAIN s
  <2>1. j # 1 => j - 1 \in DOMAIN t
    BY <1>2, <1>3
  <2>2. (j - 1) + 1 = j
    BY <1>2
  <2> QED
    BY <1>5, <2>1, <2>2
<1>7. ASSUME NEW x
      PROVE  Occurs(t, x) <=> Occurs(s, x) /\ x # Head(s)
  <2>1. ASSUME Occurs(t, x)
        PROVE  Occurs(s, x) /\ x # Head(s)
    BY <1>1, <1>4, <1>5, <2>1 DEF Occurs, NoRepeat
  <2>2. ASSUME Occurs(s, x), x # Head(s)
        PROVE  Occurs(t, x)
    BY <1>1, <1>6, <2>2 DEF Occurs
  <2> QED
    BY <2>1, <2>2
<1>8. NoRepeat(t)
  <2> SUFFICES ASSUME NEW i \in DOMAIN t, NEW j \in DOMAIN t, t[i] = t[j]
               PROVE  i = j
    BY DEF NoRepeat
  <2>1. i + 1 = j + 1
    BY <1>5 DEF NoRepeat
  <2> QED
    BY <1>2, <1>3, <2>1
<1> QED
  BY <1>1, <1>4, <1>7, <1>8 DEF t

-----------------------------------------------------------------------------
(* Every step preserves the invariant.                                     *)

LEMMA InitInv == Init => Inv
<1> SUFFICES ASSUME Init PROVE Inv
  OBVIOUS
<1>0. ~outgrown /\ outgrown \in BOOLEAN /\ swapLost \in BOOLEAN
  BY DEF Init
<1>1. TypeOK /\ Shape
  <2>1. /\ status = "absent" /\ msgs = <<>> /\ durableMsgs = {}
        /\ waitackMsgs = {} /\ offset = [m \in Persistent |-> 0]
        /\ total = 0 /\ valid = 0 /\ datafile = <<>>
        /\ published = {} /\ accepted = {} /\ settled = {}
    BY DEF Init
  <2> QED
    BY <1>0, <2>1, EmptyFile, EmptySeq DEF TypeOK, Types, Shape, Alive
<1>2. Known /\ Indexed /\ Distinct(datafile) /\ OnePlace /\ AckedStaysGone
  BY EmptyFile DEF Init, Known, Indexed, OnePlace, AckedStaysGone, InList
<1>3. OwnRecord /\ CountsMatchFile /\ IndexMatchesFile
  BY DEF Init, OwnRecord, CountsMatchFile, IndexMatchesFile, Alive
<1>4. CountsBounded /\ SurvivesOutsideSwap
  BY DEF Init, CountsBounded, SurvivesOutsideSwap
<1> QED
  BY <1>0, <1>1, <1>2, <1>3, <1>4 DEF Inv

\* A state without a queue object has to care for its file only.
LEMMA DownInv ==
    ASSUME Fits,
           status' = "absent",
           ForgetMemory,
           datafile' \in Seq(Record),
           Distinct(datafile'),
           published' \subseteq Msg,
           accepted' \subseteq published',
           settled' \subseteq published',
           swapLost' \in BOOLEAN,
           Stored(datafile') \subseteq (Persistent \cap published') \cup {Phantom},
           settled' \cap Stored(datafile') = {},
           SurvivesOutsideSwap'
    PROVE  Inv'
<1> USE DEF Fits
<1>1. TypeOK' /\ Shape'
  BY EmptySeq DEF ForgetMemory, TypeOK, Types, Shape, Alive
<1>2. Known' /\ Indexed' /\ OnePlace' /\ AckedStaysGone'
  BY DEF ForgetMemory, Known, Indexed, OnePlace, AckedStaysGone, InList
<1>3. OwnRecord' /\ CountsMatchFile' /\ IndexMatchesFile'
  BY DEF OwnRecord, CountsMatchFile, IndexMatchesFile, Alive
<1>4. CountsBounded'
  BY DEF ForgetMemory, CountsBounded
<1> QED
  BY <1>1, <1>2, <1>3, <1>4 DEF Inv

LEMMA InitQueueManagerInv == Inv /\ InitQueueManager /\ Fits => Inv'
<1> SUFFICES ASSUME Inv, InitQueueManager, Fits PROVE Inv'
  OBVIOUS
<1> DEFINE r == Compact(datafile)
<1> USE DEF Inv, Fits
<1>1. datafile \in Seq(Record) /\ Distinct(datafile)
  BY DEF TypeOK, Types
<1>2. /\ r \in Seq(Record)
      /\ Len(r) = Cardinality(ValidAt(r))
      /\ Stored(r) = Stored(datafile)
      /\ Distinct(r)
  BY <1>1, CompactFacts
<1>3. Len(r) \in Nat
  BY <1>2, ValidAtFacts
<1>4. /\ Relocate(r) \in [Persistent -> Nat]
      /\ \A m \in Stored(datafile) \cap Persistent :
            /\ Relocate(r)[m] \in DOMAIN r
            /\ r[Relocate(r)[m]] = [msg |-> m, valid |-> TRUE]
  BY <1>1, RelocateFacts DEF TypeOK, Types, InitQueueManager
<1>5. /\ status' = "live" /\ ~Alive
      /\ datafile' = r
      /\ durableMsgs' = Stored(datafile)
      /\ offset' = Relocate(r)
      /\ total' = Len(r)
      /\ valid' = Len(r)
      /\ UNCHANGED <<msgs, waitackMsgs, history>>
  BY DEF InitQueueManager, Alive
<1>6. msgs = <<>> /\ waitackMsgs = {}
  BY <1>5 DEF Shape
<1> HIDE DEF r
<1>7. TypeOK'
  BY <1>2, <1>3, <1>4, <1>5 DEF TypeOK, Types, Known, history
<1>8. Shape' /\ Known' /\ Distinct(datafile)'
  BY <1>2, <1>5, <1>6 DEF Shape, Alive, Known, InList, history
<1>9. Indexed' /\ OnePlace' /\ AckedStaysGone'
  BY <1>2, <1>5, <1>6 DEF Indexed, OnePlace, AckedStaysGone, InList, history
<1>10. OwnRecord' /\ CountsMatchFile' /\ IndexMatchesFile'
  BY <1>2, <1>4, <1>5 DEF OwnRecord, CountsMatchFile, IndexMatchesFile
<1>11. CountsBounded' /\ SurvivesOutsideSwap'
  BY <1>2, <1>3, <1>5, MessageStoreAssumption
  DEF CountsBounded, SurvivesOutsideSwap, history
<1> QED
  BY <1>7, <1>8, <1>9, <1>10, <1>11

LEMMA InsertDurableInv ==
    ASSUME NEW m \in Msg
    PROVE  Inv /\ InsertDurable(m) /\ Fits => Inv'
<1> SUFFICES ASSUME Inv, InsertDurable(m), Fits PROVE Inv'
  OBVIOUS
<1> DEFINE x == [msg |-> m, valid |-> TRUE]
           r == Append(datafile, x)
           l == Append(msgs, m)
<1> USE DEF Inv, Fits
<1>1. /\ status = "live" /\ status' = "live" /\ Alive /\ Alive'
      /\ m \in Persistent \ published
      /\ datafile' = r
      /\ offset' = [offset EXCEPT ![m] = Len(r)]
      /\ total' = total + 1
      /\ valid' = valid + 1
      /\ durableMsgs' = durableMsgs \cup {m}
      /\ msgs' = l
      /\ published' = published \cup {m}
      /\ accepted' = accepted \cup {m}
      /\ UNCHANGED <<waitackMsgs, settled, swapLost>>
  <2>1. datafile' = r /\ Len(r) = Len(datafile) + 1 /\ Len(datafile) \in Nat
    BY AppendFacts, ValidAtFacts DEF InsertDurable, TypeOK, Types, Entry
  <2>2. Len(r) <= OffsetRange /\ Len(r) \in Nat \ {0}
    BY <2>1, MessageStoreAssumption DEF TooLong
  <2>3. Place(Len(datafile) + 1) = Len(r)
    BY <2>1, <2>2, PlaceFacts
  <2> QED
    BY <2>3 DEF InsertDurable, Alive
<1>2. m \in Entry /\ m # Phantom
  BY MessageStoreAssumption DEF Entry
<1>3. m \notin Stored(datafile) /\ ~Occurs(msgs, m) /\ m \notin waitackMsgs
  BY <1>1, <1>2 DEF Known, InList, Occurs
<1>4. /\ r \in Seq(Record)
      /\ Len(r) = Len(datafile) + 1
      /\ \A i \in DOMAIN datafile : i \in DOMAIN r /\ r[i] = datafile[i]
      /\ Len(r) \in DOMAIN r
      /\ r[Len(r)] = x
      /\ Cardinality(ValidAt(r)) = Cardinality(ValidAt(datafile)) + 1
      /\ Stored(r) = Stored(datafile) \cup {m}
      /\ Distinct(r)
  BY <1>2, <1>3, AppendFacts DEF TypeOK, Types
<1>5. /\ l \in Seq(Entry)
      /\ \A e : Occurs(l, e) <=> Occurs(msgs, e) \/ e = m
      /\ NoRepeat(l)
  <2>1. NoRepeat(msgs)
    BY DEF OnePlace, NoRepeat
  <2> QED
    BY <1>2, <1>3, <2>1, AppendList DEF TypeOK, Types
<1>6. Len(datafile) + 1 \in Nat
  BY ValidAtFacts DEF TypeOK, Types
<1> HIDE DEF x, r, l
<1>7. TypeOK'
  BY <1>1, <1>4, <1>5, <1>6 DEF TypeOK, Types
<1>8. Shape' /\ Known' /\ Distinct(datafile)'
  BY <1>1, <1>4, <1>5 DEF Shape, Known, InList, Occurs
<1>9. Indexed'
  BY <1>1, <1>5 DEF Indexed, InList, Occurs
<1>10. OnePlace'
  BY <1>1, <1>3, <1>5 DEF OnePlace, InList, Occurs, NoRepeat
<1>11. AckedStaysGone'
  BY <1>1, <1>4, <1>5 DEF AckedStaysGone, InList, Occurs, Known
<1>12. OwnRecord'
  <2> SUFFICES ASSUME NEW k \in durableMsgs' \cap Persistent
               PROVE  /\ offset'[k] \in DOMAIN datafile'
                      /\ datafile'[offset'[k]] = [msg |-> k, valid |-> TRUE]
    BY DEF OwnRecord
  <2>1. CASE k = m
    BY <1>1, <1>4, <2>1 DEF TypeOK, Types, x
  <2>2. CASE k # m
    <3>1. k \in durableMsgs \cap Persistent
      BY <1>1, <2>2
    <3>2. offset'[k] = offset[k]
      BY <1>1, <2>2 DEF TypeOK, Types
    <3> QED
      BY <1>1, <1>4, <3>1, <3>2 DEF OwnRecord
  <2> QED
    BY <2>1, <2>2
<1>13. CountsMatchFile' /\ IndexMatchesFile'
  BY <1>1, <1>4 DEF CountsMatchFile, IndexMatchesFile
<1>14. CountsBounded'
  BY <1>1, MessageStoreAssumption DEF CountsBounded, TypeOK, Types
<1>15. SurvivesOutsideSwap'
  BY <1>1, <1>4 DEF SurvivesOutsideSwap
<1> QED
  BY <1>7, <1>8, <1>9, <1>10, <1>11, <1>12, <1>13, <1>14, <1>15

LEMMA InsertTransientInv ==
    ASSUME NEW m \in Msg
    PROVE  Inv /\ InsertTransient(m) /\ Fits => Inv'
<1> SUFFICES ASSUME Inv, InsertTransient(m), Fits PROVE Inv'
  OBVIOUS
<1> DEFINE l == Append(msgs, m)
<1> USE DEF Inv, Fits
<1>1. /\ Alive /\ Alive' /\ status' = status
      /\ m \notin Persistent /\ m \notin published
      /\ msgs' = l
      /\ published' = published \cup {m}
      /\ accepted' = accepted \cup {m}
      /\ UNCHANGED <<durableMsgs, waitackMsgs, offset, total, valid, datafile,
                     settled, swapLost>>
  BY DEF InsertTransient, Alive
<1>2. m \in Entry /\ ~Occurs(msgs, m) /\ m \notin waitackMsgs
  BY <1>1 DEF Known, InList, Occurs, Entry
<1>3. /\ l \in Seq(Entry)
      /\ \A e : Occurs(l, e) <=> Occurs(msgs, e) \/ e = m
      /\ NoRepeat(l)
  <2>1. NoRepeat(msgs)
    BY DEF OnePlace, NoRepeat
  <2> QED
    BY <1>2, <2>1, AppendList DEF TypeOK, Types
<1> HIDE DEF l
<1>4. TypeOK' /\ Shape'
  BY <1>1, <1>3 DEF TypeOK, Types, Shape
<1>5. Known' /\ Indexed' /\ Distinct(datafile)'
  BY <1>1, <1>3 DEF Known, Indexed, InList, Occurs
<1>6. OnePlace'
  BY <1>1, <1>2, <1>3 DEF OnePlace, InList, Occurs, NoRepeat
<1>7. AckedStaysGone'
  BY <1>1, <1>3 DEF AckedStaysGone, InList, Occurs, Known
<1>8. OwnRecord' /\ CountsMatchFile' /\ IndexMatchesFile'
  BY <1>1 DEF OwnRecord, CountsMatchFile, IndexMatchesFile
<1>9. CountsBounded' /\ SurvivesOutsideSwap'
  BY <1>1 DEF CountsBounded, SurvivesOutsideSwap
<1> QED
  BY <1>4, <1>5, <1>6, <1>7, <1>8, <1>9

LEMMA InsertRefusedInv ==
    ASSUME NEW m \in Msg
    PROVE  Inv /\ InsertRefused(m) /\ Fits => Inv'
<1> SUFFICES ASSUME Inv, InsertRefused(m), Fits PROVE Inv'
  OBVIOUS
<1> USE DEF Inv, Fits
<1>1. /\ published' = published \cup {m}
      /\ UNCHANGED <<status, memory, datafile, accepted, settled, swapLost>>
  BY DEF InsertRefused
<1>2. TypeOK' /\ Shape'
  BY <1>1 DEF TypeOK, Types, Shape, Alive, memory
<1>3. Known' /\ Indexed' /\ Distinct(datafile)'
  BY <1>1 DEF Known, Indexed, InList, memory
<1>4. OnePlace' /\ AckedStaysGone'
  BY <1>1 DEF OnePlace, AckedStaysGone, InList, memory
<1>5. OwnRecord' /\ CountsMatchFile' /\ IndexMatchesFile'
  BY <1>1 DEF OwnRecord, CountsMatchFile, IndexMatchesFile, Alive, memory
<1>6. CountsBounded' /\ SurvivesOutsideSwap'
  BY <1>1 DEF CountsBounded, SurvivesOutsideSwap, memory
<1> QED
  BY <1>2, <1>3, <1>4, <1>5, <1>6

LEMMA FrontInv == Inv /\ Front /\ Fits => Inv'
<1> SUFFICES ASSUME Inv, Front, Fits PROVE Inv'
  OBVIOUS
<1> DEFINE l == Tail(msgs)
           h == Head(msgs)
<1> USE DEF Inv, Fits
<1>1. /\ Alive /\ Alive' /\ status' = status
      /\ msgs # <<>>
      /\ msgs' = l
      /\ waitackMsgs' = waitackMsgs \cup {h}
      /\ UNCHANGED <<durableMsgs, offset, total, valid, datafile, published,
                     accepted, settled, swapLost>>
  BY DEF Front, Alive, history
<1>2. /\ l \in Seq(Entry)
      /\ h \in Entry
      /\ Occurs(msgs, h)
      /\ \A e : Occurs(l, e) <=> Occurs(msgs, e) /\ e # h
      /\ NoRepeat(l)
  <2>1. NoRepeat(msgs)
    BY DEF OnePlace, NoRepeat
  <2> QED
    BY <1>1, <2>1, TailList DEF TypeOK, Types
<1> HIDE DEF l, h
<1>3. TypeOK' /\ Shape'
  BY <1>1, <1>2 DEF TypeOK, Types, Shape
<1>4. Known' /\ Indexed' /\ Distinct(datafile)'
  BY <1>1, <1>2 DEF Known, Indexed, InList, Occurs
<1>5. OnePlace'
  BY <1>1, <1>2 DEF OnePlace, InList, Occurs, NoRepeat
<1>6. AckedStaysGone'
  BY <1>1, <1>2 DEF AckedStaysGone, InList, Occurs
<1>7. OwnRecord' /\ CountsMatchFile' /\ IndexMatchesFile'
  BY <1>1 DEF OwnRecord, CountsMatchFile, IndexMatchesFile
<1>8. CountsBounded' /\ SurvivesOutsideSwap'
  BY <1>1 DEF CountsBounded, SurvivesOutsideSwap
<1> QED
  BY <1>3, <1>4, <1>5, <1>6, <1>7, <1>8

\* Marking the record of an unacknowledged persistent message.
LEMMA MarkedFacts ==
    ASSUME Inv, NEW m \in waitackMsgs \cap Persistent
    PROVE  /\ Alive
           /\ status = "live"
           /\ m \in Msg /\ m \in published /\ ~InList(m)
           /\ Marked(m) \in Seq(Record)
           /\ Distinct(Marked(m))
           /\ Stored(Marked(m)) = durableMsgs \ {m}
           /\ durableMsgs = Stored(datafile)
           /\ total = Len(Marked(m))
           /\ valid - 1 = Cardinality(ValidAt(Marked(m)))
           /\ valid - 1 \in Nat
           /\ \A k \in (durableMsgs \ {m}) \cap Persistent :
                 /\ offset[k] \in DOMAIN Marked(m)
                 /\ Marked(m)[offset[k]] = [msg |-> k, valid |-> TRUE]
<1> USE DEF Inv
<1>1. Alive /\ m \in durableMsgs
  BY DEF Shape, Indexed
<1>2. m \in Msg /\ m # Phantom /\ m \in published /\ ~InList(m)
  BY MessageStoreAssumption DEF Known, OnePlace
<1>3. status = "live"
  <2>1. status # "cleared"
    BY <1>1, EmptyFile DEF Shape, IndexMatchesFile
  <2> QED
    BY <1>1, <2>1 DEF TypeOK, Types, Alive
<1> DEFINE o == offset[m]
           d == Marked(m)
<1>4. /\ o \in DOMAIN datafile
      /\ datafile[o] = [msg |-> m, valid |-> TRUE]
  BY <1>1 DEF OwnRecord
<1>5. o \in ValidAt(datafile) /\ datafile[o].msg = m
  BY <1>4 DEF ValidAt
<1>6. d = Invalidate(datafile, o, m)
  BY DEF Marked
<1> HIDE DEF o
<1>7. /\ d \in Seq(Record)
      /\ Len(d) = Len(datafile)
      /\ DOMAIN d = DOMAIN datafile
      /\ \A j \in DOMAIN datafile : j # o => d[j] = datafile[j]
      /\ Cardinality(ValidAt(d)) = Cardinality(ValidAt(datafile)) - 1
      /\ Cardinality(ValidAt(datafile)) # 0
      /\ Stored(d) = Stored(datafile) \ {m}
      /\ Distinct(d)
  <2>1. datafile \in Seq(Record) /\ Distinct(datafile)
    BY DEF TypeOK, Types
  <2> QED
    BY <1>2, <1>5, <1>6, <2>1, MarkFacts
<1> HIDE DEF d
<1>8. durableMsgs = Stored(datafile)
  BY <1>1 DEF IndexMatchesFile
<1>9. /\ total = Len(d)
      /\ valid - 1 = Cardinality(ValidAt(d))
      /\ valid - 1 \in Nat
  BY <1>1, <1>7 DEF CountsMatchFile, TypeOK, Types
<1>10. ASSUME NEW k \in (durableMsgs \ {m}) \cap Persistent
       PROVE  /\ offset[k] \in DOMAIN d
              /\ d[offset[k]] = [msg |-> k, valid |-> TRUE]
  <2>1. /\ offset[k] \in DOMAIN datafile
        /\ datafile[offset[k]] = [msg |-> k, valid |-> TRUE]
    BY <1>1 DEF OwnRecord
  <2>2. offset[k] # o
    BY <1>4, <2>1
  <2> QED
    BY <1>7, <2>1, <2>2
<1> QED
  BY <1>1, <1>2, <1>3, <1>7, <1>8, <1>9, <1>10 DEF d

LEMMA RemoveDurableInv ==
    ASSUME NEW m \in Msg
    PROVE  Inv /\ RemoveDurable(m) /\ Fits => Inv'
<1> SUFFICES ASSUME Inv, RemoveDurable(m), Fits PROVE Inv'
  OBVIOUS
<1> DEFINE d == Marked(m)
<1> USE DEF Inv, Fits
<1>1. /\ m \in waitackMsgs \cap Persistent
      /\ Gc(d, durableMsgs \ {m}, valid - 1)
      /\ waitackMsgs' = waitackMsgs \ {m}
      /\ settled' = settled \cup {m}
      /\ UNCHANGED <<status, published, accepted, swapLost>>
  BY DEF RemoveDurable
<1>2. /\ Alive /\ status = "live"
      /\ m \in published /\ ~InList(m)
      /\ d \in Seq(Record)
      /\ Distinct(d)
      /\ Stored(d) = durableMsgs \ {m}
      /\ durableMsgs = Stored(datafile)
      /\ total = Len(d)
      /\ valid - 1 = Cardinality(ValidAt(d))
      /\ valid - 1 \in Nat
      /\ \A k \in Stored(d) \cap Persistent :
            /\ offset[k] \in DOMAIN d
            /\ d[offset[k]] = [msg |-> k, valid |-> TRUE]
  BY <1>1, MarkedFacts
<1> HIDE DEF d
<1>3. Gc(d, Stored(d), valid - 1)
  BY <1>1, <1>2
<1>4. /\ datafile' \in Seq(Record)
      /\ Distinct(datafile')
      /\ Stored(datafile') = Stored(d)
      /\ durableMsgs' = Stored(d)
      /\ msgs' = msgs
      /\ total' = Len(datafile')
      /\ valid' = Cardinality(ValidAt(datafile'))
      /\ total' \in Nat /\ valid' \in Nat
      /\ offset' \in [Persistent -> Nat]
      /\ \A k \in Stored(d) \cap Persistent :
            /\ offset'[k] \in DOMAIN datafile'
            /\ datafile'[offset'[k]] = [msg |-> k, valid |-> TRUE]
      /\ total' - valid' <= GcMinTotal \/ 2 * valid' >= total'
  BY <1>2, <1>3, GcFacts
<1>5. Alive' /\ status' = "live"
  BY <1>1, <1>2 DEF Alive
<1>6. TypeOK' /\ Shape'
  BY <1>1, <1>2, <1>4, <1>5 DEF TypeOK, Types, Shape
<1>7. Known' /\ Indexed' /\ Distinct(datafile)'
  BY <1>1, <1>2, <1>4 DEF Known, Indexed, InList
<1>8. OnePlace' /\ AckedStaysGone'
  BY <1>1, <1>2, <1>4 DEF OnePlace, AckedStaysGone, InList
<1>9. OwnRecord' /\ CountsMatchFile' /\ IndexMatchesFile'
  BY <1>4 DEF OwnRecord, CountsMatchFile, IndexMatchesFile
<1>10. CountsBounded' /\ SurvivesOutsideSwap'
  BY <1>1, <1>2, <1>4 DEF CountsBounded, SurvivesOutsideSwap
<1> QED
  BY <1>6, <1>7, <1>8, <1>9, <1>10

LEMMA RemoveTransientInv ==
    ASSUME NEW m \in Msg
    PROVE  Inv /\ RemoveTransient(m) /\ Fits => Inv'
<1> SUFFICES ASSUME Inv, RemoveTransient(m), Fits PROVE Inv'
  OBVIOUS
<1> USE DEF Inv, Fits
<1>1. /\ m \in waitackMsgs \ Persistent
      /\ waitackMsgs' = waitackMsgs \ {m}
      /\ settled' = settled \cup {m}
      /\ UNCHANGED <<status, msgs, durableMsgs, offset, total, valid, datafile,
                     published, accepted, swapLost>>
  BY DEF RemoveTransient
<1>2. /\ m \in published /\ ~InList(m) /\ Alive
      /\ m \notin Stored(datafile)
  BY <1>1, MessageStoreAssumption DEF Known, OnePlace, Shape
<1>3. TypeOK' /\ Shape'
  BY <1>1, <1>2 DEF TypeOK, Types, Shape, Alive
<1>4. Known' /\ Indexed' /\ Distinct(datafile)'
  BY <1>1, <1>2 DEF Known, Indexed, InList
<1>5. OnePlace' /\ AckedStaysGone'
  BY <1>1, <1>2 DEF OnePlace, AckedStaysGone, InList
<1>6. OwnRecord' /\ CountsMatchFile' /\ IndexMatchesFile'
  BY <1>1 DEF OwnRecord, CountsMatchFile, IndexMatchesFile, Alive
<1>7. CountsBounded' /\ SurvivesOutsideSwap'
  BY <1>1 DEF CountsBounded, SurvivesOutsideSwap
<1> QED
  BY <1>3, <1>4, <1>5, <1>6, <1>7

LEMMA ClearQueueInv ==
    ASSUME Inv, ClearQueue, Fits, status' \in {"absent", "cleared"}
    PROVE  Inv'
<1> USE DEF Inv, Fits
<1>1. /\ ForgetMemory
      /\ datafile' = <<>>
      /\ accepted' = {}
      /\ swapLost' = FALSE
      /\ UNCHANGED <<published, settled>>
  BY DEF ClearQueue
<1>2. /\ datafile' \in Seq(Record)
      /\ Len(datafile') = 0
      /\ Cardinality(ValidAt(datafile')) = 0
      /\ Stored(datafile') = {}
      /\ Distinct(datafile')
  BY <1>1, EmptyFile
<1>3. TypeOK' /\ Shape'
  <2>1. swapLost' \in BOOLEAN
    BY <1>1
  <2>2. ForgetMemory /\ datafile' = <<>> /\ accepted' = {}
        /\ UNCHANGED <<published, settled>>
    BY <1>1
  <2> QED
    BY <1>2, <2>1, <2>2, EmptySeq DEF ForgetMemory, TypeOK, Types, Shape, Alive
<1>4. Known' /\ Indexed' /\ OnePlace' /\ AckedStaysGone'
  BY <1>1, <1>2
  DEF ForgetMemory, Known, Indexed, OnePlace, AckedStaysGone, InList
<1>5. OwnRecord' /\ CountsMatchFile' /\ IndexMatchesFile'
  BY <1>1, <1>2
  DEF ForgetMemory, OwnRecord, CountsMatchFile, IndexMatchesFile
<1>6. CountsBounded' /\ SurvivesOutsideSwap'
  BY <1>1 DEF ForgetMemory, CountsBounded, SurvivesOutsideSwap
<1> QED
  BY <1>2, <1>3, <1>4, <1>5, <1>6

LEMMA CrashInv == Inv /\ Crash /\ Fits => Inv'
<1> SUFFICES ASSUME Inv, Crash, Fits PROVE Inv'
  OBVIOUS
<1>1. /\ status' = "absent"
      /\ ForgetMemory
      /\ UNCHANGED <<datafile, published, accepted, settled, swapLost>>
  BY DEF Crash, Die, history
<1>2. /\ datafile' \in Seq(Record) /\ Distinct(datafile')
      /\ published' \subseteq Msg
      /\ accepted' \subseteq published' /\ settled' \subseteq published'
      /\ swapLost' \in BOOLEAN
      /\ Stored(datafile') \subseteq (Persistent \cap published') \cup {Phantom}
  BY <1>1 DEF Inv, TypeOK, Types, Known
<1>3. settled' \cap Stored(datafile') = {} /\ SurvivesOutsideSwap'
  BY <1>1 DEF Inv, AckedStaysGone, SurvivesOutsideSwap
<1> QED
  BY <1>1, <1>2, <1>3, DownInv

LEMMA CrashInInsertInv ==
    ASSUME NEW m \in Msg
    PROVE  Inv /\ CrashInInsert(m) /\ Fits => Inv'
<1> SUFFICES ASSUME Inv, CrashInInsert(m), Fits PROVE Inv'
  OBVIOUS
<1>1. PICK e \in {m, Phantom} :
         datafile' = Append(datafile, [msg |-> e, valid |-> TRUE])
  BY DEF CrashInInsert
<1>2. /\ status' = "absent"
      /\ ForgetMemory
      /\ m \in Persistent /\ m \notin published
      /\ published' = published \cup {m}
      /\ UNCHANGED <<accepted, settled, swapLost>>
  BY DEF CrashInInsert, Die
<1>3. e \in Entry /\ (e = Phantom \/ e \notin Stored(datafile))
  BY <1>2, MessageStoreAssumption DEF Inv, Known, Entry
<1>4. /\ datafile' \in Seq(Record) /\ Distinct(datafile')
      /\ Stored(datafile') = Stored(datafile) \cup {e}
  BY <1>1, <1>3, AppendFacts DEF Inv, TypeOK, Types
<1>5. /\ published' \subseteq Msg
      /\ accepted' \subseteq published' /\ settled' \subseteq published'
      /\ swapLost' \in BOOLEAN
      /\ Stored(datafile') \subseteq (Persistent \cap published') \cup {Phantom}
  BY <1>2, <1>4 DEF Inv, TypeOK, Types, Known
<1>6. settled' \cap Stored(datafile') = {}
  BY <1>2, <1>4, MessageStoreAssumption DEF Inv, AckedStaysGone, Known, TypeOK, Types
<1>7. SurvivesOutsideSwap'
  BY <1>2, <1>4 DEF Inv, SurvivesOutsideSwap
<1> QED
  BY <1>2, <1>4, <1>5, <1>6, <1>7, DownInv

\* Whatever a collection of d was interrupted at, the file holds all of d or
\* nothing, and nothing only in the swap.
LEMMA GcInterruptedFacts ==
    ASSUME NEW d \in Seq(Record), Distinct(d), swapLost \in BOOLEAN,
           GcInterrupted(d)
    PROVE  /\ datafile' \in Seq(Record)
           /\ Distinct(datafile')
           /\ Stored(datafile') \subseteq Stored(d)
           /\ swapLost' \in BOOLEAN
           /\ ~swapLost' => ~swapLost /\ Stored(datafile') = Stored(d)
<1>1. /\ datafile' \in {d, <<>>, Compact(d)}
      /\ swapLost' = (swapLost \/ datafile' \notin {d, Compact(d)})
  BY DEF GcInterrupted, GcImages
<1>2. CASE datafile' = d
  BY <1>1, <1>2
<1>3. CASE datafile' = Compact(d)
  BY <1>1, <1>3, CompactFacts
<1>4. CASE datafile' = <<>> /\ datafile' \notin {d, Compact(d)}
  BY <1>1, <1>4, EmptyFile
<1> QED
  BY <1>1, <1>2, <1>3, <1>4

LEMMA CrashInRemoveInv ==
    ASSUME NEW m \in Msg
    PROVE  Inv /\ CrashInRemove(m) /\ Fits => Inv'
<1> SUFFICES ASSUME Inv, CrashInRemove(m), Fits PROVE Inv'
  OBVIOUS
<1> DEFINE d == Marked(m)
<1>1. /\ m \in waitackMsgs \cap Persistent
      /\ status' = "absent"
      /\ ForgetMemory
      /\ \/ GcInterrupted(d)
         \/ datafile' = d /\ UNCHANGED swapLost
      /\ settled' = settled \cup {m}
      /\ UNCHANGED <<published, accepted>>
  BY DEF CrashInRemove, Die
<1>2. /\ m \in published
      /\ d \in Seq(Record) /\ Distinct(d)
      /\ Stored(d) = Stored(datafile) \ {m}
  BY <1>1, MarkedFacts
<1> HIDE DEF d
<1>3. /\ datafile' \in Seq(Record) /\ Distinct(datafile')
      /\ Stored(datafile') \subseteq Stored(datafile) \ {m}
      /\ swapLost' \in BOOLEAN
      /\ ~swapLost' => /\ ~swapLost
                       /\ Stored(datafile') = Stored(datafile) \ {m}
  <2>1. swapLost \in BOOLEAN
    BY DEF Inv, TypeOK, Types
  <2>2. CASE GcInterrupted(d)
    BY <1>2, <2>1, <2>2, GcInterruptedFacts
  <2>3. CASE datafile' = d /\ UNCHANGED swapLost
    BY <1>2, <2>1, <2>3
  <2> QED
    BY <1>1, <2>2, <2>3
<1>4. /\ published' \subseteq Msg
      /\ accepted' \subseteq published' /\ settled' \subseteq published'
      /\ Stored(datafile') \subseteq (Persistent \cap published') \cup {Phantom}
  BY <1>1, <1>2, <1>3 DEF Inv, TypeOK, Types, Known
<1>5. settled' \cap Stored(datafile') = {}
  BY <1>1, <1>3 DEF Inv, AckedStaysGone
<1>6. SurvivesOutsideSwap'
  BY <1>1, <1>3 DEF Inv, SurvivesOutsideSwap
<1> QED
  BY <1>1, <1>3, <1>4, <1>5, <1>6, DownInv

LEMMA CrashInRecoveryInv == Inv /\ CrashInRecovery /\ Fits => Inv'
<1> SUFFICES ASSUME Inv, CrashInRecovery, Fits PROVE Inv'
  OBVIOUS
<1>1. /\ status = "absent"
      /\ GcInterrupted(datafile)
      /\ UNCHANGED <<status, memory, published, accepted, settled>>
  BY DEF CrashInRecovery
<1>2. /\ datafile' \in Seq(Record) /\ Distinct(datafile')
      /\ Stored(datafile') \subseteq Stored(datafile)
      /\ swapLost' \in BOOLEAN
      /\ ~swapLost' => ~swapLost /\ Stored(datafile') = Stored(datafile)
  BY <1>1, GcInterruptedFacts DEF Inv, TypeOK, Types
<1> USE DEF Inv, Fits
<1>3. TypeOK' /\ Shape'
  BY <1>1, <1>2 DEF TypeOK, Types, Shape, Alive, memory
<1>4. Known' /\ Indexed' /\ Distinct(datafile)'
  BY <1>1, <1>2 DEF Known, Indexed, InList, memory
<1>5. OnePlace' /\ AckedStaysGone'
  BY <1>1, <1>2 DEF OnePlace, AckedStaysGone, InList, memory
<1>6. OwnRecord' /\ CountsMatchFile' /\ IndexMatchesFile'
  BY <1>1 DEF OwnRecord, CountsMatchFile, IndexMatchesFile, Alive
<1>7. CountsBounded'
  BY <1>1 DEF CountsBounded, memory
<1>8. SurvivesOutsideSwap'
  BY <1>1, <1>2 DEF SurvivesOutsideSwap
<1> QED
  BY <1>3, <1>4, <1>5, <1>6, <1>7, <1>8

\* Every step keeps it, if the file does not outgrow its offsets.
LEMMA StepInv == Inv /\ Step /\ Fits => Inv'
<1> SUFFICES ASSUME Inv, Step, Fits PROVE Inv'
  OBVIOUS
<1>1. CASE InitQueueManager
  BY <1>1, InitQueueManagerInv
<1>2. CASE Front
  BY <1>2, FrontInv
<1>3. CASE DestroyQueueMessage \/ Clear
  BY <1>3, ClearQueueInv DEF DestroyQueueMessage, Clear
<1>4. CASE Crash
  BY <1>4, CrashInv
<1>5. CASE CrashInRecovery
  BY <1>5, CrashInRecoveryInv
<1>6. ASSUME NEW m \in Msg,
             InsertDurable(m) \/ InsertRefused(m) \/ InsertTransient(m)
      PROVE  Inv'
  BY <1>6, InsertDurableInv, InsertRefusedInv, InsertTransientInv
<1>7. ASSUME NEW m \in Msg, CrashInInsert(m) \/ CrashInRemove(m)
      PROVE  Inv'
  BY <1>7, CrashInInsertInv, CrashInRemoveInv
<1>8. ASSUME NEW m \in Msg, RemoveDurable(m) \/ RemoveTransient(m)
      PROVE  Inv'
  BY <1>8, RemoveDurableInv, RemoveTransientInv
<1> QED
  BY <1>1, <1>2, <1>3, <1>4, <1>5, <1>6, <1>7, <1>8 DEF Step

-----------------------------------------------------------------------------
(* The types, which no length of the file disturbs.                        *)

\* What Gc() queues again has its type, and so have the offsets it leaves.
LEMMA OrphansTypes ==
    ASSUME NEW r \in Seq(Record), NEW index
    PROVE  Names(Orphans(r, index)) \in Seq(Entry)
<1> DEFINE I == {k \in DOMAIN r : /\ r[k].msg \notin index
                                  /\ \A j \in 1..(k - 1) : r[j].msg # r[k].msg}
           o == Pick(r, I)
<1>1. I \in SUBSET (DOMAIN r) /\ o = Orphans(r, index)
  BY DEF Orphans
<1> HIDE DEF I
<1>2. o \in Seq(Record)
  BY <1>1, PickProperties
<1> HIDE DEF o
<1>3. /\ Len(o) \in Nat /\ DOMAIN o = 1..Len(o)
      /\ \A k \in DOMAIN o : o[k].msg \in Entry
  BY <1>2, ValidAtFacts DEF Record
<1>4. Names(o) \in [1..Len(o) -> Entry]
  BY <1>3 DEF Names
<1> QED
  BY <1>1, <1>3, <1>4

LEMMA GcTypes ==
    ASSUME Types, NEW d \in Seq(Record),
           NEW index \in SUBSET (Persistent \cup {Phantom}),
           Stored(d) \subseteq Persistent \cup {Phantom},
           NEW v \in Int, Gc(d, index, v)
    PROVE  /\ datafile' \in Seq(Record)
           /\ Stored(datafile') = Stored(d)
           /\ offset' \in [Persistent -> Nat]
           /\ msgs' \in Seq(Entry)
           /\ durableMsgs' \subseteq Persistent \cup {Phantom}
           /\ total' \in Nat /\ valid' \in Int
<1>1. CASE GcCheck(v, total)
  <2> DEFINE r == Compact(d)
             n == Names(Orphans(r, index))
  <2>1. r \in Seq(Record) /\ Len(r) \in Nat /\ Stored(r) = Stored(d)
    BY CompactFacts, ValidAtFacts
  <2>2. Relocate(r) \in [Persistent -> Nat]
    BY RelocateFacts DEF Types
  <2>3. n \in Seq(Entry)
    BY <2>1, OrphansTypes
  <2>4. /\ datafile' = r /\ offset' = Relocate(r) /\ msgs' = msgs \o n
        /\ durableMsgs' = index \cup Stored(d)
        /\ total' = Len(r) /\ valid' = Len(r)
    BY <1>1 DEF Gc
  <2> HIDE DEF r, n
  <2>5. msgs \o n \in Seq(Entry)
    BY <2>3 DEF Types
  <2> QED
    BY <2>1, <2>2, <2>4, <2>5
<1>2. CASE ~GcCheck(v, total)
  BY <1>2 DEF Gc, Types
<1> QED
  BY <1>1, <1>2

\* The messages in the file are persistent ones.
StoredKnown == Stored(datafile) \subseteq Persistent \cup {Phantom}

LEMMA MarkStored ==
    ASSUME Types, StoredKnown, NEW m \in Msg
    PROVE  /\ Marked(m) \in Seq(Record)
           /\ Stored(Marked(m)) \subseteq Persistent \cup {Phantom}
<1> DEFINE i == offset[m]
           d == Invalidate(datafile, i, m)
<1>1. d = Marked(m)
  BY DEF Marked
<1> HIDE DEF i
<1>2. d \in Seq(Record) /\ DOMAIN d = DOMAIN datafile
  BY MarkTypes DEF Types
<1>3. \A k \in ValidAt(d) : k \in ValidAt(datafile) /\ d[k] = datafile[k]
  BY <1>2 DEF ValidAt, Invalidate
<1> HIDE DEF d
<1>4. Stored(d) \subseteq Stored(datafile)
  BY <1>3 DEF Stored
<1> QED
  BY <1>1, <1>2, <1>4 DEF StoredKnown

LEMMA TypesStep ==
    ASSUME Types, StoredKnown, Step, outgrown' \in BOOLEAN
    PROVE  Types' /\ StoredKnown'
<1> USE DEF Types, StoredKnown
<1>1. <<>> \in Seq(Record) /\ Stored(<<>>) = {} /\ <<>> \in Seq(Entry)
  BY EmptyFile, EmptySeq
<1>2. ASSUME ForgetMemory
      PROVE  /\ msgs' \in Seq(Entry) /\ offset' \in [Persistent -> Nat]
             /\ durableMsgs' = {} /\ waitackMsgs' = {}
             /\ total' = 0 /\ valid' = 0
  BY <1>1, <1>2 DEF ForgetMemory
<1>3. ASSUME NEW d \in Seq(Record), GcInterrupted(d),
             Stored(d) \subseteq Persistent \cup {Phantom}
      PROVE  /\ datafile' \in Seq(Record) /\ StoredKnown'
             /\ swapLost' \in BOOLEAN
  BY <1>1, <1>3, CompactFacts DEF GcInterrupted, GcImages
<1>4. CASE InitQueueManager
  <2> DEFINE r == Compact(datafile)
  <2>1. r \in Seq(Record) /\ Stored(r) = Stored(datafile) /\ Len(r) \in Nat
    BY CompactFacts, ValidAtFacts
  <2>2. Relocate(r) \in [Persistent -> Nat]
    BY RelocateFacts
  <2> HIDE DEF r
  <2>3. /\ status' = "live" /\ datafile' = r
        /\ durableMsgs' = Stored(datafile) /\ offset' = Relocate(r)
        /\ total' = Len(r) /\ valid' = Len(r)
        /\ UNCHANGED <<msgs, waitackMsgs, history>>
    BY <1>4 DEF InitQueueManager, r
  <2> QED
    BY <2>1, <2>2, <2>3 DEF history
<1>5. CASE Front
  <2>1. Tail(msgs) \in Seq(Entry) /\ Head(msgs) \in Entry
    BY <1>5, HeadTailProperties DEF Front
  <2> QED
    BY <1>5, <2>1 DEF Front, history
<1>6. CASE DestroyQueueMessage \/ Clear
  <2>1. ClearQueue /\ status' \in {"absent", "cleared"}
    BY <1>6 DEF DestroyQueueMessage, Clear
  <2>2. swapLost' \in BOOLEAN
    BY <2>1 DEF ClearQueue
  <2>3. /\ ForgetMemory /\ datafile' = <<>> /\ accepted' = {}
        /\ UNCHANGED <<published, settled>>
    BY <2>1 DEF ClearQueue
  <2> QED
    BY <1>1, <1>2, <2>1, <2>2, <2>3
<1>7. CASE Crash
  BY <1>2, <1>7 DEF Crash, Die, history
<1>8. CASE CrashInRecovery
  BY <1>3, <1>8 DEF CrashInRecovery, memory
<1>9. ASSUME NEW m \in Msg, InsertDurable(m)
      PROVE  Types' /\ StoredKnown'
  <2> DEFINE r == Append(datafile, [msg |-> m, valid |-> TRUE])
             p == Place(Len(datafile) + 1)
  <2>1. m \in Entry /\ m \in Persistent
    BY <1>9 DEF InsertDurable, Entry
  <2>2. r \in Seq(Record) /\ Stored(r) = Stored(datafile) \cup {m}
    BY <2>1, AppendFacts
  <2>3. p \in Nat
    BY ValidAtFacts, PlaceFacts
  <2>4. Append(msgs, m) \in Seq(Entry)
    BY <2>1, AppendProperties
  <2> HIDE DEF r, p
  <2>5. /\ datafile' = r /\ offset' = [offset EXCEPT ![m] = p]
        /\ msgs' = Append(msgs, m) /\ durableMsgs' = durableMsgs \cup {m}
        /\ total' = total + 1 /\ valid' = valid + 1
        /\ published' = published \cup {m} /\ accepted' = accepted \cup {m}
        /\ UNCHANGED <<status, waitackMsgs, settled, swapLost>>
    BY <1>9 DEF InsertDurable, r, p
  <2>6. Types'
    BY <2>1, <2>2, <2>3, <2>4, <2>5
  <2> QED
    BY <2>1, <2>2, <2>5, <2>6
<1>10. ASSUME NEW m \in Msg, InsertRefused(m)
       PROVE  Types' /\ StoredKnown'
  BY <1>10 DEF InsertRefused, memory
<1>11. ASSUME NEW m \in Msg, InsertTransient(m)
       PROVE  Types' /\ StoredKnown'
  <2>1. Append(msgs, m) \in Seq(Entry)
    BY AppendProperties DEF Entry
  <2> QED
    BY <1>11, <2>1 DEF InsertTransient
<1>12. ASSUME NEW m \in Msg, CrashInInsert(m)
       PROVE  Types' /\ StoredKnown'
  <2>1. PICK e \in {m, Phantom} :
           datafile' = Append(datafile, [msg |-> e, valid |-> TRUE])
    BY <1>12 DEF CrashInInsert
  <2>2. datafile' \in Seq(Record) /\ Stored(datafile') = Stored(datafile) \cup {e}
    BY <2>1, AppendFacts DEF Entry
  <2>3. /\ m \in Persistent
        /\ status' = "absent" /\ ForgetMemory
        /\ published' = published \cup {m}
        /\ UNCHANGED <<accepted, settled, swapLost>>
    BY <1>12 DEF CrashInInsert, Die
  <2>4. Types'
    BY <1>2, <2>2, <2>3
  <2> QED
    BY <2>1, <2>2, <2>3, <2>4
<1>13. ASSUME NEW m \in Msg, CrashInRemove(m)
       PROVE  Types' /\ StoredKnown'
  <2> DEFINE d == Marked(m)
  <2>1. d \in Seq(Record) /\ Stored(d) \subseteq Persistent \cup {Phantom}
    BY MarkStored
  <2> HIDE DEF d
  <2>2. /\ GcInterrupted(d) \/ (datafile' = d /\ UNCHANGED swapLost)
        /\ Die /\ settled' = settled \cup {m} /\ UNCHANGED <<published, accepted>>
    BY <1>13 DEF CrashInRemove, d
  <2> QED
    BY <1>2, <1>3, <2>1, <2>2 DEF Die
<1>14. ASSUME NEW m \in Msg, RemoveDurable(m)
       PROVE  Types' /\ StoredKnown'
  <2> DEFINE d == Marked(m)
  <2>1. d \in Seq(Record) /\ Stored(d) \subseteq Persistent \cup {Phantom}
    BY MarkStored
  <2> HIDE DEF d
  <2>2. Gc(d, durableMsgs \ {m}, valid - 1)
    BY <1>14 DEF RemoveDurable, d
  <2>3. /\ datafile' \in Seq(Record)
        /\ Stored(datafile') = Stored(d)
        /\ offset' \in [Persistent -> Nat]
        /\ msgs' \in Seq(Entry)
        /\ durableMsgs' \subseteq Persistent \cup {Phantom}
        /\ total' \in Nat /\ valid' \in Int
    BY <2>1, <2>2, GcTypes
  <2> QED
    BY <1>14, <2>1, <2>3 DEF RemoveDurable
<1>15. ASSUME NEW m \in Msg, RemoveTransient(m)
       PROVE  Types' /\ StoredKnown'
  BY <1>15 DEF RemoveTransient
<1> QED
  BY <1>4, <1>5, <1>6, <1>7, <1>8, <1>9, <1>10, <1>11, <1>12, <1>13, <1>14,
     <1>15 DEF Step

-----------------------------------------------------------------------------
(* The invariant of all states.                                            *)

\* The types, and as long as every file did fit its offsets, all the rest.
IInv == Types /\ StoredKnown /\ (outgrown \/ Inv)

LEMMA InitIInv == Init => IInv
<1>1. Init => StoredKnown
  BY EmptyFile DEF Init, StoredKnown
<1> QED
  BY <1>1, InitInv DEF IInv, Inv, TypeOK

LEMMA StutterInv == Inv /\ UNCHANGED vars => Inv'
<1> SUFFICES ASSUME Inv, UNCHANGED vars PROVE Inv'
  OBVIOUS
<1> USE DEF Inv, vars, memory, history, Alive, InList
<1>1. TypeOK' /\ Shape' /\ Known' /\ Indexed' /\ Distinct(datafile)'
  BY DEF TypeOK, Types, Shape, Known, Indexed
<1>2. OwnRecord' /\ CountsMatchFile' /\ IndexMatchesFile'
  BY DEF OwnRecord, CountsMatchFile, IndexMatchesFile
<1>3. OnePlace' /\ AckedStaysGone' /\ CountsBounded' /\ SurvivesOutsideSwap'
  BY DEF OnePlace, AckedStaysGone, CountsBounded, SurvivesOutsideSwap
<1> QED
  BY <1>1, <1>2, <1>3

LEMMA NextIInv == IInv /\ [Next]_vars => IInv'
<1> SUFFICES ASSUME IInv, [Next]_vars PROVE IInv'
  OBVIOUS
<1>1. CASE Next
  <2>1. outgrown' = (outgrown \/ TooLong(datafile')) /\ Step
    BY <1>1 DEF Next
  <2>2. outgrown' \in BOOLEAN
    BY <2>1 DEF IInv, Types, TooLong
  <2>3. Types' /\ StoredKnown'
    BY <2>1, <2>2, TypesStep DEF IInv
  <2>4. outgrown' \/ Inv'
    <3>1. CASE outgrown'
      BY <3>1
    <3>2. CASE ~outgrown'
      <4>1. Fits /\ Inv
        BY <2>1, <2>2, <3>2 DEF Fits, IInv
      <4> QED
        BY <2>1, <4>1, StepInv
    <3> QED
      BY <3>1, <3>2
  <2> QED
    BY <2>3, <2>4 DEF IInv
<1>2. CASE UNCHANGED vars
  <2>1. (outgrown \/ Inv)'
    BY <1>2, StutterInv DEF IInv, vars
  <2> QED
    BY <1>2, <2>1 DEF IInv, Types, StoredKnown, vars, memory, history
<1> QED
  BY <1>1, <1>2

-----------------------------------------------------------------------------
(* The theorems.                                                           *)

\* The inductive invariant holds in every reachable state of the store.
THEOREM Invariance == Spec => []IInv
<1> QED
  BY InitIInv, NextIInv, PTL DEF Spec

\* The variables have their types; the counters of QueueMessage, which are
\* unsigned, never wrap while the file fits its offsets.
THEOREM TypeCorrect == Spec => []TypeOK
<1>1. IInv => TypeOK
  BY DEF IInv, Inv, TypeOK
<1> QED
  BY <1>1, Invariance, PTL

\* While the file fits its 32-bit offsets (message.hpp:137, 367), Remove()
\* overwrites the record of the acknowledged message itself, however often Gc()
\* has moved it.
THEOREM OffsetsCorrect == Spec => []OwnRecord
<1>1. IInv => OwnRecord
  BY DEF IInv, Inv, OwnRecord
<1> QED
  BY <1>1, Invariance, PTL

\* The index and the counters are those of the file, while it fits its offsets:
\* Gc() never finds a record that _durableMsgs does not know.
THEOREM IndexAndCountsCorrect == Spec => [](IndexMatchesFile /\ CountsMatchFile)
<1>1. IInv => IndexMatchesFile /\ CountsMatchFile
  BY DEF IInv, Inv, IndexMatchesFile, CountsMatchFile
<1> QED
  BY <1>1, Invariance, PTL

\* While the file fits its offsets, an acknowledged message is not queued or
\* recovered again, and no message is in two places.
THEOREM AtMostOnce == Spec => [](AckedStaysGone /\ (outgrown \/ OnePlace))
<1>1. IInv => AckedStaysGone /\ (outgrown \/ OnePlace)
  BY DEF IInv, Inv, AckedStaysGone
<1> QED
  BY <1>1, Invariance, PTL

\* While the file fits its offsets, its dead records never outnumber both the
\* threshold of GCCheck and the live records.
THEOREM GarbageIsBounded == Spec => []GarbageBounded
<1>1. IInv => GarbageBounded
  <2> SUFFICES ASSUME IInv, Inv, Alive, ~outgrown
               PROVE  \/ Len(datafile) - Cardinality(ValidAt(datafile)) <= GcMinTotal
                      \/ Len(datafile) - Cardinality(ValidAt(datafile))
                            <= Cardinality(ValidAt(datafile))
    BY DEF GarbageBounded, IInv
  <2>1. total = Len(datafile) /\ valid = Cardinality(ValidAt(datafile))
    BY DEF Inv, CountsMatchFile
  <2>2. total \in Nat /\ valid \in Nat /\ GcMinTotal \in Nat
    BY MessageStoreAssumption DEF Inv, TypeOK, Types
  <2>3. total - valid <= GcMinTotal \/ total - valid <= valid
    BY <2>2 DEF Inv, CountsBounded
  <2> QED
    BY <2>1, <2>3
<1> QED
  BY <1>1, Invariance, PTL

\* While the file fits its offsets, an accepted persistent message outlives
\* every crash that does not fall between the remove and the rename of
\* MessageMapper::Gc.
THEOREM Durability == Spec => []SurvivesOutsideSwap
<1>1. IInv => SurvivesOutsideSwap
  BY DEF IInv, Inv, SurvivesOutsideSwap
<1> QED
  BY <1>1, Invariance, PTL

-----------------------------------------------------------------------------
(* The store implements AckQueue.                                          *)

Log == Stored(datafile) \cap Persistent

LEMMA AbstractInit == Init => Abstract!Init
  BY EmptyFile DEF Init, Abstract!Init, Alive

LEMMA AbstractStep ==
    Inv /\ Inv' /\ [Next]_vars => [Abstract!Next]_Abstract!vars
<1> SUFFICES ASSUME Inv, Inv', [Next]_vars
             PROVE  Abstract!Next \/ UNCHANGED Abstract!vars
  OBVIOUS
<1> USE DEF Inv, Log, memory, history, Abstract!vars
<1>1. CASE InitQueueManager
  <2>1. ~Alive /\ Alive' /\ UNCHANGED <<msgs, waitackMsgs, published>>
    BY <1>1 DEF InitQueueManager, Alive
  <2>2. Log' = Log
    BY <1>1, CompactFacts DEF InitQueueManager, TypeOK, Types
  <2> QED
    BY <2>1, <2>2 DEF Abstract!Next, Abstract!Open
<1>2. CASE Front
  <2>1. Alive' = Alive
    BY <1>2 DEF Front, Alive
  <2>2. Abstract!Deliver
    BY <1>2, <2>1 DEF Front, Abstract!Deliver
  <2> QED
    BY <2>2 DEF Abstract!Next
<1>3. CASE DestroyQueueMessage \/ Clear
  <2>1. Alive /\ Alive' \in BOOLEAN
    BY <1>3 DEF DestroyQueueMessage, Clear, Alive
  <2>2. /\ msgs' = <<>> /\ waitackMsgs' = {}
        /\ UNCHANGED published
        /\ Log' = {}
    BY <1>3, EmptyFile DEF DestroyQueueMessage, Clear, ClearQueue, ForgetMemory
  <2>3. Abstract!Destroy
    BY <2>1, <2>2 DEF Abstract!Destroy, Abstract!Emptied
  <2> QED
    BY <2>3 DEF Abstract!Next
<1>4. CASE Crash
  <2>1. Alive /\ ~Alive' /\ msgs' = <<>> /\ waitackMsgs' = {}
    BY <1>4 DEF Crash, Die, ForgetMemory, Alive
  <2>2. UNCHANGED <<datafile, published>>
    BY <1>4 DEF Crash
  <2>3. Abstract!Crash
    BY <2>1, <2>2 DEF Abstract!Crash, Abstract!Emptied
  <2> QED
    BY <2>3 DEF Abstract!Next
<1>5. CASE CrashInRecovery
  <2>1. ~Alive /\ Alive' = Alive /\ UNCHANGED <<msgs, waitackMsgs, published>>
    BY <1>5 DEF CrashInRecovery, Alive
  <2>2. datafile' \in {datafile, <<>>, Compact(datafile)}
    BY <1>5 DEF CrashInRecovery, GcInterrupted, GcImages
  <2>3. Log' = Log \/ Log' = {}
    BY <2>2, CompactFacts, EmptyFile DEF TypeOK, Types
  <2> QED
    BY <2>1, <2>3 DEF Abstract!Next, Abstract!LoseLog
<1>6. ASSUME NEW m \in Msg,
             InsertDurable(m) \/ InsertRefused(m) \/ InsertTransient(m)
      PROVE  Abstract!Next
  <2>1. Alive /\ Alive' = Alive /\ m \notin published
    BY <1>6 DEF InsertDurable, InsertRefused, InsertTransient, Alive
  <2>2. published' = published \cup {m} /\ UNCHANGED waitackMsgs
    BY <1>6 DEF InsertDurable, InsertRefused, InsertTransient
  <2>3. CASE InsertDurable(m)
    <3>1. m \in Entry /\ m \in Persistent
      BY <2>3 DEF InsertDurable, Entry
    <3>2. Stored(datafile') = Stored(datafile) \cup {m}
      BY <2>3, <3>1, AppendFacts DEF InsertDurable, TypeOK, Types
    <3>3. msgs' = Append(msgs, m) /\ Log' = Log \cup ({m} \cap Persistent)
      BY <2>3, <3>1, <3>2 DEF InsertDurable
    <3>4. Abstract!Publish(m)
      BY <2>1, <2>2, <3>3 DEF Abstract!Publish
    <3> QED
      BY <3>4 DEF Abstract!Next
  <2>4. CASE InsertRefused(m)
    <3>1. Abstract!Publish(m)
      BY <2>1, <2>2, <2>4 DEF InsertRefused, Abstract!Publish
    <3> QED
      BY <3>1 DEF Abstract!Next
  <2>5. CASE InsertTransient(m)
    <3>1. msgs' = Append(msgs, m) /\ Log' = Log \cup ({m} \cap Persistent)
      BY <2>5 DEF InsertTransient
    <3>2. Abstract!Publish(m)
      BY <2>1, <2>2, <3>1 DEF Abstract!Publish
    <3> QED
      BY <3>2 DEF Abstract!Next
  <2> QED
    BY <1>6, <2>3, <2>4, <2>5
<1>7. ASSUME NEW m \in Msg, CrashInInsert(m)
      PROVE  Abstract!Next
  <2>1. PICK e \in {m, Phantom} :
           datafile' = Append(datafile, [msg |-> e, valid |-> TRUE])
    BY <1>7 DEF CrashInInsert
  <2>2. /\ Alive /\ ~Alive' /\ msgs' = <<>> /\ waitackMsgs' = {}
        /\ m \in Persistent \ published
        /\ published' = published \cup {m}
    BY <1>7 DEF CrashInInsert, Die, ForgetMemory, Alive
  <2>3. Stored(datafile') = Stored(datafile) \cup {e}
    BY <2>1, AppendFacts DEF TypeOK, Types, Entry
  <2>4. Log' \in {Log, Log \cup {m}}
    BY <2>1, <2>2, <2>3, MessageStoreAssumption
  <2>5. Abstract!Crash
    BY <2>2, <2>4 DEF Abstract!Crash, Abstract!Emptied
  <2> QED
    BY <2>5 DEF Abstract!Next
<1>8. ASSUME NEW m \in Msg, CrashInRemove(m)
      PROVE  Abstract!Next
  <2> DEFINE d == Marked(m)
  <2>1. /\ m \in waitackMsgs \cap Persistent
        /\ ~Alive' /\ msgs' = <<>> /\ waitackMsgs' = {}
        /\ UNCHANGED published
        /\ datafile' \in {d, <<>>, Compact(d)}
    BY <1>8
    DEF CrashInRemove, GcInterrupted, GcImages, Die, ForgetMemory, Alive
  <2>2. Alive /\ d \in Seq(Record) /\ Stored(d) = Stored(datafile) \ {m}
    BY <2>1, MarkedFacts
  <2> HIDE DEF d
  <2>3. Stored(datafile') \in {Stored(datafile) \ {m}, {}}
    BY <2>1, <2>2, CompactFacts, EmptyFile
  <2>4. Log' \in {Log \ {m}, {}}
    BY <2>3
  <2>5. Abstract!Crash
    BY <2>1, <2>2, <2>4 DEF Abstract!Crash, Abstract!Emptied
  <2> QED
    BY <2>5 DEF Abstract!Next
<1>9. ASSUME NEW m \in Msg, RemoveDurable(m)
      PROVE  Abstract!Next
  <2> DEFINE d == Marked(m)
  <2>1. /\ m \in waitackMsgs \cap Persistent
        /\ Gc(d, durableMsgs \ {m}, valid - 1)
        /\ waitackMsgs' = waitackMsgs \ {m}
        /\ Alive' = Alive
        /\ UNCHANGED published
    BY <1>9 DEF RemoveDurable, Alive
  <2>2. /\ Alive /\ Alive'
        /\ Stored(d) = durableMsgs \ {m}
        /\ durableMsgs = Stored(datafile)
    BY <2>1, MarkedFacts
  <2>3. msgs' = msgs
    <3>1. /\ d \in Seq(Record) /\ Distinct(d)
          /\ total = Len(d)
          /\ valid - 1 = Cardinality(ValidAt(d)) /\ valid - 1 \in Nat
          /\ \A k \in Stored(d) \cap Persistent :
                /\ offset[k] \in DOMAIN d
                /\ d[offset[k]] = [msg |-> k, valid |-> TRUE]
      BY <2>1, <2>2, MarkedFacts
    <3> HIDE DEF d
    <3>2. Gc(d, Stored(d), valid - 1)
      BY <2>1, <2>2
    <3>3. ~TooLong(datafile')
      BY <2>1 DEF Next, vars
    <3> QED
      BY <3>1, <3>2, <3>3, GcFacts
  <2>4. Log' = Log \ {m}
    <3>1. durableMsgs' = Stored(datafile')
      BY <2>2 DEF IndexMatchesFile
    <3>2. durableMsgs' = durableMsgs \ {m}
      <4> HIDE DEF d
      <4>1. CASE GcCheck(valid - 1, total)
        BY <2>1, <2>2, <4>1 DEF Gc
      <4>2. CASE ~GcCheck(valid - 1, total)
        BY <2>1, <4>2 DEF Gc
      <4> QED
        BY <4>1, <4>2
    <3> QED
      BY <2>2, <3>1, <3>2
  <2>5. Abstract!Ack(m)
    BY <2>1, <2>3, <2>4 DEF Abstract!Ack
  <2> QED
    BY <2>5 DEF Abstract!Next
<1>10. ASSUME NEW m \in Msg, RemoveTransient(m)
       PROVE  Abstract!Next
  <2>1. /\ m \in waitackMsgs \ Persistent
        /\ waitackMsgs' = waitackMsgs \ {m}
        /\ Alive' = Alive
        /\ UNCHANGED <<msgs, datafile, published>>
    BY <1>10 DEF RemoveTransient, Alive
  <2>2. Abstract!Ack(m)
    BY <2>1 DEF Abstract!Ack
  <2> QED
    BY <2>2 DEF Abstract!Next
<1>11. CASE UNCHANGED vars
  BY <1>11 DEF vars, Alive
<1> QED
  BY <1>1, <1>2, <1>3, <1>4, <1>5, <1>6, <1>7, <1>8, <1>9, <1>10, <1>11
  DEF Next, Step

\* QueueMessage with its file, offsets, counters and collections implements a
\* queue with acknowledgements and a log, until the file outgrows its offsets.
THEOREM Implementation == Spec => ImplementsAckQueue
<1>1. IInv /\ IInv' /\ [Next]_vars
         => [outgrown' \/ Abstract!Next]_Abstract!vars
  <2> SUFFICES ASSUME IInv, IInv', [Next]_vars, ~outgrown'
               PROVE  [Abstract!Next]_Abstract!vars
    OBVIOUS
  <2>1. ~outgrown
    BY DEF Next, vars, IInv, Types
  <2>2. Inv /\ Inv'
    BY <2>1 DEF IInv
  <2> QED
    BY <2>2, AbstractStep
<1>2. Init => Abstract!Init
  BY AbstractInit
<1> QED
  BY <1>1, <1>2, Invariance, PTL DEF Spec, ImplementsAckQueue

=============================================================================
