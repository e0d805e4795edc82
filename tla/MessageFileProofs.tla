-------------------------- MODULE MessageFileProofs --------------------------
(***************************************************************************)
(* Theorems about MessageFile, for every set of messages and of ids, every *)
(* threshold of GCCheck, every range of offsets and every bound on the      *)
(* failures.                                                               *)
(***************************************************************************)
EXTENDS MessageFile, PickProofs

-----------------------------------------------------------------------------
(* The invariants.                                                         *)

\* The cells load() may find a message in, and those messages.
ValidBodies(f) == {p \in 1..Size(f) : f[p].is = "body" /\ f[p].valid}

KeptIn(f) == {f[p].msg : p \in ValidBodies(f)}

File == Seq(Cell) \cup {NoFile}

Objects == [msg : Msg \cup {Phantom}, copy : Nat]

InMemory == Range(msgs) \cup waitack

\* All but the history variable outgrown, which follows from the rest.
state == <<idOf, memory, files, history>>

TypeOK ==
    /\ idOf \in [Msg -> Id]
    /\ up \in BOOLEAN
    /\ msgs \in Seq(Objects)
    /\ index \in SUBSET Objects
    /\ waitack \in SUBSET Objects /\ IsFiniteSet(waitack)
    /\ DOMAIN offset \in SUBSET Objects
    /\ offset \in [DOMAIN offset -> Nat]
    /\ InMemory \cup index \subseteq DOMAIN offset
    /\ total \in Nat
    /\ valid \in Int
    /\ datafile \in File
    /\ tempfile \in File
    /\ accepted \in SUBSET offered
    /\ done \in SUBSET offered
    /\ offered \in SUBSET Msg
    /\ swapLost \in BOOLEAN
    /\ confused \in BOOLEAN

\* A body is that of a message of S.
BodiesOf(f, S) == \A p \in 1..Size(f) : f[p].is = "body" => f[p].msg \in S

\* Nothing is in memory or in a file that was not offered; without the queue
\* there is no memory; the index has one entry for an id.
Bounds ==
    /\ \A o \in InMemory \cup index : o.msg \in offered \cup {Phantom}
    /\ BodiesOf(datafile, offered)
    /\ BodiesOf(tempfile, offered)
    /\ up \/ (msgs = <<>> /\ waitack = {} /\ index = {})
    /\ \A o, p \in index : IdOf(o) = IdOf(p) => o = p

OneId(m) == \A n \in offered : idOf[n] = idOf[m] => n = m

\* A message has one object in memory, which the index has if no other
\* message has its id.
Single ==
    /\ \A i, j \in DOMAIN msgs :
          msgs[i].msg = msgs[j].msg /\ msgs[i].msg # Phantom => i = j
    /\ \A o \in Range(msgs), p \in waitack :
          o.msg = p.msg => o.msg = Phantom
    /\ \A o, p \in InMemory \cup index :
          o.msg = p.msg /\ o.msg # Phantom => o = p
    /\ \A o \in InMemory : o.msg # Phantom /\ OneId(o.msg) => o \in index

\* A message has one valid body.
Unique(f) == \A p, q \in ValidBodies(f) : f[p].msg = f[q].msg => p = q

\* What was done with is neither in the file nor in memory, and the body of
\* a message in memory, if there is one, is where its object has it.
NothingDone ==
    /\ KeptIn(datafile) \cap done = {}
    /\ \A o \in InMemory : o.msg \notin done
    /\ \A o \in InMemory, p \in ValidBodies(datafile) :
          datafile[p].msg = o.msg => offset[o] = p

\* Lengths and bodies alternate, but for a length at the end of a file whose
\* writer has died.
WellFormed(f, open) ==
    \A p \in 1..Size(f) :
        /\ f[p].is = "body" => p > 1 /\ f[p - 1].is = "length"
        /\ f[p].is = "length" => IF p < Size(f) THEN f[p + 1].is = "body" ELSE ~open

\* The body of each message in memory is where its object has it.
Placed(f, objects) ==
    \A o \in objects :
        o.msg # Phantom => offset[o] \in ValidBodies(f) /\ f[offset[o]].msg = o.msg

NothingLost ==
    /\ WellFormed(datafile, up)
    /\ Placed(datafile, InMemory)
    /\ swapLost \/ accepted \ done \subseteq KeptIn(datafile)

\* The objects are those of every record of f.
Indexed(f, objects) ==
    /\ \A m \in KeptIn(f) : \E o \in objects : o.msg = m
    /\ \A p \in 1..Size(f) : f[p].is = "zero" => \E o \in objects : o.msg = Phantom

\* The index has every record of the file, and nothing empty is queued.
AllIndexed ==
    /\ \A o \in InMemory : o.msg # Phantom
    /\ up => Indexed(datafile, index)

Short == ~TooLong(datafile) /\ ~TooLong(tempfile)

\* While no file has outgrown its offsets.
InBounds ==
    /\ Short
    /\ "createTemp" \in faults \/ Unique(datafile)
    /\ faults \cap Reviving # {} \/ confused \/ NothingDone
    /\ faults \cap Losing # {} \/ confused \/ NothingLost

Inv ==
    /\ TypeOK
    /\ outgrown \in BOOLEAN
    /\ Bounds
    /\ confused \/ Single
    /\ outgrown \/ InBounds
    /\ confused => \E m \in offered : ~OneId(m)
    /\ Orderly => AllIndexed

-----------------------------------------------------------------------------
(* What a write leaves in a file.                                          *)

LEMMA Constants ==
    /\ Phantom \notin Msg
    /\ Phantom \notin Id
    /\ NoFile \notin Seq(Cell)
  BY MessageFileAssumption

LEMMA CellFacts ==
    /\ Length \in Cell /\ Length.is = "length"
    /\ Zero \in Cell /\ Zero.is = "zero"
    /\ \A m \in Msg, v \in BOOLEAN :
          /\ Body(m, v) \in Cell
          /\ Body(m, v).is = "body" /\ Body(m, v).msg = m /\ Body(m, v).valid = v
  BY DEF Cell, Length, Zero, Body

LEMMA FileFacts ==
    ASSUME NEW f \in File
    PROVE  /\ Size(f) \in Nat
           /\ \A p \in 1..Size(f) : f[p] \in Cell
           /\ f # NoFile => f \in Seq(Cell) /\ Size(f) = Len(f)
           /\ f = NoFile => Size(f) = 0
<1>1. CASE f = NoFile
  BY <1>1, Constants DEF Size
<1>2. CASE f # NoFile
  BY <1>2, LenProperties, ElementOfSeq DEF Size, File
<1> QED
  BY <1>1, <1>2

LEMMA SeqFacts ==
    ASSUME NEW f \in Seq(Cell)
    PROVE  /\ f \in File
           /\ f # NoFile
           /\ Size(f) = Len(f) /\ Len(f) \in Nat
           /\ DOMAIN f = 1..Len(f)
           /\ \A p \in 1..Len(f) : f[p] \in Cell
  BY Constants, LenProperties, ElementOfSeq DEF Size, File

\* The cell c is a valid body of m.
Holds(c, m) == c.is = "body" /\ c.valid /\ c.msg = m

\* g is f with what insert() adds of m if the writes in u are lost: of the
\* body only at the place it says.
Adds(f, m, u, g) ==
    /\ g \in Seq(Cell)
    /\ Len(g) >= Len(f)
    /\ \A p \in 1..Len(f) : g[p] = f[p]
    /\ \A p \in 1..Len(g) : p > Len(f) /\ g[p].is = "body"
           => m # Phantom /\ p = Len(f) + 2 /\ Holds(g[p], m)
    /\ m # Phantom /\ u = {}
           => /\ Len(g) = Len(f) + 2
              /\ g[Len(f) + 1] = Length
              /\ Holds(g[Len(f) + 2], m)
    /\ m # Phantom /\ u = {"body"}
           => Len(g) = Len(f) + 1 /\ g[Len(f) + 1] = Length
    /\ m = Phantom /\ u = {}
           => Len(g) = Len(f) + 1 /\ g[Len(f) + 1] = Zero

LEMMA PutFacts ==
    ASSUME NEW f \in Seq(Cell), NEW m \in Msg \cup {Phantom},
           NEW u \in {{}} \cup Unseen, NEW g, g = Put(f, m, u)
    PROVE  Adds(f, m, u, g)
<1> USE DEF Adds
<1>1. Len(f) \in Nat
  BY SeqFacts
<1>2. ASSUME NEW c \in Cell, g = Append(f, c)
      PROVE  /\ g \in Seq(Cell)
             /\ Len(g) = Len(f) + 1
             /\ \A p \in 1..Len(f) : g[p] = f[p]
             /\ g[Len(f) + 1] = c
  BY <1>2, AppendProperties
<1>3. ASSUME NEW c \in Cell, NEW d \in Cell, g = f \o <<c, d>>
      PROVE  /\ g \in Seq(Cell)
             /\ Len(g) = Len(f) + 2
             /\ \A p \in 1..Len(f) : g[p] = f[p]
             /\ g[Len(f) + 1] = c
             /\ g[Len(f) + 2] = d
  <2>1. <<c, d>> \in Seq(Cell) /\ Len(<<c, d>>) = 2
    OBVIOUS
  <2> QED
    BY <1>1, <1>3, <2>1, ConcatProperties
<1>4. /\ {} # {"length"} /\ {} # {"body"} /\ {} # {"length", "body"}
      /\ {"length"} # {"body"} /\ {"length"} # {"length", "body"}
      /\ {"body"} # {"length", "body"}
  <2>1. "length" \notin {} /\ "length" \in {"length"} /\ "length" \notin {"body"}
        /\ "length" \in {"length", "body"}
    OBVIOUS
  <2>2. "body" \notin {} /\ "body" \notin {"length"} /\ "body" \in {"body"}
        /\ "body" \in {"length", "body"}
    OBVIOUS
  <2>3. \A S, T : (\E x : x \in S /\ x \notin T) => S # T /\ T # S
    OBVIOUS
  <2> QED
    BY <2>1, <2>2, <2>3, Zenon
<1>5. CASE m = Phantom
  <2>1. g = f \/ g = Append(f, Zero)
    BY <1>5 DEF Put
  <2>2. u = {} => g = Append(f, Zero)
    BY <1>5 DEF Put
  <2>3. CASE g = f
    BY <1>1, <1>5, <2>2, <2>3
  <2>4. CASE g = Append(f, Zero)
    <3>1. /\ g \in Seq(Cell)
          /\ Len(g) = Len(f) + 1
          /\ \A p \in 1..Len(f) : g[p] = f[p]
          /\ g[Len(f) + 1] = Zero
      BY <1>2, <2>4, CellFacts
    <3>2. Zero.is # "body"
      BY DEF Zero
    <3> QED
      BY <1>1, <1>5, <3>1, <3>2
  <2> QED
    BY <2>1, <2>3, <2>4
<1>6. CASE m # Phantom
  <2>1. m \in Msg
    BY <1>6
  <2>2. /\ u = {} => g = f \o <<Length, Body(m, TRUE)>>
        /\ u = {"length"} => g = f \o <<Zero, Body(m, TRUE)>>
        /\ u = {"body"} => g = Append(f, Length)
        /\ u = {"length", "body"} => g = f
    BY <1>4, <1>6 DEF Put, Unseen
  <2>3. /\ Body(m, TRUE) \in Cell /\ Length \in Cell /\ Zero \in Cell
        /\ Length.is # "body" /\ Zero.is # "body"
        /\ Holds(Body(m, TRUE), m)
    BY <2>1, CellFacts DEF Holds
  <2>4. CASE u = {}
    <3>1. /\ g \in Seq(Cell)
          /\ Len(g) = Len(f) + 2
          /\ \A p \in 1..Len(f) : g[p] = f[p]
          /\ g[Len(f) + 1] = Length
          /\ g[Len(f) + 2] = Body(m, TRUE)
      <4>1. g = f \o <<Length, Body(m, TRUE)>>
        BY <2>2, <2>4
      <4> QED
        BY <1>3, <2>3, <4>1
    <3>2. \A p \in 1..Len(g) : p > Len(f) => p = Len(f) + 1 \/ p = Len(f) + 2
      BY <1>1, <3>1
    <3>3. u # {"body"}
      BY <1>4, <2>4, Zenon
    <3>4. \A p \in 1..Len(g) : p > Len(f) /\ g[p].is = "body"
             => p = Len(f) + 2 /\ Holds(g[p], m)
      BY <2>3, <3>1, <3>2
    <3>5. Len(g) >= Len(f)
      BY <1>1, <3>1
    <3> QED
      BY <1>6, <2>3, <2>4, <3>1, <3>3, <3>4, <3>5, Zenon
  <2>5. CASE u = {"length"}
    <3>1. /\ g \in Seq(Cell)
          /\ Len(g) = Len(f) + 2
          /\ \A p \in 1..Len(f) : g[p] = f[p]
          /\ g[Len(f) + 1] = Zero
          /\ g[Len(f) + 2] = Body(m, TRUE)
      <4>1. g = f \o <<Zero, Body(m, TRUE)>>
        BY <2>2, <2>5
      <4> QED
        BY <1>3, <2>3, <4>1
    <3>2. \A p \in 1..Len(g) : p > Len(f) => p = Len(f) + 1 \/ p = Len(f) + 2
      BY <1>1, <3>1
    <3>3. u # {} /\ u # {"body"}
      BY <1>4, <2>5, Zenon
    <3>4. \A p \in 1..Len(g) : p > Len(f) /\ g[p].is = "body"
             => p = Len(f) + 2 /\ Holds(g[p], m)
      BY <2>3, <3>1, <3>2
    <3>5. Len(g) >= Len(f)
      BY <1>1, <3>1
    <3> QED
      BY <1>6, <2>3, <2>5, <3>1, <3>3, <3>4, <3>5, Zenon
  <2>6. CASE u = {"body"}
    <3>1. /\ g \in Seq(Cell)
          /\ Len(g) = Len(f) + 1
          /\ \A p \in 1..Len(f) : g[p] = f[p]
          /\ g[Len(f) + 1] = Length
      <4>1. g = Append(f, Length)
        BY <2>2, <2>6
      <4> QED
        BY <1>2, <2>3, <4>1
    <3>2. \A p \in 1..Len(g) : p > Len(f) => p = Len(f) + 1
      BY <1>1, <3>1
    <3>3. u # {}
      BY <1>4, <2>6, Zenon
    <3>4. \A p \in 1..Len(g) : p > Len(f) => g[p].is # "body"
      BY <2>3, <3>1, <3>2
    <3>5. Len(g) >= Len(f)
      BY <1>1, <3>1
    <3> QED
      BY <1>6, <2>6, <3>1, <3>3, <3>4, <3>5, Zenon
  <2>7. CASE u = {"length", "body"}
    <3>1. g = f
      BY <2>2, <2>7
    <3>2. u # {} /\ u # {"body"}
      BY <1>4, <2>7, Zenon
    <3>3. Len(g) >= Len(f) /\ \A p \in 1..Len(g) : ~(p > Len(f))
      BY <1>1, <3>1
    <3> QED
      BY <1>6, <3>1, <3>2, <3>3, Zenon
  <2> QED
    BY <2>4, <2>5, <2>6, <2>7 DEF Unseen
<1> QED
  BY <1>5, <1>6

\* g is f with c at the place and no other cell changed; a place past the end
\* leaves zeros before it.
Writes(f, place, c, g) ==
    /\ g \in Seq(Cell)
    /\ Len(g) = (IF place > Len(f) THEN place ELSE Len(f))
    /\ place \in 1..Len(g) /\ g[place] = c
    /\ \A p \in 1..Len(g) : p # place /\ p <= Len(f) => g[p] = f[p]
    /\ \A p \in 1..Len(g) : p # place /\ p > Len(f) => g[p] = Zero

LEMMA WriteAtFacts ==
    ASSUME NEW f \in Seq(Cell), NEW place \in Nat \ {0}, NEW c \in Cell,
           NEW g, g = WriteAt(f, place, c)
    PROVE  Writes(f, place, c, g)
<1> USE DEF Writes
<1> DEFINE n == IF place > Len(f) THEN place ELSE Len(f)
<1>1. /\ Len(f) \in Nat /\ Size(f) = Len(f)
      /\ \A p \in 1..Len(f) : f[p] \in Cell
      /\ Zero \in Cell
  BY SeqFacts, CellFacts
<1>2. n \in Nat /\ place \in 1..n /\ \A p \in 1..n : p <= Len(f) => p \in 1..Len(f)
  BY <1>1
<1>3. g = [i \in 1..n |->
              IF i = place THEN c ELSE IF i <= Len(f) THEN f[i] ELSE Zero]
  BY <1>1 DEF WriteAt
<1>4. n = (IF place > Len(f) THEN place ELSE Len(f))
  OBVIOUS
<1> HIDE DEF n
<1>5. g \in [1..n -> Cell]
  <2>1. ASSUME NEW i \in 1..n
        PROVE  (IF i = place THEN c ELSE IF i <= Len(f) THEN f[i] ELSE Zero)
                  \in Cell
    BY <1>1, <1>2
  <2> QED
    BY <1>3, <2>1
<1>6. g \in Seq(Cell) /\ Len(g) = n
  <2>1. n \in Nat
    BY <1>2
  <2> QED
    BY <1>5, <2>1, LenProperties
<1>7. /\ g[place] = c
      /\ \A p \in 1..n : p # place /\ p <= Len(f) => g[p] = f[p]
      /\ \A p \in 1..n : p # place /\ p > Len(f) => g[p] = Zero
  <2>1. \A p \in 1..n : p > Len(f) => ~(p <= Len(f))
    BY <1>1, <1>2
  <2>2. \A p \in 1..n : g[p] = IF p = place THEN c
                              ELSE IF p <= Len(f) THEN f[p] ELSE Zero
    BY <1>3
  <2> QED
    BY <1>2, <2>1, <2>2, Zenon
<1> QED
  BY <1>2, <1>4, <1>6, <1>7

\* g is f with the record of m over what is at its start.
Covers(f, m, g) ==
    /\ g \in Seq(Cell)
    /\ Len(g) >= Len(f)
    /\ \A p \in 1..Len(g) : g[p].is = "body"
           => \/ p \in 1..Len(f) /\ g[p] = f[p]
              \/ m # Phantom /\ p = 2 /\ Holds(g[p], m)

LEMMA OverwriteFacts ==
    ASSUME NEW f \in Seq(Cell), NEW m \in Msg \cup {Phantom},
           NEW g, g = Overwrite(f, m)
    PROVE  Covers(f, m, g)
<1>1. Zero \in Cell /\ Length \in Cell /\ Zero.is # "body" /\ Length.is # "body"
  BY CellFacts
<1>2. 1 \in Nat \ {0} /\ 2 \in Nat \ {0}
  OBVIOUS
<1>3. CASE m = Phantom
  <2>1. Writes(f, 1, Zero, g)
    <3>1. g = WriteAt(f, 1, Zero)
      BY <1>3 DEF Overwrite
    <3> QED
      BY <1>1, <1>2, <3>1, WriteAtFacts
  <2>2. Len(f) \in Nat /\ Len(g) \in Nat
    BY <2>1, LenProperties DEF Writes
  <2>3. \A p \in 1..Len(g) : g[p].is = "body" => p \in 1..Len(f) /\ g[p] = f[p]
    BY <1>1, <2>1, <2>2 DEF Writes
  <2> QED
    BY <2>1, <2>2, <2>3 DEF Writes, Covers
<1>4. CASE m # Phantom
  <2>1. PICK h : h = WriteAt(f, 1, Length)
    OBVIOUS
  <2>2. Writes(f, 1, Length, h)
    BY <1>1, <1>2, <2>1, WriteAtFacts
  <2>3. h \in Seq(Cell)
    BY <2>2 DEF Writes
  <2>4. Body(m, TRUE) \in Cell /\ Holds(Body(m, TRUE), m)
    BY <1>4, CellFacts DEF Holds
  <2>5. Writes(h, 2, Body(m, TRUE), g)
    <3>1. g = WriteAt(h, 2, Body(m, TRUE))
      BY <1>4, <2>1 DEF Overwrite
    <3> QED
      BY <1>2, <2>3, <2>4, <3>1, WriteAtFacts
  <2>6. Len(f) \in Nat /\ Len(g) \in Nat /\ Len(h) \in Nat
    BY <2>2, <2>5, LenProperties DEF Writes
  <2>7. \A p \in 1..Len(h) : h[p].is = "body" => p \in 1..Len(f) /\ h[p] = f[p]
    BY <1>1, <2>2, <2>6 DEF Writes
  <2>8. \A p \in 1..Len(g) : p # 2 /\ g[p].is = "body" => p \in 1..Len(h) /\ g[p] = h[p]
    BY <1>1, <2>5, <2>6 DEF Writes
  <2>9. Holds(g[2], m)
    BY <2>4, <2>5 DEF Writes
  <2>10. \A p \in 1..Len(g) : g[p].is = "body"
             => (p \in 1..Len(f) /\ g[p] = f[p]) \/ (p = 2 /\ Holds(g[p], m))
    BY <2>7, <2>8, <2>9
  <2>11. g \in Seq(Cell) /\ Len(g) >= Len(f)
    BY <2>2, <2>5, <2>6 DEF Writes
  <2> QED
    BY <1>4, <2>10, <2>11 DEF Covers
<1> QED
  BY <1>3, <1>4

\* The place insert() gives is the one it writes to if an offset can say it.
LEMMA PlaceInFacts ==
    ASSUME NEW f \in File
    PROVE  /\ PlaceIn(f) \in Nat
           /\ ~TooLong(f) => PlaceIn(f) = Size(f) + 2
<1>1. Size(f) \in Nat /\ OffsetRange \in Nat /\ OffsetRange > 0
  BY FileFacts, MessageFileAssumption
<1>2. PICK n \in Nat, r \in Nat : n = Size(f) + 1 /\ r = OffsetRange /\ r > 0
  BY <1>1
<1>3. n % r \in Nat /\ (n < r => n % r = n)
  BY <1>2, Z3
<1>4. PlaceIn(f) = (n % r) + 1
  BY <1>2 DEF PlaceIn
<1>5. ~TooLong(f) => n < r
  BY <1>1, <1>2 DEF TooLong
<1>6. Size(f) + 2 = n + 1
  BY <1>1, <1>2
<1> QED
  BY <1>3, <1>4, <1>5, <1>6

\* The place given in a file that passes for empty.
LEMMA PlaceInEmpty == PlaceIn(<<>>) = 2
<1>1. <<>> \in Seq(Cell) /\ Len(<<>>) = 0
  OBVIOUS
<1>2. <<>> \in File /\ Size(<<>>) = 0
  BY <1>1, SeqFacts
<1>3. ~TooLong(<<>>)
  BY <1>2, MessageFileAssumption DEF TooLong
<1> QED
  BY <1>2, <1>3, PlaceInFacts

-----------------------------------------------------------------------------
(* What load() finds.                                                      *)

Record == [msg : Msg \cup {Phantom}, valid : BOOLEAN]

Starting(f) == {i \in 1..Size(f) : Starts(f)[i]}

Reached(f) == {i \in Starting(f) : \A j \in Starting(f) : f[j].is = "body" => i <= j}

LEMMA RecordAtFacts ==
    ASSUME NEW f \in File, NEW i \in 1..Size(f)
    PROVE  /\ RecordAt(f, i) \in Record
           /\ RecordAt(f, i).valid /\ RecordAt(f, i).msg # Phantom
                 => i + 1 \in ValidBodies(f) /\ f[i + 1].msg = RecordAt(f, i).msg
           /\ f[i].is = "length" /\ i + 1 \in ValidBodies(f)
                 => RecordAt(f, i).valid /\ RecordAt(f, i).msg = f[i + 1].msg
           /\ f[i].is # "body" => RecordAt(f, i) = Empty
                                   \/ (f[i].is = "length" /\ i < Size(f) /\ f[i + 1].is = "body")
<1>1. Size(f) \in Nat /\ \A p \in 1..Size(f) : f[p] \in Cell
  BY FileFacts
<1>2. \A p \in 1..Size(f) : f[p].is \in {"length", "zero", "body"}
                            /\ f[p].msg \in Msg \cup {Phantom} /\ f[p].valid \in BOOLEAN
  BY <1>1 DEF Cell
<1>3. Empty \in Record /\ Garbage \in Record /\ Garbage.valid = FALSE /\ Empty.msg = Phantom
  BY DEF Empty, Garbage, Record
<1>4. i < Size(f) => i + 1 \in 1..Size(f)
  BY <1>1
<1>5. i + 1 \in ValidBodies(f) => i < Size(f) /\ f[i + 1].is = "body" /\ f[i + 1].valid
  BY <1>1 DEF ValidBodies
<1>6. CASE f[i].is = "body"
  BY <1>3, <1>6 DEF RecordAt
<1>7. CASE f[i].is = "length" /\ i < Size(f) /\ f[i + 1].is = "body"
  <2>1. RecordAt(f, i) = [msg |-> f[i + 1].msg, valid |-> f[i + 1].valid]
    BY <1>7 DEF RecordAt
  <2>2. RecordAt(f, i) \in Record
    BY <1>2, <1>4, <1>7, <2>1 DEF Record
  <2>3. f[i + 1].valid <=> i + 1 \in ValidBodies(f)
    BY <1>4, <1>7 DEF ValidBodies
  <2> QED
    BY <1>7, <2>1, <2>2, <2>3
<1>8. CASE f[i].is # "body" /\ ~(f[i].is = "length" /\ i < Size(f) /\ f[i + 1].is = "body")
  <2>1. RecordAt(f, i) = Empty
    BY <1>8 DEF RecordAt
  <2>2. ~(f[i].is = "length" /\ i + 1 \in ValidBodies(f))
    BY <1>5, <1>8
  <2>3. RecordAt(f, i) \in Record /\ RecordAt(f, i).msg = Phantom
    BY <1>3, <2>1
  <2> QED
    BY <2>1, <2>2, <2>3
<1> QED
  BY <1>6, <1>7, <1>8

\* The records read are those at the cells reached, each once.
LEMMA RecordsFacts ==
    ASSUME NEW f \in File
    PROVE  /\ Records(f) \in Seq(Record)
           /\ \E h \in [DOMAIN Records(f) -> Reached(f)] :
                 /\ \A k \in DOMAIN Records(f) : Records(f)[k] = RecordAt(f, h[k])
                 /\ \A k, l \in DOMAIN Records(f) : h[k] = h[l] => k = l
                 /\ \A i \in Reached(f) : \E k \in DOMAIN Records(f) : h[k] = i
<1>1. PICK s \in Seq(Record) :
          /\ \A i \in Reached(f) : s[i] = RecordAt(f, i)
          /\ Reached(f) \in SUBSET (DOMAIN s)
          /\ Records(f) = Pick(s, Reached(f))
  <2> DEFINE s == [i \in 1..Size(f) |-> RecordAt(f, i)]
  <2>1. s \in Seq(Record)
    <3>1. Size(f) \in Nat /\ s \in [1..Size(f) -> Record]
      BY FileFacts, RecordAtFacts
    <3> HIDE DEF s
    <3> QED
      BY <3>1
  <2>2. /\ \A i \in Reached(f) : s[i] = RecordAt(f, i)
        /\ Reached(f) \in SUBSET (DOMAIN s)
    BY DEF Reached, Starting
  <2>3. Records(f) = Pick(s, Reached(f))
    BY DEF Records, Reached, Starting
  <2> HIDE DEF s
  <2> QED
    BY <2>1, <2>2, <2>3
<1>2. Records(f) \in Seq(Record) /\ \E h : Draws(Records(f), s, Reached(f), h)
  BY <1>1, PickDraws
<1>3. PICK h : Draws(Records(f), s, Reached(f), h)
  BY <1>2
<1>4. /\ h \in [DOMAIN Records(f) -> Reached(f)]
      /\ \A k \in DOMAIN Records(f) : Records(f)[k] = RecordAt(f, h[k])
      /\ \A k, l \in DOMAIN Records(f) : h[k] = h[l] => k = l
      /\ \A i \in Reached(f) : \E k \in DOMAIN Records(f) : h[k] = i
  BY <1>1, <1>3 DEF Draws
<1> QED
  BY <1>2, <1>4

\* What a collection of f may meet; a failing stat() of CreateMsgFile is
\* behind it.
Calls(f) == {None, Failure("statCreate", 1, {})} \cup Failures(f)

\* The failures of load() of which it does not tell.
Misreading == {"statLoad", "readLength", "readBody"}

LEMMA FailureFacts ==
    ASSUME NEW f, NEW e \in Calls(f)
    PROVE  /\ e.call \in {"none", "statCreate", "statLoad", "statTemp", "createTemp",
                          "removeOld", "rename", "readLength", "readBody", "openTemp",
                          "writeTemp"}
           /\ e.call \in {"readLength", "readBody"} => e.at \in 1..Len(Records(f))
           /\ e.call = "openTemp" => e.at \in 1..Len(Live(Records(f)))
           /\ e.unseen \in {{}} \cup Unseen
           /\ e = None <=> e.call = "none"
  BY DEF Calls, Failures, Failure, None

\* A failing read loses records or empties one.
LEMMA ReadFacts ==
    ASSUME NEW f \in File, NEW call, NEW k,
           call \in {"readLength", "readBody"} => k \in 1..Len(Records(f))
    PROVE  /\ Read(f, call, k) \in Seq(Record)
           /\ \A i \in DOMAIN Read(f, call, k) :
                 i \in DOMAIN Records(f) /\ Read(f, call, k)[i] \in {Records(f)[i], Empty}
           /\ call \notin Misreading => Read(f, call, k) = Records(f)
<1>1. Records(f) \in Seq(Record) /\ Empty \in Record
  BY RecordsFacts DEF Empty, Record
<1>2. PICK r \in Seq(Record) : r = Records(f)
  BY <1>1
<1>3. Len(r) \in Nat /\ DOMAIN r = 1..Len(r)
  BY LenProperties
<1>4. CASE call = "readLength"
  <2>1. k \in 1..Len(r)
    BY <1>2, <1>4
  <2>2. PICK s : s = SubSeq(r, 1, k - 1)
    OBVIOUS
  <2>3. s \in Seq(Record) /\ \A i \in DOMAIN s : i \in DOMAIN r /\ s[i] = r[i]
    BY <1>3, <2>1, <2>2
  <2>4. Read(f, call, k) = s
    BY <1>2, <1>4, <2>2 DEF Read
  <2> QED
    BY <1>2, <1>4, <2>3, <2>4 DEF Misreading
<1>5. CASE call = "readBody" /\ r[k] # Garbage
  <2>1. k \in 1..Len(r)
    BY <1>2, <1>5
  <2>2. PICK s : s = [r EXCEPT ![k] = Empty]
    OBVIOUS
  <2>3. s \in Seq(Record) /\ \A i \in DOMAIN s : i \in DOMAIN r /\ s[i] \in {r[i], Empty}
    BY <1>1, <1>3, <2>1, <2>2, ExceptSeq
  <2>4. Read(f, call, k) = s
    BY <1>2, <1>5, <2>2 DEF Read
  <2> QED
    BY <1>2, <1>5, <2>3, <2>4 DEF Misreading
<1>6. CASE call = "statLoad"
  <2>1. Read(f, call, k) = <<>>
    BY <1>6 DEF Read
  <2>2. <<>> \in Seq(Record) /\ DOMAIN <<>> = {}
    OBVIOUS
  <2> QED
    BY <1>6, <2>1, <2>2 DEF Misreading
<1>7. CASE call \notin {"readLength", "statLoad"} /\ ~(call = "readBody" /\ r[k] # Garbage)
  <2>1. Read(f, call, k) = r
    BY <1>2, <1>7 DEF Read
  <2> QED
    BY <1>2, <2>1
<1> QED
  BY <1>4, <1>5, <1>6, <1>7

\* What load() returns: the messages of the valid records, each once.
LEMMA LiveFacts ==
    ASSUME NEW r \in Seq(Record)
    PROVE  /\ Live(r) \in Seq(Msg \cup {Phantom})
           /\ \E g \in [DOMAIN Live(r) -> ValidAmong(r)] :
                 /\ \A k \in DOMAIN Live(r) : Live(r)[k] = r[g[k]].msg
                 /\ \A k, l \in DOMAIN Live(r) : g[k] = g[l] => k = l
                 /\ \A i \in ValidAmong(r) : \E k \in DOMAIN Live(r) : g[k] = i
<1>1. PICK s \in Seq(Msg \cup {Phantom}) :
          /\ \A i \in ValidAmong(r) : s[i] = r[i].msg
          /\ ValidAmong(r) \in SUBSET (DOMAIN s)
          /\ Live(r) = Pick(s, ValidAmong(r))
  <2> DEFINE s == [k \in DOMAIN r |-> r[k].msg]
  <2>1. s \in Seq(Msg \cup {Phantom})
    <3>1. Len(r) \in Nat /\ DOMAIN r = 1..Len(r) /\ \A k \in 1..Len(r) : r[k] \in Record
      BY LenProperties, ElementOfSeq
    <3>2. s \in [1..Len(r) -> Msg \cup {Phantom}]
      BY <3>1 DEF Record
    <3> HIDE DEF s
    <3> QED
      BY <3>1, <3>2
  <2>2. /\ \A i \in ValidAmong(r) : s[i] = r[i].msg
        /\ ValidAmong(r) \in SUBSET (DOMAIN s)
    BY DEF ValidAmong
  <2>3. Live(r) = Pick(s, ValidAmong(r))
    BY DEF Live, Messages
  <2> HIDE DEF s
  <2> QED
    BY <2>1, <2>2, <2>3
<1>2. Live(r) \in Seq(Msg \cup {Phantom}) /\ \E g : Draws(Live(r), s, ValidAmong(r), g)
  BY <1>1, PickDraws
<1>3. PICK g : Draws(Live(r), s, ValidAmong(r), g)
  BY <1>2
<1>4. /\ g \in [DOMAIN Live(r) -> ValidAmong(r)]
      /\ \A k \in DOMAIN Live(r) : Live(r)[k] = r[g[k]].msg
      /\ \A k, l \in DOMAIN Live(r) : g[k] = g[l] => k = l
      /\ \A i \in ValidAmong(r) : \E k \in DOMAIN Live(r) : g[k] = i
  BY <1>1, <1>3 DEF Draws
<1> QED
  BY <1>2, <1>4

\* A message found is in a valid body of the file, and is found once if the
\* file has it once.
LEMMA FoundFacts ==
    ASSUME NEW f \in File, NEW e \in Calls(f)
    PROVE  LET found == Live(Read(f, e.call, e.at)) IN
           /\ found \in Seq(Msg \cup {Phantom})
           /\ \A k \in DOMAIN found : found[k] # Phantom => found[k] \in KeptIn(f)
           /\ Unique(f) => \A k, l \in DOMAIN found :
                 found[k] = found[l] /\ found[k] # Phantom => k = l
<1>1. PICK r \in Seq(Record) : r = Read(f, e.call, e.at)
  BY FailureFacts, ReadFacts
<1>2. \A i \in DOMAIN r : i \in DOMAIN Records(f) /\ r[i] \in {Records(f)[i], Empty}
  BY <1>1, FailureFacts, ReadFacts
<1>3. PICK h \in [DOMAIN Records(f) -> Reached(f)] :
          /\ \A k \in DOMAIN Records(f) : Records(f)[k] = RecordAt(f, h[k])
          /\ \A k, l \in DOMAIN Records(f) : h[k] = h[l] => k = l
  BY RecordsFacts
<1>4. PICK found \in Seq(Msg \cup {Phantom}) : found = Live(r)
  BY LiveFacts
<1>5. PICK g \in [DOMAIN found -> ValidAmong(r)] :
          /\ \A k \in DOMAIN found : found[k] = r[g[k]].msg
          /\ \A k, l \in DOMAIN found : g[k] = g[l] => k = l
  BY <1>4, LiveFacts, SMTT(30)
<1>6. ASSUME NEW k \in DOMAIN found, found[k] # Phantom
      PROVE  /\ g[k] \in DOMAIN Records(f)
             /\ h[g[k]] + 1 \in ValidBodies(f)
             /\ f[h[g[k]] + 1].msg = found[k]
  <2>1. g[k] \in DOMAIN r /\ r[g[k]].valid /\ r[g[k]].msg = found[k]
    BY <1>5 DEF ValidAmong
  <2>2. Empty.msg = Phantom
    BY DEF Empty
  <2>3. r[g[k]] = Records(f)[g[k]] /\ g[k] \in DOMAIN Records(f)
    BY <1>2, <1>6, <2>1, <2>2
  <2>4. h[g[k]] \in 1..Size(f) /\ Records(f)[g[k]] = RecordAt(f, h[g[k]])
    BY <1>3, <2>3 DEF Reached, Starting
  <2> QED
    BY <1>6, <2>1, <2>3, <2>4, RecordAtFacts
<1>7. \A k \in DOMAIN found : found[k] # Phantom => found[k] \in KeptIn(f)
  BY <1>6 DEF KeptIn
<1>8. ASSUME Unique(f), NEW k \in DOMAIN found, NEW l \in DOMAIN found,
             found[k] = found[l], found[k] # Phantom
      PROVE  k = l
  <2>1. h[g[k]] + 1 = h[g[l]] + 1
    BY <1>6, <1>8 DEF Unique
  <2>2. h[g[k]] \in Int /\ h[g[l]] \in Int
    BY <1>3, <1>6, <1>8, FileFacts DEF Reached, Starting
  <2>3. h[g[k]] = h[g[l]]
    BY <2>1, <2>2
  <2> QED
    BY <1>3, <1>5, <1>6, <1>8, <2>3
<1> QED
  BY <1>1, <1>4, <1>7, <1>8

\* In a file that is well-formed, what starts a record is what is no body.
LEMMA StartsFacts ==
    ASSUME NEW f \in File, NEW open, WellFormed(f, open)
    PROVE  /\ \A i \in 1..Size(f) : Starts(f)[i] <=> f[i].is # "body"
           /\ Reached(f) = {i \in 1..Size(f) : f[i].is # "body"}
<1> DEFINE s == [i \in 1..Size(f) |-> f[i].is # "body"]
<1>1. Size(f) \in Nat
  BY FileFacts
<1>2. ASSUME NEW i \in 1..Size(f)
      PROVE  (f[i].is # "body") = ~(i > 1 /\ f[i - 1].is = "length" /\ s[i - 1])
  <2>1. CASE i = 1
    BY <1>1, <2>1 DEF WellFormed
  <2>2. CASE i > 1
    <3>1. i - 1 \in 1..Size(f) /\ i - 1 < Size(f) /\ (i - 1) + 1 = i
      BY <1>1, <2>2
    <3>2. f[i - 1].is = "length" => f[i].is = "body" /\ s[i - 1]
      BY <3>1 DEF WellFormed
    <3>3. f[i].is = "body" => f[i - 1].is = "length"
      BY DEF WellFormed
    <3> QED
      BY <2>2, <3>2, <3>3
  <2> QED
    BY <1>1, <2>1, <2>2
<1>3. s = [i \in 1..Size(f) |-> ~(i > 1 /\ f[i - 1].is = "length" /\ s[i - 1])]
  BY <1>2
<1> HIDE DEF s
<1>4. Starts(f) = [i \in 1..Size(f) |->
                      ~(i > 1 /\ f[i - 1].is = "length" /\ Starts(f)[i - 1])]
  BY <1>3 DEF Starts
<1>5. ASSUME NEW i \in 1..Size(f)
      PROVE  Starts(f)[i] <=> f[i].is # "body"
  <2>1. \A j \in 1..Size(f) :
           Starts(f)[j] <=> ~(j > 1 /\ f[j - 1].is = "length" /\ Starts(f)[j - 1])
    BY <1>4
  <2>2. CASE f[i].is # "body"
    <3>1. i > 1 => f[i - 1].is # "length"
      <4>1. i > 1 => i - 1 \in 1..Size(f) /\ i - 1 < Size(f) /\ (i - 1) + 1 = i
        BY <1>1
      <4> QED
        BY <2>2, <4>1 DEF WellFormed
    <3> QED
      BY <2>1, <2>2, <3>1
  <2>3. CASE f[i].is = "body"
    <3>1. i > 1 /\ f[i - 1].is = "length" /\ i - 1 \in 1..Size(f)
      BY <1>1, <2>3 DEF WellFormed
    <3>2. (i - 1) > 1 => f[(i - 1) - 1].is # "length"
      <4>1. (i - 1) > 1 => /\ (i - 1) - 1 \in 1..Size(f) /\ (i - 1) - 1 < Size(f)
                           /\ ((i - 1) - 1) + 1 = i - 1
        BY <1>1
      <4> QED
        BY <3>1, <4>1 DEF WellFormed
    <3>3. Starts(f)[i - 1]
      BY <2>1, <3>1, <3>2
    <3> QED
      BY <2>1, <2>3, <3>1, <3>3
  <2> QED
    BY <2>2, <2>3
<1> QED
  BY <1>5 DEF Reached, Starting

\* Whatever is stored is in a valid body.
LEMMA StoredFacts ==
    ASSUME NEW f \in File
    PROVE  Stored(f) \subseteq KeptIn(f)
<1> SUFFICES ASSUME NEW m \in Stored(f)
             PROVE  m \in KeptIn(f)
  OBVIOUS
<1>1. PICK k \in DOMAIN Records(f) : Records(f)[k].valid /\ Records(f)[k].msg = m
  BY DEF Stored, Range
<1>2. m # Phantom
  BY DEF Stored
<1>3. PICK i \in 1..Size(f) : Records(f)[k] = RecordAt(f, i)
  BY RecordsFacts DEF Reached, Starting
<1> QED
  BY <1>1, <1>2, <1>3, RecordAtFacts DEF KeptIn

\* A file that is well-formed can be read, and every valid body is stored.
LEMMA WholeFacts ==
    ASSUME NEW f \in File, NEW open, WellFormed(f, open), BodiesOf(f, Msg)
    PROVE  /\ Readable(f)
           /\ Stored(f) = KeptIn(f)
           /\ \A p \in ValidBodies(f) : \E k \in DOMAIN Records(f) :
                 Records(f)[k].valid /\ Records(f)[k].msg = f[p].msg
           /\ \A k \in DOMAIN Records(f) :
                 open /\ Records(f)[k].msg = Phantom
                    => \E p \in 1..Size(f) : f[p].is = "zero"
<1>1. PICK h \in [DOMAIN Records(f) -> Reached(f)] :
          /\ \A k \in DOMAIN Records(f) : Records(f)[k] = RecordAt(f, h[k])
          /\ \A i \in Reached(f) : \E k \in DOMAIN Records(f) : h[k] = i
  BY RecordsFacts
<1>2. Reached(f) = {i \in 1..Size(f) : f[i].is # "body"}
  BY StartsFacts
<1>3. Size(f) \in Nat /\ \A p \in 1..Size(f) : f[p] \in Cell
  BY FileFacts
<1>4. ASSUME NEW k \in DOMAIN Records(f)
      PROVE  /\ Records(f)[k] # Garbage
             /\ open /\ Records(f)[k].msg = Phantom
                   => \E p \in 1..Size(f) : f[p].is = "zero"
  <2>1. h[k] \in 1..Size(f) /\ f[h[k]].is # "body" /\ Records(f)[k] = RecordAt(f, h[k])
    BY <1>1, <1>2
  <2>2. CASE f[h[k]].is = "length" /\ h[k] < Size(f) /\ f[h[k] + 1].is = "body"
    <3>1. h[k] + 1 \in 1..Size(f)
      BY <1>3, <2>1, <2>2
    <3>2. RecordAt(f, h[k]).msg = f[h[k] + 1].msg
      BY <2>2 DEF RecordAt
    <3>3. RecordAt(f, h[k]).msg # Phantom
      BY <2>2, <3>1, <3>2, Constants DEF BodiesOf
    <3> QED
      BY <2>1, <3>3 DEF Garbage
  <2>3. CASE ~(f[h[k]].is = "length" /\ h[k] < Size(f) /\ f[h[k] + 1].is = "body")
    <3>1. RecordAt(f, h[k]) = Empty
      BY <2>1, <2>3, RecordAtFacts
    <3>2. Empty # Garbage
      <4>1. Empty.valid = TRUE /\ Garbage.valid = FALSE
        BY DEF Empty, Garbage
      <4> QED
        BY <4>1
    <3>3. open => f[h[k]].is # "length"
      BY <2>1, <2>3 DEF WellFormed
    <3>4. f[h[k]].is \in {"length", "zero", "body"}
      BY <1>3, <2>1 DEF Cell
    <3> QED
      BY <2>1, <3>1, <3>2, <3>3, <3>4
  <2> QED
    BY <2>2, <2>3
<1>5. ASSUME NEW p \in ValidBodies(f)
      PROVE  \E k \in DOMAIN Records(f) : Records(f)[k].valid /\ Records(f)[k].msg = f[p].msg
  <2>1. p \in 1..Size(f) /\ p > 1 /\ f[p - 1].is = "length"
    BY DEF ValidBodies, WellFormed
  <2>2. p - 1 \in 1..Size(f) /\ (p - 1) + 1 = p
    BY <1>3, <2>1
  <2>3. RecordAt(f, p - 1).valid /\ RecordAt(f, p - 1).msg = f[p].msg
    BY <2>1, <2>2, RecordAtFacts
  <2>4. PICK k \in DOMAIN Records(f) : h[k] = p - 1
    BY <1>1, <1>2, <2>1, <2>2
  <2> QED
    BY <1>1, <2>3, <2>4
<1>6. Readable(f)
  BY <1>4 DEF Readable, Range
<1>7. Stored(f) = KeptIn(f)
  <2>1. ASSUME NEW m \in KeptIn(f)
        PROVE  m \in Stored(f)
    <3>1. PICK p \in ValidBodies(f) : f[p].msg = m
      BY DEF KeptIn
    <3>2. m # Phantom
      BY <3>1, Constants DEF BodiesOf, ValidBodies
    <3> QED
      BY <1>5, <3>1, <3>2 DEF Stored, Range
  <2> QED
    BY <2>1, StoredFacts
<1> QED
  BY <1>4, <1>5, <1>6, <1>7

\* What load() returns of such a file if no read fails.
LEMMA WholeFound ==
    ASSUME NEW f \in File, NEW open, WellFormed(f, open), BodiesOf(f, Msg),
           NEW e \in Calls(f), e.call \notin Misreading
    PROVE  LET found == Live(Read(f, e.call, e.at)) IN
           /\ ~Throws(f, e)
           /\ \A m \in KeptIn(f) : \E k \in DOMAIN found : found[k] = m
           /\ \A k \in DOMAIN found : open /\ found[k] = Phantom
                 => \E p \in 1..Size(f) : f[p].is = "zero"
<1>1. Read(f, e.call, e.at) = Records(f)
  BY FailureFacts, ReadFacts
<1>2. ~Throws(f, e)
  BY <1>1, WholeFacts DEF Throws, Readable
<1>3. PICK r \in Seq(Record) : r = Records(f)
  BY RecordsFacts
<1>4. PICK g \in [DOMAIN Live(r) -> ValidAmong(r)] :
          /\ \A k \in DOMAIN Live(r) : Live(r)[k] = r[g[k]].msg
          /\ \A i \in ValidAmong(r) : \E k \in DOMAIN Live(r) : g[k] = i
  BY LiveFacts
<1>5. ASSUME NEW m \in KeptIn(f)
      PROVE  \E k \in DOMAIN Live(r) : Live(r)[k] = m
  <2>1. PICK i \in DOMAIN r : r[i].valid /\ r[i].msg = m
    BY <1>3, WholeFacts DEF KeptIn
  <2>2. PICK k \in DOMAIN Live(r) : g[k] = i
    BY <1>4, <2>1 DEF ValidAmong
  <2> QED
    BY <1>4, <2>1, <2>2
<1>6. ASSUME NEW k \in DOMAIN Live(r), open, Live(r)[k] = Phantom
      PROVE  \E p \in 1..Size(f) : f[p].is = "zero"
  <2>1. g[k] \in DOMAIN r /\ r[g[k]].msg = Phantom
    BY <1>4, <1>6 DEF ValidAmong
  <2> QED
    BY <1>3, <1>6, <2>1, WholeFacts
<1> QED
  BY <1>1, <1>2, <1>3, <1>5, <1>6

-----------------------------------------------------------------------------
(* What a collection writes.                                               *)

\* What of the i-th insert() of a collection is lost.
LostAt(e, i) == IF e.call = "writeTemp" /\ i = e.at THEN e.unseen ELSE {}

\* Whether it is one that takes the file for empty.
Covered(e, i) == e.call = "statTemp" /\ i = e.at

\* What it makes of f.
Entered(f, m, i, e) ==
    IF Covered(e, i) THEN Overwrite(f, m) ELSE Put(f, m, LostAt(e, i))

\* The recursive function is what it says.
LEMMA TempsDef ==
    ASSUME NEW first, NEW found, NEW n \in Nat, NEW e
    PROVE  LET temps == Temps(first, found, n, e) IN
           /\ temps[0] = first
           /\ \A i \in 1..n : temps[i] = Entered(temps[i - 1], found[i], i, e)
<1> DEFINE After(x, i) == Entered(x, found[i], i, e)
           Is(g, k) == g = [i \in 0..k |-> IF i = 0 THEN first ELSE After(g[i - 1], i)]
           Bad == {k \in 1..n : ~\E g : Is(g, k)}
<1>1. \E g : Is(g, 0)
  <2>1. Is([i \in 0..0 |-> first], 0)
    OBVIOUS
  <2> QED
    BY <2>1
<1>2. Bad = {}
  <2> SUFFICES ASSUME Bad # {}
               PROVE  FALSE
    OBVIOUS
  <2>1. PICK k \in Bad : \A j \in Bad : k <= j
    <3>1. Bad \in SUBSET (1..n)
      OBVIOUS
    <3> HIDE DEF Bad
    <3> QED
      BY <3>1, LeastIn
  <2>2. k \in 1..n /\ ~\E g : Is(g, k)
    OBVIOUS
  <2>3. \E g : Is(g, k - 1)
    <3>1. k - 1 = 0 \/ (k - 1 \in 1..n /\ ~(k <= k - 1))
      BY <2>2
    <3>2. k - 1 \notin Bad
      <4> HIDE DEF Bad
      <4>1. \A j \in Bad : k <= j
        BY <2>1
      <4> QED
        BY <2>2, <4>1 DEF Bad
    <3> QED
      BY <1>1, <3>1, <3>2
  <2>4. PICK g : Is(g, k - 1)
    BY <2>3
  <2> DEFINE G == [i \in 0..k |-> IF i < k THEN g[i] ELSE After(g[k - 1], k)]
  <2>5. ASSUME NEW i \in 0..k
        PROVE  G[i] = IF i = 0 THEN first ELSE After(G[i - 1], i)
    <3> HIDE DEF After
    <3>1. CASE i < k
      <4>1. i \in 0..(k - 1) /\ (i # 0 => i - 1 \in 0..(k - 1) /\ i - 1 \in 0..k /\ i - 1 < k)
        BY <2>2, <3>1
      <4>2. G[i] = g[i] /\ (i # 0 => G[i - 1] = g[i - 1])
        BY <3>1, <4>1
      <4>3. g[i] = IF i = 0 THEN first ELSE After(g[i - 1], i)
        BY <2>4, <4>1
      <4> QED
        BY <4>2, <4>3
    <3>2. CASE i = k
      <4>1. i # 0 /\ i - 1 \in 0..k /\ i - 1 < k /\ ~(k < k)
        BY <2>2, <3>2
      <4>2. G[i] = After(g[k - 1], k) /\ G[i - 1] = g[k - 1]
        BY <3>2, <4>1
      <4> QED
        BY <3>2, <4>1, <4>2
    <3> QED
      BY <2>2, <3>1, <3>2
  <2>6. Is(G, k)
    <3>1. G = [i \in 0..k |-> G[i]]
      OBVIOUS
    <3> HIDE DEF G, After
    <3> QED
      BY <2>5, <3>1
  <2> QED
    BY <2>2, <2>6
<1>3. \E g : Is(g, n)
  <2>1. n = 0 \/ n \in 1..n
    OBVIOUS
  <2>2. n \in 1..n => \E g : Is(g, n)
    BY <1>2
  <2> QED
    BY <1>1, <2>1, <2>2
<1>4. Is(Temps(first, found, n, e), n)
  <2>1. PICK g : Is(g, n)
    BY <1>3
  <2> QED
    BY <2>1 DEF Temps, LostAt, Covered, Entered
<1> HIDE DEF After
<1>5. /\ Temps(first, found, n, e)[0] = first
      /\ \A i \in 1..n : Temps(first, found, n, e)[i]
                            = After(Temps(first, found, n, e)[i - 1], i)
  BY <1>4
<1> QED
  BY <1>5 DEF After

\* Where the i-th message found is written.
PlaceAt(temps, i, e) == IF Covered(e, i) THEN 2 ELSE Len(temps[i - 1]) + 2

\* The contents after i insert(): nothing but what was there first and bodies
\* of the messages found at their places, and never less than before.
Filled(temps, first, found, i, e) ==
    /\ temps[i] \in Seq(Cell)
    /\ \A j \in 0..i : Len(temps[j]) <= Len(temps[i])
    /\ \A p \in 1..Len(temps[i]) : temps[i][p].is = "body"
          => \/ p \in 1..Len(first) /\ temps[i][p] = first[p]
             \/ \E j \in 1..i : /\ found[j] # Phantom
                                /\ p = PlaceAt(temps, j, e)
                                /\ Holds(temps[i][p], found[j])

\* And if no write is lost or goes astray: all of them, in a file that is
\* well-formed.
FilledWhole(temps, found, i, e) ==
    /\ \A j \in 1..i : found[j] # Phantom
          => /\ PlaceAt(temps, j, e) \in 1..Len(temps[i])
             /\ Holds(temps[i][PlaceAt(temps, j, e)], found[j])
    /\ WellFormed(temps[i], TRUE)
    /\ \A p \in 1..Len(temps[i]) : temps[i][p].is = "zero"
          => \E j \in 1..i : found[j] = Phantom

LEMMA TempsStep ==
    ASSUME NEW first \in Seq(Cell), NEW found, NEW temps, NEW i \in Nat, i > 0,
           NEW e, e.unseen \in {{}} \cup Unseen,
           found[i] \in Msg \cup {Phantom},
           temps[i] = Entered(temps[i - 1], found[i], i, e),
           Filled(temps, first, found, i - 1, e)
    PROVE  /\ Filled(temps, first, found, i, e)
           /\ LostAt(e, i) = {} /\ ~Covered(e, i) /\ FilledWhole(temps, found, i - 1, e)
                 => FilledWhole(temps, found, i, e)
<1>1. PICK f \in Seq(Cell) : f = temps[i - 1]
  BY DEF Filled
<1>2. PICK m \in Msg \cup {Phantom} : m = found[i]
  OBVIOUS
<1>3. PICK u \in {{}} \cup Unseen : u = LostAt(e, i)
  BY DEF LostAt
<1>4. PICK g : g = temps[i]
  OBVIOUS
<1>5. ~Covered(e, i) => Adds(f, m, u, g)
  <2>1. ~Covered(e, i) => g = Put(f, m, u)
    BY <1>1, <1>2, <1>3, <1>4 DEF Entered
  <2> QED
    BY <2>1, PutFacts
<1>6. /\ g \in Seq(Cell)
      /\ Len(g) >= Len(f)
      /\ \A p \in 1..Len(g) : g[p].is = "body"
            => \/ p \in 1..Len(f) /\ g[p] = f[p]
               \/ m # Phantom /\ p = PlaceAt(temps, i, e) /\ Holds(g[p], m)
  <2>1. CASE Covered(e, i)
    <3>1. g = Overwrite(f, m)
      BY <1>1, <1>2, <1>4, <2>1 DEF Entered
    <3>2. Covers(f, m, g)
      BY <3>1, OverwriteFacts
    <3> QED
      BY <2>1, <3>2 DEF Covers, PlaceAt
  <2>2. CASE ~Covered(e, i)
    <3>1. Adds(f, m, u, g) /\ PlaceAt(temps, i, e) = Len(f) + 2
      BY <1>1, <1>5, <2>2 DEF PlaceAt
    <3>2. Len(f) \in Nat /\ g \in Seq(Cell) /\ Len(g) \in Nat
      BY <3>1, LenProperties DEF Adds
    <3>3. \A p \in 1..Len(g) : p > Len(f) \/ p \in 1..Len(f)
      BY <3>2
    <3> QED
      BY <3>1, <3>2, <3>3 DEF Adds
  <2> QED
    BY <2>1, <2>2
<1>7. /\ Len(f) \in Nat /\ Len(g) \in Nat /\ Len(first) \in Nat /\ Len(g) >= Len(f)
      /\ \A p \in 1..Len(g) : p > Len(f) \/ p \in 1..Len(f)
  BY <1>6, LenProperties
<1>8. i \in 1..i /\ \A j \in 1..(i - 1) : j \in 1..i
  OBVIOUS
<1>9. Filled(temps, first, found, i, e)
  <2>1. \A j \in 0..i : Len(temps[j]) <= Len(g)
    <3>1. \A j \in 0..(i - 1) : Len(temps[j]) <= Len(f)
      BY <1>1 DEF Filled
    <3>2. ASSUME NEW j \in 0..(i - 1)
          PROVE  Len(temps[j]) <= Len(g)
      <4>1. PICK l : l = Len(temps[j])
        OBVIOUS
      <4>2. l <= Len(f)
        BY <3>1, <4>1
      <4>3. PICK k \in Nat : k = Len(f)
        BY <1>7
      <4> QED
        BY <1>6, <1>7, <4>1, <4>2, <4>3
    <3>3. \A j \in 0..i : j = i \/ j \in 0..(i - 1)
      OBVIOUS
    <3> QED
      BY <1>4, <1>7, <3>2, <3>3
  <2>2. ASSUME NEW p \in 1..Len(g), g[p].is = "body"
        PROVE  \/ p \in 1..Len(first) /\ g[p] = first[p]
               \/ \E j \in 1..i : /\ found[j] # Phantom
                                  /\ p = PlaceAt(temps, j, e)
                                  /\ Holds(g[p], found[j])
    <3>1. CASE p \in 1..Len(f) /\ g[p] = f[p]
      <4>1. \/ p \in 1..Len(first) /\ f[p] = first[p]
            \/ \E j \in 1..(i - 1) : /\ found[j] # Phantom
                                     /\ p = PlaceAt(temps, j, e)
                                     /\ Holds(f[p], found[j])
        BY <1>1, <2>2, <3>1 DEF Filled
      <4> QED
        BY <1>8, <3>1, <4>1
    <3>2. CASE m # Phantom /\ p = PlaceAt(temps, i, e) /\ Holds(g[p], m)
      BY <1>2, <1>8, <3>2
    <3> QED
      BY <1>6, <2>2, <3>1, <3>2
  <2> QED
    BY <1>4, <1>6, <2>1, <2>2 DEF Filled
<1>10. ASSUME u = {}, ~Covered(e, i), FilledWhole(temps, found, i - 1, e)
       PROVE  FilledWhole(temps, found, i, e)
  <2> DEFINE At(j) == PlaceAt(temps, j, e)
  <2>1. Adds(f, m, u, g) /\ At(i) = Len(f) + 2
    BY <1>1, <1>5, <1>10 DEF PlaceAt
  <2>2. \A p \in 1..Len(f) : g[p] = f[p]
    BY <2>1 DEF Adds
  <2> HIDE DEF At
  <2>3. /\ m # Phantom => /\ Len(g) = Len(f) + 2
                          /\ g[Len(f) + 1] = Length
                          /\ Holds(g[Len(f) + 2], m)
        /\ m = Phantom => Len(g) = Len(f) + 1 /\ g[Len(f) + 1] = Zero
    BY <1>10, <2>1 DEF Adds
  <2>4. Length.is = "length" /\ Zero.is = "zero"
    BY CellFacts
  <2>5. Size(f) = Len(f) /\ Size(g) = Len(g)
    BY <1>1, <1>6, SeqFacts
  <2>6. ASSUME NEW j \in 1..i, found[j] # Phantom
        PROVE  At(j) \in 1..Len(g) /\ Holds(g[At(j)], found[j])
    <3>1. CASE j \in 1..(i - 1)
      <4>1. At(j) \in 1..Len(f) /\ Holds(f[At(j)], found[j])
        BY <1>1, <1>10, <2>6, <3>1 DEF FilledWhole, At
      <4> QED
        BY <2>2, <1>7, <4>1
    <3>2. CASE j = i
      <4>1. At(i) = Len(f) + 2 /\ Len(g) = Len(f) + 2 /\ Holds(g[Len(f) + 2], m)
        BY <1>2, <2>1, <2>3, <2>6, <3>2
      <4> QED
        BY <1>2, <1>7, <3>2, <4>1
    <3> QED
      BY <3>1, <3>2
  <2>7. WellFormed(f, TRUE)
    BY <1>1, <1>10 DEF FilledWhole, At
  <2>8. WellFormed(g, TRUE)
    <3> SUFFICES ASSUME NEW p \in 1..Len(g)
                 PROVE  /\ g[p].is = "body" => p > 1 /\ g[p - 1].is = "length"
                        /\ g[p].is = "length" => p < Len(g) /\ g[p + 1].is = "body"
      BY <2>5 DEF WellFormed
    <3>1. CASE p \in 1..Len(f)
      <4>1. /\ f[p].is = "body" => p > 1 /\ f[p - 1].is = "length"
            /\ f[p].is = "length" => p < Len(f) /\ f[p + 1].is = "body"
        BY <2>5, <2>7, <3>1 DEF WellFormed
      <4>2. g[p] = f[p] /\ (p > 1 => g[p - 1] = f[p - 1]) /\ (p < Len(f) => g[p + 1] = f[p + 1])
        <5>1. (p > 1 => p - 1 \in 1..Len(f)) /\ (p < Len(f) => p + 1 \in 1..Len(f))
          BY <1>7, <3>1
        <5> QED
          BY <2>2, <3>1, <5>1
      <4>3. p < Len(f) => p < Len(g)
        BY <2>2, <1>7
      <4> QED
        BY <4>1, <4>2, <4>3
    <3>2. CASE p > Len(f) /\ m # Phantom
      <4>1. p = Len(f) + 1 \/ p = Len(f) + 2
        BY <1>7, <2>3, <3>2
      <4>2. g[Len(f) + 1].is = "length" /\ g[Len(f) + 2].is = "body" /\ Len(g) = Len(f) + 2
        BY <2>3, <2>4, <3>2 DEF Holds
      <4>3. (Len(f) + 2) - 1 = Len(f) + 1 /\ (Len(f) + 1) + 1 = Len(f) + 2
            /\ Len(f) + 1 < Len(f) + 2 /\ Len(f) + 2 > 1
        BY <1>7
      <4>4. CASE p = Len(f) + 1
        BY <4>2, <4>3, <4>4
      <4>5. CASE p = Len(f) + 2
        BY <4>2, <4>3, <4>5
      <4> QED
        BY <4>1, <4>4, <4>5
    <3>3. CASE p > Len(f) /\ m = Phantom
      <4>1. p = Len(f) + 1
        BY <1>7, <2>3, <3>3
      <4> QED
        BY <2>3, <2>4, <3>3, <4>1
    <3> QED
      BY <1>7, <3>1, <3>2, <3>3
  <2>9. ASSUME NEW p \in 1..Len(g), g[p].is = "zero"
        PROVE  \E j \in 1..i : found[j] = Phantom
    <3>1. CASE p \in 1..Len(f)
      <4>1. f[p].is = "zero"
        BY <2>2, <2>9, <3>1
      <4>2. PICK j \in 1..(i - 1) : found[j] = Phantom
        BY <1>1, <1>10, <3>1, <4>1 DEF FilledWhole, At
      <4> QED
        BY <1>8, <4>2
    <3>2. CASE p > Len(f) /\ m # Phantom
      <4>1. p = Len(f) + 1 \/ p = Len(f) + 2
        BY <1>7, <2>3, <3>2
      <4> QED
        BY <2>3, <2>4, <2>9, <3>2, <4>1 DEF Holds
    <3>3. CASE m = Phantom
      BY <1>2, <1>8, <3>3
    <3> QED
      BY <1>7, <3>1, <3>2, <3>3
  <2>10. \A j \in 1..i : found[j] # Phantom
             => /\ PlaceAt(temps, j, e) \in 1..Len(temps[i])
                /\ Holds(temps[i][PlaceAt(temps, j, e)], found[j])
    BY <1>4, <2>6 DEF At
  <2> QED
    BY <1>4, <2>8, <2>9, <2>10 DEF FilledWhole
<1> QED
  BY <1>3, <1>9, <1>10

LEMMA TempsFacts ==
    ASSUME NEW first \in Seq(Cell), NEW found \in Seq(Msg \cup {Phantom}),
           NEW n \in Nat, n <= Len(found), NEW e, e.unseen \in {{}} \cup Unseen,
           NEW temps, temps = Temps(first, found, n, e)
    PROVE  /\ \A i \in 0..n : Filled(temps, first, found, i, e)
           /\ first = <<>> /\ e.call \notin {"writeTemp", "statTemp"}
                 => \A i \in 0..n : FilledWhole(temps, found, i, e)
<1>1. temps[0] = first /\ \A i \in 1..n : temps[i] = Entered(temps[i - 1], found[i], i, e)
  BY TempsDef
<1>2. \A i \in 1..n : found[i] \in Msg \cup {Phantom}
  BY LenProperties, ElementOfSeq
<1>3. ASSUME NEW i \in 1..n, Filled(temps, first, found, i - 1, e)
      PROVE  /\ Filled(temps, first, found, i, e)
             /\ LostAt(e, i) = {} /\ ~Covered(e, i) /\ FilledWhole(temps, found, i - 1, e)
                   => FilledWhole(temps, found, i, e)
  <2>1. i \in Nat /\ i > 0 /\ found[i] \in Msg \cup {Phantom}
        /\ temps[i] = Entered(temps[i - 1], found[i], i, e)
    BY <1>1, <1>2
  <2> QED
    BY <1>3, <2>1, TempsStep
<1>4. Filled(temps, first, found, 0, e)
  BY <1>1, LenProperties DEF Filled
<1>5. \A i \in 0..n : Filled(temps, first, found, i, e)
  <2> DEFINE Bad == {i \in 1..n : ~Filled(temps, first, found, i, e)}
  <2>1. Bad \in SUBSET (1..n)
    OBVIOUS
  <2>2. \A i \in 1..n : i \notin Bad => Filled(temps, first, found, i, e)
    OBVIOUS
  <2>3. \A i \in Bad : ~Filled(temps, first, found, i, e)
    OBVIOUS
  <2> HIDE DEF Bad
  <2>4. CASE Bad # {}
    <3>1. PICK i \in Bad : \A j \in Bad : i <= j
      BY <2>1, <2>4, LeastIn
    <3>2. i \in 1..n /\ (i - 1 = 0 \/ (i - 1 \in 1..n /\ ~(i <= i - 1)))
      BY <2>1
    <3>3. Filled(temps, first, found, i - 1, e)
      BY <1>4, <2>2, <3>1, <3>2
    <3> QED
      BY <1>3, <2>3, <3>2, <3>3
  <2>5. CASE Bad = {}
    <3>1. \A i \in 0..n : i = 0 \/ i \in 1..n
      OBVIOUS
    <3> QED
      BY <1>4, <2>2, <2>5, <3>1
  <2> QED
    BY <2>4, <2>5
<1>6. ASSUME first = <<>>, e.call \notin {"writeTemp", "statTemp"}
      PROVE  \A i \in 0..n : FilledWhole(temps, found, i, e)
  <2> DEFINE Bad == {i \in 1..n : ~FilledWhole(temps, found, i, e)}
  <2>1. Bad \in SUBSET (1..n)
    OBVIOUS
  <2>2. \A i \in 1..n : i \notin Bad => FilledWhole(temps, found, i, e)
    OBVIOUS
  <2>3. \A i \in Bad : ~FilledWhole(temps, found, i, e)
    OBVIOUS
  <2> HIDE DEF Bad
  <2>4. FilledWhole(temps, found, 0, e)
    <3>1. temps[0] = first /\ Len(first) = 0 /\ Size(first) = 0
      BY <1>1, <1>6, SeqFacts
    <3> QED
      BY <3>1 DEF FilledWhole, WellFormed
  <2>5. CASE Bad # {}
    <3>1. PICK i \in Bad : \A j \in Bad : i <= j
      BY <2>1, <2>5, LeastIn
    <3>2. i \in 1..n /\ (i - 1 = 0 \/ (i - 1 \in 1..n /\ ~(i <= i - 1))) /\ i - 1 \in 0..n
      BY <2>1
    <3>3. FilledWhole(temps, found, i - 1, e)
      BY <2>2, <2>4, <3>1, <3>2
    <3>4. LostAt(e, i) = {} /\ ~Covered(e, i)
      BY <1>6 DEF LostAt, Covered
    <3> QED
      BY <1>3, <1>5, <2>3, <3>2, <3>3, <3>4
  <2>6. CASE Bad = {}
    <3>1. \A i \in 0..n : i = 0 \/ i \in 1..n
      OBVIOUS
    <3> QED
      BY <2>2, <2>4, <2>6, <3>1
  <2> QED
    BY <2>5, <2>6
<1> QED
  BY <1>5, <1>6

\* The bodies in its temporary file are those of messages found, each at the
\* place of that message.
OnlyFound(c) ==
    \A p \in 1..Size(c.temp) : c.temp[p].is = "body"
       => \E k \in DOMAIN c.found : /\ c.found[k] # Phantom
                                    /\ p = c.place[k]
                                    /\ Holds(c.temp[p], c.found[k])

\* All messages found are there, in a file that is well-formed.
AllFound(c) ==
    /\ \A k \in DOMAIN c.found : c.found[k] # Phantom
          => c.place[k] \in 1..Size(c.temp) /\ Holds(c.temp[c.place[k]], c.found[k])
    /\ WellFormed(c.temp, TRUE)
    /\ \A p \in 1..Size(c.temp) : c.temp[p].is = "zero"
          => \E k \in DOMAIN c.found : c.found[k] = Phantom

\* What a collection c of f finds and where it puts it.
Collected(f, e, c) ==
    /\ c.found \in Seq(Msg \cup {Phantom})
    /\ c.place \in [DOMAIN c.found -> Nat]
    /\ \A k \in DOMAIN c.found : c.found[k] # Phantom => c.found[k] \in KeptIn(f)
    /\ Unique(f) => \A k, l \in DOMAIN c.found :
          c.found[k] = c.found[l] /\ c.found[k] # Phantom => k = l
    /\ c.temp \in c.images
    /\ e.call \notin {"createTemp", "openTemp"} => c.complete
    /\ e.call # "createTemp" => c.temp \in Seq(Cell)
    /\ ~TooLong(c.temp) /\ e.call # "createTemp" => OnlyFound(c)
    /\ ~TooLong(c.temp) /\ e.call \notin {"createTemp", "openTemp", "writeTemp", "statTemp"}
          => AllFound(c)

LEMMA CollectionFacts ==
    ASSUME NEW f \in File, NEW e \in Calls(f), tempfile \in File,
           NEW S, BodiesOf(f, S), BodiesOf(tempfile, S),
           NEW c, c = Collection(f, e)
    PROVE  /\ c.found = Live(Read(f, e.call, e.at))
           /\ Collected(f, e, c)
           /\ \A t \in c.images : t \in File /\ BodiesOf(t, S)
<1> DEFINE found == Live(Read(f, e.call, e.at))
           first == IF e.call = "createTemp" THEN tempfile ELSE <<>>
           n     == IF first = NoFile THEN 0
                    ELSE IF e.call = "openTemp" THEN e.at - 1 ELSE Len(found)
           temps == Temps(first, found, n, e)
           seen  == [i \in 1..n |-> IF Covered(e, i) THEN <<>> ELSE temps[i - 1]]
<1>1. /\ c.found = found
      /\ c.place = [i \in DOMAIN found |-> IF i <= n THEN PlaceIn(seen[i]) ELSE 0]
      /\ c.images = {temps[i] : i \in 0..n}
      /\ c.temp = temps[n]
      /\ c.complete = (n = Len(found))
  BY DEF Collection, Covered
<1>2. /\ found \in Seq(Msg \cup {Phantom})
      /\ \A k \in DOMAIN found : found[k] # Phantom => found[k] \in KeptIn(f)
      /\ Unique(f) => \A k, l \in DOMAIN found :
            found[k] = found[l] /\ found[k] # Phantom => k = l
  BY FoundFacts
<1>3. Len(found) \in Nat /\ DOMAIN found = 1..Len(found)
  BY <1>2, LenProperties
<1>4. <<>> \in Seq(Cell) /\ <<>> # NoFile /\ Len(<<>>) = 0
  <2>1. <<>> \in Seq(Cell)
    OBVIOUS
  <2> QED
    BY <2>1, Constants
<1>5. first \in File /\ (e.call # "createTemp" => first = <<>>)
  BY <1>4 DEF File
<1>6. n \in 0..Len(found) /\ (first # NoFile /\ e.call # "openTemp" => n = Len(found))
  <2>1. e.call = "openTemp" => e.at \in 1..Len(found)
    <3>1. e.call = "openTemp" => Read(f, e.call, e.at) = Records(f)
      BY DEF Read
    <3> QED
      BY <3>1, FailureFacts
  <2> HIDE DEF found, first
  <2> QED
    BY <1>3, <2>1
<1>7. BodiesOf(first, S)
  <2>1. CASE e.call = "createTemp"
    BY <2>1
  <2>2. CASE e.call # "createTemp"
    <3>1. Size(first) = 0
      BY <1>4, <1>5, <2>2 DEF Size
    <3> QED
      BY <3>1 DEF BodiesOf
  <2> QED
    BY <2>1, <2>2
<1> HIDE DEF found, first
<1>8. first = NoFile => n = 0
  OBVIOUS
<1> HIDE DEF n
<1>9. n \in Nat /\ n <= Len(found)
  <2>1. Len(found) \in Nat
    BY <1>3
  <2>2. n \in 0..Len(found)
    BY <1>6
  <2> QED
    BY <2>1, <2>2
<1>10. temps[0] = first
  BY <1>9, TempsDef, ZenonT(60)
<1>11. first \in Seq(Cell) => \A i \in 0..n : Filled(temps, first, found, i, e)
  BY <1>2, <1>9, FailureFacts, TempsFacts
<1>12. first = <<>> /\ e.call \notin {"writeTemp", "statTemp"}
          => \A i \in 0..n : FilledWhole(temps, found, i, e)
  BY <1>2, <1>4, <1>9, FailureFacts, TempsFacts
<1>13. \A i \in 1..n : seen[i] = IF Covered(e, i) THEN <<>> ELSE temps[i - 1]
  OBVIOUS
<1> HIDE DEF temps, seen
<1>14. found \in Seq(Msg \cup {Phantom}) /\ \A k \in DOMAIN found : found[k] # Phantom => found[k] \in S
  <2>1. ASSUME NEW k \in DOMAIN found, found[k] # Phantom
        PROVE  found[k] \in S
    <3>1. PICK p \in ValidBodies(f) : f[p].msg = found[k]
      BY <1>2, <2>1 DEF KeptIn
    <3> QED
      BY <3>1 DEF ValidBodies, BodiesOf
  <2> QED
    BY <1>2, <2>1
<1>15. ASSUME NEW i \in 0..n
       PROVE  /\ temps[i] \in File /\ BodiesOf(temps[i], S)
              /\ first # NoFile => temps[i] \in Seq(Cell)
  <2>1. CASE first = NoFile
    <3>1. i = 0
      BY <1>8, <2>1
    <3> QED
      BY <1>5, <1>7, <1>10, <2>1, <3>1
  <2>2. CASE first # NoFile
    <3>1. first \in Seq(Cell)
      BY <1>5, <2>2 DEF File
    <3>2. Filled(temps, first, found, i, e)
      BY <1>11, <3>1
    <3>3. temps[i] \in Seq(Cell) /\ Size(temps[i]) = Len(temps[i]) /\ Len(temps[i]) \in Nat
      BY <3>2, SeqFacts DEF Filled
    <3>4. Size(first) = Len(first) /\ Len(first) \in Nat
      BY <3>1, SeqFacts
    <3>5. ASSUME NEW p \in 1..Len(temps[i]), temps[i][p].is = "body"
          PROVE  temps[i][p].msg \in S
      <4>1. CASE p \in 1..Len(first) /\ temps[i][p] = first[p]
        BY <1>7, <3>4, <3>5, <4>1 DEF BodiesOf
      <4>2. CASE \E j \in 1..i : found[j] # Phantom /\ Holds(temps[i][p], found[j])
        <5>1. PICK j \in 1..i : found[j] # Phantom /\ Holds(temps[i][p], found[j])
          BY <4>2
        <5>2. j \in DOMAIN found
          BY <1>3, <1>9
        <5> QED
          BY <1>14, <5>1, <5>2 DEF Holds
      <4> QED
        BY <3>2, <3>5, <4>1, <4>2 DEF Filled
    <3> QED
      BY <3>3, <3>5 DEF BodiesOf, File
  <2> QED
    BY <2>1, <2>2
<1>16. \A i \in 1..n : seen[i] \in File
  <2> SUFFICES ASSUME NEW i \in 1..n
               PROVE  seen[i] \in File
    OBVIOUS
  <2>1. i - 1 \in 0..n
    BY <1>9
  <2>2. temps[i - 1] \in File
    BY <1>15, <2>1
  <2>3. <<>> \in File
    BY <1>4 DEF File
  <2> QED
    BY <1>13, <2>2, <2>3
<1>17. /\ c.place \in [DOMAIN c.found -> Nat]
       /\ c.temp \in c.images
       /\ e.call \notin {"createTemp", "openTemp"} => c.complete
       /\ e.call # "createTemp" => c.temp \in Seq(Cell)
  <2>1. c.place \in [DOMAIN found -> Nat]
    <3>1. ASSUME NEW i \in DOMAIN found, i <= n
          PROVE  PlaceIn(seen[i]) \in Nat
      <4>1. i \in 1..n
        BY <1>3, <1>9, <3>1
      <4> QED
        BY <1>16, <4>1, PlaceInFacts
    <3> QED
      BY <1>1, <3>1
  <2>2. c.temp \in c.images
    <3>1. n \in 0..n
      BY <1>9
    <3> QED
      BY <1>1, <3>1
  <2>3. e.call \notin {"createTemp", "openTemp"} => c.complete
    BY <1>1, <1>4, <1>5, <1>6
  <2>4. e.call # "createTemp" => c.temp \in Seq(Cell)
    BY <1>1, <1>4, <1>5, <1>9, <1>15
  <2> QED
    BY <1>1, <2>1, <2>2, <2>3, <2>4
\* The places given are those written to, if the file stays short.
<1>18. ASSUME ~TooLong(c.temp), e.call # "createTemp", NEW j \in 1..n
       PROVE  c.place[j] = PlaceAt(temps, j, e)
  <2>1. first = <<>> /\ Filled(temps, first, found, n, e)
    <3>1. n \in 0..n
      BY <1>9
    <3> QED
      BY <1>4, <1>5, <1>11, <1>18, <3>1
  <2>2. j \in DOMAIN found /\ j <= n /\ j - 1 \in 0..n
    BY <1>3, <1>9
  <2>3. c.place[j] = PlaceIn(seen[j])
    BY <1>1, <2>2
  <2>4. CASE Covered(e, j)
    BY <1>13, <2>3, <2>4, PlaceInEmpty DEF PlaceAt
  <2>5. CASE ~Covered(e, j)
    <3>1. PICK f1 \in Seq(Cell) : f1 = temps[j - 1] /\ Len(f1) <= Len(temps[n])
      BY <1>4, <1>15, <2>1, <2>2 DEF Filled
    <3>2. PICK fn \in Seq(Cell) : fn = c.temp /\ fn = temps[n]
      BY <1>1, <2>1 DEF Filled
    <3>3. /\ Size(f1) = Len(f1) /\ Len(f1) \in Nat /\ f1 \in File
          /\ Size(fn) = Len(fn) /\ Len(fn) \in Nat
      BY SeqFacts
    <3>4. ~TooLong(f1)
      BY <1>18, <3>1, <3>2, <3>3, MessageFileAssumption DEF TooLong
    <3>5. PlaceIn(f1) = Len(f1) + 2
      BY <3>3, <3>4, PlaceInFacts
    <3> QED
      BY <1>13, <2>3, <2>5, <3>1, <3>5 DEF PlaceAt
  <2> QED
    BY <2>4, <2>5
<1>19. ASSUME ~TooLong(c.temp), e.call # "createTemp"
       PROVE  OnlyFound(c)
  <2>1. first = <<>> /\ Filled(temps, first, found, n, e)
    <3>1. n \in 0..n
      BY <1>9
    <3> QED
      BY <1>4, <1>5, <1>11, <1>19, <3>1
  <2>2. c.temp \in Seq(Cell) /\ Size(c.temp) = Len(c.temp) /\ Len(c.temp) \in Nat
    BY <1>1, <2>1, SeqFacts DEF Filled
  <2>3. ASSUME NEW p \in 1..Size(c.temp), c.temp[p].is = "body"
        PROVE  \E k \in DOMAIN c.found : /\ c.found[k] # Phantom
                                         /\ p = c.place[k]
                                         /\ Holds(c.temp[p], c.found[k])
    <3>1. p \notin 1..Len(first) /\ p \in 1..Len(temps[n])
      BY <1>1, <1>4, <2>1, <2>2
    <3>2. PICK j \in 1..n : /\ found[j] # Phantom
                            /\ p = PlaceAt(temps, j, e)
                            /\ Holds(temps[n][p], found[j])
      BY <1>1, <2>1, <2>3, <3>1 DEF Filled
    <3>3. j \in DOMAIN found /\ j <= n
      BY <1>3, <1>9
    <3>4. c.place[j] = PlaceAt(temps, j, e)
      BY <1>18, <1>19
    <3> QED
      BY <1>1, <3>2, <3>3, <3>4
  <2> QED
    BY <2>3 DEF OnlyFound
<1>20. ASSUME ~TooLong(c.temp),
              e.call \notin {"createTemp", "openTemp", "writeTemp", "statTemp"}
       PROVE  AllFound(c)
  <2>1. first = <<>> /\ FilledWhole(temps, found, n, e) /\ n = Len(found)
    BY <1>4, <1>5, <1>6, <1>9, <1>12, <1>20
  <2>2. c.temp \in Seq(Cell) /\ Size(c.temp) = Len(c.temp)
    <3>1. c.temp \in Seq(Cell)
      BY <1>1, <1>4, <1>9, <1>15, <2>1
    <3> QED
      BY <3>1, SeqFacts
  <2>3. \A k \in DOMAIN found : k \in 1..n /\ c.place[k] = PlaceAt(temps, k, e)
    BY <1>3, <1>18, <1>20, <2>1
  <2>4. \A k \in DOMAIN c.found : c.found[k] # Phantom
          => c.place[k] \in 1..Size(c.temp) /\ Holds(c.temp[c.place[k]], c.found[k])
    BY <1>1, <2>1, <2>2, <2>3 DEF FilledWhole
  <2>5. WellFormed(c.temp, TRUE)
    BY <1>1, <2>1 DEF FilledWhole
  <2>6. \A p \in 1..Size(c.temp) : c.temp[p].is = "zero"
          => \E k \in DOMAIN c.found : c.found[k] = Phantom
    BY <1>1, <1>3, <2>1, <2>2 DEF FilledWhole
  <2> QED
    BY <2>4, <2>5, <2>6 DEF AllFound
<1>21. Collected(f, e, c)
  BY <1>1, <1>2, <1>17, <1>19, <1>20, Zenon DEF Collected
<1>22. \A t \in c.images : t \in File /\ BodiesOf(t, S)
  BY <1>1, <1>15
<1> QED
  BY <1>1, <1>21, <1>22 DEF found
-----------------------------------------------------------------------------
(* The list, and the objects a collection makes.                           *)

LEMMA EmptyList == <<>> \in Seq(Objects) /\ Range(<<>>) = {} /\ DOMAIN <<>> = {}
  BY DEF Range

LEMMA RangeFacts ==
    ASSUME NEW S, NEW s \in Seq(S)
    PROVE  /\ \A i \in DOMAIN s : s[i] \in Range(s) /\ s[i] \in S
           /\ Range(s) \in SUBSET S
           /\ IsFiniteSet(Range(s))
<1>1. \A i \in DOMAIN s : s[i] \in Range(s) /\ s[i] \in S
  BY ElementOfSeq, LenProperties DEF Range
<1>2. Range(s) \in SUBSET S
  BY <1>1 DEF Range
<1>3. Len(s) \in Nat /\ DOMAIN s = 1..Len(s) /\ s = [i \in DOMAIN s |-> s[i]]
  BY LenProperties
<1>4. s \in Surjection(1..Len(s), Range(s))
  <2>1. s \in [DOMAIN s -> Range(s)]
    BY <1>1, <1>3
  <2>2. \A x \in Range(s) : \E i \in DOMAIN s : s[i] = x
    BY DEF Range
  <2>3. DOMAIN s = 1..Len(s)
    BY <1>3
  <2>4. s \in [1..Len(s) -> Range(s)] /\ \A x \in Range(s) : \E i \in 1..Len(s) : s[i] = x
    BY <2>1, <2>2, <2>3, Zenon
  <2> QED
    BY <2>4, Zenon DEF Surjection
<1>5. IsFiniteSet(1..Len(s))
  <2>1. Len(s) \in Int /\ 1 \in Int
    BY <1>3
  <2> QED
    BY <2>1, FS_Interval
<1>6. IsFiniteSet(Range(s))
  BY <1>4, <1>5, FS_Surjection
<1> QED
  BY <1>1, <1>2, <1>6

\* t is x after s.
Extends(s, x, t) ==
    /\ Range(t) = Range(s) \cup {x}
    /\ DOMAIN t = DOMAIN s \cup {Len(s) + 1}
    /\ Len(s) + 1 \notin DOMAIN s
    /\ \A i \in DOMAIN s : t[i] = s[i]
    /\ t[Len(s) + 1] = x

LEMMA AppendedList ==
    ASSUME NEW S, NEW s \in Seq(S), NEW x \in S, NEW t, t = Append(s, x)
    PROVE  t \in Seq(S) /\ Extends(s, x, t)
<1>1. t \in Seq(S) /\ Len(t) = Len(s) + 1 /\ Len(s) \in Nat
  BY AppendProperties, LenProperties
<1>2. (\A i \in 1..Len(s) : t[i] = s[i]) /\ t[Len(s) + 1] = x
  BY AppendProperties
<1>3. DOMAIN s = 1..Len(s) /\ DOMAIN t = 1..Len(t)
  BY <1>1, LenProperties
<1>4. DOMAIN t = DOMAIN s \cup {Len(s) + 1} /\ Len(s) + 1 \notin DOMAIN s
  BY <1>1, <1>3
<1>5. \A i \in DOMAIN s : t[i] = s[i]
  BY <1>2, <1>3
<1>6. Range(t) = Range(s) \cup {x}
  BY <1>2, <1>4, <1>5 DEF Range
<1> QED
  BY <1>1, <1>2, <1>4, <1>5, <1>6 DEF Extends

LEMMA TailList ==
    ASSUME NEW S, NEW s \in Seq(S), s # <<>>
    PROVE  /\ Head(s) \in S
           /\ 1 \in DOMAIN s /\ s[1] = Head(s)
           /\ Tail(s) \in Seq(S)
           /\ \A i \in DOMAIN Tail(s) : i + 1 \in DOMAIN s /\ i + 1 # 1 /\ Tail(s)[i] = s[i + 1]
           /\ \A i \in DOMAIN s : i # 1 => i - 1 \in DOMAIN Tail(s) /\ Tail(s)[i - 1] = s[i]
           /\ Range(s) = Range(Tail(s)) \cup {Head(s)}
<1>1. /\ Head(s) \in S
      /\ Tail(s) \in Seq(S)
      /\ Len(Tail(s)) = Len(s) - 1
      /\ \A i \in 1..Len(Tail(s)) : Tail(s)[i] = s[i + 1]
  BY HeadTailProperties
<1>2. /\ Len(s) \in Nat /\ Len(s) > 0 /\ s[1] = Head(s)
      /\ DOMAIN s = 1..Len(s) /\ DOMAIN Tail(s) = 1..(Len(s) - 1)
  BY <1>1, LenProperties, EmptySeq
<1>3. 1 \in DOMAIN s
  BY <1>2
<1>4. \A i \in DOMAIN Tail(s) : i + 1 \in DOMAIN s /\ i + 1 # 1 /\ Tail(s)[i] = s[i + 1]
  BY <1>1, <1>2
<1>5. \A i \in DOMAIN s : i # 1 => i - 1 \in DOMAIN Tail(s) /\ Tail(s)[i - 1] = s[i]
  BY <1>1, <1>2
<1>6. Range(s) = Range(Tail(s)) \cup {Head(s)}
  <2>1. \A x : x \in Range(s) => x \in Range(Tail(s)) \/ x = Head(s)
    BY <1>2, <1>5, ZenonT(60) DEF Range
  <2>2. \A x : x \in Range(Tail(s)) \/ x = Head(s) => x \in Range(s)
    BY <1>2, <1>3, <1>4 DEF Range
  <2> QED
    BY <2>1, <2>2, Zenon
<1> QED
  BY <1>1, <1>2, <1>3, <1>4, <1>5, <1>6

\* t is r after s.
Joins(s, r, t) ==
    /\ \A i \in DOMAIN t : \/ i \in DOMAIN s /\ t[i] = s[i]
                           \/ i - Len(s) \in DOMAIN r /\ t[i] = r[i - Len(s)]
    /\ \A i, j \in DOMAIN t : i - Len(s) = j - Len(s) => i = j
    /\ Range(t) = Range(s) \cup Range(r)

LEMMA JoinedList ==
    ASSUME NEW S, NEW s \in Seq(S), NEW r \in Seq(S), NEW t, t = s \o r
    PROVE  t \in Seq(S) /\ Joins(s, r, t)
<1>1. /\ t \in Seq(S) /\ Len(t) = Len(s) + Len(r)
      /\ \A i \in 1..(Len(s) + Len(r)) : t[i] = IF i <= Len(s) THEN s[i] ELSE r[i - Len(s)]
  BY ConcatProperties
<1>2. /\ Len(s) \in Nat /\ Len(r) \in Nat
      /\ DOMAIN s = 1..Len(s) /\ DOMAIN r = 1..Len(r) /\ DOMAIN t = 1..(Len(s) + Len(r))
  BY <1>1, LenProperties
<1>3. \A i \in DOMAIN t : \/ i \in DOMAIN s /\ t[i] = s[i]
                          \/ i - Len(s) \in DOMAIN r /\ t[i] = r[i - Len(s)]
  BY <1>1, <1>2
<1>4. \A i \in DOMAIN s : i \in DOMAIN t /\ t[i] = s[i]
  BY <1>1, <1>2
<1>5. \A i \in DOMAIN r : i + Len(s) \in DOMAIN t /\ t[i + Len(s)] = r[i]
  BY <1>1, <1>2
<1>6. \A i, j \in DOMAIN t : i - Len(s) = j - Len(s) => i = j
  BY <1>2
<1>7. Range(t) = Range(s) \cup Range(r)
  <2>1. \A x : x \in Range(t) => x \in Range(s) \/ x \in Range(r)
    BY <1>3, ZenonT(60) DEF Range
  <2>2. \A x : x \in Range(s) \/ x \in Range(r) => x \in Range(t)
    BY <1>4, <1>5, ZenonT(60) DEF Range
  <2> QED
    BY <2>1, <2>2, Zenon
<1> QED
  BY <1>1, <1>3, <1>6, <1>7 DEF Joins

LEMMA FreshFacts ==
    ASSUME TypeOK, NEW m \in Msg \cup {Phantom}
    PROVE  Fresh(m) \in Objects /\ Fresh(m).msg = m
<1> DEFINE used == {o \in Range(msgs) \cup waitack : o.msg = m}
           N == Cardinality(used)
           Free(n) == Object(m, n) \notin used
                      /\ \A k \in 0..(n - 1) : Object(m, k) \in used
<1>1. IsFiniteSet(used) /\ N \in Nat
  <2>1. IsFiniteSet(Range(msgs)) /\ IsFiniteSet(waitack)
    BY RangeFacts DEF TypeOK
  <2>2. IsFiniteSet(Range(msgs) \cup waitack)
    BY <2>1, FS_Union
  <2>3. used \in SUBSET (Range(msgs) \cup waitack)
    OBVIOUS
  <2>4. IsFiniteSet(used)
    BY <2>2, <2>3, FS_Subset
  <2> QED
    BY <2>4, FS_CardinalityType
<1> HIDE DEF N
<1>2. \E n \in 0..N : Object(m, n) \notin used
  <2> SUFFICES ASSUME \A n \in 0..N : Object(m, n) \in used
               PROVE  FALSE
    OBVIOUS
  <2> DEFINE g == [n \in 0..N |-> Object(m, n)]
  <2>1. g \in [0..N -> used]
    OBVIOUS
  <2>2. IsFiniteSet(0..N) /\ Cardinality(0..N) = N + 1
    BY <1>1, FS_Interval
  <2>3. \A x, y \in 0..N : g[x] = g[y] => x = y
    BY DEF Object
  <2> HIDE DEF g, used
  <2>4. Cardinality(used) < Cardinality(0..N)
    BY <1>1, <2>2 DEF N
  <2> QED
    BY <1>1, <2>1, <2>2, <2>3, <2>4, FS_PigeonHole
<1> HIDE DEF used
<1>3. \E n \in 0..N : Free(n)
  <2> DEFINE I == {i \in 1..(N + 1) : Object(m, i - 1) \notin used}
  <2>1. I \in SUBSET (1..(N + 1))
    OBVIOUS
  <2>2. \A n \in 0..N : Object(m, n) \notin used => n + 1 \in I
    <3> SUFFICES ASSUME NEW n \in 0..N, Object(m, n) \notin used
                 PROVE  n + 1 \in I
      OBVIOUS
    <3>1. (n + 1) - 1 = n /\ n + 1 \in 1..(N + 1)
      BY <1>1
    <3> QED
      BY <3>1
  <2>3. \A i \in I : Object(m, i - 1) \notin used
    OBVIOUS
  <2> HIDE DEF I
  <2>4. PICK i \in I : \A j \in I : i <= j
    <3>1. I # {} /\ N + 1 \in Nat
      BY <1>1, <1>2, <2>2
    <3> QED
      BY <2>1, <3>1, LeastIn
  <2>5. i - 1 \in 0..N
    BY <1>1, <2>1
  <2>6. ASSUME NEW k \in 0..((i - 1) - 1)
        PROVE  Object(m, k) \in used
    <3>1. k \in 0..N /\ ~(i <= k + 1)
      BY <1>1, <2>1, <2>5
    <3> QED
      BY <2>2, <2>4, <3>1
  <2> QED
    BY <2>3, <2>5, <2>6
<1>4. Fresh(m) = Object(m, CHOOSE n \in 0..N : Free(n))
  BY DEF Fresh, N, used
<1> HIDE DEF Free
<1>5. (CHOOSE n \in 0..N : Free(n)) \in Nat
  BY <1>1, <1>3
<1> QED
  BY <1>4, <1>5 DEF Object, Objects
-----------------------------------------------------------------------------
(* The files around a collection.                                          *)

\* The record of an object is cut out of the file, or is not: f is what the
\* file was, but for the body at the offset.
LEMMA MarkedFacts ==
    ASSUME TypeOK, Bounds, NEW o \in waitack, o.msg # Phantom,
           NEW f, f \in {Marked(o), datafile}
    PROVE  /\ f \in File
           /\ BodiesOf(f, offered)
           /\ \A p \in ValidBodies(f) : p \in ValidBodies(datafile) /\ f[p] = datafile[p]
           /\ \A p \in ValidBodies(datafile) : p # offset[o] => p \in ValidBodies(f)
           /\ f = Marked(o) => offset[o] \notin ValidBodies(f)
           /\ f = datafile \/ offset[o] \notin ValidBodies(f)
           /\ offset[o] \in ValidBodies(datafile)
                 => /\ Size(f) = Size(datafile)
                    /\ \A p \in 1..Size(f) : f[p].is = datafile[p].is
<1>1. datafile \in File /\ BodiesOf(datafile, offered)
  BY DEF TypeOK, Bounds
<1>2. o \in DOMAIN offset /\ offset[o] \in Nat
  BY DEF TypeOK, InMemory
<1>3. o.msg \in offered /\ o.msg \in Msg
  BY DEF Bounds, TypeOK, InMemory
<1>4. 0 \notin ValidBodies(f) /\ (datafile = NoFile => ValidBodies(datafile) = {})
  BY <1>1, FileFacts DEF ValidBodies
<1>5. CASE f = datafile /\ f # Marked(o)
  BY <1>1, <1>5
<1>6. CASE f = Marked(o) /\ (offset[o] = 0 \/ datafile = NoFile)
  <2>1. f = datafile
    BY <1>6 DEF Marked
  <2> QED
    BY <1>1, <1>4, <1>6, <2>1, Zenon
<1>7. CASE f = Marked(o) /\ offset[o] # 0 /\ datafile # NoFile
  <2>1. PICK d \in Seq(Cell) : d = datafile
    BY <1>1, <1>7 DEF File
  <2>2. PICK c \in Cell : c = Body(o.msg, FALSE)
    BY <1>3, CellFacts
  <2>3. c.is = "body" /\ ~c.valid /\ c.msg = o.msg
    BY <2>2 DEF Body
  <2>4. PICK place \in Nat \ {0} : place = offset[o]
    BY <1>2, <1>7
  <2>5. f = WriteAt(d, place, c)
    BY <1>7, <2>1, <2>2, <2>4 DEF Marked
  <2>6. /\ f \in Seq(Cell)
        /\ Len(f) = (IF place > Len(d) THEN place ELSE Len(d))
        /\ place \in 1..Len(f) /\ f[place] = c
        /\ \A p \in 1..Len(f) : p # place /\ p <= Len(d) => f[p] = d[p]
        /\ \A p \in 1..Len(f) : p # place /\ p > Len(d) => f[p] = Zero
    <3>1. Writes(d, place, c, f)
      BY <2>4, <2>5, WriteAtFacts, Zenon
    <3> QED
      BY <3>1 DEF Writes
  <2>7. /\ Size(f) = Len(f) /\ Len(f) \in Nat /\ f \in File
        /\ Size(d) = Len(d) /\ Len(d) \in Nat
    BY <2>6, SeqFacts
  <2>8. Zero.is # "body"
    BY CellFacts
  <2>9. \A p \in 1..Len(f) : p \in 1..Len(d) \/ p > Len(d)
    BY <2>7
  <2>10. Len(d) <= Len(f)
    BY <2>6, <2>7
  <2>11. BodiesOf(f, offered)
    BY <1>1, <1>3, <2>1, <2>3, <2>6, <2>7, <2>8, <2>9 DEF BodiesOf
  <2>12. ASSUME NEW p \in ValidBodies(f)
         PROVE  p \in ValidBodies(d) /\ f[p] = d[p]
    <3>1. p \in 1..Len(f) /\ f[p].is = "body" /\ f[p].valid
      BY <2>7 DEF ValidBodies
    <3>2. p # place
      BY <2>3, <2>6, <3>1
    <3>3. p \in 1..Len(d) /\ f[p] = d[p]
      BY <2>6, <2>7, <2>8, <2>9, <3>1, <3>2
    <3> QED
      BY <2>7, <3>1, <3>3 DEF ValidBodies
  <2>13. ASSUME NEW p \in ValidBodies(d), p # place
         PROVE  p \in ValidBodies(f)
    <3>1. p \in 1..Len(d) /\ d[p].is = "body" /\ d[p].valid
      BY <2>7 DEF ValidBodies
    <3>2. p \in 1..Len(f) /\ f[p] = d[p]
      BY <2>6, <2>7, <2>10, <2>13, <3>1
    <3> QED
      BY <2>7, <3>1, <3>2 DEF ValidBodies
  <2>14. place \notin ValidBodies(f)
    BY <2>3, <2>6 DEF ValidBodies
  <2>15. ASSUME place \in ValidBodies(d)
         PROVE  Size(f) = Size(d) /\ \A p \in 1..Size(f) : f[p].is = d[p].is
    <3>1. place \in 1..Len(d) /\ d[place].is = "body"
      BY <2>7, <2>15 DEF ValidBodies
    <3>2. Len(f) = Len(d)
      BY <2>6, <2>7, <3>1
    <3> QED
      BY <2>3, <2>6, <2>7, <3>1, <3>2
  <2> QED
    BY <2>1, <2>4, <2>7, <2>11, <2>12, <2>13, <2>14, <2>15
<1> QED
  BY <1>5, <1>6, <1>7

LEMMA CreatedFacts ==
    ASSUME datafile \in File, NEW e, NEW f, f = Created(e)
    PROVE  /\ f \in File
           /\ Size(f) <= Size(datafile)
           /\ \A S : BodiesOf(datafile, S) => BodiesOf(f, S)
           /\ KeptIn(f) \subseteq KeptIn(datafile)
           /\ Unique(datafile) => Unique(f)
           /\ \A b : WellFormed(datafile, b) => WellFormed(f, b)
           /\ e.call # "statCreate"
                 => /\ Size(f) = Size(datafile)
                    /\ \A p \in 1..Size(datafile) : f[p] = datafile[p]
                    /\ ValidBodies(f) = ValidBodies(datafile)
                    /\ KeptIn(f) = KeptIn(datafile)
                    /\ \A b : WellFormed(f, b) <=> WellFormed(datafile, b)
           /\ e.call # "statCreate" \/ ValidBodies(f) = {}
<1>1. Size(datafile) \in Nat
  BY FileFacts
<1>2. CASE datafile # NoFile /\ e.call # "statCreate"
  BY <1>1, <1>2 DEF Created
<1>3. CASE datafile = NoFile \/ e.call = "statCreate"
  <2>1. f = <<>> /\ f \in Seq(Cell)
    BY <1>3 DEF Created
  <2>2. Size(f) = 0 /\ f \in File /\ (e.call # "statCreate" => Size(datafile) = 0)
    BY <1>3, <2>1, SeqFacts DEF Size
  <2>3. ValidBodies(f) = {} /\ (e.call # "statCreate" => ValidBodies(datafile) = {})
    BY <2>2 DEF ValidBodies
  <2> QED
    BY <1>1, <2>2, <2>3 DEF KeptIn, BodiesOf, WellFormed, Unique
<1> QED
  BY <1>2, <1>3

LEMMA NoFileFacts ==
    /\ NoFile \in File
    /\ Size(NoFile) = 0
    /\ ValidBodies(NoFile) = {} /\ KeptIn(NoFile) = {}
    /\ Unique(NoFile)
    /\ \A S : BodiesOf(NoFile, S)
    /\ \A b : WellFormed(NoFile, b)
<1>1. Size(NoFile) = 0
  BY DEF Size
<1>2. ValidBodies(NoFile) = {}
  BY <1>1 DEF ValidBodies
<1> QED
  BY <1>1, <1>2 DEF File, KeptIn, Unique, BodiesOf, WellFormed

LEMMA SwapFacts ==
    ASSUME NEW f \in File, NEW e \in Calls(f), tempfile \in File,
           NEW S, BodiesOf(f, S), BodiesOf(tempfile, S),
           NEW c, c = Collection(f, e), Swap(f, e, c)
    PROVE  /\ datafile' \in File /\ BodiesOf(datafile', S)
           /\ tempfile' \in File /\ BodiesOf(tempfile', S)
           /\ datafile' \in {f, NoFile, c.temp}
           /\ e.call \notin {"createTemp", "openTemp"} => datafile' \in {NoFile, c.temp}
           /\ e.call \notin {"createTemp", "openTemp", "rename"} => datafile' = c.temp
           /\ c.temp \in {datafile', tempfile'}
<1>1. /\ Collected(f, e, c)
      /\ \A t \in c.images : t \in File /\ BodiesOf(t, S)
  BY CollectionFacts
<1>2. /\ c.temp \in File /\ BodiesOf(c.temp, S)
      /\ e.call \notin {"createTemp", "openTemp"} => c.complete
      /\ e.call # "createTemp" => c.temp # NoFile
  BY <1>1, SeqFacts DEF Collected
<1>3. \/ ~c.complete /\ datafile' = f /\ tempfile' = c.temp
      \/ /\ e.call = "rename" \/ c.temp = NoFile
         /\ datafile' = NoFile /\ tempfile' = c.temp
      \/ datafile' = c.temp /\ tempfile' = NoFile
  BY DEF Swap
<1> QED
  BY <1>2, <1>3, NoFileFacts

LEMMA InterruptedFacts ==
    ASSUME NEW f \in File, tempfile \in File,
           NEW S, BodiesOf(f, S), BodiesOf(tempfile, S),
           NEW c, c = Collection(f, None), GcInterrupted(f)
    PROVE  /\ datafile' \in File /\ BodiesOf(datafile', S)
           /\ tempfile' \in File /\ BodiesOf(tempfile', S)
           /\ \/ datafile' = f /\ swapLost' = swapLost
              \/ datafile' = c.temp /\ swapLost' = swapLost
              \/ datafile' = NoFile /\ swapLost' = TRUE
<1>1. /\ Collected(f, None, c)
      /\ \A t \in c.images : t \in File /\ BodiesOf(t, S)
  BY CollectionFacts DEF Calls
<1>2. c.temp \in c.images
  BY <1>1 DEF Collected
<1>3. \/ datafile' = f /\ tempfile' \in c.images /\ swapLost' = swapLost
      \/ datafile' = NoFile /\ tempfile' = c.temp /\ swapLost' = TRUE
      \/ datafile' = c.temp /\ tempfile' = NoFile /\ swapLost' = swapLost
  BY DEF GcInterrupted
<1> QED
  BY <1>1, <1>2, <1>3, NoFileFacts

\* What is kept in the temporary file was kept in the data file.
LEMMA OnlyFoundFacts ==
    ASSUME NEW f \in File, NEW e, NEW c, Collected(f, e, c), OnlyFound(c), c.temp \in File
    PROVE  /\ \A p \in ValidBodies(c.temp) : \E k \in DOMAIN c.found :
                 c.found[k] # Phantom /\ c.temp[p].msg = c.found[k] /\ p = c.place[k]
           /\ KeptIn(c.temp) \subseteq KeptIn(f)
           /\ Unique(f) => Unique(c.temp)
<1>1. ASSUME NEW p \in ValidBodies(c.temp)
      PROVE  \E k \in DOMAIN c.found :
                 c.found[k] # Phantom /\ c.temp[p].msg = c.found[k] /\ p = c.place[k]
  BY DEF OnlyFound, ValidBodies, Holds
<1>2. KeptIn(c.temp) \subseteq KeptIn(f)
  <2> SUFFICES ASSUME NEW p \in ValidBodies(c.temp)
               PROVE  c.temp[p].msg \in KeptIn(f)
    BY DEF KeptIn
  <2> QED
    BY <1>1 DEF Collected
<1>3. ASSUME Unique(f), NEW p \in ValidBodies(c.temp), NEW q \in ValidBodies(c.temp),
             c.temp[p].msg = c.temp[q].msg
      PROVE  p = q
  <2>1. PICK k \in DOMAIN c.found :
            c.found[k] # Phantom /\ c.temp[p].msg = c.found[k] /\ p = c.place[k]
    BY <1>1
  <2>2. PICK l \in DOMAIN c.found :
            c.found[l] # Phantom /\ c.temp[q].msg = c.found[l] /\ q = c.place[l]
    BY <1>1
  <2>3. k = l
    BY <1>3, <2>1, <2>2 DEF Collected
  <2> QED
    BY <2>1, <2>2, <2>3
<1> QED
  BY <1>1, <1>2, <1>3 DEF Unique

\* And if no record was lost on the way, the other way round.
LEMMA AllFoundFacts ==
    ASSUME NEW f \in File, NEW open, WellFormed(f, open), BodiesOf(f, Msg),
           NEW e \in Calls(f), e.call \notin Misreading,
           NEW c, c.found = Live(Read(f, e.call, e.at)),
           AllFound(c), c.temp \in File
    PROVE  /\ \A m \in KeptIn(f) : \E k \in DOMAIN c.found : c.found[k] = m
           /\ KeptIn(f) \subseteq KeptIn(c.temp)
<1>1. \A m \in KeptIn(f) : \E k \in DOMAIN c.found : c.found[k] = m
  BY WholeFound
<1>2. ASSUME NEW m \in KeptIn(f)
      PROVE  m \in KeptIn(c.temp)
  <2>1. m # Phantom
    <3>1. PICK p \in ValidBodies(f) : f[p].msg = m
      BY DEF KeptIn
    <3>2. m \in Msg
      BY <3>1 DEF BodiesOf, ValidBodies
    <3> QED
      BY <3>2, Constants
  <2>2. PICK k \in DOMAIN c.found : c.found[k] = m
    BY <1>1
  <2>3. c.place[k] \in 1..Size(c.temp) /\ Holds(c.temp[c.place[k]], m)
    BY <2>1, <2>2 DEF AllFound
  <2>4. c.place[k] \in ValidBodies(c.temp) /\ c.temp[c.place[k]].msg = m
    BY <2>3 DEF Holds, ValidBodies
  <2> QED
    BY <2>4 DEF KeptIn
<1> QED
  BY <1>1, <1>2
-----------------------------------------------------------------------------
(* What a collection makes of the memory.                                  *)

\* The objects it queues.
Queued(found, kept) == {Fresh(found[i]) : i \in Unknown(found, kept)}

LEMMA KeyFacts ==
    ASSUME TypeOK
    PROVE  /\ \A m \in Msg : Key(m) = idOf[m] /\ Key(m) \in Id
           /\ \A m \in Msg \cup {Phantom}, n \in Msg \cup {Phantom} :
                 Key(m) = Key(n) => (m = Phantom <=> n = Phantom)
           /\ Key(Phantom) = Phantom
  BY Constants DEF TypeOK, Key

LEMMA UnknownFacts ==
    ASSUME TypeOK, NEW found \in Seq(Msg \cup {Phantom}), NEW kept
    PROVE  /\ \A i \in Unknown(found, kept) :
                 i \in DOMAIN found /\ \A p \in kept : IdOf(p) # Key(found[i])
           /\ \A i, j \in Unknown(found, kept) : Key(found[i]) = Key(found[j]) => i = j
           /\ \A o \in Queued(found, kept) :
                 /\ o \in Objects
                 /\ \E i \in Unknown(found, kept) : o = Fresh(found[i]) /\ o.msg = found[i]
           /\ \A i \in Unknown(found, kept) : Fresh(found[i]).msg = found[i]
           /\ \A k \in DOMAIN found : (\A p \in kept : IdOf(p) # Key(found[k]))
                 => \E i \in Unknown(found, kept) : Key(found[i]) = Key(found[k])
<1>1. \A i \in DOMAIN found : found[i] \in Msg \cup {Phantom}
  BY ElementOfSeq, LenProperties
<1>2. DOMAIN found = 1..Len(found) /\ Len(found) \in Nat
  BY LenProperties
<1>3. \A i \in Unknown(found, kept) :
         i \in DOMAIN found /\ \A p \in kept : IdOf(p) # Key(found[i])
  BY DEF Unknown
<1>4. ASSUME NEW i \in Unknown(found, kept), NEW j \in Unknown(found, kept),
             Key(found[i]) = Key(found[j])
      PROVE  i = j
  <2>1. i \in 1..Len(found) /\ j \in 1..Len(found)
    BY <1>2, <1>3
  <2>2. ~(i \in 1..(j - 1)) /\ ~(j \in 1..(i - 1))
    BY <1>4 DEF Unknown
  <2> HIDE <1>2
  <2> QED
    BY <1>2, <2>1, <2>2
<1>5. \A i \in Unknown(found, kept) :
         Fresh(found[i]) \in Objects /\ Fresh(found[i]).msg = found[i]
  BY <1>1, <1>3, FreshFacts
<1>6. \A o \in Queued(found, kept) :
         /\ o \in Objects
         /\ \E i \in Unknown(found, kept) : o = Fresh(found[i]) /\ o.msg = found[i]
  BY <1>5 DEF Queued
<1>7. ASSUME NEW k \in DOMAIN found, \A p \in kept : IdOf(p) # Key(found[k])
      PROVE  \E i \in Unknown(found, kept) : Key(found[i]) = Key(found[k])
  <2> DEFINE I == {i \in 1..Len(found) : Key(found[i]) = Key(found[k])}
  <2>1. I \in SUBSET (1..Len(found)) /\ k \in I
    BY <1>2
  <2>2. \A i \in 1..Len(found) : i \in I <=> Key(found[i]) = Key(found[k])
    OBVIOUS
  <2> HIDE DEF I
  <2>3. PICK i \in I : \A j \in I : i <= j
    <3>1. I # {} /\ Len(found) \in Nat
      BY <1>2, <2>1
    <3> QED
      BY <2>1, <3>1, LeastIn
  <2>4. i \in 1..Len(found) /\ Key(found[i]) = Key(found[k])
    BY <2>1, <2>2
  <2>5. ASSUME NEW j \in 1..(i - 1)
        PROVE  Key(found[j]) # Key(found[i])
    <3>1. j \in 1..Len(found) /\ ~(i <= j)
      BY <1>2, <2>4
    <3> QED
      BY <2>2, <2>3, <2>4, <3>1
  <2>6. i \in Unknown(found, kept)
    BY <1>2, <1>7, <2>4, <2>5 DEF Unknown
  <2> QED
    BY <2>4, <2>6
<1> QED
  BY <1>3, <1>4, <1>5, <1>6, <1>7

LEMMA PlacesFacts ==
    ASSUME NEW c, c.found \in Seq(Msg \cup {Phantom}), c.place \in [DOMAIN c.found -> Nat],
           NEW objects, NEW o
    PROVE  /\ o \in objects /\ (\E k \in DOMAIN c.found : Key(c.found[k]) = IdOf(o))
                 => Places(c, objects, o) \in Nat
           /\ ~(o \in objects /\ (\E k \in DOMAIN c.found : Key(c.found[k]) = IdOf(o)))
                 => Places(c, objects, o) = offset[o]
           /\ \A k \in DOMAIN c.found :
                 /\ o \in objects
                 /\ Key(c.found[k]) = IdOf(o)
                 /\ \A l \in DOMAIN c.found : Key(c.found[l]) = IdOf(o) => l = k
                 => Places(c, objects, o) = c.place[k]
<1> DEFINE at == {i \in DOMAIN c.found : Key(c.found[i]) = IdOf(o)}
           Last(i) == \A j \in at : j <= i
<1>1. Places(c, objects, o) = IF o \in objects /\ at # {} THEN c.place[CHOOSE i \in at : Last(i)]
                              ELSE offset[o]
  BY DEF Places
<1>2. at \in SUBSET (1..Len(c.found)) /\ Len(c.found) \in Nat /\ at \in SUBSET (DOMAIN c.found)
  BY LenProperties
<1>3. \A i \in DOMAIN c.found : i \in at <=> Key(c.found[i]) = IdOf(o)
  OBVIOUS
<1> HIDE DEF at
<1>4. at # {} => \E i \in at : Last(i)
  BY <1>2, GreatestIn
<1> HIDE DEF Last
<1>5. at # {} => (CHOOSE i \in at : Last(i)) \in at
  BY <1>4
<1>6. ASSUME at # {}, o \in objects
      PROVE  Places(c, objects, o) \in Nat
  <2>1. PICK i \in at : i = CHOOSE j \in at : Last(j)
    BY <1>5, <1>6
  <2>2. Places(c, objects, o) = c.place[i]
    BY <1>1, <1>6, <2>1
  <2> QED
    BY <1>2, <2>2
<1>7. ASSUME NEW k \in DOMAIN c.found, o \in objects, Key(c.found[k]) = IdOf(o),
             \A l \in DOMAIN c.found : Key(c.found[l]) = IdOf(o) => l = k
      PROVE  Places(c, objects, o) = c.place[k]
  <2>1. k \in at /\ \A l \in at : l = k
    BY <1>2, <1>3, <1>7
  <2>2. PICK i \in at : i = CHOOSE j \in at : Last(j)
    BY <1>5, <2>1
  <2>3. Places(c, objects, o) = c.place[i]
    BY <1>1, <1>7, <2>1, <2>2
  <2> QED
    BY <2>1, <2>3
<1> QED
  BY <1>1, <1>2, <1>3, <1>6, <1>7

\* The memory after a collection c that found the index to be kept.
Grown(c, kept) ==
    /\ msgs' \in Seq(Objects)
    /\ Range(msgs') = Range(msgs) \cup Queued(c.found, kept)
    /\ \A i, j \in DOMAIN msgs' : msgs'[i].msg = msgs'[j].msg
          => \/ i = j
             \/ i \in DOMAIN msgs /\ j \in DOMAIN msgs /\ msgs'[i] = msgs[i] /\ msgs'[j] = msgs[j]
             \/ \E o \in Queued(c.found, kept), p \in Range(msgs) :
                   o.msg = p.msg /\ o.msg = msgs'[i].msg
    /\ Queued(c.found, kept) = {} => msgs' = msgs
    /\ index' = kept \cup Queued(c.found, kept)
    /\ DOMAIN offset' = DOMAIN offset \cup index'
    /\ offset' \in [DOMAIN offset' -> Nat]
    /\ \A o \in DOMAIN offset' : offset'[o] = Places(c, index', o)
    /\ total' \in Nat /\ valid' \in Int

LEMMA GcFacts ==
    ASSUME TypeOK, NEW f, NEW e, NEW kept, kept \subseteq index,
           NEW c, c = Collection(f, e), Collected(f, e, c), Gc(f, kept, e)
    PROVE  /\ Grown(c, kept)
           /\ confused' = (confused \/ Confuses(c.found, kept))
           /\ Swap(f, e, c)
<1> DEFINE new   == [i \in DOMAIN c.found |-> Fresh(c.found[i])]
           news  == Unknown(c.found, kept)
           added == Pick(new, news)
<1>1. /\ msgs' = msgs \o added
      /\ index' = kept \cup Queued(c.found, kept)
      /\ offset' = [o \in DOMAIN offset \cup index' |-> Places(c, index', o)]
      /\ total' = Len(c.found)
      /\ valid' = Len(c.found)
      /\ confused' = (confused \/ Confuses(c.found, kept))
      /\ Swap(f, e, c)
  BY DEF Gc, Queued
<1>2. c.found \in Seq(Msg \cup {Phantom}) /\ c.place \in [DOMAIN c.found -> Nat]
  BY DEF Collected
<1>3. /\ \A i \in news : i \in DOMAIN c.found /\ Fresh(c.found[i]).msg = c.found[i]
      /\ \A i, j \in news : Key(c.found[i]) = Key(c.found[j]) => i = j
      /\ \A o \in Queued(c.found, kept) :
            /\ o \in Objects
            /\ \E i \in news : o = Fresh(c.found[i]) /\ o.msg = c.found[i]
  BY <1>2, UnknownFacts
<1>4. new \in Seq(Objects) /\ DOMAIN new = DOMAIN c.found
      /\ \A i \in DOMAIN c.found : new[i] = Fresh(c.found[i])
  <2>1. \A i \in DOMAIN c.found : c.found[i] \in Msg \cup {Phantom}
    BY <1>2, ElementOfSeq, LenProperties
  <2>2. \A i \in DOMAIN c.found : Fresh(c.found[i]) \in Objects
    BY <2>1, FreshFacts
  <2>3. DOMAIN c.found = 1..Len(c.found) /\ Len(c.found) \in Nat
    BY <1>2, LenProperties
  <2>4. new \in [1..Len(c.found) -> Objects]
    BY <2>2, <2>3
  <2> QED
    BY <2>3, <2>4
<1> HIDE DEF new, news
<1>5. news \in SUBSET (DOMAIN new)
  BY <1>3, <1>4
<1>6. PICK a \in Seq(Objects) : a = added
  BY <1>4, <1>5, PickDraws
<1>7. PICK d : Draws(a, new, news, d)
  BY <1>4, <1>5, <1>6, PickDraws
<1>8. /\ \A k \in DOMAIN a : d[k] \in news /\ a[k] = Fresh(c.found[d[k]]) /\ a[k].msg = c.found[d[k]]
      /\ \A k, l \in DOMAIN a : d[k] = d[l] => k = l
      /\ \A i \in news : \E k \in DOMAIN a : d[k] = i
  BY <1>3, <1>4, <1>7 DEF Draws
<1>9. Range(a) = Queued(c.found, kept)
  <2>1. \A x \in Range(a) : x \in Queued(c.found, kept)
    BY <1>8 DEF Range, Queued, news
  <2>2. ASSUME NEW x \in Queued(c.found, kept)
        PROVE  x \in Range(a)
    <3>1. PICK i \in news : x = Fresh(c.found[i])
      BY <1>3
    <3>2. PICK k \in DOMAIN a : d[k] = i
      BY <1>8
    <3> QED
      BY <1>8, <3>1, <3>2 DEF Range
  <2> QED
    BY <2>1, <2>2
<1>10. PICK t : t = msgs \o a
  OBVIOUS
<1>11. msgs \in Seq(Objects) /\ msgs' = t
  BY <1>1, <1>6, <1>10 DEF TypeOK
<1>12. /\ t \in Seq(Objects)
       /\ \A i \in DOMAIN t : \/ i \in DOMAIN msgs /\ t[i] = msgs[i]
                              \/ i - Len(msgs) \in DOMAIN a /\ t[i] = a[i - Len(msgs)]
       /\ \A i, j \in DOMAIN t : i - Len(msgs) = j - Len(msgs) => i = j
       /\ Range(t) = Range(msgs) \cup Range(a)
  <2>1. t \in Seq(Objects) /\ Joins(msgs, a, t)
    BY <1>10, <1>11, JoinedList
  <2> QED
    BY <2>1 DEF Joins
<1>13. ASSUME NEW i \in DOMAIN t, NEW j \in DOMAIN t, t[i].msg = t[j].msg
       PROVE  \/ i = j
              \/ i \in DOMAIN msgs /\ j \in DOMAIN msgs /\ t[i] = msgs[i] /\ t[j] = msgs[j]
              \/ \E o \in Queued(c.found, kept), p \in Range(msgs) : o.msg = p.msg /\ o.msg = t[i].msg
  <2>1. \A k \in DOMAIN msgs : msgs[k] \in Range(msgs)
    BY DEF Range
  <2>2. \A k \in DOMAIN a : a[k] \in Queued(c.found, kept)
    BY <1>9 DEF Range
  <2>3. CASE i \in DOMAIN msgs /\ t[i] = msgs[i] /\ j - Len(msgs) \in DOMAIN a /\ t[j] = a[j - Len(msgs)]
    BY <1>13, <2>1, <2>2, <2>3
  <2>4. CASE j \in DOMAIN msgs /\ t[j] = msgs[j] /\ i - Len(msgs) \in DOMAIN a /\ t[i] = a[i - Len(msgs)]
    BY <1>13, <2>1, <2>2, <2>4
  <2>5. CASE /\ i - Len(msgs) \in DOMAIN a /\ t[i] = a[i - Len(msgs)]
             /\ j - Len(msgs) \in DOMAIN a /\ t[j] = a[j - Len(msgs)]
    <3>1. d[i - Len(msgs)] = d[j - Len(msgs)]
      BY <1>3, <1>8, <1>13, <2>5
    <3>2. i - Len(msgs) = j - Len(msgs)
      BY <1>8, <2>5, <3>1
    <3> QED
      BY <1>12, <3>2
  <2>6. CASE i \in DOMAIN msgs /\ t[i] = msgs[i] /\ j \in DOMAIN msgs /\ t[j] = msgs[j]
    BY <2>6
  <2> QED
    BY <1>12, <2>3, <2>4, <2>5, <2>6, Zenon
<1>14. offset' \in [DOMAIN offset' -> Nat] /\ DOMAIN offset' = DOMAIN offset \cup index'
       /\ \A o \in DOMAIN offset' : offset'[o] = Places(c, index', o)
  <2>1. /\ DOMAIN offset' = DOMAIN offset \cup index'
        /\ \A o \in DOMAIN offset' : offset'[o] = Places(c, index', o)
        /\ offset' = [o \in DOMAIN offset' |-> offset'[o]]
    BY <1>1
  <2>2. ASSUME NEW o \in DOMAIN offset'
        PROVE  Places(c, index', o) \in Nat
    <3>1. CASE o \in DOMAIN offset
      <4>1. offset[o] \in Nat
        BY <3>1 DEF TypeOK
      <4> QED
        BY <1>2, <4>1, PlacesFacts
    <3>2. CASE o \notin DOMAIN offset
      <4>1. o \in Queued(c.found, kept) /\ o \in index'
        BY <1>1, <2>1, <3>2 DEF TypeOK
      <4>2. PICK i \in news : o.msg = c.found[i]
        BY <1>3, <4>1
      <4>3. i \in DOMAIN c.found /\ Key(c.found[i]) = IdOf(o)
        BY <1>3, <4>2 DEF IdOf
      <4> QED
        BY <1>2, <4>1, <4>3, PlacesFacts
    <3> QED
      BY <3>1, <3>2
  <2>3. \A o \in DOMAIN offset' : offset'[o] \in Nat
    BY <2>1, <2>2
  <2>4. \A D : (\A o \in D : Places(c, index', o) \in Nat)
                  => [o \in D |-> Places(c, index', o)] \in [D -> Nat]
    OBVIOUS
  <2>5. [o \in DOMAIN offset \cup index' |-> Places(c, index', o)]
           \in [DOMAIN offset \cup index' -> Nat]
    BY <2>1, <2>2, <2>4
  <2>6. offset' \in [DOMAIN offset' -> Nat]
    BY <1>1, <2>1, <2>5
  <2> QED
    BY <2>1, <2>6
<1>15. total' \in Nat /\ valid' \in Int
  BY <1>1, <1>2, LenProperties
<1>16. ASSUME Queued(c.found, kept) = {}
       PROVE  msgs' = msgs
  <2>1. \A k \in DOMAIN a : a[k] \in Range(a)
    BY DEF Range
  <2>2. DOMAIN a = {}
    BY <1>9, <1>16, <2>1
  <2>3. a = <<>>
    BY <2>2, EmptySeq, LenProperties
  <2> QED
    BY <1>10, <1>11, <2>3, ConcatEmptySeq
<1>17. Grown(c, kept)
  <2>1. msgs' \in Seq(Objects) /\ Range(msgs') = Range(msgs) \cup Queued(c.found, kept)
    BY <1>9, <1>11, <1>12
  <2>2. \A i, j \in DOMAIN msgs' : msgs'[i].msg = msgs'[j].msg
          => \/ i = j
             \/ i \in DOMAIN msgs /\ j \in DOMAIN msgs /\ msgs'[i] = msgs[i] /\ msgs'[j] = msgs[j]
             \/ \E o \in Queued(c.found, kept), p \in Range(msgs) :
                   o.msg = p.msg /\ o.msg = msgs'[i].msg
    <3>1. msgs' = t
      BY <1>11
    <3> QED
      BY <1>13, <3>1
  <2> QED
    BY <1>1, <1>14, <1>15, <1>16, <2>1, <2>2, Zenon DEF Grown
<1> QED
  BY <1>1, <1>17
-----------------------------------------------------------------------------
(* Types and bounds.                                                       *)

LEMMA BodiesMore ==
    ASSUME NEW f, NEW S, NEW T, BodiesOf(f, S), S \subseteq T
    PROVE  BodiesOf(f, T)
  BY DEF BodiesOf

\* What insert() of m, with the writes in u lost, adds to the file as far as
\* load() will see it.
Gains(f, m, u, g) ==
    /\ \A p \in ValidBodies(g) : \/ p \in ValidBodies(f) /\ g[p] = f[p]
                                 \/ p = Size(f) + 2 /\ g[p].msg = m
    /\ \A p \in ValidBodies(f) : p \in ValidBodies(g) /\ g[p] = f[p]
    /\ u = {} => Size(f) + 2 \in ValidBodies(g) /\ g[Size(f) + 2].msg = m
    /\ u = {} /\ WellFormed(f, TRUE) => WellFormed(g, TRUE)
    /\ u = {"body"} /\ WellFormed(f, TRUE) => WellFormed(g, FALSE)
    /\ u = {} => \A p \in 1..Size(g) : g[p].is = "zero"
                    => p \in 1..Size(f) /\ f[p].is = "zero"

LEMMA PutBodies ==
    ASSUME NEW f \in Seq(Cell), NEW m \in Msg, NEW u \in {{}} \cup Unseen,
           NEW g, g = Put(f, m, u), NEW S, BodiesOf(f, S)
    PROVE  /\ g \in File
           /\ BodiesOf(g, S \cup {m})
           /\ Gains(f, m, u, g)
<1>1. m \in Msg \cup {Phantom} /\ m # Phantom
  BY Constants
<1>2. Adds(f, m, u, g)
  BY <1>1, PutFacts
<1>3. /\ g \in Seq(Cell)
      /\ Len(g) >= Len(f)
      /\ \A p \in 1..Len(f) : g[p] = f[p]
      /\ \A p \in 1..Len(g) : p > Len(f) /\ g[p].is = "body" => p = Len(f) + 2 /\ Holds(g[p], m)
      /\ u = {} => /\ Len(g) = Len(f) + 2
                   /\ g[Len(f) + 1] = Length
                   /\ Holds(g[Len(f) + 2], m)
      /\ u = {"body"} => Len(g) = Len(f) + 1 /\ g[Len(f) + 1] = Length
  BY <1>1, <1>2 DEF Adds
<1>4. /\ Size(f) = Len(f) /\ Size(g) = Len(g) /\ g \in File
      /\ Len(f) \in Nat /\ Len(g) \in Nat
  BY <1>3, SeqFacts
<1>5. \A p \in 1..Len(g) : p > Len(f) \/ p \in 1..Len(f)
  BY <1>4
<1>6. \A p \in 1..Len(f) : p \in 1..Len(g)
  BY <1>3, <1>4
<1>7. BodiesOf(g, S \cup {m})
  BY <1>3, <1>4, <1>5 DEF BodiesOf, Holds
<1>8. \A p \in ValidBodies(g) : \/ p \in ValidBodies(f) /\ g[p] = f[p]
                                \/ p = Size(f) + 2 /\ g[p].msg = m
  BY <1>3, <1>4, <1>5 DEF ValidBodies, Holds
<1>9. \A p \in ValidBodies(f) : p \in ValidBodies(g) /\ g[p] = f[p]
  BY <1>3, <1>4, <1>6 DEF ValidBodies
<1>10. ASSUME u = {}
       PROVE  Size(f) + 2 \in ValidBodies(g) /\ g[Size(f) + 2].msg = m
  <2>1. Holds(g[Len(f) + 2], m) /\ Len(f) + 2 \in 1..Len(g)
    BY <1>3, <1>4, <1>10
  <2> QED
    BY <1>4, <2>1 DEF Holds, ValidBodies
<1>11. Length.is = "length"
  BY CellFacts
<1>12. ASSUME u = {} \/ u = {"body"}, WellFormed(f, TRUE), NEW p \in 1..Len(f)
       PROVE  /\ g[p].is = "body" => p > 1 /\ g[p - 1].is = "length"
              /\ g[p].is = "length" => p < Len(g) /\ g[p + 1].is = "body"
  <2>1. /\ f[p].is = "body" => p > 1 /\ f[p - 1].is = "length"
        /\ f[p].is = "length" => p < Len(f) /\ f[p + 1].is = "body"
    BY <1>4, <1>12 DEF WellFormed
  <2>2. (p > 1 => p - 1 \in 1..Len(f)) /\ (p < Len(f) => p + 1 \in 1..Len(f) /\ p < Len(g))
    BY <1>3, <1>4
  <2>3. g[p] = f[p] /\ (p > 1 => g[p - 1] = f[p - 1]) /\ (p < Len(f) => g[p + 1] = f[p + 1])
    BY <1>3, <2>2
  <2> QED
    BY <2>1, <2>2, <2>3
<1>13. ASSUME u = {}, WellFormed(f, TRUE)
       PROVE  WellFormed(g, TRUE)
  <2>1. /\ g[Len(f) + 1].is = "length" /\ g[Len(f) + 2].is = "body" /\ Len(g) = Len(f) + 2
        /\ (Len(f) + 2) - 1 = Len(f) + 1 /\ (Len(f) + 1) + 1 = Len(f) + 2
        /\ Len(f) + 1 < Len(g) /\ Len(f) + 2 > 1
    BY <1>3, <1>4, <1>11, <1>13 DEF Holds
  <2>2. \A p \in 1..Len(g) : p \in 1..Len(f) \/ p = Len(f) + 1 \/ p = Len(f) + 2
    BY <1>4, <2>1
  <2>3. ASSUME NEW p \in 1..Len(g)
        PROVE  /\ g[p].is = "body" => p > 1 /\ g[p - 1].is = "length"
               /\ g[p].is = "length" => p < Len(g) /\ g[p + 1].is = "body"
    <3>1. CASE p \in 1..Len(f)
      BY <1>12, <1>13, <3>1
    <3>2. CASE p = Len(f) + 1
      BY <2>1, <3>2
    <3>3. CASE p = Len(f) + 2
      BY <2>1, <3>3
    <3> QED
      BY <2>2, <3>1, <3>2, <3>3
  <2> QED
    BY <1>4, <2>3 DEF WellFormed
<1>14. ASSUME u = {"body"}, WellFormed(f, TRUE)
       PROVE  WellFormed(g, FALSE)
  <2>1. g[Len(f) + 1].is = "length" /\ Len(g) = Len(f) + 1
    BY <1>3, <1>11, <1>14
  <2>2. \A p \in 1..Len(g) : p \in 1..Len(f) \/ (p = Len(f) + 1 /\ ~(p < Len(g)))
    BY <1>4, <2>1
  <2>3. ASSUME NEW p \in 1..Len(g)
        PROVE  /\ g[p].is = "body" => p > 1 /\ g[p - 1].is = "length"
               /\ g[p].is = "length" /\ p < Len(g) => g[p + 1].is = "body"
    <3>1. CASE p \in 1..Len(f)
      BY <1>12, <1>14, <3>1
    <3>2. CASE p = Len(f) + 1 /\ ~(p < Len(g))
      BY <2>1, <3>2
    <3> QED
      BY <2>2, <3>1, <3>2
  <2> QED
    BY <1>4, <2>3 DEF WellFormed
<1>15. ASSUME u = {}, NEW p \in 1..Len(g), g[p].is = "zero"
       PROVE  p \in 1..Len(f) /\ f[p].is = "zero"
  <2>1. g[Len(f) + 1].is = "length" /\ g[Len(f) + 2].is = "body" /\ Len(g) = Len(f) + 2
    BY <1>3, <1>11, <1>15 DEF Holds
  <2>2. p \in 1..Len(f) \/ p = Len(f) + 1 \/ p = Len(f) + 2
    BY <1>4, <2>1
  <2>3. p \in 1..Len(f)
    BY <1>15, <2>1, <2>2
  <2> QED
    BY <1>3, <1>15, <2>3
<1> QED
  BY <1>4, <1>7, <1>8, <1>9, <1>10, <1>13, <1>14, <1>15 DEF Gains

LEMMA MeetsFacts ==
    ASSUME NEW e, Meets(e)
    PROVE  /\ faults \subseteq faults'
           /\ e = None => faults' = faults
           /\ e # None => e.call \in faults'
  BY DEF Meets

\* g has the valid bodies of f, or some of them, and perhaps one of m.
MayGain(f, m, place, g) ==
    \A p \in ValidBodies(g) : \/ p \in ValidBodies(f) /\ g[p] = f[p]
                              \/ p = place /\ g[p].msg = m

\* The file as it seems to the insert() of Take.
Seen(e) == IF e.call = "statInsert" THEN <<>> ELSE datafile

LEMMA TakeFacts ==
    ASSUME datafile \in File, NEW S, BodiesOf(datafile, S), NEW m \in Msg,
           NEW e \in {None} \cup Unnoticed, Take(m, e)
    PROVE  /\ datafile # NoFile
           /\ datafile' \in File /\ BodiesOf(datafile', S \cup {m})
           /\ PlaceIn(Seen(e)) \in Nat
           /\ offset' = [o \in DOMAIN offset \cup {Object(m, 0)} |->
                            IF o = Object(m, 0) THEN PlaceIn(Seen(e)) ELSE offset[o]]
           /\ faults \subseteq faults'
           /\ e # None => e.call \in faults' \cap Losing
           /\ ~TooLong(datafile') => MayGain(datafile, m, PlaceIn(Seen(e)), datafile')
           /\ e = None => Gains(datafile, m, {}, datafile')
           /\ e = None /\ ~TooLong(datafile') => PlaceIn(Seen(e)) = Size(datafile) + 2
<1>1. /\ datafile # NoFile
      /\ Meets(e)
      /\ datafile' = IF e.call = "statInsert" THEN Overwrite(datafile, m)
                     ELSE Put(datafile, m, e.unseen)
      /\ offset' = [o \in DOMAIN offset \cup {Object(m, 0)} |->
                       IF o = Object(m, 0) THEN PlaceIn(Seen(e)) ELSE offset[o]]
  BY DEF Take, Seen
<1>2. /\ e.unseen \in {{}} \cup Unseen
      /\ e.call \in {"none", "statInsert", "writeInsert"}
      /\ e = None <=> e.call = "none"
      /\ e = None => e.unseen = {}
  BY DEF Unnoticed, Failure, None
<1>3. faults \subseteq faults' /\ (e # None => e.call \in faults' \cap Losing)
  BY <1>1, <1>2, MeetsFacts DEF Losing
<1>4. PICK d \in Seq(Cell) : d = datafile
  BY <1>1 DEF File
<1>5. PICK g : g = datafile'
  OBVIOUS
<1>6. m \in Msg \cup {Phantom} /\ m # Phantom /\ d \in File /\ Size(d) = Len(d) /\ Len(d) \in Nat
  BY <1>4, SeqFacts, Constants
<1>7. CASE e.call = "statInsert"
  <2>1. Covers(d, m, g)
    <3>1. g = Overwrite(d, m)
      BY <1>1, <1>4, <1>5, <1>7
    <3> QED
      BY <1>6, <3>1, OverwriteFacts
  <2>2. /\ g \in Seq(Cell)
        /\ \A p \in 1..Len(g) : g[p].is = "body"
              => \/ p \in 1..Len(d) /\ g[p] = d[p]
                 \/ p = 2 /\ Holds(g[p], m)
    BY <2>1 DEF Covers
  <2>3. g \in File /\ Size(g) = Len(g)
    BY <2>2, SeqFacts
  <2>4. PlaceIn(Seen(e)) = 2
    BY <1>7, PlaceInEmpty DEF Seen
  <2>5. BodiesOf(g, S \cup {m})
    BY <1>4, <1>6, <2>2, <2>3 DEF BodiesOf, Holds
  <2>6. MayGain(d, m, 2, g)
    BY <1>6, <2>2, <2>3 DEF MayGain, ValidBodies, Holds
  <2> QED
    BY <1>1, <1>2, <1>3, <1>4, <1>5, <1>7, <2>3, <2>4, <2>5, <2>6
<1>8. CASE e.call # "statInsert"
  <2>1. PICK u \in {{}} \cup Unseen : u = e.unseen
    BY <1>2
  <2>2. g = Put(d, m, u)
    BY <1>1, <1>4, <1>5, <1>8, <2>1
  <2>3. g \in File /\ BodiesOf(g, S \cup {m}) /\ Gains(d, m, u, g)
    BY <1>4, <2>2, PutBodies
  <2>4. g \in Seq(Cell) /\ Len(g) >= Len(d)
    BY <1>6, <2>2, PutFacts DEF Adds
  <2>5. Size(g) = Len(g) /\ Len(g) \in Nat
    BY <2>4, SeqFacts
  <2>6. Seen(e) = d
    BY <1>4, <1>8 DEF Seen
  <2>7. PlaceIn(Seen(e)) \in Nat
    BY <1>6, <2>6, PlaceInFacts
  <2>8. ASSUME ~TooLong(g)
        PROVE  PlaceIn(Seen(e)) = Size(d) + 2 /\ MayGain(d, m, PlaceIn(Seen(e)), g)
    <3>1. ~TooLong(d)
      BY <1>6, <2>4, <2>5, <2>8, MessageFileAssumption DEF TooLong
    <3>2. PlaceIn(Seen(e)) = Size(d) + 2
      BY <1>6, <2>6, <3>1, PlaceInFacts
    <3> QED
      BY <2>3, <3>2 DEF Gains, MayGain
  <2>9. e = None => Gains(d, m, {}, g)
    BY <1>2, <2>1, <2>3
  <2> QED
    BY <1>1, <1>3, <1>4, <1>5, <2>3, <2>7, <2>8, <2>9
<1> QED
  BY <1>7, <1>8

\* With the memory gone, only the files count.
LEMMA EmptiedTypes ==
    ASSUME TypeOK, Bounds, ForgetMemory, idOf' = idOf, up' \in BOOLEAN,
           datafile' \in File, BodiesOf(datafile', offered'),
           tempfile' \in File, BodiesOf(tempfile', offered'),
           accepted' \in SUBSET offered', done' \in SUBSET offered', offered' \in SUBSET Msg,
           swapLost' \in BOOLEAN, confused' \in BOOLEAN
    PROVE  TypeOK' /\ Bounds' /\ InMemory' = {}
<1>1. /\ msgs' = <<>> /\ index' = {} /\ waitack' = {}
      /\ offset' = <<>> /\ total' = 0 /\ valid' = 0
  BY DEF ForgetMemory
<1>2. /\ <<>> \in Seq(Objects) /\ Range(<<>>) = {} /\ DOMAIN <<>> = {}
      /\ IsFiniteSet({}) /\ <<>> \in [{} -> Nat]
  BY EmptyList, FS_EmptySet
<1>3. InMemory' = {}
  BY <1>1, <1>2 DEF InMemory
<1>4. DOMAIN offset' = {} /\ offset' \in [DOMAIN offset' -> Nat]
  BY <1>1, <1>2
<1>5. TypeOK'
  BY <1>1, <1>2, <1>3, <1>4 DEF TypeOK
<1>6. Bounds'
  BY <1>1, <1>3 DEF Bounds
<1> QED
  BY <1>3, <1>5, <1>6

\* With the objects the index keeps.
LEMMA WithFacts ==
    ASSUME TypeOK, NEW objects \in SUBSET Objects, NEW o \in Objects
    PROVE  /\ With(objects, o) \in SUBSET (objects \cup {o})
           /\ objects \subseteq With(objects, o)
           /\ IsFiniteSet(objects) => IsFiniteSet(With(objects, o))
           /\ (\A p \in objects : IdOf(p) # IdOf(o)) => o \in With(objects, o)
           /\ (\A p, q \in objects : IdOf(p) = IdOf(q) => p = q)
                 => \A p, q \in With(objects, o) : IdOf(p) = IdOf(q) => p = q
<1>1. With(objects, o) \in {objects, objects \cup {o}}
  BY DEF With
<1>2. IsFiniteSet(objects) => IsFiniteSet(objects \cup {o})
  BY FS_AddElement
<1>3. (\A p \in objects : IdOf(p) # IdOf(o)) => With(objects, o) = objects \cup {o}
  BY DEF With
<1>4. (\E p \in objects : IdOf(p) = IdOf(o)) => With(objects, o) = objects
  BY DEF With
<1> QED
  BY <1>1, <1>2, <1>3, <1>4
LEMMA KeptBodies ==
    ASSUME NEW f, NEW S, BodiesOf(f, S)
    PROVE  KeptIn(f) \subseteq S
  BY DEF BodiesOf, KeptIn, ValidBodies

\* A collection queues nothing but messages kept in the file, and empty ones.
OnlyKept(f, found, kept) ==
    \A o \in Queued(found, kept) :
        /\ o \in Objects
        /\ o.msg = Phantom \/ o.msg \in KeptIn(f)
        /\ \A p \in kept : IdOf(p) # IdOf(o)
        /\ \A p \in Queued(found, kept) : IdOf(p) = IdOf(o) => p = o

LEMMA QueuedFacts ==
    ASSUME TypeOK, NEW f, NEW e, NEW c, Collected(f, e, c), NEW kept
    PROVE  OnlyKept(f, c.found, kept)
<1>1. c.found \in Seq(Msg \cup {Phantom})
  BY DEF Collected
<1>2. /\ \A i \in Unknown(c.found, kept) :
            i \in DOMAIN c.found /\ \A p \in kept : IdOf(p) # Key(c.found[i])
      /\ \A i, j \in Unknown(c.found, kept) : Key(c.found[i]) = Key(c.found[j]) => i = j
      /\ \A o \in Queued(c.found, kept) :
            /\ o \in Objects
            /\ \E i \in Unknown(c.found, kept) : o = Fresh(c.found[i]) /\ o.msg = c.found[i]
  BY <1>1, UnknownFacts
<1> SUFFICES ASSUME NEW o \in Queued(c.found, kept)
             PROVE  /\ o \in Objects
                    /\ o.msg = Phantom \/ o.msg \in KeptIn(f)
                    /\ \A p \in kept : IdOf(p) # IdOf(o)
                    /\ \A p \in Queued(c.found, kept) : IdOf(p) = IdOf(o) => p = o
  BY DEF OnlyKept
<1>3. PICK i \in Unknown(c.found, kept) : o = Fresh(c.found[i]) /\ o.msg = c.found[i]
  BY <1>2
<1>4. o.msg = Phantom \/ o.msg \in KeptIn(f)
  BY <1>2, <1>3 DEF Collected
<1>5. ASSUME NEW p \in Queued(c.found, kept), IdOf(p) = IdOf(o)
      PROVE  p = o
  <2>1. PICK j \in Unknown(c.found, kept) : p = Fresh(c.found[j]) /\ p.msg = c.found[j]
    BY <1>2
  <2>2. i = j
    BY <1>2, <1>3, <1>5, <2>1 DEF IdOf
  <2> QED
    BY <1>3, <2>1, <2>2
<1> QED
  BY <1>2, <1>3, <1>4, <1>5 DEF IdOf

LEMMA GcTypes ==
    ASSUME TypeOK, Bounds, up, NEW f \in File, BodiesOf(f, offered),
           NEW e \in Calls(f), NEW kept \in SUBSET index, Gc(f, kept, e),
           waitack' \in SUBSET waitack, done' \in SUBSET offered,
           UNCHANGED <<idOf, up, accepted, offered, swapLost>>
    PROVE  TypeOK' /\ Bounds'
<1>1. PICK c : c = Collection(f, e)
  OBVIOUS
<1>2. /\ tempfile \in File /\ BodiesOf(tempfile, offered)
      /\ waitack \in SUBSET Objects /\ index \in SUBSET Objects /\ msgs \in Seq(Objects)
  BY DEF TypeOK, Bounds
<1>3. Collected(f, e, c)
  BY <1>1, <1>2, CollectionFacts
<1>4. Grown(c, kept) /\ confused' = (confused \/ Confuses(c.found, kept)) /\ Swap(f, e, c)
  BY <1>1, <1>3, GcFacts
<1>5. /\ datafile' \in File /\ BodiesOf(datafile', offered)
      /\ tempfile' \in File /\ BodiesOf(tempfile', offered)
  BY <1>1, <1>2, <1>4, SwapFacts
<1>6. KeptIn(f) \subseteq offered
  BY KeptBodies
<1>7. \A o \in Queued(c.found, kept) :
         /\ o \in Objects
         /\ o.msg = Phantom \/ o.msg \in KeptIn(f)
         /\ \A p \in kept : IdOf(p) # IdOf(o)
         /\ \A p \in Queued(c.found, kept) : IdOf(p) = IdOf(o) => p = o
  <2>1. OnlyKept(f, c.found, kept)
    BY <1>3, QueuedFacts
  <2> QED
    BY <2>1 DEF OnlyKept
<1>8. /\ msgs' \in Seq(Objects)
      /\ Range(msgs') = Range(msgs) \cup Queued(c.found, kept)
      /\ index' = kept \cup Queued(c.found, kept)
      /\ DOMAIN offset' = DOMAIN offset \cup index'
      /\ offset' \in [DOMAIN offset' -> Nat]
      /\ total' \in Nat /\ valid' \in Int
  BY <1>4 DEF Grown
<1>9. index' \in SUBSET Objects /\ waitack' \in SUBSET Objects /\ IsFiniteSet(waitack')
  BY <1>2, <1>7, <1>8, FS_Subset DEF TypeOK
<1>10. InMemory' = Range(msgs') \cup waitack'
  BY DEF InMemory
<1>11. InMemory' \cup index' \subseteq DOMAIN offset'
  BY <1>8, <1>10 DEF TypeOK, InMemory
<1>12. DOMAIN offset' \in SUBSET Objects
  BY <1>8, <1>9 DEF TypeOK
<1>13. TypeOK'
  BY <1>5, <1>8, <1>9, <1>11, <1>12, <1>4 DEF TypeOK
<1>14. \A o \in InMemory' \cup index' : o.msg \in offered \cup {Phantom}
  BY <1>6, <1>7, <1>8, <1>10 DEF Bounds, InMemory
<1>15. \A o, p \in index' : IdOf(o) = IdOf(p) => o = p
  BY <1>7, <1>8 DEF Bounds
<1>16. \A o : IdOf(o)' = IdOf(o)
  BY DEF IdOf, Key
<1>17. Bounds'
  BY <1>5, <1>14, <1>15, <1>16 DEF Bounds
<1> QED
  BY <1>13, <1>17

\* What a call of Remove() makes of the record, if it can: f is the file
\* before the rest of Remove().
Cutting(o, f, e) ==
    \/ f = Marked(o) /\ e \in Calls(f) /\ Meets(e)
    \/ f = datafile /\ e = None /\ Meets(Failure("mark", 1, {}))

LEMMA RemoveDurableFacts ==
    ASSUME TypeOK, Bounds, NEW o \in waitack, RemoveDurable(o)
    PROVE  /\ up
           /\ o.msg # Phantom /\ o.msg \in offered
           /\ done' = done \cup {o.msg}
           /\ UNCHANGED <<idOf, accepted, offered, swapLost>>
           /\ \E f, e : Cutting(o, f, e) /\ Forget(o, f, e)
<1>1. up
  BY DEF Bounds
<1>2. /\ o.msg # Phantom /\ done' = done \cup {o.msg}
      /\ UNCHANGED <<idOf, accepted, offered, swapLost>>
  BY DEF RemoveDurable
<1>3. o.msg \in offered
  BY <1>2 DEF Bounds, InMemory
<1>4. \E f, e : Cutting(o, f, e) /\ Forget(o, f, e)
  <2>1. CASE \E e \in {None} \cup Failures(Marked(o)) :
                Meets(e) /\ Forget(o, Marked(o), e)
    BY <2>1 DEF Cutting, Calls
  <2>2. CASE Meets(Failure("mark", 1, {})) /\ Forget(o, datafile, None)
    BY <2>2 DEF Cutting
  <2> QED
    BY <2>1, <2>2 DEF RemoveDurable
<1> QED
  BY <1>1, <1>2, <1>3, <1>4

LEMMA CuttingFacts ==
    ASSUME TypeOK, Bounds, NEW o \in waitack, o.msg # Phantom, NEW f, NEW e, Cutting(o, f, e)
    PROVE  /\ f \in {Marked(o), datafile}
           /\ e \in Calls(f)
           /\ faults \subseteq faults'
           /\ f = Marked(o) \/ "mark" \in faults'
           /\ e # None => e.call \in faults'
<1>1. None \in Calls(f)
  BY DEF Calls
<1>2. Failure("mark", 1, {}).call = "mark" /\ None.call = "none"
  BY DEF Failure, None
<1>3. Failure("mark", 1, {}) # None
  BY <1>2
<1>4. CASE f = Marked(o) /\ e \in Calls(f) /\ Meets(e)
  BY <1>4, MeetsFacts
<1>5. CASE f = datafile /\ e = None /\ Meets(Failure("mark", 1, {}))
  BY <1>1, <1>2, <1>3, <1>5, MeetsFacts
<1> QED
  BY <1>4, <1>5 DEF Cutting

LEMMA ForgetTypes ==
    ASSUME TypeOK, Bounds, up, NEW o \in waitack, NEW f \in File, BodiesOf(f, offered),
           NEW e \in Calls(f), Forget(o, f, e), done' \in SUBSET offered,
           UNCHANGED <<idOf, accepted, offered, swapLost>>
    PROVE  TypeOK' /\ Bounds'
<1>1. WithoutId(index, o) \in SUBSET index
  BY DEF WithoutId
<1>2. CASE ~GcCheck(valid - 1, total)
  <2>1. /\ datafile' = f
        /\ index' = WithoutId(index, o)
        /\ valid' = valid - 1
        /\ waitack' = waitack \ {o}
        /\ UNCHANGED <<up, msgs, offset, total, tempfile, confused>>
    BY <1>2 DEF Forget
  <2>2. waitack' \in SUBSET waitack /\ IsFiniteSet(waitack')
    BY <2>1, FS_Subset DEF TypeOK
  <2>3. InMemory' \subseteq InMemory /\ index' \subseteq index
    BY <1>1, <2>1, <2>2 DEF InMemory
  <2>4. TypeOK'
    BY <2>1, <2>2, <2>3 DEF TypeOK
  <2>5. \A x : IdOf(x)' = IdOf(x)
    BY DEF IdOf, Key
  <2>6. Bounds'
    BY <2>1, <2>3, <2>5 DEF Bounds
  <2> QED
    BY <2>4, <2>6
<1>3. CASE GcCheck(valid - 1, total) /\ Throws(f, e)
  <2>1. up' = FALSE /\ ForgetMemory /\ datafile' = f /\ UNCHANGED <<tempfile, confused>>
    BY <1>3 DEF Forget, Die
  <2> QED
    BY <2>1, EmptiedTypes DEF TypeOK, Bounds
<1>4. CASE GcCheck(valid - 1, total) /\ ~Throws(f, e)
  <2>1. Gc(f, WithoutId(index, o), e) /\ waitack' = waitack \ {o} /\ up' = up
    BY <1>4 DEF Forget
  <2> QED
    BY <1>1, <2>1, GcTypes
<1> QED
  BY <1>2, <1>3, <1>4
LEMMA InsertTypes ==
    ASSUME TypeOK, Bounds, NEW m \in Msg, Insert(m)
    PROVE  TypeOK' /\ Bounds'
<1>1. /\ up /\ m \notin offered /\ offered' = offered \cup {m}
      /\ UNCHANGED <<idOf, up, waitack, tempfile, done, swapLost, confused>>
      /\ Refuse \/ \E e \in {None} \cup Unnoticed : Take(m, e)
  BY DEF Insert
<1>2. BodiesOf(tempfile, offered \cup {m}) /\ BodiesOf(datafile, offered \cup {m})
  BY BodiesMore DEF Bounds
<1>3. \A x : IdOf(x)' = IdOf(x)
  BY <1>1 DEF IdOf, Key
<1>4. CASE Refuse
  <2>1. UNCHANGED <<msgs, index, offset, total, valid, datafile, accepted>>
    BY <1>4 DEF Refuse
  <2>2. InMemory' = InMemory
    BY <1>1, <2>1 DEF InMemory
  <2>3. TypeOK'
    BY <1>1, <2>1, <2>2 DEF TypeOK
  <2>4. Bounds'
    BY <1>1, <1>2, <1>3, <2>1, <2>2 DEF Bounds
  <2> QED
    BY <2>3, <2>4
<1>5. ASSUME NEW e \in {None} \cup Unnoticed, Take(m, e)
      PROVE  TypeOK' /\ Bounds'
  <2>1. PICK o \in Objects : o = Object(m, 0) /\ o.msg = m
    <3>1. Object(m, 0) \in Objects /\ Object(m, 0).msg = m
      BY DEF Object, Objects
    <3> QED
      BY <3>1
  <2>2. /\ total' = total + 1
        /\ valid' = valid + 1
        /\ index' = With(index, o)
        /\ msgs' = Append(msgs, o)
        /\ accepted' = accepted \cup {m}
    BY <1>5, <2>1 DEF Take
  <2>3. /\ PlaceIn(Seen(e)) \in Nat
        /\ offset' = [x \in DOMAIN offset \cup {Object(m, 0)} |->
                         IF x = Object(m, 0) THEN PlaceIn(Seen(e)) ELSE offset[x]]
        /\ datafile' \in File /\ BodiesOf(datafile', offered \cup {m})
    <3>1. datafile \in File /\ BodiesOf(datafile, offered)
      BY DEF TypeOK, Bounds
    <3> QED
      BY <1>5, <3>1, TakeFacts
  <2>4. PICK n \in Nat : offset' = [x \in DOMAIN offset \cup {o} |->
                                      IF x = o THEN n ELSE offset[x]]
    BY <2>1, <2>3
  <2>5. msgs' \in Seq(Objects) /\ Range(msgs') = Range(msgs) \cup {o}
    <3>1. msgs' \in Seq(Objects) /\ Extends(msgs, o, msgs')
      BY <2>2, AppendedList DEF TypeOK
    <3> QED
      BY <3>1 DEF Extends
  <2>6. /\ With(index, o) \in SUBSET (index \cup {o})
        /\ \A p, q \in With(index, o) : IdOf(p) = IdOf(q) => p = q
    BY WithFacts DEF TypeOK, Bounds
  <2>7. DOMAIN offset' = DOMAIN offset \cup {o} /\ offset' \in [DOMAIN offset' -> Nat]
    <3>1. \A D : (\A x \in D : (IF x = o THEN n ELSE offset[x]) \in Nat)
             => [x \in D |-> IF x = o THEN n ELSE offset[x]] \in [D -> Nat]
      OBVIOUS
    <3>2. \A x \in DOMAIN offset : offset[x] \in Nat
      BY DEF TypeOK
    <3> QED
      BY <2>4, <3>1, <3>2
  <2>8. InMemory' = InMemory \cup {o}
    BY <1>1, <2>5 DEF InMemory
  <2>9. TypeOK'
    BY <1>1, <2>2, <2>3, <2>5, <2>6, <2>7, <2>8 DEF TypeOK
  <2>10. Bounds'
    BY <1>1, <1>2, <1>3, <2>1, <2>2, <2>3, <2>6, <2>8 DEF Bounds
  <2> QED
    BY <2>9, <2>10
<1> QED
  BY <1>1, <1>4, <1>5

LEMMA FrontTypes ==
    ASSUME TypeOK, Bounds, Front
    PROVE  /\ TypeOK' /\ Bounds'
           /\ InMemory' \subseteq InMemory
           /\ Range(msgs') \subseteq Range(msgs)
           /\ waitack' \subseteq waitack \cup {Head(msgs)}
           /\ UNCHANGED <<idOf, up, index, offset, total, valid, files, history>>
<1>1. /\ msgs # <<>> /\ msgs' = Tail(msgs)
      /\ waitack' = With(waitack, Head(msgs))
      /\ UNCHANGED <<idOf, up, index, offset, total, valid, files, history>>
  BY DEF Front
<1>2. UNCHANGED <<datafile, tempfile, accepted, done, offered, faults, swapLost, confused>>
  BY <1>1 DEF files, history
<1>3. msgs \in Seq(Objects)
  BY DEF TypeOK
<1>4. /\ Head(msgs) \in Objects
      /\ msgs' \in Seq(Objects)
      /\ Range(msgs) = Range(msgs') \cup {Head(msgs)}
  BY <1>1, <1>3, TailList
<1>5. waitack' \in SUBSET (waitack \cup {Head(msgs)}) /\ IsFiniteSet(waitack')
  BY <1>1, <1>4, WithFacts DEF TypeOK
<1>6. InMemory' \subseteq InMemory
  BY <1>4, <1>5 DEF InMemory
<1>7. up
  BY <1>1 DEF Bounds
<1>8. TypeOK'
  BY <1>1, <1>2, <1>4, <1>5, <1>6 DEF TypeOK
<1>9. Bounds'
  BY <1>1, <1>2, <1>6, <1>7 DEF Bounds, IdOf, Key
<1> QED
  BY <1>1, <1>4, <1>5, <1>6, <1>8, <1>9

LEMMA StartCalls ==
    ASSUME NEW e \in Calls(Created(None))
    PROVE  e \in Calls(Created(e))
<1>1. CASE e.call = "statCreate"
  <2>1. e \notin Failures(Created(None)) /\ e # None
    BY <1>1 DEF Failures, Failure, None
  <2> QED
    BY <2>1 DEF Calls
<1>2. CASE e.call # "statCreate"
  <2>1. None.call # "statCreate"
    BY DEF None, Failure
  <2>2. Created(e) = Created(None)
    BY <1>2, <2>1 DEF Created
  <2> QED
    BY <2>2
<1> QED
  BY <1>1, <1>2

\* A start has one object for each id found.
LEMMA InitQueueManagerFacts ==
    ASSUME TypeOK, Bounds, NEW e \in Calls(Created(None)), InitQueueManager(e),
           NEW c, c = Collection(Created(e), e)
    PROVE  /\ TypeOK' /\ Bounds' /\ InMemory' = {}
           /\ ~up /\ up'
           /\ e \in Calls(Created(e))
           /\ ~Throws(Created(e), e)
           /\ faults \subseteq faults' /\ (e # None => e.call \in faults')
           /\ Swap(Created(e), e, c)
           /\ Collected(Created(e), e, c)
           /\ \A o \in index' : \E i \in Unknown(c.found, {}) : o = Object(c.found[i], 0)
           /\ \A i \in Unknown(c.found, {}) :
                 Object(c.found[i], 0) \in index' /\ Object(c.found[i], 0).msg = c.found[i]
           /\ UNCHANGED <<idOf, msgs, waitack, accepted, done, offered, swapLost, confused>>
<1> DEFINE news == Unknown(c.found, {})
           In(o) == CHOOSE i \in news : c.found[i] = o.msg
<1>1. /\ ~up
      /\ ~Throws(Created(e), e)
      /\ Meets(e)
      /\ up' = TRUE
      /\ index' = {Object(c.found[i], 0) : i \in news}
      /\ offset' = [o \in index' |-> c.place[In(o)]]
      /\ total' = Len(c.found)
      /\ valid' = Len(c.found)
      /\ Swap(Created(e), e, c)
      /\ UNCHANGED <<idOf, msgs, waitack, accepted, done, offered, swapLost, confused>>
  BY DEF InitQueueManager
<1>2. PICK f \in File : f = Created(e) /\ BodiesOf(f, offered)
  BY CreatedFacts DEF TypeOK, Bounds
<1>3. tempfile \in File /\ BodiesOf(tempfile, offered) /\ e \in Calls(f)
  BY <1>2, StartCalls DEF TypeOK, Bounds
<1>4. Collected(f, e, c)
  BY <1>2, <1>3, CollectionFacts
<1>5. /\ datafile' \in File /\ BodiesOf(datafile', offered)
      /\ tempfile' \in File /\ BodiesOf(tempfile', offered)
  BY <1>1, <1>2, <1>3, SwapFacts
<1>6. c.found \in Seq(Msg \cup {Phantom}) /\ c.place \in [DOMAIN c.found -> Nat]
  BY <1>4 DEF Collected
<1>7. /\ \A i \in DOMAIN c.found : c.found[i] \in Msg \cup {Phantom}
      /\ Len(c.found) \in Nat
  BY <1>6, ElementOfSeq, LenProperties
<1>8. /\ \A i \in news : i \in DOMAIN c.found
      /\ \A i, j \in news : Key(c.found[i]) = Key(c.found[j]) => i = j
  BY <1>6, UnknownFacts
<1>9. \A i \in news : Object(c.found[i], 0) \in Objects /\ Object(c.found[i], 0).msg = c.found[i]
  BY <1>7, <1>8 DEF Object, Objects
<1>10. \A i \in news : c.found[i] = Phantom \/ c.found[i] \in offered
  BY <1>2, <1>4, <1>8, KeptBodies DEF Collected
<1> HIDE DEF news
<1>11. \A o \in index' : /\ \E i \in news : o = Object(c.found[i], 0) /\ o.msg = c.found[i]
                         /\ o \in Objects /\ o.msg \in offered \cup {Phantom}
  BY <1>1, <1>9, <1>10
<1>12. \A i \in news : Object(c.found[i], 0) \in index'
  BY <1>1
<1>13. \A o \in index' : In(o) \in news
  BY <1>11
<1> HIDE DEF In
<1>14. DOMAIN offset' = index' /\ offset' \in [DOMAIN offset' -> Nat]
  <2>1. \A o \in index' : c.place[In(o)] \in Nat
    BY <1>6, <1>8, <1>13
  <2>2. \A D : (\A o \in D : c.place[In(o)] \in Nat) => [o \in D |-> c.place[In(o)]] \in [D -> Nat]
    OBVIOUS
  <2>3. [o \in index' |-> c.place[In(o)]] \in [index' -> Nat]
    BY <2>1, <2>2
  <2> QED
    BY <1>1, <2>3
<1>15. msgs = <<>> /\ waitack = {} /\ InMemory' = {}
  BY <1>1, EmptyList DEF Bounds, InMemory
<1>16. \A x : IdOf(x)' = IdOf(x)
  BY <1>1 DEF IdOf, Key
<1>17. \A o, p \in index' : IdOf(o) = IdOf(p) => o = p
  <2> SUFFICES ASSUME NEW o \in index', NEW p \in index', IdOf(o) = IdOf(p)
               PROVE  o = p
    OBVIOUS
  <2>1. PICK i \in news : o = Object(c.found[i], 0) /\ o.msg = c.found[i]
    BY <1>11
  <2>2. PICK j \in news : p = Object(c.found[j], 0) /\ p.msg = c.found[j]
    BY <1>11
  <2>3. i = j
    BY <1>8, <2>1, <2>2 DEF IdOf
  <2> QED
    BY <2>1, <2>2, <2>3
<1>18. TypeOK'
  <2>1. index' \in SUBSET Objects /\ InMemory' \cup index' \subseteq DOMAIN offset'
    BY <1>11, <1>14, <1>15
  <2> QED
    BY <1>1, <1>5, <1>7, <1>14, <2>1 DEF TypeOK
<1>19. Bounds'
  BY <1>1, <1>5, <1>11, <1>15, <1>16, <1>17 DEF Bounds
<1>20. faults \subseteq faults' /\ (e # None => e.call \in faults')
  BY <1>1, MeetsFacts
<1> QED
  BY <1>1, <1>2, <1>3, <1>4, <1>9, <1>11, <1>12, <1>15, <1>18, <1>19, <1>20 DEF news
LEMMA ClearFacts ==
    ASSUME TypeOK, Bounds, ClearQueue, up' \in {up, FALSE}
    PROVE  /\ TypeOK' /\ Bounds' /\ InMemory' = {} /\ index' = {}
           /\ up
           /\ faults \subseteq faults'
           /\ datafile' = NoFile \/ (datafile' = datafile /\ "removeFile" \in faults')
           /\ accepted' = {} /\ done' = done \cup accepted
           /\ UNCHANGED <<idOf, offered, confused>>
<1>1. /\ up
      /\ ForgetMemory
      /\ RemoveMsgFile
      /\ accepted' = {}
      /\ done' = done \cup accepted
      /\ swapLost' = FALSE
      /\ UNCHANGED <<idOf, offered, confused>>
  BY DEF ClearQueue
<1>2. /\ faults \subseteq faults'
      /\ \/ datafile' = NoFile /\ tempfile' \in {NoFile, tempfile}
         \/ datafile' = datafile /\ tempfile' = tempfile /\ "removeFile" \in faults'
  <2>1. CASE datafile = NoFile
    BY <1>1, <2>1 DEF RemoveMsgFile, files
  <2>2. CASE datafile # NoFile
    <3>1. \/ Meets(None) /\ datafile' = NoFile /\ tempfile' = NoFile
          \/ Meets(Failure("removeFile", 1, {})) /\ datafile' = datafile /\ tempfile' = tempfile
      BY <1>1, <2>2 DEF RemoveMsgFile, files
    <3>2. Failure("removeFile", 1, {}).call = "removeFile" /\ None.call = "none"
      BY DEF Failure, None
    <3>3. Failure("removeFile", 1, {}) # None
      BY <3>2
    <3> QED
      BY <3>1, <3>2, <3>3, MeetsFacts
  <2> QED
    BY <2>1, <2>2
<1>3. /\ datafile' \in File /\ BodiesOf(datafile', offered)
      /\ tempfile' \in File /\ BodiesOf(tempfile', offered)
  BY <1>2, NoFileFacts DEF TypeOK, Bounds
<1>4. TypeOK' /\ Bounds' /\ InMemory' = {}
  <2>1. up' \in BOOLEAN
    BY DEF TypeOK
  <2> QED
    BY <1>1, <1>3, <2>1, EmptiedTypes DEF TypeOK
<1> QED
  BY <1>1, <1>2, <1>4 DEF ForgetMemory

LEMMA CrashInInsertTypes ==
    ASSUME TypeOK, Bounds, NEW m \in Msg, CrashInInsert(m)
    PROVE  TypeOK' /\ Bounds' /\ InMemory' = {}
<1>1. /\ ForgetMemory /\ up' = FALSE
      /\ datafile # NoFile
      /\ datafile' \in {Put(datafile, m, {"body"}), Put(datafile, m, {})}
      /\ offered' = offered \cup {m}
      /\ UNCHANGED <<idOf, tempfile, accepted, done, faults, swapLost, confused>>
  BY DEF CrashInInsert, Die
<1>2. PICK u \in {{}} \cup Unseen : datafile' = Put(datafile, m, u)
  BY <1>1 DEF Unseen
<1>3. PICK d \in Seq(Cell) : d = datafile
  BY <1>1 DEF TypeOK, File
<1>4. PICK g : g = Put(d, m, u)
  OBVIOUS
<1>5. g \in File /\ BodiesOf(g, offered \cup {m})
  BY <1>3, <1>4, PutBodies DEF Bounds
<1>6. datafile' \in File /\ BodiesOf(datafile', offered \cup {m})
  BY <1>2, <1>3, <1>4, <1>5
<1>7. BodiesOf(tempfile, offered \cup {m})
  BY BodiesMore DEF Bounds
<1> QED
  BY <1>1, <1>6, <1>7, EmptiedTypes DEF TypeOK

LEMMA CrashInRemoveTypes ==
    ASSUME TypeOK, Bounds, NEW o \in waitack, CrashInRemove(o)
    PROVE  TypeOK' /\ Bounds' /\ InMemory' = {}
<1>1. /\ ForgetMemory /\ up' = FALSE
      /\ o.msg # Phantom
      /\ \/ GcInterrupted(Marked(o))
         \/ datafile' = Marked(o) /\ UNCHANGED <<tempfile, swapLost>>
      /\ done' = done \cup {o.msg}
      /\ UNCHANGED <<idOf, accepted, offered, faults, confused>>
  BY DEF CrashInRemove, Die
<1>2. PICK f : f = Marked(o)
  OBVIOUS
<1>3. f \in File /\ BodiesOf(f, offered)
  BY <1>1, <1>2, MarkedFacts
<1>4. done' \in SUBSET offered
  BY <1>1 DEF TypeOK, Bounds, InMemory
<1>5. tempfile \in File /\ BodiesOf(tempfile, offered)
  BY DEF TypeOK, Bounds
<1>6. PICK c : c = Collection(f, None)
  OBVIOUS
<1>7. /\ datafile' \in File /\ BodiesOf(datafile', offered)
      /\ tempfile' \in File /\ BodiesOf(tempfile', offered)
      /\ swapLost' \in BOOLEAN
  <2>1. CASE GcInterrupted(f)
    BY <1>3, <1>5, <1>6, <2>1, InterruptedFacts DEF TypeOK
  <2>2. CASE datafile' = f /\ UNCHANGED <<tempfile, swapLost>>
    BY <1>3, <1>5, <2>2 DEF TypeOK
  <2> QED
    BY <1>1, <1>2, <2>1, <2>2
<1> QED
  BY <1>1, <1>4, <1>7, EmptiedTypes DEF TypeOK

LEMMA CrashInRecoveryTypes ==
    ASSUME TypeOK, Bounds, CrashInRecovery
    PROVE  TypeOK' /\ Bounds' /\ InMemory' = {} /\ index' = {}
<1>1. /\ ~up
      /\ GcInterrupted(Created(None))
      /\ UNCHANGED <<idOf, up, msgs, index, waitack, offset, total, valid, accepted, done,
                     offered, faults, confused>>
  BY DEF CrashInRecovery, memory
<1>2. PICK f : f = Created(None) /\ f \in File /\ BodiesOf(f, offered)
  BY CreatedFacts DEF TypeOK, Bounds
<1>3. tempfile \in File /\ BodiesOf(tempfile, offered)
  BY DEF TypeOK, Bounds
<1>4. PICK c : c = Collection(f, None)
  OBVIOUS
<1>5. /\ datafile' \in File /\ BodiesOf(datafile', offered)
      /\ tempfile' \in File /\ BodiesOf(tempfile', offered)
      /\ swapLost' \in BOOLEAN
  BY <1>1, <1>2, <1>3, <1>4, InterruptedFacts DEF TypeOK
<1>6. InMemory = {} /\ index = {}
  BY <1>1, EmptyList DEF Bounds, InMemory
<1>7. InMemory' = InMemory
  BY <1>1 DEF InMemory
<1>8. TypeOK'
  BY <1>1, <1>5, <1>7 DEF TypeOK
<1>9. Bounds'
  BY <1>1, <1>5, <1>7 DEF Bounds, IdOf, Key
<1> QED
  BY <1>1, <1>6, <1>7, <1>8, <1>9

LEMMA RemovePhantomTypes ==
    ASSUME TypeOK, Bounds, NEW o \in waitack, RemovePhantom(o)
    PROVE  /\ TypeOK' /\ Bounds'
           /\ InMemory' \subseteq InMemory
           /\ msgs' = msgs /\ waitack' = waitack \ {o} /\ o.msg = Phantom
           /\ UNCHANGED <<idOf, up, msgs, index, offset, total, valid, files, history>>
<1>1. /\ waitack' = waitack \ {o} /\ o.msg = Phantom
      /\ UNCHANGED <<idOf, up, msgs, index, offset, total, valid, files, history>>
  BY DEF RemovePhantom
<1>2. UNCHANGED <<datafile, tempfile, accepted, done, offered, faults, swapLost, confused>>
  BY <1>1 DEF files, history
<1>3. waitack' \in SUBSET waitack /\ IsFiniteSet(waitack')
  BY <1>1, FS_Subset DEF TypeOK
<1>4. InMemory' \subseteq InMemory
  BY <1>1, <1>3 DEF InMemory
<1>5. TypeOK'
  BY <1>1, <1>2, <1>3, <1>4 DEF TypeOK
<1>6. Bounds'
  BY <1>1, <1>2, <1>3, <1>4 DEF Bounds, IdOf, Key
<1> QED
  BY <1>1, <1>4, <1>5, <1>6

LEMMA TypesStep ==
    ASSUME TypeOK, Bounds, [Step]_state
    PROVE  TypeOK' /\ Bounds'
<1>1. CASE \E e \in Calls(Created(None)) : InitQueueManager(e)
  <2>1. PICK e \in Calls(Created(None)) : InitQueueManager(e)
    BY <1>1
  <2>2. PICK c : c = Collection(Created(e), e)
    OBVIOUS
  <2> QED
    BY <2>1, <2>2, InitQueueManagerFacts
<1>2. CASE \E m \in Msg : Insert(m) \/ CrashInInsert(m)
  BY <1>2, InsertTypes, CrashInInsertTypes
<1>3. ASSUME NEW o \in waitack, RemoveDurable(o)
      PROVE  TypeOK' /\ Bounds'
  <2>1. /\ up
        /\ o.msg # Phantom /\ o.msg \in offered
        /\ done' = done \cup {o.msg}
        /\ UNCHANGED <<idOf, accepted, offered, swapLost>>
        /\ \E f, e : Cutting(o, f, e) /\ Forget(o, f, e)
    BY <1>3, RemoveDurableFacts
  <2>2. PICK f, e : Cutting(o, f, e) /\ Forget(o, f, e)
    BY <2>1
  <2>3. f \in {Marked(o), datafile} /\ e \in Calls(f)
    BY <2>1, <2>2, CuttingFacts
  <2>4. f \in File /\ BodiesOf(f, offered)
    BY <2>1, <2>3, MarkedFacts
  <2>5. done' \in SUBSET offered
    BY <2>1 DEF TypeOK
  <2> QED
    BY <2>1, <2>2, <2>3, <2>4, <2>5, ForgetTypes
<1>4. ASSUME NEW o \in waitack, RemovePhantom(o) \/ CrashInRemove(o)
      PROVE  TypeOK' /\ Bounds'
  BY <1>4, RemovePhantomTypes, CrashInRemoveTypes
<1>5. CASE Front
  BY <1>5, FrontTypes
<1>6. CASE DestroyQueueMessage
  BY <1>6, ClearFacts DEF DestroyQueueMessage
<1>7. CASE Clear
  BY <1>7, ClearFacts DEF Clear
<1>8. CASE Crash
  <2>1. /\ ForgetMemory /\ up' = FALSE
        /\ UNCHANGED <<idOf, datafile, tempfile, accepted, done, offered, swapLost, confused>>
    BY <1>8 DEF Crash, Die, files, history
  <2> QED
    BY <2>1, EmptiedTypes DEF TypeOK, Bounds
<1>9. CASE CrashInRecovery
  BY <1>9, CrashInRecoveryTypes
<1>10. CASE UNCHANGED state
  <2>1. /\ UNCHANGED <<idOf, up, msgs, index, waitack, offset, total, valid>>
        /\ UNCHANGED <<datafile, tempfile, accepted, done, offered, faults, swapLost, confused>>
    BY <1>10 DEF state, memory, files, history
  <2>2. InMemory' = InMemory
    BY <2>1 DEF InMemory
  <2>3. TypeOK'
    BY <2>1, <2>2 DEF TypeOK
  <2>4. Bounds'
    BY <2>1, <2>2 DEF Bounds, IdOf, Key
  <2> QED
    BY <2>3, <2>4
<1> QED
  BY <1>1, <1>2, <1>3, <1>4, <1>5, <1>6, <1>7, <1>8, <1>9, <1>10 DEF Step, Calls

LEMMA TypesInit ==
    ASSUME Init
    PROVE  TypeOK /\ Bounds
<1>1. /\ idOf \in [Msg -> Id] /\ up = FALSE /\ msgs = <<>> /\ index = {} /\ waitack = {}
      /\ offset = <<>> /\ total = 0 /\ valid = 0 /\ datafile = NoFile /\ tempfile = NoFile
      /\ accepted = {} /\ done = {} /\ offered = {} /\ swapLost = FALSE /\ confused = FALSE
  BY DEF Init
<1>2. /\ <<>> \in Seq(Objects) /\ Range(<<>>) = {} /\ DOMAIN <<>> = {}
      /\ IsFiniteSet({}) /\ <<>> \in [{} -> Nat]
  BY EmptyList, FS_EmptySet
<1>3. InMemory = {}
  BY <1>1, <1>2 DEF InMemory
<1>4. DOMAIN offset = {} /\ offset \in [DOMAIN offset -> Nat]
  <2>1. DOMAIN offset = {}
    BY <1>1, <1>2
  <2>2. offset \in [{} -> Nat]
    BY <1>1, <1>2
  <2> QED
    BY <2>1, <2>2
<1>5. TypeOK
  <2>1. NoFile \in File
    BY NoFileFacts
  <2>2. msgs \in Seq(Objects)
    BY <1>1, <1>2
  <2>3. InMemory \cup index \subseteq DOMAIN offset /\ DOMAIN offset \in SUBSET Objects
    BY <1>1, <1>3, <1>4
  <2>4. IsFiniteSet(waitack)
    BY <1>1, <1>2
  <2>5. offset \in [DOMAIN offset -> Nat]
    BY <1>4
  <2>6. /\ idOf \in [Msg -> Id] /\ up \in BOOLEAN
        /\ swapLost \in BOOLEAN /\ confused \in BOOLEAN
    BY <1>1, Zenon
  <2>7. /\ index \in SUBSET Objects /\ waitack \in SUBSET Objects
        /\ accepted \in SUBSET offered /\ done \in SUBSET offered /\ offered \in SUBSET Msg
    <3>1. index = {} /\ waitack = {} /\ accepted = {} /\ done = {} /\ offered = {}
      BY <1>1
    <3> QED
      BY <3>1
  <2>8. total \in Nat /\ valid \in Int
    <3>1. total = 0 /\ valid = 0
      BY <1>1
    <3> QED
      BY <3>1
  <2>9. datafile \in File /\ tempfile \in File
    BY <1>1, <2>1, Zenon
  <2> QED
    BY <2>2, <2>3, <2>4, <2>5, <2>6, <2>7, <2>8, <2>9 DEF TypeOK
<1>6. Bounds
  BY <1>1, <1>3, NoFileFacts DEF Bounds
<1> QED
  BY <1>5, <1>6
-----------------------------------------------------------------------------
(* One object for a message.                                               *)

LEMMA KeptHas ==
    ASSUME TypeOK, Bounds, Single, NEW o \in waitack, o.msg # Phantom,
           NEW p \in InMemory, p.msg # Phantom, OneId(p.msg), p # o
    PROVE  p \in WithoutId(index, o)
<1>1. p \in index
  BY DEF Single
<1>2. o \in InMemory /\ o.msg \in offered /\ p.msg \in offered
  BY DEF InMemory, Bounds
<1>3. IdOf(p) = idOf[p.msg] /\ IdOf(o) = idOf[o.msg]
  BY DEF IdOf, Key
<1>4. o.msg # p.msg
  BY <1>2 DEF Single
<1>5. IdOf(p) # IdOf(o)
  BY <1>2, <1>3, <1>4 DEF OneId
<1> QED
  BY <1>1, <1>5 DEF WithoutId

\* Nothing that stays in memory has the message of an object queued.
LEMMA QueuedNew ==
    ASSUME TypeOK, Bounds, Single, NEW o \in waitack, o.msg # Phantom,
           NEW f \in File, BodiesOf(f, offered), NEW e, NEW c, Collected(f, e, c),
           ~Confuses(c.found, WithoutId(index, o)),
           NEW q \in Queued(c.found, WithoutId(index, o)), q.msg # Phantom
    PROVE  /\ OneId(q.msg)
           /\ \A p \in Range(msgs) \cup (waitack \ {o}) \cup WithoutId(index, o) : p.msg # q.msg
<1> DEFINE kept == WithoutId(index, o)
<1>1. OnlyKept(f, c.found, kept)
  BY QueuedFacts
<1>2. q.msg \in KeptIn(f) /\ \A p \in kept : IdOf(p) # IdOf(q)
  BY <1>1 DEF OnlyKept
<1>3. \A p \in kept : p.msg # q.msg
  BY <1>2 DEF IdOf
<1>4. q.msg \in Range(c.found)
  <2>1. c.found \in Seq(Msg \cup {Phantom})
    BY DEF Collected
  <2>2. \E i \in DOMAIN c.found : q.msg = c.found[i]
    BY <2>1, UnknownFacts
  <2> QED
    BY <2>2 DEF Range
<1>5. OneId(q.msg)
  BY <1>3, <1>4 DEF Confuses, OneId
<1>6. o \notin Range(msgs)
  BY DEF Single
<1>7. ASSUME NEW p \in Range(msgs) \cup (waitack \ {o}), p.msg = q.msg
      PROVE  FALSE
  <2>1. p \in InMemory /\ p # o
    BY <1>6 DEF InMemory
  <2>2. p \in kept
    BY <1>5, <1>7, <2>1, KeptHas
  <2> QED
    BY <1>3, <1>7, <2>2
<1> QED
  BY <1>3, <1>5, <1>7

LEMMA GcSingle ==
    ASSUME TypeOK, Bounds, Single, NEW o \in waitack, o.msg # Phantom,
           NEW f \in File, BodiesOf(f, offered), NEW e, NEW c, Collected(f, e, c),
           Grown(c, WithoutId(index, o)), ~Confuses(c.found, WithoutId(index, o)),
           waitack' = waitack \ {o}, UNCHANGED <<idOf, offered>>
    PROVE  Single'
<1> DEFINE kept == WithoutId(index, o)
           new  == Queued(c.found, kept)
<1>1. /\ Range(msgs') = Range(msgs) \cup new
      /\ \A i, j \in DOMAIN msgs' : msgs'[i].msg = msgs'[j].msg
            => \/ i = j
               \/ i \in DOMAIN msgs /\ j \in DOMAIN msgs /\ msgs'[i] = msgs[i] /\ msgs'[j] = msgs[j]
               \/ \E x \in new, y \in Range(msgs) : x.msg = y.msg /\ x.msg = msgs'[i].msg
      /\ index' = kept \cup new
  BY DEF Grown
<1>2. \A q \in new : q.msg # Phantom
         => \A p \in Range(msgs) \cup (waitack \ {o}) \cup kept : p.msg # q.msg
  BY QueuedNew
<1>3. \A p, q \in new : p.msg = q.msg => p = q
  <2>1. OnlyKept(f, c.found, kept)
    BY QueuedFacts
  <2> QED
    BY <2>1 DEF OnlyKept, IdOf
<1>4. kept \subseteq index
  BY DEF WithoutId
<1>5. o \notin Range(msgs)
  BY DEF Single
<1>6. \A p \in InMemory : p.msg # Phantom /\ OneId(p.msg) /\ p # o => p \in kept
  BY KeptHas
<1> HIDE DEF kept, new
<1>7. \A m : OneId(m)' = OneId(m)
  BY DEF OneId
<1>8. InMemory' = Range(msgs) \cup new \cup (waitack \ {o})
  BY <1>1 DEF InMemory
<1>9. \A i, j \in DOMAIN msgs' :
         msgs'[i].msg = msgs'[j].msg /\ msgs'[i].msg # Phantom => i = j
  BY <1>1, <1>2 DEF Single
<1>10. \A x \in Range(msgs'), y \in waitack' : x.msg = y.msg => x.msg = Phantom
  BY <1>1, <1>2 DEF Single
<1>11. \A x, y \in InMemory' \cup index' : x.msg = y.msg /\ x.msg # Phantom => x = y
  <2>1. \A x \in InMemory' \cup index' :
           x \in new \/ (x \in Range(msgs) \cup (waitack \ {o}) \cup kept /\ x \in InMemory \cup index)
    BY <1>1, <1>4, <1>8 DEF InMemory
  <2> QED
    BY <1>2, <1>3, <2>1 DEF Single
<1>12. \A x \in InMemory' : x.msg # Phantom /\ OneId(x.msg) => x \in index'
  <2>1. \A x \in InMemory' : x \in new \/ (x \in InMemory /\ x # o)
    BY <1>5, <1>8 DEF InMemory
  <2> QED
    BY <1>1, <1>6, <2>1
<1> QED
  BY <1>7, <1>9, <1>10, <1>11, <1>12 DEF Single

LEMMA EmptySingle ==
    ASSUME msgs' = <<>>, InMemory' = {}, \A o, p \in index' : o.msg = p.msg => o = p
    PROVE  Single'
<1>1. DOMAIN msgs' = {} /\ Range(msgs') = {}
  BY EmptyList
<1> QED
  BY <1>1 DEF Single

LEMMA InsertSingle ==
    ASSUME TypeOK, Bounds, Single, NEW m \in Msg, Insert(m)
    PROVE  Single'
<1>1. /\ m \notin offered /\ offered' = offered \cup {m}
      /\ UNCHANGED <<idOf, waitack>>
      /\ Refuse \/ \E e \in {None} \cup Unnoticed : Take(m, e)
  BY DEF Insert
<1>2. \A n : OneId(n)' => OneId(n)
  BY <1>1 DEF OneId
<1>3. CASE Refuse
  <2>1. UNCHANGED <<msgs, index>>
    BY <1>3 DEF Refuse
  <2>2. InMemory' = InMemory
    BY <1>1, <2>1 DEF InMemory
  <2>3. \A x \in InMemory' : x.msg # Phantom /\ OneId(x.msg)' => x \in index'
    BY <1>2, <2>1, <2>2 DEF Single
  <2>4. \A x, y \in InMemory' \cup index' : x.msg = y.msg /\ x.msg # Phantom => x = y
    BY <2>1, <2>2 DEF Single
  <2> QED
    BY <1>1, <2>1, <2>3, <2>4 DEF Single
<1>4. ASSUME NEW e \in {None} \cup Unnoticed, Take(m, e)
      PROVE  Single'
  <2>1. PICK o \in Objects : o = Object(m, 0) /\ o.msg = m
    <3>1. Object(m, 0) \in Objects /\ Object(m, 0).msg = m
      BY DEF Object, Objects
    <3> QED
      BY <3>1
  <2>2. index' = With(index, o) /\ msgs' = Append(msgs, o)
    BY <1>4, <2>1 DEF Take
  <2>3. PICK t : t = msgs'
    OBVIOUS
  <2>4. Extends(msgs, o, t)
    BY <2>2, <2>3, AppendedList DEF TypeOK
  <2>5. /\ Range(t) = Range(msgs) \cup {o}
        /\ DOMAIN t = DOMAIN msgs \cup {Len(msgs) + 1}
        /\ \A i \in DOMAIN msgs : t[i] = msgs[i]
        /\ t[Len(msgs) + 1] = o
    BY <2>4 DEF Extends
  <2>6. InMemory' = InMemory \cup {o}
    BY <1>1, <2>3, <2>5 DEF InMemory
  <2>7. /\ With(index, o) \in SUBSET (index \cup {o})
        /\ index \subseteq With(index, o)
        /\ (\A p \in index : IdOf(p) # IdOf(o)) => o \in With(index, o)
    BY WithFacts DEF TypeOK
  <2>8. m # Phantom /\ \A p \in InMemory \cup index : p.msg # m
    BY <1>1, Constants DEF Bounds
  <2>9. \A i, j \in DOMAIN t : t[i].msg = t[j].msg /\ t[i].msg # Phantom => i = j
    <3>1. \A i \in DOMAIN msgs : msgs[i] \in InMemory
      BY DEF InMemory, Range
    <3> QED
      BY <2>1, <2>5, <2>8, <3>1 DEF Single
  <2>10. \A x \in Range(t), y \in waitack : x.msg = y.msg => x.msg = Phantom
    BY <2>1, <2>5, <2>8 DEF Single, InMemory
  <2>11. \A x, y \in InMemory' \cup index' : x.msg = y.msg /\ x.msg # Phantom => x = y
    BY <2>1, <2>2, <2>6, <2>7, <2>8 DEF Single
  <2>12. OneId(m)' => o \in index'
    <3> SUFFICES ASSUME OneId(m)'
                 PROVE  \A p \in index : IdOf(p) # IdOf(o)
      BY <2>2, <2>7
    <3> TAKE p \in index
    <3>1. IdOf(o) = idOf[m] /\ IdOf(o) \in Id
      BY <2>1, KeyFacts DEF IdOf
    <3>2. p.msg = Phantom \/ (p.msg \in offered /\ p.msg # m)
      BY <2>8 DEF Bounds
    <3>3. CASE p.msg = Phantom
      BY <3>1, <3>3, Constants DEF IdOf, Key
    <3>4. CASE p.msg # Phantom
      <4>1. idOf[p.msg] # idOf[m]
        BY <1>1, <3>2, <3>4 DEF OneId
      <4> QED
        BY <3>1, <3>4, <4>1 DEF IdOf, Key
    <3> QED
      BY <3>3, <3>4
  <2>13. \A x \in InMemory' : x.msg # Phantom /\ OneId(x.msg)' => x \in index'
    BY <1>2, <2>1, <2>2, <2>6, <2>7, <2>12 DEF Single
  <2> QED
    BY <1>1, <2>3, <2>9, <2>10, <2>11, <2>13 DEF Single
<1> QED
  BY <1>1, <1>3, <1>4

LEMMA ForgetSingle ==
    ASSUME TypeOK, Bounds, Single, NEW o \in waitack, o.msg # Phantom,
           NEW f \in File, BodiesOf(f, offered),
           NEW e \in Calls(f), Forget(o, f, e), UNCHANGED <<idOf, offered>>,
           ~confused'
    PROVE  Single'
<1>1. CASE ~GcCheck(valid - 1, total)
  <2>1. index' = WithoutId(index, o) /\ waitack' = waitack \ {o} /\ msgs' = msgs
    BY <1>1 DEF Forget
  <2>2. \A p \in InMemory : p.msg # Phantom /\ OneId(p.msg) /\ p # o => p \in index'
    BY <2>1, KeptHas
  <2>3. o \notin Range(msgs)
    BY DEF Single
  <2>4. \A p \in InMemory' : p \in InMemory /\ p # o
    BY <2>1, <2>3 DEF InMemory
  <2>5. index' \subseteq index
    BY <2>1 DEF WithoutId
  <2> QED
    BY <2>1, <2>2, <2>4, <2>5 DEF Single, OneId
<1>2. CASE GcCheck(valid - 1, total) /\ Throws(f, e)
  <2>1. ForgetMemory
    BY <1>2 DEF Forget, Die
  <2>2. msgs' = <<>> /\ waitack' = {} /\ index' = {}
    BY <2>1 DEF ForgetMemory
  <2>3. InMemory' = {}
    BY <2>2, EmptyList DEF InMemory
  <2> QED
    BY <2>2, <2>3, EmptySingle
<1>3. CASE GcCheck(valid - 1, total) /\ ~Throws(f, e)
  <2>1. Gc(f, WithoutId(index, o), e) /\ waitack' = waitack \ {o}
    BY <1>3 DEF Forget
  <2>2. PICK c : c = Collection(f, e)
    OBVIOUS
  <2>3. Collected(f, e, c)
    BY <2>2, CollectionFacts DEF TypeOK, Bounds
  <2>4. WithoutId(index, o) \subseteq index
    BY DEF WithoutId
  <2>5. Grown(c, WithoutId(index, o)) /\ ~Confuses(c.found, WithoutId(index, o))
    BY <2>1, <2>2, <2>3, <2>4, GcFacts
  <2> QED
    BY <2>1, <2>3, <2>5, GcSingle
<1> QED
  BY <1>1, <1>2, <1>3

LEMMA FrontSingle ==
    ASSUME TypeOK, Bounds, Single, Front
    PROVE  Single'
<1>1. /\ InMemory' \subseteq InMemory
      /\ waitack' \subseteq waitack \cup {Head(msgs)}
      /\ UNCHANGED <<idOf, index, history>>
  BY FrontTypes
<1>2. msgs # <<>> /\ msgs' = Tail(msgs)
  BY DEF Front
<1>3. PICK t : t = Tail(msgs)
  OBVIOUS
<1>4. /\ 1 \in DOMAIN msgs /\ msgs[1] = Head(msgs)
      /\ \A i \in DOMAIN t : i + 1 \in DOMAIN msgs /\ i + 1 # 1 /\ t[i] = msgs[i + 1]
      /\ t \in Seq(Objects)
  BY <1>2, <1>3, TailList DEF TypeOK
<1>5. \A i \in DOMAIN t : i \in Nat
  BY <1>4, LenProperties
<1>6. \A i, j \in DOMAIN t : t[i].msg = t[j].msg /\ t[i].msg # Phantom => i = j
  <2> SUFFICES ASSUME NEW i \in DOMAIN t, NEW j \in DOMAIN t,
                      t[i].msg = t[j].msg, t[i].msg # Phantom
               PROVE  i = j
    OBVIOUS
  <2>1. i + 1 = j + 1
    BY <1>4 DEF Single
  <2> QED
    BY <1>5, <2>1
<1>7. \A x \in Range(t), y \in waitack' : x.msg = y.msg => x.msg = Phantom
  <2> SUFFICES ASSUME NEW x \in Range(t), NEW y \in waitack', x.msg = y.msg, x.msg # Phantom
               PROVE  FALSE
    OBVIOUS
  <2>1. PICK i \in DOMAIN t : x = t[i]
    BY DEF Range
  <2>2. x \in Range(msgs) /\ x = msgs[i + 1] /\ i + 1 \in DOMAIN msgs /\ i + 1 # 1
    BY <1>4, <2>1 DEF Range
  <2>3. CASE y \in waitack
    BY <2>2, <2>3 DEF Single
  <2>4. CASE y = msgs[1]
    BY <1>4, <2>2, <2>4 DEF Single
  <2> QED
    BY <1>1, <1>4, <2>3, <2>4
<1>8. \A n : OneId(n)' = OneId(n)
  BY <1>1 DEF OneId, history
<1> QED
  BY <1>1, <1>2, <1>3, <1>6, <1>7, <1>8 DEF Single

LEMMA SingleStep ==
    ASSUME TypeOK, Bounds, confused \/ Single, [Step]_state
    PROVE  confused' \/ Single'
<1> SUFFICES ASSUME ~confused'
             PROVE  Single'
  OBVIOUS
<1>1. CASE \E e \in Calls(Created(None)) : InitQueueManager(e)
  <2>1. PICK e \in Calls(Created(None)) : InitQueueManager(e)
    BY <1>1
  <2>2. PICK c : c = Collection(Created(e), e)
    OBVIOUS
  <2>3. /\ InMemory' = {} /\ ~up
        /\ \A o \in index' : \E i \in Unknown(c.found, {}) : o = Object(c.found[i], 0)
        /\ msgs' = msgs
    BY <2>1, <2>2, InitQueueManagerFacts
  <2>4. msgs' = <<>>
    BY <2>3 DEF Bounds
  <2>5. \A o, p \in index' : o.msg = p.msg => o = p
    BY <2>3 DEF Object
  <2> QED
    BY <2>3, <2>4, <2>5, EmptySingle
<1>2. ASSUME NEW m \in Msg, Insert(m)
      PROVE  Single'
  <2>1. Single
    BY <1>2 DEF Insert
  <2> QED
    BY <1>2, <2>1, InsertSingle
<1>3. ASSUME NEW m \in Msg, CrashInInsert(m)
      PROVE  Single'
  <2>1. InMemory' = {}
    BY <1>3, CrashInInsertTypes
  <2>2. msgs' = <<>> /\ index' = {}
    BY <1>3 DEF CrashInInsert, Die, ForgetMemory
  <2> QED
    BY <2>1, <2>2, EmptySingle
<1>4. ASSUME NEW o \in waitack, RemoveDurable(o)
      PROVE  Single'
  <2>1. /\ o.msg # Phantom
        /\ UNCHANGED <<idOf, offered>>
        /\ \E f, e : Cutting(o, f, e) /\ Forget(o, f, e)
    BY <1>4, RemoveDurableFacts
  <2>2. PICK f, e : Cutting(o, f, e) /\ Forget(o, f, e)
    BY <2>1
  <2>3. f \in {Marked(o), datafile} /\ e \in Calls(f)
    BY <2>1, <2>2, CuttingFacts
  <2>4. f \in File /\ BodiesOf(f, offered)
    BY <2>1, <2>3, MarkedFacts
  <2>5. ~confused
    BY <2>2 DEF Forget, Gc
  <2> QED
    BY <2>1, <2>2, <2>3, <2>4, <2>5, ForgetSingle
<1>5. ASSUME NEW o \in waitack, RemovePhantom(o)
      PROVE  Single'
  <2>1. /\ InMemory' \subseteq InMemory
        /\ waitack' = waitack \ {o} /\ UNCHANGED <<idOf, msgs, index, history>>
    BY <1>5, RemovePhantomTypes
  <2>2. confused' = confused /\ offered' = offered
    BY <2>1 DEF history
  <2> QED
    BY <2>1, <2>2 DEF Single, OneId
<1>6. ASSUME NEW o \in waitack, CrashInRemove(o)
      PROVE  Single'
  <2>1. InMemory' = {}
    BY <1>6, CrashInRemoveTypes
  <2>2. msgs' = <<>> /\ index' = {}
    BY <1>6 DEF CrashInRemove, Die, ForgetMemory
  <2> QED
    BY <2>1, <2>2, EmptySingle
<1>7. CASE Front
  <2>1. Single
    BY <1>7 DEF Front, history
  <2> QED
    BY <1>7, <2>1, FrontSingle
<1>8. CASE DestroyQueueMessage \/ Clear \/ Crash
  <2>1. ForgetMemory
    BY <1>8 DEF DestroyQueueMessage, Clear, ClearQueue, Crash, Die
  <2>2. msgs' = <<>> /\ index' = {} /\ waitack' = {}
    BY <2>1 DEF ForgetMemory
  <2>3. InMemory' = {}
    BY <2>2, EmptyList DEF InMemory
  <2> QED
    BY <2>2, <2>3, EmptySingle
<1>9. CASE CrashInRecovery \/ UNCHANGED state
  <2>1. UNCHANGED <<idOf, msgs, waitack, index, offered, confused>>
    BY <1>9 DEF CrashInRecovery, state, memory, history
  <2>2. InMemory' = InMemory
    BY <2>1 DEF InMemory
  <2> QED
    BY <2>1, <2>2 DEF Single, OneId
<1> QED
  BY <1>1, <1>2, <1>3, <1>4, <1>5, <1>6, <1>7, <1>8, <1>9 DEF Step, Calls
-----------------------------------------------------------------------------
(* The steps that collect or may collect, for what follows.                *)

\* Remove() of o met e, left the file to the collection c, if there is one,
\* as f and did one of three things.
Removed(o, f, e, c) ==
    /\ up
    /\ o.msg # Phantom /\ o.msg \in offered
    /\ done' = done \cup {o.msg}
    /\ UNCHANGED <<idOf, accepted, offered, swapLost>>
    /\ f \in File /\ BodiesOf(f, offered)
    /\ f \in {Marked(o), datafile}
    /\ e \in Calls(f)
    /\ faults \subseteq faults'
    /\ f = Marked(o) \/ "mark" \in faults'
    /\ e # None => e.call \in faults'
    /\ c = Collection(f, e)
    /\ Collected(f, e, c)

Uncollected(o, f) ==
    /\ datafile' = f
    /\ index' = WithoutId(index, o)
    /\ waitack' = waitack \ {o}
    /\ UNCHANGED <<up, msgs, offset, confused>>

Thrown(f, e) ==
    /\ Throws(f, e)
    /\ msgs' = <<>> /\ waitack' = {} /\ index' = {} /\ InMemory' = {} /\ up' = FALSE
    /\ datafile' = f /\ confused' = confused

Recollected(o, f, e, c) ==
    /\ Grown(c, WithoutId(index, o))
    /\ confused' = (confused \/ Confuses(c.found, WithoutId(index, o)))
    /\ Swap(f, e, c)
    /\ waitack' = waitack \ {o}
    /\ up' = up

LEMMA RemovedFacts ==
    ASSUME TypeOK, Bounds, NEW o \in waitack, RemoveDurable(o)
    PROVE  \E f, e, c : /\ Removed(o, f, e, c)
                        /\ \/ Uncollected(o, f)
                           \/ Thrown(f, e)
                           \/ Recollected(o, f, e, c)
<1>1. /\ up
      /\ o.msg # Phantom /\ o.msg \in offered
      /\ done' = done \cup {o.msg}
      /\ UNCHANGED <<idOf, accepted, offered, swapLost>>
      /\ \E f, e : Cutting(o, f, e) /\ Forget(o, f, e)
  BY RemoveDurableFacts
<1>2. PICK f, e : Cutting(o, f, e) /\ Forget(o, f, e)
  BY <1>1
<1>3. /\ f \in {Marked(o), datafile}
      /\ e \in Calls(f)
      /\ faults \subseteq faults'
      /\ f = Marked(o) \/ "mark" \in faults'
      /\ e # None => e.call \in faults'
  BY <1>1, <1>2, CuttingFacts
<1>4. f \in File /\ BodiesOf(f, offered)
  BY <1>1, <1>3, MarkedFacts
<1>5. PICK c : c = Collection(f, e)
  OBVIOUS
<1>6. Collected(f, e, c)
  BY <1>3, <1>4, <1>5, CollectionFacts DEF TypeOK, Bounds
<1>7. Removed(o, f, e, c)
  BY <1>1, <1>3, <1>4, <1>5, <1>6, Zenon DEF Removed
<1>8. CASE ~GcCheck(valid - 1, total)
  <2>1. Uncollected(o, f)
    BY <1>2, <1>8 DEF Forget, Uncollected
  <2> QED
    BY <1>7, <2>1
<1>9. CASE GcCheck(valid - 1, total) /\ Throws(f, e)
  <2>1. ForgetMemory /\ up' = FALSE /\ datafile' = f /\ confused' = confused
    BY <1>2, <1>9 DEF Forget, Die
  <2>2. msgs' = <<>> /\ waitack' = {} /\ index' = {}
    BY <2>1 DEF ForgetMemory
  <2>3. InMemory' = {}
    BY <2>2, EmptyList DEF InMemory
  <2>4. Thrown(f, e)
    BY <1>9, <2>1, <2>2, <2>3 DEF Thrown
  <2> QED
    BY <1>7, <2>4
<1>10. CASE GcCheck(valid - 1, total) /\ ~Throws(f, e)
  <2>1. Gc(f, WithoutId(index, o), e) /\ waitack' = waitack \ {o} /\ up' = up
    BY <1>2, <1>10 DEF Forget
  <2>2. WithoutId(index, o) \subseteq index
    BY DEF WithoutId
  <2>3. /\ Grown(c, WithoutId(index, o))
        /\ confused' = (confused \/ Confuses(c.found, WithoutId(index, o)))
        /\ Swap(f, e, c)
    BY <1>5, <1>6, <2>1, <2>2, GcFacts
  <2>4. Recollected(o, f, e, c)
    BY <2>1, <2>3, Zenon DEF Recollected
  <2> QED
    BY <1>7, <2>4
<1> QED
  BY <1>8, <1>9, <1>10

\* A crash left the file that was f when the collection c began, if it had:
\* as it was, collected, or without a name.
Interrupted(f, c) ==
    /\ f \in File /\ BodiesOf(f, offered)
    /\ c.temp \in File
    /\ c.found = Live(Read(f, None.call, None.at))
    /\ Collected(f, None, c)
    /\ ~TooLong(c.temp) => OnlyFound(c) /\ AllFound(c)
    /\ InMemory' = {} /\ msgs' = <<>> /\ waitack' = {} /\ index' = {} /\ up' = FALSE
    /\ UNCHANGED <<idOf, accepted, offered, faults, confused>>
    /\ \/ datafile' \in {f, c.temp} /\ swapLost' = swapLost
       \/ datafile' = NoFile /\ swapLost' = TRUE

LEMMA NoneFacts ==
    ASSUME NEW f \in File, tempfile \in File,
           NEW S, BodiesOf(f, S), BodiesOf(tempfile, S),
           NEW c, c = Collection(f, None)
    PROVE  /\ c.found = Live(Read(f, None.call, None.at))
           /\ Collected(f, None, c) /\ c.temp \in File
           /\ ~TooLong(c.temp) => OnlyFound(c) /\ AllFound(c)
<1>1. None \in Calls(f) /\ None.call = "none"
  BY DEF None, Failure, Calls
<1>2. /\ c.found = Live(Read(f, None.call, None.at))
      /\ Collected(f, None, c)
      /\ \A t \in c.images : t \in File /\ BodiesOf(t, S)
  BY <1>1, CollectionFacts
<1>3. c.temp \in File
  BY <1>2 DEF Collected
<1>4. /\ None.call # "createTemp"
      /\ None.call \notin {"createTemp", "openTemp", "writeTemp", "statTemp"}
  BY <1>1
<1>5. ~TooLong(c.temp) => OnlyFound(c) /\ AllFound(c)
  BY <1>2, <1>4 DEF Collected
<1> QED
  BY <1>2, <1>3, <1>5

LEMMA CrashInRemoveFacts ==
    ASSUME TypeOK, Bounds, NEW o \in waitack, CrashInRemove(o)
    PROVE  /\ up
           /\ o.msg # Phantom /\ o.msg \in offered
           /\ done' = done \cup {o.msg}
           /\ \E f, c : f = Marked(o) /\ Interrupted(f, c)
<1>1. /\ ForgetMemory /\ up' = FALSE
      /\ o.msg # Phantom
      /\ \/ GcInterrupted(Marked(o))
         \/ datafile' = Marked(o) /\ UNCHANGED <<tempfile, swapLost>>
      /\ done' = done \cup {o.msg}
      /\ UNCHANGED <<idOf, accepted, offered, faults, confused>>
  BY DEF CrashInRemove, Die
<1>2. PICK f : f = Marked(o)
  OBVIOUS
<1>3. f \in File /\ BodiesOf(f, offered)
  BY <1>1, <1>2, MarkedFacts
<1>4. PICK c : c = Collection(f, None)
  OBVIOUS
<1>5. tempfile \in File /\ BodiesOf(tempfile, offered)
  BY DEF TypeOK, Bounds
<1>6. /\ c.found = Live(Read(f, None.call, None.at))
      /\ Collected(f, None, c) /\ c.temp \in File
      /\ ~TooLong(c.temp) => OnlyFound(c) /\ AllFound(c)
  BY <1>3, <1>4, <1>5, NoneFacts
<1>7. \/ datafile' \in {f, c.temp} /\ swapLost' = swapLost
      \/ datafile' = NoFile /\ swapLost' = TRUE
  <2>1. CASE GcInterrupted(f)
    BY <1>3, <1>4, <1>5, <2>1, InterruptedFacts
  <2> QED
    BY <1>1, <1>2, <2>1
<1>8. msgs' = <<>> /\ waitack' = {} /\ index' = {}
  BY <1>1 DEF ForgetMemory
<1>9. InMemory' = {}
  BY <1>8, EmptyList DEF InMemory
<1>10. Interrupted(f, c)
  BY <1>1, <1>3, <1>6, <1>7, <1>8, <1>9, Zenon DEF Interrupted
<1>11. up /\ o.msg \in offered
  BY <1>1 DEF Bounds, InMemory
<1> QED
  BY <1>1, <1>2, <1>10, <1>11

LEMMA CrashInRecoveryFacts ==
    ASSUME TypeOK, Bounds, CrashInRecovery
    PROVE  /\ ~up
           /\ done' = done
           /\ \E f, c : f = Created(None) /\ Interrupted(f, c)
<1>1. /\ ~up /\ up' = FALSE
      /\ GcInterrupted(Created(None))
      /\ UNCHANGED <<idOf, msgs, index, waitack, accepted, done, offered, faults, confused>>
  BY DEF CrashInRecovery, memory, TypeOK
<1>2. PICK f : f = Created(None) /\ f \in File /\ BodiesOf(f, offered)
  BY CreatedFacts DEF TypeOK, Bounds
<1>3. PICK c : c = Collection(f, None)
  OBVIOUS
<1>4. tempfile \in File /\ BodiesOf(tempfile, offered)
  BY DEF TypeOK, Bounds
<1>5. /\ c.found = Live(Read(f, None.call, None.at))
      /\ Collected(f, None, c) /\ c.temp \in File
      /\ ~TooLong(c.temp) => OnlyFound(c) /\ AllFound(c)
  BY <1>2, <1>3, <1>4, NoneFacts
<1>6. \/ datafile' \in {f, c.temp} /\ swapLost' = swapLost
      \/ datafile' = NoFile /\ swapLost' = TRUE
  BY <1>1, <1>2, <1>3, <1>4, InterruptedFacts
<1>7. msgs' = <<>> /\ waitack' = {} /\ index' = {}
  BY <1>1 DEF Bounds
<1>8. InMemory' = {}
  BY <1>7, EmptyList DEF InMemory
<1>9. Interrupted(f, c)
  BY <1>1, <1>2, <1>5, <1>6, <1>7, <1>8, Zenon DEF Interrupted
<1> QED
  BY <1>1, <1>2, <1>9
-----------------------------------------------------------------------------
(* One valid body for a message.                                           *)

LEMMA UniqueLess ==
    ASSUME NEW f, NEW g, Unique(f),
           \A p \in ValidBodies(g) : p \in ValidBodies(f) /\ g[p] = f[p]
    PROVE  Unique(g)
  BY DEF Unique

LEMMA GainUnique ==
    ASSUME NEW f, NEW g, NEW m, NEW place, NEW S, BodiesOf(f, S), m \notin S,
           MayGain(f, m, place, g), Unique(f)
    PROVE  Unique(g)
<1>1. \A p \in ValidBodies(f) : f[p].msg # m
  BY DEF BodiesOf, ValidBodies
<1> QED
  BY <1>1 DEF MayGain, Unique

LEMMA GainsMay ==
    ASSUME NEW f, NEW g, NEW m, NEW u, Gains(f, m, u, g)
    PROVE  MayGain(f, m, Size(f) + 2, g)
  BY DEF Gains, MayGain

LEMMA SwapUnique ==
    ASSUME NEW f \in File, NEW e \in Calls(f), e.call # "createTemp",
           tempfile \in File, NEW S, BodiesOf(f, S), BodiesOf(tempfile, S),
           NEW c, c = Collection(f, e), Swap(f, e, c), Short', Unique(f)
    PROVE  Unique(datafile')
<1>1. Collected(f, e, c) /\ OnlyFound(c)
  <2>1. Collected(f, e, c)
    BY CollectionFacts
  <2>2. ~TooLong(c.temp)
    BY SwapFacts DEF Short
  <2> QED
    BY <2>1, <2>2 DEF Collected
<1>2. c.temp \in File
  BY <1>1 DEF Collected, File
<1>3. Unique(c.temp)
  BY <1>1, <1>2, OnlyFoundFacts
<1>4. datafile' \in {f, NoFile, c.temp}
  BY SwapFacts
<1>5. Unique(NoFile)
  BY NoFileFacts
<1> QED
  BY <1>3, <1>4, <1>5

LEMMA InterruptedUnique ==
    ASSUME NEW f, NEW c, Interrupted(f, c), Short', Unique(f)
    PROVE  Unique(datafile')
<1>1. /\ f \in File /\ c.temp \in File /\ Collected(f, None, c)
      /\ ~TooLong(c.temp) => OnlyFound(c)
      /\ datafile' \in {f, NoFile, c.temp}
  BY DEF Interrupted
<1>2. datafile' = c.temp => Unique(c.temp)
  BY <1>1, OnlyFoundFacts DEF Short
<1>3. Unique(NoFile)
  BY NoFileFacts
<1> QED
  BY <1>1, <1>2, <1>3

LEMMA UniqueStep ==
    ASSUME TypeOK, Bounds, Short', "createTemp" \in faults \/ Unique(datafile), [Step]_state
    PROVE  "createTemp" \in faults' \/ Unique(datafile')
<1> SUFFICES ASSUME "createTemp" \notin faults'
             PROVE  Unique(datafile')
  OBVIOUS
<1> USE NoFileFacts
<1>1. ASSUME NEW e \in Calls(Created(None)), InitQueueManager(e)
      PROVE  Unique(datafile')
  <2>1. PICK c : c = Collection(Created(e), e)
    OBVIOUS
  <2>2. /\ faults \subseteq faults' /\ (e # None => e.call \in faults')
        /\ Swap(Created(e), e, c) /\ e \in Calls(Created(e))
    BY <1>1, <2>1, InitQueueManagerFacts
  <2>3. PICK f \in File : f = Created(e)
    BY CreatedFacts DEF TypeOK
  <2>4. BodiesOf(f, offered) /\ Unique(f)
    BY <2>2, <2>3, CreatedFacts DEF TypeOK, Bounds
  <2>5. e.call # "createTemp"
    BY <2>2 DEF None, Failure
  <2> QED
    BY <2>1, <2>2, <2>3, <2>4, <2>5, SwapUnique DEF TypeOK, Bounds
<1>2. ASSUME NEW m \in Msg, Insert(m)
      PROVE  Unique(datafile')
  <2>1. /\ m \notin offered
        /\ Refuse \/ \E e \in {None} \cup Unnoticed : Take(m, e)
    BY <1>2 DEF Insert
  <2>2. CASE Refuse
    BY <2>2, MeetsFacts DEF Refuse
  <2>3. ASSUME NEW e \in {None} \cup Unnoticed, Take(m, e)
        PROVE  Unique(datafile')
    <3>1. datafile \in File /\ BodiesOf(datafile, offered) /\ ~TooLong(datafile')
      BY DEF TypeOK, Bounds, Short
    <3>2. faults \subseteq faults' /\ MayGain(datafile, m, PlaceIn(Seen(e)), datafile')
      BY <2>3, <3>1, TakeFacts
    <3> QED
      BY <2>1, <3>1, <3>2, GainUnique
  <2> QED
    BY <2>1, <2>2, <2>3
<1>3. ASSUME NEW m \in Msg, CrashInInsert(m)
      PROVE  Unique(datafile')
  <2>1. /\ m \notin offered /\ datafile # NoFile /\ faults' = faults
        /\ datafile' \in {Put(datafile, m, {"body"}), Put(datafile, m, {})}
    BY <1>3 DEF CrashInInsert
  <2>2. PICK u \in {{}} \cup Unseen : datafile' = Put(datafile, m, u)
    BY <2>1 DEF Unseen
  <2>3. PICK d \in Seq(Cell) : d = datafile
    BY <2>1 DEF TypeOK, File
  <2>4. PICK g : g = Put(d, m, u)
    OBVIOUS
  <2>5. Unique(d) /\ BodiesOf(d, offered)
    BY <2>1, <2>3 DEF Bounds
  <2>6. Unique(g)
    <3>1. Gains(d, m, u, g)
      BY <2>4, <2>5, PutBodies
    <3> QED
      BY <2>1, <2>5, <3>1, GainsMay, GainUnique
  <2> QED
    BY <2>2, <2>3, <2>4, <2>6
<1>4. ASSUME NEW o \in waitack, RemoveDurable(o)
      PROVE  Unique(datafile')
  <2>1. PICK f, e, c : /\ Removed(o, f, e, c)
                       /\ \/ Uncollected(o, f)
                          \/ Thrown(f, e)
                          \/ Recollected(o, f, e, c)
    BY <1>4, RemovedFacts
  <2>2. /\ o.msg # Phantom
        /\ f \in File /\ BodiesOf(f, offered)
        /\ f \in {Marked(o), datafile}
        /\ e \in Calls(f)
        /\ faults \subseteq faults'
        /\ e # None => e.call \in faults'
        /\ c = Collection(f, e)
    BY <2>1 DEF Removed
  <2>3. \A p \in ValidBodies(f) : p \in ValidBodies(datafile) /\ f[p] = datafile[p]
    BY <2>2, MarkedFacts
  <2>4. Unique(f)
    BY <2>2, <2>3, UniqueLess
  <2>5. e.call # "createTemp"
    BY <2>2 DEF None, Failure
  <2>6. CASE datafile' = f
    BY <2>4, <2>6
  <2>7. CASE Swap(f, e, c)
    BY <2>2, <2>4, <2>5, <2>7, SwapUnique DEF TypeOK, Bounds
  <2> QED
    BY <2>1, <2>6, <2>7 DEF Uncollected, Thrown, Recollected
<1>5. ASSUME NEW o \in waitack, RemovePhantom(o)
      PROVE  Unique(datafile')
  BY <1>5 DEF RemovePhantom, files, history
<1>6. ASSUME NEW o \in waitack, CrashInRemove(o)
      PROVE  Unique(datafile')
  <2>1. o.msg # Phantom /\ \E f, c : f = Marked(o) /\ Interrupted(f, c)
    BY <1>6, CrashInRemoveFacts
  <2>2. PICK f, c : f = Marked(o) /\ Interrupted(f, c)
    BY <2>1
  <2>3. \A p \in ValidBodies(f) : p \in ValidBodies(datafile) /\ f[p] = datafile[p]
    BY <2>1, <2>2, MarkedFacts
  <2>4. faults' = faults
    BY <2>2 DEF Interrupted
  <2> QED
    BY <2>2, <2>3, <2>4, UniqueLess, InterruptedUnique
<1>7. CASE Front
  BY <1>7 DEF Front, files, history
<1>8. CASE DestroyQueueMessage \/ Clear
  <2>1. ClearQueue /\ up' \in {up, FALSE}
    BY <1>8 DEF DestroyQueueMessage, Clear
  <2>2. faults \subseteq faults' /\ (datafile' = NoFile \/ datafile' = datafile)
    BY <2>1, ClearFacts
  <2> QED
    BY <2>2
<1>9. CASE Crash \/ UNCHANGED state
  BY <1>9 DEF Crash, state, files, history
<1>10. CASE CrashInRecovery
  <2>1. PICK f, c : f = Created(None) /\ Interrupted(f, c)
    BY <1>10, CrashInRecoveryFacts
  <2>2. faults' = faults
    BY <2>1 DEF Interrupted
  <2>3. Unique(f)
    BY <2>1, <2>2, CreatedFacts DEF TypeOK
  <2> QED
    BY <2>1, <2>3, InterruptedUnique
<1> QED
  BY <1>1, <1>2, <1>3, <1>4, <1>5, <1>6, <1>7, <1>8, <1>9, <1>10 DEF Step, Calls
-----------------------------------------------------------------------------
(* What was done with.                                                     *)

\* A collection that confuses nothing sets the offset of each object in
\* memory to the place of its message.
LEMMA PlacedRight ==
    ASSUME TypeOK, Bounds, TypeOK', Single', UNCHANGED <<idOf, offered>>,
           NEW f \in File, BodiesOf(f, offered), Unique(f),
           NEW e, NEW c, Collected(f, e, c),
           NEW kept, kept \subseteq index, Grown(c, kept), ~Confuses(c.found, kept),
           NEW x \in InMemory', x.msg # Phantom,
           NEW k \in DOMAIN c.found, c.found[k] = x.msg
    PROVE  x \in index' /\ offset'[x] = c.place[k]
<1>1. /\ c.found \in Seq(Msg \cup {Phantom})
      /\ c.place \in [DOMAIN c.found -> Nat]
      /\ \A l \in DOMAIN c.found : c.found[l] # Phantom => c.found[l] \in offered
      /\ \A i, j \in DOMAIN c.found :
            c.found[i] = c.found[j] /\ c.found[i] # Phantom => i = j
  BY KeptBodies DEF Collected
<1>2. ASSUME NEW l \in DOMAIN c.found, c.found[l] # Phantom, ~OneId(c.found[l])
      PROVE  \E p \in kept : p.msg = c.found[l]
  <2>1. c.found[l] \in Range(c.found)
    BY DEF Range
  <2>2. c.found[l] \in Range(c.found) \ {Phantom}
    BY <1>2, <2>1
  <2>3. \E n \in offered \ {c.found[l]} : idOf[n] = idOf[c.found[l]]
    BY <1>2 DEF OneId
  <2> QED
    BY <2>2, <2>3 DEF Confuses
<1>3. ASSUME NEW l \in DOMAIN c.found, Key(c.found[l]) = IdOf(x)
      PROVE  l = k
  <2>1. c.found[l] \in Msg \cup {Phantom} /\ x.msg \in Msg \cup {Phantom}
    BY <1>1, ElementOfSeq, LenProperties
  <2>2. c.found[l] # Phantom
    BY <1>3, <2>1, KeyFacts DEF IdOf
  <2>3. idOf[c.found[l]] = idOf[x.msg]
    BY <1>3, <2>2 DEF IdOf, Key
  <2>4. c.found[l] \in offered /\ x.msg \in offered
    BY <1>1, <2>2
  <2>5. CASE c.found[l] = x.msg
    BY <1>1, <2>2, <2>5
  <2>6. CASE c.found[l] # x.msg
    <3>1. ~OneId(c.found[l]) /\ ~OneId(c.found[k])
      BY <2>3, <2>4, <2>6 DEF OneId
    <3>2. PICK p \in kept : p.msg = c.found[l]
      BY <1>2, <2>2, <3>1
    <3>3. PICK q \in kept : q.msg = c.found[k]
      BY <1>2, <3>1
    <3>4. IdOf(p) = IdOf(q) /\ p \in index /\ q \in index
      BY <1>3, <3>2, <3>3 DEF IdOf
    <3>5. p = q
      BY <3>4 DEF Bounds
    <3> QED
      BY <2>6, <3>2, <3>3, <3>5
  <2> QED
    BY <2>5, <2>6
<1>4. /\ kept \subseteq index'
      /\ \A y \in DOMAIN offset' : offset'[y] = Places(c, index', y)
  BY DEF Grown
<1>5. x \in index'
  <2>1. CASE OneId(x.msg)
    <3>1. OneId(x.msg)'
      BY <2>1 DEF OneId
    <3> QED
      BY <3>1 DEF Single
  <2>2. CASE ~OneId(x.msg)
    <3>1. PICK p \in kept : p.msg = x.msg
      BY <1>2, <2>2
    <3> QED
      BY <1>4, <3>1 DEF Single
  <2> QED
    BY <2>1, <2>2
<1>6. Key(c.found[k]) = IdOf(x)
  BY DEF IdOf
<1>7. Places(c, index', x) = c.place[k]
  BY <1>1, <1>3, <1>5, <1>6, PlacesFacts
<1>8. x \in DOMAIN offset'
  BY DEF TypeOK
<1> QED
  BY <1>4, <1>5, <1>7, <1>8

\* With its record cut out, the message of an object is gone.
LEMMA CutOut ==
    ASSUME TypeOK, Bounds, Single, NothingDone, NEW o \in waitack, o.msg # Phantom,
           NEW f, f = Marked(o)
    PROVE  /\ KeptIn(f) \cap (done \cup {o.msg}) = {}
           /\ KeptIn(f) \subseteq KeptIn(datafile)
           /\ \A x \in Range(msgs) \cup (waitack \ {o}) : x.msg \notin done \cup {o.msg}
           /\ \A x \in InMemory, p \in ValidBodies(f) : f[p].msg = x.msg => offset[x] = p
<1>1. /\ \A p \in ValidBodies(f) : p \in ValidBodies(datafile) /\ f[p] = datafile[p]
      /\ offset[o] \notin ValidBodies(f)
  BY MarkedFacts
<1>2. o \in InMemory /\ o \notin Range(msgs)
  BY DEF InMemory, Single
<1>3. ASSUME NEW p \in ValidBodies(f)
      PROVE  f[p].msg \notin done \cup {o.msg} /\ f[p].msg \in KeptIn(datafile)
  <2>1. f[p].msg \in KeptIn(datafile)
    BY <1>1 DEF KeptIn
  <2>2. f[p].msg \notin done
    BY <2>1 DEF NothingDone
  <2>3. f[p].msg # o.msg
    BY <1>1, <1>2 DEF NothingDone
  <2> QED
    BY <2>1, <2>2, <2>3
<1>4. ASSUME NEW x \in Range(msgs) \cup (waitack \ {o})
      PROVE  x.msg \notin done \cup {o.msg}
  <2>1. x \in InMemory /\ x # o
    BY <1>2 DEF InMemory
  <2> QED
    BY <1>2, <2>1 DEF Single, NothingDone
<1>5. \A x \in InMemory, p \in ValidBodies(f) : f[p].msg = x.msg => offset[x] = p
  BY <1>1 DEF NothingDone
<1> QED
  BY <1>3, <1>4, <1>5 DEF KeptIn

LEMMA RemovedDone ==
    ASSUME TypeOK, Bounds, TypeOK', Short', Single, Single', Unique(datafile), NothingDone,
           faults' \cap Reviving = {}, ~confused', NEW o \in waitack, RemoveDurable(o)
    PROVE  NothingDone'
<1>1. PICK f, e, c : /\ Removed(o, f, e, c)
                     /\ \/ Uncollected(o, f)
                        \/ Thrown(f, e)
                        \/ Recollected(o, f, e, c)
  BY RemovedFacts
<1>2. /\ o.msg # Phantom /\ o.msg \in offered
      /\ done' = done \cup {o.msg}
      /\ UNCHANGED <<idOf, offered>>
      /\ f \in File /\ BodiesOf(f, offered)
      /\ f \in {Marked(o), datafile}
      /\ e \in Calls(f)
      /\ f = Marked(o) \/ "mark" \in faults'
      /\ e # None => e.call \in faults'
      /\ c = Collection(f, e)
      /\ Collected(f, e, c)
  BY <1>1 DEF Removed
<1>3. "mark" \notin faults' /\ "createTemp" \notin faults' /\ "openTemp" \notin faults'
  BY DEF Reviving
<1>4. f = Marked(o)
  BY <1>2, <1>3
<1>5. /\ KeptIn(f) \cap (done \cup {o.msg}) = {}
      /\ \A x \in Range(msgs) \cup (waitack \ {o}) : x.msg \notin done \cup {o.msg}
      /\ \A x \in InMemory, p \in ValidBodies(f) : f[p].msg = x.msg => offset[x] = p
  BY <1>2, <1>4, CutOut
<1>6. CASE Uncollected(o, f)
  <2>1. datafile' = f /\ msgs' = msgs /\ waitack' = waitack \ {o} /\ offset' = offset
    BY <1>6 DEF Uncollected
  <2>2. InMemory' = Range(msgs) \cup (waitack \ {o})
    BY <2>1 DEF InMemory
  <2>3. InMemory' \subseteq InMemory
    BY <2>2 DEF InMemory
  <2> QED
    BY <1>2, <1>5, <2>1, <2>2, <2>3 DEF NothingDone
<1>7. CASE Thrown(f, e)
  <2>1. datafile' = f /\ InMemory' = {}
    BY <1>7 DEF Thrown
  <2> QED
    BY <1>2, <1>5, <2>1 DEF NothingDone
<1>8. CASE Recollected(o, f, e, c)
  <2> DEFINE kept == WithoutId(index, o)
  <2>1. /\ Grown(c, kept) /\ ~Confuses(c.found, kept)
        /\ Swap(f, e, c) /\ waitack' = waitack \ {o}
    BY <1>8 DEF Recollected
  <2>2. e.call \notin {"createTemp", "openTemp"}
    BY <1>2, <1>3 DEF None, Failure
  <2>3. tempfile \in File /\ BodiesOf(tempfile, offered)
    BY DEF TypeOK, Bounds
  <2>4. datafile' \in {NoFile, c.temp}
    BY <1>2, <2>1, <2>2, <2>3, SwapFacts
  <2>5. OnlyFound(c) /\ c.temp \in File
    <3>1. c.temp \in {datafile', tempfile'}
      BY <1>2, <2>1, <2>3, SwapFacts
    <3>2. ~TooLong(c.temp)
      BY <3>1 DEF Short
    <3> QED
      BY <1>2, <2>2, <3>2 DEF Collected, File
  <2>6. /\ \A p \in ValidBodies(c.temp) : \E k \in DOMAIN c.found :
              c.found[k] # Phantom /\ c.temp[p].msg = c.found[k] /\ p = c.place[k]
        /\ KeptIn(c.temp) \subseteq KeptIn(f)
    BY <1>2, <2>5, OnlyFoundFacts
  <2>7. KeptIn(datafile') \subseteq KeptIn(f)
    BY <2>4, <2>6, NoFileFacts
  <2>8. OnlyKept(f, c.found, kept)
    BY <1>2, QueuedFacts
  <2>9. InMemory' = Range(msgs) \cup (waitack \ {o}) \cup Queued(c.found, kept)
    BY <2>1 DEF Grown, InMemory
  <2>10. Phantom \notin done \cup {o.msg}
    BY <1>2, Constants DEF TypeOK
  <2>11. \A x \in InMemory' : x.msg \notin done'
    BY <1>2, <1>5, <2>8, <2>9, <2>10 DEF OnlyKept
  <2>12. ASSUME NEW x \in InMemory', NEW p \in ValidBodies(datafile'),
                datafile'[p].msg = x.msg
         PROVE  offset'[x] = p
    <3>1. datafile' = c.temp
      BY <2>4, <2>12, NoFileFacts
    <3>2. PICK k \in DOMAIN c.found :
              c.found[k] # Phantom /\ c.temp[p].msg = c.found[k] /\ p = c.place[k]
      BY <2>6, <2>12, <3>1
    <3>3. c.found[k] = x.msg /\ x.msg # Phantom
      BY <2>12, <3>1, <3>2
    <3>4. kept \subseteq index
      BY DEF WithoutId
    <3>5. Unique(f)
      <4>1. \A q \in ValidBodies(f) : q \in ValidBodies(datafile) /\ f[q] = datafile[q]
        BY <1>2, MarkedFacts
      <4> QED
        BY <4>1, UniqueLess
    <3> HIDE DEF kept
    <3>6. offset'[x] = c.place[k]
      BY <1>2, <2>1, <3>3, <3>4, <3>5, PlacedRight
    <3> QED
      BY <3>2, <3>6
  <2> QED
    BY <1>2, <1>5, <2>7, <2>11, <2>12 DEF NothingDone
<1> QED
  BY <1>1, <1>6, <1>7, <1>8

LEMMA EmptiedDone ==
    ASSUME InMemory' = {}, KeptIn(datafile') \cap done' = {}
    PROVE  NothingDone'
  BY DEF NothingDone

LEMMA InterruptedDone ==
    ASSUME NEW f, NEW c, Interrupted(f, c), Short', KeptIn(f) \cap done' = {}
    PROVE  NothingDone'
<1>1. /\ f \in File /\ c.temp \in File /\ Collected(f, None, c)
      /\ ~TooLong(c.temp) => OnlyFound(c)
      /\ datafile' \in {f, NoFile, c.temp} /\ InMemory' = {}
  BY DEF Interrupted
<1>2. datafile' = c.temp => KeptIn(c.temp) \subseteq KeptIn(f)
  BY <1>1, OnlyFoundFacts DEF Short
<1>3. KeptIn(datafile') \cap done' = {}
  BY <1>1, <1>2, NoFileFacts
<1> QED
  BY <1>1, <1>3, EmptiedDone

\* A failure and a confusion are never forgotten, nor what was offered.
LEMMA Ratchets ==
    ASSUME TypeOK, Bounds, [Step]_state
    PROVE  /\ faults \subseteq faults'
           /\ confused => confused'
           /\ offered \subseteq offered'
           /\ idOf' = idOf
<1>1. ASSUME NEW e \in Calls(Created(None)), InitQueueManager(e)
      PROVE  faults \subseteq faults' /\ UNCHANGED <<confused, offered, idOf>>
  BY <1>1, MeetsFacts DEF InitQueueManager
<1>2. ASSUME NEW m \in Msg, Insert(m) \/ CrashInInsert(m)
      PROVE  faults \subseteq faults' /\ offered \subseteq offered' /\ UNCHANGED <<confused, idOf>>
  BY <1>2, MeetsFacts DEF Insert, Refuse, Take, CrashInInsert
<1>3. ASSUME NEW o \in waitack, RemoveDurable(o)
      PROVE  faults \subseteq faults' /\ (confused => confused') /\ UNCHANGED <<offered, idOf>>
  <2>1. PICK f, e, c : /\ Removed(o, f, e, c)
                       /\ \/ Uncollected(o, f)
                          \/ Thrown(f, e)
                          \/ Recollected(o, f, e, c)
    BY <1>3, RemovedFacts
  <2>2. faults \subseteq faults' /\ offered' = offered /\ idOf' = idOf
    BY <2>1 DEF Removed
  <2>3. confused => confused'
    BY <2>1, Zenon DEF Uncollected, Thrown, Recollected
  <2> QED
    BY <2>2, <2>3
<1>4. ASSUME NEW o \in waitack, RemovePhantom(o)
      PROVE  UNCHANGED <<faults, confused, offered, idOf>>
  BY <1>4 DEF RemovePhantom, history
<1>5. ASSUME NEW o \in waitack, CrashInRemove(o)
      PROVE  UNCHANGED <<faults, confused, offered, idOf>>
  BY <1>5 DEF CrashInRemove
<1>6. CASE DestroyQueueMessage \/ Clear
  <2>1. ClearQueue /\ up' \in {up, FALSE}
    BY <1>6 DEF DestroyQueueMessage, Clear
  <2>2. faults \subseteq faults' /\ UNCHANGED <<idOf, offered, confused>>
    BY <2>1, ClearFacts
  <2> QED
    BY <2>2
<1>7. CASE Front \/ Crash \/ CrashInRecovery \/ UNCHANGED state
  BY <1>7 DEF Front, Crash, CrashInRecovery, state, history
<1> QED
  BY <1>1, <1>2, <1>3, <1>4, <1>5, <1>6, <1>7 DEF Step, Calls

LEMMA InsertedDone ==
    ASSUME TypeOK, Bounds, Short', NothingDone, NEW m \in Msg, Insert(m)
    PROVE  NothingDone'
<1>1. /\ m \notin offered /\ m \notin done /\ done' = done /\ waitack' = waitack
      /\ Refuse \/ \E e \in {None} \cup Unnoticed : Take(m, e)
  BY DEF Insert, TypeOK
<1>2. CASE Refuse
  <2>1. UNCHANGED <<msgs, offset, datafile>>
    BY <1>2 DEF Refuse
  <2>2. InMemory' = InMemory
    BY <1>1, <2>1 DEF InMemory
  <2> QED
    BY <1>1, <2>1, <2>2 DEF NothingDone
<1>3. ASSUME NEW e \in {None} \cup Unnoticed, Take(m, e)
      PROVE  NothingDone'
  <2>1. msgs' = Append(msgs, Object(m, 0))
    BY <1>3 DEF Take
  <2>2. PICK d, g, place : d = datafile /\ g = datafile' /\ place = PlaceIn(Seen(e))
    OBVIOUS
  <2>3. d \in File /\ BodiesOf(d, offered) /\ ~TooLong(g)
    BY <2>2 DEF TypeOK, Bounds, Short
  <2>4. /\ offset' = [o \in DOMAIN offset \cup {Object(m, 0)} |->
                        IF o = Object(m, 0) THEN place ELSE offset[o]]
        /\ MayGain(d, m, place, g)
    BY <1>3, <2>2, <2>3, TakeFacts
  <2>5. KeptIn(d) \cap done = {} /\ \A o \in InMemory : o.msg \notin done
    BY <2>2 DEF NothingDone
  <2>6. KeptIn(g) \cap done = {}
    BY <1>1, <2>4, <2>5 DEF KeptIn, MayGain
  <2>7. Object(m, 0) \in Objects /\ Object(m, 0).msg = m
    BY DEF Object, Objects
  <2>8. InMemory' = InMemory \cup {Object(m, 0)}
    <3>1. Extends(msgs, Object(m, 0), msgs')
      BY <2>1, <2>7, AppendedList DEF TypeOK
    <3> QED
      BY <1>1, <3>1 DEF Extends, InMemory
  <2>9. \A o \in InMemory' : o.msg \notin done
    BY <1>1, <2>5, <2>7, <2>8
  <2>10. ASSUME NEW o \in InMemory', NEW p \in ValidBodies(g), g[p].msg = o.msg
         PROVE  offset'[o] = p
    <3>1. CASE o = Object(m, 0)
      <4>1. ~(p \in ValidBodies(d) /\ g[p] = d[p])
        BY <1>1, <2>3, <2>7, <2>10, <3>1 DEF BodiesOf, ValidBodies
      <4>2. p = place
        BY <2>4, <4>1 DEF MayGain
      <4> QED
        BY <2>4, <3>1, <4>2
    <3>2. CASE o # Object(m, 0)
      <4>1. o \in InMemory /\ o \in DOMAIN offset
        BY <2>8, <3>2 DEF TypeOK
      <4>2. o.msg # m
        BY <1>1, <4>1, Constants DEF Bounds
      <4>3. p \in ValidBodies(d) /\ g[p] = d[p]
        BY <2>4, <2>10, <4>2 DEF MayGain
      <4>4. offset[o] = p
        BY <2>2, <2>10, <4>1, <4>3 DEF NothingDone
      <4> QED
        BY <2>4, <3>2, <4>1, <4>4
    <3> QED
      BY <3>1, <3>2
  <2> QED
    BY <1>1, <2>2, <2>6, <2>9, <2>10 DEF NothingDone
<1> QED
  BY <1>1, <1>2, <1>3

LEMMA NothingDoneStep ==
    ASSUME TypeOK, Bounds, TypeOK', Short', confused \/ Single, confused' \/ Single',
           "createTemp" \in faults \/ Unique(datafile),
           faults \cap Reviving # {} \/ confused \/ NothingDone, [Step]_state
    PROVE  faults' \cap Reviving # {} \/ confused' \/ NothingDone'
<1> SUFFICES ASSUME faults' \cap Reviving = {}, ~confused'
             PROVE  NothingDone'
  OBVIOUS
<1>1. /\ faults \cap Reviving = {} /\ ~confused
      /\ "createTemp" \notin faults
  BY Ratchets DEF Reviving
<1>2. Single /\ Single' /\ Unique(datafile) /\ NothingDone
  BY <1>1
<1>3. KeptIn(datafile) \cap done = {}
  BY <1>2 DEF NothingDone
<1>4. ASSUME NEW e \in Calls(Created(None)), InitQueueManager(e)
      PROVE  NothingDone'
  <2>1. PICK c : c = Collection(Created(e), e)
    OBVIOUS
  <2>2. /\ InMemory' = {} /\ done' = done
        /\ e # None => e.call \in faults'
        /\ Swap(Created(e), e, c) /\ Collected(Created(e), e, c)
        /\ e \in Calls(Created(e))
    BY <1>4, <2>1, InitQueueManagerFacts
  <2>3. PICK f \in File : f = Created(e)
    BY CreatedFacts DEF TypeOK
  <2>4. BodiesOf(f, offered) /\ KeptIn(f) \subseteq KeptIn(datafile)
    BY <2>3, CreatedFacts DEF TypeOK, Bounds
  <2>5. e.call # "createTemp"
    BY <2>2 DEF None, Failure, Reviving
  <2>6. tempfile \in File /\ BodiesOf(tempfile, offered)
    BY DEF TypeOK, Bounds
  <2>7. datafile' \in {f, NoFile, c.temp} /\ c.temp \in {datafile', tempfile'}
    BY <2>1, <2>2, <2>3, <2>4, <2>6, SwapFacts
  <2>8. OnlyFound(c) /\ c.temp \in File
    <3>1. ~TooLong(c.temp)
      BY <2>7 DEF Short
    <3> QED
      BY <2>2, <2>5, <3>1 DEF Collected, File
  <2>9. KeptIn(c.temp) \subseteq KeptIn(f)
    BY <2>2, <2>3, <2>8, OnlyFoundFacts
  <2>10. KeptIn(datafile') \cap done' = {}
    BY <1>3, <2>2, <2>4, <2>7, <2>9, NoFileFacts
  <2> QED
    BY <2>2, <2>10, EmptiedDone
<1>5. ASSUME NEW m \in Msg, Insert(m)
      PROVE  NothingDone'
  BY <1>2, <1>5, InsertedDone
<1>6. ASSUME NEW m \in Msg, CrashInInsert(m)
      PROVE  NothingDone'
  <2>1. /\ m \notin offered /\ datafile # NoFile /\ done' = done
        /\ datafile' \in {Put(datafile, m, {"body"}), Put(datafile, m, {})}
    BY <1>6 DEF CrashInInsert
  <2>2. PICK u \in {{}} \cup Unseen : datafile' = Put(datafile, m, u)
    BY <2>1 DEF Unseen
  <2>3. PICK d \in Seq(Cell) : d = datafile
    BY <2>1 DEF TypeOK, File
  <2>4. PICK g : g = Put(d, m, u)
    OBVIOUS
  <2>5. Gains(d, m, u, g)
    BY <2>3, <2>4, PutBodies DEF Bounds
  <2>6. KeptIn(g) \subseteq KeptIn(d) \cup {m}
    BY <2>5 DEF Gains, KeptIn
  <2>7. m \notin done
    BY <2>1 DEF TypeOK
  <2>8. KeptIn(datafile') \cap done' = {}
    BY <1>3, <2>1, <2>2, <2>3, <2>4, <2>6, <2>7
  <2> QED
    BY <1>6, <2>8, CrashInInsertTypes, EmptiedDone
<1>7. ASSUME NEW o \in waitack, RemoveDurable(o)
      PROVE  NothingDone'
  BY <1>2, <1>7, RemovedDone
<1>8. ASSUME NEW o \in waitack, RemovePhantom(o)
      PROVE  NothingDone'
  <2>1. InMemory' \subseteq InMemory /\ UNCHANGED <<offset, files, history>>
    BY <1>8, RemovePhantomTypes DEF RemovePhantom
  <2>2. datafile' = datafile /\ done' = done /\ offset' = offset
    BY <2>1 DEF files, history
  <2> QED
    BY <1>2, <2>1, <2>2 DEF NothingDone
<1>9. ASSUME NEW o \in waitack, CrashInRemove(o)
      PROVE  NothingDone'
  <2>1. /\ o.msg # Phantom /\ done' = done \cup {o.msg}
        /\ \E f, c : f = Marked(o) /\ Interrupted(f, c)
    BY <1>9, CrashInRemoveFacts
  <2>2. PICK f, c : f = Marked(o) /\ Interrupted(f, c)
    BY <2>1
  <2>3. KeptIn(f) \cap done' = {}
    BY <1>2, <2>1, <2>2, CutOut
  <2> QED
    BY <2>2, <2>3, InterruptedDone
<1>10. CASE Front
  <2>1. UNCHANGED <<offset, datafile, done>>
    BY <1>10 DEF Front, files, history
  <2>2. InMemory' \subseteq InMemory
    BY <1>10, FrontTypes
  <2> QED
    BY <1>2, <2>1, <2>2 DEF NothingDone
<1>11. CASE DestroyQueueMessage \/ Clear
  <2>1. ClearQueue /\ up' \in {up, FALSE}
    BY <1>11 DEF DestroyQueueMessage, Clear
  <2>2. /\ InMemory' = {}
        /\ datafile' = NoFile \/ (datafile' = datafile /\ "removeFile" \in faults')
    BY <2>1, ClearFacts
  <2>3. KeptIn(datafile') = {}
    BY <2>2, NoFileFacts DEF Reviving
  <2> QED
    BY <2>2, <2>3, EmptiedDone
<1>12. CASE Crash
  <2>1. ForgetMemory /\ UNCHANGED <<datafile, done>>
    BY <1>12 DEF Crash, Die, files, history
  <2>2. InMemory' = {}
    BY <2>1, EmptyList DEF ForgetMemory, InMemory
  <2> QED
    BY <1>3, <2>1, <2>2, EmptiedDone
<1>13. CASE CrashInRecovery
  <2>1. PICK f, c : done' = done /\ f = Created(None) /\ Interrupted(f, c)
    BY <1>13, CrashInRecoveryFacts
  <2>2. KeptIn(f) \cap done' = {}
    BY <1>3, <2>1, CreatedFacts DEF TypeOK
  <2> QED
    BY <2>1, <2>2, InterruptedDone
<1>14. CASE UNCHANGED state
  <2>1. UNCHANGED <<offset, datafile, done, msgs, waitack>>
    BY <1>14 DEF state, memory, files, history
  <2>2. InMemory' = InMemory
    BY <2>1 DEF InMemory
  <2> QED
    BY <1>2, <2>1, <2>2 DEF NothingDone
<1> QED
  BY <1>4, <1>5, <1>6, <1>7, <1>8, <1>9, <1>10, <1>11, <1>12, <1>13, <1>14 DEF Step, Calls

-----------------------------------------------------------------------------
(* What was accepted.                                                      *)

LEMMA WellFormedLess ==
    ASSUME NEW f, NEW x \in BOOLEAN, NEW y \in BOOLEAN, WellFormed(f, x), y => x
    PROVE  WellFormed(f, y)
  BY DEF WellFormed

\* f has all that is accepted or in memory but the message of o.
Spared(o, f) ==
    /\ WellFormed(f, up)
    /\ BodiesOf(f, Msg)
    /\ \A x \in Range(msgs) \cup (waitack \ {o}) :
          x.msg # Phantom => offset[x] \in ValidBodies(f) /\ f[offset[x]].msg = x.msg
    /\ swapLost \/ accepted \ (done \cup {o.msg}) \subseteq KeptIn(f)

LEMMA MarkedWhole ==
    ASSUME TypeOK, Bounds, Single, NothingLost, NEW o \in waitack, o.msg # Phantom,
           NEW f, f \in {Marked(o), datafile}
    PROVE  Spared(o, f)
<1>1. o \in InMemory /\ o \notin Range(msgs)
  BY DEF InMemory, Single
<1>2. offset[o] \in ValidBodies(datafile) /\ datafile[offset[o]].msg = o.msg
  BY <1>1 DEF NothingLost, Placed
<1>3. /\ BodiesOf(f, offered)
      /\ \A p \in ValidBodies(f) : p \in ValidBodies(datafile) /\ f[p] = datafile[p]
      /\ \A p \in ValidBodies(datafile) : p # offset[o] => p \in ValidBodies(f)
      /\ Size(f) = Size(datafile)
      /\ \A p \in 1..Size(f) : f[p].is = datafile[p].is
  BY <1>2, MarkedFacts
<1>4. WellFormed(f, up)
  <2>1. WellFormed(datafile, up)
    BY DEF NothingLost
  <2>2. Size(datafile) \in Nat
    BY FileFacts DEF TypeOK
  <2>3. ASSUME NEW p \in 1..Size(f)
        PROVE  /\ f[p].is = "body" => p > 1 /\ f[p - 1].is = "length"
               /\ f[p].is = "length" => IF p < Size(f) THEN f[p + 1].is = "body" ELSE ~up
    <3>1. /\ datafile[p].is = "body" => p > 1 /\ datafile[p - 1].is = "length"
          /\ datafile[p].is = "length"
                => IF p < Size(f) THEN datafile[p + 1].is = "body" ELSE ~up
      BY <1>3, <2>1 DEF WellFormed
    <3>2. p > 1 => p - 1 \in 1..Size(f)
      BY <1>3, <2>2
    <3>3. p < Size(f) => p + 1 \in 1..Size(f)
      BY <1>3, <2>2
    <3> QED
      BY <1>3, <3>1, <3>2, <3>3
  <2> QED
    BY <2>3 DEF WellFormed
<1>5. ASSUME NEW p \in ValidBodies(datafile), datafile[p].msg # o.msg
      PROVE  p \in ValidBodies(f) /\ f[p].msg = datafile[p].msg
  <2>1. p # offset[o]
    BY <1>2, <1>5
  <2> QED
    BY <1>3, <2>1
<1>6. ASSUME NEW x \in Range(msgs) \cup (waitack \ {o}), x.msg # Phantom
      PROVE  offset[x] \in ValidBodies(f) /\ f[offset[x]].msg = x.msg
  <2>1. x \in InMemory /\ x # o
    BY <1>1 DEF InMemory
  <2>2. offset[x] \in ValidBodies(datafile) /\ datafile[offset[x]].msg = x.msg
    BY <1>6, <2>1 DEF NothingLost, Placed
  <2>3. x.msg # o.msg
    BY <1>1, <1>6, <2>1 DEF Single
  <2> QED
    BY <1>5, <2>2, <2>3
<1>7. ASSUME ~swapLost, NEW m \in accepted \ (done \cup {o.msg})
      PROVE  m \in KeptIn(f)
  <2>1. m \in KeptIn(datafile)
    BY <1>7 DEF NothingLost
  <2>2. PICK p \in ValidBodies(datafile) : datafile[p].msg = m
    BY <2>1 DEF KeptIn
  <2> QED
    BY <1>5, <1>7, <2>2 DEF KeptIn
<1>8. BodiesOf(f, Msg)
  BY <1>3, BodiesMore DEF TypeOK
<1> QED
  BY <1>4, <1>6, <1>7, <1>8 DEF Spared

\* The calls that may fail in a collection without loss.
LEMMA Harmless ==
    ASSUME NEW f, NEW e \in Calls(f), e # None => e.call \in faults',
           faults' \cap Losing = {}
    PROVE  /\ e.call \notin {"statCreate", "createTemp", "openTemp", "writeTemp", "statTemp",
                             "rename"}
           /\ e.call \notin Misreading
  BY DEF None, Failure, Losing, Misreading

\* A collection c of f has lost nothing.
Whole(f, c) ==
    /\ datafile' = c.temp /\ c.temp \in File
    /\ AllFound(c)
    /\ \A m \in KeptIn(f) : \E k \in DOMAIN c.found : c.found[k] = m
    /\ KeptIn(f) \subseteq KeptIn(datafile')

LEMMA SwapWhole ==
    ASSUME NEW f \in File, NEW open, WellFormed(f, open), BodiesOf(f, Msg),
           NEW e \in Calls(f), e # None => e.call \in faults',
           faults' \cap Losing = {},
           tempfile \in File, NEW S, BodiesOf(f, S), BodiesOf(tempfile, S),
           NEW c, c = Collection(f, e), Swap(f, e, c), Short'
    PROVE  Whole(f, c)
<1>1. /\ e.call \notin {"createTemp", "openTemp", "writeTemp", "statTemp", "rename"}
      /\ e.call \notin Misreading
  BY Harmless
<1>2. datafile' = c.temp
  BY <1>1, SwapFacts
<1>3. c.found = Live(Read(f, e.call, e.at)) /\ Collected(f, e, c) /\ AllFound(c)
  <2>1. c.found = Live(Read(f, e.call, e.at)) /\ Collected(f, e, c)
    BY CollectionFacts
  <2>2. ~TooLong(c.temp)
    BY <1>2 DEF Short
  <2> QED
    BY <1>1, <2>1, <2>2 DEF Collected
<1>4. c.temp \in File
  BY <1>1, <1>3 DEF Collected, File
<1>5. /\ \A m \in KeptIn(f) : \E k \in DOMAIN c.found : c.found[k] = m
      /\ KeptIn(f) \subseteq KeptIn(c.temp)
  BY <1>1, <1>3, <1>4, AllFoundFacts
<1> QED
  BY <1>2, <1>3, <1>4, <1>5 DEF Whole

LEMMA InterruptedLost ==
    ASSUME NEW f, NEW c, Interrupted(f, c), Short', up \in BOOLEAN, WellFormed(f, up), BodiesOf(f, Msg),
           swapLost \/ accepted \ done' \subseteq KeptIn(f)
    PROVE  NothingLost'
<1>1. /\ f \in File /\ c.temp \in File
      /\ c.found = Live(Read(f, None.call, None.at))
      /\ Collected(f, None, c)
      /\ ~TooLong(c.temp) => AllFound(c)
      /\ InMemory' = {} /\ up' = FALSE
      /\ accepted' = accepted
      /\ \/ datafile' \in {f, c.temp} /\ swapLost' = swapLost
         \/ datafile' = NoFile /\ swapLost' = TRUE
  BY DEF Interrupted
<1>2. None \in Calls(f) /\ None.call \notin Misreading
  BY DEF None, Failure, Calls, Misreading
<1>3. datafile' = c.temp => AllFound(c) /\ KeptIn(f) \subseteq KeptIn(c.temp)
  BY <1>1, <1>2, AllFoundFacts DEF Short
<1>4. /\ WellFormed(f, FALSE) /\ WellFormed(NoFile, FALSE)
      /\ datafile' = c.temp => WellFormed(c.temp, FALSE)
  BY <1>3, WellFormedLess, NoFileFacts DEF AllFound
<1>5. WellFormed(datafile', up')
  BY <1>1, <1>4
<1>6. swapLost' \/ accepted' \ done' \subseteq KeptIn(datafile')
  BY <1>1, <1>3
<1>7. Placed(datafile, InMemory)'
  BY <1>1 DEF Placed
<1> QED
  BY <1>5, <1>6, <1>7 DEF NothingLost

LEMMA RemovedLost ==
    ASSUME TypeOK, Bounds, TypeOK', Short', Single, Single', Unique(datafile), NothingLost,
           faults' \cap Losing = {}, ~confused', NEW o \in waitack, RemoveDurable(o)
    PROVE  NothingLost'
<1>1. PICK f, e, c : /\ Removed(o, f, e, c)
                     /\ \/ Uncollected(o, f)
                        \/ Thrown(f, e)
                        \/ Recollected(o, f, e, c)
  BY RemovedFacts
<1>2. /\ up
      /\ o.msg # Phantom /\ o.msg \in offered
      /\ done' = done \cup {o.msg}
      /\ UNCHANGED <<idOf, offered, accepted, swapLost>>
      /\ f \in File /\ BodiesOf(f, offered)
      /\ f \in {Marked(o), datafile}
      /\ e \in Calls(f)
      /\ e # None => e.call \in faults'
      /\ c = Collection(f, e)
      /\ Collected(f, e, c)
  BY <1>1 DEF Removed
<1>3. Spared(o, f)
  BY <1>2, MarkedWhole
<1>4. /\ WellFormed(f, up)
      /\ BodiesOf(f, Msg)
      /\ \A x \in Range(msgs) \cup (waitack \ {o}) :
            x.msg # Phantom => offset[x] \in ValidBodies(f) /\ f[offset[x]].msg = x.msg
      /\ swapLost \/ accepted \ (done \cup {o.msg}) \subseteq KeptIn(f)
  BY <1>3 DEF Spared
<1>5. CASE Uncollected(o, f)
  <2>1. datafile' = f /\ msgs' = msgs /\ waitack' = waitack \ {o} /\ offset' = offset /\ up' = up
    BY <1>5 DEF Uncollected
  <2>2. InMemory' = Range(msgs) \cup (waitack \ {o})
    BY <2>1 DEF InMemory
  <2> QED
    BY <1>2, <1>4, <2>1, <2>2 DEF NothingLost, Placed
<1>6. CASE Thrown(f, e)
  <2>1. e.call \notin Misreading
    BY <1>2, Harmless
  <2> QED
    BY <1>2, <1>4, <1>6, <2>1, WholeFound DEF Thrown
<1>7. CASE Recollected(o, f, e, c)
  <2> DEFINE kept == WithoutId(index, o)
  <2>1. /\ Grown(c, kept) /\ ~Confuses(c.found, kept)
        /\ Swap(f, e, c) /\ waitack' = waitack \ {o} /\ up' = up
    BY <1>7 DEF Recollected
  <2>2. tempfile \in File /\ BodiesOf(tempfile, offered)
    BY DEF TypeOK, Bounds
  <2>3. Whole(f, c)
    BY <1>2, <1>4, <2>1, <2>2, SwapWhole
  <2>4. /\ datafile' = c.temp /\ c.temp \in File
        /\ AllFound(c)
        /\ \A m \in KeptIn(f) : \E k \in DOMAIN c.found : c.found[k] = m
        /\ KeptIn(f) \subseteq KeptIn(datafile')
    BY <2>3 DEF Whole
  <2>5. WellFormed(datafile', up')
    BY <2>4, WellFormedLess DEF TypeOK, AllFound
  <2>6. InMemory' = Range(msgs) \cup (waitack \ {o}) \cup Queued(c.found, kept)
    BY <2>1 DEF Grown, InMemory
  <2>7. ASSUME NEW x \in InMemory', x.msg # Phantom
        PROVE  offset'[x] \in ValidBodies(c.temp) /\ c.temp[offset'[x]].msg = x.msg
    <3>1. \E k \in DOMAIN c.found : c.found[k] = x.msg
      <4>1. CASE x \in Range(msgs) \cup (waitack \ {o})
        <5>1. x.msg \in KeptIn(f)
          BY <1>4, <2>7, <4>1 DEF KeptIn
        <5> QED
          BY <2>4, <5>1
      <4>2. CASE x \in Queued(c.found, kept)
        <5>1. c.found \in Seq(Msg \cup {Phantom})
          BY <1>2 DEF Collected
        <5> QED
          BY <4>2, <5>1, UnknownFacts
      <4> QED
        BY <2>6, <4>1, <4>2
    <3>2. PICK k \in DOMAIN c.found : c.found[k] = x.msg
      BY <3>1
    <3>3. Unique(f)
      <4>1. \A q \in ValidBodies(f) : q \in ValidBodies(datafile) /\ f[q] = datafile[q]
        BY <1>2, MarkedFacts
      <4> QED
        BY <4>1, UniqueLess
    <3>4. kept \subseteq index
      BY DEF WithoutId
    <3> HIDE DEF kept
    <3>5. offset'[x] = c.place[k]
      BY <1>2, <2>1, <2>7, <3>2, <3>3, <3>4, PlacedRight
    <3>6. c.place[k] \in 1..Size(c.temp) /\ Holds(c.temp[c.place[k]], c.found[k])
      BY <2>4, <2>7, <3>2 DEF AllFound
    <3> QED
      BY <3>2, <3>5, <3>6 DEF Holds, ValidBodies
  <2>8. Placed(datafile, InMemory)'
    BY <2>4, <2>7 DEF Placed
  <2>9. swapLost' \/ accepted' \ done' \subseteq KeptIn(datafile')
    BY <1>2, <1>4, <2>4
  <2> QED
    BY <2>5, <2>8, <2>9 DEF NothingLost
<1> QED
  BY <1>1, <1>5, <1>6, <1>7

LEMMA InsertedLost ==
    ASSUME TypeOK, Bounds, Short', NothingLost, faults' \cap Losing = {}, NEW m \in Msg, Insert(m)
    PROVE  NothingLost'
<1>1. /\ up /\ up' = up
      /\ m \notin offered /\ done' = done /\ waitack' = waitack /\ swapLost' = swapLost
      /\ Refuse \/ \E e \in {None} \cup Unnoticed : Take(m, e)
  BY DEF Insert
<1>2. CASE Refuse
  <2>1. UNCHANGED <<msgs, offset, datafile, accepted>>
    BY <1>2 DEF Refuse
  <2>2. InMemory' = InMemory
    BY <1>1, <2>1 DEF InMemory
  <2> QED
    BY <1>1, <2>1, <2>2 DEF NothingLost, Placed
<1>3. ASSUME NEW e \in {None} \cup Unnoticed, Take(m, e)
      PROVE  NothingLost'
  <2>1. msgs' = Append(msgs, Object(m, 0)) /\ accepted' = accepted \cup {m}
    BY <1>3 DEF Take
  <2>2. PICK d, g, place : d = datafile /\ g = datafile' /\ place = PlaceIn(Seen(e))
    OBVIOUS
  <2>3. d \in File /\ BodiesOf(d, offered) /\ ~TooLong(g)
    BY <2>2 DEF TypeOK, Bounds, Short
  <2>4. /\ e = None
        /\ offset' = [o \in DOMAIN offset \cup {Object(m, 0)} |->
                        IF o = Object(m, 0) THEN place ELSE offset[o]]
        /\ Gains(d, m, {}, g) /\ place = Size(d) + 2
    BY <1>3, <2>2, <2>3, TakeFacts
  <2>5. /\ \A p \in ValidBodies(d) : p \in ValidBodies(g) /\ g[p] = d[p]
        /\ place \in ValidBodies(g) /\ g[place].msg = m
        /\ WellFormed(d, TRUE) => WellFormed(g, TRUE)
    BY <2>4 DEF Gains
  <2>6. up = TRUE /\ up' = TRUE
    BY <1>1 DEF TypeOK
  <2>7. WellFormed(datafile', up')
    BY <2>2, <2>5, <2>6 DEF NothingLost
  <2>8. Object(m, 0) \in Objects /\ Object(m, 0).msg = m
    BY DEF Object, Objects
  <2>9. InMemory' = InMemory \cup {Object(m, 0)}
    <3>1. Extends(msgs, Object(m, 0), msgs')
      BY <2>1, <2>8, AppendedList DEF TypeOK
    <3> QED
      BY <1>1, <3>1 DEF Extends, InMemory
  <2>10. ASSUME NEW o \in InMemory', o.msg # Phantom
         PROVE  offset'[o] \in ValidBodies(g) /\ g[offset'[o]].msg = o.msg
    <3>1. CASE o = Object(m, 0)
      BY <2>4, <2>5, <2>8, <3>1
    <3>2. CASE o # Object(m, 0)
      <4>1. o \in InMemory /\ o \in DOMAIN offset
        BY <2>9, <3>2 DEF TypeOK
      <4>2. offset[o] \in ValidBodies(d) /\ d[offset[o]].msg = o.msg
        BY <2>2, <2>10, <4>1 DEF NothingLost, Placed
      <4>3. offset'[o] = offset[o]
        BY <2>4, <3>2, <4>1
      <4> QED
        BY <2>5, <4>2, <4>3
    <3> QED
      BY <3>1, <3>2
  <2>11. Placed(datafile, InMemory)'
    BY <2>2, <2>10 DEF Placed
  <2>12. swapLost \/ accepted \ done \subseteq KeptIn(d)
    BY <2>2 DEF NothingLost
  <2>13. KeptIn(d) \cup {m} \subseteq KeptIn(g)
    BY <2>5 DEF KeptIn
  <2>14. swapLost' \/ accepted' \ done' \subseteq KeptIn(datafile')
    BY <1>1, <2>1, <2>2, <2>12, <2>13
  <2> QED
    BY <2>7, <2>11, <2>14 DEF NothingLost
<1> QED
  BY <1>1, <1>2, <1>3

LEMMA EmptiedLost ==
    ASSUME InMemory' = {}, WellFormed(datafile', up'),
           swapLost' \/ accepted' \ done' \subseteq KeptIn(datafile')
    PROVE  NothingLost'
  BY DEF NothingLost, Placed

LEMMA NothingLostStep ==
    ASSUME TypeOK, Bounds, TypeOK', Short', confused \/ Single, confused' \/ Single',
           "createTemp" \in faults \/ Unique(datafile),
           faults \cap Losing # {} \/ confused \/ NothingLost, [Step]_state
    PROVE  faults' \cap Losing # {} \/ confused' \/ NothingLost'
<1> SUFFICES ASSUME faults' \cap Losing = {}, ~confused'
             PROVE  NothingLost'
  OBVIOUS
<1>1. /\ faults \cap Losing = {} /\ ~confused
      /\ "createTemp" \notin faults
  BY Ratchets DEF Losing
<1>2. Single /\ Single' /\ Unique(datafile) /\ NothingLost
  BY <1>1
<1>3. /\ WellFormed(datafile, up)
      /\ BodiesOf(datafile, Msg) /\ datafile \in File
      /\ swapLost \/ accepted \ done \subseteq KeptIn(datafile)
      /\ up \in BOOLEAN
  BY <1>2, BodiesMore DEF NothingLost, Bounds, TypeOK
<1>4. ASSUME NEW e \in Calls(Created(None)), InitQueueManager(e)
      PROVE  NothingLost'
  <2>1. PICK c : c = Collection(Created(e), e)
    OBVIOUS
  <2>2. /\ InMemory' = {} /\ up'
        /\ e # None => e.call \in faults'
        /\ Swap(Created(e), e, c) /\ e \in Calls(Created(e))
        /\ UNCHANGED <<accepted, done, swapLost>>
    BY <1>4, <2>1, InitQueueManagerFacts
  <2>3. PICK f \in File : f = Created(e)
    BY <1>3, CreatedFacts
  <2>4. /\ WellFormed(f, up) /\ BodiesOf(f, Msg) /\ BodiesOf(f, offered)
        /\ KeptIn(f) = KeptIn(datafile)
    <3>1. e.call # "statCreate"
      BY <2>2, Harmless
    <3> QED
      BY <1>3, <2>3, <3>1, CreatedFacts DEF Bounds
  <2>5. tempfile \in File /\ BodiesOf(tempfile, offered)
    BY DEF TypeOK, Bounds
  <2>6. Whole(f, c)
    BY <2>1, <2>2, <2>3, <2>4, <2>5, SwapWhole
  <2>7. datafile' = c.temp /\ WellFormed(c.temp, TRUE) /\ KeptIn(f) \subseteq KeptIn(datafile')
    BY <2>6 DEF Whole, AllFound
  <2>8. up' = TRUE
    BY <2>2 DEF TypeOK
  <2> QED
    BY <1>3, <2>2, <2>4, <2>7, <2>8, EmptiedLost
<1>5. ASSUME NEW m \in Msg, Insert(m)
      PROVE  NothingLost'
  BY <1>2, <1>5, InsertedLost
<1>6. ASSUME NEW m \in Msg, CrashInInsert(m)
      PROVE  NothingLost'
  <2>1. /\ up /\ up' = FALSE /\ datafile # NoFile
        /\ datafile' \in {Put(datafile, m, {"body"}), Put(datafile, m, {})}
        /\ UNCHANGED <<accepted, done, swapLost>>
    BY <1>6 DEF CrashInInsert, Die
  <2>2. PICK u \in {{}} \cup Unseen : u \in {{}, {"body"}} /\ datafile' = Put(datafile, m, u)
    BY <2>1 DEF Unseen
  <2>3. PICK d \in Seq(Cell) : d = datafile
    BY <2>1 DEF TypeOK, File
  <2>4. PICK g : g = Put(d, m, u)
    OBVIOUS
  <2>5. Gains(d, m, u, g)
    BY <1>3, <2>3, <2>4, PutBodies
  <2>6. up = TRUE
    BY <2>1 DEF TypeOK
  <2>7. /\ \A p \in ValidBodies(d) : p \in ValidBodies(g) /\ g[p] = d[p]
        /\ WellFormed(d, TRUE) => WellFormed(g, TRUE) \/ WellFormed(g, FALSE)
    BY <2>2, <2>5 DEF Gains
  <2>8. WellFormed(g, FALSE)
    BY <1>3, <2>3, <2>6, <2>7, WellFormedLess
  <2>9. KeptIn(d) \subseteq KeptIn(g)
    BY <2>7 DEF KeptIn
  <2>10. datafile' = g
    BY <2>2, <2>3, <2>4
  <2> QED
    BY <1>3, <1>6, <2>1, <2>3, <2>8, <2>9, <2>10, CrashInInsertTypes, EmptiedLost
<1>7. ASSUME NEW o \in waitack, RemoveDurable(o)
      PROVE  NothingLost'
  BY <1>2, <1>7, RemovedLost
<1>8. ASSUME NEW o \in waitack, RemovePhantom(o)
      PROVE  NothingLost'
  <2>1. InMemory' \subseteq InMemory /\ UNCHANGED <<up, offset, files, history>>
    BY <1>8, RemovePhantomTypes DEF RemovePhantom
  <2>2. UNCHANGED <<up, datafile, accepted, done, swapLost, offset>>
    BY <2>1 DEF files, history
  <2> QED
    BY <1>2, <2>1, <2>2 DEF NothingLost, Placed
<1>9. ASSUME NEW o \in waitack, CrashInRemove(o)
      PROVE  NothingLost'
  <2>1. /\ o.msg # Phantom /\ done' = done \cup {o.msg}
        /\ \E f, c : f = Marked(o) /\ Interrupted(f, c)
    BY <1>9, CrashInRemoveFacts
  <2>2. PICK f, c : f = Marked(o) /\ Interrupted(f, c)
    BY <2>1
  <2>3. Spared(o, f)
    BY <1>2, <2>1, <2>2, MarkedWhole
  <2>4. /\ WellFormed(f, up) /\ BodiesOf(f, Msg)
        /\ swapLost \/ accepted \ done' \subseteq KeptIn(f)
    BY <2>1, <2>3 DEF Spared
  <2> QED
    BY <1>3, <2>2, <2>4, InterruptedLost
<1>10. CASE Front
  <2>1. UNCHANGED <<up, offset, datafile, accepted, done, swapLost>>
    BY <1>10 DEF Front, files, history
  <2>2. InMemory' \subseteq InMemory
    BY <1>10, FrontTypes
  <2> QED
    BY <1>2, <2>1, <2>2 DEF NothingLost, Placed
<1>11. CASE DestroyQueueMessage \/ Clear
  <2>1. ClearQueue /\ up' \in {up, FALSE}
    BY <1>11 DEF DestroyQueueMessage, Clear
  <2>2. /\ InMemory' = {} /\ accepted' = {}
        /\ datafile' \in {NoFile, datafile}
    BY <2>1, ClearFacts
  <2>3. WellFormed(datafile, FALSE) /\ \A x : WellFormed(NoFile, x)
    BY <1>3, WellFormedLess, NoFileFacts
  <2>4. WellFormed(datafile', up')
    BY <1>3, <2>1, <2>2, <2>3
  <2> QED
    BY <2>2, <2>4, EmptiedLost
<1>12. CASE Crash
  <2>1. ForgetMemory /\ up' = FALSE /\ UNCHANGED <<datafile, accepted, done, swapLost>>
    BY <1>12 DEF Crash, Die, files, history
  <2>2. InMemory' = {}
    BY <2>1, EmptyList DEF ForgetMemory, InMemory
  <2>3. WellFormed(datafile', up')
    BY <1>3, <2>1, WellFormedLess
  <2> QED
    BY <1>3, <2>1, <2>2, <2>3, EmptiedLost
<1>13. CASE CrashInRecovery
  <2>1. PICK f, c : done' = done /\ f = Created(None) /\ Interrupted(f, c)
    BY <1>13, CrashInRecoveryFacts
  <2>2. /\ WellFormed(f, up) /\ BodiesOf(f, Msg)
        /\ swapLost \/ accepted \ done' \subseteq KeptIn(f)
    <3>1. None.call # "statCreate"
      BY DEF None, Failure
    <3> QED
      BY <1>3, <2>1, <3>1, CreatedFacts
  <2> QED
    BY <1>3, <2>1, <2>2, InterruptedLost
<1>14. CASE UNCHANGED state
  <2>1. UNCHANGED <<up, offset, datafile, accepted, done, swapLost, msgs, waitack>>
    BY <1>14 DEF state, memory, files, history
  <2>2. InMemory' = InMemory
    BY <2>1 DEF InMemory
  <2> QED
    BY <1>2, <2>1, <2>2 DEF NothingLost, Placed
<1> QED
  BY <1>4, <1>5, <1>6, <1>7, <1>8, <1>9, <1>10, <1>11, <1>12, <1>13, <1>14 DEF Step, Calls

-----------------------------------------------------------------------------
(* An id for each message.                                                 *)

\* Only messages that share an id are confused.
LEMMA ConfusedStep ==
    ASSUME TypeOK, Bounds, confused => \E m \in offered : ~OneId(m), [Step]_state
    PROVE  confused' => \E m \in offered' : ~OneId(m)'
<1>1. /\ offered \subseteq offered'
      /\ \A m \in offered : ~OneId(m) => ~OneId(m)'
  BY Ratchets DEF OneId
<1>2. CASE confused' => confused
  BY <1>1, <1>2
<1>3. CASE confused' /\ ~confused
  <2>1. PICK o \in waitack : RemoveDurable(o)
    <3>1. CASE DestroyQueueMessage \/ Clear
      BY <1>3, <3>1 DEF DestroyQueueMessage, Clear, ClearQueue
    <3>2. CASE Crash \/ Front \/ CrashInRecovery \/ UNCHANGED state
      BY <1>3, <3>2 DEF Crash, Front, CrashInRecovery, state, history
    <3>3. ASSUME NEW o \in waitack, RemovePhantom(o) \/ CrashInRemove(o)
          PROVE  FALSE
      BY <1>3, <3>3 DEF RemovePhantom, CrashInRemove, history
    <3>4. ASSUME NEW m \in Msg, Insert(m) \/ CrashInInsert(m)
          PROVE  FALSE
      BY <1>3, <3>4 DEF Insert, CrashInInsert
    <3>5. ASSUME NEW e, InitQueueManager(e)
          PROVE  FALSE
      BY <1>3, <3>5 DEF InitQueueManager
    <3> QED
      BY <3>1, <3>2, <3>3, <3>4, <3>5 DEF Step
  <2>2. PICK f, e, c : /\ Removed(o, f, e, c)
                       /\ \/ Uncollected(o, f)
                          \/ Thrown(f, e)
                          \/ Recollected(o, f, e, c)
    BY <2>1, RemovedFacts
  <2>3. /\ BodiesOf(f, offered) /\ Collected(f, e, c)
        /\ UNCHANGED <<idOf, offered>>
    BY <2>2 DEF Removed
  <2>4. Confuses(c.found, WithoutId(index, o))
    BY <1>3, <2>2, Zenon DEF Uncollected, Thrown, Recollected
  <2>5. PICK m \in Range(c.found) \ {Phantom} : \E n \in offered \ {m} : idOf[n] = idOf[m]
    BY <2>4 DEF Confuses
  <2>6. m \in KeptIn(f)
    BY <2>3, <2>5 DEF Collected, Range
  <2>7. m \in offered
    BY <2>3, <2>6, KeptBodies
  <2>8. ~OneId(m)'
    BY <2>3, <2>5 DEF OneId
  <2> QED
    BY <2>3, <2>7, <2>8
<1> QED
  BY <1>2, <1>3

\* What Inv says of an orderly state.
InOrder ==
    /\ ~confused
    /\ \A m \in offered : OneId(m)
    /\ Single
    /\ Unique(datafile)
    /\ NothingDone
    /\ NothingLost

LEMMA OrderlyFacts ==
    ASSUME Inv, Orderly
    PROVE  InOrder /\ AllIndexed /\ faults \cap Losing = {} /\ faults \cap Reviving = {}
<1>0. InBounds
  BY DEF Inv, Orderly
<1>1. /\ faults \cap Losing = {} /\ faults \cap Reviving = {} /\ "createTemp" \notin faults
  BY DEF Orderly, Losing, Reviving
<1>2. \A m \in offered : OneId(m)
  BY DEF Orderly, OneId
<1>3. ~confused
  BY <1>2 DEF Inv
<1> QED
  BY <1>0, <1>1, <1>2, <1>3 DEF Inv, InBounds, InOrder

LEMMA OrderlyKeys ==
    ASSUME TypeOK, \A m \in offered : OneId(m),
           NEW m \in offered \cup {Phantom}, NEW n \in offered \cup {Phantom}, Key(m) = Key(n)
    PROVE  m = n
<1>1. m \in Msg \cup {Phantom} /\ n \in Msg \cup {Phantom}
  BY DEF TypeOK
<1>2. m = Phantom <=> n = Phantom
  BY <1>1, KeyFacts
<1>3. CASE m # Phantom /\ n # Phantom
  BY <1>3 DEF Key, OneId
<1> QED
  BY <1>2, <1>3

\* With the record of a message its entry in the index goes, and no other.
LEMMA SparedIndex ==
    ASSUME TypeOK, Bounds, InOrder, up, AllIndexed,
           NEW o \in waitack, o.msg # Phantom, NEW f, f = Marked(o)
    PROVE  /\ Indexed(f, WithoutId(index, o))
           /\ Spared(o, f)
           /\ KeptIn(f) = KeptIn(datafile) \ {o.msg}
<1>1. Single /\ NothingDone /\ NothingLost /\ \A m \in offered : OneId(m)
  BY DEF InOrder
<1>2. /\ KeptIn(f) \cap (done \cup {o.msg}) = {}
      /\ KeptIn(f) \subseteq KeptIn(datafile)
  BY <1>1, CutOut
<1>3. o \in InMemory /\ o.msg \in offered
  BY DEF InMemory, Bounds
<1>4. offset[o] \in ValidBodies(datafile) /\ datafile[offset[o]].msg = o.msg
  BY <1>1, <1>3 DEF NothingLost, Placed
<1>5. /\ Size(f) = Size(datafile)
      /\ \A p \in 1..Size(f) : f[p].is = datafile[p].is
      /\ \A p \in ValidBodies(f) : p \in ValidBodies(datafile) /\ f[p] = datafile[p]
      /\ \A p \in ValidBodies(datafile) : p # offset[o] => p \in ValidBodies(f)
  BY <1>4, MarkedFacts
<1>6. Indexed(datafile, index)
  BY DEF AllIndexed
<1>7. ASSUME NEW x \in index, x.msg # o.msg
      PROVE  x \in WithoutId(index, o)
  <2>1. x.msg \in offered \cup {Phantom}
    BY DEF Bounds
  <2>2. Key(x.msg) # Key(o.msg)
    BY <1>1, <1>3, <1>7, <2>1, OrderlyKeys
  <2> QED
    BY <2>2 DEF WithoutId, IdOf
<1>8. ASSUME NEW m \in KeptIn(f)
      PROVE  \E x \in WithoutId(index, o) : x.msg = m
  <2>1. PICK x \in index : x.msg = m
    BY <1>2, <1>6 DEF Indexed
  <2> QED
    BY <1>2, <1>7, <2>1
<1>9. ASSUME NEW p \in 1..Size(f), f[p].is = "zero"
      PROVE  \E x \in WithoutId(index, o) : x.msg = Phantom
  <2>1. PICK x \in index : x.msg = Phantom
    BY <1>5, <1>6, <1>9 DEF Indexed
  <2> QED
    BY <1>7, <2>1
<1>10. ASSUME NEW m \in KeptIn(datafile), m # o.msg
       PROVE  m \in KeptIn(f)
  <2>1. PICK p \in ValidBodies(datafile) : datafile[p].msg = m
    BY DEF KeptIn
  <2>2. p \in ValidBodies(f) /\ f[p].msg = m
    BY <1>4, <1>5, <1>10, <2>1
  <2> QED
    BY <2>2 DEF KeptIn
<1> QED
  BY <1>1, <1>2, <1>8, <1>9, <1>10, MarkedWhole DEF Indexed

\* The collection c finds nothing that is not kept in memory.
Known(c, kept) ==
    /\ Queued(c.found, kept) = {}
    /\ \A k \in DOMAIN c.found : \E x \in kept : x.msg = c.found[k]

LEMMA NothingQueued ==
    ASSUME TypeOK, NEW f \in File, WellFormed(f, up), up, BodiesOf(f, Msg),
           NEW e \in Calls(f), e.call \notin Misreading,
           NEW c, c.found = Live(Read(f, e.call, e.at)), Collected(f, e, c),
           NEW kept, Indexed(f, kept)
    PROVE  Known(c, kept)
<1>1. ASSUME NEW k \in DOMAIN c.found
      PROVE  \E x \in kept : x.msg = c.found[k]
  <2>1. CASE c.found[k] = Phantom
    <3>1. \E p \in 1..Size(f) : f[p].is = "zero"
      BY <2>1, WholeFound
    <3> QED
      BY <2>1, <3>1 DEF Indexed
  <2>2. CASE c.found[k] # Phantom
    BY <2>2 DEF Collected, Indexed
  <2> QED
    BY <2>1, <2>2
<1>2. Queued(c.found, kept) = {}
  <2>1. Unknown(c.found, kept) = {}
    BY <1>1 DEF Unknown, IdOf
  <2> QED
    BY <2>1 DEF Queued
<1> QED
  BY <1>1, <1>2 DEF Known

LEMMA UnindexedStep ==
    ASSUME InMemory' = {}, ~up'
    PROVE  AllIndexed'
  BY DEF AllIndexed

LEMMA StartIndexed ==
    ASSUME TypeOK, Bounds, InOrder, Short', faults' \cap Losing = {},
           NEW e \in Calls(Created(None)), InitQueueManager(e)
    PROVE  AllIndexed' /\ KeptIn(datafile') = KeptIn(datafile)
<1>1. NothingLost /\ \A m \in offered : OneId(m)
  BY DEF InOrder
<1>2. PICK c : c = Collection(Created(e), e)
  OBVIOUS
<1>3. /\ InMemory' = {}
      /\ e # None => e.call \in faults'
      /\ Swap(Created(e), e, c)
      /\ Collected(Created(e), e, c) /\ e \in Calls(Created(e))
      /\ \A i \in Unknown(c.found, {}) :
            Object(c.found[i], 0) \in index' /\ Object(c.found[i], 0).msg = c.found[i]
  BY <1>2, InitQueueManagerFacts
<1>4. PICK f \in File : f = Created(e)
  BY CreatedFacts DEF TypeOK
<1>5. /\ WellFormed(f, up) /\ BodiesOf(f, Msg) /\ BodiesOf(f, offered)
      /\ KeptIn(f) = KeptIn(datafile)
  <2>1. e.call # "statCreate"
    BY <1>3, Harmless
  <2> QED
    BY <1>1, <1>4, <2>1, CreatedFacts, BodiesMore DEF Bounds, NothingLost, TypeOK
<1>6. tempfile \in File /\ BodiesOf(tempfile, offered)
  BY DEF TypeOK, Bounds
<1>7. Whole(f, c)
  BY <1>2, <1>3, <1>4, <1>5, <1>6, SwapWhole
<1>8. datafile' = c.temp /\ c.temp \in File /\ AllFound(c) /\ KeptIn(f) \subseteq KeptIn(c.temp)
  BY <1>7 DEF Whole
<1>9. Collected(f, e, c) /\ OnlyFound(c)
  <2>1. e.call # "createTemp"
    BY <1>3, Harmless
  <2> QED
    BY <1>3, <1>4, <1>8, <2>1 DEF Collected, Short
<1>10. /\ \A p \in ValidBodies(c.temp) : \E k \in DOMAIN c.found :
             c.found[k] # Phantom /\ c.temp[p].msg = c.found[k] /\ p = c.place[k]
       /\ KeptIn(c.temp) \subseteq KeptIn(f)
  BY <1>8, <1>9, OnlyFoundFacts
<1>11. ASSUME NEW k \in DOMAIN c.found
       PROVE  \E o \in index' : o.msg = c.found[k]
  <2>1. c.found \in Seq(Msg \cup {Phantom})
    BY <1>9 DEF Collected
  <2>2. PICK i \in Unknown(c.found, {}) : Key(c.found[i]) = Key(c.found[k])
    BY <2>1, UnknownFacts
  <2>3. i \in DOMAIN c.found
    BY <2>2 DEF Unknown
  <2>4. \A l \in DOMAIN c.found : c.found[l] \in offered \cup {Phantom}
    BY <1>5, <1>9, KeptBodies DEF Collected
  <2>5. c.found[i] = c.found[k]
    BY <1>1, <2>2, <2>3, <2>4, OrderlyKeys
  <2> QED
    BY <1>3, <2>2, <2>5
<1>12. ASSUME NEW m \in KeptIn(c.temp)
       PROVE  \E o \in index' : o.msg = m
  <2>1. \E k \in DOMAIN c.found : c.found[k] = m
    BY <1>10 DEF KeptIn
  <2> QED
    BY <1>11, <2>1
<1>13. ASSUME NEW p \in 1..Size(c.temp), c.temp[p].is = "zero"
       PROVE  \E o \in index' : o.msg = Phantom
  BY <1>8, <1>11, <1>13 DEF AllFound
<1>14. Indexed(c.temp, index')
  BY <1>12, <1>13 DEF Indexed
<1> QED
  BY <1>3, <1>5, <1>8, <1>10, <1>14 DEF AllIndexed

\* What Insert() does to the file and the memory if no call fails.
LEMMA TakenWhole ==
    ASSUME TypeOK, Bounds, NEW m \in Msg, Insert(m), ~Refuse, faults' \cap Losing = {}
    PROVE  \E d, g : /\ d \in File /\ d = datafile /\ datafile' = g
                     /\ g \in File /\ Gains(d, m, {}, g)
                     /\ msgs' = Append(msgs, Object(m, 0))
                     /\ index' = With(index, Object(m, 0))
                     /\ InMemory' = InMemory \cup {Object(m, 0)}
<1>1. /\ waitack' = waitack
      /\ \E e \in {None} \cup Unnoticed : Take(m, e)
  BY DEF Insert
<1>2. PICK e \in {None} \cup Unnoticed : Take(m, e)
  BY <1>1
<1>3. msgs' = Append(msgs, Object(m, 0)) /\ index' = With(index, Object(m, 0))
  BY <1>2 DEF Take
<1>4. datafile \in File /\ BodiesOf(datafile, offered)
  BY DEF TypeOK, Bounds
<1>5. datafile' \in File /\ Gains(datafile, m, {}, datafile')
  BY <1>2, <1>4, TakeFacts
<1>6. Object(m, 0) \in Objects
  BY DEF Object, Objects
<1>7. InMemory' = InMemory \cup {Object(m, 0)}
  <2>1. Extends(msgs, Object(m, 0), msgs')
    BY <1>3, <1>6, AppendedList DEF TypeOK
  <2> QED
    BY <1>1, <2>1 DEF Extends, InMemory
<1> QED
  BY <1>3, <1>4, <1>5, <1>7

LEMMA InsertIndexed ==
    ASSUME TypeOK, Bounds, AllIndexed, NEW m \in Msg, Insert(m),
           faults' \cap Losing = {}, \A n \in offered' : OneId(n)'
    PROVE  AllIndexed'
<1>1. /\ up /\ up' = up /\ m \notin offered /\ offered' = offered \cup {m} /\ waitack' = waitack
      /\ idOf' = idOf
  BY DEF Insert
<1>2. CASE Refuse
  <2>1. UNCHANGED <<msgs, index, datafile>>
    BY <1>2 DEF Refuse
  <2>2. InMemory' = InMemory
    BY <1>1, <2>1 DEF InMemory
  <2> QED
    BY <1>1, <2>1, <2>2 DEF AllIndexed
<1>3. CASE ~Refuse
  <2>1. PICK d, g : /\ d \in File /\ d = datafile /\ datafile' = g
                    /\ g \in File /\ Gains(d, m, {}, g)
                    /\ msgs' = Append(msgs, Object(m, 0))
                    /\ index' = With(index, Object(m, 0))
                    /\ InMemory' = InMemory \cup {Object(m, 0)}
    BY <1>3, TakenWhole
  <2>2. Indexed(d, index)
    BY <1>1, <2>1 DEF AllIndexed
  <2>3. Object(m, 0).msg = m /\ Object(m, 0) \in Objects /\ m # Phantom
    BY Constants DEF Object, Objects
  <2>4. \A x \in index : IdOf(x) # IdOf(Object(m, 0))
    <3>1. SUFFICES ASSUME NEW x \in index, Key(x.msg) = Key(m)
                   PROVE  FALSE
      BY <2>3 DEF IdOf
    <3>2. x.msg \in offered \cup {Phantom} /\ x.msg \in Msg \cup {Phantom}
      BY DEF Bounds, TypeOK
    <3>3. x.msg # Phantom
      BY <2>3, <3>1, <3>2, KeyFacts
    <3>4. idOf[x.msg] = idOf[m]
      BY <2>3, <3>1, <3>3 DEF Key
    <3>5. x.msg = m
      BY <1>1, <3>2, <3>3, <3>4 DEF OneId
    <3> QED
      BY <1>1, <3>2, <3>3, <3>5
  <2>5. index \cup {Object(m, 0)} \subseteq index'
    BY <2>1, <2>4 DEF With
  <2>6. /\ \A p \in ValidBodies(g) : (p \in ValidBodies(d) /\ g[p] = d[p]) \/ g[p].msg = m
        /\ \A p \in 1..Size(g) : g[p].is = "zero" => p \in 1..Size(d) /\ d[p].is = "zero"
    BY <2>1 DEF Gains
  <2>7. Indexed(g, index')
    <3>1. KeptIn(g) \subseteq KeptIn(d) \cup {m}
      BY <2>6 DEF KeptIn
    <3>2. \A n \in KeptIn(g) : \E o \in index' : o.msg = n
      BY <2>2, <2>3, <2>5, <3>1 DEF Indexed
    <3>3. \A p \in 1..Size(g) : g[p].is = "zero" => \E o \in index' : o.msg = Phantom
      BY <2>2, <2>5, <2>6 DEF Indexed
    <3> QED
      BY <3>2, <3>3 DEF Indexed
  <2>8. \A o \in InMemory' : o.msg # Phantom
    BY <2>1, <2>3 DEF AllIndexed
  <2> QED
    BY <2>1, <2>7, <2>8 DEF AllIndexed
<1> QED
  BY <1>2, <1>3

\* Remove() in an orderly state takes the object and its record away and does
\* nothing else, whether it collects or not.
LEMMA RemoveInOrder ==
    ASSUME TypeOK, Bounds, TypeOK', Short', InOrder, up, AllIndexed,
           faults' \cap Losing = {}, faults' \cap Reviving = {}, ~confused',
           NEW o \in waitack, RemoveDurable(o)
    PROVE  /\ AllIndexed'
           /\ msgs' = msgs /\ waitack' = waitack \ {o} /\ up' = up /\ offered' = offered
           /\ KeptIn(datafile') = KeptIn(datafile) \ {o.msg}
<1>1. PICK f, e, c : /\ Removed(o, f, e, c)
                     /\ \/ Uncollected(o, f)
                        \/ Thrown(f, e)
                        \/ Recollected(o, f, e, c)
  BY RemovedFacts
<1>2. /\ o.msg # Phantom
      /\ offered' = offered
      /\ f \in File /\ BodiesOf(f, offered)
      /\ f = Marked(o) \/ "mark" \in faults'
      /\ e \in Calls(f)
      /\ e # None => e.call \in faults'
      /\ c = Collection(f, e)
      /\ Collected(f, e, c)
  BY <1>1 DEF Removed
<1>3. f = Marked(o)
  BY <1>2 DEF Reviving
<1> DEFINE kept == WithoutId(index, o)
<1>4. Indexed(f, kept) /\ Spared(o, f) /\ KeptIn(f) = KeptIn(datafile) \ {o.msg}
  BY <1>2, <1>3, SparedIndex
<1>5. WellFormed(f, up) /\ BodiesOf(f, Msg)
  BY <1>4 DEF Spared
<1>6. Single /\ \A x \in InMemory : x.msg # Phantom
  BY DEF InOrder, AllIndexed
<1>7. e.call # "createTemp" /\ e.call \notin Misreading
  BY <1>2, Harmless
<1> HIDE DEF kept
<1>8. CASE Uncollected(o, f)
  <2>1. datafile' = f /\ index' = kept /\ msgs' = msgs /\ waitack' = waitack \ {o} /\ up' = up
    BY <1>8 DEF Uncollected, kept
  <2>2. InMemory' \subseteq InMemory
    BY <2>1 DEF InMemory
  <2> QED
    BY <1>2, <1>4, <1>6, <2>1, <2>2 DEF AllIndexed
<1>9. CASE Thrown(f, e)
  BY <1>2, <1>5, <1>7, <1>9, WholeFound DEF Thrown
<1>10. CASE Recollected(o, f, e, c)
  <2>1. /\ Grown(c, kept)
        /\ Swap(f, e, c) /\ waitack' = waitack \ {o} /\ up' = up
    BY <1>10 DEF Recollected, kept
  <2>2. tempfile \in File /\ BodiesOf(tempfile, offered)
    BY DEF TypeOK, Bounds
  <2>3. Whole(f, c)
    BY <1>2, <1>5, <2>1, <2>2, SwapWhole
  <2>4. datafile' = c.temp /\ c.temp \in File /\ AllFound(c) /\ KeptIn(f) \subseteq KeptIn(c.temp)
    BY <2>3 DEF Whole
  <2>5. c.found = Live(Read(f, e.call, e.at)) /\ OnlyFound(c)
    <3>1. c.found = Live(Read(f, e.call, e.at))
      BY <1>2, <2>2, CollectionFacts
    <3>2. ~TooLong(c.temp)
      BY <2>4 DEF Short
    <3> QED
      BY <1>2, <1>7, <3>1, <3>2 DEF Collected
  <2>6. /\ \A p \in ValidBodies(c.temp) : \E k \in DOMAIN c.found :
              c.found[k] # Phantom /\ c.temp[p].msg = c.found[k] /\ p = c.place[k]
        /\ KeptIn(c.temp) \subseteq KeptIn(f)
    BY <1>2, <2>4, <2>5, OnlyFoundFacts
  <2>7. /\ Queued(c.found, kept) = {}
        /\ \A k \in DOMAIN c.found : \E x \in kept : x.msg = c.found[k]
    <3>1. Known(c, kept)
      BY <1>2, <1>4, <1>5, <1>7, <2>5, NothingQueued
    <3> QED
      BY <3>1 DEF Known
  <2>8. msgs' = msgs /\ index' = kept
    BY <2>1, <2>7 DEF Grown
  <2>9. Indexed(c.temp, kept)
    <3>1. \A m \in KeptIn(c.temp) : \E x \in kept : x.msg = m
      BY <1>4, <2>6 DEF Indexed
    <3>2. \A p \in 1..Size(c.temp) : c.temp[p].is = "zero" => \E x \in kept : x.msg = Phantom
      BY <2>4, <2>7 DEF AllFound
    <3> QED
      BY <3>1, <3>2 DEF Indexed
  <2>10. InMemory' \subseteq InMemory
    BY <2>1, <2>8 DEF InMemory
  <2>11. AllIndexed'
    BY <1>6, <2>4, <2>8, <2>9, <2>10 DEF AllIndexed
  <2>12. KeptIn(datafile') = KeptIn(datafile) \ {o.msg}
    BY <1>4, <2>4, <2>6
  <2> QED
    BY <1>2, <2>1, <2>8, <2>11, <2>12
<1> QED
  BY <1>1, <1>8, <1>9, <1>10

LEMMA AllIndexedStep ==
    ASSUME Inv, TypeOK', Bounds', Short', confused => confused', outgrown => outgrown',
           [Step]_state, Orderly', ~confused'
    PROVE  AllIndexed'
<1>1. /\ faults' \cap Losing = {} /\ faults' \cap Reviving = {}
      /\ \A n \in offered' : OneId(n)'
  BY DEF Orderly, Losing, Reviving, OneId
<1>2. TypeOK /\ Bounds
  BY DEF Inv
<1>3. Orderly
  BY <1>2, Ratchets DEF Orderly
<1>4. InOrder /\ AllIndexed
  BY <1>3, OrderlyFacts
<1>5. ASSUME NEW e \in Calls(Created(None)), InitQueueManager(e)
      PROVE  AllIndexed'
  BY <1>1, <1>2, <1>4, <1>5, StartIndexed
<1>6. ASSUME NEW m \in Msg, Insert(m)
      PROVE  AllIndexed'
  BY <1>1, <1>2, <1>4, <1>6, InsertIndexed
<1>7. ASSUME NEW m \in Msg, CrashInInsert(m)
      PROVE  AllIndexed'
  <2>1. up' = FALSE
    BY <1>7 DEF CrashInInsert, Die
  <2> QED
    BY <1>2, <1>7, <2>1, CrashInInsertTypes, UnindexedStep
<1>8. ASSUME NEW o \in waitack, RemoveDurable(o)
      PROVE  AllIndexed'
  <2>1. up
    BY <1>2, <1>8, RemoveDurableFacts
  <2> QED
    BY <1>1, <1>2, <1>4, <1>8, <2>1, RemoveInOrder
<1>9. ASSUME NEW o \in waitack, RemovePhantom(o)
      PROVE  AllIndexed'
  <2>1. InMemory' \subseteq InMemory /\ UNCHANGED <<up, index, files>>
    BY <1>2, <1>9, RemovePhantomTypes DEF RemovePhantom
  <2>2. datafile' = datafile /\ up' = up /\ index' = index
    BY <2>1 DEF files
  <2> QED
    BY <1>4, <2>1, <2>2 DEF AllIndexed
<1>10. ASSUME NEW o \in waitack, CrashInRemove(o)
       PROVE  AllIndexed'
  <2>1. up' = FALSE
    BY <1>10 DEF CrashInRemove, Die
  <2> QED
    BY <1>2, <1>10, <2>1, CrashInRemoveTypes, UnindexedStep
<1>11. CASE Front
  <2>1. InMemory' \subseteq InMemory /\ UNCHANGED <<up, index, files>>
    BY <1>2, <1>11, FrontTypes DEF Front
  <2>2. datafile' = datafile /\ up' = up /\ index' = index
    BY <2>1 DEF files
  <2> QED
    BY <1>4, <2>1, <2>2 DEF AllIndexed
<1>12. CASE DestroyQueueMessage \/ Clear
  <2>1. ClearQueue /\ up' \in {up, FALSE}
    BY <1>12 DEF DestroyQueueMessage, Clear
  <2>2. InMemory' = {} /\ datafile' = NoFile
    BY <1>1, <1>2, <2>1, ClearFacts DEF Reviving
  <2>3. Indexed(NoFile, index')
    BY NoFileFacts DEF Indexed
  <2> QED
    BY <2>2, <2>3 DEF AllIndexed
<1>13. CASE Crash
  <2>1. ForgetMemory /\ up' = FALSE
    BY <1>13 DEF Crash, Die
  <2>2. InMemory' = {}
    BY <2>1, EmptyList DEF ForgetMemory, InMemory
  <2> QED
    BY <2>1, <2>2, UnindexedStep
<1>14. CASE CrashInRecovery
  <2>1. PICK f, c : Interrupted(f, c)
    BY <1>2, <1>14, CrashInRecoveryFacts
  <2> QED
    BY <2>1, UnindexedStep DEF Interrupted
<1>15. CASE UNCHANGED state
  <2>1. UNCHANGED <<up, index, datafile, msgs, waitack>>
    BY <1>15 DEF state, memory, files
  <2>2. InMemory' = InMemory
    BY <2>1 DEF InMemory
  <2> QED
    BY <1>4, <2>1, <2>2 DEF AllIndexed
<1> QED
  BY <1>5, <1>6, <1>7, <1>8, <1>9, <1>10, <1>11, <1>12, <1>13, <1>14, <1>15 DEF Step, Calls

-----------------------------------------------------------------------------
(* The invariant.                                                          *)

LEMMA InvInit ==
    ASSUME Init
    PROVE  Inv
<1>1. TypeOK /\ Bounds
  BY TypesInit
<1>2. /\ msgs = <<>> /\ waitack = {} /\ index = {} /\ up = FALSE
      /\ datafile = NoFile /\ accepted = {} /\ confused = FALSE
  BY DEF Init
<1>3. InMemory = {} /\ Range(msgs) = {} /\ DOMAIN msgs = {}
  BY <1>2, EmptyList DEF InMemory
<1>4. Single
  BY <1>2, <1>3 DEF Single
<1>5. Unique(datafile) /\ KeptIn(datafile) = {} /\ WellFormed(datafile, up)
  BY <1>2, NoFileFacts
<1>6. NothingDone /\ NothingLost
  BY <1>2, <1>3, <1>5 DEF NothingDone, NothingLost, Placed
<1>7. AllIndexed
  BY <1>2, <1>3 DEF AllIndexed
<1>8. Short
  <2>1. tempfile = NoFile
    BY DEF Init
  <2> QED
    BY <1>2, <2>1, NoFileFacts, MessageFileAssumption DEF Short, TooLong
<1>9. ~outgrown /\ outgrown \in BOOLEAN
  BY DEF Init
<1> QED
  BY <1>1, <1>2, <1>4, <1>5, <1>6, <1>7, <1>8, <1>9 DEF Inv, InBounds

\* What a step does to outgrown.
LEMMA GrowthStep ==
    ASSUME Inv, [Next]_vars
    PROVE  /\ [Step]_state
           /\ outgrown' \in BOOLEAN
           /\ outgrown => outgrown'
           /\ outgrown' \/ Short'
<1>1. CASE Next
  <2>1. Step /\ outgrown' = (outgrown \/ TooLong(datafile') \/ TooLong(tempfile'))
    BY <1>1 DEF Next
  <2>2. /\ outgrown' \in BOOLEAN
        /\ outgrown => outgrown'
        /\ outgrown' \/ (~TooLong(datafile') /\ ~TooLong(tempfile'))
    BY <2>1, Zenon
  <2> QED
    BY <2>1, <2>2 DEF Short
<1>2. CASE UNCHANGED vars
  <2>1. UNCHANGED state /\ UNCHANGED <<datafile, tempfile, outgrown>>
    BY <1>2 DEF vars, state, files
  <2>2. Short' = Short
    BY <2>1 DEF Short
  <2> QED
    BY <2>1, <2>2 DEF Inv, InBounds
<1> QED
  BY <1>1, <1>2

\* As long as no file outgrows its offsets.
LEMMA InBoundsStep ==
    ASSUME Inv, TypeOK', confused' \/ Single', Short', ~outgrown, [Step]_state
    PROVE  InBounds'
<1>1. /\ TypeOK /\ Bounds /\ (confused \/ Single)
      /\ "createTemp" \in faults \/ Unique(datafile)
      /\ faults \cap Reviving # {} \/ confused \/ NothingDone
      /\ faults \cap Losing # {} \/ confused \/ NothingLost
  BY DEF Inv, InBounds
<1>2. "createTemp" \in faults' \/ Unique(datafile')
  BY <1>1, UniqueStep
<1>3. faults' \cap Reviving # {} \/ confused' \/ NothingDone'
  BY <1>1, NothingDoneStep
<1>4. faults' \cap Losing # {} \/ confused' \/ NothingLost'
  BY <1>1, NothingLostStep
<1> QED
  BY <1>2, <1>3, <1>4 DEF InBounds

LEMMA InvStep ==
    ASSUME Inv, [Next]_vars
    PROVE  Inv'
<1>1. /\ TypeOK /\ Bounds
      /\ confused \/ Single
      /\ confused => \E m \in offered : ~OneId(m)
  BY DEF Inv
<1>2. /\ [Step]_state
      /\ outgrown' \in BOOLEAN
      /\ outgrown => outgrown'
      /\ outgrown' \/ Short'
  BY GrowthStep
<1>3. TypeOK' /\ Bounds'
  BY <1>1, <1>2, TypesStep
<1>4. confused' \/ Single'
  BY <1>1, <1>2, SingleStep
<1>5. outgrown' \/ InBounds'
  BY <1>2, <1>3, <1>4, InBoundsStep
<1>6. confused' => \E m \in offered' : ~OneId(m)'
  BY <1>1, <1>2, ConfusedStep
<1>7. Orderly' => AllIndexed'
  <2>1. SUFFICES ASSUME Orderly'
                 PROVE  AllIndexed'
    OBVIOUS
  <2>2. ~confused'
    BY <1>6, <2>1 DEF Orderly, OneId
  <2>3. Short'
    BY <1>2, <2>1 DEF Orderly
  <2> QED
    BY <1>1, <1>2, <1>3, <2>1, <2>2, <2>3, Ratchets, AllIndexedStep
<1> QED
  BY <1>2, <1>3, <1>4, <1>5, <1>6, <1>7 DEF Inv

LEMMA Invariance == Spec => []Inv
<1>1. Init => Inv
  BY InvInit
<1>2. Inv /\ [Next]_vars => Inv'
  BY InvStep
<1> QED
  BY <1>1, <1>2, PTL DEF Spec

\* Memory and files hold what they are declared to hold: offsets of all objects
\* in memory, and files of which every cell is a length, a body or zeros.
THEOREM Typed == Spec => [](TypeOK /\ outgrown \in BOOLEAN)
<1>1. Inv => TypeOK /\ outgrown \in BOOLEAN
  BY DEF Inv
<1> QED
  BY <1>1, Invariance, PTL

\* A message Insert accepted is in the file until it is acknowledged, through
\* any crashes and collections, unless one of the calls in Losing failed, a
\* crash hit the swap of the files, a collection met a shared id or a file
\* became too long for its offsets.
THEOREM LossesExplained == Spec => []LossExplained
<1>1. ASSUME Inv
      PROVE  LossExplained
  <2>1. CASE faults \cap Losing = {} /\ ~confused /\ ~outgrown
    <3>1. NothingLost /\ datafile \in File /\ BodiesOf(datafile, Msg)
      BY <1>1, <2>1, BodiesMore DEF Inv, InBounds, Bounds, TypeOK
    <3>2. Stored(datafile) = KeptIn(datafile)
      BY <3>1, WholeFacts DEF NothingLost
    <3> QED
      BY <3>1, <3>2 DEF LossExplained, NothingLost
  <2>2. CASE faults \cap Losing # {} \/ confused \/ outgrown
    BY <2>2 DEF LossExplained
  <2> QED
    BY <2>1, <2>2
<1> QED
  BY <1>1, Invariance, PTL

\* What was acknowledged, or went with its queue, comes back neither from the
\* file nor to memory, unless one of the calls in Reviving failed, a
\* collection met a shared id or a file became too long for its offsets.
THEOREM ReturnsExplained == Spec => []ReturnExplained
<1>1. ASSUME Inv
      PROVE  ReturnExplained
  <2>1. CASE faults \cap Reviving = {} /\ ~confused /\ ~outgrown
    <3>1. NothingDone /\ datafile \in File
      BY <1>1, <2>1 DEF Inv, InBounds, TypeOK
    <3>2. Stored(datafile) \subseteq KeptIn(datafile)
      BY <3>1, StoredFacts
    <3> QED
      BY <3>1, <3>2 DEF ReturnExplained, NothingDone, InMemory
  <2>2. CASE faults \cap Reviving # {} \/ confused \/ outgrown
    BY <2>2 DEF ReturnExplained
  <2> QED
    BY <2>1, <2>2
<1> QED
  BY <1>1, Invariance, PTL

\* load() can read the data file to its end at any time, in particular after
\* any crash, unless one of the calls in Losing failed, a collection met a
\* shared id or a file became too long for its offsets.
THEOREM StartsPossible == Spec => []StartsAgain
<1>1. ASSUME Inv
      PROVE  StartsAgain
  <2>1. CASE faults \cap Losing = {} /\ ~confused /\ ~outgrown
    <3>1. NothingLost /\ datafile \in File /\ BodiesOf(datafile, Msg)
      BY <1>1, <2>1, BodiesMore DEF Inv, InBounds, Bounds, TypeOK
    <3>2. Readable(datafile)
      BY <3>1, WholeFacts DEF NothingLost
    <3> QED
      BY <3>2 DEF StartsAgain
  <2>2. CASE faults \cap Losing # {} \/ confused \/ outgrown
    BY <2>2 DEF StartsAgain
  <2> QED
    BY <2>1, <2>2
<1> QED
  BY <1>1, Invariance, PTL

-----------------------------------------------------------------------------
(* The queue that the bytes promise.                                       *)

LEMMA NamesFacts ==
    ASSUME NEW s \in Seq(Objects)
    PROVE  /\ \A x \in Objects : Names(Append(s, x)) = Append(Names(s), x.msg)
           /\ s # <<>> => /\ Names(s) # <<>>
                          /\ Names(Tail(s)) = Tail(Names(s))
                          /\ Head(Names(s)) = Head(s).msg
<1>1. DOMAIN s = 1..Len(s) /\ Len(s) \in Nat
  BY LenProperties
<1>2. \A i \in 1..Len(s) : s[i].msg \in Msg \cup {Phantom}
  BY ElementOfSeq, ZenonT(60) DEF Objects
<1>3. PICK r \in [1..Len(s) -> Msg \cup {Phantom}] : r = Names(s)
  BY <1>1, <1>2 DEF Names
<1>4. r \in Seq(Msg \cup {Phantom}) /\ Len(r) = Len(s) /\ \A i \in 1..Len(s) : r[i] = s[i].msg
  BY <1>1, <1>3 DEF Names
<1>5. ASSUME NEW x \in Objects
      PROVE  Names(Append(s, x)) = Append(r, x.msg)
  <2>1. PICK t \in Seq(Objects) : t = Append(s, x)
    BY AppendProperties
  <2>2. DOMAIN t = 1..(Len(s) + 1) /\ \A i \in 1..(Len(s) + 1) :
           t[i] = IF i = Len(s) + 1 THEN x ELSE s[i]
    BY <1>1, <2>1
  <2>3. x.msg \in Msg \cup {Phantom}
    BY DEF Objects
  <2>4. PICK q \in Seq(Msg \cup {Phantom}) : q = Append(r, x.msg)
    BY <1>4, <2>3, AppendProperties
  <2>5. DOMAIN q = 1..(Len(s) + 1) /\ \A i \in 1..(Len(s) + 1) :
           q[i] = IF i = Len(s) + 1 THEN x.msg ELSE r[i]
    BY <1>1, <1>4, <2>3, <2>4
  <2>6. \A i \in 1..(Len(s) + 1) : q[i] = t[i].msg
    BY <1>1, <1>4, <2>2, <2>5
  <2>7. q = [i \in DOMAIN q |-> q[i]]
    BY <2>4
  <2>8. q = [i \in DOMAIN t |-> t[i].msg]
    BY <2>2, <2>5, <2>6, <2>7
  <2> QED
    BY <2>1, <2>4, <2>8 DEF Names
<1>6. ASSUME s # <<>>
      PROVE  /\ r # <<>>
             /\ Names(Tail(s)) = Tail(r)
             /\ Head(r) = Head(s).msg
  <2>1. Len(s) >= 1
    BY <1>1, <1>6, EmptySeq
  <2>2. r # <<>>
    BY <1>4, <2>1
  <2>3. Head(r) = Head(s).msg
    <3>1. Head(r) = r[1] /\ Head(s) = s[1]
      BY <1>4, <1>6, <2>2, HeadTailProperties
    <3> QED
      BY <1>4, <2>1, <3>1
  <2>4. PICK t, q : t = Tail(s) /\ q = Tail(r)
    OBVIOUS
  <2>5. /\ t \in Seq(Objects) /\ Len(t) = Len(s) - 1
        /\ \A i \in 1..Len(t) : t[i] = s[i + 1]
    BY <1>6, <2>4, HeadTailProperties
  <2>6. /\ q \in Seq(Msg \cup {Phantom}) /\ Len(q) = Len(s) - 1
        /\ \A i \in 1..Len(q) : q[i] = r[i + 1]
    BY <1>4, <2>2, <2>4, HeadTailProperties
  <2>7. DOMAIN t = 1..(Len(s) - 1) /\ DOMAIN q = 1..(Len(s) - 1)
    BY <2>5, <2>6, LenProperties
  <2>8. \A i \in 1..(Len(s) - 1) : q[i] = t[i].msg
    <3>1. \A i \in 1..(Len(s) - 1) : i + 1 \in 1..Len(s)
      BY <1>1
    <3>2. \A i \in 1..(Len(s) - 1) : r[i + 1] = s[i + 1].msg
      BY <1>4, <3>1
    <3> QED
      BY <2>5, <2>6, <3>2
  <2>9. q = [i \in DOMAIN t |-> t[i].msg]
    <3>1. q = [i \in DOMAIN q |-> q[i]]
      BY <2>6
    <3> QED
      BY <2>7, <2>8, <3>1
  <2> QED
    BY <2>2, <2>3, <2>4, <2>9 DEF Names
<1> QED
  BY <1>3, <1>5, <1>6

\* Both files of an orderly crash hold the same.
LEMMA InterruptedLog ==
    ASSUME NEW f, NEW c, Interrupted(f, c), Short',
           NEW open, WellFormed(f, open), BodiesOf(f, Msg)
    PROVE  KeptIn(datafile') \in {KeptIn(f), {}}
<1>1. /\ f \in File /\ c.temp \in File
      /\ c.found = Live(Read(f, None.call, None.at))
      /\ Collected(f, None, c)
      /\ ~TooLong(c.temp) => OnlyFound(c) /\ AllFound(c)
      /\ datafile' \in {f, c.temp, NoFile}
  BY DEF Interrupted
<1>2. None \in Calls(f) /\ None.call \notin Misreading
  BY DEF None, Failure, Calls, Misreading
<1>3. datafile' = c.temp => KeptIn(f) \subseteq KeptIn(c.temp)
  BY <1>1, <1>2, AllFoundFacts DEF Short
<1>4. datafile' = c.temp => KeptIn(c.temp) \subseteq KeptIn(f)
  BY <1>1, OnlyFoundFacts DEF Short
<1> QED
  BY <1>1, <1>3, <1>4, NoFileFacts

\* A list that is empty is an empty list of AckQueue.
LEMMA EmptiedNames ==
    ASSUME msgs' = <<>>, waitack' = {}
    PROVE  Names(msgs)' = <<>> /\ {o.msg : o \in waitack}' = {}
  BY EmptyList DEF Names

LEMMA QuietInsert ==
    ASSUME TypeOK, Bounds, faults' \cap Losing = {}, NEW m \in Msg, Insert(m),
           Stored(datafile) = KeptIn(datafile), Stored(datafile') = KeptIn(datafile')
    PROVE  Abstract!Publish(m)
<1>1. /\ up /\ m \notin offered /\ offered' = offered \cup {m}
      /\ UNCHANGED <<up, waitack>>
  BY DEF Insert
<1>2. CASE Refuse
  <2>1. UNCHANGED <<msgs, datafile>>
    BY <1>2 DEF Refuse
  <2> QED
    BY <1>1, <2>1 DEF Abstract!Publish
<1>3. CASE ~Refuse
  <2>1. PICK d, g : /\ d \in File /\ d = datafile /\ datafile' = g
                    /\ g \in File /\ Gains(d, m, {}, g)
                    /\ msgs' = Append(msgs, Object(m, 0))
    BY <1>3, TakenWhole
  <2>2. Object(m, 0) \in Objects /\ Object(m, 0).msg = m
    BY DEF Object, Objects
  <2>3. Names(msgs)' = Append(Names(msgs), m)
    BY <2>1, <2>2, NamesFacts DEF TypeOK
  <2>4. /\ \A p \in ValidBodies(g) : (p \in ValidBodies(d) /\ g[p] = d[p]) \/ g[p].msg = m
        /\ \A p \in ValidBodies(d) : p \in ValidBodies(g) /\ g[p] = d[p]
        /\ Size(d) + 2 \in ValidBodies(g) /\ g[Size(d) + 2].msg = m
    BY <2>1 DEF Gains
  <2>5. KeptIn(g) = KeptIn(d) \cup {m}
    <3>1. KeptIn(g) \subseteq KeptIn(d) \cup {m}
      BY <2>4 DEF KeptIn
    <3>2. KeptIn(d) \cup {m} \subseteq KeptIn(g)
      BY <2>4 DEF KeptIn
    <3> QED
      BY <3>1, <3>2
  <2>6. Stored(datafile)' = Stored(datafile) \cup ({m} \cap Msg)
    BY <2>1, <2>5
  <2> QED
    BY <1>1, <2>3, <2>6 DEF Abstract!Publish
<1> QED
  BY <1>2, <1>3

LEMMA QuietFront ==
    ASSUME TypeOK, Bounds, InOrder, AllIndexed, Front
    PROVE  Abstract!Deliver
<1>1. /\ msgs # <<>>
      /\ msgs' = Tail(msgs)
      /\ waitack' = With(waitack, Head(msgs))
      /\ UNCHANGED <<up, datafile, offered>>
  BY DEF Front, files, history
<1>2. up
  BY <1>1 DEF Bounds
<1>3. PICK h : h = Head(msgs)
  OBVIOUS
<1>4. h \in Range(msgs)
  <2>1. msgs \in Seq(Objects) /\ Len(msgs) >= 1 /\ h = msgs[1] /\ DOMAIN msgs = 1..Len(msgs)
    BY <1>1, <1>3, EmptySeq, HeadTailProperties, LenProperties DEF TypeOK
  <2> QED
    BY <2>1 DEF Range
<1>5. h \in InMemory /\ h.msg \in offered /\ h.msg # Phantom
  BY <1>4 DEF InMemory, Bounds, AllIndexed
<1>6. \A p \in waitack : IdOf(p) # IdOf(h)
  <2>1. SUFFICES ASSUME NEW p \in waitack, Key(p.msg) = Key(h.msg)
                 PROVE  FALSE
    BY DEF IdOf
  <2>2. p \in InMemory /\ p.msg \in offered \cup {Phantom}
    BY DEF InMemory, Bounds
  <2>3. p.msg = h.msg
    BY <1>5, <2>1, <2>2, OrderlyKeys DEF InOrder
  <2> QED
    BY <1>4, <1>5, <2>3 DEF InOrder, Single
<1>7. waitack' = waitack \cup {h}
  BY <1>1, <1>3, <1>6 DEF With
<1>8. {o.msg : o \in waitack'} = {o.msg : o \in waitack} \cup {h.msg}
  BY <1>7
<1>9. Names(msgs) # <<>> /\ Names(msgs') = Tail(Names(msgs)) /\ h.msg = Head(Names(msgs))
  BY <1>1, <1>3, NamesFacts DEF TypeOK
<1>10. /\ Names(msgs)' = Tail(Names(msgs))
       /\ {o.msg : o \in waitack}' = {o.msg : o \in waitack} \cup {Head(Names(msgs))}
  BY <1>8, <1>9
<1> QED
  BY <1>1, <1>2, <1>9, <1>10 DEF Abstract!Deliver

LEMMA QuietStep ==
    ASSUME Inv, Inv', [Step]_state, outgrown => outgrown', Orderly'
    PROVE  Abstract!Next \/ UNCHANGED Abstract!vars
<1>1. TypeOK /\ Bounds /\ TypeOK' /\ Bounds'
  BY DEF Inv
<1>2. Orderly
  BY <1>1, Ratchets DEF Orderly
<1>3. InOrder /\ AllIndexed /\ faults \cap Losing = {} /\ faults \cap Reviving = {}
  BY <1>2, OrderlyFacts
<1>4. /\ faults' \cap Losing = {} /\ faults' \cap Reviving = {} /\ "createTemp" \notin faults'
      /\ \A m \in offered' : OneId(m)'
  BY DEF Orderly, Losing, Reviving, OneId
<1>5. ~confused'
  BY <1>4 DEF Inv
<1>6. NothingLost' /\ Short'
  BY <1>4, <1>5 DEF Inv, InBounds, Orderly
<1>7. /\ WellFormed(datafile, up) /\ BodiesOf(datafile, Msg) /\ datafile \in File
      /\ Stored(datafile) = KeptIn(datafile)
  <2>1. WellFormed(datafile, up) /\ BodiesOf(datafile, Msg) /\ datafile \in File
    BY <1>1, <1>3, BodiesMore DEF InOrder, NothingLost, Bounds, TypeOK
  <2> QED
    BY <2>1, WholeFacts
<1>8. Stored(datafile') = KeptIn(datafile')
  <2>1. WellFormed(datafile', up') /\ BodiesOf(datafile', Msg) /\ datafile' \in File
    BY <1>1, <1>6, BodiesMore DEF NothingLost, Bounds, TypeOK
  <2> QED
    BY <2>1, WholeFacts
<1>9. ASSUME NEW e \in Calls(Created(None)), InitQueueManager(e)
      PROVE  Abstract!Next
  <2>1. KeptIn(datafile') = KeptIn(datafile)
    BY <1>1, <1>3, <1>4, <1>6, <1>9, StartIndexed
  <2>2. ~up /\ up' = TRUE /\ UNCHANGED <<msgs, waitack, offered>>
    BY <1>9 DEF InitQueueManager
  <2>3. Abstract!Open
    BY <1>7, <1>8, <2>1, <2>2 DEF Abstract!Open
  <2> QED
    BY <2>3 DEF Abstract!Next
<1>10. ASSUME NEW m \in Msg, Insert(m)
       PROVE  Abstract!Next
  BY <1>1, <1>4, <1>7, <1>8, <1>10, QuietInsert DEF Abstract!Next
<1>11. ASSUME NEW m \in Msg, CrashInInsert(m)
       PROVE  Abstract!Next
  <2>1. /\ up /\ up' = FALSE /\ datafile # NoFile
        /\ m \notin offered /\ offered' = offered \cup {m}
        /\ datafile' \in {Put(datafile, m, {"body"}), Put(datafile, m, {})}
        /\ msgs' = <<>> /\ waitack' = {}
    BY <1>11 DEF CrashInInsert, Die, ForgetMemory
  <2>2. PICK u \in {{}} \cup Unseen : datafile' = Put(datafile, m, u)
    BY <2>1 DEF Unseen
  <2>3. PICK d \in Seq(Cell) : d = datafile
    BY <1>1, <2>1 DEF TypeOK, File
  <2>4. PICK g : g = Put(d, m, u)
    OBVIOUS
  <2>5. Gains(d, m, u, g)
    BY <1>7, <2>3, <2>4, PutBodies
  <2>6. KeptIn(g) \in {KeptIn(d), KeptIn(d) \cup {m}}
    <3>1. KeptIn(g) \subseteq KeptIn(d) \cup {m} /\ KeptIn(d) \subseteq KeptIn(g)
      BY <2>5 DEF Gains, KeptIn
    <3> QED
      BY <3>1
  <2>7. datafile' = g
    BY <2>2, <2>3, <2>4
  <2>8. Stored(datafile)' \in {Stored(datafile), Stored(datafile) \cup {m}}
    BY <1>7, <1>8, <2>3, <2>6, <2>7
  <2>9. Abstract!Emptied
    BY <2>1, EmptiedNames DEF Abstract!Emptied
  <2>10. Abstract!Crash
    BY <2>1, <2>8, <2>9 DEF Abstract!Crash
  <2> QED
    BY <2>10 DEF Abstract!Next
<1>12. ASSUME NEW o \in waitack, RemoveDurable(o)
       PROVE  Abstract!Next
  <2>1. up /\ o.msg # Phantom /\ o.msg \in offered
    BY <1>1, <1>12, RemoveDurableFacts
  <2>2. /\ msgs' = msgs /\ waitack' = waitack \ {o} /\ up' = up /\ offered' = offered
        /\ KeptIn(datafile') = KeptIn(datafile) \ {o.msg}
    BY <1>1, <1>3, <1>4, <1>5, <1>6, <1>12, <2>1, RemoveInOrder
  <2>3. \A x \in waitack : x.msg = o.msg => x = o
    BY <1>3, <2>1 DEF InOrder, Single, InMemory
  <2>4. {x.msg : x \in waitack}' = {x.msg : x \in waitack} \ {o.msg}
    BY <2>2, <2>3
  <2>5. o.msg \in {x.msg : x \in waitack} /\ o.msg \in Msg
    BY <1>1, <2>1 DEF TypeOK
  <2>6. Abstract!Ack(o.msg)
    BY <1>7, <1>8, <2>2, <2>4, <2>5 DEF Abstract!Ack
  <2> QED
    BY <2>5, <2>6 DEF Abstract!Next
<1>13. ASSUME NEW o \in waitack, RemovePhantom(o)
       PROVE  FALSE
  BY <1>3, <1>13 DEF RemovePhantom, AllIndexed, InMemory
<1>14. ASSUME NEW o \in waitack, CrashInRemove(o)
       PROVE  Abstract!Next
  <2>1. /\ up /\ o.msg # Phantom /\ o.msg \in offered
        /\ \E f, c : f = Marked(o) /\ Interrupted(f, c)
    BY <1>1, <1>14, CrashInRemoveFacts
  <2>2. PICK f, c : f = Marked(o) /\ Interrupted(f, c)
    BY <2>1
  <2>3. Spared(o, f) /\ KeptIn(f) = KeptIn(datafile) \ {o.msg}
    BY <1>1, <1>3, <2>1, <2>2, SparedIndex
  <2>4. KeptIn(datafile') \in {KeptIn(f), {}}
    BY <1>6, <2>2, <2>3, InterruptedLog DEF Spared
  <2>5. up' = FALSE /\ msgs' = <<>> /\ waitack' = {} /\ offered' = offered
    BY <2>2 DEF Interrupted
  <2>6. o.msg \in {x.msg : x \in waitack} \cap Msg
    BY <1>1, <2>1 DEF TypeOK
  <2>7. Stored(datafile)' \in {Stored(datafile) \ {o.msg}, {}}
    BY <1>7, <1>8, <2>3, <2>4
  <2>8. Abstract!Emptied
    BY <2>5, EmptiedNames DEF Abstract!Emptied
  <2>9. Abstract!Crash
    BY <2>1, <2>5, <2>6, <2>7, <2>8 DEF Abstract!Crash
  <2> QED
    BY <2>9 DEF Abstract!Next
<1>15. CASE Front
  BY <1>1, <1>3, <1>15, QuietFront DEF Abstract!Next
<1>16. CASE DestroyQueueMessage \/ Clear
  <2>1. ClearQueue /\ up' \in {up, FALSE}
    BY <1>16 DEF DestroyQueueMessage, Clear
  <2>2. up /\ datafile' = NoFile /\ offered' = offered
    BY <1>1, <1>4, <2>1, ClearFacts DEF Reviving
  <2>3. Stored(datafile)' = {}
    BY <1>8, <2>2, NoFileFacts
  <2>4. msgs' = <<>> /\ waitack' = {}
    BY <2>1 DEF ClearQueue, ForgetMemory
  <2>5. Abstract!Emptied
    BY <2>4, EmptiedNames DEF Abstract!Emptied
  <2>6. Abstract!Destroy
    BY <1>1, <2>2, <2>3, <2>5 DEF Abstract!Destroy, TypeOK
  <2> QED
    BY <2>6 DEF Abstract!Next
<1>17. CASE Crash
  <2>1. /\ up /\ up' = FALSE /\ msgs' = <<>> /\ waitack' = {}
        /\ UNCHANGED <<datafile, offered>>
    BY <1>17 DEF Crash, Die, ForgetMemory, files, history
  <2>2. Abstract!Emptied
    BY <2>1, EmptiedNames DEF Abstract!Emptied
  <2>3. Abstract!Crash
    BY <2>1, <2>2 DEF Abstract!Crash
  <2> QED
    BY <2>3 DEF Abstract!Next
<1>18. CASE CrashInRecovery
  <2>1. ~up /\ \E f, c : f = Created(None) /\ Interrupted(f, c)
    BY <1>1, <1>18, CrashInRecoveryFacts
  <2>2. PICK f, c : f = Created(None) /\ Interrupted(f, c)
    BY <2>1
  <2>3. WellFormed(f, up) /\ BodiesOf(f, Msg) /\ KeptIn(f) = KeptIn(datafile)
    <3>1. None.call # "statCreate"
      BY DEF None, Failure
    <3> QED
      BY <1>7, <2>2, <3>1, CreatedFacts
  <2>4. KeptIn(datafile') \in {KeptIn(datafile), {}}
    BY <1>6, <2>2, <2>3, InterruptedLog
  <2>5. UNCHANGED <<up, msgs, waitack, offered>>
    BY <1>18 DEF CrashInRecovery, memory
  <2>6. Stored(datafile)' \in {Stored(datafile), {}}
    BY <1>7, <1>8, <2>4
  <2>7. Abstract!LoseLog \/ UNCHANGED Abstract!vars
    BY <2>1, <2>5, <2>6 DEF Abstract!LoseLog, Abstract!vars
  <2> QED
    BY <2>7 DEF Abstract!Next
<1>19. CASE UNCHANGED state
  <2>1. UNCHANGED <<up, msgs, waitack, datafile, offered>>
    BY <1>19 DEF state, memory, files, history
  <2> QED
    BY <2>1 DEF Abstract!vars
<1> QED
  BY <1>9, <1>10, <1>11, <1>12, <1>13, <1>14, <1>15, <1>16, <1>17, <1>18, <1>19 DEF Step, Calls

\* As long as no call fails whose failure matters, no id is used twice and the
\* files fit their offsets, whatever the code does to the bytes is a step of
\* AckQueue: a collection in particular changes nothing a consumer could notice.
THEOREM StepsQuiet == Spec => QuietSteps
<1>1. Inv /\ Inv' /\ [Next]_vars => [Orderly' => Abstract!Next \/ UNCHANGED Abstract!vars]_vars
  BY GrowthStep, QuietStep
<1> QED
  BY <1>1, Invariance, PTL DEF Spec, QuietSteps

=============================================================================
