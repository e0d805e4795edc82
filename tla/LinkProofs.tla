----------------------------- MODULE LinkProofs -----------------------------
(***************************************************************************)
(* Proofs about Link, for any connections, channels and frames, any sizes  *)
(* of headers and messages and any number of requests: the types, that no  *)
(* whole frame is left in a buffer, and that the link implements a stream  *)
(* of requests.                                                            *)
(*                                                                         *)
(* Everything rests on the positions: the frames of a connection lie one   *)
(* behind the other in its stream, and what was taken from the buffer ends *)
(* where the last frame that was handled ends.  So the head of a buffer is *)
(* the beginning of the next frame, and the length read there is one.      *)
(***************************************************************************)
EXTENDS Link, TLAPS

\* Where the k-th frame of c ends.
End(c, k) == IF k = 0 THEN 0 ELSE begins[c][k] + HeaderLen + sent[c][k].len

Due(c) == Len(handled[c]) + 1

Positions(c) ==
    /\ Len(begins[c]) = Len(sent[c])
    /\ \A i \in 1..Len(sent[c]) : begins[c][i] = End(c, i - 1)
    /\ \A i, j \in 1..Len(sent[c]) : i < j => End(c, i) <= begins[c][j]
    /\ wire[c] <= End(c, Len(sent[c]))
    /\ ~quit[c] => wire[c] = End(c, Len(sent[c]))

Progress(c) ==
    /\ Len(handled[c]) <= Len(sent[c])
    /\ \A i \in 1..Len(handled[c]) : handled[c][i] = sent[c][i]
    /\ ~dead => taken[c] = End(c, Len(handled[c]))

Tables(c) ==
    /\ Established(c) => c \in conns
    /\ serving = c => Established(c)

\* A connection that was refused has a frame at its head that cannot be read.
Stuck(c) ==
    state[c] = "disconnecting" =>
        /\ Due(c) <= Len(sent[c])
        /\ ~Readability(sent[c][Due(c)])

\* No whole frame waits while onMessage is not running for the connection.
Rest(c) ==
    /\ serving # c
    /\ ~dead
    /\ state[c] \in {"connecting", "connected"}
    => \A i \in AtHead(c) : Readable(c) < HeaderLen + sent[c][i].len

CInv(c) == Positions(c) /\ Progress(c) /\ Tables(c) /\ Stuck(c) /\ Rest(c)

IInv == TypeOK /\ \A c \in Conn : CInv(c)

-----------------------------------------------------------------------------
(* What is at the head of a buffer.                                        *)

\* A frame has a length that the sender's arithmetic allows.
LEMMA FrameLen ==
    ASSUME NEW f \in Frame
    PROVE  f.len \in Nat /\ f.len >= MinMessageLen
  BY LinkAssumption DEF FrameType

LEMMA SentLen ==
    ASSUME TypeOK, NEW c \in Conn, NEW i \in 1..Len(sent[c])
    PROVE  /\ sent[c][i] \in Frame
           /\ sent[c][i].len \in Nat
           /\ sent[c][i].len >= MinMessageLen
<1>1. sent[c] \in Seq(Frame)
  BY DEF TypeOK
<1>2. sent[c][i] \in Frame
  BY <1>1
<1> QED
  BY <1>2, FrameLen

\* If anything can be read at the head of a buffer, it is the next frame.
LEMMA HeadIsDue ==
    ASSUME TypeOK, NEW c \in Conn, Positions(c), Progress(c), ~dead
    PROVE  /\ AtHead(c) = {Due(c)} \cap 1..Len(sent[c])
           /\ HasMin(c) => Due(c) \in 1..Len(sent[c])
           /\ Due(c) \in 1..Len(sent[c]) =>
                 /\ Number(c) = Due(c)
                 /\ First(c) = sent[c][Due(c)]
                 /\ Peek(c) = sent[c][Due(c)].len
<1> DEFINE n == Len(sent[c])
           k == Len(handled[c])
<1>1. /\ n \in Nat /\ k \in Nat /\ k <= n
      /\ sent[c] \in Seq(Frame) /\ DOMAIN sent[c] = 1..n
      /\ begins[c] \in Seq(Nat) /\ \A i \in 1..n : begins[c][i] \in Nat
      /\ taken[c] = End(c, k)
      /\ HeaderLen \in Nat \ {0} /\ MinMessageLen \in Nat
      /\ wire[c] \in Nat /\ arrived[c] \in Nat /\ taken[c] \in Nat
      /\ arrived[c] <= wire[c]
  <2>1. /\ sent[c] \in Seq(Frame) /\ begins[c] \in Seq(Nat) /\ handled[c] \in Seq(Frame)
        /\ wire[c] \in Nat /\ arrived[c] \in Nat /\ taken[c] \in Nat
        /\ arrived[c] <= wire[c]
    BY DEF TypeOK
  <2>2. n = Len(begins[c])
    BY DEF Positions
  <2>3. \A i \in 1..n : begins[c][i] \in Nat
    BY <2>1, <2>2
  <2>4. k <= n /\ taken[c] = End(c, k)
    BY DEF Progress
  <2> QED
    BY <2>1, <2>3, <2>4, LinkAssumption
<1>2. \A i \in 1..n : End(c, i) \in Nat /\ begins[c][i] < End(c, i)
  <2> TAKE i \in 1..n
  <2>1. End(c, i) = begins[c][i] + HeaderLen + sent[c][i].len
    BY <1>1 DEF End
  <2>2. sent[c][i].len \in Nat
    BY SentLen
  <2>3. begins[c][i] \in Nat /\ HeaderLen \in Nat /\ HeaderLen > 0
    BY <1>1
  <2> QED
    BY <2>1, <2>2, <2>3
<1>3. k < n => begins[c][k + 1] = End(c, k)
  <2> SUFFICES ASSUME k < n PROVE begins[c][k + 1] = End(c, k)
    OBVIOUS
  <2>1. k + 1 \in 1..n /\ (k + 1) - 1 = k
    BY <1>1
  <2> QED
    BY <2>1 DEF Positions
<1>4. \A i \in 1..n : begins[c][i] = taken[c] => i = k + 1
  <2> SUFFICES ASSUME NEW i \in 1..n, begins[c][i] = End(c, k), i # k + 1 PROVE FALSE
    BY <1>1
  <2>1. CASE i <= k
    <3>1. k \in 1..n /\ begins[c][k] < End(c, k)
      BY <2>1, <1>1, <1>2
    <3>2. i = k \/ begins[c][i] <= begins[c][k]
      <4>1. i < k => End(c, i) <= begins[c][k]
        BY <3>1 DEF Positions
      <4> QED
        BY SMTT(30), <4>1, <3>1, <2>1, <1>1, <1>2
    <3> QED
      BY SMTT(30), <3>1, <3>2, <1>1, <1>2
  <2>2. CASE i > k + 1
    <3>1. k + 1 \in 1..n /\ k + 1 < i
      BY <2>2, <1>1
    <3>2. End(c, k + 1) <= begins[c][i]
      BY <3>1 DEF Positions
    <3> QED
      BY <3>1, <3>2, <1>1, <1>2, <1>3
  <2> QED
    BY <2>1, <2>2, <1>1
<1>5. Due(c) = k + 1
  BY DEF Due
<1>6. AtHead(c) = {Due(c)} \cap 1..Len(sent[c])
  BY <1>1, <1>3, <1>4, <1>5 DEF AtHead
<1>7. HasMin(c) => Due(c) \in 1..Len(sent[c])
  <2>1. k = n => arrived[c] <= taken[c]
    BY <1>1 DEF Positions
  <2> QED
    BY SMTT(30), <2>1, <1>1, <1>5 DEF HasMin, Readable
<1>8. ASSUME Due(c) \in 1..Len(sent[c])
      PROVE  /\ Number(c) = Due(c)
             /\ First(c) = sent[c][Due(c)]
             /\ Peek(c) = sent[c][Due(c)].len
  <2>1. AtHead(c) = {Due(c)}
    BY <1>6, <1>8
  <2>2. Number(c) = Due(c)
    BY <2>1 DEF Number
  <2>3. First(c) = sent[c][Due(c)]
    BY <2>2 DEF First
  <2> QED
    BY <2>1, <2>2, <2>3 DEF Peek
<1> QED
  BY <1>6, <1>7, <1>8

-----------------------------------------------------------------------------
(* The steps, one by one: what each does to the connection it is about,    *)
(* and that it leaves the others alone.                                    *)

\* What onMessage hands to a handler is the next frame, and it can be read.
LEMMA Dispatched ==
    ASSUME IInv, NEW c \in Conn, NEW kind, Dispatch(c, kind)
    PROVE  /\ Due(c) \in 1..Len(sent[c])
           /\ Number(c) = Due(c)
           /\ First(c) = sent[c][Due(c)]
           /\ Peek(c) = sent[c][Due(c)].len
           /\ sent[c][Due(c)] \in Frame
           /\ sent[c][Due(c)].len \in Nat
           /\ Readability(sent[c][Due(c)])
           /\ taken[c] + HeaderLen + Peek(c) <= arrived[c]
           /\ c \in conns /\ serving = c /\ ~dead
           /\ state[c] = "connected"
<1>1. TypeOK /\ Positions(c) /\ Progress(c) /\ Tables(c) /\ Stuck(c)
  BY DEF IInv, CInv
<1>2. /\ serving = c /\ ~dead /\ HasMin(c) /\ InBounds(Peek(c)) /\ Whole(c)
      /\ Parse(First(c)) = "NoError"
  BY DEF Dispatch, Serving
<1>3. /\ Due(c) \in 1..Len(sent[c])
      /\ Number(c) = Due(c)
      /\ First(c) = sent[c][Due(c)]
      /\ Peek(c) = sent[c][Due(c)].len
  BY <1>1, <1>2, HeadIsDue
<1>4. sent[c][Due(c)] \in Frame /\ sent[c][Due(c)].len \in Nat
  BY <1>1, <1>3, SentLen
<1>5. First(c).flaws = {}
  <2>1. \A k \in DOMAIN Checks : Checks[k] # "NoError"
    BY DEF Checks
  <2>2. First(c).flaws \subseteq {Checks[k] : k \in DOMAIN Checks}
    BY <1>3, <1>4, LinkAssumption DEF FrameType
  <2> SUFFICES ASSUME First(c).flaws # {} PROVE FALSE
    OBVIOUS
  <2>3. \E k \in DOMAIN Checks : /\ Checks[k] \in First(c).flaws
                                 /\ \A j \in 1..(k - 1) : Checks[j] \notin First(c).flaws
    <3>1. DOMAIN Checks = 1..4
      BY DEF Checks
    <3>2. PICK k \in 1..4 : Checks[k] \in First(c).flaws
      BY <2>2, <3>1
    <3> QED
      BY <3>1, <3>2
  <2> QED
    BY <1>2, <2>1, <2>3 DEF Parse
<1>6. Readability(sent[c][Due(c)])
  BY <1>2, <1>3, <1>5 DEF Readability, InBounds
<1>7. taken[c] + HeaderLen + Peek(c) <= arrived[c]
  <2>1. taken[c] \in Nat /\ arrived[c] \in Nat /\ HeaderLen \in Nat
    BY <1>1, LinkAssumption DEF TypeOK
  <2> QED
    BY SMTT(30), <2>1, <1>2, <1>3, <1>4 DEF Whole, Readable
<1>8. Established(c) /\ c \in conns
  BY <1>1, <1>2 DEF Tables
<1>9. state[c] = "connected"
  BY <1>1, <1>6, <1>8 DEF Stuck, Established
<1> QED
  BY <1>2, <1>3, <1>4, <1>6, <1>7, <1>8, <1>9

\* A step about c leaves the invariant of another connection alone.
LEMMA OtherConnection ==
    ASSUME NEW c \in Conn, NEW d \in Conn, CInv(d),
           sent'[d] = sent[d], begins'[d] = begins[d], wire'[d] = wire[d],
           quit'[d] = quit[d], arrived'[d] = arrived[d], taken'[d] = taken[d],
           state'[d] = state[d], handled'[d] = handled[d],
           d \in conns => d \in conns',
           serving' = d <=> serving = d,
           dead => dead'
    PROVE  CInv(d)'
<1>1. \A k : End(d, k)' = End(d, k)
  BY DEF End
<1>2. AtHead(d)' = AtHead(d) /\ Readable(d)' = Readable(d)
  BY DEF AtHead, Readable
<1>3. Positions(d)'
  BY <1>1 DEF CInv, Positions
<1>4. Progress(d)'
  BY <1>1 DEF CInv, Progress
<1>5. Tables(d)' /\ Stuck(d)'
  BY DEF CInv, Tables, Stuck, Established, Due
<1>6. Rest(d)'
  BY <1>2 DEF CInv, Rest
<1> QED
  BY <1>3, <1>4, <1>5, <1>6 DEF CInv

\* The invariant after a step about c: what is left to show is its own part.
LEMMA OneConnection ==
    ASSUME IInv, NEW c \in Conn, TypeOK', CInv(c)',
           \A d \in Conn \ {c} :
              /\ sent'[d] = sent[d] /\ begins'[d] = begins[d] /\ wire'[d] = wire[d]
              /\ quit'[d] = quit[d] /\ arrived'[d] = arrived[d] /\ taken'[d] = taken[d]
              /\ state'[d] = state[d] /\ handled'[d] = handled[d]
              /\ d \in conns => d \in conns'
              /\ serving' = d <=> serving = d,
           dead => dead'
    PROVE  IInv'
<1>1. ASSUME NEW d \in Conn, d # c PROVE CInv(d)'
  <2>1. CInv(d)
    BY DEF IInv
  <2> QED
    BY <1>1, <2>1, OtherConnection
<1> QED
  BY <1>1 DEF IInv

\* No frame ends behind the last one.
LEMMA EndGrows ==
    ASSUME TypeOK, NEW c \in Conn, Positions(c), NEW i \in 0..Len(sent[c])
    PROVE  End(c, i) \in Nat /\ End(c, i) <= End(c, Len(sent[c]))
<1> DEFINE n == Len(sent[c])
<1>1. n \in Nat /\ HeaderLen \in Nat /\ HeaderLen > 0 /\ begins[c] \in Seq(Nat)
      /\ Len(begins[c]) = n
  BY LinkAssumption DEF TypeOK, Positions
<1>2. ASSUME NEW j \in 1..n
      PROVE  End(c, j) \in Nat /\ begins[c][j] \in Nat /\ begins[c][j] <= End(c, j)
  <2>1. begins[c][j] \in Nat
    BY <1>1
  <2>2. sent[c][j].len \in Nat
    BY SentLen
  <2>3. End(c, j) = begins[c][j] + HeaderLen + sent[c][j].len
    BY <1>1 DEF End
  <2>4. HeaderLen \in Nat
    BY <1>1
  <2> QED
    BY <2>1, <2>2, <2>3, <2>4
<1>3. End(c, 0) = 0
  BY DEF End
<1>4. CASE i = n
  BY <1>1, <1>2, <1>3, <1>4
<1>5. CASE i < n
  <2>1. n \in 1..n
    BY <1>1, <1>5
  <2>2. i # 0 => End(c, i) <= begins[c][n]
    BY <2>1, <1>1, <1>5 DEF Positions
  <2>3. i \in 1..n \/ i = 0
    BY <1>1
  <2> QED
    BY <1>2, <1>3, <2>1, <2>2, <2>3
<1> QED
  BY <1>1, <1>4, <1>5

LEMMA SendKeeps ==
    ASSUME IInv, NEW c \in Conn, NEW f \in Frame, Send(c, f)
    PROVE  IInv'
<1>0. PICK n \in Nat : n = Len(sent[c])
  BY DEF IInv, TypeOK
<1>1. /\ TypeOK /\ Positions(c) /\ Progress(c) /\ Tables(c) /\ Stuck(c) /\ Rest(c)
  BY DEF IInv, CInv
<1>2. /\ ~quit[c]
      /\ sent' = [sent EXCEPT ![c] = Append(sent[c], f)]
      /\ begins' = [begins EXCEPT ![c] = Append(begins[c], wire[c])]
      /\ wire' = [wire EXCEPT ![c] = wire[c] + HeaderLen + f.len]
      /\ UNCHANGED <<quit, arrived, taken, state, serving, conns, channels, handled,
                     answers, dead>>
  BY DEF Send
<1>3. /\ sent[c] \in Seq(Frame) /\ begins[c] \in Seq(Nat) /\ wire[c] \in Nat
      /\ arrived[c] \in Nat /\ taken[c] \in Nat
      /\ taken[c] <= arrived[c] /\ arrived[c] <= wire[c]
      /\ n \in Nat /\ Len(sent[c]) = n /\ Len(begins[c]) = n
      /\ f.len \in Nat /\ HeaderLen \in Nat /\ HeaderLen > 0
  BY <1>0, <1>1, FrameLen, LinkAssumption DEF TypeOK, Positions
<1>4. /\ sent'[c] = Append(sent[c], f) /\ begins'[c] = Append(begins[c], wire[c])
      /\ wire'[c] = wire[c] + HeaderLen + f.len
      /\ Len(sent'[c]) = n + 1 /\ Len(begins'[c]) = n + 1
      /\ sent'[c][n + 1] = f /\ begins'[c][n + 1] = wire[c]
      /\ \A i \in 1..n : sent'[c][i] = sent[c][i] /\ begins'[c][i] = begins[c][i]
  <2>1. /\ sent'[c] = Append(sent[c], f) /\ begins'[c] = Append(begins[c], wire[c])
        /\ wire'[c] = wire[c] + HeaderLen + f.len
    BY <1>1, <1>2 DEF TypeOK
  <2>2. /\ sent[c] \in Seq(Frame) /\ Len(sent[c]) = n
        /\ begins[c] \in Seq(Nat) /\ Len(begins[c]) = n /\ wire[c] \in Nat
    BY <1>3
  <2> QED
    BY <2>1, <2>2
<1>5. TypeOK'
  <2>1. /\ sent' \in [Conn -> Seq(Frame)] /\ begins' \in [Conn -> Seq(Nat)]
        /\ wire' \in [Conn -> Nat]
    BY <1>1, <1>2, <1>3 DEF TypeOK
  <2>2. \A d \in Conn : taken'[d] <= arrived'[d] /\ arrived'[d] <= wire'[d]
    BY <1>1, <1>2, <1>3 DEF TypeOK
  <2> QED
    BY <1>1, <1>2, <2>1, <2>2 DEF TypeOK
<1>6. /\ \A i \in 0..n : End(c, i)' = End(c, i)
      /\ End(c, n) = wire[c]
      /\ End(c, n + 1)' = wire'[c]
  <2>1. \A i \in 0..n : End(c, i)' = End(c, i)
    <3> TAKE i \in 0..n
    <3>1. i = 0 \/ i \in 1..n
      BY <1>3
    <3> QED
      BY <3>1, <1>4 DEF End
  <2>2. End(c, n) = wire[c]
    BY <1>1, <1>2, <1>3 DEF Positions
  <2>3. End(c, n + 1)' = begins'[c][n + 1] + HeaderLen + sent'[c][n + 1].len
    <3>1. n + 1 # 0
      BY <1>3
    <3> QED
      BY <3>1 DEF End
  <2> QED
    BY <2>1, <2>2, <2>3, <1>4
<1>7. Positions(c)'
  <2>1. ASSUME NEW i \in 1..(n + 1) PROVE begins'[c][i] = End(c, i - 1)'
    <3>1. CASE i = n + 1
      BY <3>1, <1>3, <1>4, <1>6
    <3>2. CASE i \in 1..n
      BY <3>2, <1>1, <1>3, <1>4, <1>6 DEF Positions
    <3> QED
      BY <3>1, <3>2, <1>3
  <2>2. ASSUME NEW i \in 1..(n + 1), NEW j \in 1..(n + 1), i < j
        PROVE  End(c, i)' <= begins'[c][j]
    <3>1. i \in 1..n /\ i \in 0..n
      BY <2>2, <1>3
    <3>2. CASE j \in 1..n
      <4>1. End(c, i) <= begins[c][j]
        BY <3>1, <3>2, <2>2, <1>1, <1>3 DEF Positions
      <4>2. End(c, i)' = End(c, i) /\ begins'[c][j] = begins[c][j]
        BY <3>1, <3>2, <1>4, <1>6
      <4> QED
        BY <4>1, <4>2
    <3>3. CASE j = n + 1
      <4>1. End(c, i) <= End(c, n)
        BY <3>1, <1>1, <1>3, EndGrows
      <4> QED
        BY <3>1, <3>3, <4>1, <1>4, <1>6
    <3> QED
      BY <3>2, <3>3, <1>3
  <2>3. wire'[c] <= End(c, n + 1)' /\ wire'[c] = End(c, n + 1)'
    BY <1>3, <1>4, <1>6
  <2>4. Len(sent[c])' = n + 1 /\ Len(begins[c])' = n + 1
    BY <1>4
  <2> QED
    BY <2>1, <2>2, <2>3, <2>4 DEF Positions
<1>8. Progress(c)'
  <2>1. Len(handled[c]) \in 0..n
    BY <1>1, <1>3 DEF Progress, TypeOK
  <2>2. \A i \in 1..Len(handled[c]) : i \in 1..n
    BY <2>1
  <2> QED
    BY <2>1, <2>2, <1>1, <1>2, <1>3, <1>4, <1>6 DEF Progress
<1>9. Tables(c)' /\ Stuck(c)'
  <2>1. Due(c) <= n => sent'[c][Due(c)] = sent[c][Due(c)] /\ Due(c) <= n + 1
    <3>1. Due(c) \in Nat \ {0}
      BY <1>1 DEF Due, TypeOK
    <3> QED
      BY <3>1, <1>3, <1>4
  <2>2. Due(c)' = Due(c)
    BY <1>2 DEF Due
  <2>3. Len(sent'[c]) = n + 1 /\ Len(sent[c]) = n
    BY <1>3, <1>4
  <2>4. Tables(c)'
    BY <1>1, <1>2 DEF Tables, Established
  <2> QED
    BY <2>1, <2>2, <2>3, <2>4, <1>1, <1>2 DEF Stuck
<1>10. Rest(c)'
  <2> SUFFICES ASSUME serving # c, ~dead, state[c] \in {"connecting", "connected"},
                      NEW i \in 1..(n + 1), begins'[c][i] = taken[c]
               PROVE  arrived[c] - taken[c] < HeaderLen + sent'[c][i].len
    <3>1. DOMAIN sent'[c] = 1..(n + 1)
      BY <1>3, <1>4
    <3> QED
      BY <1>2, <3>1 DEF Rest, AtHead, Readable
  <2>1. CASE i \in 1..n
    <3>1. i \in AtHead(c)
      BY <2>1, <1>3, <1>4 DEF AtHead
    <3> QED
      BY <2>1, <3>1, <1>1, <1>4 DEF Rest, Readable
  <2>2. CASE i = n + 1
    BY <2>2, <1>3, <1>4
  <2> QED
    BY <2>1, <2>2, <1>3
<1>11. CInv(c)'
  BY <1>7, <1>8, <1>9, <1>10 DEF CInv
<1>12. \A d \in Conn \ {c} :
         sent'[d] = sent[d] /\ begins'[d] = begins[d] /\ wire'[d] = wire[d]
  BY <1>1, <1>2 DEF TypeOK
<1> QED
  BY <1>2, <1>5, <1>11, <1>12, OneConnection

LEMMA QuitKeeps ==
    ASSUME IInv, NEW c \in Conn, Quit(c)
    PROVE  IInv'
<1>1. TypeOK /\ CInv(c) /\ Positions(c)
  BY DEF IInv, CInv
<1>2. PICK n \in arrived[c]..wire[c] :
        /\ quit' = [quit EXCEPT ![c] = TRUE]
        /\ wire' = [wire EXCEPT ![c] = n]
        /\ UNCHANGED <<sent, begins, arrived, taken, state, serving, conns, channels,
                       handled, answers, dead>>
  BY DEF Quit
<1>3. /\ arrived[c] \in Nat /\ wire[c] \in Nat /\ n \in Nat
      /\ arrived[c] <= n /\ n <= wire[c]
      /\ wire'[c] = n /\ quit'[c] = TRUE
      /\ wire' \in [Conn -> Nat] /\ quit' \in [Conn -> BOOLEAN]
      /\ \A d \in Conn \ {c} : wire'[d] = wire[d] /\ quit'[d] = quit[d]
  BY <1>1, <1>2 DEF TypeOK
<1>4. TypeOK'
  <2>1. \A d \in Conn : taken'[d] <= arrived'[d] /\ arrived'[d] <= wire'[d]
    BY <1>1, <1>2, <1>3 DEF TypeOK
  <2> QED
    BY <1>1, <1>2, <1>3, <2>1 DEF TypeOK
<1>5. \A k : End(c, k)' = End(c, k)
  BY <1>2 DEF End
<1>6. Positions(c)'
  <2>1. End(c, Len(sent[c])) \in Nat
    <3>1. Len(sent[c]) \in 0..Len(sent[c])
      BY <1>1 DEF TypeOK
    <3> QED
      BY <1>1, <3>1, EndGrows
  <2>2. wire'[c] <= End(c, Len(sent[c]))
    BY <1>1, <1>3, <2>1 DEF Positions
  <2> QED
    BY <1>1, <1>2, <1>3, <1>5, <2>2 DEF Positions
<1>7. Progress(c)' /\ Tables(c)' /\ Stuck(c)' /\ Rest(c)'
  <2>1. Progress(c)'
    BY <1>1, <1>2, <1>5 DEF CInv, Progress
  <2>2. Tables(c)' /\ Stuck(c)'
    BY <1>1, <1>2 DEF CInv, Tables, Stuck, Established, Due
  <2>3. Rest(c)'
    BY <1>1, <1>2 DEF CInv, Rest, AtHead, Readable
  <2> QED
    BY <2>1, <2>2, <2>3
<1>8. CInv(c)'
  BY <1>6, <1>7 DEF CInv
<1> QED
  BY <1>2, <1>3, <1>4, <1>8, OneConnection

\* Steps that move no position keep what is said of positions.
LEMMA SamePositions ==
    ASSUME NEW c \in Conn, Positions(c), UNCHANGED stream
    PROVE  Positions(c)' /\ \A k : End(c, k)' = End(c, k)
<1>1. \A k : End(c, k)' = End(c, k)
  BY DEF End, stream
<1> QED
  BY <1>1 DEF Positions, stream

LEMMA AcceptKeeps ==
    ASSUME IInv, NEW c \in Conn, Accept(c)
    PROVE  IInv'
<1>1. TypeOK /\ Positions(c) /\ Progress(c) /\ Tables(c) /\ Stuck(c) /\ Rest(c)
  BY DEF IInv, CInv
<1>2. /\ serving = None /\ ~dead /\ state[c] = "connecting"
      /\ state' = [state EXCEPT ![c] = "connected"]
      /\ conns' = conns \cup {c}
      /\ UNCHANGED <<stream, sent, begins, wire, quit, arrived, taken, serving, channels,
                     handled, answers, dead>>
  BY DEF Accept, Idle, stream
<1>3. /\ state'[c] = "connected" /\ \A d \in Conn \ {c} : state'[d] = state[d]
      /\ serving # c
  BY <1>1, <1>2, LinkAssumption DEF TypeOK
<1>4. TypeOK'
  BY <1>1, <1>2 DEF TypeOK
<1>5. Positions(c)' /\ \A k : End(c, k)' = End(c, k)
  BY <1>1, <1>2, SamePositions
<1>6. Progress(c)'
  BY <1>1, <1>2, <1>5 DEF Progress
<1>7. Tables(c)' /\ Stuck(c)'
  BY <1>2, <1>3 DEF Tables, Stuck, Established
<1>8. Rest(c)'
  BY <1>1, <1>2, <1>3 DEF Rest, AtHead, Readable
<1>9. CInv(c)'
  BY <1>5, <1>6, <1>7, <1>8 DEF CInv
<1> QED
  BY <1>2, <1>3, <1>4, <1>9, OneConnection

LEMMA ReadKeeps ==
    ASSUME IInv, NEW c \in Conn, Read(c)
    PROVE  IInv'
<1>1. TypeOK /\ Positions(c) /\ Progress(c) /\ Tables(c) /\ Stuck(c) /\ Rest(c)
  BY DEF IInv, CInv
<1>2. PICK n \in (arrived[c] + 1)..wire[c] :
        /\ arrived' = [arrived EXCEPT ![c] = n]
        /\ serving = None /\ serving' = c /\ ~dead /\ Established(c)
        /\ UNCHANGED <<stream, sent, begins, wire, quit, taken, state, conns, channels,
                       handled, answers, dead>>
  BY DEF Read, Idle, stream
<1>3. /\ arrived[c] \in Nat /\ wire[c] \in Nat /\ n \in Nat /\ taken[c] \in Nat
      /\ taken[c] <= n /\ n <= wire[c]
      /\ arrived'[c] = n /\ arrived' \in [Conn -> Nat]
      /\ \A d \in Conn \ {c} : arrived'[d] = arrived[d]
  BY <1>1, <1>2 DEF TypeOK
<1>4. TypeOK'
  <2>1. \A d \in Conn : taken'[d] <= arrived'[d] /\ arrived'[d] <= wire'[d]
    BY <1>1, <1>2, <1>3 DEF TypeOK
  <2> QED
    BY <1>1, <1>2, <1>3, <2>1 DEF TypeOK
<1>5. Positions(c)' /\ \A k : End(c, k)' = End(c, k)
  BY <1>1, <1>2, SamePositions
<1>6. Progress(c)'
  BY <1>1, <1>2, <1>5 DEF Progress
<1>7. Tables(c)' /\ Stuck(c)' /\ Rest(c)'
  BY <1>1, <1>2 DEF Tables, Stuck, Established, Due, Rest
<1>8. CInv(c)'
  BY <1>5, <1>6, <1>7 DEF CInv
<1>9. \A d \in Conn \ {c} : serving' = d <=> serving = d
  BY <1>2, LinkAssumption
<1> QED
  BY <1>2, <1>3, <1>4, <1>8, <1>9, OneConnection

LEMMA ReadEndKeeps ==
    ASSUME IInv, NEW c \in Conn, ReadEnd(c)
    PROVE  IInv'
<1>1. TypeOK /\ Positions(c) /\ Progress(c)
  BY DEF IInv, CInv
<1>2. /\ serving = None
      /\ state' = [state EXCEPT ![c] = "disconnected"]
      /\ conns' = conns \ {c}
      /\ channels' = [channels EXCEPT ![c] = {}]
      /\ UNCHANGED <<stream, sent, begins, wire, quit, arrived, taken, serving, handled,
                     answers, dead>>
  BY DEF ReadEnd, Idle, stream
<1>3. /\ state'[c] = "disconnected" /\ \A d \in Conn \ {c} : state'[d] = state[d]
      /\ serving # c
  BY <1>1, <1>2, LinkAssumption DEF TypeOK
<1>4. TypeOK'
  BY <1>1, <1>2 DEF TypeOK
<1>5. Positions(c)' /\ \A k : End(c, k)' = End(c, k)
  BY <1>1, <1>2, SamePositions
<1>6. Progress(c)'
  BY <1>1, <1>2, <1>5 DEF Progress
<1>7. Tables(c)' /\ Stuck(c)' /\ Rest(c)'
  BY <1>2, <1>3 DEF Tables, Stuck, Established, Rest
<1>8. CInv(c)'
  BY <1>5, <1>6, <1>7 DEF CInv
<1> QED
  BY <1>2, <1>3, <1>4, <1>8, OneConnection

\* Only a frame that cannot be read is refused.
LEMMA RefusedFrame ==
    ASSUME IInv, NEW c \in Conn, InvalidLength(c) \/ ParseFails(c)
    PROVE  /\ serving = c /\ ~dead
           /\ Due(c) \in 1..Len(sent[c])
           /\ ~Readability(sent[c][Due(c)])
<1>1. TypeOK /\ Positions(c) /\ Progress(c)
  BY DEF IInv, CInv
<1>2. serving = c /\ ~dead /\ HasMin(c)
  BY DEF InvalidLength, ParseFails, Serving
<1>3. /\ Due(c) \in 1..Len(sent[c])
      /\ First(c) = sent[c][Due(c)]
      /\ Peek(c) = sent[c][Due(c)].len
  BY <1>1, <1>2, HeadIsDue
<1>4. sent[c][Due(c)].len \in Nat /\ sent[c][Due(c)].len >= MinMessageLen
  BY <1>1, <1>3, SentLen
<1>5. CASE InvalidLength(c)
  <2>1. ~InBounds(Peek(c))
    BY <1>5 DEF InvalidLength
  <2> QED
    BY <1>2, <1>3, <1>4, <2>1 DEF InBounds, Readability
<1>6. CASE ParseFails(c)
  <2>1. Parse(First(c)) # "NoError"
    BY <1>6 DEF ParseFails
  <2>2. First(c).flaws # {}
    BY <2>1 DEF Parse
  <2> QED
    BY <1>2, <1>3, <2>2 DEF Readability
<1> QED
  BY <1>5, <1>6

LEMMA RefusedKeeps ==
    ASSUME IInv, NEW c \in Conn, InvalidLength(c) \/ ParseFails(c)
    PROVE  IInv'
<1>1. TypeOK /\ Positions(c) /\ Progress(c) /\ Tables(c) /\ Stuck(c)
  BY DEF IInv, CInv
<1>2. /\ state' = [state EXCEPT ![c] = IF state[c] = "connected"
                                       THEN "disconnecting" ELSE state[c]]
      /\ serving' = None
      /\ UNCHANGED <<stream, sent, begins, wire, quit, arrived, taken, conns, channels,
                     handled, answers, dead>>
  BY DEF InvalidLength, ParseFails, Refused, Shutdown, Break, stream
<1>3. /\ serving = c /\ ~dead
      /\ Due(c) \in 1..Len(sent[c])
      /\ ~Readability(sent[c][Due(c)])
  BY RefusedFrame
<1>4. /\ state'[c] = "disconnecting" /\ \A d \in Conn \ {c} : state'[d] = state[d]
      /\ c \in conns
  BY <1>1, <1>2, <1>3 DEF TypeOK, Tables, Established
<1>5. TypeOK'
  BY <1>1, <1>2 DEF TypeOK
<1>6. Positions(c)' /\ \A k : End(c, k)' = End(c, k)
  BY <1>1, <1>2, SamePositions
<1>7. Progress(c)'
  BY <1>1, <1>2, <1>6 DEF Progress
<1>8. Tables(c)' /\ Rest(c)'
  BY <1>2, <1>4, LinkAssumption DEF Tables, Rest
<1>9. Stuck(c)'
  BY <1>2, <1>3 DEF Stuck, Due
<1>10. CInv(c)'
  BY <1>6, <1>7, <1>8, <1>9 DEF CInv
<1>11. \A d \in Conn \ {c} : serving' = d <=> serving = d
  BY <1>2, <1>3, LinkAssumption
<1> QED
  BY <1>2, <1>4, <1>5, <1>10, <1>11, OneConnection

LEMMA IncompleteKeeps ==
    ASSUME IInv, NEW c \in Conn, Incomplete(c)
    PROVE  IInv'
<1>1. TypeOK /\ Positions(c) /\ Progress(c) /\ Tables(c) /\ Stuck(c)
  BY DEF IInv, CInv
<1>2. /\ serving = c /\ ~dead /\ serving' = None
      /\ ~HasMin(c) \/ ~Whole(c)
      /\ UNCHANGED <<stream, sent, begins, wire, quit, arrived, taken, state, conns,
                     channels, handled, answers, dead>>
  BY DEF Incomplete, Serving, Break, stream
<1>3. TypeOK'
  BY <1>1, <1>2 DEF TypeOK
<1>4. Positions(c)' /\ \A k : End(c, k)' = End(c, k)
  BY <1>1, <1>2, SamePositions
<1>5. Progress(c)'
  BY <1>1, <1>2, <1>4 DEF Progress
<1>6. Tables(c)' /\ Stuck(c)'
  BY <1>1, <1>2, LinkAssumption DEF Tables, Stuck, Established, Due
<1>7. ASSUME NEW i \in AtHead(c) PROVE Readable(c) < HeaderLen + sent[c][i].len
  <2>1. i = Due(c) /\ i \in 1..Len(sent[c]) /\ Peek(c) = sent[c][i].len
    BY <1>1, <1>2, <1>7, HeadIsDue
  <2>2. sent[c][i].len \in Nat /\ sent[c][i].len >= MinMessageLen
    BY <1>1, <2>1, SentLen
  <2>3. Readable(c) \in Int
    BY <1>1 DEF Readable, TypeOK
  <2>4. HeaderLen \in Nat /\ MinMessageLen \in Nat
    BY LinkAssumption
  <2> QED
    BY <1>2, <2>1, <2>2, <2>3, <2>4 DEF HasMin, Whole
<1>8. Rest(c)'
  BY <1>2, <1>7 DEF Rest, AtHead, Readable
<1>9. CInv(c)'
  BY <1>4, <1>5, <1>6, <1>8 DEF CInv
<1>10. \A d \in Conn \ {c} : serving' = d <=> serving = d
  BY <1>2, LinkAssumption
<1> QED
  BY <1>2, <1>3, <1>9, <1>10, OneConnection

\* A handler that returns: the frame is retrieved from the buffer.
Handler(c) ==
    \/ OpenChannel(c)
    \/ CloseChannel(c)
    \/ UseChannel(c)
    \/ OnUnknownMessage(c)

LEMMA HandlerKeeps ==
    ASSUME IInv, NEW c \in Conn, Handler(c)
    PROVE  IInv'
<1>1. TypeOK /\ Positions(c) /\ Progress(c) /\ Tables(c) /\ Stuck(c)
  BY DEF IInv, CInv
<1>2. PICK kind : Dispatch(c, kind)
  BY DEF Handler, OpenChannel, CloseChannel, UseChannel, OnUnknownMessage
<1>3. /\ Due(c) \in 1..Len(sent[c])
      /\ Number(c) = Due(c)
      /\ First(c) = sent[c][Due(c)]
      /\ Peek(c) = sent[c][Due(c)].len
      /\ sent[c][Due(c)] \in Frame
      /\ sent[c][Due(c)].len \in Nat
      /\ taken[c] + HeaderLen + Peek(c) <= arrived[c]
      /\ c \in conns /\ serving = c /\ ~dead
      /\ state[c] = "connected"
  BY <1>2, Dispatched
<1>4. /\ handled' = [handled EXCEPT ![c] = Append(handled[c], sent[c][Due(c)])]
      /\ taken' = [taken EXCEPT ![c] = taken[c] + HeaderLen + Peek(c)]
      /\ UNCHANGED <<stream, sent, begins, wire, quit, arrived, state, serving, conns,
                     dead>>
  BY <1>3 DEF Handler, OpenChannel, CloseChannel, UseChannel, OnUnknownMessage, Dispatch,
              Retrieve, stream
<1>5. /\ channels' \in [Conn -> SUBSET Cid]
      /\ answers' \in [Conn -> Seq([rid : Nat, ok : BOOLEAN])]
  <2>1. First(c).cid \in Cid
    BY <1>3, LinkAssumption DEF FrameType
  <2>2. channels \in [Conn -> SUBSET Cid] /\ channels[c] \in SUBSET Cid
    BY <1>1 DEF TypeOK
  <2>3. ASSUME NEW ok \in BOOLEAN, Respond(c, ok)
        PROVE  answers' \in [Conn -> Seq([rid : Nat, ok : BOOLEAN])]
    <3>1. answers \in [Conn -> Seq([rid : Nat, ok : BOOLEAN])]
      BY <1>1 DEF TypeOK
    <3>2. [rid |-> Number(c), ok |-> ok] \in [rid : Nat, ok : BOOLEAN]
      BY <1>3 
    <3>3. Append(answers[c], [rid |-> Number(c), ok |-> ok])
            \in Seq([rid : Nat, ok : BOOLEAN])
      BY <3>1, <3>2
    <3> QED
      BY <2>3, <3>1, <3>3, <1>3 DEF Respond
  <2>4. CASE OpenChannel(c)
    <3>1. /\ channels' = [channels EXCEPT ![c] = channels[c] \cup {First(c).cid}]
          /\ Respond(c, First(c).cid \notin channels[c])
      BY <1>3, <2>4 DEF OpenChannel
    <3>2. (First(c).cid \notin channels[c]) \in BOOLEAN
      OBVIOUS
    <3> QED
      BY <2>1, <2>2, <2>3, <3>1, <3>2
  <2>5. CASE CloseChannel(c)
    BY <1>3, <2>2, <2>3, <2>5 DEF CloseChannel
  <2>6. CASE UseChannel(c)
    BY <1>1, <1>3, <2>3, <2>6 DEF UseChannel, TypeOK
  <2>7. CASE OnUnknownMessage(c)
    BY <1>1, <2>7 DEF OnUnknownMessage, TypeOK
  <2> QED
    BY <2>4, <2>5, <2>6, <2>7 DEF Handler
<1>6. TypeOK'
  <2>1. /\ taken[c] \in Nat /\ arrived[c] \in Nat /\ HeaderLen \in Nat
        /\ taken[c] + HeaderLen + Peek(c) \in Nat
    BY SMTT(30), <1>1, <1>3, LinkAssumption DEF TypeOK
  <2>2. taken' \in [Conn -> Nat] /\ taken'[c] <= arrived[c]
    BY <1>1, <1>3, <1>4, <2>1 DEF TypeOK
  <2>3. \A d \in Conn : taken'[d] <= arrived'[d] /\ arrived'[d] <= wire'[d]
    BY <1>1, <1>4, <2>2 DEF TypeOK
  <2>4. handled' \in [Conn -> Seq(Frame)]
    BY <1>1, <1>3, <1>4 DEF TypeOK
  <2> QED
    BY <1>1, <1>4, <1>5, <2>2, <2>3, <2>4 DEF TypeOK
<1>7. Positions(c)' /\ \A k : End(c, k)' = End(c, k)
  BY <1>1, <1>4, SamePositions
<1>8. /\ Len(handled'[c]) = Due(c)
      /\ handled'[c][Due(c)] = sent[c][Due(c)]
      /\ \A i \in 1..Len(handled[c]) : handled'[c][i] = handled[c][i]
  <2>1. /\ handled[c] \in Seq(Frame)
        /\ handled'[c] = Append(handled[c], sent[c][Due(c)])
    BY <1>1, <1>4 DEF TypeOK
  <2> QED
    BY <2>1, <1>3 DEF Due
<1>9. Progress(c)'
  <2>1. \A i \in 1..Len(handled'[c]) : handled'[c][i] = sent[c][i]
    <3> TAKE i \in 1..Len(handled'[c])
    <3>1. i = Due(c) \/ i \in 1..Len(handled[c])
      BY <1>8, <1>1, <1>3 DEF Due, TypeOK
    <3> QED
      BY <3>1, <1>8, <1>1 DEF Progress
  <2>2. taken'[c] = End(c, Due(c))
    <3>1. taken[c] = End(c, Due(c) - 1) /\ Due(c) # 0
      BY <1>1, <1>3 DEF Progress, Due, TypeOK
    <3>2. begins[c][Due(c)] = End(c, Due(c) - 1)
      BY <1>1, <1>3 DEF Positions
    <3>3. End(c, Due(c)) = begins[c][Due(c)] + HeaderLen + sent[c][Due(c)].len
      BY <3>1 DEF End
    <3>4. taken'[c] = taken[c] + HeaderLen + Peek(c)
      BY <1>1, <1>4 DEF TypeOK
    <3> QED
      BY <3>1, <3>2, <3>3, <3>4, <1>3
  <2>3. sent'[c] = sent[c] /\ Due(c) <= Len(sent[c])
    BY <1>3, <1>4
  <2> QED
    BY <1>7, <1>8, <2>1, <2>2, <2>3 DEF Progress
<1>10. Tables(c)' /\ Stuck(c)' /\ Rest(c)'
  BY <1>1, <1>3, <1>4 DEF Tables, Stuck, Established, Rest
<1>11. CInv(c)'
  BY <1>7, <1>9, <1>10 DEF CInv
<1>12. \A d \in Conn \ {c} : taken'[d] = taken[d] /\ handled'[d] = handled[d]
  BY <1>1, <1>4 DEF TypeOK
<1> QED
  BY <1>4, <1>6, <1>11, <1>12, OneConnection

LEMMA DeathKeeps ==
    ASSUME IInv, NEW c \in Conn, UseOfNoChannel(c)
    PROVE  IInv'
<1>1. TypeOK /\ Positions(c) /\ Progress(c) /\ Tables(c) /\ Stuck(c)
  BY DEF IInv, CInv
<1>2. Dispatch(c, "use")
  BY DEF UseOfNoChannel
<1>3. /\ Due(c) \in 1..Len(sent[c])
      /\ First(c) = sent[c][Due(c)]
      /\ sent[c][Due(c)] \in Frame
      /\ c \in conns /\ serving = c /\ state[c] = "connected"
  BY <1>2, Dispatched
<1>4. /\ handled' = [handled EXCEPT ![c] = Append(handled[c], sent[c][Due(c)])]
      /\ dead' = TRUE
      /\ UNCHANGED <<stream, sent, begins, wire, quit, arrived, taken, state, serving,
                     conns, channels, answers>>
  BY <1>3 DEF UseOfNoChannel, Dispatch, stream
<1>5. TypeOK'
  <2>1. handled' \in [Conn -> Seq(Frame)]
    BY <1>1, <1>3, <1>4 DEF TypeOK
  <2> QED
    BY <1>1, <1>4, <2>1 DEF TypeOK
<1>6. Positions(c)'
  BY <1>1, <1>4, SamePositions
<1>7. /\ Len(handled'[c]) = Due(c)
      /\ handled'[c][Due(c)] = sent[c][Due(c)]
      /\ \A i \in 1..Len(handled[c]) : handled'[c][i] = handled[c][i]
  <2>1. /\ handled[c] \in Seq(Frame)
        /\ handled'[c] = Append(handled[c], sent[c][Due(c)])
    BY <1>1, <1>4 DEF TypeOK
  <2> QED
    BY <2>1, <1>3 DEF Due
<1>8. Progress(c)'
  <2>1. \A i \in 1..Len(handled'[c]) : handled'[c][i] = sent[c][i]
    <3> TAKE i \in 1..Len(handled'[c])
    <3>1. i = Due(c) \/ i \in 1..Len(handled[c])
      BY <1>7, <1>1, <1>3 DEF Due, TypeOK
    <3> QED
      BY <3>1, <1>7, <1>1 DEF Progress
  <2> QED
    BY <1>3, <1>4, <1>7, <2>1 DEF Progress
<1>9. Tables(c)' /\ Stuck(c)' /\ Rest(c)'
  BY <1>1, <1>3, <1>4 DEF Tables, Stuck, Established, Rest
<1>10. CInv(c)'
  BY <1>6, <1>8, <1>9 DEF CInv
<1>11. \A d \in Conn \ {c} : handled'[d] = handled[d]
  BY <1>1, <1>4 DEF TypeOK
<1> QED
  BY <1>4, <1>5, <1>10, <1>11, OneConnection

-----------------------------------------------------------------------------
(* The invariant.                                                          *)

LEMMA InitIInv == Init => IInv
<1> SUFFICES ASSUME Init PROVE IInv
  OBVIOUS
<1>1. TypeOK
  <2>1. /\ sent \in [Conn -> Seq(Frame)] /\ begins \in [Conn -> Seq(Nat)]
        /\ handled \in [Conn -> Seq(Frame)]
    BY DEF Init
  <2>2. answers \in [Conn -> Seq([rid : Nat, ok : BOOLEAN])]
    BY DEF Init
  <2>3. /\ wire \in [Conn -> Nat] /\ arrived \in [Conn -> Nat] /\ taken \in [Conn -> Nat]
        /\ quit \in [Conn -> BOOLEAN] /\ channels \in [Conn -> SUBSET Cid]
        /\ \A c \in Conn : taken[c] <= arrived[c] /\ arrived[c] <= wire[c]
    BY DEF Init
  <2> QED
    BY <2>1, <2>2, <2>3 DEF Init, TypeOK
<1>2. ASSUME NEW c \in Conn PROVE CInv(c)
  <2>1. /\ sent[c] = <<>> /\ begins[c] = <<>> /\ handled[c] = <<>>
        /\ wire[c] = 0 /\ taken[c] = 0 /\ state[c] = "connecting" /\ serving # c
        /\ Len(sent[c]) = 0 /\ Len(handled[c]) = 0 /\ Len(begins[c]) = 0
    BY LinkAssumption DEF Init
  <2>2. End(c, 0) = 0
    BY DEF End
  <2>3. Positions(c) /\ Progress(c)
    BY <2>1, <2>2 DEF Positions, Progress
  <2>4. Tables(c) /\ Stuck(c)
    BY <2>1 DEF Tables, Stuck, Established
  <2>5. AtHead(c) = {}
    BY <2>1 DEF AtHead
  <2>6. Rest(c)
    BY <2>5 DEF Rest
  <2> QED
    BY <2>3, <2>4, <2>6 DEF CInv
<1> QED
  BY <1>1, <1>2 DEF IInv

LEMMA StutterKeeps == IInv /\ UNCHANGED vars => IInv'
<1> SUFFICES ASSUME IInv, UNCHANGED vars PROVE IInv'
  OBVIOUS
<1>1. TypeOK'
  BY DEF IInv, vars, stream, TypeOK
<1>2. ASSUME NEW c \in Conn PROVE CInv(c)'
  <2>1. CInv(c)
    BY DEF IInv
  <2> QED
    BY <2>1, OtherConnection DEF vars, stream
<1> QED
  BY <1>1, <1>2 DEF IInv

LEMMA NextKeeps == IInv /\ [Next]_vars => IInv'
<1> SUFFICES ASSUME IInv, Next PROVE IInv'
  BY StutterKeeps
<1>1. PICK c \in Conn :
        \/ \E f \in Frame : Send(c, f)
        \/ Quit(c) \/ Accept(c) \/ Read(c) \/ ReadEnd(c) \/ OnMessage(c)
  BY DEF Next
<1>2. CASE OnMessage(c)
  BY <1>2, RefusedKeeps, IncompleteKeeps, HandlerKeeps, DeathKeeps DEF OnMessage, Handler
<1> QED
  BY <1>1, <1>2, SendKeeps, QuitKeeps, AcceptKeeps, ReadKeeps, ReadEndKeeps

LEMMA Invariance == Spec => []IInv
  BY InitIInv, NextKeeps, PTL DEF Spec

\* The types, and that a buffer lies between what was taken and what arrived:
\* retrieve() (codec.cc:153) never takes more than there is.
THEOREM TypeCorrect == Spec => []TypeOK
<1>1. IInv => TypeOK
  BY DEF IInv
<1> QED
  BY <1>1, Invariance, PTL

\* However the bytes are cut, onMessage (codec.cc:135-167) leaves no whole
\* frame behind in a buffer that it has not refused.
THEOREM NoFrameLeft == Spec => []NothingLeftBehind
<1>1. IInv => NothingLeftBehind
  <2> SUFFICES ASSUME IInv, NEW c \in Conn, Idle, state[c] = "connected"
               PROVE  \A i \in AtHead(c) : Readable(c) < HeaderLen + sent[c][i].len
    BY DEF NothingLeftBehind
  <2>1. Rest(c)
    BY DEF IInv, CInv
  <2> QED
    BY <2>1, LinkAssumption DEF Rest, Idle
<1> QED
  BY <1>1, Invariance, PTL

-----------------------------------------------------------------------------
(* The refinement of RequestStream: reading, waiting for more and taking   *)
(* a connection on are invisible, each handler serves the request that is  *)
(* due, and a refused frame is one that cannot be read.                    *)

status == [c \in Conn |-> StatusOf(state[c])]

LEMMA SameStatus == state' = state => status' = status
  BY DEF status

LEMMA InitRefines == Init => Stream!Init
  BY DEF Init, Stream!Init, StatusOf

LEMMA HandlerRefines ==
    ASSUME IInv, NEW c \in Conn, Handler(c) \/ UseOfNoChannel(c)
    PROVE  Stream!Serve(c)
<1>1. PICK kind : Dispatch(c, kind)
  BY DEF Handler, OpenChannel, CloseChannel, UseChannel, UseOfNoChannel, OnUnknownMessage
<1>2. /\ Due(c) \in 1..Len(sent[c])
      /\ Number(c) = Due(c)
      /\ First(c) = sent[c][Due(c)]
      /\ sent[c][Due(c)] \in Frame
      /\ Readability(sent[c][Due(c)])
      /\ c \in conns
      /\ state[c] = "connected"
      /\ Stream!Due(c) = Due(c)
  BY <1>1, Dispatched DEF Stream!Due, Due
<1>3. /\ handled' = [handled EXCEPT ![c] = Append(handled[c], sent[c][Due(c)])]
      /\ sent' = sent /\ state' = state
  BY <1>2 DEF Handler, OpenChannel, CloseChannel, UseChannel, UseOfNoChannel,
              OnUnknownMessage, Dispatch, stream
<1>4. ASSUME NEW ok, Respond(c, ok) PROVE Stream!Answer(c, ok)
  BY <1>2, <1>4 DEF Respond, Stream!Answer
<1>5. /\ status[c] = "open"
      /\ status' = status
      /\ Due(c) <= Len(sent[c])
      /\ sent[c][Due(c)] \in {f \in Frame : Readability(f)}
  BY <1>2, <1>3, SameStatus DEF status, StatusOf
<1> DEFINE r == sent[c][Due(c)]
<1>6. CASE OpenChannel(c)
  <2>1. /\ r.kind = "open"
        /\ channels' = [channels EXCEPT ![c] = channels[c] \cup {r.cid}]
        /\ Stream!Answer(c, r.cid \notin channels[c])
        /\ dead' = dead
    BY <1>2, <1>4, <1>6 DEF OpenChannel, Dispatch
  <2> QED
    BY <1>2, <1>3, <1>5, <2>1 DEF Stream!Serve, status
<1>7. CASE CloseChannel(c)
  <2>1. /\ r.kind = "close"
        /\ channels' = [channels EXCEPT ![c] = channels[c] \ {r.cid}]
        /\ Stream!Answer(c, TRUE)
        /\ dead' = dead
    BY <1>2, <1>4, <1>7 DEF CloseChannel, Dispatch
  <2> QED
    BY <1>2, <1>3, <1>5, <2>1 DEF Stream!Serve, status
<1>8. CASE UseChannel(c)
  <2>1. /\ r.kind = "use"
        /\ r.cid \in channels[c]
        /\ \E ok \in BOOLEAN : Stream!Answer(c, ok)
        /\ channels' = channels /\ dead' = dead
    BY <1>2, <1>4, <1>8 DEF UseChannel, Dispatch
  <2> QED
    BY <1>2, <1>3, <1>5, <2>1 DEF Stream!Serve, status
<1>9. CASE UseOfNoChannel(c)
  <2>1. /\ r.kind = "use"
        /\ r.cid \notin channels[c]
        /\ dead' = TRUE
        /\ channels' = channels /\ answers' = answers
    BY <1>2, <1>9 DEF UseOfNoChannel, Dispatch
  <2> QED
    BY <1>2, <1>3, <1>5, <2>1 DEF Stream!Serve, status
<1>10. CASE OnUnknownMessage(c)
  <2>1. /\ r.kind = "other"
        /\ channels' = channels /\ answers' = answers /\ dead' = dead
    BY <1>2, <1>10 DEF OnUnknownMessage, Dispatch
  <2> QED
    BY <1>2, <1>3, <1>5, <2>1 DEF Stream!Serve, status
<1> QED
  BY <1>6, <1>7, <1>8, <1>9, <1>10 DEF Handler

LEMMA RefusalRefines ==
    ASSUME IInv, NEW c \in Conn, InvalidLength(c) \/ ParseFails(c)
    PROVE  Stream!Refuse(c) \/ UNCHANGED Stream!vars
<1>1. /\ state' = [state EXCEPT ![c] = IF state[c] = "connected"
                                       THEN "disconnecting" ELSE state[c]]
      /\ UNCHANGED <<sent, channels, handled, answers, dead>>
  BY DEF InvalidLength, ParseFails, Refused, Shutdown, stream
<1>2. /\ Due(c) \in 1..Len(sent[c]) /\ ~Readability(sent[c][Due(c)])
      /\ Stream!Due(c) = Due(c)
  BY RefusedFrame DEF Stream!Due, Due
<1>3. state \in [Conn -> {"connecting", "connected", "disconnecting", "disconnected"}]
  BY DEF IInv, TypeOK
<1>4. CASE state[c] = "connected"
  <2>1. status[c] = "open" /\ status' = [status EXCEPT ![c] = "refused"]
    BY <1>1, <1>3, <1>4 DEF status, StatusOf
  <2> QED
    BY <1>1, <1>2, <2>1 DEF Stream!Refuse, status
<1>5. CASE state[c] # "connected"
  <2>1. state' = state
    BY <1>1, <1>3, <1>5
  <2> QED
    BY <1>1, <2>1 DEF Stream!vars
<1> QED
  BY <1>4, <1>5

LEMMA ReadEndRefines ==
    ASSUME IInv, NEW c \in Conn, ReadEnd(c)
    PROVE  Stream!Over(c)
<1>1. status' = [status EXCEPT ![c] = "over"]
  BY DEF IInv, TypeOK, ReadEnd, status, StatusOf
<1> QED
  BY <1>1 DEF ReadEnd, stream, Stream!Over, status

LEMMA AcceptRefines ==
    ASSUME IInv, NEW c \in Conn, Accept(c)
    PROVE  UNCHANGED Stream!vars
<1>1. status' = status
  BY DEF IInv, TypeOK, Accept, status, StatusOf
<1> QED
  BY <1>1 DEF Accept, stream, Stream!vars, status

LEMMA StepRefines == IInv /\ [Next]_vars => [Stream!Next]_Stream!vars
<1> SUFFICES ASSUME IInv, [Next]_vars PROVE [Stream!Next]_Stream!vars
  OBVIOUS
<1>1. CASE UNCHANGED vars
  BY <1>1 DEF vars, stream, Stream!vars
<1>2. CASE Next
  <2>1. PICK c \in Conn :
          \/ \E f \in Frame : Send(c, f)
          \/ Quit(c) \/ Accept(c) \/ Read(c) \/ ReadEnd(c) \/ OnMessage(c)
    BY <1>2 DEF Next
  <2>2. ASSUME NEW f \in Frame, Send(c, f) PROVE Stream!Send(c, f)
    BY <2>2 DEF Send, Stream!Send
  <2>3. CASE Quit(c) \/ Read(c) \/ Incomplete(c)
    <3>1. UNCHANGED <<sent, handled, channels, answers, state, dead>>
      BY <2>3 DEF Quit, Read, Incomplete, stream
    <3> QED
      BY <3>1 DEF Stream!vars
  <2>4. CASE OnMessage(c)
    <3>1. CASE Handler(c) \/ UseOfNoChannel(c)
      BY <3>1, HandlerRefines DEF Stream!Next
    <3>2. CASE InvalidLength(c) \/ ParseFails(c)
      BY <3>2, RefusalRefines DEF Stream!Next
    <3> QED
      BY <2>3, <2>4, <3>1, <3>2 DEF OnMessage, Handler
  <2> QED
    BY <2>1, <2>2, <2>3, <2>4, AcceptRefines, ReadEndRefines DEF Stream!Next
<1> QED
  BY <1>1, <1>2

\* The link implements a stream of requests, served once each and in order,
\* whatever the pieces the bytes arrive in (codec.cc:135-235, broker.hpp:73-98).
THEOREM Implementation == Spec => ImplementsRequestStream
<1>1. Spec => Stream!Init /\ [][Stream!Next]_Stream!vars
  BY InitRefines, StepRefines, Invariance, PTL DEF Spec
<1> QED
  BY <1>1 DEF ImplementsRequestStream, Stream!Spec

=============================================================================
