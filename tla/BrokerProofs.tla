----------------------------- MODULE BrokerProofs -----------------------------
(***************************************************************************)
(* Theorems about Broker, for any number of queues, channels, connections, *)
(* messages and failures: the types, and each invariant its runs check.    *)
(*                                                                         *)
(* The invariant has a part for each pair of tables that one handler       *)
(* changes in different steps (Tables), for what a queue that is gone      *)
(* leaves behind (Remains), for the order of messages (Ordered)            *)
(* and for the three places a subscription is kept in (Subscribed).  A     *)
(* message whose mark failed and that a collection puts back is an         *)
(* exception to the order, and has no task: what the removal of a message  *)
(* does is stated once (Removal), for the client's acknowledgement and the *)
(* worker's.                                                               *)
(***************************************************************************)
EXTENDS Broker, PickProofs

\* Which queue is in which table while a handler is on its way through them.
Tables ==
    /\ declared \subseteq stores \cap lists
    /\ bound \subseteq declared
    /\ io.at \in {"insert", "enqueue"} => io.todo \subseteq bound /\ published # 0
    /\ io.at = "enqueue" => io.q \in io.todo
    /\ io.at \in {"delete", "destroy"} => io.q \notin declared
    /\ io.at = "declare" => io.q \in stores
    /\ io.at = "destroy" => io.q \in tainted

\* What there is of a queue that is not in a table, or is no more.
Remains ==
    /\ \A q \in Queue :
        /\ q \notin stores => msgs[q] = <<>>
        /\ q \notin declared => \/ io.at = "delete" /\ io.q = q
                                \/ msgs[q] = <<>> /\ waitack[q] = {}
        /\ msgs[q] # <<>> => q \in lists \cup tainted
    /\ worker.at = "choose" => worker.q \in lists \cup tainted
    /\ worker.at = "front cleared" => worker.q \in tainted

\* The message in the worker's hands is one of q's.
InHand(q) == worker.at \in {"choose", "callback", "ack"} /\ worker.q = q

\* And it is not yet sent.
Carries(q) == worker.at \in {"choose", "callback"} /\ worker.q = q

\* Message n may come after m, if those in B have been put back.
Follows(B, m, n) == m < n \/ n \in B

\* The sent, carried and queued messages of q are in order.
InLine(q) ==
    /\ \A k, l \in DOMAIN msgs[q] : k < l => Follows(PutBack(q), msgs[q][k], msgs[q][l])
    /\ \A k, l \in DOMAIN sent[q] : k < l => Follows(PutBack(q), sent[q][k].m, sent[q][l].m)
    /\ \A k \in DOMAIN sent[q], l \in DOMAIN msgs[q] :
           Follows(PutBack(q), sent[q][k].m, msgs[q][l])
    /\ Carries(q) =>
           /\ \A k \in DOMAIN sent[q] : Follows(PutBack(q), sent[q][k].m, worker.m)
           /\ \A l \in DOMAIN msgs[q] : Follows(PutBack(q), worker.m, msgs[q][l])

\* The message being published is still to be inserted into q.
Awaits(q) ==
    \/ io.at = "insert" /\ q \in io.todo
    \/ io.at = "enqueue" /\ q \in io.todo \ {io.q}

\* The newest message that can be in q: the last published, or the one before.
Newest(q) == IF Awaits(q) THEN published - 1 ELSE published

UpToNow(q) ==
    /\ \A k \in DOMAIN msgs[q] : msgs[q][k] <= Newest(q)
    /\ \A k \in DOMAIN sent[q] : sent[q][k].m <= Newest(q)
    /\ \A m \in unmarked[q] : m <= Newest(q)
    /\ InHand(q) => worker.m <= Newest(q)

Ordered == \A q \in Queue : InLine(q) /\ UpToNow(q)

\* A consumer in a list is that of its channel, with its channel's tag.
Subscribed ==
    /\ \A q \in Queue : \A k \in DOMAIN consumers[q] :
        LET con == consumers[q][k]
        IN  /\ con.q = q /\ con.tag = TagOf[con.ch]
            /\ chan[con.ch] = "open" /\ own[con.ch] = con
    /\ \A q \in Queue \ lists : consumers[q] = <<>>
    /\ \A c \in Chan :
        /\ sub[c] = None => own[c] = None
        /\ chan[c] = "new" => sub[c] = None
        /\ own[c] # None =>
               own[c].tag = TagOf[c] /\ sub[c] # None /\ own[c].q = sub[c].q

\* What taking m from the messages of q that wait for an acknowledgement does:
\* what it puts at the end of q's messages, it adds to those put back.
Removal(q, m) ==
    /\ \A p \in Queue \ {q} :
          msgs'[p] = msgs[p] /\ unmarked'[p] = unmarked[p] /\ requeued'[p] = requeued[p]
    /\ \A p \in Queue : waitack'[p] \subseteq waitack[p]
    /\ m \notin waitack'[q]
    /\ unmarked'[q] \subseteq unmarked[q] \cup {m}
    /\ \A k \in DOMAIN requeued[q] :
          k \in DOMAIN requeued'[q] /\ requeued'[q][k] = requeued[q][k]
    /\ \E n, b \in Nat :
          /\ DOMAIN msgs[q] = 1..n /\ DOMAIN msgs'[q] = 1..(n + b)
          /\ Len(msgs[q]) = n /\ Len(msgs'[q]) = n + b
          /\ \A k \in 1..n : msgs'[q][k] = msgs[q][k]
          /\ \A k \in (n + 1)..(n + b) :
                /\ msgs'[q][k] \in unmarked[q] \cup {m}
                /\ \E l \in DOMAIN requeued'[q] : msgs'[q][k] = requeued'[q][l]
          /\ Len(requeued'[q]) = Len(requeued[q]) + b

-----------------------------------------------------------------------------
(* Types.                                                                  *)

\* What the handler and the task in progress have at hand at each point.
LEMMA HandlerShapes ==
    ASSUME NEW h \in HandlerState
    PROVE  /\ h.at = "insert" => h \in Publishing
           /\ h.at = "enqueue" => h \in Leaving
           /\ h.at \in {"declare", "delete", "destroy"} => h \in Administering
           /\ h.at = "idle" => h = Idle
           /\ h.at \in {"idle", "insert", "enqueue", "declare", "delete", "destroy"}
<1>1. Idle.at = "idle"
  BY DEF Idle
<1>2. h \in Publishing => h.at = "insert"
  BY DEF Publishing
<1>3. h \in Leaving => h.at = "enqueue"
  BY DEF Leaving
<1>4. h \in Administering => h.at \in {"declare", "delete", "destroy"}
  BY DEF Administering
<1> QED
  BY <1>1, <1>2, <1>3, <1>4 DEF HandlerState

LEMMA WorkerShapes ==
    ASSUME NEW w \in WorkerState
    PROVE  /\ w.at \in {"find", "front", "front cleared"} => w \in Fetching
           /\ w.at = "choose" => w \in Choosing
           /\ w.at \in {"callback", "ack"} => w \in Delivering
           /\ w.at = "idle" => w = Idle
           /\ w.at \in {"idle", "find", "front", "front cleared", "choose", "callback", "ack"}
<1>1. Idle.at = "idle"
  BY DEF Idle
<1>2. w \in Fetching => w.at \in {"find", "front", "front cleared"}
  BY DEF Fetching
<1>3. w \in Choosing => w.at = "choose"
  BY DEF Choosing
<1>4. w \in Delivering => w.at \in {"callback", "ack"}
  BY DEF Delivering
<1> QED
  BY <1>1, <1>2, <1>3, <1>4 DEF WorkerState

LEMMA InitTypeOK == Init => TypeOK
BY BrokerAssumption DEF Init, TypeOK, HandlerState, WorkerState

\* The parts of TypeOK that most steps rest on.
LEMMA Typed ==
    ASSUME TypeOK
    PROVE  /\ msgs \in [Queue -> Seq(Ids)]
           /\ waitack \in [Queue -> SUBSET Ids]
           /\ unmarked \in [Queue -> SUBSET Ids]
           /\ requeued \in [Queue -> Seq(Ids)]
           /\ consumers \in [Queue -> Seq(Consumer)]
           /\ rrSeq \in [Queue -> Nat]
           /\ tasks \in Seq(Task)
           /\ published \in 0..MaxMsg
           /\ failed \in 0..MaxFail
           /\ sent \in [Queue -> Seq([m : Ids, ch : Chan, auto : BOOLEAN])]
BY DEF TypeOK

LEMMA WithoutElements ==
    ASSUME NEW list \in Seq(Consumer), NEW tags
    PROVE  /\ Without(list, tags) \in Seq(Consumer)
           /\ \A k \in DOMAIN Without(list, tags) :
                 \E i \in DOMAIN list :
                    Without(list, tags)[k] = list[i] /\ list[i].tag \notin tags
           /\ \A i \in DOMAIN list : list[i].tag \notin tags =>
                 \E k \in DOMAIN Without(list, tags) : Without(list, tags)[k] = list[i]
<1> DEFINE I == {k \in DOMAIN list : list[k].tag \notin tags}
<1>1. I \in SUBSET (DOMAIN list)
  OBVIOUS
<1>2. Without(list, tags) = Pick(list, I)
  BY DEF Without
<1>3. \A i \in I : i \in DOMAIN list /\ list[i].tag \notin tags
  OBVIOUS
<1>4. \A i \in DOMAIN list : list[i].tag \notin tags => i \in I
  OBVIOUS
<1> HIDE DEF I
<1> QED
  BY <1>1, <1>2, <1>3, <1>4, PickElements

LEMMA WithoutKeeps ==
    ASSUME NEW list \in Seq(Consumer), NEW tags,
           NEW i \in DOMAIN list, list[i].tag \notin tags
    PROVE  \E k \in DOMAIN Without(list, tags) : Without(list, tags)[k] = list[i]
<1> DEFINE I == {k \in DOMAIN list : list[k].tag \notin tags}
<1>1. I \in SUBSET (DOMAIN list) /\ i \in I
  OBVIOUS
<1>2. Without(list, tags) = Pick(list, I)
  BY DEF Without
<1> HIDE DEF I
<1>3. \E k \in DOMAIN Pick(list, I) : Pick(list, I)[k] = list[i]
  BY <1>1, PickElements
<1> QED
  BY <1>2, <1>3

LEMMA DestroyedType ==
    ASSUME TypeOK, NEW C
    PROVE  Destroyed(C) \in [Queue -> Seq(Consumer)]
<1>1. \A q \in Queue : consumers[q] \in Seq(Consumer)
  BY DEF TypeOK
<1> QED
  BY <1>1, WithoutElements DEF Destroyed

\* What a collection puts back is what it was to.
LEMMA InFileOrderElements ==
    ASSUME NEW S \in SUBSET Ids
    PROVE  /\ InFileOrder(S) \in Seq(Ids)
           /\ \A k \in DOMAIN InFileOrder(S) : InFileOrder(S)[k] \in S
<1> DEFINE all == [m \in Ids |-> m]
<1>1. all \in Seq(Ids) /\ DOMAIN all = Ids
  BY BrokerAssumption DEF Ids
<1>2. \A i \in S : all[i] = i
  OBVIOUS
<1>3. InFileOrder(S) = Pick(all, S)
  BY DEF InFileOrder
<1> HIDE DEF all
<1>4. /\ Pick(all, S) \in Seq(Ids)
      /\ \A k \in DOMAIN Pick(all, S) : \E i \in S : Pick(all, S)[k] = all[i]
  BY <1>1, PickElements
<1> QED
  BY <1>2, <1>3, <1>4

\* A sequence prolonged, index by index.
LEMMA Prolonged ==
    ASSUME NEW s \in Seq(Ids), NEW t \in Seq(Ids)
    PROVE  /\ s \o t \in Seq(Ids)
           /\ Len(s) \in Nat /\ Len(t) \in Nat
           /\ DOMAIN s = 1..Len(s) /\ DOMAIN (s \o t) = 1..(Len(s) + Len(t))
           /\ Len(s \o t) = Len(s) + Len(t)
           /\ \A k \in 1..Len(s) : (s \o t)[k] = s[k]
           /\ \A k \in (Len(s) + 1)..(Len(s) + Len(t)) :
                 k - Len(s) \in DOMAIN t /\ (s \o t)[k] = t[k - Len(s)]
           /\ \A k \in DOMAIN t :
                 Len(s) + k \in DOMAIN (s \o t) /\ (s \o t)[Len(s) + k] = t[k]
<1>1. /\ s \o t \in Seq(Ids) /\ Len(s \o t) = Len(s) + Len(t)
      /\ \A k \in 1..(Len(s) + Len(t)) :
            (s \o t)[k] = IF k <= Len(s) THEN s[k] ELSE t[k - Len(s)]
  BY ConcatProperties
<1>2. /\ Len(s) \in Nat /\ Len(t) \in Nat /\ DOMAIN s = 1..Len(s) /\ DOMAIN t = 1..Len(t)
      /\ DOMAIN (s \o t) = 1..(Len(s) + Len(t))
  BY <1>1, LenProperties
<1> DEFINE n == Len(s)
           b == Len(t)
           c == s \o t
<1>3. /\ n \in Nat /\ b \in Nat /\ DOMAIN t = 1..b /\ DOMAIN c = 1..(n + b)
      /\ \A k \in 1..(n + b) : c[k] = IF k <= n THEN s[k] ELSE t[k - n]
  BY <1>1, <1>2
<1> HIDE DEF n, b, c
<1>4. /\ \A k \in 1..n : c[k] = s[k]
      /\ \A k \in (n + 1)..(n + b) : k - n \in DOMAIN t /\ c[k] = t[k - n]
      /\ \A k \in DOMAIN t : n + k \in DOMAIN c /\ c[n + k] = t[k]
  <2>1. \A k \in 1..n : c[k] = s[k]
    BY <1>3
  <2>2. \A k \in (n + 1)..(n + b) : k - n \in DOMAIN t /\ c[k] = t[k - n]
    BY <1>3
  <2>3. ASSUME NEW k \in DOMAIN t
        PROVE  n + k \in DOMAIN c /\ c[n + k] = t[k]
    <3>1. n + k \in 1..(n + b) /\ ~(n + k <= n) /\ (n + k) - n = k
      BY <1>3
    <3> QED
      BY <1>3, <3>1
  <2> QED
    BY <2>1, <2>2, <2>3
<1> QED
  BY <1>1, <1>2, <1>4 DEF n, b, c

LEMMA RemoveEffect ==
    ASSUME TypeOK, NEW q \in Queue, NEW m \in Ids, Remove(q, m)
    PROVE  /\ Removal(q, m)
           /\ msgs' \in [Queue -> Seq(Ids)] /\ waitack' \in [Queue -> SUBSET Ids]
           /\ unmarked' \in [Queue -> SUBSET Ids] /\ requeued' \in [Queue -> Seq(Ids)]
           /\ failed' \in 0..MaxFail
<1>1. PICK marked \in BOOLEAN, collected \in BOOLEAN :
          LET orphans == IF marked THEN unmarked[q] ELSE unmarked[q] \cup {m}
              back == IF collected THEN InFileOrder(orphans) ELSE <<>>
          IN  /\ marked \/ failed < MaxFail
              /\ failed' = IF marked THEN failed ELSE failed + 1
              /\ waitack' = [waitack EXCEPT ![q] = waitack[q] \ {m}]
              /\ msgs' = [msgs EXCEPT ![q] = msgs[q] \o back]
              /\ requeued' = [requeued EXCEPT ![q] = requeued[q] \o back]
              /\ unmarked' = [unmarked EXCEPT ![q] = IF collected THEN {} ELSE orphans]
  BY DEF Remove
<1> DEFINE orphans == IF marked THEN unmarked[q] ELSE unmarked[q] \cup {m}
           back == IF collected THEN InFileOrder(orphans) ELSE <<>>
           s == msgs[q]
           r == requeued[q]
<1>2. /\ msgs \in [Queue -> Seq(Ids)] /\ waitack \in [Queue -> SUBSET Ids]
      /\ unmarked \in [Queue -> SUBSET Ids] /\ requeued \in [Queue -> Seq(Ids)]
      /\ s \in Seq(Ids) /\ r \in Seq(Ids)
  BY Typed
<1>3. orphans \in SUBSET Ids /\ orphans \subseteq unmarked[q] \cup {m}
  BY <1>2
<1>4. /\ waitack' = [waitack EXCEPT ![q] = waitack[q] \ {m}]
      /\ msgs' = [msgs EXCEPT ![q] = s \o back]
      /\ requeued' = [requeued EXCEPT ![q] = r \o back]
      /\ unmarked' = [unmarked EXCEPT ![q] = IF collected THEN {} ELSE orphans]
  BY <1>1
<1>5. failed' \in 0..MaxFail
  BY <1>1, Typed, BrokerAssumption
<1> HIDE DEF orphans
<1>6. back \in Seq(Ids) /\ \A k \in DOMAIN back : back[k] \in orphans
  <2>1. CASE collected
    <3>1. back = InFileOrder(orphans)
      BY <2>1
    <3> QED
      BY <1>3, <3>1, InFileOrderElements
  <2>2. CASE ~collected
    BY <2>2
  <2> QED
    BY <2>1, <2>2
<1> HIDE DEF back, s, r
<1>7. /\ s \o back \in Seq(Ids) /\ r \o back \in Seq(Ids)
  BY <1>2, <1>6, Prolonged
<1>8. /\ msgs' \in [Queue -> Seq(Ids)] /\ waitack' \in [Queue -> SUBSET Ids]
      /\ unmarked' \in [Queue -> SUBSET Ids] /\ requeued' \in [Queue -> Seq(Ids)]
  BY <1>2, <1>3, <1>4, <1>7
<1>9. /\ \A p \in Queue \ {q} :
            msgs'[p] = msgs[p] /\ unmarked'[p] = unmarked[p] /\ requeued'[p] = requeued[p]
      /\ \A p \in Queue : waitack'[p] \subseteq waitack[p]
      /\ m \notin waitack'[q]
      /\ unmarked'[q] \subseteq unmarked[q] \cup {m}
      /\ msgs'[q] = s \o back /\ requeued'[q] = r \o back
  BY <1>2, <1>3, <1>4
<1>10. \A k \in DOMAIN requeued[q] :
           k \in DOMAIN requeued'[q] /\ requeued'[q][k] = requeued[q][k]
  <2>1. /\ Len(r) \in Nat /\ Len(back) \in Nat
        /\ DOMAIN r = 1..Len(r) /\ DOMAIN (r \o back) = 1..(Len(r) + Len(back))
        /\ \A k \in 1..Len(r) : (r \o back)[k] = r[k]
    BY <1>2, <1>6, Prolonged
  <2>2. 1..Len(r) \subseteq 1..(Len(r) + Len(back))
    BY <2>1
  <2> QED
    BY <1>9, <2>1, <2>2 DEF r
<1>11. \E n, b \in Nat :
           /\ DOMAIN msgs[q] = 1..n /\ DOMAIN msgs'[q] = 1..(n + b)
           /\ Len(msgs[q]) = n /\ Len(msgs'[q]) = n + b
           /\ \A k \in 1..n : msgs'[q][k] = msgs[q][k]
           /\ \A k \in (n + 1)..(n + b) :
                 /\ msgs'[q][k] \in unmarked[q] \cup {m}
                 /\ \E l \in DOMAIN requeued'[q] : msgs'[q][k] = requeued'[q][l]
           /\ Len(requeued'[q]) = Len(requeued[q]) + b
  <2>1. /\ Len(s) \in Nat /\ Len(back) \in Nat
        /\ DOMAIN s = 1..Len(s) /\ DOMAIN (s \o back) = 1..(Len(s) + Len(back))
        /\ Len(s \o back) = Len(s) + Len(back)
        /\ \A k \in 1..Len(s) : (s \o back)[k] = s[k]
        /\ \A k \in (Len(s) + 1)..(Len(s) + Len(back)) :
              k - Len(s) \in DOMAIN back /\ (s \o back)[k] = back[k - Len(s)]
    BY <1>2, <1>6, Prolonged
  <2>2. /\ Len(r \o back) = Len(r) + Len(back)
        /\ \A k \in DOMAIN back :
              Len(r) + k \in DOMAIN (r \o back) /\ (r \o back)[Len(r) + k] = back[k]
    BY <1>2, <1>6, Prolonged
  <2>3. \A k \in (Len(s) + 1)..(Len(s) + Len(back)) :
            /\ msgs'[q][k] \in unmarked[q] \cup {m}
            /\ \E l \in DOMAIN requeued'[q] : msgs'[q][k] = requeued'[q][l]
    <3> TAKE k \in (Len(s) + 1)..(Len(s) + Len(back))
    <3>1. PICK i \in DOMAIN back : msgs'[q][k] = back[i]
      BY <1>9, <2>1
    <3>2. back[i] \in unmarked[q] \cup {m}
      BY <1>3, <1>6
    <3>3. Len(r) + i \in DOMAIN requeued'[q] /\ requeued'[q][Len(r) + i] = back[i]
      BY <1>9, <2>2
    <3> QED
      BY <3>1, <3>2, <3>3
  <2> WITNESS Len(s) \in Nat, Len(back) \in Nat
  <2> QED
    BY <1>9, <2>1, <2>2, <2>3 DEF s, r
<1> QED
  BY <1>5, <1>8, <1>9, <1>10, <1>11 DEF Removal

\* The types are kept by the requests.
LEMMA RequestTypes ==
    ASSUME TypeOK, Requests
    PROVE  TypeOK'
<1>1. ASSUME NEW k \in Conn, DeleteConnection(k)
      PROVE  TypeOK'
  <2>1. consumers' \in [Queue -> Seq(Consumer)]
    BY <1>1, DestroyedType DEF DeleteConnection
  <2> QED
    BY <1>1, <2>1 DEF DeleteConnection, TypeOK, tables, content, history
<1>2. ASSUME NEW c \in Chan, OpenChannel(c)
      PROVE  TypeOK'
  BY <1>2 DEF OpenChannel, TypeOK, tables, content, subscribers, history
<1>3. ASSUME NEW c \in Chan, CloseChannel(c)
      PROVE  TypeOK'
  <2>1. consumers' \in [Queue -> Seq(Consumer)]
    BY <1>3, DestroyedType DEF CloseChannel
  <2> QED
    BY <1>3, <2>1 DEF CloseChannel, TypeOK, tables, content, history
<1>4. ASSUME NEW c \in Chan, LateRequest(c)
      PROVE  TypeOK'
  BY <1>4 DEF LateRequest, TypeOK, tables, content, subscribers, history
<1>5. ASSUME NEW c \in Chan, NEW q \in Queue, NEW auto \in BOOLEAN, BasicConsume(c, q, auto)
      PROVE  TypeOK'
  <2> DEFINE con == [tag |-> TagOf[c], q |-> q, auto |-> auto, ch |-> c]
  <2>1. con \in Consumer
    BY DEF Consumer
  <2>2. [q |-> q, on |-> TRUE] \in Subscription
    BY DEF Subscription
  <2> HIDE DEF con
  <2>3. consumers[q] \in Seq(Consumer) /\ Append(consumers[q], con) \in Seq(Consumer)
    BY <2>1, Typed, AppendProperties
  <2>4. \E ok \in BOOLEAN :
            /\ consumers' = [consumers EXCEPT ![q] = IF ok THEN Append(@, con) ELSE @]
            /\ own' = [own EXCEPT ![c] = IF ok THEN con ELSE None]
    BY <1>5 DEF BasicConsume, con
  <2>5. consumers' \in [Queue -> Seq(Consumer)]
    BY <2>3, <2>4 DEF TypeOK
  <2>6. own' \in [Chan -> Consumer \cup {None}]
    <3>1. own \in [Chan -> Consumer \cup {None}]
      BY DEF TypeOK
    <3>2. own' = [own EXCEPT ![c] = con] \/ own' = [own EXCEPT ![c] = None]
      BY <2>4
    <3> QED
      BY <2>1, <3>1, <3>2
  <2>7. sub' \in [Chan -> Subscription \cup {None}]
    BY <1>5, <2>2 DEF BasicConsume, TypeOK
  <2> QED
    BY <1>5, <2>5, <2>6, <2>7 DEF BasicConsume, TypeOK, tables, content, history
<1>6. ASSUME NEW c \in Chan, BasicCancel(c)
      PROVE  TypeOK'
  <2>1. sub[c] \in Subscription /\ sub[c].q \in Queue
    BY <1>6 DEF BasicCancel, TypeOK, Subscription
  <2>2. consumers[sub[c].q] \in Seq(Consumer)
    BY <2>1 DEF TypeOK
  <2>3. consumers' \in [Queue -> Seq(Consumer)]
    BY <1>6, <2>1, <2>2, WithoutElements DEF BasicCancel, TypeOK
  <2>4. sub' \in [Chan -> Subscription \cup {None}]
    BY <1>6, <2>1 DEF BasicCancel, TypeOK, Subscription
  <2> QED
    BY <1>6, <2>3, <2>4 DEF BasicCancel, TypeOK, tables, content, history
<1>7. ASSUME NEW c \in Chan, NEW m \in Ids, BasicAck(c, m)
      PROVE  TypeOK'
  <2>1. PICK q \in Queue : Remove(q, m)
    BY <1>7, Typed DEF BasicAck, TypeOK
  <2>2. /\ msgs' \in [Queue -> Seq(Ids)] /\ waitack' \in [Queue -> SUBSET Ids]
        /\ unmarked' \in [Queue -> SUBSET Ids] /\ requeued' \in [Queue -> Seq(Ids)]
        /\ failed' \in 0..MaxFail
    BY <2>1, RemoveEffect
  <2> QED
    BY <1>7, <2>2 DEF BasicAck, TypeOK, tables, subscribers
<1>8. ASSUME NEW c \in Chan, NEW q \in Queue, QueueBind(c, q) \/ QueueUnBind(c, q)
      PROVE  TypeOK'
  BY <1>8 DEF QueueBind, QueueUnBind, TypeOK, content, subscribers, history
<1>9. ASSUME NEW c \in Chan, NEW q \in Queue, DeclareQueue(c, q) \/ DeleteQueue(c, q)
      PROVE  TypeOK'
  <2>1. io' \in HandlerState
    BY <1>9 DEF DeclareQueue, DeleteQueue, HandlerState, Administering
  <2> QED
    BY <1>9, <2>1 DEF DeclareQueue, DeleteQueue, TypeOK, content, subscribers, history
<1>10. ASSUME NEW c \in Chan, NEW matching \in SUBSET bound \ {{}}, BasicPublish(c, matching)
       PROVE  TypeOK'
  <2>1. io' \in HandlerState
    BY <1>10 DEF BasicPublish, HandlerState, Publishing, TypeOK
  <2>2. published' \in 0..MaxMsg
    BY <1>10, BrokerAssumption, Typed DEF BasicPublish
  <2> QED
    BY <1>10, <2>1, <2>2 DEF BasicPublish, TypeOK, tables, content, subscribers
<1> QED
  BY <1>1, <1>2, <1>3, <1>4, <1>5, <1>6, <1>7, <1>8, <1>9, <1>10, BrokerAssumption DEF Requests

\* And by the rest of the handlers.
LEMMA HandlerTypes ==
    ASSUME TypeOK, Tables, Handler \/ WriteFails
    PROVE  TypeOK'
<1>0. /\ io.at = "insert" => io \in Publishing
      /\ io.at = "enqueue" => io \in Leaving
      /\ io.at \in {"declare", "delete", "destroy"} => io \in Administering
  BY HandlerShapes DEF TypeOK
<1>1. ASSUME NEW q \in Queue, Insert(q)
      PROVE  TypeOK'
  <2>1. io' \in HandlerState
    BY <1>0, <1>1 DEF Insert, HandlerState, Publishing, Leaving
  <2>2. published \in Ids
    BY <1>1, BrokerAssumption, Typed DEF Insert, Tables, Ids
  <2>3. msgs[q] \in Seq(Ids) /\ Append(msgs[q], published) \in Seq(Ids)
    BY <2>2, Typed, AppendProperties
  <2>4. msgs' \in [Queue -> Seq(Ids)]
    BY <1>1, <2>3, Typed DEF Insert
  <2> QED
    BY <1>1, <2>1, <2>4 DEF Insert, TypeOK, tables, subscribers, history
<1>2. ASSUME NEW q \in Queue, InsertFails(q)
      PROVE  TypeOK'
  <2>1. io' \in HandlerState
    BY <1>0, <1>2 DEF InsertFails, HandlerState, Publishing, Leaving
  <2>2. failed' \in 0..MaxFail
    BY <1>2, BrokerAssumption, Typed DEF InsertFails
  <2> QED
    BY <1>2, <2>1, <2>2 DEF InsertFails, TypeOK, tables, content, subscribers
<1>3. CASE Enqueue
  <2>1. io \in Leaving
    BY <1>0, <1>3 DEF Enqueue
  <2>2. io' \in HandlerState
    BY <1>3, <2>1 DEF Enqueue, AfterEnqueue, HandlerState, Publishing, Leaving
  <2>3. [ch |-> io.ch, q |-> io.q] \in Task
    BY <2>1 DEF Leaving, Task
  <2>4. tasks' \in Seq(Task)
    BY <1>3, <2>3, Typed, AppendProperties DEF Enqueue
  <2> QED
    BY <1>3, <2>2, <2>4 DEF Enqueue, TypeOK, tables, content, subscribers, history
<1>4. CASE InitQueueConsumer
  <2>1. io.q \in Queue
    BY <1>0, <1>4 DEF InitQueueConsumer, Administering
  <2>2. io' \in HandlerState
    BY <1>4 DEF InitQueueConsumer, HandlerState
  <2> QED
    BY <1>4, <2>1, <2>2 DEF InitQueueConsumer, TypeOK, content, subscribers, history
<1>5. CASE DeclareFails
  <2>1. io' \in HandlerState
    BY <1>5 DEF DeclareFails, HandlerState
  <2>2. failed' \in 0..MaxFail
    BY <1>5, BrokerAssumption, Typed DEF DeclareFails
  <2> QED
    BY <1>5, <2>1, <2>2 DEF DeclareFails, TypeOK, tables, content, subscribers
<1>6. CASE DestroyQueueMessage
  <2>1. io \in Administering /\ io.q \in Queue
    BY <1>0, <1>6 DEF DestroyQueueMessage, Administering
  <2>2. io' \in HandlerState
    BY <1>6, <2>1 DEF DestroyQueueMessage, HandlerState, Administering
  <2>3. worker.at = "front" => worker \in Fetching
    BY WorkerShapes DEF TypeOK
  <2>4. worker' \in WorkerState
    BY <1>6, <2>3 DEF DestroyQueueMessage, TypeOK, WorkerState, Fetching
  <2>5. /\ msgs' \in [Queue -> Seq(Ids)] /\ waitack' \in [Queue -> SUBSET Ids]
        /\ unmarked' \in [Queue -> SUBSET Ids]
    BY <1>6, Typed, EmptySeq DEF DestroyQueueMessage
  <2> QED
    BY <1>6, <2>1, <2>2, <2>4, <2>5 DEF DestroyQueueMessage, TypeOK, subscribers
<1>7. CASE DestoryQueueConsumer
  <2>1. io' \in HandlerState
    BY <1>7 DEF DestoryQueueConsumer, HandlerState
  <2>2. consumers' \in [Queue -> Seq(Consumer)] /\ rrSeq' \in [Queue -> Nat]
    BY <1>7, Typed, EmptySeq DEF DestoryQueueConsumer
  <2>3. \A c \in Chan : sub[c] # None => [sub[c] EXCEPT !.on = FALSE] \in Subscription
    BY DEF TypeOK, Subscription
  <2>4. sub' \in [Chan -> Subscription \cup {None}]
    BY <1>7, <2>3 DEF DestoryQueueConsumer, TypeOK
  <2> QED
    BY <1>7, <2>1, <2>2, <2>4 DEF DestoryQueueConsumer, TypeOK, content, history
<1> QED
  BY <1>1, <1>2, <1>3, <1>4, <1>5, <1>6, <1>7 DEF Handler, WriteFails

\* And by the worker.
LEMMA WorkerTypes ==
    ASSUME TypeOK, Worker \/ UseOfFreed
    PROVE  TypeOK'
<1>0. /\ worker.at \in {"find", "front", "front cleared"} => worker \in Fetching
      /\ worker.at = "choose" => worker \in Choosing
      /\ worker.at \in {"callback", "ack"} => worker \in Delivering
  BY WorkerShapes DEF TypeOK
<1>1. CASE Take
  <2>1. Head(tasks) \in Task /\ Tail(tasks) \in Seq(Task)
    BY <1>1, Typed, HeadTailProperties DEF Take
  <2>2. worker' \in WorkerState
    BY <1>1, <2>1 DEF Take, WorkerState, Fetching, Task
  <2> QED
    BY <1>1, <2>1, <2>2 DEF Take, TypeOK, tables, content, subscribers, history
<1>2. CASE Find
  <2>1. worker' \in WorkerState
    BY <1>0, <1>2 DEF Find, WorkerState, Fetching
  <2> QED
    BY <1>2, <2>1 DEF Find, TypeOK, tables, content, subscribers, history
<1>3. CASE Front
  <2>1. worker.q \in Queue /\ worker.ch \in Chan
    BY <1>0, <1>3 DEF Front, Fetching
  <2>2. Head(msgs[worker.q]) \in Ids /\ Tail(msgs[worker.q]) \in Seq(Ids)
    BY <1>3, <2>1, Typed, HeadTailProperties DEF Front
  <2>3. worker' \in WorkerState
    BY <1>3, <2>1, <2>2 DEF Front, WorkerState, Choosing
  <2>4. msgs' \in [Queue -> Seq(Ids)] /\ waitack' \in [Queue -> SUBSET Ids]
    BY <1>3, <2>1, <2>2, Typed DEF Front
  <2> QED
    BY <1>3, <2>3, <2>4 DEF Front, TypeOK, tables, subscribers, history
<1>4. CASE FrontOfEmpty
  BY <1>4 DEF FrontOfEmpty, TypeOK, tables, content, subscribers, history
<1>5. CASE Choose
  <2>1. worker \in Choosing /\ worker.q \in Queue
    BY <1>0, <1>5 DEF Choose, Choosing
  <2>2. consumers[worker.q] \in Seq(Consumer) /\ rrSeq[worker.q] \in Nat
    BY <2>1 DEF TypeOK
  <2>3. consumers[worker.q] # <<>> =>
            consumers[worker.q][(rrSeq[worker.q] % Len(consumers[worker.q])) + 1] \in Consumer
    BY <2>2
  <2>4. worker' \in WorkerState
    BY <1>5, <2>1, <2>3 DEF Choose, WorkerState, Choosing, Delivering
  <2>5. \/ rrSeq' = rrSeq
        \/ rrSeq' = [rrSeq EXCEPT ![worker.q] = rrSeq[worker.q] + 1]
    <3>1. CASE consumers[worker.q] = <<>>
      BY <1>5, <3>1 DEF Choose
    <3>2. CASE consumers[worker.q] # <<>>
      BY <1>5, <3>2 DEF Choose
    <3> QED
      BY <3>1, <3>2
  <2>6. rrSeq' \in [Queue -> Nat]
    <3>1. rrSeq \in [Queue -> Nat] /\ rrSeq[worker.q] + 1 \in Nat
      BY <2>2, Typed
    <3> QED
      BY <2>1, <2>5, <3>1
  <2> QED
    BY <1>5, <2>4, <2>6 DEF Choose, TypeOK, tables, content, history
<1>6. CASE ChooseOfNull
  BY <1>6 DEF ChooseOfNull, TypeOK, tables, content, subscribers, history
<1>7. CASE Callback
  <2>1. worker \in Delivering
    BY <1>0, <1>7 DEF Callback
  <2>2. worker' \in WorkerState
    BY <1>7, <2>1 DEF Callback, WorkerState, Delivering
  <2>3. /\ worker.q \in Queue
        /\ [m |-> worker.m, ch |-> worker.con.ch, auto |-> worker.con.auto]
              \in [m : Ids, ch : Chan, auto : BOOLEAN]
    BY <2>1 DEF Delivering, Consumer
  <2>4. sent' \in [Queue -> Seq([m : Ids, ch : Chan, auto : BOOLEAN])]
    BY <1>7, <2>3, Typed, AppendProperties DEF Callback
  <2> QED
    BY <1>7, <2>2, <2>4 DEF Callback, TypeOK, tables, content, subscribers
<1>8. CASE AutoAck
  <2>1. worker' \in WorkerState
    BY <1>8 DEF AutoAck, WorkerState
  <2>2. worker.q \in Queue /\ worker.m \in Ids
    BY <1>0, <1>8 DEF AutoAck, Delivering
  <2>3. /\ msgs' \in [Queue -> Seq(Ids)] /\ waitack' \in [Queue -> SUBSET Ids]
        /\ unmarked' \in [Queue -> SUBSET Ids] /\ requeued' \in [Queue -> Seq(Ids)]
        /\ failed' \in 0..MaxFail
    <3>1. CASE Remove(worker.q, worker.m)
      <4>1. PICK p \in Queue, m \in Ids : p = worker.q /\ m = worker.m
        BY <2>2
      <4>2. Remove(p, m)
        BY <3>1, <4>1
      <4> QED
        BY <4>2, RemoveEffect
    <3>2. CASE UNCHANGED <<content, failed, requeued>>
      BY <3>2, Typed DEF content
    <3> QED
      BY <1>8, <3>1, <3>2 DEF AutoAck
  <2> QED
    BY <1>8, <2>1, <2>3 DEF AutoAck, TypeOK, tables, subscribers
<1>9. CASE UseOfFreed
  BY <1>9 DEF UseOfFreed, TypeOK, tables, content, subscribers, history
<1> QED
  BY <1>1, <1>2, <1>3, <1>4, <1>5, <1>6, <1>7, <1>8, <1>9 DEF Worker

-----------------------------------------------------------------------------
(* What the requests and the worker leave alone, and the tables.           *)

\* A request finds no handler in progress, and leaves the messages alone, but for
\* the acknowledgement.
LEMMA RequestFrame ==
    ASSUME TypeOK, Requests
    PROVE  /\ io = Idle
           /\ UNCHANGED <<lists, rrSeq, tasks, worker, tainted, sent>>
           /\ \/ UNCHANGED <<msgs, waitack, unmarked, requeued>>
              \/ \E c \in Chan, m \in Ids : BasicAck(c, m)
<1> DEFINE Frame == io = Idle /\ UNCHANGED <<lists, rrSeq, tasks, worker, tainted, sent>>
           Quiet == Frame /\ UNCHANGED <<msgs, waitack, unmarked, requeued>>
<1>1. ASSUME NEW k \in Conn, DeleteConnection(k)
      PROVE  Quiet
  BY <1>1 DEF DeleteConnection, tables, content, history
<1>2. ASSUME NEW c \in Chan, OpenChannel(c) \/ CloseChannel(c) \/ LateRequest(c)
      PROVE  Quiet
  BY <1>2 DEF OpenChannel, CloseChannel, LateRequest, Request, tables, content, subscribers,
              history
<1>3. ASSUME NEW c \in Chan, BasicCancel(c)
      PROVE  Quiet
  BY <1>3 DEF BasicCancel, Request, tables, content, history
<1>4. ASSUME NEW c \in Chan, NEW q \in Queue, NEW auto \in BOOLEAN, BasicConsume(c, q, auto)
      PROVE  Quiet
  BY <1>4 DEF BasicConsume, Request, tables, content, history
<1>5. ASSUME NEW c \in Chan, NEW m \in Ids, BasicAck(c, m)
      PROVE  Frame
  BY <1>5 DEF BasicAck, Request, tables, subscribers
<1>6. ASSUME NEW c \in Chan, NEW q,
             QueueBind(c, q) \/ QueueUnBind(c, q) \/ DeclareQueue(c, q) \/ DeleteQueue(c, q)
      PROVE  Quiet
  BY <1>6 DEF QueueBind, QueueUnBind, DeclareQueue, DeleteQueue, Request, content,
              subscribers, history
<1>7. ASSUME NEW c \in Chan, NEW matching, BasicPublish(c, matching)
      PROVE  Quiet
  BY <1>7 DEF BasicPublish, Request, tables, content, subscribers
<1>8. Quiet => Frame
  OBVIOUS
<1> HIDE DEF Frame, Quiet
<1>9. Frame /\ (Quiet \/ \E c \in Chan, m \in Ids : BasicAck(c, m))
  BY <1>1, <1>2, <1>3, <1>4, <1>5, <1>6, <1>7, <1>8 DEF Requests
<1> QED
  BY <1>9 DEF Frame, Quiet

\* An acknowledgement removes one of the messages sent to its queue.
LEMMA RequestMessages ==
    ASSUME TypeOK, Requests
    PROVE  \/ UNCHANGED <<msgs, waitack, unmarked, requeued>>
           \/ \E q \in Queue, m \in Ids :
                 /\ q \in declared \cap stores /\ Removal(q, m)
                 /\ \E k \in DOMAIN sent[q] : sent[q][k].m = m
                 /\ UNCHANGED <<declared, bound, stores, io, published>>
<1> SUFFICES ASSUME NEW c \in Chan, NEW m \in Ids, BasicAck(c, m)
             PROVE  \E q \in Queue :
                        /\ q \in declared \cap stores /\ Removal(q, m)
                        /\ \E k \in DOMAIN sent[q] : sent[q][k].m = m
                        /\ UNCHANGED <<declared, bound, stores, io, published>>
  BY RequestFrame
<1>1. PICK q \in Queue :
          /\ q \in declared \cap stores /\ Remove(q, m)
          /\ \E k \in DOMAIN sent[q] : sent[q][k].m = m
  BY DEF BasicAck, TypeOK
<1>2. UNCHANGED <<declared, bound, stores, io, published>>
  BY DEF BasicAck, tables
<1> QED
  BY <1>1, <1>2, RemoveEffect

\* A removal settles messages, and forgets none that was put back.
LEMMA RemovalGrows ==
    ASSUME NEW p \in Queue, NEW m, Removal(p, m), NEW q \in Queue
    PROVE  PutBack(q) \subseteq PutBack(q)' /\ waitack'[q] \subseteq waitack[q]
<1>1. \A k \in DOMAIN requeued[q] : k \in DOMAIN requeued'[q] /\ requeued'[q][k] = requeued[q][k]
  BY DEF Removal
<1> QED
  BY <1>1 DEF PutBack, Removal

LEMMA RequestGrows ==
    ASSUME TypeOK, Requests, NEW q \in Queue
    PROVE  PutBack(q) \subseteq PutBack(q)' /\ waitack'[q] \subseteq waitack[q]
BY RequestMessages, RemovalGrows DEF PutBack

\* The requests that begin a handler of several steps, and the others.
LEMMA RequestKinds ==
    ASSUME Requests
    PROVE  \/ /\ UNCHANGED <<declared, stores, io, published>>
              /\ bound' \subseteq bound \cup declared
           \/ /\ \E q \in Queue : stores' = stores \cup {q} /\ io' = [at |-> "declare", q |-> q]
              /\ UNCHANGED <<declared, bound, published>>
           \/ /\ \E q \in Queue :
                    /\ declared' = declared \ {q} /\ bound' = bound \ {q}
                    /\ io' = [at |-> "delete", q |-> q]
              /\ UNCHANGED <<stores, published>>
           \/ /\ \E c \in Chan, matching \in SUBSET bound :
                    io' = [at |-> "insert", ch |-> c, todo |-> matching]
              /\ published' = published + 1
              /\ UNCHANGED <<declared, bound, stores>>
<1>1. ASSUME NEW c \in Chan, NEW q \in Queue, QueueBind(c, q) \/ QueueUnBind(c, q)
      PROVE  /\ UNCHANGED <<declared, stores, io, published>>
             /\ bound' \subseteq bound \cup declared
  BY <1>1 DEF QueueBind, QueueUnBind, history
<1>2. ASSUME NEW c \in Chan, NEW q \in Queue, DeclareQueue(c, q)
      PROVE  /\ stores' = stores \cup {q} /\ io' = [at |-> "declare", q |-> q]
             /\ UNCHANGED <<declared, bound, published>>
  BY <1>2 DEF DeclareQueue, history
<1>3. ASSUME NEW c \in Chan, NEW q \in Deletable, DeleteQueue(c, q)
      PROVE  /\ q \in Queue /\ declared' = declared \ {q} /\ bound' = bound \ {q}
             /\ io' = [at |-> "delete", q |-> q]
             /\ UNCHANGED <<stores, published>>
  BY <1>3, BrokerAssumption DEF DeleteQueue, history
<1>4. ASSUME NEW c \in Chan, NEW matching \in SUBSET bound \ {{}}, BasicPublish(c, matching)
      PROVE  /\ matching \in SUBSET bound
             /\ io' = [at |-> "insert", ch |-> c, todo |-> matching]
             /\ published' = published + 1
             /\ UNCHANGED <<declared, bound, stores>>
  BY <1>4 DEF BasicPublish, tables
<1> DEFINE Frame == UNCHANGED <<tables, io, published>>
<1>5. /\ \A k \in Conn : DeleteConnection(k) => Frame
      /\ \A c \in Chan :
            OpenChannel(c) \/ CloseChannel(c) \/ LateRequest(c) \/ BasicCancel(c) => Frame
      /\ \A c \in Chan, q \in Queue, auto \in BOOLEAN : BasicConsume(c, q, auto) => Frame
      /\ \A c \in Chan, m \in Ids : BasicAck(c, m) => Frame
  <2>1. \A k \in Conn : DeleteConnection(k) => Frame
    BY DEF DeleteConnection, history
  <2>2. \A c \in Chan :
            OpenChannel(c) \/ CloseChannel(c) \/ LateRequest(c) \/ BasicCancel(c) => Frame
    BY DEF OpenChannel, CloseChannel, LateRequest, BasicCancel, history
  <2>3. \A c \in Chan, q \in Queue, auto \in BOOLEAN : BasicConsume(c, q, auto) => Frame
    BY DEF BasicConsume, history
  <2>4. \A c \in Chan, m \in Ids : BasicAck(c, m) => Frame
    BY DEF BasicAck
  <2> QED
    BY <2>1, <2>2, <2>3, <2>4
<1>6. Frame => UNCHANGED <<declared, bound, stores, io, published>>
  BY DEF tables
<1> HIDE DEF Frame
<1>7. \/ Frame
      \/ \E c \in Chan, q \in Queue : QueueBind(c, q) \/ QueueUnBind(c, q) \/ DeclareQueue(c, q)
      \/ \E c \in Chan, q \in Deletable : DeleteQueue(c, q)
      \/ \E c \in Chan, matching \in SUBSET bound \ {{}} : BasicPublish(c, matching)
  BY <1>5 DEF Requests
<1> QED
  BY <1>1, <1>2, <1>3, <1>4, <1>6, <1>7

LEMMA WorkerFrame ==
    ASSUME Worker \/ UseOfFreed
    PROVE  UNCHANGED <<declared, bound, stores, lists, consumers, own, sub, chan, io, published,
                       tainted>>
BY DEF Worker, UseOfFreed, Take, Find, Front, FrontOfEmpty, Choose, ChooseOfNull, Callback,
       AutoAck, tables, subscribers, history

LEMMA HandlerFrame ==
    ASSUME Handler \/ WriteFails
    PROVE  UNCHANGED <<bound, own, chan, published, sent, requeued, dead>>
BY DEF Handler, WriteFails, Insert, InsertFails, Enqueue, InitQueueConsumer, DeclareFails,
       DestroyQueueMessage, DestoryQueueConsumer, tables, subscribers, history

\* Handlers remove no message, and put none back.
LEMMA HandlerMarks ==
    ASSUME TypeOK, Handler \/ WriteFails, NEW q \in Queue
    PROVE  unmarked'[q] \subseteq unmarked[q] /\ requeued' = requeued
<1>1. requeued' = requeued
  BY HandlerFrame
<1>2. CASE DestroyQueueMessage
  BY <1>1, <1>2, Typed DEF DestroyQueueMessage
<1>3. CASE ~DestroyQueueMessage
  BY <1>1, <1>3 DEF Handler, WriteFails, Insert, InsertFails, Enqueue, InitQueueConsumer,
                    DeclareFails, DestoryQueueConsumer, content
<1> QED
  BY <1>2, <1>3

\* Nor does the worker, but for the acknowledgement.
LEMMA WorkerMarks ==
    ASSUME Take \/ Find \/ Front \/ FrontOfEmpty \/ Choose \/ ChooseOfNull \/ Callback
           \/ UseOfFreed
    PROVE  UNCHANGED <<unmarked, requeued>>
BY DEF Take, Find, Front, FrontOfEmpty, Choose, ChooseOfNull, Callback, UseOfFreed, content,
       history

LEMMA RequestTables ==
    ASSUME TypeOK, Tables, Requests
    PROVE  Tables'
<1>1. Idle.at = "idle"
  BY DEF Idle
<1>2. io = Idle /\ UNCHANGED <<lists, tainted>>
  BY RequestFrame
<1>3. published \in 0..MaxMsg
  BY Typed
<1> QED
  BY <1>1, <1>2, <1>3, RequestKinds DEF Tables

LEMMA HandlerTables ==
    ASSUME TypeOK, Tables, Handler \/ WriteFails
    PROVE  Tables'
<1>0. Idle.at = "idle"
  BY DEF Idle
<1>1. UNCHANGED <<bound, published>>
  BY HandlerFrame
<1>2. ASSUME NEW q \in Queue, Insert(q) \/ InsertFails(q)
      PROVE  Tables'
  BY <1>1, <1>2 DEF Insert, InsertFails, Tables, tables, history
<1>3. CASE Enqueue
  BY <1>0, <1>1, <1>3 DEF Enqueue, AfterEnqueue, Tables, tables, history
<1>4. CASE InitQueueConsumer
  BY <1>0, <1>1, <1>4 DEF InitQueueConsumer, Tables, history
<1>5. CASE DeclareFails
  BY <1>0, <1>1, <1>5 DEF DeclareFails, Tables, tables
<1>6. CASE DestroyQueueMessage
  <2>1. io \in Administering
    BY <1>6, HandlerShapes DEF DestroyQueueMessage, TypeOK
  <2>2. io'.at = "destroy" /\ io'.q = io.q
    BY <1>6, <2>1 DEF DestroyQueueMessage, Administering
  <2>3. /\ stores' = stores \ {io.q} /\ tainted' = tainted \cup {io.q} /\ io.at = "delete"
        /\ UNCHANGED <<declared, lists>>
    BY <1>6 DEF DestroyQueueMessage
  <2> QED
    BY <1>1, <2>2, <2>3 DEF Tables
<1>7. CASE DestoryQueueConsumer
  BY <1>0, <1>1, <1>7 DEF DestoryQueueConsumer, Tables, history
<1> QED
  BY <1>2, <1>3, <1>4, <1>5, <1>6, <1>7 DEF Handler, WriteFails

LEMMA WorkerTables ==
    ASSUME Tables, Worker \/ UseOfFreed
    PROVE  Tables'
BY WorkerFrame DEF Tables

-----------------------------------------------------------------------------
(* What each step of the worker and of the handlers does to the messages,   *)
(* the tasks and the two programs, in terms of their parts.                 *)

LEMMA TakeEffect ==
    ASSUME TypeOK, Take
    PROVE  /\ worker.at = "idle" /\ worker'.at = "find" /\ worker'.q = Head(tasks).q
           /\ tasks # <<>> /\ tasks' = Tail(tasks) /\ worker'.q \in Queue
           /\ UNCHANGED <<msgs, waitack, sent, dead>>
<1>1. Head(tasks) \in Task
  BY Typed, HeadTailProperties DEF Take
<1> QED
  BY <1>1 DEF Take, Idle, Task, content, history

LEMMA FindEffect ==
    ASSUME TypeOK, Find
    PROVE  /\ worker.at = "find" /\ worker.q \in Queue
           /\ \/ worker.q \in stores /\ worker'.at = "front" /\ worker'.q = worker.q
              \/ worker.q \notin stores /\ worker'.at = "idle"
           /\ UNCHANGED <<msgs, waitack, tasks, sent, dead>>
<1>1. worker \in Fetching
  BY WorkerShapes DEF TypeOK, Find
<1>2. worker.q \in Queue
  BY <1>1 DEF Fetching
<1>3. LET w == [worker EXCEPT !.at = "front"] IN w.at = "front" /\ w.q = worker.q
  BY <1>1 DEF Fetching
<1> QED
  BY <1>2, <1>3 DEF Find, Idle, content, history

LEMMA FrontEffect ==
    ASSUME TypeOK, Front
    PROVE  /\ worker.at = "front" /\ worker.q \in Queue
           /\ worker'.at = "choose" /\ worker'.q = worker.q
           /\ msgs[worker.q] # <<>> /\ worker'.m = msgs[worker.q][1]
           /\ Len(msgs'[worker.q]) = Len(msgs[worker.q]) - 1
           /\ DOMAIN msgs[worker.q] = 1..Len(msgs[worker.q])
           /\ DOMAIN msgs'[worker.q] = 1..(Len(msgs[worker.q]) - 1)
           /\ Len(msgs[worker.q]) \in Nat /\ 1 \in DOMAIN msgs[worker.q]
           /\ \A k \in DOMAIN msgs'[worker.q] :
                 k + 1 \in DOMAIN msgs[worker.q] /\ msgs'[worker.q][k] = msgs[worker.q][k + 1]
           /\ \A q \in Queue \ {worker.q} : msgs'[q] = msgs[q] /\ waitack'[q] = waitack[q]
           /\ waitack'[worker.q] = waitack[worker.q] \cup {worker'.m}
           /\ UNCHANGED <<tasks, sent, dead>>
<1> DEFINE s == msgs[worker.q]
<1>1. worker.q \in Queue
  BY WorkerShapes DEF TypeOK, Front, Fetching
<1>2. s \in Seq(Ids) /\ s # <<>>
  BY <1>1, Typed DEF Front
<1>3. /\ Tail(s) \in Seq(Ids) /\ Len(Tail(s)) = Len(s) - 1
      /\ \A k \in 1..Len(Tail(s)) : Tail(s)[k] = s[k + 1]
  BY <1>2, HeadTailProperties
<1>4. /\ Len(s) \in Nat \ {0} /\ DOMAIN s = 1..Len(s)
      /\ DOMAIN Tail(s) = 1..(Len(s) - 1)
  BY <1>2, <1>3, EmptySeq, LenProperties
<1>5. \A k \in DOMAIN Tail(s) : k + 1 \in DOMAIN s /\ Tail(s)[k] = s[k + 1]
  BY <1>3, <1>4
<1>6. Head(s) = s[1] /\ 1 \in DOMAIN s
  BY <1>2, <1>4
<1>7. /\ msgs'[worker.q] = Tail(s)
      /\ waitack'[worker.q] = waitack[worker.q] \cup {Head(s)}
      /\ \A q \in Queue \ {worker.q} : msgs'[q] = msgs[q] /\ waitack'[q] = waitack[q]
  BY <1>1, Typed DEF Front
<1>8. /\ worker.at = "front" /\ worker'.at = "choose" /\ worker'.q = worker.q
      /\ worker'.m = Head(s)
      /\ UNCHANGED <<tasks, sent, dead>>
  BY DEF Front, history
<1> HIDE DEF s
<1> QED
  BY <1>1, <1>2, <1>3, <1>4, <1>5, <1>6, <1>7, <1>8 DEF s

LEMMA ChooseEffect ==
    ASSUME TypeOK, Choose
    PROVE  /\ worker.at = "choose" /\ worker.q \in Queue
           /\ \/ worker'.at = "callback" /\ worker'.q = worker.q /\ worker'.m = worker.m
              \/ worker'.at = "idle"
           /\ UNCHANGED <<msgs, waitack, tasks, sent, dead>>
<1>1. worker.at = "choose" /\ worker.q \in Queue
  BY WorkerShapes DEF TypeOK, Choose, Choosing
<1>2. UNCHANGED <<msgs, waitack, tasks, sent, dead>>
  BY DEF Choose, content, history
<1>3. CASE consumers[worker.q] = <<>>
  BY <1>1, <1>2, <1>3 DEF Choose, Idle
<1>4. CASE consumers[worker.q] # <<>>
  <2>1. worker' = [at |-> "callback", ch |-> worker.ch, q |-> worker.q, m |-> worker.m,
                   con |-> consumers[worker.q]
                               [(rrSeq[worker.q] % Len(consumers[worker.q])) + 1]]
    BY <1>4 DEF Choose
  <2> QED
    BY <1>1, <1>2, <2>1
<1> QED
  BY <1>3, <1>4

LEMMA CallbackEffect ==
    ASSUME TypeOK, Callback
    PROVE  /\ worker.at = "callback" /\ worker.q \in Queue /\ worker.m \in Ids
           /\ \/ /\ worker.con.auto
                 /\ worker'.at = "ack" /\ worker'.q = worker.q /\ worker'.m = worker.m
              \/ ~worker.con.auto /\ worker'.at = "idle"
           /\ \E n \in Nat :
                 /\ DOMAIN sent[worker.q] = 1..n /\ DOMAIN sent'[worker.q] = 1..(n + 1)
                 /\ \A k \in 1..n : sent'[worker.q][k] = sent[worker.q][k]
                 /\ sent'[worker.q][n + 1].m = worker.m
                 /\ sent'[worker.q][n + 1].auto = worker.con.auto
           /\ \A q \in Queue \ {worker.q} : sent'[q] = sent[q]
           /\ UNCHANGED <<msgs, waitack, tasks, dead>>
<1> DEFINE s == sent[worker.q]
           e == [m |-> worker.m, ch |-> worker.con.ch, auto |-> worker.con.auto]
           Sent == [m : Ids, ch : Chan, auto : BOOLEAN]
<1>1. worker.at = "callback" /\ worker \in Delivering
  BY WorkerShapes DEF TypeOK, Callback
<1>2. worker.q \in Queue /\ worker.m \in Ids /\ e \in Sent
  BY <1>1 DEF Delivering, Consumer
<1>3. s \in Seq(Sent) /\ sent \in [Queue -> Seq(Sent)]
  BY <1>2, Typed
<1>4. /\ sent'[worker.q] = Append(s, e)
      /\ \A q \in Queue \ {worker.q} : sent'[q] = sent[q]
  BY <1>2, <1>3 DEF Callback
<1>5. e.m = worker.m /\ e.auto = worker.con.auto
  OBVIOUS
<1> HIDE DEF s, e, Sent
<1>6. /\ Append(s, e) \in Seq(Sent) /\ Len(Append(s, e)) = Len(s) + 1
      /\ \A k \in 1..Len(s) : Append(s, e)[k] = s[k]
      /\ Append(s, e)[Len(s) + 1] = e
  BY <1>2, <1>3, AppendProperties
<1>7. /\ Len(s) \in Nat /\ DOMAIN s = 1..Len(s) /\ DOMAIN Append(s, e) = 1..(Len(s) + 1)
  BY <1>3, <1>6, LenProperties
<1>8. \/ /\ worker.con.auto
         /\ worker'.at = "ack" /\ worker'.q = worker.q /\ worker'.m = worker.m
      \/ ~worker.con.auto /\ worker'.at = "idle"
  BY <1>1 DEF Callback, Delivering, Idle
<1>9. UNCHANGED <<msgs, waitack, tasks, dead>>
  BY DEF Callback, content
<1>10. \E n \in Nat :
           /\ DOMAIN sent[worker.q] = 1..n /\ DOMAIN sent'[worker.q] = 1..(n + 1)
           /\ \A k \in 1..n : sent'[worker.q][k] = sent[worker.q][k]
           /\ sent'[worker.q][n + 1].m = worker.m
           /\ sent'[worker.q][n + 1].auto = worker.con.auto
  <2> WITNESS Len(s) \in Nat
  <2> QED
    BY <1>4, <1>5, <1>6, <1>7 DEF s
<1> QED
  BY <1>1, <1>2, <1>4, <1>8, <1>9, <1>10

LEMMA AutoAckEffect ==
    ASSUME TypeOK, AutoAck
    PROVE  /\ worker.at = "ack" /\ worker'.at = "idle"
           /\ \E q \in Queue, m \in Ids :
                 /\ q = worker.q /\ m = worker.m
                 /\ q \in declared \cap stores => m \notin waitack'[q]
                 /\ \/ q \in declared \cap stores /\ Removal(q, m)
                    \/ UNCHANGED <<msgs, waitack, unmarked, requeued>>
           /\ \A q \in Queue : PutBack(q) \subseteq PutBack(q)' /\ waitack'[q] \subseteq waitack[q]
           /\ UNCHANGED <<tasks, sent, dead>>
<1>1. worker.at = "ack" /\ worker \in Delivering
  BY WorkerShapes DEF TypeOK, AutoAck
<1>2. PICK q \in Queue, m \in Ids : q = worker.q /\ m = worker.m
  BY <1>1 DEF Delivering
<1>3. worker'.at = "idle" /\ UNCHANGED <<tasks, sent, dead>>
  BY DEF AutoAck, Idle
<1>4. CASE q \in declared \cap stores /\ Remove(q, m)
  <2>1. Removal(q, m)
    BY <1>4, RemoveEffect
  <2>2. m \notin waitack'[q]
    BY <2>1 DEF Removal
  <2>3. \A p \in Queue : PutBack(p) \subseteq PutBack(p)' /\ waitack'[p] \subseteq waitack[p]
    BY <2>1, RemovalGrows
  <2> QED
    BY <1>1, <1>2, <1>3, <1>4, <2>1, <2>2, <2>3
<1>5. CASE /\ q \notin declared \cap stores \/ m \notin waitack[q]
           /\ UNCHANGED <<msgs, waitack, unmarked, requeued>>
  <2>1. \A p \in Queue : PutBack(p) \subseteq PutBack(p)' /\ waitack'[p] \subseteq waitack[p]
    BY <1>5 DEF PutBack
  <2> QED
    BY <1>1, <1>2, <1>3, <1>5, <2>1
<1> QED
  BY <1>2, <1>4, <1>5 DEF AutoAck, content

\* The steps that end the process.
LEMMA StopEffect ==
    ASSUME FrontOfEmpty \/ ChooseOfNull \/ UseOfFreed
    PROVE  UNCHANGED <<msgs, waitack, tasks, sent, worker>>
BY DEF FrontOfEmpty, ChooseOfNull, UseOfFreed, content, history

LEMMA InsertEffect ==
    ASSUME TypeOK, NEW q \in Queue, Insert(q)
    PROVE  /\ io.at = "insert" /\ q \in io.todo
           /\ io'.at = "enqueue" /\ io'.todo = io.todo /\ io'.q = q
           /\ \E n \in Nat :
                 /\ DOMAIN msgs[q] = 1..n /\ DOMAIN msgs'[q] = 1..(n + 1)
                 /\ Len(msgs[q]) = n /\ Len(msgs'[q]) = n + 1
                 /\ \A k \in 1..n : msgs'[q][k] = msgs[q][k]
                 /\ msgs'[q][n + 1] = published
           /\ \A p \in Queue \ {q} : msgs'[p] = msgs[p]
           /\ UNCHANGED <<waitack, tasks, worker, tainted>>
<1> DEFINE s == msgs[q]
<1>1. s \in Seq(Ids \cup {published})
  <2>1. s \in Seq(Ids)
    BY Typed
  <2> HIDE DEF s
  <2> QED
    BY <2>1
<1>2. /\ msgs'[q] = Append(s, published)
      /\ \A p \in Queue \ {q} : msgs'[p] = msgs[p]
  BY Typed DEF Insert
<1> HIDE DEF s
<1>3. /\ Append(s, published) \in Seq(Ids \cup {published})
      /\ Len(Append(s, published)) = Len(s) + 1
      /\ \A k \in 1..Len(s) : Append(s, published)[k] = s[k]
      /\ Append(s, published)[Len(s) + 1] = published
  BY <1>1, AppendProperties
<1>4. Len(s) \in Nat /\ DOMAIN s = 1..Len(s) /\ DOMAIN Append(s, published) = 1..(Len(s) + 1)
  BY <1>1, <1>3, LenProperties
<1>5. /\ io.at = "insert" /\ q \in io.todo
      /\ io'.at = "enqueue" /\ io'.todo = io.todo /\ io'.q = q
      /\ UNCHANGED <<waitack, tasks, worker, tainted>>
  BY DEF Insert, history
<1>6. \E n \in Nat :
          /\ DOMAIN msgs[q] = 1..n /\ DOMAIN msgs'[q] = 1..(n + 1)
          /\ Len(msgs[q]) = n /\ Len(msgs'[q]) = n + 1
          /\ \A k \in 1..n : msgs'[q][k] = msgs[q][k]
          /\ msgs'[q][n + 1] = published
  <2> WITNESS Len(s) \in Nat
  <2> QED
    BY <1>2, <1>3, <1>4 DEF s
<1> QED
  BY <1>2, <1>5, <1>6

LEMMA InsertFailsEffect ==
    ASSUME NEW q \in Queue, InsertFails(q)
    PROVE  /\ io.at = "insert" /\ q \in io.todo
           /\ io'.at = "enqueue" /\ io'.todo = io.todo /\ io'.q = q
           /\ tainted' = tainted \cup {q}
           /\ UNCHANGED <<msgs, waitack, tasks, worker>>
BY DEF InsertFails, content

LEMMA EnqueueEffect ==
    ASSUME Enqueue
    PROVE  /\ io.at = "enqueue"
           /\ \/ io'.at = "idle" /\ io.todo = {io.q}
              \/ io'.at = "insert" /\ io'.todo = io.todo \ {io.q}
           /\ tasks' = Append(tasks, [ch |-> io.ch, q |-> io.q])
           /\ UNCHANGED <<msgs, waitack, worker, tainted>>
BY DEF Enqueue, AfterEnqueue, Idle, content, history

LEMMA DestroyEffect ==
    ASSUME TypeOK, DestroyQueueMessage
    PROVE  /\ io.at = "delete" /\ io.q \in Queue
           /\ io'.at = "destroy" /\ io'.q = io.q
           /\ stores' = stores \ {io.q} /\ tainted' = tainted \cup {io.q}
           /\ msgs'[io.q] = <<>> /\ waitack'[io.q] = {}
           /\ \A p \in Queue \ {io.q} : msgs'[p] = msgs[p] /\ waitack'[p] = waitack[p]
           /\ \/ worker' = worker /\ ~(worker.at = "front" /\ worker.q = io.q)
              \/ /\ worker.at = "front" /\ worker.q = io.q
                 /\ worker'.at = "front cleared" /\ worker'.q = io.q
           /\ UNCHANGED <<lists, declared, tasks>>
<1>1. io.at = "delete" /\ io \in Administering
  BY HandlerShapes DEF TypeOK, DestroyQueueMessage
<1>2. io.q \in Queue /\ io'.at = "destroy" /\ io'.q = io.q
  BY <1>1 DEF Administering, DestroyQueueMessage
<1>3. worker.at = "front" => worker \in Fetching
  BY WorkerShapes DEF TypeOK
<1>4. \/ worker' = worker /\ ~(worker.at = "front" /\ worker.q = io.q)
      \/ /\ worker.at = "front" /\ worker.q = io.q
         /\ worker'.at = "front cleared" /\ worker'.q = io.q
  BY <1>3 DEF DestroyQueueMessage, Fetching
<1>5. /\ msgs'[io.q] = <<>> /\ waitack'[io.q] = {}
      /\ \A p \in Queue \ {io.q} : msgs'[p] = msgs[p] /\ waitack'[p] = waitack[p]
  BY <1>2, Typed DEF DestroyQueueMessage
<1>6. /\ stores' = stores \ {io.q} /\ tainted' = tainted \cup {io.q}
      /\ UNCHANGED <<lists, declared, tasks>>
  BY DEF DestroyQueueMessage
<1> QED
  BY <1>1, <1>2, <1>4, <1>5, <1>6

\* The ends of declaring and of deleting a queue.
LEMMA EndEffect ==
    ASSUME InitQueueConsumer \/ DeclareFails \/ DestoryQueueConsumer
    PROVE  io'.at = "idle" /\ UNCHANGED <<msgs, waitack, tasks, worker, tainted, stores>>
BY DEF InitQueueConsumer, DeclareFails, DestoryQueueConsumer, Idle, tables, content, history

-----------------------------------------------------------------------------
(* What remains of a queue that is gone.                                   *)

LEMMA RemovalRemains ==
    ASSUME Tables, Remains, NEW q \in Queue, q \in declared \cap stores, NEW m, Removal(q, m),
           UNCHANGED <<declared, stores, lists, io, tainted>>,
           worker' = worker \/ worker'.at = "idle"
    PROVE  Remains'
<1>1. \A p \in Queue \ {q} : msgs'[p] = msgs[p] /\ waitack'[p] \subseteq waitack[p]
  BY DEF Removal
<1>2. q \in declared' /\ q \in stores' /\ q \in lists'
  BY DEF Tables
<1>3. \A p \in Queue : p \notin declared' =>
          \/ io'.at = "delete" /\ io'.q = p
          \/ msgs'[p] = <<>> /\ waitack'[p] = {}
  <2> SUFFICES ASSUME NEW p \in Queue, p \notin declared', ~(io'.at = "delete" /\ io'.q = p)
               PROVE  msgs'[p] = <<>> /\ waitack'[p] = {}
    OBVIOUS
  <2>1. p # q
    BY <1>2
  <2>2. msgs[p] = <<>> /\ waitack[p] = {}
    BY DEF Remains
  <2> QED
    BY <1>1, <2>1, <2>2
<1> QED
  BY <1>1, <1>2, <1>3 DEF Remains

LEMMA RequestRemains ==
    ASSUME TypeOK, Tables, Remains, Requests
    PROVE  Remains'
<1>1. Idle.at = "idle"
  BY DEF Idle
<1>0. CASE ~UNCHANGED <<msgs, waitack, unmarked, requeued>>
  <2>1. PICK q \in Queue, m \in Ids :
            /\ q \in declared \cap stores /\ Removal(q, m)
            /\ UNCHANGED <<declared, bound, stores, io, published>>
    BY <1>0, RequestMessages
  <2>2. UNCHANGED <<lists, worker, tainted>>
    BY RequestFrame
  <2> QED
    BY <2>1, <2>2, RemovalRemains
<1> SUFFICES ASSUME UNCHANGED <<msgs, waitack, unmarked, requeued>>
             PROVE  Remains'
  BY <1>0
<1>2. io = Idle /\ UNCHANGED <<msgs, waitack, lists, worker, tainted>>
  BY RequestFrame
<1>3. \A q \in Queue : q \notin declared => msgs[q] = <<>> /\ waitack[q] = {}
  BY <1>1, <1>2 DEF Remains
<1>4. \A q \in Queue : q \notin declared' =>
          \/ io'.at = "delete" /\ io'.q = q
          \/ msgs'[q] = <<>> /\ waitack'[q] = {}
  <2>1. ASSUME NEW q \in Queue, q \notin declared', q \in declared
        PROVE  io'.at = "delete" /\ io'.q = q
    BY <2>1, RequestKinds
  <2>2. ASSUME NEW q \in Queue, q \notin declared
        PROVE  msgs'[q] = <<>> /\ waitack'[q] = {}
    BY <1>2, <1>3, <2>2
  <2> TAKE q \in Queue
  <2>3. CASE q \in declared
    BY <2>1, <2>3
  <2>4. CASE q \notin declared
    BY <2>2, <2>4
  <2> QED
    BY <2>3, <2>4
<1>5. stores \subseteq stores'
  BY RequestKinds
<1> QED
  BY <1>2, <1>4, <1>5 DEF Remains

LEMMA HandlerRemains ==
    ASSUME TypeOK, Tables, Remains, Handler \/ WriteFails
    PROVE  Remains'
<1>1. ASSUME NEW q \in Queue, Insert(q)
      PROVE  Remains'
  <2>1. UNCHANGED <<declared, stores, lists, tainted, worker, waitack>>
    BY <1>1 DEF Insert, tables, history
  <2>2. q \in declared /\ q \in stores /\ q \in lists
    BY <1>1 DEF Tables, Insert
  <2>3. \A p \in Queue \ {q} : msgs'[p] = msgs[p]
    BY <1>1, InsertEffect
  <2>4. io.at = "insert"
    BY <1>1, InsertEffect
  <2> QED
    BY <2>1, <2>2, <2>3, <2>4 DEF Remains
<1>2. ASSUME NEW q \in Queue, InsertFails(q)
      PROVE  Remains'
  <2>1. UNCHANGED <<declared, stores, lists>>
    BY <1>2 DEF InsertFails, tables
  <2> QED
    BY <1>2, <2>1, InsertFailsEffect DEF Remains
<1>3. CASE Enqueue
  <2>1. UNCHANGED <<declared, stores, lists>>
    BY <1>3 DEF Enqueue, tables
  <2> QED
    BY <1>3, <2>1, EnqueueEffect DEF Remains
<1>4. CASE InitQueueConsumer \/ DeclareFails
  <2>1. declared \subseteq declared' /\ lists \subseteq lists' /\ io.at = "declare"
    BY <1>4 DEF InitQueueConsumer, DeclareFails, tables
  <2> QED
    BY <1>4, <2>1, EndEffect DEF Remains
<1>5. CASE DestroyQueueMessage
  BY <1>5, DestroyEffect DEF Remains, Tables
<1>6. CASE DestoryQueueConsumer
  <2>1. lists' = lists \ {io.q} /\ declared' = declared /\ io.at = "destroy"
    BY <1>6 DEF DestoryQueueConsumer
  <2>2. io.q \in tainted
    BY <2>1 DEF Tables
  <2> QED
    BY <1>6, <2>1, <2>2, EndEffect DEF Remains
<1> QED
  BY <1>1, <1>2, <1>3, <1>4, <1>5, <1>6 DEF Handler, WriteFails

LEMMA WorkerRemains ==
    ASSUME TypeOK, Tables, Remains, Worker \/ UseOfFreed
    PROVE  Remains'
<1>1. UNCHANGED <<declared, stores, lists, io, tainted>>
  BY WorkerFrame
<1>2. CASE Take
  BY <1>1, <1>2, TakeEffect DEF Remains
<1>3. CASE Find
  BY <1>1, <1>3, FindEffect DEF Remains
<1>4. CASE Front
  <2> DEFINE p == worker.q
  <2>1. /\ worker'.at = "choose" /\ worker'.q = p
        /\ msgs[p] # <<>> /\ p \in Queue
        /\ \A q \in Queue \ {p} : msgs'[q] = msgs[q] /\ waitack'[q] = waitack[q]
    BY <1>4, FrontEffect
  <2>2. p \in stores /\ p \in lists \cup tainted
    BY <2>1 DEF Remains
  <2>3. p \notin declared => io.at = "delete" /\ io.q = p
    BY <2>1 DEF Remains
  <2> HIDE DEF p
  <2> QED
    BY <1>1, <2>1, <2>2, <2>3 DEF Remains
<1>5. CASE Choose
  BY <1>1, <1>5, ChooseEffect DEF Remains
<1>6. CASE Callback
  BY <1>1, <1>6, CallbackEffect DEF Remains
<1>7. CASE AutoAck
  <2>1. PICK q \in Queue, m \in Ids :
            \/ q \in declared \cap stores /\ Removal(q, m)
            \/ UNCHANGED <<msgs, waitack, unmarked, requeued>>
    BY <1>7, AutoAckEffect
  <2>2. worker'.at = "idle"
    BY <1>7, AutoAckEffect
  <2>3. CASE q \in declared \cap stores /\ Removal(q, m)
    BY <1>1, <2>2, <2>3, RemovalRemains
  <2>4. CASE UNCHANGED <<msgs, waitack, unmarked, requeued>>
    BY <1>1, <2>2, <2>4 DEF Remains
  <2> QED
    BY <2>1, <2>3, <2>4
<1>8. CASE FrontOfEmpty \/ ChooseOfNull \/ UseOfFreed
  BY <1>1, <1>8, StopEffect DEF Remains
<1> QED
  BY <1>2, <1>3, <1>4, <1>5, <1>6, <1>7, <1>8 DEF Worker

-----------------------------------------------------------------------------
(* The order of the messages.                                              *)

LEMMA MessageTypes ==
    ASSUME TypeOK, NEW q \in Queue
    PROVE  /\ \A k \in DOMAIN msgs[q] : msgs[q][k] \in Int
           /\ \A k \in DOMAIN sent[q] : sent[q][k].m \in Int
           /\ unmarked[q] \subseteq Int
           /\ InHand(q) => worker.m \in Int
           /\ Carries(q) => InHand(q)
           /\ published \in Int /\ Newest(q) \in Int
<1>1. published \in Int
  BY Typed, BrokerAssumption
<1>2. msgs[q] \in Seq(Ids) /\ \A k \in DOMAIN msgs[q] : msgs[q][k] \in Ids
  <2>1. msgs[q] \in Seq(Ids)
    BY Typed
  <2> QED
    BY <2>1, ElementOfSeq, LenProperties
<1>3. \A k \in DOMAIN sent[q] : sent[q][k].m \in Ids
  <2>1. sent[q] \in Seq([m : Ids, ch : Chan, auto : BOOLEAN])
    BY Typed
  <2>2. \A k \in DOMAIN sent[q] : sent[q][k] \in [m : Ids, ch : Chan, auto : BOOLEAN]
    BY <2>1, ElementOfSeq, LenProperties
  <2> QED
    BY <2>2
<1>4. InHand(q) => worker.m \in Ids
  BY WorkerShapes DEF TypeOK, InHand, Choosing, Delivering
<1>5. Ids \subseteq Int
  BY BrokerAssumption DEF Ids
<1>6. Newest(q) \in Int
  BY <1>1 DEF Newest
<1>7. unmarked[q] \subseteq Ids
  BY Typed
<1>8. Carries(q) => InHand(q)
  BY DEF Carries, InHand
<1> QED
  BY <1>1, <1>2, <1>3, <1>4, <1>5, <1>6, <1>7, <1>8

\* What may follow still may when more has been put back.
LEMMA FollowsStill ==
    ASSUME NEW B, NEW C, B \subseteq C
    PROVE  \A m, n : Follows(B, m, n) => Follows(C, m, n)
BY DEF Follows

\* A step that leaves q's messages where they are keeps their order.
LEMMA OrderKept ==
    ASSUME TypeOK, NEW q \in Queue, InLine(q), UpToNow(q),
           msgs'[q] = msgs[q], sent'[q] = sent[q], requeued'[q] = requeued[q],
           unmarked'[q] \subseteq unmarked[q],
           InHand(q)' => InHand(q) /\ worker'.m = worker.m,
           Carries(q)' => Carries(q) /\ worker'.m = worker.m,
           Newest(q)' \in Int, Newest(q) <= Newest(q)'
    PROVE  InLine(q)' /\ UpToNow(q)'
<1>1. InLine(q)'
  <2>1. \A m, n : Follows(PutBack(q), m, n) => Follows(PutBack(q)', m, n)
    BY FollowsStill DEF PutBack
  <2> QED
    BY <2>1 DEF InLine
<1>2. UpToNow(q)'
  BY MessageTypes DEF UpToNow
<1> QED
  BY <1>1, <1>2

\* A removal from p, if what it removes is not newer than p's messages.
LEMMA RemovalOrdered ==
    ASSUME TypeOK, NEW q \in Queue, InLine(q), UpToNow(q),
           NEW p \in Queue, NEW m \in Ids, Removal(p, m), q = p => m <= Newest(q),
           sent' = sent, Newest(q)' = Newest(q),
           InHand(q)' => InHand(q) /\ worker'.m = worker.m,
           Carries(q)' => Carries(q) /\ worker'.m = worker.m
    PROVE  InLine(q)' /\ UpToNow(q)'
<1>1. CASE q # p
  BY <1>1, OrderKept, MessageTypes DEF Removal
<1>2. CASE q = p
  <2>1. PICK n \in Nat, b \in Nat :
            /\ DOMAIN msgs[q] = 1..n /\ DOMAIN msgs'[q] = 1..(n + b)
            /\ \A k \in 1..n : msgs'[q][k] = msgs[q][k]
            /\ \A k \in (n + 1)..(n + b) :
                  /\ msgs'[q][k] \in unmarked[q] \cup {m}
                  /\ \E l \in DOMAIN requeued'[q] : msgs'[q][k] = requeued'[q][l]
    BY <1>2 DEF Removal
  <2>2. \A k \in DOMAIN msgs'[q] : k \in 1..n \/ k \in (n + 1)..(n + b)
    BY <2>1
  <2>3. \A k \in (n + 1)..(n + b) : \A i : Follows(PutBack(q)', i, msgs'[q][k])
    BY <2>1 DEF Follows, PutBack
  <2>4. \A i, j : Follows(PutBack(q), i, j) => Follows(PutBack(q)', i, j)
    BY RemovalGrows, FollowsStill, <1>2
  <2>5. \A k, l \in DOMAIN msgs'[q] : k < l => Follows(PutBack(q)', msgs'[q][k], msgs'[q][l])
    <3> SUFFICES ASSUME NEW k \in DOMAIN msgs'[q], NEW l \in DOMAIN msgs'[q], k < l
                 PROVE  Follows(PutBack(q)', msgs'[q][k], msgs'[q][l])
      OBVIOUS
    <3>1. CASE l \in 1..n
      <4>1. k \in 1..n /\ k \in DOMAIN msgs[q] /\ l \in DOMAIN msgs[q]
        BY <2>1, <3>1
      <4>2. Follows(PutBack(q), msgs[q][k], msgs[q][l])
        BY <4>1 DEF InLine
      <4>3. msgs'[q][k] = msgs[q][k] /\ msgs'[q][l] = msgs[q][l]
        BY <2>1, <3>1, <4>1
      <4> QED
        BY <2>4, <4>2, <4>3
    <3>2. CASE l \in (n + 1)..(n + b)
      BY <2>3, <3>2
    <3> QED
      BY <2>2, <3>1, <3>2
  <2>6. \A i : (\A l \in DOMAIN msgs[q] : Follows(PutBack(q), i, msgs[q][l]))
                  => \A l \in DOMAIN msgs'[q] : Follows(PutBack(q)', i, msgs'[q][l])
    <3> SUFFICES ASSUME NEW i, \A l \in DOMAIN msgs[q] : Follows(PutBack(q), i, msgs[q][l]),
                        NEW l \in DOMAIN msgs'[q]
                 PROVE  Follows(PutBack(q)', i, msgs'[q][l])
      OBVIOUS
    <3>1. CASE l \in 1..n
      <4>1. l \in DOMAIN msgs[q] /\ msgs'[q][l] = msgs[q][l]
        BY <2>1, <3>1
      <4> QED
        BY <2>4, <4>1
    <3>2. CASE l \in (n + 1)..(n + b)
      BY <2>3, <3>2
    <3> QED
      BY <2>2, <3>1, <3>2
  <2>7. InLine(q)'
    <3>1. \A k, l \in DOMAIN sent'[q] : k < l => Follows(PutBack(q)', sent'[q][k].m, sent'[q][l].m)
      BY <2>4 DEF InLine
    <3>2. \A k \in DOMAIN sent'[q], l \in DOMAIN msgs'[q] :
              Follows(PutBack(q)', sent'[q][k].m, msgs'[q][l])
      BY <2>6 DEF InLine
    <3>3. Carries(q)' => /\ \A k \in DOMAIN sent'[q] : Follows(PutBack(q)', sent'[q][k].m, worker'.m)
                         /\ \A l \in DOMAIN msgs'[q] : Follows(PutBack(q)', worker'.m, msgs'[q][l])
      BY <2>4, <2>6 DEF InLine
    <3> QED
      BY <2>5, <3>1, <3>2, <3>3 DEF InLine
  <2>8. \A i \in unmarked[q] \cup {m} : i <= Newest(q)
    BY <1>2 DEF UpToNow
  <2>9. \A k \in DOMAIN msgs'[q] : msgs'[q][k] <= Newest(q)
    BY <2>1, <2>2, <2>8 DEF UpToNow
  <2>10. unmarked'[q] \subseteq unmarked[q] \cup {m}
    BY <1>2 DEF Removal
  <2> QED
    BY <2>7, <2>8, <2>9, <2>10 DEF UpToNow
<1> QED
  BY <1>1, <1>2

LEMMA RequestOrdered ==
    ASSUME TypeOK, Ordered, Requests
    PROVE  Ordered'
<1> SUFFICES ASSUME NEW q \in Queue
             PROVE  InLine(q)' /\ UpToNow(q)'
  BY DEF Ordered
<1>1. io.at = "idle" /\ UNCHANGED <<sent, worker>>
  BY RequestFrame DEF Idle
<1>2. Newest(q) = published /\ published \in Int
  BY <1>1, MessageTypes DEF Newest, Awaits
<1>3. \/ io'.at \in {"idle", "declare", "delete"} /\ published' = published
      \/ published' = published + 1
  BY <1>1, RequestKinds
<1>4. Newest(q)' \in {published, published + 1}
  <2>1. CASE io'.at \in {"idle", "declare", "delete"} /\ published' = published
    BY <2>1 DEF Newest, Awaits
  <2>2. CASE published' = published + 1
    BY <1>2, <2>2 DEF Newest
  <2> QED
    BY <1>3, <2>1, <2>2
<1>5. Newest(q)' \in Int /\ Newest(q) <= Newest(q)'
  BY <1>2, <1>4
<1>6. /\ InHand(q)' => InHand(q) /\ worker'.m = worker.m
      /\ Carries(q)' => Carries(q) /\ worker'.m = worker.m
  BY <1>1 DEF InHand, Carries
<1>7. InLine(q) /\ UpToNow(q)
  BY DEF Ordered
<1>8. CASE UNCHANGED <<msgs, waitack, unmarked, requeued>>
  BY <1>1, <1>5, <1>6, <1>7, <1>8, OrderKept
<1>9. ASSUME NEW p \in Queue, NEW m \in Ids, Removal(p, m),
             \E k \in DOMAIN sent[p] : sent[p][k].m = m, UNCHANGED <<io, published>>
      PROVE  InLine(q)' /\ UpToNow(q)'
  <2>1. q = p => m <= Newest(q)
    BY <1>7, <1>9 DEF UpToNow
  <2>2. Newest(q)' = Newest(q)
    BY <1>9 DEF Newest, Awaits
  <2> QED
    BY <1>1, <1>6, <1>7, <1>9, <2>1, <2>2, RemovalOrdered
<1> QED
  BY <1>8, <1>9, RequestMessages

LEMMA HandlerOrdered ==
    ASSUME TypeOK, Ordered, Handler \/ WriteFails
    PROVE  Ordered'
<1> SUFFICES ASSUME NEW q \in Queue
             PROVE  InLine(q)' /\ UpToNow(q)'
  BY DEF Ordered
<1>1. sent' = sent /\ published' = published /\ published \in Int
  BY HandlerFrame, MessageTypes
<1>2. InLine(q) /\ UpToNow(q)
  BY DEF Ordered
<1>3. (Awaits(q)' => Awaits(q)) => Newest(q)' \in Int /\ Newest(q) <= Newest(q)'
  BY <1>1 DEF Newest
<1>4. worker' = worker => /\ InHand(q)' => InHand(q) /\ worker'.m = worker.m
                          /\ Carries(q)' => Carries(q) /\ worker'.m = worker.m
  BY DEF Carries, InHand
<1>10. unmarked'[q] \subseteq unmarked[q] /\ requeued' = requeued
  BY HandlerMarks
<1>5. ASSUME NEW p \in Queue, Insert(p)
      PROVE  InLine(q)' /\ UpToNow(q)'
  <2>1. worker' = worker /\ io.at = "insert" /\ p \in io.todo
        /\ io'.at = "enqueue" /\ io'.todo = io.todo /\ io'.q = p
    BY <1>5, InsertEffect
  <2>2. CASE q # p
    <3>1. msgs'[q] = msgs[q]
      BY <1>5, <2>2, InsertEffect
    <3>2. Awaits(q)' => Awaits(q)
      BY <2>1 DEF Awaits
    <3> QED
      BY <1>1, <1>2, <1>3, <1>4, <1>10, <2>1, <3>1, <3>2, OrderKept
  <2>3. CASE q = p
    <3>1. Newest(q) = published - 1 /\ Newest(q)' = published
      BY <1>1, <2>1, <2>3 DEF Newest, Awaits
    <3>2. PICK n \in Nat :
              /\ DOMAIN msgs[q] = 1..n /\ DOMAIN msgs'[q] = 1..(n + 1)
              /\ \A k \in 1..n : msgs'[q][k] = msgs[q][k]
              /\ msgs'[q][n + 1] = published
      BY <1>5, <2>3, InsertEffect
    <3>3. (InHand(q)' <=> InHand(q)) /\ (Carries(q)' <=> Carries(q))
      BY <2>1 DEF InHand, Carries
    <3>8. \A i, j : Follows(PutBack(q)', i, j) <=> Follows(PutBack(q), i, j)
      BY <1>10 DEF Follows, PutBack
    <3>4. \A k \in DOMAIN msgs'[q] : k \in 1..n \/ k = n + 1
      BY <3>2
    <3>5. /\ \A k \in 1..n : msgs[q][k] \in Int /\ msgs[q][k] < published
          /\ \A k \in DOMAIN sent[q] : sent[q][k].m \in Int /\ sent[q][k].m < published
          /\ InHand(q) => worker.m \in Int /\ worker.m < published
          /\ \A m \in unmarked[q] : m \in Int /\ m < published
      <4>1. /\ \A k \in DOMAIN msgs[q] : msgs[q][k] \in Int
            /\ \A k \in DOMAIN sent[q] : sent[q][k].m \in Int
            /\ InHand(q) => worker.m \in Int
            /\ \A m \in unmarked[q] : m \in Int
        BY MessageTypes
      <4>2. /\ \A k \in DOMAIN msgs[q] : msgs[q][k] <= published - 1
            /\ \A k \in DOMAIN sent[q] : sent[q][k].m <= published - 1
            /\ InHand(q) => worker.m <= published - 1
            /\ \A m \in unmarked[q] : m <= published - 1
        BY <1>2, <3>1 DEF UpToNow
      <4>3. \A i \in Int : i <= published - 1 => i < published
        BY <1>1
      <4>4. \A k \in 1..n : msgs[q][k] \in Int /\ msgs[q][k] < published
        BY <3>2, <4>1, <4>2, <4>3
      <4>5. \A k \in DOMAIN sent[q] : sent[q][k].m \in Int /\ sent[q][k].m < published
        BY <4>1, <4>2, <4>3
      <4> QED
        BY <4>1, <4>2, <4>3, <4>4, <4>5
    <3>6. UpToNow(q)'
      BY <1>1, <1>10, <2>1, <3>1, <3>2, <3>3, <3>4, <3>5 DEF UpToNow
    <3>7. InLine(q)'
      <4>1. \A k, l \in DOMAIN msgs'[q] : k < l => Follows(PutBack(q), msgs'[q][k], msgs'[q][l])
        <5> SUFFICES ASSUME NEW k \in DOMAIN msgs'[q], NEW l \in DOMAIN msgs'[q], k < l
                     PROVE  Follows(PutBack(q), msgs'[q][k], msgs'[q][l])
          OBVIOUS
        <5>1. k \in 1..n
          BY <3>2
        <5>2. CASE l \in 1..n
          BY <1>2, <3>2, <5>1, <5>2 DEF InLine
        <5>3. CASE l = n + 1
          BY <3>2, <3>5, <5>1, <5>3 DEF Follows
        <5> QED
          BY <3>4, <5>2, <5>3
      <4>4. \A k \in DOMAIN sent[q] : Follows(PutBack(q), sent[q][k].m, published)
        BY <3>5 DEF Follows
      <4>5. Carries(q) => Follows(PutBack(q), worker.m, published)
        BY <3>5, MessageTypes DEF Follows
      <4>2. \A k \in DOMAIN sent[q], l \in DOMAIN msgs'[q] :
                Follows(PutBack(q), sent[q][k].m, msgs'[q][l])
        BY <1>2, <3>2, <3>4, <4>4 DEF InLine
      <4>3. Carries(q) => \A l \in DOMAIN msgs'[q] : Follows(PutBack(q), worker.m, msgs'[q][l])
        BY <1>2, <3>2, <3>4, <4>5 DEF InLine
      <4> QED
        BY <1>1, <1>2, <2>1, <3>3, <3>8, <4>1, <4>2, <4>3 DEF InLine
    <3> QED
      BY <3>6, <3>7
  <2> QED
    BY <2>2, <2>3
<1>6. ASSUME NEW p \in Queue, InsertFails(p)
      PROVE  InLine(q)' /\ UpToNow(q)'
  <2>1. Awaits(q)' => Awaits(q)
    BY <1>6, InsertFailsEffect DEF Awaits
  <2> QED
    BY <1>1, <1>2, <1>3, <1>4, <1>6, <1>10, <2>1, InsertFailsEffect, OrderKept
<1>7. CASE Enqueue
  <2>1. Awaits(q)' => Awaits(q)
    BY <1>7, EnqueueEffect DEF Awaits
  <2> QED
    BY <1>1, <1>2, <1>3, <1>4, <1>7, <1>10, <2>1, EnqueueEffect, OrderKept
<1>8. CASE DestroyQueueMessage
  <2>1. ~Awaits(q)'
    BY <1>8, DestroyEffect DEF Awaits
  <2>2. /\ InHand(q)' => InHand(q) /\ worker'.m = worker.m
        /\ Carries(q)' => Carries(q) /\ worker'.m = worker.m
    BY <1>8, DestroyEffect DEF InHand, Carries
  <2>3. CASE q # io.q
    <3>1. msgs'[q] = msgs[q]
      BY <1>8, <2>3, DestroyEffect
    <3> QED
      BY <1>1, <1>2, <1>3, <1>10, <2>1, <2>2, <3>1, OrderKept
  <2>4. CASE q = io.q
    <3>1. msgs'[q] = <<>> /\ DOMAIN msgs'[q] = {}
      <4>1. msgs'[q] = <<>>
        BY <1>8, <2>4, DestroyEffect
      <4>2. DOMAIN <<>> = {}
        OBVIOUS
      <4> QED
        BY <4>1, <4>2
    <3>2. InLine(q)'
      BY <1>1, <1>2, <1>10, <2>2, <3>1 DEF InLine, Follows, PutBack
    <3>3. UpToNow(q)'
      BY <1>1, <1>2, <1>3, <1>10, <2>1, <2>2, <3>1, MessageTypes DEF UpToNow
    <3> QED
      BY <3>2, <3>3
  <2> QED
    BY <2>3, <2>4
<1>9. CASE InitQueueConsumer \/ DeclareFails \/ DestoryQueueConsumer
  <2>1. ~Awaits(q)'
    BY <1>9, EndEffect DEF Awaits
  <2> QED
    BY <1>1, <1>2, <1>3, <1>4, <1>9, <1>10, <2>1, EndEffect, OrderKept
<1> QED
  BY <1>5, <1>6, <1>7, <1>8, <1>9 DEF Handler, WriteFails

LEMMA WorkerOrdered ==
    ASSUME TypeOK, Ordered, Worker \/ UseOfFreed
    PROVE  Ordered'
<1> SUFFICES ASSUME NEW q \in Queue
             PROVE  InLine(q)' /\ UpToNow(q)'
  BY DEF Ordered
<1>1. Newest(q)' = Newest(q) /\ Newest(q) \in Int
  BY WorkerFrame, MessageTypes DEF Newest, Awaits
<1>2. InLine(q) /\ UpToNow(q)
  BY DEF Ordered
<1>3. ASSUME UNCHANGED <<msgs, sent, unmarked, requeued>>,
             InHand(q)' => InHand(q) /\ worker'.m = worker.m,
             Carries(q)' => Carries(q) /\ worker'.m = worker.m
      PROVE  InLine(q)' /\ UpToNow(q)'
  BY <1>1, <1>2, <1>3, OrderKept
<1>4. CASE Take \/ Find
  <2>1. ~InHand(q)' /\ ~Carries(q)' /\ UNCHANGED <<msgs, sent>>
    BY <1>4, TakeEffect, FindEffect DEF InHand, Carries
  <2> QED
    BY <1>3, <1>4, <2>1, WorkerMarks
<1>9. CASE AutoAck
  <2>1. ~InHand(q)' /\ ~Carries(q)' /\ sent' = sent
    BY <1>9, AutoAckEffect DEF InHand, Carries
  <2>2. PICK p \in Queue, m \in Ids :
            /\ p = worker.q /\ m = worker.m
            /\ Removal(p, m) \/ UNCHANGED <<msgs, waitack, unmarked, requeued>>
    BY <1>9, AutoAckEffect
  <2>3. CASE Removal(p, m)
    <3>1. q = p => InHand(q)
      BY <1>9, <2>2, AutoAckEffect DEF InHand
    <3>2. q = p => m <= Newest(q)
      BY <1>2, <2>2, <3>1 DEF UpToNow
    <3> QED
      BY <1>1, <1>2, <2>1, <2>3, <3>2, RemovalOrdered
  <2>4. CASE UNCHANGED <<msgs, waitack, unmarked, requeued>>
    BY <1>3, <2>1, <2>4
  <2> QED
    BY <2>2, <2>3, <2>4
<1>5. CASE Front
  <2>0. UNCHANGED <<unmarked, requeued>>
    BY <1>5, WorkerMarks
  <2>1. CASE q # worker.q
    <3>1. msgs'[q] = msgs[q] /\ sent'[q] = sent[q] /\ ~InHand(q)' /\ ~Carries(q)'
      BY <1>5, <2>1, FrontEffect DEF InHand, Carries
    <3> QED
      BY <1>1, <1>2, <2>0, <3>1, OrderKept
  <2>2. CASE q = worker.q
    <3> DEFINE n == Len(msgs[q])
    <3>1. /\ worker'.m = msgs[q][1] /\ sent' = sent /\ ~Carries(q)
          /\ DOMAIN msgs[q] = 1..n /\ DOMAIN msgs'[q] = 1..(n - 1)
          /\ n \in Nat /\ 1 \in DOMAIN msgs[q]
          /\ \A k \in DOMAIN msgs'[q] :
                k + 1 \in DOMAIN msgs[q] /\ msgs'[q][k] = msgs[q][k + 1]
      BY <1>5, <2>2, FrontEffect DEF Carries
    <3> HIDE DEF n
    <3>0. \A i, j : Follows(PutBack(q)', i, j) <=> Follows(PutBack(q), i, j)
      BY <2>0 DEF Follows, PutBack
    <3>2. \A l \in DOMAIN msgs'[q] : Follows(PutBack(q), worker'.m, msgs'[q][l])
      <4> TAKE l \in DOMAIN msgs'[q]
      <4>1. 1 < l + 1 /\ l + 1 \in DOMAIN msgs[q]
        BY <3>1
      <4> QED
        BY <1>2, <3>1, <4>1 DEF InLine
    <3>3. \A k \in DOMAIN sent[q] : Follows(PutBack(q), sent[q][k].m, worker'.m)
      BY <1>2, <3>1 DEF InLine
    <3>4. \A k, l \in DOMAIN msgs'[q] : k < l => Follows(PutBack(q), msgs'[q][k], msgs'[q][l])
      <4> SUFFICES ASSUME NEW k \in DOMAIN msgs'[q], NEW l \in DOMAIN msgs'[q], k < l
                   PROVE  Follows(PutBack(q), msgs'[q][k], msgs'[q][l])
        OBVIOUS
      <4>1. k + 1 < l + 1 /\ k + 1 \in DOMAIN msgs[q] /\ l + 1 \in DOMAIN msgs[q]
        BY <3>1
      <4> QED
        BY <1>2, <3>1, <4>1 DEF InLine
    <3>5. \A k \in DOMAIN sent[q], l \in DOMAIN msgs'[q] : Follows(PutBack(q), sent[q][k].m, msgs'[q][l])
      BY <1>2, <3>1 DEF InLine
    <3>6. InLine(q)'
      BY <1>2, <3>0, <3>1, <3>2, <3>3, <3>4, <3>5 DEF InLine
    <3>7. UpToNow(q)'
      BY <1>1, <1>2, <2>0, <3>1 DEF UpToNow
    <3> QED
      BY <3>6, <3>7
  <2> QED
    BY <2>1, <2>2
<1>6. CASE Choose
  <2>1. /\ InHand(q)' => InHand(q) /\ worker'.m = worker.m
        /\ Carries(q)' => Carries(q) /\ worker'.m = worker.m
    BY <1>6, ChooseEffect DEF InHand, Carries
  <2> QED
    BY <1>3, <1>6, <2>1, ChooseEffect, WorkerMarks
<1>7. CASE Callback
  <2>1. /\ ~Carries(q)' /\ msgs' = msgs
        /\ InHand(q)' => InHand(q) /\ worker'.m = worker.m
    BY <1>7, CallbackEffect DEF InHand, Carries
  <2>0. UNCHANGED <<unmarked, requeued>>
    BY <1>7, WorkerMarks
  <2>2. CASE q # worker.q
    <3>1. sent'[q] = sent[q]
      BY <1>7, <2>2, CallbackEffect
    <3> QED
      BY <1>1, <1>2, <2>0, <2>1, <3>1, OrderKept
  <2>3. CASE q = worker.q
    <3>1. Carries(q) /\ InHand(q)
      BY <1>7, <2>3, CallbackEffect DEF InHand, Carries
    <3>0. \A i, j : Follows(PutBack(q)', i, j) <=> Follows(PutBack(q), i, j)
      BY <2>0 DEF Follows, PutBack
    <3>2. PICK n \in Nat :
              /\ DOMAIN sent[q] = 1..n /\ DOMAIN sent'[q] = 1..(n + 1)
              /\ \A k \in 1..n : sent'[q][k] = sent[q][k]
              /\ sent'[q][n + 1].m = worker.m
      BY <1>7, <2>3, CallbackEffect
    <3>3. \A k \in DOMAIN sent'[q] : k \in 1..n \/ k = n + 1
      BY <3>2
    <3>4. \A k, l \in DOMAIN sent'[q] : k < l => Follows(PutBack(q), sent'[q][k].m, sent'[q][l].m)
      <4> SUFFICES ASSUME NEW k \in DOMAIN sent'[q], NEW l \in DOMAIN sent'[q], k < l
                   PROVE  Follows(PutBack(q), sent'[q][k].m, sent'[q][l].m)
        OBVIOUS
      <4>1. k \in 1..n
        BY <3>2
      <4>2. CASE l \in 1..n
        BY <1>2, <3>2, <4>1, <4>2 DEF InLine
      <4>3. CASE l = n + 1
        BY <1>2, <3>1, <3>2, <4>1, <4>3 DEF InLine
      <4> QED
        BY <3>3, <4>2, <4>3
    <3>5. \A k \in DOMAIN sent'[q], l \in DOMAIN msgs[q] : Follows(PutBack(q), sent'[q][k].m, msgs[q][l])
      BY <1>2, <3>1, <3>2, <3>3 DEF InLine
    <3>6. InLine(q)'
      BY <1>2, <2>1, <3>0, <3>4, <3>5 DEF InLine
    <3>7. UpToNow(q)'
      BY <1>1, <1>2, <2>0, <2>1, <3>1, <3>2, <3>3 DEF UpToNow
    <3> QED
      BY <3>6, <3>7
  <2> QED
    BY <2>2, <2>3
<1>8. CASE FrontOfEmpty \/ ChooseOfNull \/ UseOfFreed
  BY <1>3, <1>8, StopEffect, WorkerMarks DEF InHand, Carries
<1> QED
  BY <1>4, <1>5, <1>6, <1>7, <1>8, <1>9 DEF Worker

-----------------------------------------------------------------------------
(* The subscriptions.                                                      *)

LEMMA SubscriptionTypes ==
    ASSUME TypeOK
    PROVE  /\ \A q \in Queue : consumers[q] \in Seq(Consumer)
           /\ \A q \in Queue : \A k \in DOMAIN consumers[q] :
                 consumers[q][k] \in Consumer /\ consumers[q][k].ch \in Chan
           /\ own \in [Chan -> Consumer \cup {None}]
           /\ sub \in [Chan -> Subscription \cup {None}]
           /\ chan \in [Chan -> {"new", "open", "closed", "gone"}]
           /\ \A c \in Chan : sub[c] # None => sub[c] \in Subscription /\ sub[c].q \in Queue
           /\ None \notin Consumer /\ None \notin Subscription
<1>1. \A q \in Queue : consumers[q] \in Seq(Consumer)
  BY Typed
<1>2. \A q \in Queue : \A k \in DOMAIN consumers[q] : consumers[q][k] \in Consumer
  BY <1>1, ElementOfSeq, LenProperties
<1>3. \A con \in Consumer : con.ch \in Chan
  BY DEF Consumer
<1>4. /\ own \in [Chan -> Consumer \cup {None}]
      /\ sub \in [Chan -> Subscription \cup {None}]
      /\ chan \in [Chan -> {"new", "open", "closed", "gone"}]
  BY DEF TypeOK
<1>5. \A s \in Subscription : s.q \in Queue
  BY DEF Subscription
<1>6. None \notin Consumer /\ None \notin Subscription
  BY BrokerAssumption
<1> QED
  BY <1>1, <1>2, <1>3, <1>4, <1>5, <1>6

\* Freeing channels leaves consumers of the others only, and all of those whose
\* tag and queue are not those of a channel freed.
LEMMA DestroyedElements ==
    ASSUME TypeOK, Subscribed, NEW C \in SUBSET Chan, NEW q \in Queue
    PROVE  /\ \A k \in DOMAIN Destroyed(C)[q] : \E i \in DOMAIN consumers[q] :
                 Destroyed(C)[q][k] = consumers[q][i] /\ consumers[q][i].ch \notin C
           /\ \A i \in DOMAIN consumers[q] :
                 (\A d \in C : own[d] # None /\ own[d].q = q => own[d].tag # consumers[q][i].tag)
                     => \E k \in DOMAIN Destroyed(C)[q] : Destroyed(C)[q][k] = consumers[q][i]
<1> DEFINE tags == {own[c].tag : c \in {d \in C : own[d] # None /\ own[d].q = q}}
<1>1. CASE q \notin lists
  <2>1. Destroyed(C)[q] = consumers[q]
    BY <1>1 DEF Destroyed
  <2>2. consumers[q] = <<>>
    BY <1>1 DEF Subscribed
  <2>3. DOMAIN <<>> = {}
    OBVIOUS
  <2> QED
    BY <2>1, <2>2, <2>3
<1>2. CASE q \in lists
  <2>1. Destroyed(C)[q] = Without(consumers[q], tags)
    BY <1>2 DEF Destroyed
  <2>2. \A i \in DOMAIN consumers[q] :
            /\ consumers[q][i].ch \in Chan /\ own[consumers[q][i].ch] = consumers[q][i]
            /\ consumers[q][i] # None /\ consumers[q][i].q = q
            /\ consumers[q][i].tag = TagOf[consumers[q][i].ch]
    BY SubscriptionTypes DEF Subscribed
  <2>3. \A i \in DOMAIN consumers[q] : consumers[q][i].tag \notin tags =>
            consumers[q][i].ch \notin C
    BY <2>2
  <2>5. \A i \in DOMAIN consumers[q] :
            (\A d \in C : own[d] # None /\ own[d].q = q => own[d].tag # consumers[q][i].tag)
                => consumers[q][i].tag \notin tags
    OBVIOUS
  <2> HIDE DEF tags
  <2>6. consumers[q] \in Seq(Consumer)
    BY SubscriptionTypes
  <2>7. /\ \A k \in DOMAIN Without(consumers[q], tags) : \E i \in DOMAIN consumers[q] :
              Without(consumers[q], tags)[k] = consumers[q][i] /\ consumers[q][i].tag \notin tags
        /\ \A i \in DOMAIN consumers[q] : consumers[q][i].tag \notin tags =>
              \E k \in DOMAIN Without(consumers[q], tags) :
                  Without(consumers[q], tags)[k] = consumers[q][i]
    BY <2>6, WithoutElements
  <2> QED
    BY <2>1, <2>3, <2>5, <2>7
<1> QED
  BY <1>1, <1>2

\* Only these requests touch the subscriptions.
LEMMA SubscriptionRequests ==
    ASSUME Requests
    PROVE  \/ UNCHANGED <<consumers, own, sub, chan>>
           \/ \E k \in Conn : DeleteConnection(k)
           \/ \E c \in Chan : OpenChannel(c) \/ CloseChannel(c) \/ BasicCancel(c)
           \/ \E c \in Chan, q \in Queue, auto \in BOOLEAN : BasicConsume(c, q, auto)
<1> DEFINE Frame == UNCHANGED <<consumers, own, sub, chan>>
<1>1. \A c \in Chan : LateRequest(c) => Frame
  BY DEF LateRequest, subscribers
<1>2. \A c \in Chan, m \in Ids : BasicAck(c, m) => Frame
  BY DEF BasicAck, subscribers
<1>3. \A c \in Chan, q \in Queue \cup Deletable :
          QueueBind(c, q) \/ QueueUnBind(c, q) \/ DeclareQueue(c, q) \/ DeleteQueue(c, q)
              => Frame
  BY DEF QueueBind, QueueUnBind, DeclareQueue, DeleteQueue, subscribers
<1>4. \A c \in Chan, matching \in SUBSET bound \ {{}} : BasicPublish(c, matching) => Frame
  BY DEF BasicPublish, subscribers
<1> HIDE DEF Frame
<1>5. \/ Frame
      \/ \E k \in Conn : DeleteConnection(k)
      \/ \E c \in Chan : OpenChannel(c) \/ CloseChannel(c) \/ BasicCancel(c)
      \/ \E c \in Chan, q \in Queue, auto \in BOOLEAN : BasicConsume(c, q, auto)
  BY <1>1, <1>2, <1>3, <1>4 DEF Requests
<1> QED
  BY <1>5 DEF Frame

\* Channels C are freed: those of a connection, or one that is closed.
Frees(C) ==
    /\ C \in SUBSET Chan
    /\ consumers' = Destroyed(C)
    /\ \A c \in Chan : IF c \in C THEN own'[c] = None /\ chan'[c] \notin {"new", "open"}
                                  ELSE own'[c] = own[c] /\ chan'[c] = chan[c]
    /\ UNCHANGED <<sub, lists>>

LEMMA FreesChannels ==
    ASSUME TypeOK
    PROVE  /\ \A k \in Conn : DeleteConnection(k) => Frees({c \in Chan : ConnOf[c] = k})
           /\ \A c \in Chan : CloseChannel(c) => Frees({c})
<1>1. ASSUME NEW k \in Conn, DeleteConnection(k)
      PROVE  Frees({c \in Chan : ConnOf[c] = k})
  BY <1>1 DEF DeleteConnection, Frees, tables
<1>2. ASSUME NEW c \in Chan, CloseChannel(c)
      PROVE  Frees({c})
  <2>1. /\ consumers' = Destroyed({c})
        /\ chan' = [chan EXCEPT ![c] = "closed"] /\ own' = [own EXCEPT ![c] = None]
        /\ UNCHANGED <<sub, lists>>
    BY <1>2 DEF CloseChannel, tables
  <2> QED
    BY <2>1, SubscriptionTypes DEF Frees
<1> QED
  BY <1>1, <1>2

\* What a request to consume adds, if it adds anything.
LEMMA ConsumeEffect ==
    ASSUME TypeOK, NEW c \in Chan, NEW q \in Queue, NEW auto \in BOOLEAN,
           BasicConsume(c, q, auto)
    PROVE  /\ chan[c] = "open" /\ sub[c] = None /\ q \in declared
           /\ chan' = chan /\ lists' = lists
           /\ \A p \in Queue \ {q} : consumers'[p] = consumers[p]
           /\ \A d \in Chan \ {c} : own'[d] = own[d] /\ sub'[d] = sub[d]
           /\ sub'[c].q = q /\ sub'[c] # None
           /\ \/ /\ consumers'[q] = consumers[q] /\ own'[c] = None
                 /\ \/ q \notin lists
                    \/ \E k \in DOMAIN consumers[q] : consumers[q][k].tag = TagOf[c]
              \/ /\ q \in lists
                 /\ own'[c].q = q /\ own'[c].tag = TagOf[c] /\ own'[c].ch = c
                 /\ \E n \in Nat :
                       /\ DOMAIN consumers[q] = 1..n /\ DOMAIN consumers'[q] = 1..(n + 1)
                       /\ \A k \in 1..n : consumers'[q][k] = consumers[q][k]
                       /\ consumers'[q][n + 1] = own'[c]
<1> DEFINE con == [tag |-> TagOf[c], q |-> q, auto |-> auto, ch |-> c]
           s == consumers[q]
           ok == q \in lists /\ \A k \in DOMAIN s : s[k].tag # TagOf[c]
<1>1. con \in Consumer
  BY DEF Consumer
<1>2. [q |-> q, on |-> TRUE] \in Subscription
  BY DEF Subscription
<1>3. con.tag = TagOf[c] /\ con.q = q /\ con.ch = c
  OBVIOUS
<1>4. /\ chan[c] = "open" /\ sub[c] = None /\ q \in declared
      /\ chan' = chan /\ lists' = lists
      /\ consumers' = [consumers EXCEPT ![q] = IF ok THEN Append(s, con) ELSE s]
      /\ own' = [own EXCEPT ![c] = IF ok THEN con ELSE None]
      /\ sub' = [sub EXCEPT ![c] = [q |-> q, on |-> TRUE]]
  BY DEF BasicConsume, Request, tables
<1>5. s \in Seq(Consumer) /\ consumers \in [Queue -> Seq(Consumer)]
  BY Typed
<1> HIDE DEF con, s, ok
<1>6. /\ \A p \in Queue \ {q} : consumers'[p] = consumers[p]
      /\ \A d \in Chan \ {c} : own'[d] = own[d] /\ sub'[d] = sub[d]
      /\ consumers'[q] = IF ok THEN Append(s, con) ELSE s
      /\ own'[c] = IF ok THEN con ELSE None
  BY <1>4, <1>5, SubscriptionTypes
<1>7. sub'[c].q = q /\ sub'[c] # None
  BY <1>2, <1>4, SubscriptionTypes
<1>8. CASE ok
  <2>1. /\ Append(s, con) \in Seq(Consumer) /\ Len(Append(s, con)) = Len(s) + 1
        /\ \A k \in 1..Len(s) : Append(s, con)[k] = s[k]
        /\ Append(s, con)[Len(s) + 1] = con
    BY <1>1, <1>5, AppendProperties
  <2>2. /\ Len(s) \in Nat /\ DOMAIN s = 1..Len(s)
        /\ DOMAIN Append(s, con) = 1..(Len(s) + 1)
    BY <1>5, <2>1, LenProperties
  <2>3. consumers'[q] = Append(s, con) /\ own'[c] = con /\ q \in lists
    BY <1>6, <1>8 DEF ok
  <2>4. \E n \in Nat :
            /\ DOMAIN consumers[q] = 1..n /\ DOMAIN consumers'[q] = 1..(n + 1)
            /\ \A k \in 1..n : consumers'[q][k] = consumers[q][k]
            /\ consumers'[q][n + 1] = own'[c]
    <3> WITNESS Len(s) \in Nat
    <3> QED
      BY <2>1, <2>2, <2>3 DEF s
  <2> QED
    BY <1>3, <1>4, <1>6, <1>7, <2>3, <2>4
<1>9. CASE ~ok
  <2>1. consumers'[q] = consumers[q] /\ own'[c] = None
    BY <1>6, <1>9 DEF s
  <2>2. q \notin lists \/ \E k \in DOMAIN consumers[q] : consumers[q][k].tag = TagOf[c]
    BY <1>9 DEF ok, s
  <2> QED
    BY <1>4, <1>6, <1>7, <2>1, <2>2
<1> QED
  BY <1>8, <1>9

\* What a request to cancel takes away.
LEMMA CancelEffect ==
    ASSUME TypeOK, NEW c \in Chan, BasicCancel(c)
    PROVE  /\ UNCHANGED <<own, chan, lists>>
           /\ sub[c] # None /\ sub[c].q \in Queue
           /\ \A p \in Queue \ {sub[c].q} : consumers'[p] = consumers[p]
           /\ consumers'[sub[c].q] = Without(consumers[sub[c].q], {TagOf[c]})
           /\ \A d \in Chan \ {c} : sub'[d] = sub[d]
           /\ sub'[c] # None /\ ~sub'[c].on /\ sub'[c].q = sub[c].q
<1>1. /\ UNCHANGED <<own, chan, lists>>
      /\ sub[c] # None
      /\ consumers' = [consumers EXCEPT ![sub[c].q] = Without(consumers[sub[c].q], {TagOf[c]})]
      /\ sub' = [sub EXCEPT ![c] = [sub[c] EXCEPT !.on = FALSE]]
  BY DEF BasicCancel, tables
<1>2. sub[c] \in Subscription /\ sub[c].q \in Queue
  BY <1>1, SubscriptionTypes
<1>3. LET s == [sub[c] EXCEPT !.on = FALSE]
      IN  s \in Subscription /\ ~s.on /\ s.q = sub[c].q
  BY <1>2 DEF Subscription
<1>4. consumers \in [Queue -> Seq(Consumer)]
  BY Typed
<1>5. /\ sub'[c] # None /\ ~sub'[c].on /\ sub'[c].q = sub[c].q
      /\ \A d \in Chan \ {c} : sub'[d] = sub[d]
  BY <1>1, <1>3, SubscriptionTypes
<1> QED
  BY <1>1, <1>2, <1>4, <1>5

LEMMA RequestSubscribed ==
    ASSUME TypeOK, Tables, Subscribed, Requests
    PROVE  Subscribed'
<1>1. ASSUME NEW C, Frees(C)
      PROVE  Subscribed'
  <2>1. /\ C \in SUBSET Chan
        /\ consumers' = Destroyed(C)
        /\ \A c \in Chan : IF c \in C THEN own'[c] = None /\ chan'[c] \notin {"new", "open"}
                                      ELSE own'[c] = own[c] /\ chan'[c] = chan[c]
        /\ sub' = sub /\ lists' = lists
    BY <1>1 DEF Frees
  <2>2. \A q \in Queue : \A k \in DOMAIN consumers'[q] : \E i \in DOMAIN consumers[q] :
            consumers'[q][k] = consumers[q][i] /\ consumers[q][i].ch \notin C
    BY <2>1, DestroyedElements
  <2>3. \A q \in Queue : \A i \in DOMAIN consumers[q] :
            /\ consumers[q][i].q = q /\ consumers[q][i].tag = TagOf[consumers[q][i].ch]
            /\ chan[consumers[q][i].ch] = "open"
            /\ own[consumers[q][i].ch] = consumers[q][i]
            /\ consumers[q][i].ch \in Chan
    BY SubscriptionTypes DEF Subscribed
  <2>4. \A q \in Queue : \A k \in DOMAIN consumers'[q] :
            LET con == consumers'[q][k]
            IN  /\ con.q = q /\ con.tag = TagOf[con.ch]
                /\ chan'[con.ch] = "open" /\ own'[con.ch] = con
    BY <2>1, <2>2, <2>3
  <2>5. \A q \in Queue \ lists' : consumers'[q] = <<>>
    <3>1. \A q \in Queue \ lists : Destroyed(C)[q] = consumers[q]
      BY DEF Destroyed
    <3>2. \A q \in Queue \ lists : consumers[q] = <<>>
      BY DEF Subscribed
    <3> QED
      BY <2>1, <3>1, <3>2
  <2>6. \A c \in Chan :
            /\ sub'[c] = None => own'[c] = None
            /\ chan'[c] = "new" => sub'[c] = None
            /\ own'[c] # None =>
                   own'[c].tag = TagOf[c] /\ sub'[c] # None /\ own'[c].q = sub'[c].q
    BY <2>1 DEF Subscribed
  <2> QED
    BY <2>4, <2>5, <2>6 DEF Subscribed
<1>2. ASSUME NEW c \in Chan, OpenChannel(c)
      PROVE  Subscribed'
  <2>1. /\ UNCHANGED <<consumers, own, sub, lists>>
        /\ \A d \in Chan : chan'[d] = IF d = c THEN "open" ELSE chan[d]
    BY <1>2, SubscriptionTypes DEF OpenChannel, subscribers, tables
  <2> QED
    BY <2>1, SubscriptionTypes DEF Subscribed
<1>3. ASSUME NEW c \in Chan, BasicCancel(c)
      PROVE  Subscribed'
  <2> DEFINE p == sub[c].q
  <2>1. /\ UNCHANGED <<own, chan, lists>> /\ sub[c] # None /\ p \in Queue
        /\ \A q \in Queue \ {p} : consumers'[q] = consumers[q]
        /\ \A d \in Chan \ {c} : sub'[d] = sub[d]
        /\ sub'[c] # None /\ sub'[c].q = p /\ p \in lists
    BY <1>3, CancelEffect DEF BasicCancel
  <2>2. \A k \in DOMAIN consumers'[p] : \E i \in DOMAIN consumers[p] :
            consumers'[p][k] = consumers[p][i]
    <3>1. consumers'[p] = Without(consumers[p], {TagOf[c]})
      BY <1>3, CancelEffect
    <3>2. consumers[p] \in Seq(Consumer)
      BY <2>1, SubscriptionTypes
    <3> QED
      BY <3>1, <3>2, WithoutElements
  <2> HIDE DEF p
  <2>3. \A q \in Queue : \A k \in DOMAIN consumers'[q] : \E i \in DOMAIN consumers[q] :
            consumers'[q][k] = consumers[q][i]
    BY <2>1, <2>2
  <2>4. \A q \in Queue : \A k \in DOMAIN consumers'[q] :
            LET con == consumers'[q][k]
            IN  /\ con.q = q /\ con.tag = TagOf[con.ch]
                /\ chan'[con.ch] = "open" /\ own'[con.ch] = con
    BY <2>1, <2>3 DEF Subscribed
  <2>5. \A q \in Queue \ lists' : consumers'[q] = <<>>
    BY <2>1 DEF Subscribed
  <2>6. \A d \in Chan :
            /\ sub'[d] = None => own'[d] = None
            /\ chan'[d] = "new" => sub'[d] = None
            /\ own'[d] # None =>
                   own'[d].tag = TagOf[d] /\ sub'[d] # None /\ own'[d].q = sub'[d].q
    BY <2>1 DEF Subscribed, p
  <2> QED
    BY <2>4, <2>5, <2>6 DEF Subscribed
<1>4. ASSUME NEW c \in Chan, NEW q \in Queue, NEW auto \in BOOLEAN, BasicConsume(c, q, auto)
      PROVE  Subscribed'
  <2>1. /\ chan[c] = "open" /\ sub[c] = None /\ q \in declared
        /\ chan' = chan /\ lists' = lists
        /\ \A p \in Queue \ {q} : consumers'[p] = consumers[p]
        /\ \A d \in Chan \ {c} : own'[d] = own[d] /\ sub'[d] = sub[d]
        /\ sub'[c] # None /\ sub'[c].q = q
    BY <1>4, ConsumeEffect
  <2>2. q \in lists
    BY <2>1 DEF Tables
  <2>3. own[c] = None
    BY <2>1 DEF Subscribed
  <2>4. \A p \in Queue : \A k \in DOMAIN consumers[p] :
            LET con == consumers[p][k]
            IN  /\ con.q = p /\ con.tag = TagOf[con.ch] /\ con.ch # c
                /\ chan'[con.ch] = "open" /\ own'[con.ch] = con
    BY <2>1, <2>3, SubscriptionTypes DEF Subscribed
  <2>5. \A p \in Queue : \A k \in DOMAIN consumers'[p] :
            LET con == consumers'[p][k]
            IN  \/ \E i \in DOMAIN consumers[p] : con = consumers[p][i]
                \/ p = q /\ con = own'[c] /\ con.q = q /\ con.tag = TagOf[c] /\ con.ch = c
    <3> SUFFICES ASSUME NEW p \in Queue, NEW k \in DOMAIN consumers'[p]
                 PROVE  LET con == consumers'[p][k]
                        IN  \/ \E i \in DOMAIN consumers[p] : con = consumers[p][i]
                            \/ /\ p = q /\ con = own'[c]
                               /\ con.q = q /\ con.tag = TagOf[c] /\ con.ch = c
      OBVIOUS
    <3>1. CASE consumers'[p] = consumers[p]
      BY <3>1
    <3>2. CASE consumers'[p] # consumers[p]
      <4>1. p = q
        BY <2>1, <3>2
      <4>2. /\ own'[c].q = q /\ own'[c].tag = TagOf[c] /\ own'[c].ch = c
            /\ \E n \in Nat :
                  /\ DOMAIN consumers[q] = 1..n /\ DOMAIN consumers'[q] = 1..(n + 1)
                  /\ \A i \in 1..n : consumers'[q][i] = consumers[q][i]
                  /\ consumers'[q][n + 1] = own'[c]
        BY <1>4, <3>2, <4>1, ConsumeEffect
      <4> QED
        BY <4>1, <4>2
    <3> QED
      BY <3>1, <3>2
  <2>6. \A p \in Queue : \A k \in DOMAIN consumers'[p] :
            LET con == consumers'[p][k]
            IN  /\ con.q = p /\ con.tag = TagOf[con.ch]
                /\ chan'[con.ch] = "open" /\ own'[con.ch] = con
    BY <2>1, <2>4, <2>5
  <2>7. \A p \in Queue \ lists' : consumers'[p] = <<>>
    BY <2>1, <2>2 DEF Subscribed
  <2>8. own'[c] # None => own'[c].tag = TagOf[c] /\ own'[c].q = q
    BY <1>4, ConsumeEffect
  <2>9. \A d \in Chan :
            /\ sub'[d] = None => own'[d] = None
            /\ chan'[d] = "new" => sub'[d] = None
            /\ own'[d] # None =>
                   own'[d].tag = TagOf[d] /\ sub'[d] # None /\ own'[d].q = sub'[d].q
    BY <2>1, <2>8 DEF Subscribed
  <2> QED
    BY <2>6, <2>7, <2>9 DEF Subscribed
<1>5. CASE UNCHANGED <<consumers, own, sub, chan>>
  BY <1>5, RequestFrame DEF Subscribed
<1> QED
  BY <1>1, <1>2, <1>3, <1>4, <1>5, SubscriptionRequests, FreesChannels

\* Deleting a queue takes its list of consumers, and nothing else touches one.
LEMMA HandlerSubscriptions ==
    ASSUME TypeOK, Handler \/ WriteFails
    PROVE  /\ UNCHANGED <<own, chan>>
           /\ \/ UNCHANGED <<consumers, sub>> /\ lists \subseteq lists'
              \/ \E q \in Queue :
                    /\ lists' = lists \ {q} /\ consumers'[q] = <<>>
                    /\ \A p \in Queue \ {q} : consumers'[p] = consumers[p]
                    /\ \A c \in Chan : IF sub[c] # None /\ sub[c].q = q
                                       THEN sub'[c] # None /\ ~sub'[c].on /\ sub'[c].q = q
                                       ELSE sub'[c] = sub[c]
<1>1. UNCHANGED <<own, chan>>
  BY HandlerFrame
<1>2. ASSUME NEW q \in Queue, Insert(q) \/ InsertFails(q)
      PROVE  UNCHANGED <<consumers, sub>> /\ lists \subseteq lists'
  BY <1>2 DEF Insert, InsertFails, subscribers, tables
<1>3. CASE Enqueue \/ InitQueueConsumer \/ DeclareFails \/ DestroyQueueMessage
  BY <1>1, <1>3
     DEF Enqueue, InitQueueConsumer, DeclareFails, DestroyQueueMessage, subscribers, tables
<1>4. CASE DestoryQueueConsumer
  <2>1. io.q \in Queue
    BY <1>4, HandlerShapes DEF TypeOK, DestoryQueueConsumer, Administering
  <2>2. \A c \in Chan : sub[c] # None =>
            LET s == [sub[c] EXCEPT !.on = FALSE] IN s # None /\ ~s.on /\ s.q = sub[c].q
    <3>1. \A s \in Subscription :
              LET t == [s EXCEPT !.on = FALSE] IN t \in Subscription /\ ~t.on /\ t.q = s.q
      BY DEF Subscription
    <3> QED
      BY <3>1, SubscriptionTypes
  <2>3. /\ lists' = lists \ {io.q} /\ consumers'[io.q] = <<>>
        /\ \A p \in Queue \ {io.q} : consumers'[p] = consumers[p]
    BY <1>4, <2>1, Typed DEF DestoryQueueConsumer
  <2>4. \A c \in Chan : IF sub[c] # None /\ sub[c].q = io.q
                        THEN sub'[c] # None /\ ~sub'[c].on /\ sub'[c].q = io.q
                        ELSE sub'[c] = sub[c]
    BY <1>4, <2>2 DEF DestoryQueueConsumer
  <2> QED
    BY <1>1, <2>1, <2>3, <2>4
<1> QED
  BY <1>1, <1>2, <1>3, <1>4 DEF Handler, WriteFails

LEMMA HandlerSubscribed ==
    ASSUME TypeOK, Subscribed, Handler \/ WriteFails
    PROVE  Subscribed'
<1>1. UNCHANGED <<own, chan>>
  BY HandlerSubscriptions
<1>2. CASE UNCHANGED <<consumers, sub>> /\ lists \subseteq lists'
  BY <1>1, <1>2 DEF Subscribed
<1>3. ASSUME NEW q \in Queue, lists' = lists \ {q}, consumers'[q] = <<>>,
             \A p \in Queue \ {q} : consumers'[p] = consumers[p],
             \A c \in Chan : IF sub[c] # None /\ sub[c].q = q
                             THEN sub'[c] # None /\ ~sub'[c].on /\ sub'[c].q = q
                             ELSE sub'[c] = sub[c]
      PROVE  Subscribed'
  <2>1. DOMAIN <<>> = {}
    OBVIOUS
  <2>2. \A p \in Queue : \A k \in DOMAIN consumers'[p] : consumers'[p] = consumers[p]
    BY <1>3, <2>1
  <2>3. \A p \in Queue : \A k \in DOMAIN consumers'[p] :
            LET con == consumers'[p][k]
            IN  /\ con.q = p /\ con.tag = TagOf[con.ch]
                /\ chan'[con.ch] = "open" /\ own'[con.ch] = con
    BY <1>1, <2>2 DEF Subscribed
  <2>4. \A p \in Queue \ lists' : consumers'[p] = <<>>
    BY <1>3 DEF Subscribed
  <2>5. \A c \in Chan :
            /\ sub'[c] = None => own'[c] = None
            /\ chan'[c] = "new" => sub'[c] = None
            /\ own'[c] # None =>
                   own'[c].tag = TagOf[c] /\ sub'[c] # None /\ own'[c].q = sub'[c].q
    BY <1>1, <1>3 DEF Subscribed
  <2> QED
    BY <2>3, <2>4, <2>5 DEF Subscribed
<1> QED
  BY <1>2, <1>3, HandlerSubscriptions

LEMMA WorkerSubscribed ==
    ASSUME Subscribed, Worker \/ UseOfFreed
    PROVE  Subscribed'
BY WorkerFrame DEF Subscribed

-----------------------------------------------------------------------------
(* One task for each message.                                              *)

\* The indices of the tasks of s about queue q.
Waiting(s, q) == {k \in DOMAIN s : s[k].q = q}

\* A queue's messages, but for those put back, and the tasks that will take them.
Matched(q) ==
    /\ Len(msgs[q]) <= Pending(q) + Len(requeued[q])
    /\ q \notin tainted => Pending(q) + Len(requeued[q]) <= Len(msgs[q])

LEMMA WaitingAppend ==
    ASSUME NEW s \in Seq(Task), NEW t \in Task, NEW q
    PROVE  /\ Cardinality(Waiting(s, q)) \in Nat
           /\ Cardinality(Waiting(Append(s, t), q))
                = Cardinality(Waiting(s, q)) + (IF t.q = q THEN 1 ELSE 0)
<1> DEFINE n == Len(s)
<1>1. /\ Append(s, t) \in Seq(Task) /\ Len(Append(s, t)) = n + 1
      /\ \A k \in 1..n : Append(s, t)[k] = s[k]
      /\ Append(s, t)[n + 1] = t
  BY AppendProperties
<1>2. n \in Nat /\ DOMAIN s = 1..n /\ DOMAIN Append(s, t) = 1..(n + 1)
  BY <1>1, LenProperties
<1> HIDE DEF n
<1>3. 1..(n + 1) = 1..n \cup {n + 1} /\ n + 1 \notin 1..n
  BY <1>2
<1>4. Waiting(Append(s, t), q) = Waiting(s, q) \cup (IF t.q = q THEN {n + 1} ELSE {})
  BY <1>1, <1>2, <1>3 DEF Waiting
<1>5. n + 1 \notin Waiting(s, q)
  BY <1>2, <1>3 DEF Waiting
<1>6. IsFiniteSet(Waiting(s, q)) /\ Cardinality(Waiting(s, q)) \in Nat
  <2>1. Waiting(s, q) \in SUBSET (DOMAIN s)
    BY DEF Waiting
  <2> QED
    BY <2>1, IndicesFinite
<1>7. CASE t.q = q
  <2>1. Waiting(Append(s, t), q) = Waiting(s, q) \cup {n + 1}
    BY <1>4, <1>7
  <2> QED
    BY <1>5, <1>6, <1>7, <2>1, FS_AddElement
<1>8. CASE t.q # q
  BY <1>4, <1>6, <1>8
<1> QED
  BY <1>7, <1>8

LEMMA WaitingTail ==
    ASSUME NEW s \in Seq(Task), s # <<>>, NEW q
    PROVE  /\ Cardinality(Waiting(Tail(s), q)) \in Nat
           /\ Cardinality(Waiting(s, q))
                = Cardinality(Waiting(Tail(s), q)) + (IF Head(s).q = q THEN 1 ELSE 0)
<1> DEFINE n == Len(s)
           A == Waiting(s, q) \ {1}
           B == Waiting(Tail(s), q)
           f == [k \in B |-> k + 1]
<1>1. /\ Tail(s) \in Seq(Task) /\ Len(Tail(s)) = n - 1
      /\ \A k \in 1..(n - 1) : Tail(s)[k] = s[k + 1]
  BY HeadTailProperties
<1>2. n \in Nat \ {0} /\ DOMAIN s = 1..n /\ DOMAIN Tail(s) = 1..(n - 1)
  BY <1>1, EmptySeq, LenProperties
<1>3. Head(s) = s[1] /\ 1 \in DOMAIN s
  BY <1>2
<1>4. IsFiniteSet(Waiting(s, q)) /\ Cardinality(Waiting(s, q)) \in Nat
  <2>1. Waiting(s, q) \in SUBSET (DOMAIN s)
    BY DEF Waiting
  <2> QED
    BY <2>1, IndicesFinite
<1>5. IsFiniteSet(B) /\ Cardinality(B) \in Nat
  <2>1. B \in SUBSET (DOMAIN Tail(s))
    BY DEF Waiting
  <2> QED
    BY <1>1, <2>1, IndicesFinite
<1> HIDE DEF n
<1>6. B = {k \in 1..(n - 1) : s[k + 1].q = q}
  BY <1>1, <1>2 DEF Waiting
<1>7. A = {k \in 2..n : s[k].q = q}
  BY <1>2 DEF Waiting
<1> HIDE DEF A, B
<1>8. f \in Bijection(B, A)
  <2>1. f \in [B -> A]
    BY <1>2, <1>6, <1>7
  <2>2. \A k, l \in B : f[k] = f[l] => k = l
    BY <1>2, <1>6
  <2>3. \A a \in A : \E k \in B : f[k] = a
    <3> TAKE a \in A
    <3>1. a - 1 \in B
      BY <1>2, <1>6, <1>7
    <3>2. f[a - 1] = a
      BY <1>7, <3>1
    <3> QED
      BY <3>1, <3>2
  <2> QED
    BY <2>1, <2>2, <2>3 DEF Bijection, Injection, IsInjective, Surjection
<1>9. Cardinality(A) = Cardinality(B)
  <2>1. ExistsBijection(B, A)
    BY <1>8 DEF ExistsBijection
  <2> QED
    BY <1>5, <2>1, FS_Bijection
<1>10. 1 \in Waiting(s, q) <=> Head(s).q = q
  BY <1>3 DEF Waiting
<1>11. Cardinality(A) = IF 1 \in Waiting(s, q) THEN Cardinality(Waiting(s, q)) - 1
                                               ELSE Cardinality(Waiting(s, q))
  BY <1>4, FS_RemoveElement DEF A
<1>12. Cardinality(Waiting(s, q)) = Cardinality(B) + (IF Head(s).q = q THEN 1 ELSE 0)
  BY <1>4, <1>5, <1>9, <1>10, <1>11
<1> QED
  BY <1>5, <1>12 DEF B

\* The three places where a queue's tasks can be.
AtWorker(q) == worker.at \in {"find", "front"} /\ worker.q = q
AtHandler(q) == io.at = "enqueue" /\ io.q = q

LEMMA PendingParts ==
    ASSUME TypeOK, NEW q \in Queue
    PROVE  /\ Cardinality(Waiting(tasks, q)) \in Nat
           /\ Pending(q) = Cardinality(Waiting(tasks, q))
                           + (IF AtWorker(q) THEN 1 ELSE 0) + (IF AtHandler(q) THEN 1 ELSE 0)
           /\ Pending(q) \in Nat /\ Len(msgs[q]) \in Nat /\ Len(requeued[q]) \in Nat
<1>1. Cardinality(Waiting(tasks, q)) \in Nat
  <2>1. Waiting(tasks, q) \in SUBSET (DOMAIN tasks) /\ tasks \in Seq(Task)
    BY Typed DEF Waiting
  <2> QED
    BY <2>1, IndicesFinite
<1>2. Pending(q) = Cardinality(Waiting(tasks, q))
                   + (IF AtWorker(q) THEN 1 ELSE 0) + (IF AtHandler(q) THEN 1 ELSE 0)
  BY DEF Pending, Waiting, AtWorker, AtHandler
<1>3. Len(msgs[q]) \in Nat /\ Len(requeued[q]) \in Nat
  <2>1. msgs[q] \in Seq(Ids) /\ requeued[q] \in Seq(Ids)
    BY Typed
  <2> QED
    BY <2>1, LenProperties
<1> QED
  BY <1>1, <1>2, <1>3

\* The same in the next state.
LEMMA PendingPartsNext ==
    ASSUME TypeOK', NEW q \in Queue
    PROVE  /\ Cardinality(Waiting(tasks', q)) \in Nat
           /\ Pending(q)' = Cardinality(Waiting(tasks', q))
                            + (IF AtWorker(q)' THEN 1 ELSE 0)
                            + (IF AtHandler(q)' THEN 1 ELSE 0)
           /\ Pending(q)' \in Nat /\ Len(msgs'[q]) \in Nat
<1>1. Cardinality(Waiting(tasks', q)) \in Nat
  <2>1. Waiting(tasks', q) \in SUBSET (DOMAIN tasks') /\ tasks' \in Seq(Task)
    BY DEF TypeOK, Waiting
  <2> QED
    BY <2>1, IndicesFinite
<1>2. Pending(q)' = Cardinality(Waiting(tasks', q))
                    + (IF AtWorker(q)' THEN 1 ELSE 0) + (IF AtHandler(q)' THEN 1 ELSE 0)
  BY DEF Pending, Waiting, AtWorker, AtHandler
<1>3. Len(msgs'[q]) \in Nat
  <2>1. msgs'[q] \in Seq(Ids)
    BY DEF TypeOK
  <2> QED
    BY <2>1, LenProperties
<1> QED
  BY <1>1, <1>2, <1>3

\* A step that leaves a queue's messages and tasks at their numbers.
LEMMA MatchedKept ==
    ASSUME NEW q \in Queue, Matched(q), Pending(q)' = Pending(q),
           Len(msgs'[q]) = Len(msgs[q]), requeued'[q] = requeued[q],
           tainted \subseteq tainted'
    PROVE  Matched(q)'
BY DEF Matched

\* Nor does one that adds or takes one of each, or that taints the queue and
\* leaves it no message too many.
LEMMA ShiftedSum ==
    ASSUME NEW k \in Nat, NEW l \in Nat, NEW i \in Nat, NEW j \in Nat, NEW r \in Nat,
           l - k = j - i
    PROVE  /\ k <= i + r => l <= j + r
           /\ i + r <= k => j + r <= l
OBVIOUS

LEMMA MatchedShifted ==
    ASSUME NEW q \in Queue, Matched(q), requeued'[q] = requeued[q], tainted \subseteq tainted',
           Len(msgs[q]) \in Nat, Len(requeued[q]) \in Nat, Pending(q) \in Nat,
           Len(msgs'[q]) \in Nat, Pending(q)' \in Nat,
           Len(msgs'[q]) - Len(msgs[q]) = Pending(q)' - Pending(q)
    PROVE  Matched(q)'
<1>1. /\ Len(msgs[q]) <= Pending(q) + Len(requeued[q])
      /\ q \notin tainted => Pending(q) + Len(requeued[q]) <= Len(msgs[q])
  BY DEF Matched
<1>2. /\ Len(msgs'[q]) <= Pending(q)' + Len(requeued[q])
      /\ q \notin tainted' => Pending(q)' + Len(requeued[q]) <= Len(msgs'[q])
  BY <1>1, ShiftedSum
<1> QED
  BY <1>2 DEF Matched

LEMMA MatchedTainted ==
    ASSUME NEW q \in Queue, q \in tainted',
           Len(msgs'[q]) <= Pending(q)' + Len(requeued'[q])
    PROVE  Matched(q)'
BY DEF Matched

\* A removal that puts messages back brings no task for them.
LEMMA RemovalMatched ==
    ASSUME TypeOK, NEW q \in Queue, Matched(q), Pending(q)' = Pending(q), tainted' = tainted,
           NEW p \in Queue, NEW m, Removal(p, m)
    PROVE  Matched(q)'
<1>1. Pending(q) \in Nat /\ Len(msgs[q]) \in Nat /\ Len(requeued[q]) \in Nat
  BY PendingParts
<1>2. CASE q # p
  BY <1>2, MatchedKept DEF Removal
<1>3. CASE q = p
  <2>1. PICK b \in Nat : /\ Len(msgs'[q]) = Len(msgs[q]) + b
                         /\ Len(requeued'[q]) = Len(requeued[q]) + b
    BY <1>3 DEF Removal
  <2> QED
    BY <1>1, <2>1 DEF Matched
<1> QED
  BY <1>2, <1>3

LEMMA RequestMatched ==
    ASSUME TypeOK, OneTaskPerMessage, Requests
    PROVE  OneTaskPerMessage'
<1> SUFFICES ASSUME NEW q \in Queue
             PROVE  Matched(q)'
  BY DEF OneTaskPerMessage, Matched
<1>1. io.at = "idle" /\ UNCHANGED <<tasks, worker, tainted>>
  BY RequestFrame DEF Idle
<1>2. io'.at # "enqueue"
  BY <1>1, RequestKinds
<1>3. Pending(q)' = Pending(q)
  BY <1>1, <1>2 DEF Pending
<1>4. Matched(q)
  BY DEF OneTaskPerMessage, Matched
<1>5. CASE UNCHANGED <<msgs, waitack, unmarked, requeued>>
  BY <1>1, <1>3, <1>4, <1>5, MatchedKept
<1>6. ASSUME NEW p \in Queue, NEW m \in Ids, Removal(p, m)
      PROVE  Matched(q)'
  BY <1>1, <1>3, <1>4, <1>6, RemovalMatched
<1> QED
  BY <1>5, <1>6, RequestMessages

LEMMA HandlerMatched ==
    ASSUME TypeOK, TypeOK', OneTaskPerMessage, Handler \/ WriteFails
    PROVE  OneTaskPerMessage'
<1> SUFFICES ASSUME NEW q \in Queue
             PROVE  Matched(q)'
  BY DEF OneTaskPerMessage, Matched
<1> DEFINE n == Cardinality(Waiting(tasks, q))
<1>1. Matched(q)
  BY DEF OneTaskPerMessage, Matched
<1>0. requeued' = requeued
  BY HandlerMarks
<1>2. /\ n \in Nat /\ Pending(q) \in Nat /\ Len(msgs[q]) \in Nat /\ Len(requeued[q]) \in Nat
      /\ Pending(q) = n + (IF AtWorker(q) THEN 1 ELSE 0) + (IF AtHandler(q) THEN 1 ELSE 0)
  BY PendingParts
<1>3. /\ n' \in Nat /\ Pending(q)' \in Nat /\ Len(msgs'[q]) \in Nat
      /\ Pending(q)' = n' + (IF AtWorker(q)' THEN 1 ELSE 0)
                       + (IF AtHandler(q)' THEN 1 ELSE 0)
  BY PendingPartsNext
<1>4. tasks' = tasks => n' = n
  OBVIOUS
<1>5. worker' = worker => AtWorker(q)' = AtWorker(q)
  BY DEF AtWorker
<1> HIDE DEF n
<1>6. ASSUME NEW p \in Queue, Insert(p)
      PROVE  Matched(q)'
  <2>1. /\ n' = n /\ AtWorker(q)' = AtWorker(q) /\ ~AtHandler(q)
        /\ AtHandler(q)' <=> q = p
        /\ tainted' = tainted
    BY <1>4, <1>5, <1>6, InsertEffect DEF AtHandler
  <2>2. CASE q = p
    <3>1. Len(msgs'[q]) = Len(msgs[q]) + 1
      BY <1>6, <2>2, InsertEffect
    <3>2. Pending(q)' = Pending(q) + 1
      BY <1>2, <1>3, <2>1, <2>2
    <3> QED
      <4>1. Len(msgs'[q]) - Len(msgs[q]) = Pending(q)' - Pending(q)
        <5>1. Pending(q) \in Nat /\ Len(msgs[q]) \in Nat
          BY PendingParts
        <5> QED
          BY <3>1, <3>2, <5>1
      <4> QED
        <5>1. requeued'[q] = requeued[q] /\ tainted \subseteq tainted'
          BY <1>0, <2>1
        <5> QED
          BY <1>1, <1>2, <1>3, <4>1, <5>1, MatchedShifted
  <2>3. CASE q # p
    <3>1. msgs'[q] = msgs[q]
      BY <1>6, <2>3, InsertEffect
    <3>2. Pending(q)' = Pending(q)
      BY <1>2, <1>3, <2>1, <2>3
    <3> QED
      BY <1>0, <1>1, <2>1, <3>1, <3>2, MatchedKept
  <2> QED
    BY <2>2, <2>3
<1>7. ASSUME NEW p \in Queue, InsertFails(p)
      PROVE  Matched(q)'
  <2>1. /\ n' = n /\ AtWorker(q)' = AtWorker(q) /\ ~AtHandler(q)
        /\ AtHandler(q)' <=> q = p
        /\ tainted' = tainted \cup {p} /\ msgs' = msgs
    BY <1>4, <1>5, <1>7, InsertFailsEffect DEF AtHandler
  <2>2. CASE q = p
    <3>1. Pending(q)' = Pending(q) + 1
      BY <1>2, <1>3, <2>1, <2>2
    <3>2. Len(msgs[q]) <= Pending(q) + Len(requeued[q])
      BY <1>1 DEF Matched
    <3>3. Len(msgs'[q]) <= Pending(q)' + Len(requeued'[q])
      <4>1. Len(msgs'[q]) = Len(msgs[q]) /\ Len(requeued'[q]) = Len(requeued[q])
        BY <1>0, <2>1
      <4>2. Pending(q) \in Nat /\ Len(msgs[q]) \in Nat /\ Len(requeued[q]) \in Nat
        BY PendingParts
      <4> QED
        BY <3>1, <3>2, <4>1, <4>2
    <3> QED
      BY <2>1, <2>2, <3>3, MatchedTainted
  <2>3. CASE q # p
    <3>1. Pending(q)' = Pending(q)
      BY <1>2, <1>3, <2>1, <2>3
    <3> QED
      BY <1>0, <1>1, <2>1, <3>1, MatchedKept
  <2> QED
    BY <2>2, <2>3
<1>8. CASE Enqueue
  <2> DEFINE t == [ch |-> io.ch, q |-> io.q]
  <2>1. /\ tasks' = Append(tasks, t) /\ AtWorker(q)' = AtWorker(q) /\ ~AtHandler(q)'
        /\ AtHandler(q) <=> io.q = q
        /\ tainted' = tainted /\ msgs' = msgs
    BY <1>5, <1>8, EnqueueEffect DEF AtHandler
  <2>2. t \in Task /\ t.q = io.q
    BY <1>8, HandlerShapes DEF TypeOK, Enqueue, Leaving, Task
  <2>3. tasks \in Seq(Task)
    BY Typed
  <2> HIDE DEF t
  <2>4. n' = n + (IF t.q = q THEN 1 ELSE 0)
    BY <2>1, <2>2, <2>3, WaitingAppend DEF n
  <2>5. Pending(q)' = Pending(q)
    BY <1>2, <1>3, <2>1, <2>2, <2>4
  <2> QED
    BY <1>0, <1>1, <2>1, <2>5, MatchedKept
<1>9. CASE DestroyQueueMessage
  <2>1. n' = n /\ ~AtHandler(q) /\ ~AtHandler(q)' /\ tainted' = tainted \cup {io.q}
    BY <1>4, <1>9, DestroyEffect DEF AtHandler
  <2>2. CASE q = io.q
    <3>1. Len(msgs'[q]) = 0
      BY <1>9, <2>2, DestroyEffect, EmptySeq
    <3>2. Len(msgs'[q]) <= Pending(q)' + Len(requeued'[q])
      <4>1. Len(requeued'[q]) = Len(requeued[q])
        BY <1>0
      <4>2. Pending(q)' \in Nat /\ Len(requeued[q]) \in Nat
        BY PendingParts, PendingPartsNext
      <4> QED
        BY <3>1, <4>1, <4>2
    <3> QED
      BY <2>1, <2>2, <3>2, MatchedTainted
  <2>3. CASE q # io.q
    <3>1. msgs'[q] = msgs[q] /\ AtWorker(q)' = AtWorker(q)
      BY <1>9, <2>3, DestroyEffect DEF AtWorker
    <3>2. Pending(q)' = Pending(q)
      BY <1>2, <1>3, <2>1, <3>1
    <3> QED
      BY <1>0, <1>1, <2>1, <3>1, <3>2, MatchedKept
  <2> QED
    BY <2>2, <2>3
<1>10. CASE InitQueueConsumer \/ DeclareFails \/ DestoryQueueConsumer
  <2>1. /\ n' = n /\ AtWorker(q)' = AtWorker(q) /\ ~AtHandler(q)'
        /\ tainted' = tainted /\ msgs' = msgs
    BY <1>4, <1>5, <1>10, EndEffect DEF AtHandler
  <2>2. ~AtHandler(q)
    BY <1>10 DEF AtHandler, InitQueueConsumer, DeclareFails, DestoryQueueConsumer
  <2>3. Pending(q)' = Pending(q)
    BY <1>2, <1>3, <2>1, <2>2
  <2> QED
    BY <1>0, <1>1, <2>1, <2>3, MatchedKept
<1> QED
  BY <1>6, <1>7, <1>8, <1>9, <1>10 DEF Handler, WriteFails

LEMMA WorkerMatched ==
    ASSUME TypeOK, TypeOK', Remains, OneTaskPerMessage, Worker \/ UseOfFreed
    PROVE  OneTaskPerMessage'
<1> SUFFICES ASSUME NEW q \in Queue
             PROVE  Matched(q)'
  BY DEF OneTaskPerMessage, Matched
<1> DEFINE n == Cardinality(Waiting(tasks, q))
<1>1. Matched(q)
  BY DEF OneTaskPerMessage, Matched
<1>2. /\ n \in Nat /\ Pending(q) \in Nat /\ Len(msgs[q]) \in Nat /\ Len(requeued[q]) \in Nat
      /\ Pending(q) = n + (IF AtWorker(q) THEN 1 ELSE 0) + (IF AtHandler(q) THEN 1 ELSE 0)
  BY PendingParts
<1>3. /\ n' \in Nat /\ Pending(q)' \in Nat /\ Len(msgs'[q]) \in Nat
      /\ Pending(q)' = n' + (IF AtWorker(q)' THEN 1 ELSE 0)
                       + (IF AtHandler(q)' THEN 1 ELSE 0)
  BY PendingPartsNext
<1>4. tasks' = tasks => n' = n
  OBVIOUS
<1>5. AtHandler(q)' = AtHandler(q) /\ tainted' = tainted
  BY WorkerFrame DEF AtHandler
<1> HIDE DEF n
<1>6. CASE Take
  <2>0. requeued' = requeued
    BY <1>6, WorkerMarks
  <2>1. /\ tasks # <<>> /\ tasks' = Tail(tasks) /\ msgs' = msgs
        /\ ~AtWorker(q)
        /\ AtWorker(q)' <=> Head(tasks).q = q
    BY <1>6, TakeEffect DEF AtWorker
  <2>2. tasks \in Seq(Task)
    BY Typed
  <2>3. n = n' + (IF Head(tasks).q = q THEN 1 ELSE 0)
    BY <2>1, <2>2, WaitingTail DEF n
  <2>4. Pending(q)' = Pending(q)
    BY <1>2, <1>3, <1>5, <2>1, <2>3
  <2> QED
    BY <1>1, <1>5, <2>0, <2>1, <2>4, MatchedKept
<1>7. CASE Find
  <2>0. requeued' = requeued
    BY <1>7, WorkerMarks
  <2>1. tasks' = tasks /\ msgs' = msgs
    BY <1>7, FindEffect
  <2>2. CASE worker.q \in stores
    <3>1. AtWorker(q)' = AtWorker(q)
      BY <1>7, <2>2, FindEffect DEF AtWorker
    <3>2. Pending(q)' = Pending(q)
      BY <1>2, <1>3, <1>4, <1>5, <2>1, <3>1
    <3> QED
      BY <1>1, <1>5, <2>0, <2>1, <3>2, MatchedKept
  <2>3. CASE worker.q \notin stores
    <3>1. ~AtWorker(q)' /\ Pending(q)' <= Pending(q)
      <4>1. ~AtWorker(q)'
        BY <1>7, <2>3, FindEffect DEF AtWorker
      <4> QED
        BY <1>2, <1>3, <1>4, <1>5, <2>1, <4>1
    <3>2. CASE q = worker.q
      <4>1. Len(msgs'[q]) = 0 /\ Len(msgs[q]) = 0
        <5>1. q \notin stores => msgs[q] = <<>>
          BY DEF Remains
        <5>2. Len(<<>>) = 0
          BY EmptySeq
        <5> QED
          BY <2>1, <2>3, <3>2, <5>1, <5>2
      <4> QED
        <5>1. Pending(q)' \in Nat /\ Pending(q) \in Nat /\ Pending(q)' <= Pending(q)
          BY <1>2, <1>3, <3>1
        <5>2. q \notin tainted => Pending(q) + Len(requeued[q]) <= 0
          BY <1>1, <4>1 DEF Matched
        <5>3. /\ 0 <= Pending(q)' + Len(requeued[q])
              /\ q \notin tainted => Pending(q)' + Len(requeued[q]) <= 0
          <6>1. 0 <= Pending(q)' + Len(requeued[q])
            <7>1. Len(requeued[q]) \in Nat
              BY PendingParts
            <7> QED
              BY <5>1, <7>1
          <6>2. ASSUME Pending(q) + Len(requeued[q]) <= 0
                PROVE  Pending(q)' + Len(requeued[q]) <= 0
            <7>1. Len(requeued[q]) \in Nat
              BY PendingParts
            <7> QED
              BY <5>1, <6>2, <7>1
          <6> QED
            BY <5>2, <6>1, <6>2
        <5>4. requeued'[q] = requeued[q]
          BY <2>0
        <5>5. Len(msgs'[q]) <= Pending(q)' + Len(requeued'[q])
          <6>1. Len(msgs'[q]) <= Pending(q)' + Len(requeued[q])
            BY <4>1, <5>3
          <6> QED
            BY <5>4, <6>1
        <5>6. q \notin tainted' => Pending(q)' + Len(requeued'[q]) <= Len(msgs'[q])
          <6>1. q \notin tainted' => Pending(q)' + Len(requeued[q]) <= Len(msgs'[q])
            BY <1>5, <4>1, <5>3
          <6> QED
            BY <5>4, <6>1
        <5> QED
          BY <5>5, <5>6 DEF Matched
    <3>3. CASE q # worker.q
      <4>1. ~AtWorker(q)
        BY <3>3 DEF AtWorker
      <4>2. Pending(q)' = Pending(q)
        BY <1>2, <1>3, <1>4, <1>5, <2>1, <3>1, <4>1
      <4> QED
        BY <1>1, <1>5, <2>0, <2>1, <4>2, MatchedKept
    <3> QED
      BY <3>2, <3>3
  <2> QED
    BY <2>2, <2>3
<1>8. CASE Front
  <2>0. requeued' = requeued
    BY <1>8, WorkerMarks
  <2>1. /\ tasks' = tasks /\ ~AtWorker(q)'
        /\ AtWorker(q) <=> q = worker.q
    BY <1>8, FrontEffect DEF AtWorker
  <2>2. CASE q = worker.q
    <3>1. Len(msgs'[q]) = Len(msgs[q]) - 1
      BY <1>8, <2>2, FrontEffect
    <3>2. Pending(q)' = Pending(q) - 1
      BY <1>2, <1>3, <1>4, <1>5, <2>1, <2>2
    <3> QED
      <4>1. Len(msgs'[q]) - Len(msgs[q]) = Pending(q)' - Pending(q)
        <5>1. Pending(q) \in Nat /\ Len(msgs[q]) \in Nat
          BY PendingParts
        <5> QED
          BY <3>1, <3>2, <5>1
      <4> QED
        <5>1. requeued'[q] = requeued[q] /\ tainted \subseteq tainted'
          BY <1>5, <2>0
        <5> QED
          BY <1>1, <1>2, <1>3, <4>1, <5>1, MatchedShifted
  <2>3. CASE q # worker.q
    <3>1. msgs'[q] = msgs[q]
      BY <1>8, <2>3, FrontEffect
    <3>2. Pending(q)' = Pending(q)
      BY <1>2, <1>3, <1>4, <1>5, <2>1, <2>3
    <3> QED
      BY <1>1, <1>5, <2>0, <3>1, <3>2, MatchedKept
  <2> QED
    BY <2>2, <2>3
<1>9. ASSUME tasks' = tasks, AtWorker(q)' = AtWorker(q)
      PROVE  Pending(q)' = Pending(q)
  BY <1>2, <1>3, <1>4, <1>5, <1>9
<1>10. CASE Choose \/ Callback
  <2>1. tasks' = tasks /\ msgs' = msgs /\ AtWorker(q)' = AtWorker(q)
    BY <1>10, ChooseEffect, CallbackEffect DEF AtWorker
  <2>2. requeued' = requeued
    BY <1>10, WorkerMarks
  <2> QED
    BY <1>1, <1>5, <1>9, <2>1, <2>2, MatchedKept
<1>12. CASE AutoAck
  <2>1. tasks' = tasks /\ AtWorker(q)' = AtWorker(q)
    BY <1>12, AutoAckEffect DEF AtWorker
  <2>2. PICK p \in Queue, m \in Ids :
            Removal(p, m) \/ UNCHANGED <<msgs, waitack, unmarked, requeued>>
    BY <1>12, AutoAckEffect
  <2>3. CASE Removal(p, m)
    BY <1>1, <1>5, <1>9, <2>1, <2>3, RemovalMatched
  <2>4. CASE UNCHANGED <<msgs, waitack, unmarked, requeued>>
    BY <1>1, <1>5, <1>9, <2>1, <2>4, MatchedKept
  <2> QED
    BY <2>2, <2>3, <2>4
<1>13. CASE FrontOfEmpty \/ ChooseOfNull \/ UseOfFreed
  <2>1. tasks' = tasks /\ msgs' = msgs /\ AtWorker(q)' = AtWorker(q)
    BY <1>13, StopEffect DEF AtWorker
  <2>2. requeued' = requeued
    BY <1>13, WorkerMarks
  <2> QED
    BY <1>1, <1>5, <1>9, <2>1, <2>2, MatchedKept
<1> QED
  BY <1>6, <1>7, <1>8, <1>10, <1>12, <1>13 DEF Worker

-----------------------------------------------------------------------------
(* Acknowledgements the worker makes, and the ends of the process.         *)

LEMMA SentTypes ==
    ASSUME TypeOK, NEW q \in Queue
    PROVE  \A k \in DOMAIN sent[q] : sent[q][k].m \in Int
BY MessageTypes

LEMMA RequestSettles ==
    ASSUME TypeOK, AutoAckSettles, Requests
    PROVE  AutoAckSettles'
<1>1. /\ UNCHANGED <<sent, worker>>
      /\ \A q \in Queue : PutBack(q) \subseteq PutBack(q)' /\ waitack'[q] \subseteq waitack[q]
  BY RequestFrame, RequestGrows
<1>2. declared' \subseteq declared
  BY RequestKinds
<1> QED
  BY <1>1, <1>2 DEF AutoAckSettles

LEMMA HandlerSettles ==
    ASSUME TypeOK, Remains, AutoAckSettles, Handler \/ WriteFails
    PROVE  AutoAckSettles'
<1>1. sent' = sent /\ \A q \in Queue : PutBack(q)' = PutBack(q)
  BY HandlerFrame DEF PutBack
<1>2. ASSUME worker' = worker \/ worker.at # "ack",
             \A q \in Queue : waitack'[q] \subseteq waitack[q],
             \A q \in Queue : q \in declared' \ declared => waitack[q] = {}
      PROVE  AutoAckSettles'
  BY <1>1, <1>2 DEF AutoAckSettles
<1>3. ASSUME NEW q \in Queue, Insert(q) \/ InsertFails(q)
      PROVE  AutoAckSettles'
  <2>1. UNCHANGED <<worker, waitack, declared>>
    BY <1>3 DEF Insert, InsertFails, tables, content
  <2> QED
    BY <1>2, <2>1
<1>4. CASE Enqueue \/ DeclareFails \/ DestoryQueueConsumer
  <2>1. UNCHANGED <<worker, waitack, declared>>
    BY <1>4 DEF Enqueue, DeclareFails, DestoryQueueConsumer, tables, content
  <2> QED
    BY <1>2, <2>1
<1>5. CASE InitQueueConsumer
  <2>1. UNCHANGED <<worker, waitack>> /\ declared' = declared \cup {io.q} /\ io.at = "declare"
    BY <1>5 DEF InitQueueConsumer, content
  <2>2. \A q \in Queue : q \in declared' \ declared => waitack[q] = {}
    BY <2>1 DEF Remains
  <2> QED
    BY <1>2, <2>1, <2>2
<1>6. CASE DestroyQueueMessage
  <2>1. worker' = worker \/ worker.at # "ack"
    BY <1>6, DestroyEffect
  <2>2. \A q \in Queue : waitack'[q] \subseteq waitack[q]
    BY <1>6, DestroyEffect
  <2>3. declared' = declared
    BY <1>6, DestroyEffect
  <2> QED
    BY <1>2, <2>1, <2>2, <2>3
<1> QED
  BY <1>3, <1>4, <1>5, <1>6 DEF Handler, WriteFails

LEMMA WorkerSettles ==
    ASSUME TypeOK, Tables, Ordered, AutoAckSettles, Worker \/ UseOfFreed
    PROVE  AutoAckSettles'
<1>1. declared' = declared /\ stores' = stores
  BY WorkerFrame
<1>0. \A q \in Queue : PutBack(q) \subseteq PutBack(q)'
  <2>1. CASE AutoAck
    BY <2>1, AutoAckEffect
  <2>2. CASE ~AutoAck
    BY <2>2, WorkerMarks DEF Worker, PutBack
  <2> QED
    BY <2>1, <2>2
<1>2. SUFFICES ASSUME NEW q \in Queue, NEW k \in DOMAIN sent'[q],
                      sent'[q][k].auto, sent'[q][k].m \in waitack'[q], q \in declared,
                      sent'[q][k].m \notin PutBack(q)'
               PROVE  worker'.at = "ack" /\ worker'.q = q /\ worker'.m = sent'[q][k].m
  BY <1>1 DEF AutoAckSettles
\* What was sent and is still waiting is in the worker's hands, or was put back.
<1>3. \A l \in DOMAIN sent[q] : sent[q][l].auto /\ sent[q][l].m \in waitack[q] =>
          \/ worker.at = "ack" /\ worker.q = q /\ worker.m = sent[q][l].m
          \/ sent[q][l].m \in PutBack(q)'
  BY <1>0, <1>2 DEF AutoAckSettles
<1>4. CASE Take \/ Find \/ Choose
  <2>1. worker.at # "ack" /\ UNCHANGED <<sent, waitack>>
    BY <1>4, TakeEffect, FindEffect, ChooseEffect
  <2> QED
    BY <1>2, <1>3, <2>1
<1>5. CASE Front
  <2>1. worker.at = "front" /\ sent' = sent
    BY <1>5, FrontEffect
  <2>2. CASE q # worker.q
    <3>1. waitack'[q] = waitack[q]
      BY <1>5, <2>2, FrontEffect
    <3> QED
      BY <1>2, <1>3, <2>1, <3>1
  <2>3. CASE q = worker.q
    <3>1. /\ waitack'[q] = waitack[q] \cup {msgs[q][1]} /\ 1 \in DOMAIN msgs[q]
      BY <1>5, <2>3, FrontEffect
    <3>2. /\ sent[q][k].m < msgs[q][1] \/ msgs[q][1] \in PutBack(q)
          /\ sent[q][k].m \in Int
      BY <1>2, <2>1, <3>1, SentTypes DEF Ordered, InLine, Follows
    <3>3. sent[q][k].m # msgs[q][1]
      <4>1. sent[q][k].m \notin PutBack(q)
        BY <1>0, <1>2, <2>1
      <4> QED
        BY <3>1, <3>2, <4>1, MessageTypes
    <3> QED
      BY <1>2, <1>3, <2>1, <3>1, <3>3
  <2> QED
    BY <2>2, <2>3
<1>6. CASE Callback
  <2>1. worker.at = "callback" /\ waitack' = waitack
    BY <1>6, CallbackEffect
  <2>2. CASE q # worker.q
    <3>1. sent'[q] = sent[q]
      BY <1>6, <2>2, CallbackEffect
    <3> QED
      BY <1>2, <1>3, <2>1, <3>1
  <2>3. CASE q = worker.q
    <3>1. PICK n \in Nat :
              /\ DOMAIN sent[q] = 1..n /\ DOMAIN sent'[q] = 1..(n + 1)
              /\ \A l \in 1..n : sent'[q][l] = sent[q][l]
              /\ sent'[q][n + 1].m = worker.m
              /\ sent'[q][n + 1].auto = worker.con.auto
      BY <1>6, <2>3, CallbackEffect
    <3>2. k \in 1..n \/ k = n + 1
      BY <1>2, <3>1
    <3>3. CASE k \in 1..n
      BY <1>2, <1>3, <2>1, <3>1, <3>3
    <3>4. CASE k = n + 1
      <4>1. worker.con.auto
        BY <1>2, <3>1, <3>4
      <4>2. worker'.at = "ack" /\ worker'.q = worker.q /\ worker'.m = worker.m
        BY <1>6, <4>1, CallbackEffect
      <4> QED
        BY <2>3, <3>1, <3>4, <4>2
    <3> QED
      BY <3>2, <3>3, <3>4
  <2> QED
    BY <2>2, <2>3
<1>7. CASE AutoAck
  <2>1. sent' = sent /\ waitack'[q] \subseteq waitack[q]
    BY <1>7, AutoAckEffect
  <2>2. worker.q = q /\ worker.m = sent[q][k].m
    BY <1>2, <1>3, <2>1
  <2>3. q \in declared \cap stores
    BY <1>2 DEF Tables
  <2>4. PICK p \in Queue, m \in Ids :
            /\ p = worker.q /\ m = worker.m
            /\ p \in declared \cap stores => m \notin waitack'[p]
    BY <1>7, AutoAckEffect
  <2> QED
    BY <1>2, <2>1, <2>2, <2>3, <2>4
<1>8. CASE FrontOfEmpty \/ ChooseOfNull \/ UseOfFreed
  BY <1>2, <1>3, <1>8, StopEffect
<1> QED
  BY <1>4, <1>5, <1>6, <1>7, <1>8 DEF Worker

LEMMA SafeStep ==
    ASSUME TypeOK, Remains, OneTaskPerMessage, Next
    PROVE  SafeUnlessTainted'
<1>1. dead = "no"
  BY DEF Next
<1>2. CASE Requests
  <2>1. dead' \in {"no", "late request"}
    <3> DEFINE Safe == dead' \in {"no", "late request"}
    <3>1. \A k \in Conn : DeleteConnection(k) => Safe
      BY <1>1 DEF DeleteConnection
    <3>2. \A c \in Chan :
              OpenChannel(c) \/ CloseChannel(c) \/ LateRequest(c) \/ BasicCancel(c) => Safe
      BY <1>1 DEF OpenChannel, CloseChannel, LateRequest, BasicCancel
    <3>3. \A c \in Chan, q \in Queue, auto \in BOOLEAN : BasicConsume(c, q, auto) => Safe
      BY <1>1 DEF BasicConsume
    <3>4. \A c \in Chan, m \in Ids : BasicAck(c, m) => Safe
      BY <1>1 DEF BasicAck
    <3>5. \A c \in Chan, q \in Queue \cup Deletable :
              QueueBind(c, q) \/ QueueUnBind(c, q) \/ DeclareQueue(c, q) \/ DeleteQueue(c, q)
                  => Safe
      BY <1>1 DEF QueueBind, QueueUnBind, DeclareQueue, DeleteQueue
    <3>6. \A c \in Chan, matching \in SUBSET bound \ {{}} : BasicPublish(c, matching) => Safe
      BY <1>1 DEF BasicPublish
    <3> HIDE DEF Safe
    <3>7. Safe
      BY <1>2, <3>1, <3>2, <3>3, <3>4, <3>5, <3>6 DEF Requests
    <3> QED
      BY <3>7 DEF Safe
  <2> QED
    BY <2>1 DEF SafeUnlessTainted
<1>3. CASE Handler \/ WriteFails
  BY <1>1, <1>3, HandlerFrame DEF SafeUnlessTainted
<1>4. CASE Take \/ Find \/ Front \/ Choose \/ Callback \/ AutoAck
  <2>1. dead' = dead
    BY <1>4, TakeEffect, FindEffect, FrontEffect, ChooseEffect, CallbackEffect, AutoAckEffect
  <2> QED
    BY <1>1, <2>1 DEF SafeUnlessTainted
\* The store was cleared, or holds a message for the task.
<1>5. CASE FrontOfEmpty
  <2>1. worker' = worker /\ tainted' = tainted
    BY <1>5 DEF FrontOfEmpty, history
  <2>2. CASE worker.at = "front cleared"
    BY <2>1, <2>2 DEF Remains, SafeUnlessTainted
  <2>3. CASE worker.at = "front" /\ msgs[worker.q] = <<>>
    <3> DEFINE q == worker.q
    <3>1. q \in Queue
      BY <2>3, WorkerShapes DEF TypeOK, Fetching
    <3>2. AtWorker(q)
      BY <2>3 DEF AtWorker
    <3>3. Len(msgs[q]) = 0
      BY <2>3, EmptySeq
    <3> HIDE DEF q
    <3>4. Pending(q) >= 1
      BY <3>1, <3>2, PendingParts
    <3>5. q \notin tainted => Pending(q) + Len(requeued[q]) <= 0
      BY <3>1, <3>3 DEF OneTaskPerMessage
    <3>6. q \in tainted
      BY <3>1, <3>4, <3>5, PendingParts
    <3> QED
      BY <2>1, <3>6 DEF SafeUnlessTainted, q
  <2> QED
    BY <1>5, <2>2, <2>3 DEF FrontOfEmpty
<1>6. CASE ChooseOfNull
  BY <1>6 DEF ChooseOfNull, Remains, SafeUnlessTainted, history
<1>7. CASE UseOfFreed
  BY <1>7 DEF UseOfFreed, SafeUnlessTainted
<1> QED
  BY <1>2, <1>3, <1>4, <1>5, <1>6, <1>7 DEF Next, Worker

-----------------------------------------------------------------------------
(* The theorems.                                                           *)

IInv ==
    /\ TypeOK
    /\ Tables
    /\ Remains
    /\ Ordered
    /\ Subscribed
    /\ OneTaskPerMessage
    /\ AutoAckSettles
    /\ SafeUnlessTainted

LEMMA InitInv == Init => IInv
<1> SUFFICES ASSUME Init
             PROVE  IInv
  OBVIOUS
<1>1. TypeOK
  BY InitTypeOK
<1>2. io.at = "idle" /\ worker.at = "idle" /\ DOMAIN <<>> = {}
  BY DEF Init, Idle
<1>3. \A q \in Queue :
          /\ msgs[q] = <<>> /\ waitack[q] = {} /\ unmarked[q] = {}
          /\ sent[q] = <<>> /\ requeued[q] = <<>> /\ consumers[q] = <<>>
  BY DEF Init
<1>4. Tables
  BY <1>2 DEF Init, Tables
<1>5. Remains
  BY <1>2, <1>3 DEF Remains
<1>6. Ordered
  <2> SUFFICES ASSUME NEW q \in Queue
               PROVE  InLine(q) /\ UpToNow(q)
    BY DEF Ordered
  <2>1. DOMAIN msgs[q] = {} /\ DOMAIN sent[q] = {} /\ unmarked[q] = {}
    BY <1>2, <1>3
  <2>2. ~Carries(q) /\ ~InHand(q)
    BY <1>2 DEF Carries, InHand
  <2>3. InLine(q)
    BY <2>1, <2>2 DEF InLine
  <2>4. UpToNow(q)
    BY <2>1, <2>2 DEF UpToNow
  <2> QED
    BY <2>3, <2>4
<1>7. Subscribed
  BY <1>2, <1>3 DEF Init, Subscribed
<1>8. OneTaskPerMessage
  <2> SUFFICES ASSUME NEW q \in Queue
               PROVE  Matched(q)
    BY DEF OneTaskPerMessage, Matched
  <2>1. Waiting(tasks, q) = {}
    BY <1>2 DEF Init, Waiting
  <2>2. Pending(q) = 0 /\ Len(msgs[q]) = 0 /\ Len(requeued[q]) = 0
    <3>1. Cardinality(Waiting(tasks, q)) = 0 /\ Len(msgs[q]) = 0 /\ Len(requeued[q]) = 0
      BY <1>3, <2>1, FS_EmptySet, EmptySeq
    <3>2. ~AtWorker(q) /\ ~AtHandler(q)
      BY <1>2 DEF AtWorker, AtHandler
    <3> QED
      BY <1>1, <3>1, <3>2, PendingParts
  <2> QED
    BY <2>2 DEF Matched
<1>9. AutoAckSettles /\ SafeUnlessTainted
  BY <1>2, <1>3 DEF Init, AutoAckSettles, SafeUnlessTainted
<1> QED
  BY <1>1, <1>4, <1>5, <1>6, <1>7, <1>8, <1>9 DEF IInv

LEMMA NextInv == IInv /\ Next => IInv'
<1> SUFFICES ASSUME TypeOK, Tables, Remains, Ordered, Subscribed, OneTaskPerMessage,
                    AutoAckSettles, Next
             PROVE  IInv'
  BY DEF IInv
<1>1. SafeUnlessTainted'
  BY SafeStep
<1>2. CASE Requests
  BY <1>1, <1>2, RequestTypes, RequestTables, RequestRemains, RequestOrdered,
     RequestSubscribed, RequestMatched, RequestSettles DEF IInv
<1>3. CASE Handler \/ WriteFails
  <2>1. TypeOK'
    BY <1>3, HandlerTypes
  <2> QED
    BY <1>1, <1>3, <2>1, HandlerTables, HandlerRemains, HandlerOrdered, HandlerSubscribed,
       HandlerMatched, HandlerSettles DEF IInv
<1>4. CASE Worker \/ UseOfFreed
  <2>1. TypeOK'
    BY <1>4, WorkerTypes
  <2> QED
    BY <1>1, <1>4, <2>1, WorkerTables, WorkerRemains, WorkerOrdered, WorkerSubscribed,
       WorkerMatched, WorkerSettles DEF IInv
<1> QED
  BY <1>2, <1>3, <1>4 DEF Next

LEMMA StutterInv == IInv /\ UNCHANGED vars => IInv'
<1> SUFFICES ASSUME IInv, UNCHANGED vars
             PROVE  IInv'
  OBVIOUS
<1>1. UNCHANGED <<declared, bound, stores, lists, msgs, waitack, unmarked, consumers, rrSeq, own,
                  sub, chan, tasks, io, worker, dead, published, failed, tainted, sent,
                  requeued>>
  BY DEF vars, tables, content, subscribers, history
<1>2. TypeOK' /\ Tables' /\ Remains' /\ Subscribed'
  <2>1. TypeOK'
    BY <1>1 DEF IInv, TypeOK
  <2>2. Tables' /\ Remains'
    BY <1>1 DEF IInv, Tables, Remains
  <2>3. Subscribed'
    BY <1>1 DEF IInv, Subscribed
  <2> QED
    BY <2>1, <2>2, <2>3
<1>3. Ordered'
  <2>1. \A q \in Queue : InLine(q)' = InLine(q) /\ UpToNow(q)' = UpToNow(q)
    BY <1>1 DEF InLine, UpToNow, Carries, InHand, Newest, Awaits, PutBack, Follows
  <2> QED
    BY <2>1 DEF IInv, Ordered
<1>4. OneTaskPerMessage' /\ AutoAckSettles' /\ SafeUnlessTainted'
  BY <1>1 DEF IInv, OneTaskPerMessage, Pending, AutoAckSettles, PutBack, SafeUnlessTainted
<1> QED
  BY <1>2, <1>3, <1>4 DEF IInv

LEMMA Invariance == Spec => []IInv
<1>1. IInv /\ [Next]_vars => IInv'
  BY NextInv, StutterInv
<1> QED
  BY <1>1, InitInv, PTL DEF Spec

\* The types of the server's state.
THEOREM TypeCorrect == Spec => []TypeOK
<1>1. IInv => TypeOK
  BY DEF IInv
<1> QED
  BY <1>1, Invariance, PTL

\* No more messages are left without a task than collections have put back,
\* whatever fails or is deleted, and no task without a message as long as its queue
\* is whole.
THEOREM TaskPerMessage == Spec => []OneTaskPerMessage
<1>1. IInv => OneTaskPerMessage
  BY DEF IInv
<1> QED
  BY <1>1, Invariance, PTL

\* The worker meets an empty queue or a missing list of consumers only if the
\* queue was deleted or a message failed to enter it.
THEOREM SafeServer == Spec => []SafeUnlessTainted
<1>1. IInv => SafeUnlessTainted
  BY DEF IInv
<1> QED
  BY <1>1, Invariance, PTL

\* What was sent without asking for an acknowledgement does not wait for one, if it
\* was not put back.
THEOREM AutoAckDone == Spec => []AutoAckSettles
<1>1. IInv => AutoAckSettles
  BY DEF IInv
<1> QED
  BY <1>1, Invariance, PTL

\* Those who can be chosen are the consumers of open channels.
THEOREM OpenConsumers == Spec => []ConsumersAreOpen
<1>1. IInv => ConsumersAreOpen
  BY DEF IInv, Subscribed, ConsumersAreOpen
<1> QED
  BY <1>1, Invariance, PTL

\* Two sequences in order, the first before the second, make one.
LEMMA ConcatOrdered ==
    ASSUME NEW s \in Seq(Int), NEW t \in Seq(Int), NEW B,
           \A k, l \in DOMAIN s : k < l => Follows(B, s[k], s[l]),
           \A k, l \in DOMAIN t : k < l => Follows(B, t[k], t[l]),
           \A k \in DOMAIN s, l \in DOMAIN t : Follows(B, s[k], t[l])
    PROVE  /\ s \o t \in Seq(Int)
           /\ \A k, l \in DOMAIN (s \o t) : k < l => Follows(B, (s \o t)[k], (s \o t)[l])
           /\ \A k \in DOMAIN (s \o t) :
                 \/ \E i \in DOMAIN s : (s \o t)[k] = s[i]
                 \/ \E i \in DOMAIN t : (s \o t)[k] = t[i]
<1> DEFINE n == Len(s)
           p == Len(t)
           c == s \o t
<1>1. /\ c \in Seq(Int) /\ Len(c) = n + p
      /\ \A i \in 1..(n + p) : c[i] = IF i <= n THEN s[i] ELSE t[i - n]
  BY ConcatProperties
<1>2. n \in Nat /\ p \in Nat /\ DOMAIN s = 1..n /\ DOMAIN t = 1..p /\ DOMAIN c = 1..(n + p)
  BY <1>1, LenProperties
<1> HIDE DEF n, p, c
<1>3. \A k \in DOMAIN c : \/ k \in DOMAIN s /\ c[k] = s[k]
                          \/ k > n /\ k - n \in DOMAIN t /\ c[k] = t[k - n]
  BY <1>1, <1>2
<1>4. \A k \in DOMAIN s, l \in DOMAIN c : l < k => l \in DOMAIN s /\ c[l] = s[l]
  BY <1>1, <1>2
<1>5. \A k, l \in DOMAIN c : k < l => Follows(B, c[k], c[l])
  <2> SUFFICES ASSUME NEW k \in DOMAIN c, NEW l \in DOMAIN c, k < l
               PROVE  Follows(B, c[k], c[l])
    OBVIOUS
  <2>1. k \in Int /\ l \in Int /\ n \in Int
    BY <1>2
  <2>2. CASE l \in DOMAIN s /\ c[l] = s[l]
    <3>1. k \in DOMAIN s /\ c[k] = s[k]
      BY <1>4, <2>2
    <3> QED
      BY <2>2, <3>1
  <2>3. CASE l > n /\ l - n \in DOMAIN t /\ c[l] = t[l - n]
    <3>1. CASE k \in DOMAIN s /\ c[k] = s[k]
      BY <2>3, <3>1
    <3>2. CASE k > n /\ k - n \in DOMAIN t /\ c[k] = t[k - n]
      <4>1. k - n < l - n
        BY <2>1
      <4> QED
        BY <2>3, <3>2, <4>1
    <3> QED
      BY <1>3, <3>1, <3>2
  <2> QED
    BY <1>3, <2>2, <2>3
<1> QED
  BY <1>1, <1>3, <1>5 DEF c

LEMMA InOrder ==
    ASSUME TypeOK, NEW q \in Queue, InLine(q)
    PROVE  LET line == [k \in DOMAIN sent[q] |-> sent[q][k].m]
                       \o (IF worker.at \in {"choose", "callback"} /\ worker.q = q
                           THEN <<worker.m>> ELSE <<>>)
                       \o msgs[q]
           IN  \A k, l \in DOMAIN line : k < l => Follows(PutBack(q), line[k], line[l])
<1> DEFINE a == [k \in DOMAIN sent[q] |-> sent[q][k].m]
           b == IF worker.at \in {"choose", "callback"} /\ worker.q = q
                THEN <<worker.m>> ELSE <<>>
           c == msgs[q]
           B == PutBack(q)
<1>1. a \in Seq(Int) /\ DOMAIN a = DOMAIN sent[q]
  <2>1. DOMAIN sent[q] = 1..Len(sent[q]) /\ Len(sent[q]) \in Nat
    BY Typed, LenProperties
  <2>2. a \in [1..Len(sent[q]) -> Int]
    BY <2>1, SentTypes
  <2> QED
    BY <2>1, <2>2
<1>2. c \in Seq(Int)
  <2>1. c \in Seq(Ids)
    BY Typed
  <2>2. Ids \subseteq Int
    BY BrokerAssumption DEF Ids
  <2> HIDE DEF c
  <2>3. c \in [1..Len(c) -> Ids] /\ Len(c) \in Nat
    BY <2>1, LenProperties
  <2>4. c \in [1..Len(c) -> Int]
    BY <2>2, <2>3
  <2> QED
    BY <2>3, <2>4
<1>3. /\ b \in Seq(Int)
      /\ \A k \in DOMAIN b : k = 1 /\ b[k] = worker.m /\ Carries(q)
  <2>1. CASE Carries(q)
    <3>1. b = <<worker.m>> /\ worker.m \in Int
      BY <2>1, MessageTypes DEF Carries
    <3> HIDE DEF b
    <3>2. <<worker.m>> \in Seq(Int) /\ DOMAIN <<worker.m>> = {1} /\ <<worker.m>>[1] = worker.m
      BY <3>1
    <3> QED
      BY <2>1, <3>1, <3>2
  <2>2. CASE ~Carries(q)
    <3>1. b = <<>>
      BY <2>2 DEF Carries
    <3>2. <<>> \in Seq(Int) /\ DOMAIN <<>> = {}
      OBVIOUS
    <3> QED
      BY <3>1, <3>2
  <2> QED
    BY <2>1, <2>2
<1>4. /\ \A k, l \in DOMAIN a : k < l => Follows(B, a[k], a[l])
      /\ \A k, l \in DOMAIN c : k < l => Follows(B, c[k], c[l])
      /\ \A k \in DOMAIN a, l \in DOMAIN c : Follows(B, a[k], c[l])
      /\ Carries(q) => /\ \A k \in DOMAIN a : Follows(B, a[k], worker.m)
                       /\ \A l \in DOMAIN c : Follows(B, worker.m, c[l])
  BY <1>1 DEF InLine
<1> HIDE DEF a, b, c, B
<1>5. /\ a \o b \in Seq(Int)
      /\ \A k, l \in DOMAIN (a \o b) : k < l => Follows(B, (a \o b)[k], (a \o b)[l])
      /\ \A k \in DOMAIN (a \o b) : \/ \E i \in DOMAIN a : (a \o b)[k] = a[i]
                                    \/ \E i \in DOMAIN b : (a \o b)[k] = b[i]
  <2>1. \A k, l \in DOMAIN b : ~(k < l)
    BY <1>3
  <2>2. \A k \in DOMAIN a, l \in DOMAIN b : Follows(B, a[k], b[l])
    BY <1>3, <1>4
  <2> QED
    BY <1>1, <1>3, <1>4, <2>1, <2>2, ConcatOrdered
<1>6. \A k \in DOMAIN (a \o b), l \in DOMAIN c : Follows(B, (a \o b)[k], c[l])
  BY <1>3, <1>4, <1>5
<1> DEFINE d == a \o b
<1>7. /\ d \in Seq(Int)
      /\ \A k, l \in DOMAIN d : k < l => Follows(B, d[k], d[l])
      /\ \A k \in DOMAIN d, l \in DOMAIN c : Follows(B, d[k], c[l])
  BY <1>5, <1>6
<1> HIDE DEF d
<1>8. \A k, l \in DOMAIN (d \o c) : k < l => Follows(B, (d \o c)[k], (d \o c)[l])
  BY <1>2, <1>4, <1>7, ConcatOrdered
<1> QED
  BY <1>8 DEF a, b, c, d, B

\* Messages are sent in the order of publication, each at most once, but for those
\* whose mark failed and that a collection has put back.
THEOREM OrderOfSending == Spec => []SentInOrder
<1>1. IInv => SentInOrder
  <2> SUFFICES ASSUME TypeOK, Ordered
               PROVE  SentInOrder
    BY DEF IInv
  <2>1. \A q \in Queue : InLine(q)
    BY DEF Ordered
  <2> QED
    BY <2>1, InOrder DEF SentInOrder, Follows
<1> QED
  BY <1>1, Invariance, PTL

-----------------------------------------------------------------------------
(* Subscriptions are kept as long as nobody else uses the tag at the queue. *)

\* Channel c is among the consumers of the list.
Listed(list, c) == \E k \in DOMAIN list : list[k].ch = c

\* Who has subscribed stays so for this, whether or not it has cancelled.
Remembered ==
    \A c \in Chan : sub[c] # None => sub'[c] # None /\ sub'[c].q = sub[c].q

LEMMA RequestRemembers ==
    ASSUME TypeOK, Requests
    PROVE  Remembered
<1>1. CASE UNCHANGED <<consumers, own, sub, chan>>
  BY <1>1 DEF Remembered
<1>2. ASSUME NEW C, Frees(C)
      PROVE  Remembered
  BY <1>2 DEF Frees, Remembered
<1>3. ASSUME NEW d \in Chan, OpenChannel(d)
      PROVE  Remembered
  BY <1>3 DEF OpenChannel, subscribers, Remembered
<1>4. ASSUME NEW d \in Chan, BasicCancel(d)
      PROVE  Remembered
  BY <1>4, CancelEffect DEF Remembered
<1>5. ASSUME NEW d \in Chan, NEW q \in Queue, NEW auto \in BOOLEAN, BasicConsume(d, q, auto)
      PROVE  Remembered
  BY <1>5, ConsumeEffect DEF Remembered
<1> QED
  BY <1>1, <1>2, <1>3, <1>4, <1>5, SubscriptionRequests, FreesChannels

LEMMA SharingStays ==
    ASSUME Remembered, NEW c \in Chan, sub[c] # None, ~TagShared(c)'
    PROVE  ~TagShared(c)
BY DEF Remembered, TagShared

LEMMA RequestKeeps ==
    ASSUME TypeOK, Tables, Subscribed, SubscriptionKept, Requests
    PROVE  SubscriptionKept'
<1> SUFFICES ASSUME NEW c \in Chan, chan'[c] = "open", sub'[c] # None, sub'[c].on,
                    ~TagShared(c)'
             PROVE  Listed(consumers'[sub'[c].q], c)
  BY DEF SubscriptionKept, Listed
<1> DEFINE q == sub[c].q
\* Who was subscribed already is in the list, and no other with the same tag.
<1>1. ASSUME chan[c] = "open", sub'[c] = sub[c]
      PROVE  Listed(consumers[q], c) /\ q \in Queue /\ ~TagShared(c)
  <2>1. ~TagShared(c)
    BY <1>1, RequestRemembers, SharingStays
  <2> QED
    BY <1>1, <2>1, SubscriptionTypes DEF SubscriptionKept, Listed
<1>2. ASSUME NEW C, Frees(C)
      PROVE  Listed(consumers'[sub'[c].q], c)
  <2>1. c \notin C /\ chan[c] = "open" /\ sub' = sub /\ consumers' = Destroyed(C)
    BY <1>2 DEF Frees
  <2>2. C \in SUBSET Chan
    BY <1>2 DEF Frees
  <2>3. Listed(consumers[q], c) /\ q \in Queue /\ ~TagShared(c)
    BY <1>1, <2>1
  <2>4. PICK i \in DOMAIN consumers[q] : consumers[q][i].ch = c
    BY <2>3 DEF Listed
  <2>5. consumers[q][i].tag = TagOf[c]
    BY <2>3, <2>4 DEF Subscribed
  <2>6. ASSUME NEW d \in C, own[d] # None, own[d].q = q
        PROVE  own[d].tag # consumers[q][i].tag
    <3>1. own[d].tag = TagOf[d] /\ sub[d] # None /\ sub[d].q = q
      BY <2>2, <2>6 DEF Subscribed
    <3> QED
      BY <2>1, <2>2, <2>3, <2>5, <3>1 DEF TagShared
  <2> HIDE DEF q
  <2>7. \E k \in DOMAIN Destroyed(C)[q] : Destroyed(C)[q][k] = consumers[q][i]
    BY <2>2, <2>3, <2>4, <2>6, DestroyedElements
  <2> QED
    BY <2>1, <2>4, <2>7 DEF Listed, q
<1>3. ASSUME NEW d \in Chan, OpenChannel(d)
      PROVE  Listed(consumers'[sub'[c].q], c)
  <2>1. /\ UNCHANGED <<consumers, sub>> /\ chan[d] = "new"
        /\ c # d => chan'[c] = chan[c]
    BY <1>3, SubscriptionTypes DEF OpenChannel, subscribers
  <2>2. c # d
    BY <2>1 DEF Subscribed
  <2> QED
    BY <1>1, <2>1, <2>2 DEF Listed
<1>4. ASSUME NEW d \in Chan, BasicCancel(d)
      PROVE  Listed(consumers'[sub'[c].q], c)
  <2>1. /\ chan' = chan /\ c # d /\ sub'[c] = sub[c] /\ sub[d] # None /\ sub[d].q \in Queue
        /\ \A p \in Queue \ {sub[d].q} : consumers'[p] = consumers[p]
        /\ consumers'[sub[d].q] = Without(consumers[sub[d].q], {TagOf[d]})
    BY <1>4, CancelEffect
  <2>2. Listed(consumers[q], c) /\ q \in Queue /\ ~TagShared(c)
    BY <1>1, <2>1
  <2>3. PICK i \in DOMAIN consumers[q] : consumers[q][i].ch = c
    BY <2>2 DEF Listed
  <2>4. consumers[q][i].tag = TagOf[c] /\ (sub[d].q = q => TagOf[c] # TagOf[d])
    BY <2>1, <2>2, <2>3 DEF Subscribed, TagShared
  <2> HIDE DEF q
  <2>5. CASE q = sub[d].q
    <3> DEFINE s == consumers[q]
               tags == {TagOf[d]}
    <3>1. s \in Seq(Consumer)
      BY <2>2, SubscriptionTypes
    <3>2. i \in DOMAIN s /\ s[i].tag \notin tags /\ s[i].ch = c
      BY <2>3, <2>4, <2>5
    <3>3. consumers'[q] = Without(s, tags)
      BY <2>1, <2>5
    <3> HIDE DEF s, tags
    <3>4. \E k \in DOMAIN Without(s, tags) : Without(s, tags)[k] = s[i]
      BY <3>1, <3>2, WithoutKeeps
    <3> QED
      BY <2>1, <3>2, <3>3, <3>4 DEF Listed, q
  <2>6. CASE q # sub[d].q
    <3>1. consumers'[q] = consumers[q]
      BY <2>1, <2>2, <2>6
    <3> QED
      BY <2>1, <2>3, <3>1 DEF Listed, q
  <2> QED
    BY <2>5, <2>6
<1>5. ASSUME NEW d \in Chan, NEW p \in Queue, NEW auto \in BOOLEAN, BasicConsume(d, p, auto)
      PROVE  Listed(consumers'[sub'[c].q], c)
  <2>1. /\ chan' = chan /\ sub[d] = None /\ p \in declared
        /\ \A o \in Queue \ {p} : consumers'[o] = consumers[o]
        /\ \A e \in Chan \ {d} : sub'[e] = sub[e]
        /\ sub'[d].q = p
    BY <1>5, ConsumeEffect
  <2>2. c = d => \A k \in DOMAIN consumers[p] : consumers[p][k].tag # TagOf[d]
    <3> SUFFICES ASSUME c = d, NEW k \in DOMAIN consumers[p]
                 PROVE  consumers[p][k].tag # TagOf[d]
      OBVIOUS
    <3> DEFINE e == consumers[p][k].ch
    <3>1. /\ e \in Chan /\ consumers[p][k] # None /\ own[e] = consumers[p][k]
          /\ consumers[p][k].tag = TagOf[e] /\ own[e].q = p
      BY SubscriptionTypes DEF Subscribed
    <3> HIDE DEF e
    <3>2. sub[e] # None /\ sub[e].q = p
      BY <3>1 DEF Subscribed
    <3>3. e # d /\ sub'[e] = sub[e]
      BY <2>1, <3>1, <3>2
    <3>4. TagOf[e] # TagOf[c]
      BY <2>1, <3>1, <3>2, <3>3 DEF TagShared
    <3> QED
      BY <3>1, <3>4
  <2>3. p \in lists
    BY <2>1 DEF Tables
  <2>4. CASE consumers'[p] = consumers[p] /\ c # d
    BY <1>1, <2>1, <2>4 DEF Listed
  <2>5. ASSUME NEW n \in Nat,
               DOMAIN consumers[p] = 1..n, DOMAIN consumers'[p] = 1..(n + 1),
               \A k \in 1..n : consumers'[p][k] = consumers[p][k],
               consumers'[p][n + 1].ch = d
        PROVE  Listed(consumers'[sub'[c].q], c)
    <3>1. CASE c = d
      BY <2>1, <2>5, <3>1 DEF Listed
    <3>2. CASE c # d
      <4>1. sub'[c] = sub[c] /\ Listed(consumers[q], c) /\ q \in Queue
        BY <1>1, <2>1, <3>2
      <4>2. CASE q = p
        BY <2>5, <4>1, <4>2 DEF Listed
      <4>3. CASE q # p
        BY <2>1, <4>1, <4>3 DEF Listed
      <4> QED
        BY <4>2, <4>3
    <3> QED
      BY <3>1, <3>2
  <2> QED
    BY <1>5, <2>2, <2>3, <2>4, <2>5, ConsumeEffect
<1>6. CASE UNCHANGED <<consumers, own, sub, chan>>
  BY <1>1, <1>6 DEF Listed
<1> QED
  BY <1>2, <1>3, <1>4, <1>5, <1>6, SubscriptionRequests, FreesChannels

LEMMA HandlerKeeps ==
    ASSUME TypeOK, SubscriptionKept, Handler \/ WriteFails
    PROVE  SubscriptionKept'
<1>1. UNCHANGED <<own, chan>>
  BY HandlerSubscriptions
<1>2. CASE UNCHANGED <<consumers, sub>>
  BY <1>1, <1>2 DEF SubscriptionKept, TagShared
<1>3. ASSUME NEW q \in Queue,
             \A p \in Queue \ {q} : consumers'[p] = consumers[p],
             \A c \in Chan : IF sub[c] # None /\ sub[c].q = q
                             THEN sub'[c] # None /\ ~sub'[c].on /\ sub'[c].q = q
                             ELSE sub'[c] = sub[c]
      PROVE  SubscriptionKept'
  <2> SUFFICES ASSUME NEW c \in Chan, chan'[c] = "open", sub'[c] # None, sub'[c].on,
                      ~TagShared(c)'
               PROVE  Listed(consumers'[sub'[c].q], c)
    BY DEF SubscriptionKept, Listed
  <2>1. sub'[c] = sub[c] /\ sub[c].q # q
    BY <1>3
  <2>2. Remembered
    BY <1>3 DEF Remembered
  <2>3. ~TagShared(c)
    BY <2>1, <2>2, SharingStays
  <2>4. Listed(consumers[sub[c].q], c) /\ sub[c].q \in Queue
    BY <1>1, <2>1, <2>3, SubscriptionTypes DEF SubscriptionKept, Listed
  <2>5. consumers'[sub[c].q] = consumers[sub[c].q]
    BY <1>3, <2>1, <2>4
  <2> QED
    BY <2>1, <2>4, <2>5 DEF Listed
<1> QED
  BY <1>2, <1>3, HandlerSubscriptions

\* A subscription lasts until the client cancels it, or its queue or its channel
\* goes, or another channel uses its tag at its queue: with other tags, and at
\* other queues whatever the tags, clients do not disturb it.
THEOREM Subscriptions == Spec => []SubscriptionKept
<1>1. Init => SubscriptionKept
  BY DEF Init, SubscriptionKept
<1>2. IInv /\ SubscriptionKept /\ [Next]_vars => SubscriptionKept'
  <2> SUFFICES ASSUME TypeOK, Tables, Subscribed, SubscriptionKept, [Next]_vars
               PROVE  SubscriptionKept'
    BY DEF IInv
  <2>1. CASE Requests
    BY <2>1, RequestKeeps
  <2>2. CASE Handler \/ WriteFails
    BY <2>2, HandlerKeeps
  <2>3. CASE Worker \/ UseOfFreed
    BY <2>3, WorkerFrame DEF SubscriptionKept, TagShared
  <2>4. CASE UNCHANGED vars
    BY <2>4 DEF SubscriptionKept, TagShared, vars, subscribers
  <2> QED
    BY <2>1, <2>2, <2>3, <2>4 DEF Next
<1> QED
  BY <1>1, <1>2, Invariance, PTL DEF Spec

=============================================================================
