----------------------------- MODULE ClientProofs -----------------------------
(* For any number of channels, workers and deliveries: the types of the client, *)
(* that no caller sleeps through its answer, that every response is awaited and *)
(* every task has a worker, that the deliveries to a channel are taken in their *)
(* order, and that none is dropped but while its channel subscribes.            *)
EXTENDS Client, SequenceTheorems, FiniteSetTheorems, TLAPS

(* The message in hand is one that may still be sent.                        *)
ChosenInBounds == chosen \in Chan => sent[chosen] < MaxMsg

IInv == TypeOK /\ ChosenInBounds /\ NoneSleepsThroughAnswer

-----------------------------------------------------------------------------
(* What a thread does, and how a step changes it.                            *)

LEMMA WhatThreadsDo ==
    ASSUME TypeOK, NEW t \in Thread
    PROVE  /\ Calling(t) => act[t].ch \in Chan /\ act[t].op \in Op
           /\ act[t].at = "destroy" => act[t].ch \in Chan
           /\ act[t].at = "run" => t \in Worker /\ act[t].ch \in Chan /\ act[t].m \in 1..MaxMsg
           /\ act[t].at \in {"notify", "release"} => t = IO /\ act[t].ch \in Chan
           /\ Idle.at = "idle"
           /\ act[t].at = "wait" => /\ [act[t] EXCEPT !.at = "asleep"] \in Doing(t)
                                    /\ [act[t] EXCEPT !.at = "asleep"].ch = act[t].ch
           /\ act[t].at = "asleep" => /\ [act[t] EXCEPT !.at = "wait"] \in Doing(t)
                                      /\ [act[t] EXCEPT !.at = "wait"].at = "wait"
           /\ act[t].at = "notify" => /\ [act[t] EXCEPT !.at = "release"] \in Doing(t)
                                      /\ [act[t] EXCEPT !.at = "release"].at = "release"
<1>1. act[t] \in Doing(t)
  BY DEF TypeOK
<1>2. CASE act[t] = Idle
  BY <1>2 DEF Idle, Calling
<1>3. CASE act[t] \in [at : {"wait", "asleep"}, op : Op, ch : Chan]
  BY <1>3 DEF Calling, Doing, Idle
<1>4. CASE act[t] \in [at : {"destroy"}, ch : Chan]
  BY <1>4 DEF Calling, Idle
<1>5. CASE t \in Worker /\ act[t] = [at |-> "parked"]
  BY <1>5 DEF Calling, Idle
<1>6. CASE t \in Worker /\ act[t] \in [at : {"run"}, ch : Chan, m : 1..MaxMsg]
  BY <1>6 DEF Calling, Idle
<1>7. CASE t = IO /\ act[t] \in [at : {"notify", "release"}, ch : Chan]
  BY <1>7 DEF Calling, Doing, Idle
<1>. QED BY <1>1, <1>2, <1>3, <1>4, <1>5, <1>6, <1>7 DEF Doing

LEMMA WhatThreadsMayDo ==
    /\ \A t \in Thread : Idle \in Doing(t)
    /\ \A t \in Thread, c \in Chan, op \in Op : [at |-> "wait", op |-> op, ch |-> c] \in Doing(t)
    /\ \A t \in Thread, c \in Chan : [at |-> "destroy", ch |-> c] \in Doing(t)
    /\ \A c \in Chan : [at |-> "notify", ch |-> c] \in Doing(IO)
                       /\ [at |-> "release", ch |-> c] \in Doing(IO)
    /\ \A w \in Worker : [at |-> "parked"] \in Doing(w)
    /\ \A w \in Worker, c \in Chan, m \in 1..MaxMsg : [at |-> "run", ch |-> c, m |-> m] \in Doing(w)
  BY DEF Doing, Idle

\* The conjuncts about act.
ActsOK == DOMAIN act = Thread /\ \A t \in Thread : act[t] \in Doing(t)

\* One thread goes on and does not fall asleep, no response is added.
LEMMA OneThread ==
    ASSUME TypeOK, NoneSleepsThroughAnswer, NEW t \in Thread, NEW a \in Doing(t),
           a.at # "asleep", act' = [act EXCEPT ![t] = a],
           \A c \in Chan : resps'[c] \subseteq resps[c]
    PROVE  ActsOK' /\ NoneSleepsThroughAnswer'
<1>1. ActsOK'
  BY DEF TypeOK, ActsOK
<1>2. ASSUME NEW u \in Thread, act'[u].at = "asleep" PROVE Answers(u)' = {}
  <2>1. u # t /\ act'[u] = act[u]
    BY <1>2 DEF TypeOK
  <2>2. act[u].ch \in Chan
    BY <1>2, <2>1, WhatThreadsDo DEF Calling
  <2>. QED BY <1>2, <2>1, <2>2 DEF NoneSleepsThroughAnswer, Answers
<1>. QED BY <1>1, <1>2 DEF NoneSleepsThroughAnswer

\* No thread and no response changes.
LEMMA NoThread ==
    ASSUME TypeOK, NoneSleepsThroughAnswer, UNCHANGED <<act, resps>>
    PROVE  ActsOK' /\ NoneSleepsThroughAnswer'
  BY DEF TypeOK, ActsOK, NoneSleepsThroughAnswer, Answers

\* The conjuncts about everything else.
RestOK ==
    /\ conn \in {"connecting", "latched", "up", "down"}
    /\ chan \in [Chan -> {"new", "managed", "removed"}]
    /\ app \subseteq Chan /\ consumer \subseteq Chan /\ auto \subseteq Chan /\ reset \subseteq Chan
    /\ resps \in [Chan -> SUBSET Response]
    /\ tasks \in Seq(Task)
    /\ dead \in {"no", "null connection", "null codec"}
    /\ toServer \in Seq(Request)
    /\ fromServer \in Seq(Message)
    /\ registered \subseteq Chan
    /\ chosen \in Chan \cup {None}
    /\ sent \in [Chan -> 0..MaxMsg]
    /\ taken \in [Chan -> Seq(1..MaxMsg)]
    /\ missed \in [Chan -> SUBSET (1..MaxMsg)]

LEMMA TypesSplit == TypeOK <=> ActsOK /\ RestOK
  BY DEF TypeOK, ActsOK, RestOK

\* The steps keep both halves and what is said of them.
Kept == ActsOK' /\ NoneSleepsThroughAnswer' /\ RestOK' /\ ChosenInBounds'

LEMMA Inv == ASSUME IInv, Kept PROVE IInv'
  BY TypesSplit, PTL DEF IInv, Kept

LEMMA AfterReleaseDoes ==
    ASSUME NEW t \in Thread, NEW c \in Chan
    PROVE  AfterRelease(t, c) \in Doing(t) /\ AfterRelease(t, c).at # "asleep"
  BY WhatThreadsMayDo DEF AfterRelease, Idle

\* A call begins.
LEMMA Sends ==
    ASSUME IInv, NEW t \in Thread, NEW c \in Chan, NEW op \in Op, Send(t, c, op),
           UNCHANGED resps
    PROVE  ActsOK' /\ NoneSleepsThroughAnswer' /\ toServer' \in Seq(Request)
<1>. DEFINE a == [at |-> "wait", op |-> op, ch |-> c]
<1>1. a \in Doing(t) /\ a.at # "asleep"
  BY WhatThreadsMayDo
<1>2. act' = [act EXCEPT ![t] = a]
  BY DEF Send
<1>. HIDE DEF a
<1>3. ActsOK' /\ NoneSleepsThroughAnswer'
  BY <1>1, <1>2, OneThread DEF IInv
<1>4. [ch |-> c, t |-> t, op |-> op] \in Request
  BY DEF Request
<1>. QED BY <1>3, <1>4, AppendProperties DEF IInv, TypeOK, Send

\* A call returns, and its thread goes on with a.
LEMMA Returns ==
    ASSUME IInv, NEW t \in Thread, NEW ops, WaitResponse(t, ops), NEW a \in Doing(t),
           a.at # "asleep", act' = [act EXCEPT ![t] = a]
    PROVE  /\ act[t].ch \in Chan
           /\ ActsOK' /\ NoneSleepsThroughAnswer'
           /\ resps' \in [Chan -> SUBSET Response]
<1>1. act[t].ch \in Chan
  BY WhatThreadsDo DEF IInv, WaitResponse, Calling
<1>2. /\ resps' \in [Chan -> SUBSET Response]
      /\ \A c \in Chan : resps'[c] \subseteq resps[c]
  BY <1>1 DEF IInv, TypeOK, WaitResponse
<1>. QED BY <1>1, <1>2, OneThread DEF IInv

-----------------------------------------------------------------------------
(* The application.                                                          *)

LEMMA ApplicationCalls ==
    ASSUME IInv, NEW c \in Chan,
           \/ OpenChannel(c) \/ Call(c) \/ BasicCancel(c) \/ CloseChannel(c)
           \/ \E autoAck \in BOOLEAN : BasicConsume(c, autoAck)
    PROVE  Kept
<1>. Main \in Thread /\ {"open", "call", "consume", "cancel", "close"} \subseteq Op
  BY DEF Thread, Op
<1>. USE DEF Kept, RestOK, ChosenInBounds, IInv, TypeOK, history
<1>1. CASE OpenChannel(c)
  BY <1>1, Sends DEF OpenChannel
<1>2. CASE Call(c)
  BY <1>2, Sends DEF Call
<1>3. CASE BasicCancel(c)
  BY <1>3, Sends DEF BasicCancel
<1>4. CASE CloseChannel(c)
  BY <1>4, Sends DEF CloseChannel
<1>5. ASSUME NEW autoAck \in BOOLEAN, BasicConsume(c, autoAck) PROVE Kept
  BY <1>5, Sends DEF BasicConsume
<1>. QED BY <1>1, <1>2, <1>3, <1>4, <1>5

LEMMA ApplicationOther ==
    ASSUME IInv, NEW c \in Chan, OpenOnNull(c) \/ LetGo(c)
    PROVE  Kept
<1>. USE DEF Kept, RestOK, ChosenInBounds, IInv, TypeOK, history, server
<1>1. CASE OpenOnNull(c)
  BY <1>1, NoThread DEF OpenOnNull
<1>2. CASE LetGo(c)
  <2>1. Main \in Thread
    BY DEF Thread
  <2>2. ActsOK' /\ NoneSleepsThroughAnswer'
    BY <1>2, <2>1, AfterReleaseDoes, OneThread DEF LetGo
  <2>. QED BY <1>2, <2>2 DEF LetGo
<1>. QED BY <1>1, <1>2

LEMMA MainWaits ==
    ASSUME IInv, OpenReturns \/ CallReturns \/ ConsumeReturns \/ CloseReturns
    PROVE  Kept
<1>. Main \in Thread /\ Idle \in Doing(Main) /\ Idle.at # "asleep"
  BY WhatThreadsMayDo DEF Thread, Idle
<1>. USE DEF Kept, RestOK, ChosenInBounds, IInv, TypeOK, history, server
<1>1. CASE OpenReturns
  BY <1>1, Returns DEF OpenReturns
<1>2. CASE CallReturns
  BY <1>2, Returns DEF CallReturns
<1>3. CASE ConsumeReturns
  BY <1>3, Returns DEF ConsumeReturns
<1>4. CASE CloseReturns
  BY <1>4, Returns DEF CloseReturns
<1>. QED BY <1>1, <1>2, <1>3, <1>4

\* The only step that puts a thread to sleep has looked for its answer.
LEMMA AnyWaits ==
    ASSUME IInv, NEW t \in Thread, Waiting(t)
    PROVE  Kept
<1>. USE DEF Kept, RestOK, ChosenInBounds, IInv, TypeOK, history, server
<1>1. CASE Sleep(t)
  <2>1. ActsOK'
    BY <1>1, WhatThreadsDo DEF Sleep, ActsOK
  <2>2. ASSUME NEW u \in Thread, act'[u].at = "asleep" PROVE Answers(u)' = {}
    <3>1. CASE u = t
      <4>1. act'[t].ch = act[t].ch
        BY <1>1, WhatThreadsDo DEF Sleep
      <4>. QED BY <1>1, <3>1, <4>1 DEF Sleep, Answers
    <3>2. CASE u # t
      BY <1>1, <2>2, <3>2 DEF Sleep, Answers, NoneSleepsThroughAnswer
    <3>. QED BY <3>1, <3>2
  <2>. QED BY <1>1, <2>1, <2>2 DEF Sleep, NoneSleepsThroughAnswer
<1>2. CASE CancelReturns(t)
  BY <1>2, Returns, WhatThreadsMayDo DEF CancelReturns, Idle
<1>3. CASE Destroy(t)
  <2>1. act[t].ch \in Chan /\ "cancel" \in Op
    BY <1>3, WhatThreadsDo DEF Destroy, Op
  <2>. QED BY <1>3, <2>1, Sends DEF Destroy
<1>. QED BY <1>1, <1>2, <1>3 DEF Waiting

-----------------------------------------------------------------------------
(* The IO thread.                                                            *)

LEMMA ConnectionSteps ==
    ASSUME IInv, CountDown \/ SetConnection \/ Disconnect \/ NullCodec
    PROVE  Kept
<1>. USE NoThread, ClientAssumption DEF Kept, RestOK, ChosenInBounds, IInv, TypeOK, history, server
<1>1. CASE CountDown
  BY <1>1 DEF CountDown
<1>2. CASE SetConnection
  BY <1>2 DEF SetConnection
<1>3. CASE Disconnect
  <2>1. ActsOK' /\ NoneSleepsThroughAnswer'
    BY <1>3 DEF Disconnect
  <2>2. toServer' \in Seq(Request) /\ fromServer' \in Seq(Message)
    BY <1>3, EmptySeq DEF Disconnect
  <2>. QED BY <1>3, <2>1, <2>2 DEF Disconnect
<1>4. CASE NullCodec
  BY <1>4 DEF NullCodec
<1>. QED BY <1>1, <1>2, <1>3, <1>4

\* What the server sent.
LEMMA Received ==
    ASSUME IInv, fromServer # <<>>
    PROVE  /\ Head(fromServer) \in Message
           /\ Head(fromServer).is = "response" => Head(fromServer) \in Response
           /\ Head(fromServer).is = "delivery" => Head(fromServer) \in Delivery
           /\ Head(fromServer).ch \in Chan
           /\ Tail(fromServer) \in Seq(Message)
<1>1. fromServer \in Seq(Message)
  BY DEF IInv, TypeOK
<1>2. Head(fromServer) \in Message /\ Tail(fromServer) \in Seq(Message)
  BY <1>1, HeadTailProperties
<1>. QED BY <1>2 DEF Message, Response, Delivery

\* Whoever sleeps on the channel is awake when its response has come.
LEMMA Puts ==
    ASSUME IInv, NEW r \in Response, PutBasicResponse(r)
    PROVE  /\ ActsOK' /\ NoneSleepsThroughAnswer'
           /\ resps' \in [Chan -> SUBSET Response]
<1>1. r.ch \in Chan
  BY DEF Response
<1>2. ActsOK'
  <2>1. DOMAIN act' = Thread
    BY DEF PutBasicResponse
  <2>2. ASSUME NEW t \in Thread PROVE act'[t] \in Doing(t)
    <3>1. t = IO => act'[t] \in Doing(t)
      BY <1>1, WhatThreadsMayDo DEF PutBasicResponse
    <3>2. act[t] \in Doing(t)
      BY DEF IInv, TypeOK
    <3>. QED BY <3>1, <3>2, WhatThreadsDo DEF PutBasicResponse, IInv
  <2>. QED BY <2>1, <2>2 DEF ActsOK
<1>3. ASSUME NEW t \in Thread, act'[t].at = "asleep" PROVE Answers(t)' = {}
  <2>1. /\ t # IO /\ act'[t] = act[t] /\ act[t].at = "asleep" /\ act[t].ch # r.ch
    BY <1>3, WhatThreadsDo DEF PutBasicResponse, IInv
  <2>2. act[t].ch \in Chan
    BY <2>1, WhatThreadsDo DEF Calling, IInv
  <2>3. resps'[act[t].ch] = resps[act[t].ch]
    BY <1>1, <2>1, <2>2 DEF PutBasicResponse, IInv, TypeOK
  <2>. QED BY <2>1, <2>3 DEF Answers, NoneSleepsThroughAnswer, IInv
<1>4. resps' \in [Chan -> SUBSET Response]
  BY <1>1 DEF PutBasicResponse, IInv, TypeOK
<1>. QED BY <1>2, <1>3, <1>4 DEF NoneSleepsThroughAnswer

LEMMA LoopReceives ==
    ASSUME IInv, BasicResponse \/ ConsumeResponse
    PROVE  Kept
<1>. USE DEF Kept, RestOK, ChosenInBounds, history
<1>1. CASE BasicResponse
  <2>1. Head(fromServer) \in Response /\ Tail(fromServer) \in Seq(Message)
    BY <1>1, Received DEF BasicResponse
  <2>2. /\ ActsOK' /\ NoneSleepsThroughAnswer'
        /\ resps' \in [Chan -> SUBSET Response]
    <3>1. CASE Head(fromServer).ch \in Managed
      BY <1>1, <2>1, <3>1, Puts DEF BasicResponse
    <3>2. CASE Head(fromServer).ch \notin Managed
      <4>1. UNCHANGED <<resps, act>>
        BY <1>1, <3>2 DEF BasicResponse
      <4>. QED BY <4>1, NoThread DEF IInv, TypeOK
    <3>. QED BY <3>1, <3>2
  <2>. QED BY <1>1, <2>1, <2>2 DEF BasicResponse, IInv, TypeOK
<1>2. CASE ConsumeResponse
  <2>. DEFINE d == Head(fromServer)
  <2>1. /\ d \in Delivery /\ d.ch \in Chan
        /\ Tail(fromServer) \in Seq(Message)
    BY <1>2, Received DEF ConsumeResponse
  <2>2. [ch |-> d.ch, m |-> d.m] \in Task
    BY <2>1 DEF Delivery, Task
  <2>3. tasks' \in Seq(Task)
    <3>1. tasks \in Seq(Task)
      BY DEF IInv, TypeOK
    <3>2. PICK task \in Task :
              tasks' = tasks \/ tasks' = Append(tasks, task)
      BY <1>2, <2>2 DEF ConsumeResponse
    <3>. QED BY <3>1, <3>2, AppendProperties
  <2>4. IO \in Thread /\ [at |-> "notify", ch |-> d.ch] \in Doing(IO)
    BY <2>1, WhatThreadsMayDo DEF Thread
  <2>5. ActsOK' /\ NoneSleepsThroughAnswer'
    <3>1. CASE d.ch \in Managed
      <4>1. act' = [act EXCEPT ![IO] = [at |-> "notify", ch |-> d.ch]] /\ resps' = resps
        BY <1>2, <3>1 DEF ConsumeResponse
      <4>. QED BY <2>4, <4>1, OneThread DEF IInv
    <3>2. CASE d.ch \notin Managed
      <4>1. UNCHANGED <<act, resps>>
        BY <1>2, <3>2 DEF ConsumeResponse
      <4>. QED BY <4>1, NoThread DEF IInv
    <3>. QED BY <3>1, <3>2
  <2>. QED BY <1>2, <2>1, <2>3, <2>5 DEF ConsumeResponse, IInv, TypeOK
<1>. QED BY <1>1, <1>2

LEMMA LoopNotifies ==
    ASSUME IInv, Notify \/ HandlerEnds
    PROVE  Kept
<1>. USE DEF Kept, RestOK, ChosenInBounds, history, server
<1>1. IO \in Thread /\ \A w \in Worker : w \in Thread /\ w # IO
  BY ClientAssumption DEF Thread
<1>2. CASE Notify
  <2>1. /\ [act[IO] EXCEPT !.at = "release"] \in Doing(IO)
        /\ [act[IO] EXCEPT !.at = "release"].at # "asleep"
    BY <1>1, <1>2, WhatThreadsDo DEF Notify, IInv
  <2>2. ActsOK' /\ NoneSleepsThroughAnswer'
    <3>1. CASE act' = [act EXCEPT ![IO].at = "release"]
      BY <1>1, <1>2, <2>1, <3>1, OneThread DEF Notify, IInv
    <3>2. ASSUME NEW w \in Worker, act' = [act EXCEPT ![IO].at = "release", ![w] = Idle]
          PROVE  ActsOK' /\ NoneSleepsThroughAnswer'
      <4>1. ActsOK'
        BY <1>1, <2>1, <3>2, WhatThreadsMayDo DEF ActsOK, IInv, TypeOK
      <4>2. ASSUME NEW t \in Thread, act'[t].at = "asleep" PROVE Answers(t)' = {}
        <5>1. act'[t] = act[t]
          BY <1>1, <2>1, <3>2, <4>2 DEF Idle, IInv, TypeOK
        <5>. QED BY <1>2, <4>2, <5>1 DEF Notify, Answers, NoneSleepsThroughAnswer, IInv
      <4>. QED BY <4>1, <4>2 DEF NoneSleepsThroughAnswer
    <3>. QED BY <1>2, <3>1, <3>2 DEF Notify
  <2>. QED BY <1>2, <2>2 DEF Notify, IInv, TypeOK
<1>3. CASE HandlerEnds
  <2>1. act[IO].ch \in Chan
    BY <1>1, <1>3, WhatThreadsDo DEF HandlerEnds, IInv
  <2>2. ActsOK' /\ NoneSleepsThroughAnswer'
    BY <1>1, <1>3, <2>1, AfterReleaseDoes, OneThread DEF HandlerEnds, IInv
  <2>. QED BY <1>3, <2>2 DEF HandlerEnds, IInv, TypeOK
<1>. QED BY <1>2, <1>3

-----------------------------------------------------------------------------
(* The workers.                                                              *)

LEMMA WorkerTakes ==
    ASSUME IInv, NEW w \in Worker, Park(w) \/ Take(w)
    PROVE  Kept
<1>. USE DEF Kept, RestOK, ChosenInBounds, history, server
<1>1. w \in Thread
  BY DEF Thread
<1>2. CASE Park(w)
  BY <1>1, <1>2, WhatThreadsMayDo, OneThread DEF Park, IInv, TypeOK
<1>3. CASE Take(w)
  <2>1. /\ Head(tasks) \in Task
        /\ Tail(tasks) \in Seq(Task)
    BY <1>3, HeadTailProperties DEF Take, IInv, TypeOK
  <2>2. PICK d \in Task : d = Head(tasks)
    BY <2>1
  <2>3. [at |-> "run", ch |-> d.ch, m |-> d.m] \in Doing(w) /\ d.ch \in Chan /\ d.m \in 1..MaxMsg
    BY WhatThreadsMayDo DEF Task
  <2>4. /\ act' = [act EXCEPT ![w] = [at |-> "run", ch |-> d.ch, m |-> d.m]]
        /\ taken' = [taken EXCEPT ![d.ch] = Append(@, d.m)]
    BY <1>3, <2>2 DEF Take
  <2>5. ActsOK' /\ NoneSleepsThroughAnswer'
    BY <1>1, <1>3, <2>3, <2>4, OneThread DEF Take, IInv
  <2>6. taken' \in [Chan -> Seq(1..MaxMsg)]
    <3>1. Append(taken[d.ch], d.m) \in Seq(1..MaxMsg)
      BY <2>3, AppendProperties DEF IInv, TypeOK
    <3>. QED BY <2>3, <2>4, <3>1 DEF IInv, TypeOK
  <2>. QED BY <1>3, <2>1, <2>5, <2>6 DEF Take, IInv, TypeOK
<1>. QED BY <1>2, <1>3

LEMMA WorkerConsumes ==
    ASSUME IInv, NEW w \in Worker,
           ConsumeMisses(w) \/ ConsumeAuto(w) \/ BasicAck(w) \/ AckReturns(w)
    PROVE  Kept
<1>. USE DEF Kept, RestOK, ChosenInBounds, history, server
<1>1. w \in Thread /\ "ack" \in Op
  BY DEF Thread, Op
<1>2. act[w].at = "run" => act[w].ch \in Chan /\ act[w].m \in 1..MaxMsg
  BY <1>1, WhatThreadsDo DEF IInv
<1>3. CASE ConsumeMisses(w)
  <2>1. ActsOK' /\ NoneSleepsThroughAnswer'
    BY <1>1, <1>2, <1>3, AfterReleaseDoes, OneThread DEF ConsumeMisses, IInv
  <2>. QED BY <1>2, <1>3, <2>1 DEF ConsumeMisses, IInv, TypeOK
<1>4. CASE ConsumeAuto(w)
  <2>1. ActsOK' /\ NoneSleepsThroughAnswer'
    BY <1>1, <1>2, <1>4, AfterReleaseDoes, OneThread DEF ConsumeAuto, IInv
  <2>. QED BY <1>4, <2>1 DEF ConsumeAuto, IInv, TypeOK
<1>5. CASE BasicAck(w)
  BY <1>1, <1>2, <1>5, Sends DEF BasicAck, IInv, TypeOK
<1>6. CASE AckReturns(w)
  <2>1. act[w].ch \in Chan
    BY <1>1, <1>6, WhatThreadsDo DEF AckReturns, WaitResponse, Calling, IInv
  <2>2. /\ ActsOK' /\ NoneSleepsThroughAnswer'
        /\ resps' \in [Chan -> SUBSET Response]
    BY <1>1, <1>6, <2>1, AfterReleaseDoes, Returns DEF AckReturns
  <2>. QED BY <1>6, <2>2 DEF AckReturns, IInv, TypeOK
<1>. QED BY <1>3, <1>4, <1>5, <1>6

-----------------------------------------------------------------------------
(* The server.                                                               *)

LEMMA ServerSteps ==
    ASSUME IInv, Register \/ Respond \/ Deliver \/ \E c \in Chan : ChooseConsumer(c)
    PROVE  Kept
<1>. USE DEF Kept, RestOK, ChosenInBounds, history
<1>0. UNCHANGED <<act, resps>> => ActsOK' /\ NoneSleepsThroughAnswer'
  BY NoThread DEF IInv
<1>1. toServer # <<>> => Head(toServer) \in Request /\ Tail(toServer) \in Seq(Request)
  BY HeadTailProperties DEF IInv, TypeOK
<1>2. CASE Register
  <2>1. Head(toServer).ch \in Chan
    BY <1>1, <1>2 DEF Register, Asked, Request
  <2>. QED BY <1>0, <1>2, <2>1 DEF Register, IInv, TypeOK
<1>3. CASE Respond
  <2>1. PICK ok \in BOOLEAN : fromServer' = Append(fromServer,
            [is |-> "response", ch |-> Head(toServer).ch, t |-> Head(toServer).t,
             op |-> Head(toServer).op, ok |-> ok])
    BY <1>3 DEF Respond
  <2>2. PICK r \in Response : fromServer' = Append(fromServer, r)
    BY <1>1, <1>3, <2>1 DEF Respond, Request, Response
  <2>3. fromServer' \in Seq(Message)
    <3>1. fromServer \in Seq(Message) /\ r \in Message
      BY DEF IInv, TypeOK, Message
    <3>. QED BY <2>2, <3>1, AppendProperties
  <2>4. registered' \subseteq registered
    BY <1>3 DEF Respond
  <2>. QED BY <1>0, <1>1, <1>3, <2>3, <2>4 DEF Respond, IInv, TypeOK
<1>4. CASE Deliver
  <2>1. chosen \in Chan /\ sent[chosen] \in 0..MaxMsg /\ sent[chosen] < MaxMsg
    BY <1>4 DEF Deliver, IInv, TypeOK
  <2>2. sent[chosen] + 1 \in 1..MaxMsg
    BY <2>1, ClientAssumption
  <2>3. PICK d \in Delivery : fromServer' = Append(fromServer, d)
    BY <1>4, <2>1, <2>2 DEF Deliver, Delivery
  <2>4. fromServer' \in Seq(Message)
    <3>1. fromServer \in Seq(Message) /\ d \in Message
      BY DEF IInv, TypeOK, Message
    <3>. QED BY <2>3, <3>1, AppendProperties
  <2>5. sent' \in [Chan -> 0..MaxMsg]
    <3>0. sent \in [Chan -> 0..MaxMsg]
      BY DEF IInv, TypeOK
    <3>1. sent[chosen] + 1 \in 0..MaxMsg
      BY <2>2, ClientAssumption
    <3>2. sent' = [sent EXCEPT ![chosen] = sent[chosen] + 1]
      BY <1>4 DEF Deliver
    <3>. QED BY <3>0, <3>1, <3>2
  <2>6. ActsOK' /\ NoneSleepsThroughAnswer'
    BY <1>0, <1>4 DEF Deliver
  <2>7. ChosenInBounds'
    BY <1>4, ClientAssumption DEF Deliver
  <2>. QED BY <1>4, <2>4, <2>5, <2>6, <2>7 DEF Deliver, IInv, TypeOK
<1>5. ASSUME NEW c \in Chan, ChooseConsumer(c) PROVE Kept
  BY <1>0, <1>5 DEF ChooseConsumer, IInv, TypeOK
<1>. QED BY <1>2, <1>3, <1>4, <1>5

-----------------------------------------------------------------------------
(* The theorems.                                                             *)

LEMMA InitInv == Init => IInv
<1>. SUFFICES ASSUME Init PROVE IInv
  OBVIOUS
<1>1. \A S : <<>> \in Seq(S)
  BY EmptySeq
<1>2. \A t \in Thread : act[t] \in Doing(t) /\ act[t].at # "asleep"
  BY WhatThreadsMayDo DEF Init, Idle
<1>. QED BY <1>1, <1>2, ClientAssumption
         DEF Init, IInv, TypeOK, ChosenInBounds, NoneSleepsThroughAnswer

LEMMA NextInv == IInv /\ [Next]_vars => IInv'
<1>. SUFFICES ASSUME IInv, [Next]_vars PROVE Kept
  BY Inv
<1>1. CASE Next
  <2>. Main \in Thread /\ IO \in Thread /\ Worker \subseteq Thread
    BY DEF Thread
  <2>1. CASE Application
    BY <2>1, ApplicationCalls, ApplicationOther DEF Application
  <2>2. CASE MainWaiting
    BY <2>2, MainWaits, AnyWaits DEF MainWaiting
  <2>3. CASE Loop
    BY <2>3, LoopReceives, LoopNotifies, ConnectionSteps, AnyWaits DEF Loop
  <2>4. CASE CountDown \/ Disconnect \/ NullCodec
    BY <2>4, ConnectionSteps
  <2>5. ASSUME NEW w \in Worker, Work(w) PROVE Kept
    BY <2>5, WorkerTakes, WorkerConsumes, AnyWaits DEF Work
  <2>6. CASE Register \/ Respond \/ Deliver \/ \E c \in Chan : ChooseConsumer(c)
    BY <2>6, ServerSteps
  <2>. QED BY <1>1, <2>1, <2>2, <2>3, <2>4, <2>5, <2>6 DEF Next
<1>2. CASE UNCHANGED vars
  BY <1>2, NoThread DEF vars, server, history, Kept, RestOK, ChosenInBounds, IInv, TypeOK
<1>. QED BY <1>1, <1>2

THEOREM Invariance == Spec => []IInv
  BY InitInv, NextInv, PTL DEF Spec

\* Every variable keeps its type.
THEOREM TypeCorrect == Spec => []TypeOK
<1>1. IInv => TypeOK
  BY DEF IInv
<1>. QED BY <1>1, Invariance, PTL

\* However many threads sleep on a channel's condition variable, none of them
\* sleeps once its response is in the map.
THEOREM NoWakeUpLost == Spec => []NoneSleepsThroughAnswer
<1>1. IInv => NoneSleepsThroughAnswer
  BY DEF IInv
<1>. QED BY <1>1, Invariance, PTL

-----------------------------------------------------------------------------
(* A request is in one place at a time: on its way, as its response on the    *)
(* way back, or as its response in the map of its channel.                    *)

\* With threads that do a, the one that made the request r, or is to get the
\* response r, waits.
Awaited(a, r) == a[r.t].at \in {"wait", "asleep"} /\ a[r.t].ch = r.ch /\ a[r.t].op = r.op

IsResponse(k) == k \in DOMAIN fromServer /\ fromServer[k].is = "response"

AllAwaited ==
    /\ \A k \in DOMAIN toServer : Awaited(act, toServer[k])
    /\ \A k \in DOMAIN fromServer : IsResponse(k) => Awaited(act, fromServer[k])
    /\ \A c \in Chan : \A r \in resps[c] : r.ch = c /\ Awaited(act, r)

OnePlace ==
    /\ \A j, k \in DOMAIN toServer : toServer[j].t = toServer[k].t => j = k
    /\ \A j, k \in DOMAIN fromServer :
          IsResponse(j) /\ IsResponse(k) /\ fromServer[j].t = fromServer[k].t => j = k
    /\ \A c \in Chan : \A r, s \in resps[c] : r.t = s.t => r = s
    /\ \A j \in DOMAIN toServer, k \in DOMAIN fromServer :
          IsResponse(k) => fromServer[k].t # toServer[j].t
    /\ \A j \in DOMAIN toServer, c \in Chan : \A r \in resps[c] : r.t # toServer[j].t
    /\ \A k \in DOMAIN fromServer, c \in Chan : \A r \in resps[c] :
          IsResponse(k) => r.t # fromServer[k].t

Tokens == AllAwaited /\ OnePlace

LEMMA Tails ==
    ASSUME NEW S, NEW s \in Seq(S), s # <<>>
    PROVE  /\ 1 \in DOMAIN s /\ Head(s) = s[1] /\ Tail(s) \in Seq(S)
           /\ \A k \in DOMAIN Tail(s) : /\ k + 1 \in DOMAIN s /\ k + 1 # 1
                                        /\ Tail(s)[k] = s[k + 1] /\ k \in Nat
  BY HeadTailProperties

LEMMA Appends ==
    ASSUME NEW S, NEW s \in Seq(S), NEW e \in S
    PROVE  /\ DOMAIN Append(s, e) = DOMAIN s \cup {Len(s) + 1}
           /\ Len(s) + 1 \notin DOMAIN s
           /\ Append(s, e)[Len(s) + 1] = e
           /\ \A k \in DOMAIN s : Append(s, e)[k] = s[k]
  BY AppendProperties

\* Who is calling goes on waiting for the same.
Patient ==
    \A t \in Thread : Calling(t) => /\ act'[t].at \in {"wait", "asleep"}
                                    /\ act'[t].ch = act[t].ch
                                    /\ act'[t].op = act[t].op

\* The threads of all requests and responses.
LEMMA Owners ==
    ASSUME TypeOK
    PROVE  /\ \A k \in DOMAIN toServer : toServer[k].t \in Thread /\ toServer[k].ch \in Chan
           /\ \A k \in DOMAIN fromServer : IsResponse(k) =>
                 fromServer[k] \in Response /\ fromServer[k].t \in Thread
           /\ \A c \in Chan : \A r \in resps[c] : r \in Response /\ r.t \in Thread
<1>1. toServer \in Seq(Request) /\ fromServer \in Seq(Message)
  BY DEF TypeOK
<1>2. \A k \in DOMAIN toServer : toServer[k] \in Request
  BY <1>1
<1>3. \A k \in DOMAIN fromServer : fromServer[k] \in Message
  BY <1>1
<1>4. \A k \in DOMAIN fromServer : IsResponse(k) => fromServer[k] \in Response
  BY <1>3 DEF Message, Delivery, IsResponse
<1>5. \A c \in Chan : \A r \in resps[c] : r \in Response
  BY DEF TypeOK
<1>. QED BY <1>2, <1>4, <1>5 DEF Request, Response

LEMMA NothingMoves ==
    ASSUME TypeOK, Tokens, Patient, UNCHANGED <<toServer, fromServer, resps>>
    PROVE  Tokens'
<1>1. IsResponse(1)' = IsResponse(1) /\ \A k : IsResponse(k)' <=> IsResponse(k)
  BY DEF IsResponse
<1>2. AllAwaited'
  BY <1>1, Owners DEF Tokens, AllAwaited, Awaited, Patient, Calling
<1>3. OnePlace'
  BY <1>1 DEF Tokens, OnePlace
<1>. QED BY <1>2, <1>3 DEF Tokens

\* No request or response of t is anywhere.
Free(t) ==
    /\ \A k \in DOMAIN toServer : toServer[k].t # t
    /\ \A k \in DOMAIN fromServer : IsResponse(k) => fromServer[k].t # t
    /\ \A c \in Chan : \A r \in resps[c] : r.t # t

\* All but t go on waiting for the same.
OthersPatient(t) ==
    \A u \in Thread \ {t} : Calling(u) => /\ act'[u].at \in {"wait", "asleep"}
                                         /\ act'[u].ch = act[u].ch
                                         /\ act'[u].op = act[u].op

LEMMA NotCalling ==
    ASSUME TypeOK, Tokens, NEW t \in Thread, ~Calling(t)
    PROVE  Free(t)
  BY DEF Tokens, AllAwaited, Awaited, Free, Calling

\* A thread without a request makes one.
LEMMA SendMoves ==
    ASSUME IInv, Tokens, NEW t \in Thread, NEW c \in Chan, NEW op \in Op, ~Calling(t),
           Send(t, c, op), UNCHANGED <<fromServer, resps>>
    PROVE  Tokens'
<1>. DEFINE q == [ch |-> c, t |-> t, op |-> op]
            n == Len(toServer) + 1
<1>1. TypeOK /\ toServer \in Seq(Request) /\ q \in Request
  BY DEF IInv, TypeOK, Request
<1>2. Free(t)
  BY <1>1, NotCalling
<1>3. \A k : IsResponse(k)' <=> IsResponse(k)
  BY DEF IsResponse
<1>4. act' = [act EXCEPT ![t] = [at |-> "wait", op |-> op, ch |-> c]]
  BY DEF Send
<1>5. OthersPatient(t) /\ act'[t].at = "wait" /\ act'[t].ch = c /\ act'[t].op = op
  BY <1>1, <1>4 DEF OthersPatient, Calling, TypeOK
<1>6. \/ toServer' = toServer
      \/ /\ DOMAIN toServer' = DOMAIN toServer \cup {n}
         /\ n \notin DOMAIN toServer
         /\ toServer'[n] = q
         /\ \A k \in DOMAIN toServer : toServer'[k] = toServer[k]
  BY <1>1, Appends DEF Send
<1>7. q.t = t /\ q.ch = c /\ q.op = op
  OBVIOUS
<1>. HIDE DEF q, n
<1>8. AllAwaited'
  <2>1. ASSUME NEW k \in DOMAIN toServer' PROVE Awaited(act', toServer'[k])
    <3>1. CASE k \in DOMAIN toServer
      <4>1. toServer'[k] = toServer[k] /\ toServer[k].t \in Thread \ {t}
        BY <1>1, <1>2, <1>6, <3>1, Owners DEF Free
      <4>. QED BY <1>5, <3>1, <4>1 DEF Tokens, AllAwaited, Awaited, OthersPatient, Calling
    <3>2. CASE k \notin DOMAIN toServer
      <4>1. toServer'[k] = q
        BY <1>6, <2>1, <3>2
      <4>. QED BY <1>5, <1>7, <4>1 DEF Awaited
    <3>. QED BY <3>1, <3>2
  <2>2. ASSUME NEW k \in DOMAIN fromServer, IsResponse(k) PROVE Awaited(act', fromServer[k])
    <3>1. fromServer[k].t \in Thread \ {t}
      BY <1>1, <1>2, <2>2, Owners DEF Free
    <3>. QED BY <1>5, <2>2, <3>1 DEF Tokens, AllAwaited, Awaited, OthersPatient, Calling
  <2>3. ASSUME NEW d \in Chan, NEW r \in resps[d] PROVE r.ch = d /\ Awaited(act', r)
    <3>1. r.t \in Thread \ {t}
      BY <1>1, <1>2, <2>3, Owners DEF Free
    <3>. QED BY <1>5, <2>3, <3>1 DEF Tokens, AllAwaited, Awaited, OthersPatient, Calling
  <2>. QED BY <1>3, <2>1, <2>2, <2>3 DEF AllAwaited
<1>9. OnePlace'
  BY <1>2, <1>3, <1>6, <1>7 DEF Tokens, OnePlace, Free
<1>. QED BY <1>8, <1>9 DEF Tokens

\* A thread takes its response, and then has none.
LEMMA ReturnMoves ==
    ASSUME IInv, Tokens, NEW t \in Thread, NEW ops, WaitResponse(t, ops), OthersPatient(t),
           UNCHANGED <<toServer, fromServer>>
    PROVE  Tokens'
<1>1. TypeOK /\ act[t].ch \in Chan /\ Calling(t)
  BY WhatThreadsDo DEF IInv, WaitResponse, Calling
<1>2. PICK r \in resps[act[t].ch] : r.t = t
  BY DEF WaitResponse, Answers
<1>3. \A c \in Chan : /\ resps'[c] \subseteq resps[c]
                      /\ \A s \in resps'[c] : s.t # t
  <2>. SUFFICES ASSUME NEW c \in Chan
                PROVE  /\ resps'[c] \subseteq resps[c]
                       /\ \A s \in resps'[c] : s.t # t
    OBVIOUS
  <2>1. resps' = [resps EXCEPT ![act[t].ch] = @ \ Answers(t)]
    BY DEF WaitResponse
  <2>2. resps'[c] \subseteq resps[c]
    BY <1>1, <2>1 DEF TypeOK
  <2>3. ASSUME NEW s \in resps'[c], s.t = t PROVE FALSE
    <3>1. s \in resps[c] /\ c = act[t].ch
      BY <2>2, <2>3 DEF Tokens, AllAwaited, Awaited
    <3>. QED BY <1>1, <2>1, <2>3, <3>1 DEF TypeOK, Answers
  <2>. QED BY <2>2, <2>3
<1>4. \A k : IsResponse(k)' <=> IsResponse(k)
  BY DEF IsResponse
<1>5. Free(t)'
  BY <1>1, <1>2, <1>3, <1>4 DEF Free, Tokens, OnePlace
<1>6. AllAwaited'
  <2>1. ASSUME NEW k \in DOMAIN toServer PROVE Awaited(act', toServer[k])
    <3>1. toServer[k].t \in Thread \ {t}
      BY <1>1, <1>5, Owners DEF Free
    <3>. QED BY <3>1 DEF Tokens, AllAwaited, Awaited, OthersPatient, Calling
  <2>2. ASSUME NEW k \in DOMAIN fromServer, IsResponse(k) PROVE Awaited(act', fromServer[k])
    <3>1. fromServer[k].t \in Thread \ {t}
      BY <1>1, <1>4, <1>5, <2>2, Owners DEF Free
    <3>. QED BY <2>2, <3>1 DEF Tokens, AllAwaited, Awaited, OthersPatient, Calling
  <2>3. ASSUME NEW d \in Chan, NEW s \in resps'[d] PROVE s.ch = d /\ Awaited(act', s)
    <3>1. s \in resps[d] /\ s.t \in Thread \ {t}
      BY <1>1, <1>3, Owners
    <3>. QED BY <3>1 DEF Tokens, AllAwaited, Awaited, OthersPatient, Calling
  <2>. QED BY <1>4, <2>1, <2>2, <2>3 DEF AllAwaited
<1>7. OnePlace'
  BY <1>3, <1>4 DEF Tokens, OnePlace
<1>. QED BY <1>6, <1>7 DEF Tokens

LEMMA Wakes ==
    ASSUME TypeOK, NEW t \in Thread, Calling(t)
    PROVE  \A at \in {"wait", "asleep"} :
              LET a == [act[t] EXCEPT !.at = at]
              IN  a.at = at /\ a.ch = act[t].ch /\ a.op = act[t].op
<1>1. act[t] \in Doing(t)
  BY DEF TypeOK
<1>2. act[t] \in [at : {"wait", "asleep"}, op : Op, ch : Chan]
  BY <1>1 DEF Doing, Calling, Idle
<1>. QED BY <1>2

\* A response enters the map of its channel.
LEMMA PutMoves ==
    ASSUME IInv, Tokens, fromServer # <<>>, Head(fromServer).is = "response",
           fromServer' = Tail(fromServer), PutBasicResponse(Head(fromServer)),
           act[IO] = Idle, UNCHANGED toServer
    PROVE  Tokens'
<1>. DEFINE h == Head(fromServer)
<1>1. TypeOK /\ fromServer \in Seq(Message)
  BY DEF IInv, TypeOK
<1>2. /\ 1 \in DOMAIN fromServer /\ h = fromServer[1] /\ IsResponse(1)
      /\ \A k \in DOMAIN fromServer' :
            /\ k + 1 \in DOMAIN fromServer /\ k + 1 # 1 /\ k \in Nat
            /\ fromServer'[k] = fromServer[k + 1]
  BY <1>1, Tails DEF IsResponse
<1>3. h \in Response /\ h.ch \in Chan
  BY <1>1, <1>2, Owners DEF Response
<1>4. \A c \in Chan : resps'[c] = IF c = h.ch THEN resps[c] \cup {h} ELSE resps[c]
  BY <1>1, <1>3 DEF PutBasicResponse, TypeOK
<1>5. Patient
  <2>. SUFFICES ASSUME NEW t \in Thread, Calling(t)
                PROVE  /\ act'[t].at \in {"wait", "asleep"}
                       /\ act'[t].ch = act[t].ch
                       /\ act'[t].op = act[t].op
    BY DEF Patient
  <2>1. t # IO
    BY DEF Calling, Idle
  <2>2. act'[t] = act[t] \/ act'[t] = [act[t] EXCEPT !.at = "wait"]
    BY <2>1 DEF PutBasicResponse
  <2>3. LET x == [act[t] EXCEPT !.at = "wait"]
        IN  x.at = "wait" /\ x.ch = act[t].ch /\ x.op = act[t].op
    BY <1>1, Wakes
  <2>4. act[t].at \in {"wait", "asleep"}
    BY DEF Calling
  <2>. QED BY <2>2, <2>3, <2>4
<1>6. \A k \in DOMAIN fromServer' : IsResponse(k)' => IsResponse(k + 1)
  BY <1>2 DEF IsResponse
<1>. HIDE DEF h
<1>7. AllAwaited'
  <2>1. ASSUME NEW k \in DOMAIN toServer PROVE Awaited(act', toServer[k])
    BY <1>1, <1>5, Owners DEF Tokens, AllAwaited, Awaited, Patient, Calling
  <2>2. ASSUME NEW k \in DOMAIN fromServer', IsResponse(k)'
        PROVE  Awaited(act', fromServer'[k])
    <3>1. IsResponse(k + 1) /\ k + 1 \in DOMAIN fromServer /\ fromServer'[k] = fromServer[k + 1]
      BY <1>2, <1>6, <2>2
    <3>. QED BY <1>1, <1>5, <3>1, Owners DEF Tokens, AllAwaited, Awaited, Patient, Calling
  <2>3. ASSUME NEW d \in Chan, NEW r \in resps'[d] PROVE r.ch = d /\ Awaited(act', r)
    <3>1. r.ch = d /\ Awaited(act, r) /\ r.t \in Thread
      <4>1. CASE r \in resps[d]
        BY <1>1, <4>1, Owners DEF Tokens, AllAwaited
      <4>2. CASE r = h /\ d = h.ch
        BY <1>1, <1>2, <4>2, Owners DEF Tokens, AllAwaited
      <4>. QED BY <1>4, <2>3, <4>1, <4>2
    <3>. QED BY <1>5, <3>1 DEF Awaited, Patient, Calling
  <2>. QED BY <2>1, <2>2, <2>3 DEF AllAwaited
<1>8. OnePlace'
  <2>0. \A j, k \in DOMAIN toServer' : toServer'[j].t = toServer'[k].t => j = k
    BY DEF Tokens, OnePlace
  <2>1. ASSUME NEW j \in DOMAIN fromServer', NEW k \in DOMAIN fromServer',
               IsResponse(j)', IsResponse(k)', fromServer'[j].t = fromServer'[k].t
        PROVE  j = k
    <3>1. /\ j \in Nat /\ j + 1 \in DOMAIN fromServer /\ IsResponse(j + 1)
          /\ k \in Nat /\ k + 1 \in DOMAIN fromServer /\ IsResponse(k + 1)
          /\ fromServer[j + 1].t = fromServer[k + 1].t
      BY <1>2, <1>6, <2>1
    <3>2. j + 1 = k + 1
      BY <3>1 DEF Tokens, OnePlace
    <3>. QED BY <3>1, <3>2
  <2>2. ASSUME NEW c \in Chan, NEW r \in resps'[c], NEW s \in resps'[c], r.t = s.t
        PROVE  r = s
    <3>1. \A x \in resps[c] : x.t # h.t
      BY <1>2 DEF Tokens, OnePlace
    <3>2. r \in resps[c] /\ s \in resps[c] => r = s
      BY <2>2 DEF Tokens, OnePlace
    <3>3. (r \in resps[c] \/ r = h) /\ (s \in resps[c] \/ s = h)
      BY <1>4, <2>2
    <3>. QED BY <2>2, <3>1, <3>2, <3>3
  <2>3. ASSUME NEW j \in DOMAIN toServer', NEW k \in DOMAIN fromServer', IsResponse(k)'
        PROVE  fromServer'[k].t # toServer'[j].t
    <3>1. IsResponse(k + 1) /\ k + 1 \in DOMAIN fromServer /\ fromServer'[k] = fromServer[k + 1]
      BY <1>2, <1>6, <2>3
    <3>. QED BY <3>1 DEF Tokens, OnePlace
  <2>4. ASSUME NEW j \in DOMAIN toServer', NEW c \in Chan, NEW r \in resps'[c]
        PROVE  r.t # toServer'[j].t
    <3>1. h.t # toServer[j].t
      BY <1>2 DEF Tokens, OnePlace
    <3>2. r \in resps[c] => r.t # toServer[j].t
      BY DEF Tokens, OnePlace
    <3>. QED BY <1>4, <3>1, <3>2
  <2>5. \A k \in DOMAIN fromServer', c \in Chan : \A r \in resps'[c] :
          IsResponse(k)' => r.t # fromServer'[k].t
    <3>. SUFFICES ASSUME NEW k \in DOMAIN fromServer', IsResponse(k)', NEW c \in Chan,
                         NEW r \in resps'[c]
                  PROVE  r.t # fromServer'[k].t
      OBVIOUS
    <3>1. IsResponse(k + 1) /\ k + 1 \in DOMAIN fromServer /\ k + 1 # 1
          /\ fromServer'[k] = fromServer[k + 1]
      BY <1>2, <1>6
    <3>2. CASE r \in resps[c]
      BY <3>1, <3>2 DEF Tokens, OnePlace
    <3>3. CASE r = h
      BY <1>2, <3>1, <3>3 DEF Tokens, OnePlace
    <3>. QED BY <1>4, <3>2, <3>3
  <2>. QED BY <2>0, <2>1, <2>2, <2>3, <2>4, <2>5 DEF OnePlace
<1>. QED BY <1>7, <1>8 DEF Tokens

\* What has arrived is left alone: a delivery, or a response nobody gets.
LEMMA HeadGoes ==
    ASSUME IInv, Tokens, fromServer # <<>>, fromServer' = Tail(fromServer), Patient,
           UNCHANGED <<toServer, resps>>
    PROVE  Tokens'
<1>1. TypeOK /\ fromServer \in Seq(Message)
  BY DEF IInv, TypeOK
<1>2. \A k \in DOMAIN fromServer' :
            /\ k + 1 \in DOMAIN fromServer /\ k \in Nat
            /\ fromServer'[k] = fromServer[k + 1]
  BY <1>1, Tails
<1>3. \A k \in DOMAIN fromServer' : IsResponse(k)' => IsResponse(k + 1)
  BY <1>2 DEF IsResponse
<1>4. AllAwaited'
  <2>1. ASSUME NEW k \in DOMAIN toServer PROVE Awaited(act', toServer[k])
    BY <1>1, Owners DEF Tokens, AllAwaited, Awaited, Patient, Calling
  <2>2. ASSUME NEW k \in DOMAIN fromServer', IsResponse(k)'
        PROVE  Awaited(act', fromServer'[k])
    <3>1. IsResponse(k + 1) /\ k + 1 \in DOMAIN fromServer /\ fromServer'[k] = fromServer[k + 1]
      BY <1>2, <1>3, <2>2
    <3>. QED BY <1>1, <3>1, Owners DEF Tokens, AllAwaited, Awaited, Patient, Calling
  <2>3. ASSUME NEW d \in Chan, NEW r \in resps[d] PROVE r.ch = d /\ Awaited(act', r)
    BY <1>1, Owners DEF Tokens, AllAwaited, Awaited, Patient, Calling
  <2>. QED BY <2>1, <2>2, <2>3 DEF AllAwaited
<1>5. OnePlace'
  BY <1>2, <1>3 DEF Tokens, OnePlace
<1>. QED BY <1>4, <1>5 DEF Tokens

\* The server answers the first request.
LEMMA RespondMoves ==
    ASSUME IInv, Tokens, Respond
    PROVE  Tokens'
<1>1. /\ TypeOK /\ toServer \in Seq(Request) /\ fromServer \in Seq(Message)
      /\ UNCHANGED <<act, resps>> /\ toServer # <<>> /\ toServer' = Tail(toServer)
  BY DEF IInv, TypeOK, Respond
<1>. DEFINE q == Head(toServer)
            n == Len(fromServer) + 1
<1>2. /\ 1 \in DOMAIN toServer /\ q = toServer[1] /\ q \in Request
      /\ \A k \in DOMAIN toServer' :
            /\ k + 1 \in DOMAIN toServer /\ k + 1 # 1 /\ k \in Nat
            /\ toServer'[k] = toServer[k + 1]
  BY <1>1, Tails
<1>3. PICK r \in Response : /\ fromServer' = Append(fromServer, r)
                           /\ r.is = "response" /\ r.t = q.t /\ r.ch = q.ch /\ r.op = q.op
  <2>1. PICK ok \in BOOLEAN : fromServer' = Append(fromServer,
            [is |-> "response", ch |-> q.ch, t |-> q.t, op |-> q.op, ok |-> ok])
    BY DEF Respond
  <2>. QED BY <1>2, <2>1 DEF Request, Response
<1>4. /\ DOMAIN fromServer' = DOMAIN fromServer \cup {n}
      /\ n \notin DOMAIN fromServer
      /\ fromServer'[n] = r
      /\ \A k \in DOMAIN fromServer : fromServer'[k] = fromServer[k]
  <2>1. r \in Message
    BY DEF Message
  <2>. QED BY <1>1, <1>3, <2>1, Appends
<1>. HIDE DEF q, n
<1>5. \A k : IsResponse(k)' <=> IsResponse(k) \/ k = n
  BY <1>3, <1>4 DEF IsResponse
<1>6. AllAwaited'
  <2>1. ASSUME NEW k \in DOMAIN toServer' PROVE Awaited(act', toServer'[k])
    BY <1>1, <1>2 DEF Tokens, AllAwaited
  <2>2. ASSUME NEW k \in DOMAIN fromServer', IsResponse(k)'
        PROVE  Awaited(act', fromServer'[k])
    <3>1. CASE k = n
      BY <1>1, <1>2, <1>3, <1>4, <3>1 DEF Tokens, AllAwaited, Awaited
    <3>2. CASE k # n
      BY <1>1, <1>4, <1>5, <2>2, <3>2 DEF Tokens, AllAwaited
    <3>. QED BY <3>1, <3>2
  <2>. QED BY <1>1, <2>1, <2>2 DEF Tokens, AllAwaited
<1>7. OnePlace'
  <2>1. \A j, k \in DOMAIN toServer' : toServer'[j].t = toServer'[k].t => j = k
    BY <1>2 DEF Tokens, OnePlace
  <2>2. ASSUME NEW j \in DOMAIN fromServer', NEW k \in DOMAIN fromServer',
               IsResponse(j)', IsResponse(k)', fromServer'[j].t = fromServer'[k].t
        PROVE  j = k
    <3>1. \A i \in DOMAIN fromServer : IsResponse(i) => fromServer[i].t # r.t
      BY <1>2, <1>3 DEF Tokens, OnePlace
    <3>. QED BY <1>4, <1>5, <2>2, <3>1 DEF Tokens, OnePlace
  <2>3. ASSUME NEW j \in DOMAIN toServer', NEW k \in DOMAIN fromServer', IsResponse(k)'
        PROVE  fromServer'[k].t # toServer'[j].t
    <3>1. j + 1 \in DOMAIN toServer /\ j + 1 # 1 /\ toServer'[j] = toServer[j + 1]
      BY <1>2
    <3>2. CASE k = n
      BY <1>2, <1>3, <1>4, <3>1, <3>2 DEF Tokens, OnePlace
    <3>3. CASE k # n
      BY <1>4, <1>5, <2>3, <3>1, <3>3 DEF Tokens, OnePlace
    <3>. QED BY <3>2, <3>3
  <2>4. \A j \in DOMAIN toServer', c \in Chan : \A s \in resps'[c] : s.t # toServer'[j].t
    BY <1>1, <1>2 DEF Tokens, OnePlace
  <2>5. ASSUME NEW k \in DOMAIN fromServer', NEW c \in Chan, NEW s \in resps[c], IsResponse(k)'
        PROVE  s.t # fromServer'[k].t
    <3>2. CASE k = n
      BY <1>2, <1>3, <1>4, <3>2 DEF Tokens, OnePlace
    <3>3. CASE k # n
      BY <1>4, <1>5, <2>5, <3>3 DEF Tokens, OnePlace
    <3>. QED BY <3>2, <3>3
  <2>6. \A c \in Chan : \A x, y \in resps'[c] : x.t = y.t => x = y
    BY <1>1 DEF Tokens, OnePlace
  <2>. QED BY <1>1, <2>1, <2>2, <2>3, <2>4, <2>5, <2>6 DEF OnePlace
<1>. QED BY <1>6, <1>7 DEF Tokens

\* A delivery sets out.
LEMMA DeliverMoves ==
    ASSUME IInv, Tokens, Deliver
    PROVE  Tokens'
<1>1. /\ fromServer \in Seq(Message)
      /\ UNCHANGED <<act, resps, toServer>>
  BY DEF IInv, TypeOK, Deliver
<1>. DEFINE d == [is |-> "delivery", ch |-> chosen, m |-> sent[chosen] + 1]
            n == Len(fromServer) + 1
<1>2. fromServer' = Append(fromServer, d) /\ d.is = "delivery"
  BY DEF Deliver
<1>3. fromServer \in Seq(Message \cup {d})
  BY <1>1
<1>4. /\ DOMAIN fromServer' = DOMAIN fromServer \cup {n}
      /\ n \notin DOMAIN fromServer
      /\ fromServer'[n] = d
      /\ \A k \in DOMAIN fromServer : fromServer'[k] = fromServer[k]
  BY <1>2, <1>3, Appends
<1>. HIDE DEF d, n
<1>5. \A k : IsResponse(k)' <=> IsResponse(k)
  BY <1>2, <1>4 DEF IsResponse
<1>6. AllAwaited'
  BY <1>1, <1>4, <1>5 DEF Tokens, AllAwaited, IsResponse
<1>7. OnePlace'
  BY <1>1, <1>4, <1>5 DEF Tokens, OnePlace, IsResponse
<1>. QED BY <1>6, <1>7 DEF Tokens

LEMMA OneActs ==
    ASSUME TypeOK, NEW t \in Thread, NEW a, act' = [act EXCEPT ![t] = a]
    PROVE  OthersPatient(t) /\ (~Calling(t) => Patient)
  BY DEF TypeOK, OthersPatient, Patient, Calling

LEMMA NobodyActs == UNCHANGED act => Patient
  BY DEF Patient, Calling

-----------------------------------------------------------------------------
(* Every step leaves each request in one place.                              *)

LEMMA TokensWhenCalled ==
    ASSUME IInv, Tokens, NEW c \in Chan,
           \/ OpenChannel(c) \/ Call(c) \/ BasicCancel(c) \/ CloseChannel(c)
           \/ \E autoAck \in BOOLEAN : BasicConsume(c, autoAck)
    PROVE  Tokens'
<1>1. Main \in Thread /\ {"open", "call", "consume", "cancel", "close"} \subseteq Op
  BY DEF Thread, Op
<1>2. ~Calling(Main)
  BY DEF OpenChannel, Call, BasicCancel, CloseChannel, BasicConsume, Usable, Calling, Idle
<1>3. CASE OpenChannel(c)
  BY <1>1, <1>2, <1>3, SendMoves DEF OpenChannel
<1>4. CASE Call(c)
  BY <1>1, <1>2, <1>4, SendMoves DEF Call
<1>5. CASE BasicCancel(c)
  BY <1>1, <1>2, <1>5, SendMoves DEF BasicCancel
<1>6. CASE CloseChannel(c)
  BY <1>1, <1>2, <1>6, SendMoves DEF CloseChannel
<1>7. ASSUME NEW autoAck \in BOOLEAN, BasicConsume(c, autoAck) PROVE Tokens'
  BY <1>1, <1>2, <1>7, SendMoves DEF BasicConsume
<1>. QED BY <1>3, <1>4, <1>5, <1>6, <1>7

LEMMA TokensWhenReturned ==
    ASSUME IInv, Tokens, OpenReturns \/ CallReturns \/ ConsumeReturns \/ CloseReturns
    PROVE  Tokens'
<1>1. Main \in Thread /\ TypeOK
  BY DEF Thread, IInv
<1>2. /\ act' = [act EXCEPT ![Main] = Idle] /\ UNCHANGED <<toServer, fromServer>>
      /\ \E ops : WaitResponse(Main, ops)
  BY DEF OpenReturns, CallReturns, ConsumeReturns, CloseReturns, server
<1>. QED BY <1>1, <1>2, OneActs, ReturnMoves

LEMMA TokensWhenWaiting ==
    ASSUME IInv, Tokens, NEW t \in Thread, Waiting(t)
    PROVE  Tokens'
<1>1. TypeOK
  BY DEF IInv
<1>2. CASE Sleep(t)
  <2>1. Calling(t) /\ act' = [act EXCEPT ![t] = [act[t] EXCEPT !.at = "asleep"]]
    BY <1>2 DEF Sleep, Calling
  <2>2. Patient
    BY <1>1, <2>1, Wakes DEF Patient, TypeOK, Calling
  <2>. QED BY <1>1, <1>2, <2>2, NothingMoves DEF Sleep, server
<1>3. CASE CancelReturns(t)
  BY <1>1, <1>3, OneActs, ReturnMoves DEF CancelReturns, server
<1>4. CASE Destroy(t)
  <2>1. act[t].ch \in Chan /\ "cancel" \in Op /\ ~Calling(t)
    BY <1>1, <1>4, WhatThreadsDo DEF Destroy, Op, Calling
  <2>. QED BY <1>4, <2>1, SendMoves DEF Destroy
<1>. QED BY <1>2, <1>3, <1>4 DEF Waiting

LEMMA TokensWhenReceived ==
    ASSUME IInv, Tokens, BasicResponse \/ ConsumeResponse
    PROVE  Tokens'
<1>1. TypeOK /\ IO \in Thread /\ act[IO] = Idle /\ ~Calling(IO)
  BY DEF IInv, Thread, BasicResponse, ConsumeResponse, Calling, Idle
<1>2. CASE BasicResponse /\ Head(fromServer).ch \in Managed
  BY <1>1, <1>2, PutMoves DEF BasicResponse
<1>3. CASE BasicResponse /\ Head(fromServer).ch \notin Managed
  BY <1>3, NobodyActs, HeadGoes DEF BasicResponse
<1>4. CASE ConsumeResponse
  <2>1. Patient
    BY <1>1, <1>4, OneActs, NobodyActs DEF ConsumeResponse
  <2>. QED BY <1>4, <2>1, HeadGoes DEF ConsumeResponse
<1>. QED BY <1>2, <1>3, <1>4

LEMMA TokensInTheLoop ==
    ASSUME IInv, Tokens, CountDown \/ SetConnection \/ NullCodec \/ Notify \/ HandlerEnds
    PROVE  Tokens'
<1>1. TypeOK /\ IO \in Thread /\ UNCHANGED <<toServer, fromServer, resps>>
  BY DEF IInv, Thread, CountDown, SetConnection, NullCodec, Notify, HandlerEnds, server
<1>2. Patient
  <2>1. CASE CountDown \/ SetConnection \/ NullCodec
    BY <2>1, NobodyActs DEF CountDown, SetConnection, NullCodec
  <2>2. CASE Notify
    <3>. SUFFICES ASSUME NEW t \in Thread, Calling(t) PROVE act'[t] = act[t]
      BY DEF Patient, Calling
    <3>1. t # IO /\ act[t].at # "parked"
      BY <2>2 DEF Notify, Calling
    <3>. QED BY <1>1, <2>2, <3>1 DEF Notify, TypeOK
  <2>3. CASE HandlerEnds
    BY <1>1, <2>3, OneActs DEF HandlerEnds, Calling
  <2>. QED BY <2>1, <2>2, <2>3
<1>. QED BY <1>1, <1>2, NothingMoves

\* All that is under way is lost, what has come is not.
LEMMA TokensWhenDown ==
    ASSUME IInv, Tokens, Disconnect
    PROVE  Tokens'
<1>1. /\ toServer' = <<>> /\ fromServer' = <<>> /\ UNCHANGED <<act, resps>>
  BY DEF Disconnect
<1>2. DOMAIN toServer' = {} /\ DOMAIN fromServer' = {}
  BY <1>1
<1>. QED BY <1>1, <1>2 DEF Tokens, AllAwaited, OnePlace

LEMMA TokensElsewhere ==
    ASSUME IInv, Tokens, NEW c \in Chan, OpenOnNull(c) \/ LetGo(c) \/ Register \/ ChooseConsumer(c)
    PROVE  Tokens'
<1>1. TypeOK /\ Main \in Thread /\ UNCHANGED <<toServer, fromServer, resps>>
  BY DEF IInv, Thread, OpenOnNull, LetGo, Register, ChooseConsumer, server
<1>2. Patient
  <2>1. CASE OpenOnNull(c) \/ Register \/ ChooseConsumer(c)
    BY <2>1, NobodyActs DEF OpenOnNull, Register, ChooseConsumer
  <2>2. CASE LetGo(c)
    <3>1. ~Calling(Main) /\ act' = [act EXCEPT ![Main] = AfterRelease(Main, c)]
      BY <2>2 DEF LetGo, Calling, Idle
    <3>. QED BY <1>1, <3>1, OneActs
  <2>. QED BY <2>1, <2>2
<1>. QED BY <1>1, <1>2, NothingMoves

LEMMA TokensInThePool ==
    ASSUME IInv, Tokens, NEW w \in Worker, Park(w) \/ Take(w) \/ ConsumeMisses(w) \/ ConsumeAuto(w)
    PROVE  Tokens'
<1>1. TypeOK /\ w \in Thread /\ UNCHANGED <<toServer, fromServer, resps>>
  BY DEF IInv, Thread, Park, Take, ConsumeMisses, ConsumeAuto, server
<1>2. Patient
  <2>1. CASE Park(w) \/ Take(w)
    BY <1>1, <2>1, OneActs DEF Park, Take, Calling, Idle
  <2>2. CASE ConsumeMisses(w) \/ ConsumeAuto(w)
    BY <1>1, <2>2, OneActs DEF ConsumeMisses, ConsumeAuto, Calling
  <2>. QED BY <2>1, <2>2
<1>. QED BY <1>1, <1>2, NothingMoves

LEMMA TokensWhenAcknowledged ==
    ASSUME IInv, Tokens, NEW w \in Worker, BasicAck(w) \/ AckReturns(w)
    PROVE  Tokens'
<1>1. TypeOK /\ w \in Thread /\ "ack" \in Op
  BY DEF IInv, Thread, Op
<1>2. CASE BasicAck(w)
  <2>1. act[w].ch \in Chan /\ ~Calling(w)
    BY <1>1, <1>2, WhatThreadsDo DEF BasicAck, Calling
  <2>. QED BY <1>1, <1>2, <2>1, SendMoves DEF BasicAck
<1>3. CASE AckReturns(w)
  BY <1>1, <1>3, OneActs, ReturnMoves DEF AckReturns, server
<1>. QED BY <1>2, <1>3

LEMMA TokensInit == Init => Tokens
<1>. SUFFICES ASSUME Init PROVE Tokens
  OBVIOUS
<1>1. /\ DOMAIN toServer = {} /\ DOMAIN fromServer = {}
      /\ \A c \in Chan : resps[c] = {}
  BY DEF Init
<1>. QED BY <1>1 DEF Tokens, AllAwaited, OnePlace

LEMMA TokensNext == IInv /\ Tokens /\ [Next]_vars => Tokens'
<1>. SUFFICES ASSUME IInv, Tokens, [Next]_vars PROVE Tokens'
  OBVIOUS
<1>1. Main \in Thread /\ IO \in Thread /\ \A w \in Worker : w \in Thread
  BY DEF Thread
<1>2. CASE UNCHANGED vars
  BY <1>2, NobodyActs, NothingMoves DEF vars, server, IInv
<1>3. CASE Application
  BY <1>3, TokensWhenCalled, TokensElsewhere DEF Application
<1>4. CASE MainWaiting
  BY <1>1, <1>4, TokensWhenReturned, TokensWhenWaiting DEF MainWaiting
<1>5. CASE Loop
  BY <1>1, <1>5, TokensWhenReceived, TokensInTheLoop, TokensWhenWaiting DEF Loop
<1>6. CASE CountDown \/ Disconnect \/ NullCodec
  BY <1>6, TokensInTheLoop, TokensWhenDown
<1>7. ASSUME NEW w \in Worker, Work(w) PROVE Tokens'
  BY <1>1, <1>7, TokensInThePool, TokensWhenAcknowledged, TokensWhenWaiting DEF Work
<1>8. CASE Respond \/ Deliver
  BY <1>8, RespondMoves, DeliverMoves
<1>9. CASE Register
  <2>1. Head(toServer).ch \in Chan
    <3>1. toServer \in Seq(Request) /\ toServer # <<>>
      BY <1>9 DEF Register, Asked, IInv, TypeOK
    <3>2. Head(toServer) \in Request
      BY <3>1, HeadTailProperties
    <3>. QED BY <3>2 DEF Request
  <2>. QED BY <1>9, <2>1, TokensElsewhere
<1>10. ASSUME NEW c \in Chan, ChooseConsumer(c) PROVE Tokens'
  BY <1>10, TokensElsewhere
<1>. QED BY <1>2, <1>3, <1>4, <1>5, <1>6, <1>7, <1>8, <1>9, <1>10 DEF Next

\* Whatever returns, in whichever order, takes the answer to its own request:
\* no response stays behind, or is taken by a call that did not ask for it.
THEOREM AnswersAwaited == Spec => []AnswersAreAwaited
<1>1. IInv /\ Tokens => AnswersAreAwaited
  BY DEF Tokens, AllAwaited, OnePlace, Awaited, AnswersAreAwaited, Calling
<1>. QED BY <1>1, InitInv, NextInv, TokensInit, TokensNext, PTL DEF Spec

-----------------------------------------------------------------------------
(* A task has a worker that is awake, or about to be.                        *)

Idlers == {w \in Worker : act[w] = Idle}
Parked == {w \in Worker : act[w].at = "parked"}

LEMMA IdlersAreFinite ==
    /\ IsFiniteSet(Idlers) /\ Cardinality(Idlers) \in Nat
    /\ IsFiniteSet(Idlers') /\ Cardinality(Idlers') \in Nat
    /\ Idlers \subseteq Idlers' => Cardinality(Idlers) <= Cardinality(Idlers')
<1>1. IsFiniteSet(Idlers) /\ IsFiniteSet(Idlers')
  BY ClientAssumption, FS_Subset DEF Idlers
<1>. QED BY <1>1, FS_CardinalityType, FS_Subset

LEMMA Restated ==
    WorkersWoken <=>
        (Parked # {} => Len(tasks) <= Cardinality(Idlers) + (IF act[IO].at = "notify" THEN 1 ELSE 0))
  BY DEF WorkersWoken, Parked, Idlers

LEMMA RestatedNext ==
    WorkersWoken' <=>
        (Parked' # {} =>
            Len(tasks') <= Cardinality(Idlers') + (IF act'[IO].at = "notify" THEN 1 ELSE 0))
  BY DEF WorkersWoken, Parked, Idlers

\* No worker parks or begins to run, and no task comes or goes.
LEMMA NoTaskMoves ==
    ASSUME TypeOK, WorkersWoken, UNCHANGED tasks,
           act[IO].at = "notify" => act'[IO].at = "notify",
           \A w \in Worker : /\ act[w] = Idle => act'[w] = Idle
                             /\ act'[w].at = "parked" => act[w].at = "parked"
    PROVE  WorkersWoken'
<1>1. Idlers \subseteq Idlers' /\ Parked' \subseteq Parked
  BY DEF Idlers, Parked
<1>2. Len(tasks) \in Nat
  <2>1. tasks \in Seq(Task)
    BY DEF TypeOK
  <2>. QED BY <2>1, LenProperties
<1>. QED BY <1>1, <1>2, Restated, RestatedNext, IdlersAreFinite

\* One thread acts, which is not a worker that parks or begins to run.
LEMMA OneActsAwake ==
    ASSUME TypeOK, WorkersWoken, UNCHANGED tasks, NEW t \in Thread, NEW a,
           act' = [act EXCEPT ![t] = a], t = IO => act[IO].at # "notify",
           t \in Worker => act[t] # Idle /\ a.at # "parked"
    PROVE  WorkersWoken'
<1>1. IO \in Thread /\ \A w \in Worker : w \in Thread
  BY DEF Thread
<1>2. \A u \in Thread : act'[u] = IF u = t THEN a ELSE act[u]
  BY DEF TypeOK
<1>3. act[IO].at = "notify" => act'[IO].at = "notify"
  BY <1>1, <1>2
<1>4. ASSUME NEW w \in Worker
      PROVE  /\ act[w] = Idle => act'[w] = Idle
             /\ act'[w].at = "parked" => act[w].at = "parked"
  BY <1>1, <1>2
<1>. QED BY <1>3, <1>4, NoTaskMoves

\* A worker goes on without his pointer to a channel.
LEMMA NotParked ==
    ASSUME NEW t, NEW c
    PROVE  AfterRelease(t, c).at # "parked"
  BY DEF AfterRelease, Idle

LEMMA WokenWhenCalled ==
    ASSUME IInv, WorkersWoken, Application \/ OpenReturns \/ CallReturns \/ ConsumeReturns
                               \/ CloseReturns
    PROVE  WorkersWoken'
<1>1. TypeOK /\ Main \in Thread /\ Main # IO /\ Main \notin Worker
  BY ClientAssumption DEF IInv, Thread
<1>2. UNCHANGED tasks
  BY DEF Application, OpenChannel, OpenOnNull, Call, BasicCancel, CloseChannel, LetGo,
         BasicConsume, OpenReturns, CallReturns, ConsumeReturns, CloseReturns
<1>3. UNCHANGED act \/ \E a : act' = [act EXCEPT ![Main] = a]
  BY DEF Application, OpenChannel, OpenOnNull, Call, BasicCancel, CloseChannel, LetGo, Send,
         BasicConsume, OpenReturns, CallReturns, ConsumeReturns, CloseReturns
<1>. QED BY <1>1, <1>2, <1>3, OneActsAwake, NoTaskMoves

LEMMA WokenWhenWaiting ==
    ASSUME IInv, WorkersWoken, NEW t \in Thread, Waiting(t)
    PROVE  WorkersWoken'
<1>1. TypeOK /\ UNCHANGED tasks
  BY DEF IInv, Waiting, Sleep, CancelReturns, Destroy
<1>2. act[t].at \in {"wait", "destroy"}
  BY DEF Waiting, Sleep, CancelReturns, Destroy, WaitResponse
<1>3. act[t] # Idle /\ (t = IO => act[IO].at # "notify")
  BY <1>2 DEF Idle
<1>4. \E a : act' = [act EXCEPT ![t] = a] /\ a.at # "parked"
  <2>1. CASE Sleep(t)
    <3>1. act' = [act EXCEPT ![t] = [act[t] EXCEPT !.at = "asleep"]] /\ Calling(t)
      BY <2>1 DEF Sleep, Calling
    <3>. DEFINE a == [act[t] EXCEPT !.at = "asleep"]
    <3>2. a.at = "asleep"
      BY <1>1, <3>1, Wakes
    <3>3. a.at # "parked" /\ act' = [act EXCEPT ![t] = a]
      BY <3>1, <3>2
    <3>. HIDE DEF a
    <3>. QED BY <3>3
  <2>2. CASE CancelReturns(t)
    <3>1. act' = [act EXCEPT ![t] = Idle] /\ Idle.at # "parked"
      BY <2>2 DEF CancelReturns, Idle
    <3>. QED BY <3>1
  <2>3. CASE Destroy(t)
    <3>. DEFINE a == [at |-> "wait", op |-> "cancel", ch |-> act[t].ch]
    <3>1. act' = [act EXCEPT ![t] = a] /\ a.at # "parked"
      BY <2>3 DEF Destroy, Send
    <3>. HIDE DEF a
    <3>. QED BY <3>1
  <2>. QED BY <2>1, <2>2, <2>3 DEF Waiting
<1>. QED BY <1>1, <1>3, <1>4, OneActsAwake

LEMMA WokenElsewhere ==
    ASSUME IInv, WorkersWoken,
           \/ CountDown \/ SetConnection \/ Disconnect \/ NullCodec \/ Register \/ Respond
           \/ Deliver \/ \E c \in Chan : ChooseConsumer(c)
    PROVE  WorkersWoken'
<1>1. UNCHANGED <<act, tasks>>
  BY DEF CountDown, SetConnection, Disconnect, NullCodec, Register, Respond, Deliver,
         ChooseConsumer
<1>. QED BY <1>1, NoTaskMoves DEF IInv

\* A task comes: the IO thread is about to tell.
LEMMA WokenWhenReceived ==
    ASSUME IInv, WorkersWoken, BasicResponse \/ ConsumeResponse
    PROVE  WorkersWoken'
<1>1. TypeOK /\ IO \in Thread /\ IO \notin Worker /\ act[IO].at # "notify"
  BY ClientAssumption DEF IInv, Thread, BasicResponse, ConsumeResponse, Idle
<1>2. CASE BasicResponse
  <2>1. UNCHANGED tasks
    BY <1>2 DEF BasicResponse
  <2>2. CASE UNCHANGED act
    BY <1>1, <2>1, <2>2, NoTaskMoves
  <2>3. CASE PutBasicResponse(Head(fromServer))
    <3>. SUFFICES ASSUME NEW w \in Worker
                  PROVE  /\ act[w] = Idle => act'[w] = Idle
                         /\ act'[w].at = "parked" => act[w].at = "parked"
      BY <1>1, <2>1, NoTaskMoves
    <3>1. w \in Thread /\ w # IO
      BY <1>1 DEF Thread
    <3>2. CASE act'[w] = act[w]
      BY <3>2
    <3>3. CASE Calling(w) /\ act'[w] = [act[w] EXCEPT !.at = "wait"]
      <4>1. act'[w].at = "wait" /\ act[w] # Idle
        BY <1>1, <3>1, <3>3, Wakes DEF Calling, Idle
      <4>. QED BY <4>1
    <3>. QED BY <2>3, <3>1, <3>2, <3>3 DEF PutBasicResponse, Calling
  <2>. QED BY <1>2, <2>2, <2>3 DEF BasicResponse
<1>3. CASE ConsumeResponse
  <2>. DEFINE d == Head(fromServer)
  <2>1. CASE d.ch \notin Managed
    BY <1>1, <1>3, <2>1, NoTaskMoves DEF ConsumeResponse
  <2>2. CASE d.ch \in Managed
    <3>1. /\ act' = [act EXCEPT ![IO] = [at |-> "notify", ch |-> d.ch]]
          /\ tasks' = Append(tasks, [ch |-> d.ch, m |-> d.m])
      BY <1>3, <2>2 DEF ConsumeResponse
    <3>2. \A w \in Worker : w \in Thread /\ act'[w] = act[w]
      BY <1>1, <3>1 DEF Thread, TypeOK
    <3>3. act'[IO].at = "notify"
      BY <1>1, <3>1 DEF TypeOK
    <3>4. Len(tasks) \in Nat /\ Len(tasks') = Len(tasks) + 1
      <4>1. tasks \in Seq(Task)
        BY <1>1 DEF TypeOK
      <4>. QED BY <3>1, <4>1, LenProperties, AppendProperties
    <3>5. Idlers' = Idlers /\ Parked' = Parked
      BY <3>2 DEF Idlers, Parked
    <3>. QED BY <1>1, <3>3, <3>4, <3>5, Restated, RestatedNext, IdlersAreFinite
  <2>. QED BY <2>1, <2>2
<1>. QED BY <1>2, <1>3

\* A worker is told, or none is left to tell.
LEMMA WokenWhenNotified ==
    ASSUME IInv, WorkersWoken, Notify \/ HandlerEnds
    PROVE  WorkersWoken'
<1>1. TypeOK /\ IO \in Thread /\ IO \notin Worker /\ \A w \in Worker : w \in Thread
  BY ClientAssumption DEF IInv, Thread
<1>2. CASE Notify /\ act' = [act EXCEPT ![IO].at = "release"] /\ Parked = {}
  <2>1. Parked' = {}
    BY <1>1, <1>2 DEF Parked, TypeOK
  <2>. QED BY <2>1, RestatedNext
<1>3. ASSUME Notify, NEW w \in Parked, act' = [act EXCEPT ![IO].at = "release", ![w] = Idle]
      PROVE  WorkersWoken'
  <2>1. w \in Worker /\ w \notin Idlers /\ act[IO].at = "notify" /\ UNCHANGED tasks
    BY <1>3 DEF Notify, Idlers, Parked, Idle
  <2>2. Idlers' = Idlers \cup {w}
    BY <1>1, <1>3, <2>1 DEF Idlers, TypeOK
  <2>3. Cardinality(Idlers') = Cardinality(Idlers) + 1
    BY <2>1, <2>2, IdlersAreFinite, FS_AddElement
  <2>4. Len(tasks) \in Nat
    <3>1. tasks \in Seq(Task)
      BY <1>1 DEF TypeOK
    <3>. QED BY <3>1, LenProperties
  <2>. QED BY <1>3, <2>1, <2>3, <2>4, Restated, RestatedNext, IdlersAreFinite
<1>4. CASE HandlerEnds
  <2>1. act[IO].at # "notify" /\ UNCHANGED tasks
    BY <1>4 DEF HandlerEnds
  <2>. QED BY <1>1, <1>4, <2>1, OneActsAwake DEF HandlerEnds
<1>. QED BY <1>2, <1>3, <1>4 DEF Notify, Parked

LEMMA WokenInThePool ==
    ASSUME IInv, WorkersWoken, NEW w \in Worker, Work(w)
    PROVE  WorkersWoken'
<1>1. TypeOK /\ w \in Thread /\ w # IO /\ IO \in Thread
  BY ClientAssumption DEF IInv, Thread
<1>2. CASE Park(w)
  <2>1. Len(tasks') = 0
    BY <1>2 DEF Park
  <2>. QED BY <2>1, RestatedNext, IdlersAreFinite
<1>3. CASE Take(w)
  <2>1. \A u \in Thread : /\ u # w => act'[u] = act[u]
                          /\ act'[w].at = "run"
    BY <1>1, <1>3 DEF Take, TypeOK
  <2>2. w \in Idlers /\ Idlers' = Idlers \ {w} /\ Parked' = Parked
    <3>1. \A u \in Worker : u \in Thread
      BY DEF Thread
    <3>2. act[w] = Idle /\ act'[w] # Idle /\ act[w].at # "parked" /\ act'[w].at # "parked"
      BY <1>1, <1>3, <2>1 DEF Take, Idle
    <3>. QED BY <2>1, <3>1, <3>2 DEF Idlers, Parked
  <2>3. Cardinality(Idlers') = Cardinality(Idlers) - 1
    BY <2>2, IdlersAreFinite, FS_RemoveElement
  <2>4. Len(tasks) \in Nat /\ Len(tasks') = Len(tasks) - 1
    <3>1. tasks \in Seq(Task) /\ tasks # <<>> /\ tasks' = Tail(tasks)
      BY <1>1, <1>3 DEF Take, TypeOK
    <3>. QED BY <3>1, LenProperties, HeadTailProperties
  <2>5. act'[IO] = act[IO]
    BY <1>1, <2>1
  <2>. QED BY <2>2, <2>3, <2>4, <2>5, Restated, RestatedNext, IdlersAreFinite
<1>4. CASE ConsumeMisses(w) \/ ConsumeAuto(w) \/ BasicAck(w) \/ AckReturns(w)
  <2>1. UNCHANGED tasks /\ act[w] # Idle
    BY <1>4 DEF ConsumeMisses, ConsumeAuto, BasicAck, AckReturns, WaitResponse, Idle
  <2>2. \E a : act' = [act EXCEPT ![w] = a] /\ a.at # "parked"
    BY <1>4, NotParked DEF ConsumeMisses, ConsumeAuto, BasicAck, AckReturns, Send
  <2>. QED BY <1>1, <2>1, <2>2, OneActsAwake
<1>5. CASE Waiting(w)
  BY <1>1, <1>5, WokenWhenWaiting
<1>. QED BY <1>2, <1>3, <1>4, <1>5 DEF Work

LEMMA WokenNext == IInv /\ WorkersWoken /\ [Next]_vars => WorkersWoken'
<1>. SUFFICES ASSUME IInv, WorkersWoken, [Next]_vars PROVE WorkersWoken'
  OBVIOUS
<1>1. Main \in Thread /\ IO \in Thread
  BY DEF Thread
<1>2. CASE UNCHANGED vars
  BY <1>2, NoTaskMoves DEF vars, IInv
<1>3. CASE Application \/ MainWaiting
  BY <1>1, <1>3, WokenWhenCalled, WokenWhenWaiting DEF MainWaiting
<1>4. CASE Loop
  BY <1>1, <1>4, WokenWhenReceived, WokenWhenNotified, WokenElsewhere, WokenWhenWaiting DEF Loop
<1>. QED BY <1>2, <1>3, <1>4, WokenElsewhere, WokenInThePool DEF Next

\* No task waits in the queue while all who could take it wait to be told.
THEOREM TasksHaveWorkers == Spec => []WorkersWoken
<1>1. Init => WorkersWoken
  <2>. SUFFICES ASSUME Init, NEW w \in Worker PROVE act[w].at # "parked"
    BY DEF WorkersWoken
  <2>. QED BY DEF Init, Idle, Thread
<1>. QED BY <1>1, InitInv, NextInv, WokenNext, PTL DEF Spec

-----------------------------------------------------------------------------
(* Deliveries are taken in the order of sending.                             *)

IsDelivery(k, c) == k \in DOMAIN fromServer /\ fromServer[k].is = "delivery" /\ fromServer[k].ch = c
IsTask(k, c) == k \in DOMAIN tasks /\ tasks[k].ch = c

\* The deliveries to c are numbered from 1: those taken, those in the pool and
\* those on their way, in this order and without a gap.
TakenFirst(c) == (\A k \in DOMAIN taken[c] : taken[c][k] = k) /\ Len(taken[c]) <= sent[c]
TasksBetween(c) == \A i : IsTask(i, c) => Len(taken[c]) < tasks[i].m /\ tasks[i].m <= sent[c]
DeliveriesBetween(c) ==
    \A i : IsDelivery(i, c) => Len(taken[c]) < fromServer[i].m /\ fromServer[i].m <= sent[c]
TasksSorted(c) == \A i, j : IsTask(i, c) /\ IsTask(j, c) /\ i < j => tasks[i].m < tasks[j].m
DeliveriesSorted(c) ==
    \A i, j : IsDelivery(i, c) /\ IsDelivery(j, c) /\ i < j => fromServer[i].m < fromServer[j].m
TasksAhead(c) == \A i, j : IsTask(i, c) /\ IsDelivery(j, c) => tasks[i].m < fromServer[j].m
NoGap(c) ==
    \A m \in (Len(taken[c]) + 1)..sent[c] :
        \/ \E i : IsTask(i, c) /\ tasks[i].m = m
        \/ \E i : IsDelivery(i, c) /\ fromServer[i].m = m

Line(c) ==
    /\ TakenFirst(c) /\ TasksBetween(c) /\ DeliveriesBetween(c)
    /\ TasksSorted(c) /\ DeliveriesSorted(c) /\ TasksAhead(c) /\ NoGap(c)

Engaged(t) == act[t].at \in {"wait", "asleep", "destroy", "run", "notify", "release"}

\* Nobody knows of c before it is opened.
Untouched(c) ==
    /\ sent[c] = 0 /\ taken[c] = <<>>
    /\ \A k \in DOMAIN tasks : tasks[k].ch # c
    /\ \A k \in DOMAIN fromServer : fromServer[k].ch # c
    /\ \A k \in DOMAIN toServer : toServer[k].ch # c
    /\ c \notin registered \cup app \cup consumer /\ chosen # c
    /\ \A t \in Thread : Engaged(t) => act[t].ch # c

New ==
    /\ conn \in {"connecting", "latched"} => Managed = {}
    /\ \A c \in Chan : chan[c] = "new" => Untouched(c)

Lines == conn = "up" => \A c \in Managed : Line(c)

LEMMA NewInit == Init => New /\ Lines
<1>. SUFFICES ASSUME Init PROVE New /\ Lines
  OBVIOUS
<1>1. DOMAIN tasks = {} /\ DOMAIN fromServer = {} /\ DOMAIN toServer = {}
  BY DEF Init
<1>. QED BY <1>1, ClientAssumption DEF Init, New, Lines, Untouched, Engaged, Managed, Idle

\* A thread that goes on stays with its channel, or turns to one that is open.
Engages(c) == \A t \in Thread : Engaged(t)' => (Engaged(t) /\ act'[t].ch = act[t].ch) \/ act'[t].ch # c

\* A step that adds nothing for a channel not yet open leaves it untouched.
LEMMA StaysUntouched ==
    ASSUME TypeOK, NEW c \in Chan, Untouched(c), Engages(c),
           sent'[c] = sent[c], taken'[c] = taken[c],
           \A k \in DOMAIN tasks' : tasks'[k].ch = c => \E j \in DOMAIN tasks : tasks[j].ch = c,
           \A k \in DOMAIN fromServer' : fromServer'[k].ch = c =>
               \/ \E j \in DOMAIN fromServer : fromServer[j].ch = c
               \/ \E j \in DOMAIN toServer : toServer[j].ch = c,
           \A k \in DOMAIN toServer' : toServer'[k].ch = c =>
               \E j \in DOMAIN toServer : toServer[j].ch = c,
           c \in registered' => c \in registered \/ \E j \in DOMAIN toServer : toServer[j].ch = c,
           c \in app' => c \in app \/ \E t \in Thread : Engaged(t) /\ act[t].ch = c,
           c \in consumer' => c \in consumer \/ \E t \in Thread : Engaged(t) /\ act[t].ch = c,
           chosen' = c => chosen = c \/ c \in registered
    PROVE  Untouched(c)'
  BY DEF Untouched, Engages

\* The channel of a thread's next work is not c.
LEMMA OneEngages ==
    ASSUME TypeOK, NEW c, NEW t \in Thread, NEW a, act' = [act EXCEPT ![t] = a],
           a.at \in {"wait", "asleep", "destroy", "run", "notify", "release"} => a.ch # c
    PROVE  Engages(c)
  BY DEF Engages, Engaged, TypeOK

LEMMA NobodyEngages == ASSUME NEW c, UNCHANGED act PROVE Engages(c)
  BY DEF Engages, Engaged

LEMMA SendStays ==
    ASSUME TypeOK, NEW c \in Chan, Untouched(c), NEW t \in Thread, NEW d \in Chan, d # c, NEW op \in Op,
           Send(t, d, op), UNCHANGED <<tasks, fromServer, registered, app, consumer, chosen, history>>
    PROVE  Untouched(c)'
<1>1. Engages(c)
  BY OneEngages DEF Send
<1>2. [ch |-> d, t |-> t, op |-> op] \in Request /\ toServer \in Seq(Request)
  BY DEF Request, TypeOK
<1>3. \A k \in DOMAIN toServer' : toServer'[k].ch = c => \E j \in DOMAIN toServer : toServer[j].ch = c
  BY <1>2, Appends DEF Send
<1>. QED BY <1>1, <1>3, StaysUntouched DEF history

LEMMA UntouchedWhenCalled ==
    ASSUME IInv, New, NEW d \in Chan,
           \/ OpenChannel(d) \/ Call(d) \/ BasicCancel(d) \/ CloseChannel(d)
           \/ \E autoAck \in BOOLEAN : BasicConsume(d, autoAck)
    PROVE  New'
<1>1. Main \in Thread /\ {"open", "call", "consume", "cancel", "close"} \subseteq Op /\ TypeOK
  BY DEF Thread, Op, IInv
<1>2. /\ \E op \in Op : Send(Main, d, op)
      /\ UNCHANGED <<conn, tasks, fromServer, registered, app, consumer, chosen, history>>
      /\ \A c \in Chan : chan'[c] = "new" => chan[c] = "new" /\ c # d
      /\ Managed = {} => Managed' = {} \/ conn = "up"
  <2>1. CASE OpenChannel(d)
    BY <1>1, <2>1 DEF OpenChannel, TypeOK
  <2>2. CASE Call(d)
    BY <1>1, <2>2 DEF Call, Usable, Managed
  <2>3. CASE BasicCancel(d)
    BY <1>1, <2>3 DEF BasicCancel, Usable, Managed
  <2>4. CASE CloseChannel(d)
    BY <1>1, <2>4 DEF CloseChannel, Usable, Managed
  <2>5. ASSUME NEW autoAck \in BOOLEAN, BasicConsume(d, autoAck)
        PROVE  <1>2!1 /\ <1>2!2 /\ <1>2!3 /\ <1>2!4
    BY <1>1, <2>5 DEF BasicConsume, Usable, Managed
  <2>. QED BY <2>1, <2>2, <2>3, <2>4, <2>5
<1>. QED BY <1>1, <1>2, SendStays DEF New

LEMMA UntouchedWhenReturned ==
    ASSUME IInv, New, OpenReturns \/ CallReturns \/ ConsumeReturns \/ CloseReturns
    PROVE  New'
<1>1. Main \in Thread /\ TypeOK
  BY DEF Thread, IInv
<1>2. /\ act' = [act EXCEPT ![Main] = Idle]
      /\ Engaged(Main) /\ act[Main].ch \in Chan
      /\ UNCHANGED <<conn, tasks, server, history>>
      /\ app' \subseteq app \cup {act[Main].ch} /\ consumer' \subseteq consumer \cup {act[Main].ch}
      /\ \A c \in Chan : /\ chan'[c] = "new" => chan[c] = "new"
                         /\ chan'[c] = "managed" => chan[c] = "managed"
  <2>1. Engaged(Main) /\ act[Main].ch \in Chan
    BY <1>1, WhatThreadsDo DEF OpenReturns, CallReturns, ConsumeReturns, CloseReturns,
                               WaitResponse, Engaged, Calling
  <2>2. CASE OpenReturns
    BY <2>1, <2>2 DEF OpenReturns
  <2>3. CASE CallReturns
    BY <2>1, <2>3 DEF CallReturns
  <2>4. CASE ConsumeReturns
    BY <2>1, <2>4 DEF ConsumeReturns
  <2>5. CASE CloseReturns
    BY <1>1, <2>1, <2>5 DEF CloseReturns, TypeOK
  <2>. QED BY <2>2, <2>3, <2>4, <2>5
<1>3. ASSUME NEW c \in Chan, Untouched(c) PROVE Untouched(c)'
  <2>1. Engages(c)
    BY <1>1, <1>2, OneEngages DEF Idle
  <2>. QED BY <1>1, <1>2, <1>3, <2>1, StaysUntouched DEF server, history
<1>. QED BY <1>2, <1>3 DEF New, Managed

LEMMA UntouchedWhenWaiting ==
    ASSUME IInv, New, NEW t \in Thread, Waiting(t)
    PROVE  New'
<1>1. TypeOK
  BY DEF IInv
<1>2. UNCHANGED <<conn, chan>>
  BY DEF Waiting, Sleep, CancelReturns, Destroy
<1>3. ASSUME NEW c \in Chan, Untouched(c) PROVE Untouched(c)'
  <2>1. CASE Sleep(t)
    <3>1. Calling(t) /\ act' = [act EXCEPT ![t] = [act[t] EXCEPT !.at = "asleep"]]
      BY <2>1 DEF Sleep, Calling
    <3>2. [act[t] EXCEPT !.at = "asleep"].ch # c
      BY <1>1, <1>3, <3>1, Wakes DEF Untouched, Engaged, Calling
    <3>3. Engages(c)
      BY <1>1, <3>1, <3>2, OneEngages
    <3>. QED BY <1>1, <1>3, <2>1, <3>3, StaysUntouched DEF Sleep, server, history
  <2>2. CASE CancelReturns(t)
    <3>1. Engages(c)
      BY <1>1, <2>2, OneEngages DEF CancelReturns, Idle
    <3>. QED BY <1>1, <1>3, <2>2, <3>1, StaysUntouched DEF CancelReturns, server, history
  <2>3. CASE Destroy(t)
    <3>1. act[t].ch \in Chan /\ act[t].ch # c /\ "cancel" \in Op
      BY <1>1, <1>3, <2>3, WhatThreadsDo DEF Destroy, Op, Untouched, Engaged
    <3>. QED BY <1>1, <1>3, <2>3, <3>1, SendStays DEF Destroy
  <2>. QED BY <2>1, <2>2, <2>3 DEF Waiting
<1>. QED BY <1>2, <1>3 DEF New, Managed

LEMMA UntouchedInTheLoop ==
    ASSUME IInv, New, NEW d \in Chan,
           \/ CountDown \/ SetConnection \/ Disconnect \/ NullCodec \/ Notify \/ HandlerEnds
           \/ OpenOnNull(d) \/ LetGo(d)
    PROVE  New'
<1>1. TypeOK /\ IO \in Thread /\ Main \in Thread
  BY DEF IInv, Thread
<1>2. /\ UNCHANGED <<chan, tasks, consumer, sent, taken>>
      /\ conn' \in {"connecting", "latched"} => conn \in {"connecting", "latched"}
      /\ app' \subseteq app /\ registered' \subseteq registered
      /\ chosen' = chosen \/ chosen' = None
      /\ UNCHANGED <<toServer, fromServer>> \/ (toServer' = <<>> /\ fromServer' = <<>>)
  BY DEF CountDown, SetConnection, Disconnect, NullCodec, Notify, HandlerEnds, OpenOnNull, LetGo,
         server, history
<1>3. ASSUME NEW c \in Chan, Untouched(c) PROVE Untouched(c)'
  <2>1. Engages(c)
    <3>1. CASE CountDown \/ SetConnection \/ Disconnect \/ NullCodec \/ OpenOnNull(d)
      BY <3>1, NobodyEngages DEF CountDown, SetConnection, Disconnect, NullCodec, OpenOnNull
    <3>2. CASE Notify
      <4>1. /\ [act[IO] EXCEPT !.at = "release"].ch = act[IO].ch /\ act[IO].ch # c
        <5>1. act[IO] \in Doing(IO) /\ act[IO].at = "notify"
          BY <1>1, <3>2 DEF Notify, TypeOK
        <5>2. act[IO] \in [at : {"notify", "release"}, ch : Chan]
          BY <5>1, ClientAssumption DEF Doing, Idle
        <5>. QED BY <1>1, <1>3, <5>1, <5>2 DEF Untouched, Engaged
      <4>2. CASE act' = [act EXCEPT ![IO].at = "release"]
        BY <1>1, <4>1, <4>2, OneEngages
      <4>3. ASSUME NEW w \in Worker, act' = [act EXCEPT ![IO].at = "release", ![w] = Idle]
            PROVE  Engages(c)
        <5>1. w \in Thread /\ w # IO
          BY ClientAssumption DEF Thread
        <5>. QED BY <1>1, <4>1, <4>3, <5>1 DEF Engages, Engaged, Idle, TypeOK
      <4>. QED BY <3>2, <4>2, <4>3 DEF Notify
    <3>3. CASE HandlerEnds
      <4>1. act[IO].ch # c
        BY <1>1, <1>3, <3>3 DEF HandlerEnds, Untouched, Engaged
      <4>. QED BY <1>1, <3>3, <4>1, OneEngages DEF HandlerEnds, AfterRelease, Idle
    <3>4. CASE LetGo(d)
      <4>1. d \in app /\ c \notin app
        BY <1>3, <3>4 DEF LetGo, Untouched
      <4>2. AfterRelease(Main, d).at \in {"wait", "asleep", "destroy", "run", "notify", "release"}
                => AfterRelease(Main, d).ch # c
        BY <4>1 DEF AfterRelease, Idle
      <4>3. act' = [act EXCEPT ![Main] = AfterRelease(Main, d)]
        BY <3>4 DEF LetGo
      <4>. QED BY <1>1, <4>2, <4>3, OneEngages
    <3>. QED BY <3>1, <3>2, <3>3, <3>4
  <2>2. chosen' # c
    BY <1>2, <1>3, ClientAssumption DEF Untouched
  <2>3. \A k \in DOMAIN toServer' : toServer'[k].ch # c
    BY <1>2, <1>3 DEF Untouched
  <2>4. \A k \in DOMAIN fromServer' : fromServer'[k].ch # c
    BY <1>2, <1>3 DEF Untouched
  <2>. QED BY <1>1, <1>2, <1>3, <2>1, <2>2, <2>3, <2>4, StaysUntouched
<1>. QED BY <1>2, <1>3 DEF New, Managed

LEMMA UntouchedWhenReceived ==
    ASSUME IInv, New, BasicResponse \/ ConsumeResponse
    PROVE  New'
<1>. DEFINE h == Head(fromServer)
<1>1. TypeOK /\ IO \in Thread /\ fromServer \in Seq(Message) /\ tasks \in Seq(Task)
  BY DEF IInv, Thread, TypeOK
<1>2. /\ UNCHANGED <<conn, chan, app, consumer, toServer, registered, chosen, history>>
      /\ fromServer # <<>> /\ fromServer' = Tail(fromServer)
      /\ act[IO] = Idle
  BY DEF BasicResponse, ConsumeResponse
<1>3. /\ 1 \in DOMAIN fromServer /\ h = fromServer[1] /\ h.ch \in Chan
      /\ h.is = "delivery" => h \in Delivery
      /\ \A k \in DOMAIN fromServer' :
            k + 1 \in DOMAIN fromServer /\ fromServer'[k] = fromServer[k + 1]
  BY <1>1, <1>2, Tails, Received
<1>4. ASSUME NEW c \in Chan, Untouched(c) PROVE Untouched(c)'
  <2>1. h.ch # c
    BY <1>3, <1>4 DEF Untouched
  <2>2. Engages(c)
    <3>1. CASE BasicResponse /\ h.ch \in Managed
      <4>. SUFFICES ASSUME NEW t \in Thread, Engaged(t)' PROVE act'[t].ch # c
        BY DEF Engages
      <4>1. CASE t = IO
        BY <1>1, <2>1, <3>1, <4>1 DEF BasicResponse, PutBasicResponse
      <4>2. CASE act'[t] = act[t]
        BY <1>4, <4>2 DEF Untouched, Engaged
      <4>3. CASE t # IO /\ Calling(t) /\ act'[t] = [act[t] EXCEPT !.at = "wait"]
        BY <1>1, <1>4, <4>3, Wakes DEF Untouched, Engaged, Calling
      <4>. QED BY <1>1, <3>1, <4>1, <4>2, <4>3 DEF BasicResponse, PutBasicResponse, Calling
    <3>2. CASE act' = [act EXCEPT ![IO] = [at |-> "notify", ch |-> h.ch]]
      BY <1>1, <2>1, <3>2, OneEngages
    <3>3. CASE UNCHANGED act
      BY <3>3, NobodyEngages
    <3>. QED BY <3>1, <3>2, <3>3 DEF BasicResponse, ConsumeResponse
  <2>3. \A k \in DOMAIN tasks' : tasks'[k].ch = c => \E j \in DOMAIN tasks : tasks[j].ch = c
    <3>1. CASE tasks' = tasks
      BY <3>1
    <3>2. CASE ConsumeResponse /\ tasks' = Append(tasks, [ch |-> h.ch, m |-> h.m])
      <4>1. [ch |-> h.ch, m |-> h.m] \in Task
        BY <1>3, <3>2 DEF ConsumeResponse, Delivery, Task
      <4>. QED BY <1>1, <2>1, <3>2, <4>1, Appends
    <3>. QED BY <3>1, <3>2 DEF BasicResponse, ConsumeResponse
  <2>. QED BY <1>1, <1>2, <1>3, <1>4, <2>2, <2>3, StaysUntouched DEF history
<1>. QED BY <1>2, <1>4 DEF New, Managed

LEMMA UntouchedInThePool ==
    ASSUME IInv, New, NEW w \in Worker,
           \/ Park(w) \/ Take(w) \/ ConsumeMisses(w) \/ ConsumeAuto(w) \/ BasicAck(w)
           \/ AckReturns(w)
    PROVE  New'
<1>1. TypeOK /\ w \in Thread /\ tasks \in Seq(Task)
  BY DEF IInv, Thread, TypeOK
<1>2. UNCHANGED <<conn, chan, app, consumer, fromServer, registered, chosen, sent>>
  BY DEF Park, Take, ConsumeMisses, ConsumeAuto, BasicAck, AckReturns, server, history
<1>3. ASSUME NEW c \in Chan, Untouched(c) PROVE Untouched(c)'
  <2>1. CASE BasicAck(w)
    <3>1. act[w].ch \in Chan /\ act[w].ch # c /\ "ack" \in Op
      BY <1>1, <1>3, <2>1, WhatThreadsDo DEF BasicAck, Op, Untouched, Engaged
    <3>. QED BY <1>1, <1>3, <2>1, <3>1, SendStays DEF BasicAck
  <2>2. CASE Take(w)
    <3>1. /\ 1 \in DOMAIN tasks /\ Head(tasks) = tasks[1] /\ tasks[1].ch # c /\ tasks[1] \in Task
          /\ \A k \in DOMAIN tasks' : k + 1 \in DOMAIN tasks /\ tasks'[k] = tasks[k + 1]
      BY <1>1, <1>3, <2>2, Tails DEF Take, Untouched
    <3>2. Engages(c)
      BY <1>1, <2>2, <3>1, OneEngages DEF Take
    <3>3. taken'[c] = taken[c]
      BY <1>1, <2>2, <3>1 DEF Take, TypeOK
    <3>. QED BY <1>1, <1>2, <1>3, <2>2, <3>1, <3>2, <3>3, StaysUntouched DEF Take, server
  <2>3. CASE Park(w) \/ ConsumeMisses(w) \/ ConsumeAuto(w) \/ AckReturns(w)
    <3>1. UNCHANGED <<tasks, toServer, taken>>
      BY <2>3 DEF Park, ConsumeMisses, ConsumeAuto, AckReturns, server, history
    <3>2. act[w].at \in {"run", "wait"} => act[w].ch # c
      BY <1>1, <1>3 DEF Untouched, Engaged
    <3>3. Engages(c)
      <4>1. CASE Park(w)
        BY <1>1, <4>1, OneEngages DEF Park
      <4>2. CASE ConsumeMisses(w) \/ ConsumeAuto(w) \/ AckReturns(w)
        <5>1. act' = [act EXCEPT ![w] = AfterRelease(w, act[w].ch)] /\ act[w].ch # c
          BY <3>2, <4>2 DEF ConsumeMisses, ConsumeAuto, AckReturns, WaitResponse
        <5>. QED BY <1>1, <5>1, OneEngages DEF AfterRelease, Idle
      <4>. QED BY <2>3, <4>1, <4>2
    <3>. QED BY <1>1, <1>2, <1>3, <3>1, <3>3, StaysUntouched
  <2>. QED BY <2>1, <2>2, <2>3
<1>. QED BY <1>2, <1>3 DEF New, Managed

LEMMA UntouchedByServer ==
    ASSUME IInv, New, Register \/ Respond \/ Deliver \/ \E c \in Chan : ChooseConsumer(c)
    PROVE  New'
<1>1. TypeOK /\ toServer \in Seq(Request) /\ fromServer \in Seq(Message)
  BY DEF IInv, TypeOK
<1>2. UNCHANGED <<conn, chan, app, consumer, tasks, act, taken>>
  BY DEF Register, Respond, Deliver, ChooseConsumer, history
<1>3. ASSUME NEW c \in Chan, Untouched(c) PROVE Untouched(c)'
  <2>0. Engages(c)
    BY <1>2, NobodyEngages
  <2>1. CASE Register
    <3>1. 1 \in DOMAIN toServer /\ Head(toServer) = toServer[1]
      BY <1>1, <2>1, Tails DEF Register, Asked
    <3>2. registered' = registered \cup {toServer[1].ch} /\ UNCHANGED <<toServer, fromServer, chosen, sent>>
      BY <2>1, <3>1 DEF Register, history
    <3>. QED BY <1>1, <1>2, <1>3, <2>0, <3>1, <3>2, StaysUntouched
  <2>2. CASE Respond
    <3>1. /\ 1 \in DOMAIN toServer /\ Head(toServer) = toServer[1] /\ toServer[1] \in Request
          /\ \A k \in DOMAIN toServer' : k + 1 \in DOMAIN toServer /\ toServer'[k] = toServer[k + 1]
      BY <1>1, <2>2, Tails DEF Respond
    <3>2. PICK r \in Response : fromServer' = Append(fromServer, r) /\ r.ch = toServer[1].ch
      <4>1. PICK ok \in BOOLEAN : fromServer' = Append(fromServer,
            [is |-> "response", ch |-> toServer[1].ch, t |-> toServer[1].t, op |-> toServer[1].op,
             ok |-> ok])
        BY <2>2, <3>1 DEF Respond
      <4>. QED BY <3>1, <4>1 DEF Request, Response
    <3>3. \A k \in DOMAIN fromServer' : fromServer'[k].ch = c =>
               \/ \E j \in DOMAIN fromServer : fromServer[j].ch = c
               \/ \E j \in DOMAIN toServer : toServer[j].ch = c
      <4>1. r \in Message
        BY DEF Message
      <4>. QED BY <1>1, <3>1, <3>2, <4>1, Appends
    <3>4. registered' \subseteq registered /\ UNCHANGED <<chosen, sent>>
      BY <2>2 DEF Respond, history
    <3>. QED BY <1>1, <1>2, <1>3, <2>0, <3>1, <3>3, <3>4, StaysUntouched
  <2>3. CASE Deliver
    <3>1. chosen \in Chan /\ chosen # c /\ sent[chosen] \in 0..MaxMsg /\ sent[chosen] < MaxMsg
      BY <1>3, <2>3 DEF Deliver, IInv, TypeOK, ChosenInBounds, Untouched
    <3>2. PICK d \in Delivery : fromServer' = Append(fromServer, d) /\ d.ch = chosen
      <4>1. sent[chosen] + 1 \in 1..MaxMsg
        BY <3>1, ClientAssumption
      <4>. QED BY <2>3, <3>1, <4>1 DEF Deliver, Delivery
    <3>3. \A k \in DOMAIN fromServer' : fromServer'[k].ch = c =>
               \E j \in DOMAIN fromServer : fromServer[j].ch = c
      <4>1. d \in Message
        BY DEF Message
      <4>. QED BY <1>1, <3>1, <3>2, <4>1, Appends
    <3>4. sent'[c] = sent[c] /\ UNCHANGED <<registered, toServer>> /\ chosen' = None
      BY <2>3, <3>1 DEF Deliver, IInv, TypeOK
    <3>. QED BY <1>1, <1>2, <1>3, <2>0, <3>3, <3>4, ClientAssumption, StaysUntouched
  <2>4. ASSUME NEW d \in Chan, ChooseConsumer(d) PROVE Untouched(c)'
    <3>1. UNCHANGED <<toServer, fromServer, registered, sent>> /\ chosen' = d /\ d \in registered
      BY <2>4 DEF ChooseConsumer, history
    <3>. QED BY <1>1, <1>2, <1>3, <2>0, <3>1, StaysUntouched
  <2>. QED BY <2>1, <2>2, <2>3, <2>4
<1>. QED BY <1>2, <1>3 DEF New, Managed

LEMMA NewNext == IInv /\ New /\ [Next]_vars => New'
<1>. SUFFICES ASSUME IInv, New, [Next]_vars PROVE New'
  OBVIOUS
<1>1. Main \in Thread /\ IO \in Thread /\ \A w \in Worker : w \in Thread
  BY DEF Thread
<1>2. CASE UNCHANGED vars
  BY <1>2 DEF vars, server, history, New, Untouched, Engaged, Managed
<1>3. CASE Application
  BY <1>3, UntouchedWhenCalled, UntouchedInTheLoop DEF Application
<1>4. CASE MainWaiting
  BY <1>1, <1>4, UntouchedWhenReturned, UntouchedWhenWaiting DEF MainWaiting
<1>5. CASE BasicResponse \/ ConsumeResponse
  BY <1>5, UntouchedWhenReceived
<1>6. CASE Chan = {} /\ (Notify \/ HandlerEnds \/ SetConnection \/ CountDown \/ Disconnect \/ NullCodec)
  BY <1>6 DEF New, Managed
<1>7. CASE Chan # {} /\ (Notify \/ HandlerEnds \/ SetConnection \/ CountDown \/ Disconnect \/ NullCodec)
  BY <1>7, UntouchedInTheLoop
<1>8. ASSUME NEW t \in Thread, Waiting(t) PROVE New'
  BY <1>8, UntouchedWhenWaiting
<1>9. ASSUME NEW w \in Worker, Work(w) PROVE New'
  BY <1>1, <1>8, <1>9, UntouchedInThePool DEF Work
<1>10. CASE Register \/ Respond \/ Deliver \/ \E c \in Chan : ChooseConsumer(c)
  BY <1>10, UntouchedByServer
<1>. QED BY <1>1, <1>2, <1>3, <1>4, <1>5, <1>6, <1>7, <1>8, <1>9, <1>10 DEF Next, Loop

-----------------------------------------------------------------------------
(* How a step changes the line of a channel.                                 *)

\* The places of the tasks and of the deliveries to c move by p and by q.
Shifted(c, p, q) ==
    /\ \A i : IsTask(i, c)' => /\ i \in Int /\ IsTask(i + p, c)
                               /\ tasks'[i].m = tasks[i + p].m
    /\ \A i : IsTask(i, c) => /\ i \in Int /\ IsTask(i - p, c)'
                              /\ tasks'[i - p].m = tasks[i].m
    /\ \A i : IsDelivery(i, c)' => /\ i \in Int /\ IsDelivery(i + q, c)
                                   /\ fromServer'[i].m = fromServer[i + q].m
    /\ \A i : IsDelivery(i, c) => /\ i \in Int /\ IsDelivery(i - q, c)'
                                  /\ fromServer'[i - q].m = fromServer[i].m

LEMMA LineShifted ==
    ASSUME TypeOK, NEW c \in Chan, NEW p \in {0, 1}, NEW q \in {0, 1}, Line(c), Shifted(c, p, q),
           sent'[c] = sent[c], taken'[c] = taken[c]
    PROVE  Line(c)'
<1>1. TakenFirst(c)'
  BY DEF Line, TakenFirst
<1>6. ASSUME NEW i, IsTask(i, c)'
      PROVE  Len(taken'[c]) < tasks'[i].m /\ tasks'[i].m <= sent'[c]
  BY <1>6 DEF Line, TasksBetween, Shifted
<1>7. ASSUME NEW i, IsDelivery(i, c)'
      PROVE  Len(taken'[c]) < fromServer'[i].m /\ fromServer'[i].m <= sent'[c]
  BY <1>7 DEF Line, DeliveriesBetween, Shifted
<1>8. ASSUME NEW i, NEW j, IsTask(i, c)', IsDelivery(j, c)'
      PROVE  tasks'[i].m < fromServer'[j].m
  <2>1. /\ IsTask(i + p, c) /\ tasks'[i].m = tasks[i + p].m
        /\ IsDelivery(j + q, c) /\ fromServer'[j].m = fromServer[j + q].m
    BY <1>8 DEF Shifted
  <2>2. tasks[i + p].m < fromServer[j + q].m
    BY <2>1 DEF Line, TasksAhead
  <2>. QED BY <2>1, <2>2
<1>3. ASSUME NEW i, NEW j, IsTask(i, c)', IsTask(j, c)', i < j PROVE tasks'[i].m < tasks'[j].m
  <2>1. i + p < j + p
    BY <1>3 DEF Shifted
  <2>. QED BY <1>3, <2>1 DEF Line, TasksSorted, Shifted
<1>4. ASSUME NEW i, NEW j, IsDelivery(i, c)', IsDelivery(j, c)', i < j
      PROVE  fromServer'[i].m < fromServer'[j].m
  <2>1. i + q < j + q
    BY <1>4 DEF Shifted
  <2>. QED BY <1>4, <2>1 DEF Line, DeliveriesSorted, Shifted
<1>5. ASSUME NEW m \in (Len(taken'[c]) + 1)..sent'[c]
      PROVE  \/ \E i : IsTask(i, c)' /\ tasks'[i].m = m
             \/ \E i : IsDelivery(i, c)' /\ fromServer'[i].m = m
  BY DEF Line, Shifted, NoGap
<1>. QED BY <1>1, <1>3, <1>4, <1>5, <1>6, <1>7, <1>8
    DEF Line, TasksBetween, DeliveriesBetween, TasksSorted, DeliveriesSorted, TasksAhead, NoGap

LEMMA SameTasks ==
    ASSUME TypeOK, NEW c, UNCHANGED tasks
    PROVE  /\ \A i : IsTask(i, c)' => /\ i \in Int /\ IsTask(i + 0, c)
                                      /\ tasks'[i].m = tasks[i + 0].m
           /\ \A i : IsTask(i, c) => /\ i \in Int /\ IsTask(i - 0, c)'
                                     /\ tasks'[i - 0].m = tasks[i].m
<1>1. \A i \in DOMAIN tasks : i \in Int /\ i + 0 = i /\ i - 0 = i
  <2>1. tasks \in Seq(Task)
    BY DEF TypeOK
  <2>. QED BY <2>1
<1>. QED BY <1>1 DEF IsTask

LEMMA SameDeliveries ==
    ASSUME TypeOK, NEW c, \A i : IsDelivery(i, c)' <=> IsDelivery(i, c),
           \A i : IsDelivery(i, c) => fromServer'[i] = fromServer[i]
    PROVE  /\ \A i : IsDelivery(i, c)' => /\ i \in Int /\ IsDelivery(i + 0, c)
                                          /\ fromServer'[i].m = fromServer[i + 0].m
           /\ \A i : IsDelivery(i, c) => /\ i \in Int /\ IsDelivery(i - 0, c)'
                                         /\ fromServer'[i - 0].m = fromServer[i].m
<1>1. \A i : IsDelivery(i, c) => i \in Int /\ i + 0 = i /\ i - 0 = i
  <2>1. fromServer \in Seq(Message)
    BY DEF TypeOK
  <2>. QED BY <2>1 DEF IsDelivery
<1>. QED BY <1>1

\* Nothing happens to the tasks and deliveries.
LEMMA LineKept ==
    ASSUME TypeOK, NEW c \in Chan, Line(c), UNCHANGED <<tasks, fromServer>>,
           sent'[c] = sent[c], taken'[c] = taken[c]
    PROVE  Line(c)'
  BY DEF Line, TakenFirst, TasksBetween, DeliveriesBetween, TasksSorted, DeliveriesSorted,
         TasksAhead, NoGap,
         IsTask, IsDelivery

LEMMA Sizes ==
    ASSUME TypeOK, NEW c \in Chan
    PROVE  taken[c] \in Seq(1..MaxMsg) /\ Len(taken[c]) \in Nat /\ sent[c] \in Nat
<1>1. taken[c] \in Seq(1..MaxMsg) /\ sent[c] \in 0..MaxMsg
  BY DEF TypeOK
<1>. QED BY <1>1, LenProperties, ClientAssumption

\* The first delivery becomes the last task.
Moves(c) ==
    /\ fromServer # <<>> /\ Head(fromServer) \in Delivery /\ Head(fromServer).ch = c
    /\ fromServer' = Tail(fromServer)
    /\ tasks' = Append(tasks, [ch |-> c, m |-> Head(fromServer).m])

LEMMA LineMoves ==
    ASSUME TypeOK, NEW c \in Chan, Line(c), Moves(c), sent' = sent, taken' = taken
    PROVE  Line(c)'
<1>. DEFINE h == Head(fromServer)
            n == Len(tasks) + 1
<1>1. tasks \in Seq(Task) /\ fromServer \in Seq(Message) /\ [ch |-> c, m |-> h.m] \in Task
  BY DEF TypeOK, Task, Delivery, Moves
<1>2. /\ 1 \in DOMAIN fromServer /\ h = fromServer[1] /\ IsDelivery(1, c) /\ h.m \in 1..MaxMsg
      /\ \A k \in DOMAIN fromServer' : /\ k + 1 \in DOMAIN fromServer /\ k \in Nat /\ 1 < k + 1
                                       /\ fromServer'[k] = fromServer[k + 1]
  BY <1>1, Tails DEF IsDelivery, Delivery, Moves
<1>3. \A i : IsDelivery(i, c)' => /\ i \in Nat /\ 1 < i + 1 /\ IsDelivery(i + 1, c)
                                  /\ fromServer'[i].m = fromServer[i + 1].m
  BY <1>2 DEF IsDelivery
<1>4. \A i : IsDelivery(i, c) /\ i # 1 => /\ i \in Nat /\ IsDelivery(i - 1, c)'
                                          /\ fromServer'[i - 1].m = fromServer[i].m
  BY <1>1, <1>2, HeadTailProperties DEF IsDelivery, Moves
<1>5. /\ n \in Nat /\ \A i \in DOMAIN tasks : i \in Nat /\ i < n
      /\ \A i : IsTask(i, c)' <=> IsTask(i, c) \/ i = n
      /\ \A i : IsTask(i, c) => tasks'[i].m = tasks[i].m /\ i < n /\ i \in Nat
      /\ tasks'[n].m = h.m
  <2>1. n \in Nat /\ DOMAIN tasks = 1..Len(tasks) /\ Len(tasks) \in Nat
    BY <1>1, LenProperties
  <2>2. \A i \in DOMAIN tasks : i \in Nat /\ i < n
    BY <2>1
  <2>. QED BY <1>1, <2>1, <2>2, Appends DEF IsTask, Moves
<1>. HIDE DEF h, n
<1>6. ASSUME NEW i, IsTask(i, c)'
      PROVE  Len(taken[c]) < tasks'[i].m /\ tasks'[i].m <= sent[c]
  BY <1>2, <1>5, <1>6 DEF Line, TasksBetween, DeliveriesBetween
<1>7. ASSUME NEW i, NEW j, IsTask(i, c)', IsTask(j, c)', i < j PROVE tasks'[i].m < tasks'[j].m
  <2>1. IsTask(i, c)
    BY <1>5, <1>7
  <2>2. CASE IsTask(j, c)
    BY <1>5, <1>7, <2>1, <2>2 DEF Line, TasksSorted
  <2>3. CASE j = n
    BY <1>2, <1>5, <2>1, <2>3 DEF Line, TasksAhead
  <2>. QED BY <1>5, <1>7, <2>2, <2>3
<1>8. ASSUME NEW i, NEW j, IsDelivery(i, c)', IsDelivery(j, c)', i < j
      PROVE  fromServer'[i].m < fromServer'[j].m
  <2>1. i + 1 < j + 1
    BY <1>3, <1>8
  <2>. QED BY <1>3, <1>8, <2>1 DEF Line, DeliveriesSorted
<1>9. ASSUME NEW i, NEW j, IsTask(i, c)', IsDelivery(j, c)' PROVE tasks'[i].m < fromServer'[j].m
  <2>1. CASE IsTask(i, c)
    <3>1. /\ IsDelivery(j + 1, c) /\ fromServer'[j].m = fromServer[j + 1].m
          /\ tasks'[i].m = tasks[i].m
      BY <1>3, <1>5, <1>9, <2>1
    <3>2. tasks[i].m < fromServer[j + 1].m
      BY <2>1, <3>1 DEF Line, TasksAhead
    <3>. QED BY <3>1, <3>2
  <2>2. CASE i = n
    BY <1>2, <1>3, <1>5, <1>9, <2>2 DEF Line, DeliveriesSorted
  <2>. QED BY <1>5, <1>9, <2>1, <2>2
<1>10. ASSUME NEW m \in (Len(taken[c]) + 1)..sent[c]
       PROVE  \/ \E i : IsTask(i, c)' /\ tasks'[i].m = m
              \/ \E i : IsDelivery(i, c)' /\ fromServer'[i].m = m
  <2>1. CASE \E i : IsTask(i, c) /\ tasks[i].m = m
    BY <1>5, <2>1
  <2>2. ASSUME NEW i, IsDelivery(i, c), fromServer[i].m = m PROVE <1>10!2
    BY <1>2, <1>4, <1>5, <2>2
  <2>. QED BY <2>1, <2>2 DEF Line, NoGap
<1>11. ASSUME NEW i, IsDelivery(i, c)'
       PROVE  Len(taken[c]) < fromServer'[i].m /\ fromServer'[i].m <= sent[c]
  BY <1>3, <1>11 DEF Line, DeliveriesBetween
<1>12. (\A k \in DOMAIN taken[c] : taken[c][k] = k) /\ Len(taken[c]) <= sent[c]
  BY DEF Line, TakenFirst
<1>. QED BY <1>6, <1>7, <1>8, <1>9, <1>10, <1>11, <1>12
  DEF Line, TakenFirst, TasksBetween, DeliveriesBetween, TasksSorted, DeliveriesSorted,
         TasksAhead, NoGap

\* The first task is taken.
Takes(c) ==
    /\ tasks # <<>> /\ Head(tasks).ch = c
    /\ taken'[c] = Append(taken[c], Head(tasks).m)
    /\ tasks' = Tail(tasks)

LEMMA LineTaken ==
    ASSUME TypeOK, NEW c \in Chan, Line(c), Takes(c), UNCHANGED <<sent, fromServer>>
    PROVE  Line(c)'
<1>. DEFINE h == Head(tasks)
            l == Len(taken[c])
<1>1. tasks \in Seq(Task) /\ taken[c] \in Seq(1..MaxMsg) /\ l \in Nat /\ sent[c] \in Nat
  BY Sizes DEF TypeOK
<1>2. /\ 1 \in DOMAIN tasks /\ h = tasks[1] /\ IsTask(1, c) /\ h \in Task
      /\ \A k \in DOMAIN tasks' : /\ k + 1 \in DOMAIN tasks /\ k \in Nat /\ 1 < k + 1
                                  /\ tasks'[k] = tasks[k + 1]
  BY <1>1, Tails DEF IsTask, Takes
<1>3. \A i : IsTask(i, c)' => /\ i \in Nat /\ 1 < i + 1 /\ IsTask(i + 1, c)
                              /\ tasks'[i].m = tasks[i + 1].m
  BY <1>2 DEF IsTask
<1>4. \A i : IsTask(i, c) /\ i # 1 => /\ i \in Nat /\ 1 < i /\ IsTask(i - 1, c)'
                                      /\ tasks'[i - 1].m = tasks[i].m
  BY <1>1, <1>2, HeadTailProperties DEF IsTask, Takes
<1>5. h.m \in Nat
  BY <1>2, ClientAssumption DEF Task
<1>6. \A i : IsDelivery(i, c)' <=> IsDelivery(i, c)
  BY DEF IsDelivery
<1>7. h.m = l + 1
  <2>1. l < h.m /\ h.m <= sent[c]
    BY <1>2 DEF Line, TasksBetween
  <2>2. l + 1 \in (l + 1)..sent[c]
    BY <1>1, <1>5, <2>1
  <2>3. CASE \E i : IsTask(i, c) /\ tasks[i].m = l + 1
    <3>1. PICK i : IsTask(i, c) /\ tasks[i].m = l + 1
      BY <2>3
    <3>2. i # 1 => h.m < l + 1
      BY <1>2, <1>4, <3>1 DEF Line, TasksSorted
    <3>. QED BY <1>1, <1>2, <1>5, <2>1, <3>1, <3>2
  <2>4. CASE \E i : IsDelivery(i, c) /\ fromServer[i].m = l + 1
    <3>1. h.m < l + 1
      BY <1>2, <2>4 DEF Line, TasksAhead
    <3>. QED BY <1>1, <1>5, <2>1, <3>1
  <2>. QED BY <2>2, <2>3, <2>4 DEF Line, NoGap
<1>8. /\ Len(taken'[c]) = l + 1 /\ l + 1 <= sent[c]
      /\ \A k \in DOMAIN taken'[c] : taken'[c][k] = k
  <2>1. h.m \in 1..MaxMsg
    BY <1>2 DEF Task
  <2>2. Len(taken'[c]) = l + 1 /\ DOMAIN taken[c] = 1..l
    BY <1>1, <2>1, AppendProperties DEF Takes
  <2>3. \A k \in DOMAIN taken'[c] : taken'[c][k] = k
    BY <1>1, <1>7, <2>1, <2>2, Appends DEF Line, TakenFirst, Takes
  <2>. QED BY <1>2, <1>7, <2>2, <2>3 DEF Line, TasksBetween
<1>. HIDE DEF h, l
<1>9. ASSUME NEW i, IsTask(i, c)'
      PROVE  l + 1 < tasks'[i].m /\ tasks'[i].m <= sent[c]
  BY <1>2, <1>3, <1>7, <1>9 DEF Line, TasksSorted, TasksBetween
<1>10. ASSUME NEW i, IsDelivery(i, c)
       PROVE  l + 1 < fromServer[i].m /\ fromServer[i].m <= sent[c]
  BY <1>2, <1>7, <1>10 DEF Line, TasksAhead, DeliveriesBetween
<1>11. ASSUME NEW i, NEW j, IsTask(i, c)', IsTask(j, c)', i < j PROVE tasks'[i].m < tasks'[j].m
  <2>1. i + 1 < j + 1
    BY <1>3, <1>11
  <2>. QED BY <1>3, <1>11, <2>1 DEF Line, TasksSorted
<1>12. ASSUME NEW i, NEW j, IsTask(i, c)', IsDelivery(j, c) PROVE tasks'[i].m < fromServer[j].m
  BY <1>3, <1>12 DEF Line, TasksAhead
<1>13. ASSUME NEW m \in (l + 2)..sent[c]
       PROVE  \/ \E i : IsTask(i, c)' /\ tasks'[i].m = m
              \/ \E i : IsDelivery(i, c) /\ fromServer[i].m = m
  <2>1. m \in (l + 1)..sent[c] /\ m # l + 1
    BY <1>1
  <2>2. ASSUME NEW i, IsTask(i, c), tasks[i].m = m PROVE <1>13!2
    BY <1>2, <1>4, <1>7, <2>1, <2>2
  <2>. QED BY <2>1, <2>2 DEF Line, NoGap, l
<1>14. \A i, j : IsDelivery(i, c) /\ IsDelivery(j, c) /\ i < j => fromServer[i].m < fromServer[j].m
  BY DEF Line, DeliveriesSorted
<1>15. (l + 1) + 1 = l + 2
  BY <1>1
<1>. QED BY <1>6, <1>8, <1>9, <1>10, <1>11, <1>12, <1>13, <1>14, <1>15
  DEF Line, TakenFirst, TasksBetween, DeliveriesBetween, TasksSorted, DeliveriesSorted,
         TasksAhead, NoGap

\* One more sets out.
Grows(c) ==
    /\ sent[c] + 1 <= MaxMsg
    /\ fromServer' = Append(fromServer, [is |-> "delivery", ch |-> c, m |-> sent[c] + 1])

LEMMA LineGrows ==
    ASSUME TypeOK, NEW c \in Chan, Line(c), Grows(c), sent'[c] = sent[c] + 1,
           UNCHANGED <<tasks, taken>>
    PROVE  Line(c)'
<1>. DEFINE d == [is |-> "delivery", ch |-> c, m |-> sent[c] + 1]
            n == Len(fromServer) + 1
<1>1. /\ fromServer \in Seq(Message) /\ sent[c] \in Nat /\ d.m = sent[c] + 1
      /\ tasks \in Seq(Task) /\ Len(taken[c]) \in Nat
  BY Sizes DEF TypeOK
<1>2. d \in Message
  <2>1. sent[c] + 1 \in 1..MaxMsg
    BY <1>1, ClientAssumption DEF Grows
  <2>. QED BY <2>1 DEF Message, Delivery
<1>3. /\ n \in Nat /\ \A i \in DOMAIN fromServer : i \in Nat /\ i < n
      /\ \A i : IsDelivery(i, c)' <=> IsDelivery(i, c) \/ i = n
      /\ \A i : IsDelivery(i, c) => fromServer'[i].m = fromServer[i].m /\ i < n /\ i \in Nat
      /\ fromServer'[n].m = sent[c] + 1
  <2>1. n \in Nat /\ DOMAIN fromServer = 1..Len(fromServer) /\ Len(fromServer) \in Nat
    BY <1>1, LenProperties
  <2>2. \A i \in DOMAIN fromServer : i \in Nat /\ i < n
    BY <2>1
  <2>3. /\ DOMAIN fromServer' = DOMAIN fromServer \cup {n} /\ n \notin DOMAIN fromServer
        /\ fromServer'[n] = d /\ \A i \in DOMAIN fromServer : fromServer'[i] = fromServer[i]
    BY <1>1, <1>2, Appends DEF Grows
  <2>. QED BY <1>1, <2>1, <2>2, <2>3 DEF IsDelivery
<1>4. \A i : IsTask(i, c)' <=> IsTask(i, c)
  BY DEF IsTask
<1>5. /\ \A i : IsTask(i, c) => tasks[i].m \in Nat
      /\ \A i : IsDelivery(i, c) => fromServer[i].m \in Nat
  <2>1. ASSUME NEW i, IsTask(i, c) PROVE tasks[i].m \in Nat
    <3>1. tasks[i] \in Task
      BY <1>1, <2>1 DEF IsTask
    <3>. QED BY <3>1, ClientAssumption DEF Task
  <2>2. ASSUME NEW i, IsDelivery(i, c) PROVE fromServer[i].m \in Nat
    <3>1. fromServer[i] \in Message
      BY <1>1, <2>2 DEF IsDelivery
    <3>2. fromServer[i] \in Delivery
      BY <2>2, <3>1 DEF Message, Response, IsDelivery
    <3>. QED BY <3>2, ClientAssumption DEF Delivery
  <2>. QED BY <2>1, <2>2
<1>. HIDE DEF d, n
<1>6. ASSUME NEW i, IsTask(i, c)
      PROVE  Len(taken[c]) < tasks[i].m /\ tasks[i].m <= sent[c] + 1
  BY <1>1, <1>5, <1>6 DEF Line, TasksBetween
<1>7. ASSUME NEW i, IsDelivery(i, c)'
      PROVE  Len(taken[c]) < fromServer'[i].m /\ fromServer'[i].m <= sent[c] + 1
  <2>1. CASE IsDelivery(i, c)
    <3>1. Len(taken[c]) < fromServer[i].m /\ fromServer[i].m <= sent[c]
      BY <2>1 DEF Line, DeliveriesBetween
    <3>. QED BY <1>1, <1>3, <1>5, <2>1, <3>1
  <2>2. CASE i = n
    <3>1. Len(taken[c]) <= sent[c]
      BY DEF Line, TakenFirst
    <3>. QED BY <1>1, <1>3, <2>2, <3>1
  <2>. QED BY <1>3, <1>7, <2>1, <2>2
<1>8. ASSUME NEW i, NEW j, IsDelivery(i, c)', IsDelivery(j, c)', i < j
      PROVE  fromServer'[i].m < fromServer'[j].m
  <2>1. IsDelivery(i, c)
    BY <1>3, <1>8
  <2>2. CASE IsDelivery(j, c)
    <3>1. fromServer[i].m < fromServer[j].m
      BY <1>8, <2>1, <2>2 DEF Line, DeliveriesSorted
    <3>. QED BY <1>3, <2>1, <2>2, <3>1
  <2>3. CASE j = n
    <3>1. fromServer[i].m <= sent[c]
      BY <2>1 DEF Line, DeliveriesBetween
    <3>. QED BY <1>1, <1>3, <1>5, <2>1, <2>3, <3>1
  <2>. QED BY <1>3, <1>8, <2>2, <2>3
<1>9. ASSUME NEW i, NEW j, IsTask(i, c), IsDelivery(j, c)' PROVE tasks[i].m < fromServer'[j].m
  <2>1. CASE IsDelivery(j, c)
    <3>1. tasks[i].m < fromServer[j].m
      BY <1>9, <2>1 DEF Line, TasksAhead
    <3>. QED BY <1>3, <2>1, <3>1
  <2>2. CASE j = n
    <3>1. tasks[i].m <= sent[c]
      BY <1>9 DEF Line, TasksBetween
    <3>. QED BY <1>1, <1>3, <1>5, <1>9, <2>2, <3>1
  <2>. QED BY <1>3, <1>9, <2>1, <2>2
<1>10. ASSUME NEW m \in (Len(taken[c]) + 1)..(sent[c] + 1)
       PROVE  \/ \E i : IsTask(i, c) /\ tasks[i].m = m
              \/ \E i : IsDelivery(i, c)' /\ fromServer'[i].m = m
  <2>1. CASE m = sent[c] + 1
    BY <1>3, <2>1
  <2>2. CASE m # sent[c] + 1
    <3>1. m \in (Len(taken[c]) + 1)..sent[c]
      BY <1>1, <2>2
    <3>. QED BY <1>3, <3>1 DEF Line, NoGap
  <2>. QED BY <2>1, <2>2
<1>11. \A i, j : IsTask(i, c) /\ IsTask(j, c) /\ i < j => tasks[i].m < tasks[j].m
  BY DEF Line, TasksSorted
<1>12. (\A k \in DOMAIN taken[c] : taken[c][k] = k) /\ Len(taken[c]) <= sent[c] + 1
  BY <1>1 DEF Line, TakenFirst
<1>. QED BY <1>4, <1>6, <1>7, <1>8, <1>9, <1>10, <1>11, <1>12
  DEF Line, TakenFirst, TasksBetween, DeliveriesBetween, TasksSorted, DeliveriesSorted,
         TasksAhead, NoGap

-----------------------------------------------------------------------------
(* Every step keeps the lines.                                               *)

\* A channel is opened, and there is nothing to it.
LEMMA LineOfNone == ASSUME NEW c \in Chan, Untouched(c) PROVE Line(c)
<1>1. sent[c] = 0 /\ taken[c] = <<>> /\ Len(taken[c]) = 0 /\ DOMAIN taken[c] = {}
  BY DEF Untouched
<1>2. (\A i : ~IsTask(i, c)) /\ (\A i : ~IsDelivery(i, c))
  BY DEF Untouched, IsTask, IsDelivery
<1>. QED BY <1>1, <1>2
  DEF Line, TakenFirst, TasksBetween, DeliveriesBetween, TasksSorted, DeliveriesSorted,
      TasksAhead, NoGap

\* Steps that do not touch tasks and deliveries.
LEMMA LinesAside ==
    ASSUME TypeOK, New, Lines, UNCHANGED <<tasks, fromServer, sent, taken>>,
           conn' = "up" => \/ conn = "up"
                           \/ conn = "latched" /\ UNCHANGED chan,
           \A c \in Chan : chan'[c] = "managed" => chan[c] \in {"new", "managed"}
    PROVE  Lines'
<1>. SUFFICES ASSUME conn' = "up", NEW c \in Managed' PROVE Line(c)'
  BY DEF Lines
<1>1. c \in Chan /\ chan'[c] = "managed"
  BY DEF Managed
<1>2. conn = "up"
  BY <1>1 DEF New, Managed
<1>3. Line(c)
  BY <1>1, <1>2, LineOfNone DEF New, Lines, Managed
<1>. QED BY <1>1, <1>3, LineKept

LEMMA LinesWhenReceived ==
    ASSUME IInv, Lines, BasicResponse \/ ConsumeResponse
    PROVE  Lines'
<1>. DEFINE h == Head(fromServer)
<1>1. /\ TypeOK /\ fromServer \in Seq(Message) /\ fromServer # <<>> /\ fromServer' = Tail(fromServer)
      /\ UNCHANGED <<conn, chan, sent, taken>> /\ h \in Message
  BY Received DEF IInv, TypeOK, BasicResponse, ConsumeResponse, history
<1>. SUFFICES ASSUME conn = "up", NEW c \in Managed PROVE Line(c)'
  BY <1>1 DEF Lines, Managed
<1>2. Line(c) /\ c \in Chan
  BY DEF Lines, Managed
<1>3. CASE h.is = "delivery" /\ h.ch = c
  <2>1. tasks' = Append(tasks, [ch |-> c, m |-> h.m])
    BY <1>3 DEF BasicResponse, ConsumeResponse
  <2>2. Moves(c)
    BY <1>1, <1>3, <2>1, Received DEF Moves
  <2>. QED BY <1>1, <1>2, <2>2, LineMoves
<1>4. CASE ~(h.is = "delivery" /\ h.ch = c)
  <2>1. /\ 1 \in DOMAIN fromServer /\ h = fromServer[1]
        /\ \A k \in DOMAIN fromServer' : k + 1 \in DOMAIN fromServer /\ k \in Nat
                                         /\ fromServer'[k] = fromServer[k + 1]
        /\ \A k \in DOMAIN fromServer : k # 1 => /\ k \in Int /\ k - 1 \in DOMAIN fromServer'
                                                 /\ fromServer'[k - 1] = fromServer[k]
    BY <1>1, Tails, HeadTailProperties
  <2>2. ASSUME NEW i, IsDelivery(i, c)'
        PROVE  /\ i \in Int /\ IsDelivery(i + 1, c)
               /\ fromServer'[i].m = fromServer[i + 1].m
    BY <2>1, <2>2 DEF IsDelivery
  <2>5. ASSUME NEW i, IsDelivery(i, c)
        PROVE  /\ i \in Int /\ IsDelivery(i - 1, c)'
               /\ fromServer'[i - 1].m = fromServer[i].m
    <3>1. i # 1 /\ i \in DOMAIN fromServer
      BY <1>4, <2>1, <2>5 DEF IsDelivery
    <3>2. i \in Int /\ i - 1 \in DOMAIN fromServer' /\ fromServer'[i - 1] = fromServer[i]
      BY <2>1, <3>1
    <3>. QED BY <2>5, <3>2 DEF IsDelivery
  <2>3. /\ \A i : IsTask(i, c)' <=> IsTask(i, c)
        /\ \A i : IsTask(i, c) => tasks'[i] = tasks[i] /\ i \in Int /\ i + 0 = i /\ i - 0 = i
    <3>1. \A i \in DOMAIN tasks : i \in Int /\ i + 0 = i /\ i - 0 = i
      <4>1. tasks \in Seq(Task)
        BY <1>1 DEF TypeOK
      <4>. QED BY <4>1
    <3>2. CASE tasks' = tasks
      BY <3>1, <3>2 DEF IsTask
    <3>3. ASSUME h.is = "delivery", tasks' = Append(tasks, [ch |-> h.ch, m |-> h.m]) PROVE <2>3
      <4>1. [ch |-> h.ch, m |-> h.m] \in Task /\ tasks \in Seq(Task)
        BY <1>1, <3>3, Received DEF TypeOK, Task, Delivery, IInv
      <4>2. h.ch # c
        BY <1>4, <3>3
      <4>. QED BY <3>1, <3>3, <4>1, <4>2, Appends DEF IsTask
    <3>. QED BY <3>2, <3>3 DEF BasicResponse, ConsumeResponse
  <2>4. Shifted(c, 0, 1)
    BY <2>2, <2>3, <2>5 DEF Shifted
  <2>. QED BY <1>1, <1>2, <2>4, LineShifted
<1>. QED BY <1>3, <1>4

LEMMA LinesWhenTaken ==
    ASSUME IInv, Lines, NEW w \in Worker, Take(w)
    PROVE  Lines'
<1>. DEFINE h == Head(tasks)
<1>1. /\ TypeOK /\ tasks \in Seq(Task) /\ tasks # <<>> /\ tasks' = Tail(tasks)
      /\ UNCHANGED <<conn, chan, sent, fromServer>>
      /\ taken' = [taken EXCEPT ![h.ch] = Append(@, h.m)]
  BY DEF IInv, TypeOK, Take, server
<1>. SUFFICES ASSUME conn = "up", NEW c \in Managed PROVE Line(c)'
  BY <1>1 DEF Lines, Managed
<1>2. Line(c) /\ c \in Chan
  BY DEF Lines, Managed
<1>3. CASE h.ch = c
  <2>1. taken'[c] = Append(taken[c], h.m)
    BY <1>1, <1>2, <1>3 DEF TypeOK
  <2>2. Takes(c)
    BY <1>1, <1>3, <2>1 DEF Takes
  <2>. QED BY <1>1, <1>2, <2>2, LineTaken
<1>4. CASE h.ch # c
  <2>1. /\ 1 \in DOMAIN tasks /\ h = tasks[1]
        /\ \A k \in DOMAIN tasks' : k + 1 \in DOMAIN tasks /\ k \in Nat
                                    /\ tasks'[k] = tasks[k + 1]
        /\ \A k \in DOMAIN tasks : k # 1 => /\ k \in Int /\ k - 1 \in DOMAIN tasks'
                                            /\ tasks'[k - 1] = tasks[k]
    BY <1>1, Tails, HeadTailProperties
  <2>2. /\ \A i : IsTask(i, c)' => /\ i \in Int /\ IsTask(i + 1, c)
                                   /\ tasks'[i].m = tasks[i + 1].m
        /\ \A i : IsTask(i, c) => /\ i \in Int /\ IsTask(i - 1, c)'
                                  /\ tasks'[i - 1].m = tasks[i].m
    BY <1>4, <2>1 DEF IsTask
  <2>3. /\ \A i : IsDelivery(i, c)' <=> IsDelivery(i, c)
        /\ \A i : IsDelivery(i, c) => fromServer'[i] = fromServer[i]
    BY <1>1 DEF IsDelivery
  <2>4. Shifted(c, 1, 0)
    BY <1>1, <2>2, <2>3, SameDeliveries DEF Shifted
  <2>5. taken'[c] = taken[c]
    BY <1>1, <1>2, <1>4 DEF TypeOK
  <2>. QED BY <1>1, <1>2, <2>4, <2>5, LineShifted
<1>. QED BY <1>3, <1>4

LEMMA LinesByServer ==
    ASSUME IInv, Lines, Respond \/ Deliver
    PROVE  Lines'
<1>1. TypeOK /\ fromServer \in Seq(Message) /\ UNCHANGED <<conn, chan, tasks, taken>>
  BY DEF IInv, TypeOK, Respond, Deliver, history
<1>. SUFFICES ASSUME conn = "up", NEW c \in Managed PROVE Line(c)'
  BY <1>1 DEF Lines, Managed
<1>2. Line(c) /\ c \in Chan
  BY DEF Lines, Managed
\* What is sent is not for c.
<1>3. ASSUME NEW d \in Message, fromServer' = Append(fromServer, d), sent'[c] = sent[c],
             ~(d.is = "delivery" /\ d.ch = c)
      PROVE  Line(c)'
  <2>1. /\ \A i : IsDelivery(i, c)' <=> IsDelivery(i, c)
        /\ \A i : IsDelivery(i, c) => fromServer'[i] = fromServer[i]
    BY <1>1, <1>3, Appends DEF IsDelivery
  <2>2. Shifted(c, 0, 0)
    BY <1>1, <2>1, SameDeliveries, SameTasks DEF Shifted
  <2>. QED BY <1>1, <1>2, <1>3, <2>2, LineShifted
<1>4. CASE Respond
  <2>1. PICK ok \in BOOLEAN : fromServer' = Append(fromServer,
            [is |-> "response", ch |-> Head(toServer).ch, t |-> Head(toServer).t,
             op |-> Head(toServer).op, ok |-> ok])
    BY <1>4 DEF Respond
  <2>2. Head(toServer) \in Request
    <3>1. toServer \in Seq(Request) /\ toServer # <<>>
      BY <1>1, <1>4 DEF TypeOK, Respond
    <3>. QED BY <3>1, Tails
  <2>. DEFINE r == [is |-> "response", ch |-> Head(toServer).ch, t |-> Head(toServer).t,
                    op |-> Head(toServer).op, ok |-> ok]
  <2>3. r \in Message /\ r.is # "delivery" /\ fromServer' = Append(fromServer, r)
    BY <2>1, <2>2 DEF Message, Response, Request
  <2>4. sent'[c] = sent[c]
    BY <1>4 DEF Respond, history
  <2>. HIDE DEF r
  <2>. QED BY <1>3, <2>3, <2>4
<1>5. CASE Deliver
  <2>. DEFINE d == [is |-> "delivery", ch |-> chosen, m |-> sent[chosen] + 1]
  <2>1. chosen \in Chan /\ sent[chosen] < MaxMsg /\ sent[chosen] \in 0..MaxMsg
    BY <1>5 DEF Deliver, IInv, TypeOK, ChosenInBounds
  <2>2. d \in Message
    <3>1. sent[chosen] + 1 \in 1..MaxMsg
      BY <2>1, ClientAssumption
    <3>. QED BY <2>1, <3>1 DEF Message, Delivery
  <2>3. fromServer' = Append(fromServer, d) /\ sent' = [sent EXCEPT ![chosen] = @ + 1]
    BY <1>5 DEF Deliver
  <2>4. CASE chosen = c
    <3>1. sent'[c] = sent[c] + 1
      BY <1>1, <1>2, <2>3, <2>4 DEF TypeOK
    <3>2. Grows(c)
      BY <2>1, <2>3, <2>4, ClientAssumption DEF Grows
    <3>. QED BY <1>1, <1>2, <3>1, <3>2, LineGrows
  <2>5. CASE chosen # c
    <3>1. sent'[c] = sent[c] /\ d.ch # c
      BY <1>1, <1>2, <2>3, <2>5 DEF TypeOK
    <3>. HIDE DEF d
    <3>. QED BY <1>3, <2>2, <2>3, <3>1
  <2>. QED BY <2>4, <2>5
<1>. QED BY <1>4, <1>5

LEMMA LinesNext == IInv /\ New /\ Lines /\ [Next]_vars => Lines'
<1>. SUFFICES ASSUME IInv, New, Lines, [Next]_vars PROVE Lines'
  OBVIOUS
<1>1. TypeOK
  BY DEF IInv
<1>2. CASE UNCHANGED vars
  BY <1>1, <1>2, LinesAside DEF vars, server, history
<1>3. CASE Application
  <2>1. ASSUME NEW c \in Chan, OpenChannel(c) PROVE Lines'
    <3>1. \A d \in Chan : chan'[d] = "managed" => chan[d] \in {"new", "managed"}
      BY <1>1, <2>1 DEF OpenChannel, TypeOK
    <3>. QED BY <1>1, <2>1, <3>1, LinesAside DEF OpenChannel, history
  <2>2. ASSUME NEW c \in Chan,
               \/ OpenOnNull(c) \/ Call(c) \/ BasicCancel(c) \/ CloseChannel(c) \/ LetGo(c)
               \/ \E autoAck \in BOOLEAN : BasicConsume(c, autoAck)
        PROVE  UNCHANGED <<conn, chan, tasks, fromServer, sent, taken>>
    BY <2>2 DEF OpenOnNull, Call, BasicCancel, CloseChannel, LetGo, BasicConsume, server, history
  <2>3. UNCHANGED <<conn, chan, tasks, fromServer, sent, taken>> => Lines'
    BY <1>1, LinesAside
  <2>. QED BY <1>3, <2>1, <2>2, <2>3 DEF Application
<1>4. CASE MainWaiting \/ (\E t \in Thread : Waiting(t)) \/ CountDown \/ SetConnection \/ NullCodec
           \/ Notify \/ HandlerEnds
  <2>1. UNCHANGED <<tasks, fromServer, sent, taken>>
    BY <1>4 DEF MainWaiting, Waiting, Sleep, CancelReturns, Destroy, OpenReturns, CallReturns,
                ConsumeReturns, CloseReturns, CountDown, SetConnection, NullCodec, Notify,
                HandlerEnds, server, history
  <2>2. conn' = "up" => conn = "up" \/ (conn = "latched" /\ UNCHANGED chan)
    BY <1>4 DEF MainWaiting, Waiting, Sleep, CancelReturns, Destroy, OpenReturns, CallReturns,
                ConsumeReturns, CloseReturns, CountDown, SetConnection, NullCodec, Notify,
                HandlerEnds
  <2>3. UNCHANGED chan \/ chan' = [chan EXCEPT ![act[Main].ch] = "removed"]
    BY <1>4 DEF MainWaiting, Waiting, Sleep, CancelReturns, Destroy, OpenReturns, CallReturns,
                ConsumeReturns, CloseReturns, CountDown, SetConnection, NullCodec, Notify,
                HandlerEnds
  <2>4. \A c \in Chan : chan'[c] = "managed" => chan[c] \in {"new", "managed"}
    BY <1>1, <2>3 DEF TypeOK
  <2>. QED BY <1>1, <2>1, <2>2, <2>4, LinesAside
<1>5. CASE BasicResponse \/ ConsumeResponse
  BY <1>5, LinesWhenReceived
<1>6. CASE Disconnect
  BY <1>6 DEF Disconnect, Lines
<1>7. ASSUME NEW w \in Worker, Work(w) PROVE Lines'
  <2>1. CASE Take(w)
    BY <2>1, LinesWhenTaken
  <2>2. CASE Park(w) \/ ConsumeMisses(w) \/ ConsumeAuto(w) \/ BasicAck(w) \/ AckReturns(w)
    <3>1. UNCHANGED <<conn, chan, tasks, fromServer, sent, taken>>
      BY <2>2 DEF Park, ConsumeMisses, ConsumeAuto, BasicAck, AckReturns, server, history
    <3>. QED BY <1>1, <3>1, LinesAside
  <2>3. w \in Thread
    BY DEF Thread
  <2>. QED BY <1>4, <1>7, <2>1, <2>2, <2>3 DEF Work
<1>8. CASE Respond \/ Deliver
  BY <1>8, LinesByServer
<1>9. CASE Register \/ \E c \in Chan : ChooseConsumer(c)
  <2>1. UNCHANGED <<conn, chan, tasks, fromServer, sent, taken>>
    BY <1>9 DEF Register, ChooseConsumer, history
  <2>. QED BY <1>1, <2>1, LinesAside
<1>10. IO \in Thread
  BY DEF Thread
<1>. QED BY <1>2, <1>3, <1>4, <1>5, <1>6, <1>7, <1>8, <1>9, <1>10 DEF Next, Loop

\* In line, each delivery is in its place.
LEMMA InLine ==
    ASSUME TypeOK, NEW c \in Chan, Line(c)
    PROVE  LET line == tasks \o fromServer
               mine == {i \in DOMAIN line :
                           line[i].ch = c /\ (i > Len(tasks) => line[i].is = "delivery")}
           IN  /\ \A k \in DOMAIN taken[c] : taken[c][k] = k
               /\ {line[i].m : i \in mine} = (Len(taken[c]) + 1)..sent[c]
               /\ \A i, j \in mine : i < j => line[i].m < line[j].m
<1>. DEFINE line == tasks \o fromServer
            n == Len(tasks)
            mine == {i \in DOMAIN line : line[i].ch = c /\ (i > n => line[i].is = "delivery")}
<1>1. /\ tasks \in Seq(Task) /\ fromServer \in Seq(Message) /\ n \in Nat
      /\ DOMAIN tasks = 1..n /\ DOMAIN fromServer = 1..Len(fromServer) /\ Len(fromServer) \in Nat
      /\ Len(taken[c]) \in Nat /\ sent[c] \in Nat
  BY Sizes, LenProperties DEF TypeOK
<1>2. /\ DOMAIN line = 1..(n + Len(fromServer))
      /\ \A i \in 1..(n + Len(fromServer)) :
            line[i] = IF i <= n THEN tasks[i] ELSE fromServer[i - n]
  <2>1. tasks \in Seq(Task \cup Message) /\ fromServer \in Seq(Task \cup Message)
    BY <1>1
  <2>. QED BY <1>1, <2>1, ConcatProperties
<1>3. \A i \in mine : \/ i \in Int /\ i <= n /\ IsTask(i, c) /\ line[i] = tasks[i]
                      \/ i \in Int /\ i > n /\ IsDelivery(i - n, c) /\ line[i] = fromServer[i - n]
  BY <1>1, <1>2 DEF IsTask, IsDelivery
<1>4. \A i : IsTask(i, c) => i \in mine /\ line[i] = tasks[i]
  BY <1>1, <1>2 DEF IsTask
<1>5. \A i : IsDelivery(i, c) => i + n \in mine /\ line[i + n] = fromServer[i]
  BY <1>1, <1>2 DEF IsDelivery
<1>6. /\ \A i : IsTask(i, c) => tasks[i].m \in Int
      /\ \A i : IsDelivery(i, c) => fromServer[i].m \in Int
  <2>1. ASSUME NEW i, IsTask(i, c) PROVE tasks[i].m \in Int
    <3>1. tasks[i] \in Task
      BY <1>1, <2>1 DEF IsTask
    <3>. QED BY <3>1 DEF Task
  <2>2. ASSUME NEW i, IsDelivery(i, c) PROVE fromServer[i].m \in Int
    <3>1. fromServer[i] \in Message
      BY <1>1, <2>2 DEF IsDelivery
    <3>2. fromServer[i] \in Delivery
      BY <2>2, <3>1 DEF Message, Response, IsDelivery
    <3>. QED BY <3>2 DEF Delivery
  <2>. QED BY <2>1, <2>2
<1>. HIDE DEF line, n, mine
<1>7. ASSUME NEW i \in mine PROVE line[i].m \in (Len(taken[c]) + 1)..sent[c]
  <2>1. CASE IsTask(i, c) /\ line[i] = tasks[i]
    <3>1. Len(taken[c]) < tasks[i].m /\ tasks[i].m <= sent[c]
      BY <2>1 DEF Line, TasksBetween
    <3>. QED BY <1>1, <1>6, <2>1, <3>1
  <2>2. CASE IsDelivery(i - n, c) /\ line[i] = fromServer[i - n]
    <3>1. Len(taken[c]) < fromServer[i - n].m /\ fromServer[i - n].m <= sent[c]
      BY <2>2 DEF Line, DeliveriesBetween
    <3>. QED BY <1>1, <1>6, <2>2, <3>1
  <2>. QED BY <1>3, <2>1, <2>2
<1>8. ASSUME NEW m \in (Len(taken[c]) + 1)..sent[c] PROVE \E i \in mine : line[i].m = m
  BY <1>4, <1>5 DEF Line, NoGap
<1>9. ASSUME NEW i \in mine, NEW j \in mine, i < j PROVE line[i].m < line[j].m
  <2>1. CASE j <= n
    <3>1. IsTask(i, c) /\ IsTask(j, c) /\ line[i] = tasks[i] /\ line[j] = tasks[j]
      BY <1>1, <1>3, <1>9, <2>1
    <3>. QED BY <1>9, <3>1 DEF Line, TasksSorted
  <2>2. CASE i <= n /\ j > n
    <3>1. IsTask(i, c) /\ IsDelivery(j - n, c) /\ line[i] = tasks[i] /\ line[j] = fromServer[j - n]
      BY <1>1, <1>3, <2>2
    <3>. QED BY <3>1 DEF Line, TasksAhead
  <2>3. CASE i > n
    <3>1. /\ IsDelivery(i - n, c) /\ IsDelivery(j - n, c) /\ i - n < j - n
          /\ line[i] = fromServer[i - n] /\ line[j] = fromServer[j - n]
      BY <1>1, <1>3, <1>9, <2>3
    <3>. QED BY <3>1 DEF Line, DeliveriesSorted
  <2>. QED BY <1>1, <1>3, <2>1, <2>2, <2>3
<1>10. {line[i].m : i \in mine} = (Len(taken[c]) + 1)..sent[c]
  BY <1>7, <1>8
<1>. QED BY <1>9, <1>10 DEF Line, TakenFirst, line, mine, n

\* The workers take the deliveries to a channel in the order of sending, each
\* once: no step, on either side, loses, doubles or passes one.
THEOREM TakenInOrder == Spec => []DeliveriesTakenInOrder
<1>1. IInv /\ Lines => DeliveriesTakenInOrder
  <2>. SUFFICES ASSUME IInv, Lines, conn = "up", NEW c \in Managed
                PROVE  DeliveriesTakenInOrder!(c)!2
    BY DEF DeliveriesTakenInOrder
  <2>. QED BY InLine DEF Lines, Managed, IInv
<1>. QED BY <1>1, InitInv, NextInv, NewInit, NewNext, LinesNext, PTL DEF Spec

-----------------------------------------------------------------------------
(* A delivery without a consumer is one that came while its channel waited   *)
(* for the answer to BasicConsume.                                           *)

Subscribing(c) == Calling(Main) /\ act[Main].op = "consume" /\ act[Main].ch = c

\* The server has a consumer of c, has chosen it, or has sent to it.
Runs(w, c) == act[w].at = "run" /\ act[w].ch = c
Reached(c) ==
    \/ c \in registered \/ chosen = c
    \/ (\E k : IsDelivery(k, c)) \/ (\E k : IsTask(k, c)) \/ \E u \in Worker : Runs(u, c)

\* A request to subscribe is on its way, or its refusal is.
Asking(c) ==
    c \notin registered /\ \E k \in DOMAIN toServer : toServer[k].op = "consume" /\ toServer[k].ch = c
Refused(c) ==
    \/ \E k : IsResponse(k) /\ fromServer[k].op = "consume" /\ ~fromServer[k].ok /\ fromServer[k].ch = c
    \/ \E r \in resps[c] : r.op = "consume" /\ ~r.ok

\* Only the application opens, calls, subscribes and closes; only channels with
\* a consumer are cancelled.
Role(a, t, cs) ==
    /\ a.at \in {"wait", "asleep"} /\ a.op \in {"open", "call", "consume", "close"} => t = Main
    /\ a.at \in {"wait", "asleep"} /\ a.op = "cancel" => a.ch \in cs
    /\ a.at = "destroy" => a.ch \in cs
Roles == \A t \in Thread : Role(act[t], t, consumer)

\* A channel without a consumer that is reached is waiting for the answer, and
\* it is neither refused nor still to be registered.
Expected == \A c \in Chan \ consumer : Reached(c) => Subscribing(c) /\ ~Asking(c) /\ ~Refused(c)

LEMMA ExpectedInit == Init => Roles /\ Expected
<1>. SUFFICES ASSUME Init PROVE Roles /\ Expected
  OBVIOUS
<1>1. DOMAIN tasks = {} /\ DOMAIN fromServer = {} /\ \A t \in Thread : act[t] = Idle
  BY DEF Init
<1>2. \A w \in Worker : w \in Thread
  BY DEF Thread
<1>. QED BY <1>1, <1>2, ClientAssumption
  DEF Init, Roles, Role, Expected, Reached, Runs, IsDelivery, IsTask, Idle

\* What a step may do to a channel that is reached.
LEMMA ExpectedKept ==
    ASSUME Expected, consumer \subseteq consumer',
           \A c \in Chan \ consumer : Reached(c)' => Reached(c),
           \A c \in Chan \ consumer' : Reached(c) =>
               /\ Subscribing(c) => Subscribing(c)'
               /\ Asking(c)' => Asking(c)
               /\ Refused(c)' => Refused(c) \/ Asking(c)
    PROVE  Expected'
<1>. SUFFICES ASSUME NEW c \in Chan \ consumer', Reached(c)'
              PROVE  Subscribing(c)' /\ ~Asking(c)' /\ ~Refused(c)'
  BY DEF Expected
<1>1. c \in Chan \ consumer /\ Reached(c)
  OBVIOUS
<1>2. Subscribing(c) /\ ~Asking(c) /\ ~Refused(c)
  BY <1>1 DEF Expected
<1>. QED BY <1>1, <1>2

\* The application does not wait for the answer to BasicConsume.
LEMMA ExpectedApart ==
    ASSUME Expected, consumer \subseteq consumer', \A c \in Chan : ~Subscribing(c),
           \A c \in Chan \ consumer : Reached(c)' => Reached(c)
    PROVE  Expected'
  BY DEF Expected

\* What must not happen for a channel to be reached.
LEMMA StaysUnreached ==
    ASSUME NEW c, UNCHANGED <<registered, chosen, tasks, fromServer>>,
           \A w \in Worker : Runs(w, c)' => Runs(w, c)
    PROVE  Reached(c)' => Reached(c)
  BY DEF Reached, IsDelivery, IsTask

LEMMA RolesKept ==
    ASSUME TypeOK, Roles, NEW t \in Thread, NEW a, act' = [act EXCEPT ![t] = a],
           consumer \subseteq consumer', Role(a, t, consumer)
    PROVE  Roles'
<1>. SUFFICES ASSUME NEW u \in Thread PROVE Role(act'[u], u, consumer')
  BY DEF Roles
<1>1. act'[u] = IF u = t THEN a ELSE act[u]
  BY DEF TypeOK
<1>. QED BY <1>1 DEF Roles, Role

LEMMA RolesSame == ASSUME Roles, UNCHANGED <<act, consumer>> PROVE Roles'
  BY DEF Roles

LEMMA RoleOfIdle == ASSUME NEW t, NEW cs PROVE Role(Idle, t, cs)
  BY DEF Role, Idle

LEMMA RoleOfRelease == ASSUME NEW t, NEW c PROVE Role(AfterRelease(t, c), t, consumer)
  BY DEF Role, AfterRelease, Idle

\* One thread goes on to a, which is no callback.
LEMMA OneRuns ==
    ASSUME TypeOK, NEW c, NEW t \in Thread, NEW a, act' = [act EXCEPT ![t] = a], a.at # "run"
    PROVE  \A w \in Worker : Runs(w, c)' => Runs(w, c)
<1>1. \A w \in Worker : w \in Thread
  BY DEF Thread
<1>. QED BY <1>1 DEF Runs, TypeOK

LEMMA ExpectedWhenCalled ==
    ASSUME IInv, Roles, Expected, NEW d \in Chan,
           \/ OpenChannel(d) \/ Call(d) \/ BasicCancel(d) \/ CloseChannel(d)
           \/ \E autoAck \in BOOLEAN : BasicConsume(d, autoAck)
           \/ OpenOnNull(d) \/ LetGo(d)
    PROVE  Roles' /\ Expected'
<1>1. TypeOK /\ Main \in Thread /\ act[Main] = Idle
  BY DEF IInv, Thread, OpenChannel, Call, BasicCancel, CloseChannel, BasicConsume, OpenOnNull,
         LetGo, Usable
<1>2. UNCHANGED <<registered, chosen, tasks, fromServer, consumer>>
  BY DEF OpenChannel, Call, BasicCancel, CloseChannel, BasicConsume, OpenOnNull, LetGo, server
<1>3. \/ UNCHANGED act
      \/ \E a : /\ act' = [act EXCEPT ![Main] = a] /\ a.at # "run"
                /\ Role(a, Main, consumer)
  <2>1. ASSUME NEW op \in Op, Send(Main, d, op), op = "cancel" => d \in consumer
        PROVE  <1>3!2
    <3>. DEFINE a == [at |-> "wait", op |-> op, ch |-> d]
    <3>1. act' = [act EXCEPT ![Main] = a] /\ a.at # "run" /\ Role(a, Main, consumer)
      BY <2>1 DEF Send, Role
    <3>. HIDE DEF a
    <3>. QED BY <3>1
  <2>2. CASE LetGo(d)
    <3>. DEFINE a == AfterRelease(Main, d)
    <3>1. act' = [act EXCEPT ![Main] = a] /\ a.at # "run" /\ Role(a, Main, consumer)
      BY <2>2, RoleOfRelease DEF LetGo, AfterRelease, Idle
    <3>. HIDE DEF a
    <3>. QED BY <3>1
  <2>3. {"open", "call", "consume", "cancel", "close"} \subseteq Op
    BY DEF Op
  <2>. QED BY <2>1, <2>2, <2>3 DEF OpenChannel, Call, BasicCancel, CloseChannel, BasicConsume, OpenOnNull
<1>4. \A c \in Chan : \A w \in Worker : Runs(w, c)' => Runs(w, c)
  BY <1>1, <1>3, OneRuns DEF Runs
<1>5. Roles'
  BY <1>1, <1>2, <1>3, RolesKept, RolesSame
<1>6. \A c \in Chan : ~Subscribing(c)
  BY <1>1 DEF Subscribing, Calling, Idle
<1>. QED BY <1>2, <1>4, <1>5, <1>6, StaysUnreached, ExpectedApart

LEMMA ExpectedWhenReturned ==
    ASSUME IInv, Tokens, Roles, Expected, OpenReturns \/ CallReturns \/ ConsumeReturns \/ CloseReturns
    PROVE  Roles' /\ Expected'
<1>1. /\ TypeOK /\ Main \in Thread /\ act' = [act EXCEPT ![Main] = Idle] /\ Idle.at # "run"
      /\ UNCHANGED <<registered, chosen, tasks, fromServer, toServer>> /\ consumer \subseteq consumer'
  BY DEF IInv, Thread, OpenReturns, CallReturns, CloseReturns, ConsumeReturns, server, Idle
<1>2. Roles'
  BY <1>1, RolesKept, RoleOfIdle
<1>3. \A c \in Chan : Reached(c)' => Reached(c)
  BY <1>1, OneRuns, StaysUnreached
<1>4. CASE act[Main].op # "consume"
  <2>1. \A c \in Chan : ~Subscribing(c)
    BY <1>4 DEF Subscribing
  <2>. QED BY <1>1, <1>2, <1>3, <2>1, ExpectedApart
<1>5. CASE ConsumeReturns
  <2>1. /\ act[Main].ch \in Chan /\ Calling(Main) /\ act[Main].op = "consume"
    BY <1>1, <1>5, WhatThreadsDo DEF ConsumeReturns, WaitResponse, Calling
  <2>2. ASSUME NEW c \in Chan \ consumer', Reached(c) PROVE FALSE
    <3>1. Subscribing(c) /\ ~Refused(c)
      BY <1>1, <2>2 DEF Expected
    <3>2. c = act[Main].ch /\ ~Ok(Main)
      BY <1>5, <2>2, <3>1 DEF Subscribing, ConsumeReturns
    <3>3. PICK r \in resps[c] : r.t = Main
      BY <1>5, <3>2 DEF ConsumeReturns, WaitResponse, Answers
    <3>4. ~r.ok /\ r.op = "consume"
      BY <2>1, <3>2, <3>3 DEF Ok, Answers, Tokens, AllAwaited, Awaited
    <3>. QED BY <3>1, <3>3, <3>4 DEF Refused
  <2>. QED BY <1>1, <1>2, <1>3, <2>2, ExpectedKept
<1>. QED BY <1>4, <1>5 DEF OpenReturns, CallReturns, CloseReturns, WaitResponse

LEMMA ExpectedWhenWaiting ==
    ASSUME IInv, Roles, Expected, NEW t \in Thread, Waiting(t)
    PROVE  Roles' /\ Expected'
<1>1. TypeOK /\ UNCHANGED <<registered, chosen, tasks, fromServer, consumer>>
  BY DEF IInv, Waiting, Sleep, CancelReturns, Destroy, server
<1>2. \E a : /\ act' = [act EXCEPT ![t] = a] /\ a.at # "run" /\ Role(a, t, consumer)
             /\ \A c \in Chan : t = Main /\ Subscribing(c) =>
                    a.at \in {"wait", "asleep"} /\ a.op = "consume" /\ a.ch = c
  <2>1. CASE Sleep(t)
    <3>1. Calling(t) /\ act' = [act EXCEPT ![t] = [act[t] EXCEPT !.at = "asleep"]]
      BY <2>1 DEF Sleep, Calling
    <3>. DEFINE a == [act[t] EXCEPT !.at = "asleep"]
    <3>2. a.at = "asleep" /\ a.ch = act[t].ch /\ a.op = act[t].op /\ act' = [act EXCEPT ![t] = a]
      BY <1>1, <3>1, Wakes
    <3>. HIDE DEF a
    <3>3. Role(a, t, consumer)
      <4>1. Role(act[t], t, consumer)
        BY DEF Roles
      <4>. QED BY <3>1, <3>2, <4>1 DEF Role, Calling
    <3>4. \A c \in Chan : t = Main /\ Subscribing(c) =>
              a.at \in {"wait", "asleep"} /\ a.op = "consume" /\ a.ch = c
      BY <3>2 DEF Subscribing
    <3>. QED BY <3>2, <3>3, <3>4
  <2>2. CASE CancelReturns(t)
    <3>1. act' = [act EXCEPT ![t] = Idle] /\ Idle.at # "run" /\ act[t].op # "consume"
      BY <2>2 DEF CancelReturns, WaitResponse, Idle
    <3>. QED BY <3>1, RoleOfIdle DEF Subscribing
  <2>3. CASE Destroy(t)
    <3>. DEFINE a == [at |-> "wait", op |-> "cancel", ch |-> act[t].ch]
    <3>1. /\ act' = [act EXCEPT ![t] = a] /\ a.at # "run" /\ Role(a, t, consumer)
          /\ ~Calling(t)
      BY <2>3 DEF Destroy, Send, Role, Roles, Calling
    <3>. HIDE DEF a
    <3>. QED BY <3>1 DEF Subscribing
  <2>. QED BY <2>1, <2>2, <2>3 DEF Waiting
<1>3. Roles'
  BY <1>1, <1>2, RolesKept
<1>4. \A c \in Chan : Reached(c)' => Reached(c)
  BY <1>1, <1>2, OneRuns, StaysUnreached
<1>5. ASSUME NEW c \in Chan, Subscribing(c) PROVE Subscribing(c)'
  <2>1. Main \in Thread
    BY DEF Thread
  <2>. QED BY <1>1, <1>2, <1>5, <2>1 DEF Subscribing, Calling, TypeOK
<1>6. ASSUME NEW c \in Chan PROVE /\ Asking(c)' => Asking(c)
                                  /\ Refused(c)' => Refused(c)
  <2>1. resps'[c] \subseteq resps[c]
    <3>1. CASE CancelReturns(t)
      <4>1. act[t].ch \in Chan /\ resps' = [resps EXCEPT ![act[t].ch] = @ \ Answers(t)]
        BY <1>1, <3>1, WhatThreadsDo DEF CancelReturns, WaitResponse, Calling
      <4>. QED BY <1>1, <4>1 DEF TypeOK
    <3>. QED BY <3>1 DEF Waiting, Sleep, Destroy
  <2>2. UNCHANGED toServer \/ \E q \in Request : toServer' = Append(toServer, q) /\ q.op # "consume"
    <3>1. CASE Destroy(t)
      <4>1. act[t].ch \in Chan /\ "cancel" \in Op
        BY <1>1, <3>1, WhatThreadsDo DEF Destroy, Op
      <4>2. [ch |-> act[t].ch, t |-> t, op |-> "cancel"] \in Request
        BY <4>1 DEF Request
      <4>. QED BY <3>1, <4>2 DEF Destroy, Send
    <3>. QED BY <3>1 DEF Waiting, Sleep, CancelReturns, server
  <2>3. Asking(c)' => Asking(c)
    <3>1. toServer \in Seq(Request)
      BY <1>1 DEF TypeOK
    <3>. QED BY <1>1, <2>2, <3>1, Appends DEF Asking
  <2>4. \A k : IsResponse(k)' <=> IsResponse(k)
    BY <1>1 DEF IsResponse
  <2>. QED BY <1>1, <2>1, <2>3, <2>4 DEF Refused
<1>. QED BY <1>1, <1>3, <1>4, <1>5, <1>6, ExpectedKept

LEMMA ExpectedInTheLoop ==
    ASSUME IInv, Roles, Expected,
           CountDown \/ SetConnection \/ Disconnect \/ NullCodec \/ Notify \/ HandlerEnds
    PROVE  Roles' /\ Expected'
<1>1. TypeOK /\ IO \in Thread /\ Main \in Thread /\ Main # IO /\ Main \notin Worker
  BY ClientAssumption DEF IInv, Thread
<1>2. /\ UNCHANGED <<tasks, consumer, resps>>
      /\ \/ UNCHANGED <<toServer, fromServer, registered, chosen>>
         \/ toServer' = <<>> /\ fromServer' = <<>> /\ registered' = {} /\ chosen' = None
  BY DEF CountDown, SetConnection, Disconnect, NullCodec, Notify, HandlerEnds, server
<1>3. act'[Main] = act[Main] /\ \A w \in Worker : act'[w] = act[w] \/ act'[w] = Idle
  <2>1. \A w \in Worker : w \in Thread /\ w # IO
    BY ClientAssumption DEF Thread
  <2>. QED BY <1>1, <2>1
    DEF CountDown, SetConnection, Disconnect, NullCodec, Notify, HandlerEnds, TypeOK
<1>4. Role(act'[IO], IO, consumer)
  <2>1. CASE UNCHANGED act
    BY <1>1, <2>1 DEF Roles
  <2>2. CASE HandlerEnds
    <3>1. act'[IO] = AfterRelease(IO, act[IO].ch)
      BY <1>1, <2>2 DEF HandlerEnds, TypeOK
    <3>. QED BY <3>1, RoleOfRelease
  <2>3. CASE Notify
    <3>1. act[IO].at = "notify"
      BY <2>3 DEF Notify
    <3>2. [act[IO] EXCEPT !.at = "release"].at = "release"
      BY <1>1, <3>1, WhatThreadsDo
    <3>3. act'[IO] = [act[IO] EXCEPT !.at = "release"]
      <4>1. IO \notin Worker
        BY ClientAssumption
      <4>. QED BY <1>1, <2>3, <4>1 DEF Notify, TypeOK
    <3>4. act'[IO].at = "release"
      BY <3>2, <3>3
    <3>. QED BY <3>4 DEF Role
  <2>. QED BY <2>1, <2>2, <2>3 DEF CountDown, SetConnection, Disconnect, NullCodec
<1>5. Roles'
  <2>. SUFFICES ASSUME NEW t \in Thread PROVE Role(act'[t], t, consumer)
    BY <1>2 DEF Roles
  <2>. QED BY <1>3, <1>4, RoleOfIdle DEF Roles, Thread
<1>6. ASSUME NEW c \in Chan PROVE Reached(c)' => Reached(c)
  <2>1. /\ c \in registered' => c \in registered
        /\ chosen' = c => chosen = c
    BY <1>2, ClientAssumption
  <2>2. \A k : (IsTask(k, c)' => IsTask(k, c)) /\ (IsDelivery(k, c)' => IsDelivery(k, c))
    BY <1>2 DEF IsTask, IsDelivery
  <2>3. \A w \in Worker : Runs(w, c)' => Runs(w, c)
    BY <1>3 DEF Runs, Idle
  <2>. QED BY <2>1, <2>2, <2>3 DEF Reached
<1>7. ASSUME NEW c \in Chan, Reached(c) PROVE Subscribing(c) => Subscribing(c)'
  BY <1>3 DEF Subscribing, Calling
<1>8. ASSUME NEW c \in Chan \ consumer, Reached(c)
      PROVE (Asking(c)' => Asking(c)) /\ (Refused(c)' => Refused(c))
  BY <1>2 DEF Asking, Refused, IsResponse
<1>. QED BY <1>2, <1>5, <1>6, <1>7, <1>8, ExpectedKept

LEMMA ExpectedWhenReceived ==
    ASSUME IInv, Roles, Expected, BasicResponse \/ ConsumeResponse
    PROVE  Roles' /\ Expected'
<1>. DEFINE h == Head(fromServer)
<1>1. /\ TypeOK /\ fromServer \in Seq(Message) /\ fromServer # <<>> /\ fromServer' = Tail(fromServer)
      /\ UNCHANGED <<consumer, registered, chosen, toServer>> /\ act[IO] = Idle
      /\ IO \in Thread /\ Main \in Thread /\ Main # IO /\ Main \notin Worker
      /\ tasks \in Seq(Task)
  BY ClientAssumption DEF IInv, TypeOK, BasicResponse, ConsumeResponse, Thread
<1>2. /\ 1 \in DOMAIN fromServer /\ h = fromServer[1] /\ h.ch \in Chan
      /\ h.is = "delivery" => h \in Delivery
      /\ \A k \in DOMAIN fromServer' :
            k + 1 \in DOMAIN fromServer /\ fromServer'[k] = fromServer[k + 1]
  BY <1>1, Tails, Received
<1>. HIDE DEF h
<1>3. \A t \in Thread :
          \/ t = IO /\ act'[t].at \in {"idle", "notify", "release"}
          \/ t # IO /\ act'[t] = act[t]
          \/ t # IO /\ Calling(t) /\ act'[t].at = "wait" /\ act'[t].op = act[t].op
                    /\ act'[t].ch = act[t].ch
  <2>. SUFFICES ASSUME NEW t \in Thread
                PROVE  \/ t = IO /\ act'[t].at \in {"idle", "notify", "release"}
                       \/ t # IO /\ act'[t] = act[t]
                       \/ t # IO /\ Calling(t) /\ act'[t].at = "wait" /\ act'[t].op = act[t].op
                                 /\ act'[t].ch = act[t].ch
    OBVIOUS
  <2>1. CASE UNCHANGED act
    BY <1>1, <2>1 DEF Idle
  <2>2. CASE ConsumeResponse /\ act' = [act EXCEPT ![IO] = [at |-> "notify", ch |-> h.ch]]
    BY <1>1, <2>2 DEF TypeOK
  <2>3. CASE BasicResponse /\ PutBasicResponse(h)
    <3>1. CASE t = IO
      BY <1>1, <2>3, <3>1 DEF PutBasicResponse
    <3>2. CASE t # IO /\ act[t].at = "asleep" /\ act[t].ch = h.ch
      <4>1. act'[t] = [act[t] EXCEPT !.at = "wait"] /\ Calling(t)
        BY <2>3, <3>2 DEF PutBasicResponse, Calling
      <4>2. LET x == [act[t] EXCEPT !.at = "wait"]
            IN  x.at = "wait" /\ x.ch = act[t].ch /\ x.op = act[t].op
        BY <1>1, <4>1, Wakes
      <4>. QED BY <3>2, <4>1, <4>2
    <3>3. CASE t # IO /\ ~(act[t].at = "asleep" /\ act[t].ch = h.ch)
      BY <2>3, <3>3 DEF PutBasicResponse
    <3>. QED BY <3>1, <3>2, <3>3
  <2>. QED BY <2>1, <2>2, <2>3 DEF BasicResponse, ConsumeResponse, h
<1>4. Roles'
  <2>. SUFFICES ASSUME NEW t \in Thread PROVE Role(act'[t], t, consumer)
    BY <1>1 DEF Roles
  <2>. QED BY <1>3 DEF Roles, Role, Calling
<1>5. \A c \in Chan : Subscribing(c) => Subscribing(c)'
  BY <1>1, <1>3 DEF Subscribing, Calling
<1>6. ASSUME NEW c \in Chan PROVE Reached(c)' => Reached(c)
  <2>1. ASSUME NEW k, IsTask(k, c)' PROVE (\E j : IsTask(j, c)) \/ \E j : IsDelivery(j, c)
    <3>1. CASE tasks' = tasks
      BY <2>1, <3>1 DEF IsTask
    <3>2. ASSUME h.is = "delivery", tasks' = Append(tasks, [ch |-> h.ch, m |-> h.m]) PROVE <2>1!3
      <4>1. [ch |-> h.ch, m |-> h.m] \in Task
        BY <1>2, <3>2 DEF Delivery, Task
      <4>2. k \in DOMAIN tasks' /\ tasks'[k].ch = c
        BY <2>1 DEF IsTask
      <4>3. \/ k \in DOMAIN tasks /\ tasks'[k] = tasks[k]
            \/ tasks'[k] = [ch |-> h.ch, m |-> h.m]
        BY <1>1, <3>2, <4>1, <4>2, Appends
      <4>4. CASE k \in DOMAIN tasks /\ tasks'[k] = tasks[k]
        <5>1. IsTask(k, c)
          BY <4>2, <4>4 DEF IsTask
        <5>. QED BY <5>1
      <4>5. CASE tasks'[k] = [ch |-> h.ch, m |-> h.m]
        <5>1. h.ch = c
          BY <4>2, <4>5
        <5>2. IsDelivery(1, c)
          BY <1>2, <3>2, <5>1 DEF IsDelivery
        <5>. QED BY <5>2
      <4>. QED BY <4>3, <4>4, <4>5
    <3>. QED BY <3>1, <3>2 DEF BasicResponse, ConsumeResponse, h
  <2>2. ASSUME NEW k, IsDelivery(k, c)' PROVE \E j : IsDelivery(j, c)
    <3>1. k + 1 \in DOMAIN fromServer /\ fromServer'[k] = fromServer[k + 1]
      BY <1>2, <2>2 DEF IsDelivery
    <3>2. IsDelivery(k + 1, c)
      BY <2>2, <3>1 DEF IsDelivery
    <3>. QED BY <3>2
  <2>3. ASSUME NEW w \in Worker, Runs(w, c)' PROVE Runs(w, c)
    <3>1. w \in Thread /\ w # IO
      BY ClientAssumption DEF Thread
    <3>. QED BY <1>3, <2>3, <3>1 DEF Runs
  <2>. QED BY <1>1, <2>1, <2>2, <2>3 DEF Reached
<1>7. ASSUME NEW c \in Chan PROVE Asking(c)' => Asking(c)
  BY <1>1 DEF Asking
<1>8. ASSUME NEW c \in Chan PROVE Refused(c)' => Refused(c)
  <2>1. ASSUME NEW k, IsResponse(k)', fromServer'[k].op = "consume", ~fromServer'[k].ok,
               fromServer'[k].ch = c
        PROVE  Refused(c)
    <3>1. k + 1 \in DOMAIN fromServer /\ fromServer'[k] = fromServer[k + 1]
      BY <1>2, <2>1 DEF IsResponse
    <3>2. IsResponse(k + 1)
      BY <2>1, <3>1 DEF IsResponse
    <3>. QED BY <2>1, <3>1, <3>2 DEF Refused
  <2>2. ASSUME NEW r \in resps'[c], r.op = "consume", ~r.ok PROVE Refused(c)
    <3>1. CASE r \in resps[c]
      BY <2>2, <3>1 DEF Refused
    <3>2. CASE BasicResponse /\ r = h /\ h.ch = c
      <4>1. IsResponse(1)
        BY <1>2, <3>2 DEF BasicResponse, IsResponse, h
      <4>. QED BY <1>2, <2>2, <3>2, <4>1 DEF Refused
    <3>3. resps'[c] \subseteq resps[c] \/ (BasicResponse /\ h.ch = c /\ resps'[c] = resps[c] \cup {h})
      <4>1. resps' = resps \/ (BasicResponse /\ resps' = [resps EXCEPT ![h.ch] = @ \cup {h}])
        BY DEF BasicResponse, ConsumeResponse, PutBasicResponse, h
      <4>2. DOMAIN resps = Chan
        BY <1>1 DEF TypeOK
      <4>. QED BY <4>1, <4>2
    <3>. QED BY <2>2, <3>1, <3>2, <3>3
  <2>. QED BY <2>1, <2>2 DEF Refused
<1>. QED BY <1>1, <1>4, <1>5, <1>6, <1>7, <1>8, ExpectedKept

LEMMA ExpectedInThePool ==
    ASSUME IInv, Tokens, Roles, Expected, NEW w \in Worker,
           \/ Park(w) \/ Take(w) \/ ConsumeMisses(w) \/ ConsumeAuto(w) \/ BasicAck(w)
           \/ AckReturns(w)
    PROVE  Roles' /\ Expected'
<1>1. /\ TypeOK /\ w \in Thread /\ w # Main /\ Main \in Thread /\ tasks \in Seq(Task)
      /\ UNCHANGED <<consumer, fromServer, registered, chosen>>
  BY ClientAssumption
  DEF IInv, TypeOK, Thread, Park, Take, ConsumeMisses, ConsumeAuto, BasicAck, AckReturns, server
<1>2. \E a : act' = [act EXCEPT ![w] = a] /\ Role(a, w, consumer)
  <2>1. CASE Park(w)
    <3>. DEFINE a == [at |-> "parked"]
    <3>1. act' = [act EXCEPT ![w] = a] /\ Role(a, w, consumer)
      BY <2>1 DEF Park, Role
    <3>. HIDE DEF a
    <3>. QED BY <3>1
  <2>2. CASE Take(w)
    <3>. DEFINE a == [at |-> "run", ch |-> Head(tasks).ch, m |-> Head(tasks).m]
    <3>1. act' = [act EXCEPT ![w] = a] /\ Role(a, w, consumer)
      BY <2>2 DEF Take, Role
    <3>. HIDE DEF a
    <3>. QED BY <3>1
  <2>3. CASE BasicAck(w)
    <3>. DEFINE a == [at |-> "wait", op |-> "ack", ch |-> act[w].ch]
    <3>1. act' = [act EXCEPT ![w] = a] /\ Role(a, w, consumer)
      BY <2>3 DEF BasicAck, Send, Role
    <3>. HIDE DEF a
    <3>. QED BY <3>1
  <2>4. CASE ConsumeMisses(w) \/ ConsumeAuto(w) \/ AckReturns(w)
    BY <2>4, RoleOfRelease DEF ConsumeMisses, ConsumeAuto, AckReturns
  <2>. QED BY <2>1, <2>2, <2>3, <2>4
<1>3. Roles'
  BY <1>1, <1>2, RolesKept
<1>4. \A c \in Chan : Subscribing(c) => Subscribing(c)'
  <2>1. act'[Main] = act[Main]
    BY <1>1, <1>2 DEF TypeOK
  <2>. QED BY <2>1 DEF Subscribing, Calling
<1>5. ASSUME NEW c \in Chan PROVE Reached(c)' => Reached(c)
  <2>1. CASE Take(w)
    <3>1. /\ 1 \in DOMAIN tasks /\ Head(tasks) = tasks[1]
          /\ \A k \in DOMAIN tasks' : k + 1 \in DOMAIN tasks /\ tasks'[k] = tasks[k + 1]
      BY <1>1, <2>1, Tails DEF Take
    <3>2. ASSUME NEW k, IsTask(k, c)' PROVE \E j : IsTask(j, c)
      <4>1. IsTask(k + 1, c)
        BY <3>1, <3>2 DEF IsTask
      <4>. QED BY <4>1
    <3>3. ASSUME NEW u \in Worker, Runs(u, c)' PROVE Runs(u, c) \/ \E j : IsTask(j, c)
      <4>1. u \in Thread
        BY DEF Thread
      <4>2. CASE u = w
        <5>1. tasks[1].ch = c
          BY <1>1, <2>1, <3>1, <3>3, <4>2 DEF Take, Runs, TypeOK
        <5>2. IsTask(1, c)
          BY <3>1, <5>1 DEF IsTask
        <5>. QED BY <5>2
      <4>3. CASE u # w
        BY <1>1, <2>1, <3>3, <4>1, <4>3 DEF Take, Runs, TypeOK
      <4>. QED BY <4>2, <4>3
    <3>4. \A k : IsDelivery(k, c)' => IsDelivery(k, c)
      BY <1>1 DEF IsDelivery
    <3>. QED BY <1>1, <3>2, <3>3, <3>4 DEF Reached
  <2>2. CASE ~Take(w)
    <3>1. UNCHANGED tasks /\ act'[w].at # "run"
      <4>1. CASE Park(w)
        BY <1>1, <4>1 DEF Park, TypeOK
      <4>2. CASE ConsumeMisses(w) \/ ConsumeAuto(w) \/ AckReturns(w)
        <5>1. act'[w] = AfterRelease(w, act[w].ch) /\ UNCHANGED tasks
          BY <1>1, <4>2 DEF ConsumeMisses, ConsumeAuto, AckReturns, TypeOK
        <5>. QED BY <5>1 DEF AfterRelease, Idle
      <4>3. CASE BasicAck(w)
        BY <1>1, <4>3 DEF BasicAck, Send, TypeOK
      <4>. QED BY <2>2, <4>1, <4>2, <4>3
    <3>2. \A u \in Worker : Runs(u, c)' => Runs(u, c)
      <4>1. \A u \in Worker : u \in Thread
        BY DEF Thread
      <4>. QED BY <1>1, <1>2, <3>1, <4>1 DEF Runs, TypeOK
    <3>. QED BY <1>1, <3>1, <3>2, StaysUnreached
  <2>. QED BY <2>1, <2>2
<1>6. ASSUME NEW c \in Chan PROVE Asking(c)' => Asking(c)
  <2>1. CASE BasicAck(w)
    <3>1. act[w].ch \in Chan /\ "ack" \in Op /\ toServer \in Seq(Request)
      BY <1>1, <2>1, WhatThreadsDo DEF BasicAck, Op, TypeOK
    <3>2. UNCHANGED toServer \/ \E q \in Request : toServer' = Append(toServer, q) /\ q.op # "consume"
      <4>. DEFINE q == [ch |-> act[w].ch, t |-> w, op |-> "ack"]
      <4>1. q \in Request /\ q.op # "consume"
        BY <1>1, <3>1 DEF Request
      <4>2. UNCHANGED toServer \/ toServer' = Append(toServer, q)
        BY <2>1 DEF BasicAck, Send
      <4>. HIDE DEF q
      <4>. QED BY <4>1, <4>2
    <3>3. toServer \in Seq(Request) /\ UNCHANGED registered
      BY <1>1, <3>1
    <3>. QED BY <3>2, <3>3, Appends DEF Asking
  <2>2. CASE ~BasicAck(w)
    <3>1. UNCHANGED toServer
      BY <2>2 DEF Park, Take, ConsumeMisses, ConsumeAuto, AckReturns, server
    <3>. QED BY <1>1, <3>1 DEF Asking
  <2>. QED BY <2>1, <2>2
<1>7. ASSUME NEW c \in Chan PROVE Refused(c)' => Refused(c)
  <2>1. resps'[c] \subseteq resps[c]
    <3>1. CASE AckReturns(w)
      <4>1. act[w].ch \in Chan /\ resps' = [resps EXCEPT ![act[w].ch] = @ \ Answers(w)]
        BY <1>1, <3>1, WhatThreadsDo DEF AckReturns, WaitResponse, Calling
      <4>. QED BY <1>1, <4>1 DEF TypeOK
    <3>. QED BY <3>1 DEF Park, Take, ConsumeMisses, ConsumeAuto, BasicAck
  <2>2. \A k : IsResponse(k)' <=> IsResponse(k)
    BY <1>1 DEF IsResponse
  <2>. QED BY <1>1, <2>1, <2>2 DEF Refused
<1>. QED BY <1>1, <1>3, <1>4, <1>5, <1>6, <1>7, ExpectedKept

\* Who has asked to subscribe is waiting for the answer, and asks nothing else.
LEMMA AskedByMain ==
    ASSUME TypeOK, Tokens, Roles, NEW k \in DOMAIN toServer, toServer[k].op \in {"consume", "close"}
    PROVE  /\ toServer[k].t = Main /\ Calling(Main)
           /\ act[Main].ch = toServer[k].ch /\ act[Main].op = toServer[k].op
           /\ \A j \in DOMAIN toServer : toServer[j].op \in {"consume", "close"} => j = k
           /\ \A j : IsResponse(j) => fromServer[j].t # Main
           /\ \A c \in Chan : \A r \in resps[c] : r.t # Main
<1>1. \A j \in DOMAIN toServer : toServer[j].op \in {"consume", "close"} => toServer[j].t = Main
  <2>. SUFFICES ASSUME NEW j \in DOMAIN toServer, toServer[j].op \in {"consume", "close"}
                PROVE  toServer[j].t = Main
    OBVIOUS
  <2>1. Awaited(act, toServer[j]) /\ toServer[j].t \in Thread
    BY Owners DEF Tokens, AllAwaited
  <2>2. Role(act[toServer[j].t], toServer[j].t, consumer)
    BY <2>1 DEF Roles
  <2>. QED BY <2>1, <2>2 DEF Awaited, Role
<1>2. Awaited(act, toServer[k])
  BY DEF Tokens, AllAwaited
<1>3. \A j : IsResponse(j) => j \in DOMAIN fromServer
  BY DEF IsResponse
<1>. QED BY <1>1, <1>2, <1>3 DEF Tokens, OnePlace, Awaited, Calling

LEMMA ExpectedByServer ==
    ASSUME IInv, Tokens, Roles, Expected,
           Register \/ Respond \/ Deliver \/ \E c \in Chan : ChooseConsumer(c)
    PROVE  Roles' /\ Expected'
<1>1. /\ TypeOK /\ toServer \in Seq(Request) /\ fromServer \in Seq(Message)
      /\ UNCHANGED <<act, consumer, resps, tasks>>
  BY DEF IInv, TypeOK, Register, Respond, Deliver, ChooseConsumer
<1>2. Roles'
  BY <1>1, RolesSame
<1>3. \A c \in Chan : Subscribing(c) => Subscribing(c)'
  BY <1>1 DEF Subscribing, Calling
<1>4. \A c \in Chan : /\ \A k : IsTask(k, c)' <=> IsTask(k, c)
                      /\ \A w \in Worker : Runs(w, c)' <=> Runs(w, c)
  BY <1>1 DEF IsTask, Runs
<1>5. CASE Register
  <2>1. /\ 1 \in DOMAIN toServer /\ Head(toServer) = toServer[1] /\ toServer[1].op = "consume"
        /\ registered' = registered \cup {toServer[1].ch}
        /\ UNCHANGED <<toServer, fromServer, chosen>>
    BY <1>1, <1>5, Tails DEF Register, Asked
  <2>. SUFFICES ASSUME NEW c \in Chan \ consumer, Reached(c)'
                PROVE  Subscribing(c)' /\ ~Asking(c)' /\ ~Refused(c)'
    BY <1>1, <1>2 DEF Expected
  <2>2. (Asking(c)' => Asking(c)) /\ (Refused(c)' => Refused(c))
    BY <1>1, <2>1 DEF Asking, Refused, IsResponse
  <2>3. CASE Reached(c)
    BY <1>3, <2>2, <2>3 DEF Expected
  <2>4. CASE c = toServer[1].ch
    <3>1. Subscribing(c)
      BY <1>1, <2>1, <2>4, AskedByMain DEF Subscribing
    <3>2. ~Asking(c)'
      BY <2>1, <2>4 DEF Asking
    <3>3. ~Refused(c)
      <4>1. ASSUME NEW r, r \in resps[c] \/ \E k : IsResponse(k) /\ r = fromServer[k],
                   r.op = "consume"
            PROVE  r.t = Main
        <5>1. Awaited(act, r) /\ r.t \in Thread
          BY <1>1, <4>1, Owners DEF Tokens, AllAwaited, IsResponse
        <5>2. Role(act[r.t], r.t, consumer)
          BY <5>1 DEF Roles
        <5>. QED BY <4>1, <5>1, <5>2 DEF Awaited, Role
      <4>2. /\ \A j : IsResponse(j) => fromServer[j].t # Main
            /\ \A r \in resps[c] : r.t # Main
        BY <1>1, <2>1, AskedByMain
      <4>. QED BY <4>1, <4>2 DEF Refused
    <3>. QED BY <1>3, <2>2, <3>1, <3>2, <3>3
  <2>5. Reached(c) \/ c = toServer[1].ch
    <3>1. \A k : IsDelivery(k, c)' <=> IsDelivery(k, c)
      BY <2>1 DEF IsDelivery
    <3>. QED BY <1>4, <2>1, <3>1 DEF Reached
  <2>. QED BY <2>3, <2>4, <2>5
<1>6. CASE Respond
  <2>1. /\ 1 \in DOMAIN toServer /\ Head(toServer) = toServer[1] /\ toServer[1] \in Request
        /\ \A k \in DOMAIN toServer' : /\ k + 1 \in DOMAIN toServer /\ k + 1 # 1
                                       /\ toServer'[k] = toServer[k + 1]
    BY <1>1, <1>6, Tails DEF Respond
  <2>2. PICK r \in Response : /\ fromServer' = Append(fromServer, r) /\ r.ch = toServer[1].ch
                              /\ r.op = toServer[1].op
                              /\ r.op = "consume" /\ r.ch \in registered => r.ok
    <3>1. PICK ok \in BOOLEAN :
             /\ toServer[1].op # "consume" \/ toServer[1].ch \in registered => ok
             /\ fromServer' = Append(fromServer,
                   [is |-> "response", ch |-> toServer[1].ch, t |-> toServer[1].t,
                    op |-> toServer[1].op, ok |-> ok])
      BY <1>6, <2>1 DEF Respond
    <3>. QED BY <2>1, <3>1 DEF Request, Response
  <2>3. /\ DOMAIN fromServer' = DOMAIN fromServer \cup {Len(fromServer) + 1}
        /\ Len(fromServer) + 1 \notin DOMAIN fromServer
        /\ fromServer'[Len(fromServer) + 1] = r /\ r.is = "response"
        /\ \A k \in DOMAIN fromServer : fromServer'[k] = fromServer[k]
    <3>1. r \in Message /\ r.is = "response"
      BY DEF Message, Response
    <3>. QED BY <1>1, <2>2, <3>1, Appends
  <2>4. /\ registered' = registered \ (IF toServer[1].op \in {"cancel", "close"} THEN {toServer[1].ch}
                                       ELSE {})
        /\ UNCHANGED chosen
    BY <1>6, <2>1 DEF Respond
  <2>5. \A c \in Chan : Reached(c)' => Reached(c)
    <3>1. \A c \in Chan : \A k : IsDelivery(k, c)' => IsDelivery(k, c)
      BY <2>3 DEF IsDelivery
    <3>. QED BY <1>4, <2>4, <3>1 DEF Reached
  <2>6. ASSUME NEW c \in Chan \ consumer PROVE Asking(c)' => Asking(c)
    <3>1. ASSUME NEW k \in DOMAIN toServer', toServer'[k].op = "consume", toServer'[k].ch = c,
                 c \notin registered'
          PROVE  Asking(c)
      <4>1. /\ k + 1 \in DOMAIN toServer /\ k + 1 # 1
            /\ toServer[k + 1].op = "consume" /\ toServer[k + 1].ch = c
        BY <2>1, <3>1
      <4>2. toServer[1].op # "close"
        BY <1>1, <2>1, <4>1, AskedByMain
      <4>3. toServer[1].op = "cancel" => toServer[1].ch \in consumer
        <5>1. Awaited(act, toServer[1]) /\ toServer[1].t \in Thread
          BY <1>1, <2>1, Owners DEF Tokens, AllAwaited
        <5>2. Role(act[toServer[1].t], toServer[1].t, consumer)
          BY <5>1 DEF Roles
        <5>. QED BY <5>1, <5>2 DEF Awaited, Role
      <4>4. c \notin registered
        BY <2>4, <3>1, <4>2, <4>3
      <4>. QED BY <4>1, <4>4 DEF Asking
    <3>. QED BY <3>1 DEF Asking
  <2>7. ASSUME NEW c \in Chan PROVE Refused(c)' => Refused(c) \/ Asking(c)
    <3>1. ASSUME NEW k, IsResponse(k)', fromServer'[k].op = "consume", ~fromServer'[k].ok,
                 fromServer'[k].ch = c
          PROVE  Refused(c) \/ Asking(c)
      <4>1. CASE k \in DOMAIN fromServer
        <5>1. fromServer'[k] = fromServer[k] /\ IsResponse(k)
          BY <2>3, <3>1, <4>1 DEF IsResponse
        <5>. QED BY <3>1, <5>1 DEF Refused
      <4>2. CASE k \notin DOMAIN fromServer
        <5>1. fromServer'[k] = r
          BY <2>3, <3>1, <4>2 DEF IsResponse
        <5>. QED BY <2>1, <2>2, <3>1, <5>1 DEF Asking
      <4>. QED BY <4>1, <4>2
    <3>. QED BY <1>1, <3>1 DEF Refused
  <2>. QED BY <1>1, <1>2, <1>3, <2>5, <2>6, <2>7, ExpectedKept
<1>7. CASE Deliver
  <2>. DEFINE d == [is |-> "delivery", ch |-> chosen, m |-> sent[chosen] + 1]
  <2>1. /\ fromServer' = Append(fromServer, d) /\ d.is = "delivery" /\ d.ch = chosen
        /\ UNCHANGED <<toServer, registered>> /\ chosen' = None
    BY <1>7 DEF Deliver
  <2>2. fromServer \in Seq(Message \cup {d})
    BY <1>1
  <2>. HIDE DEF d
  <2>3. /\ DOMAIN fromServer' = DOMAIN fromServer \cup {Len(fromServer) + 1}
        /\ fromServer'[Len(fromServer) + 1] = d
        /\ \A k \in DOMAIN fromServer : fromServer'[k] = fromServer[k]
    BY <2>1, <2>2, Appends
  <2>4. ASSUME NEW c \in Chan PROVE Reached(c)' => Reached(c)
    <3>1. \A k : IsDelivery(k, c)' => IsDelivery(k, c) \/ chosen = c
      BY <2>1, <2>3 DEF IsDelivery
    <3>. QED BY <1>4, <2>1, <3>1, ClientAssumption DEF Reached
  <2>5. \A k : IsResponse(k)' => IsResponse(k) /\ fromServer'[k] = fromServer[k]
    BY <2>1, <2>3 DEF IsResponse
  <2>6. \A c \in Chan : (Asking(c)' => Asking(c)) /\ (Refused(c)' => Refused(c))
    BY <1>1, <2>1, <2>5 DEF Asking, Refused
  <2>. QED BY <1>1, <1>2, <1>3, <2>4, <2>6, ExpectedKept
<1>8. ASSUME NEW d \in Chan, ChooseConsumer(d) PROVE Roles' /\ Expected'
  <2>1. UNCHANGED <<toServer, fromServer, registered>> /\ chosen' = d /\ d \in registered
    BY <1>8 DEF ChooseConsumer
  <2>2. \A c \in Chan : Reached(c)' => Reached(c)
    <3>1. \A c \in Chan : \A k : IsDelivery(k, c)' <=> IsDelivery(k, c)
      BY <2>1 DEF IsDelivery
    <3>. QED BY <1>4, <2>1, <3>1 DEF Reached
  <2>3. \A c \in Chan : (Asking(c)' => Asking(c)) /\ (Refused(c)' => Refused(c))
    BY <1>1, <2>1 DEF Asking, Refused, IsResponse
  <2>. QED BY <1>1, <1>2, <1>3, <2>2, <2>3, ExpectedKept
<1>. QED BY <1>5, <1>6, <1>7, <1>8

LEMMA ExpectedNext == IInv /\ Tokens /\ Roles /\ Expected /\ [Next]_vars => Roles' /\ Expected'
<1>. SUFFICES ASSUME IInv, Tokens, Roles, Expected, [Next]_vars PROVE Roles' /\ Expected'
  OBVIOUS
<1>1. Main \in Thread /\ IO \in Thread /\ \A w \in Worker : w \in Thread
  BY DEF Thread
<1>2. CASE UNCHANGED vars
  <2>1. UNCHANGED <<act, consumer, registered, chosen, tasks, fromServer, toServer, resps>>
    BY <1>2 DEF vars, server
  <2>2. \A c \in Chan : /\ Reached(c)' => Reached(c)
                        /\ Subscribing(c) => Subscribing(c)'
                        /\ Asking(c)' => Asking(c)
                        /\ Refused(c)' => Refused(c)
    BY <2>1 DEF Reached, IsDelivery, IsTask, Runs, Subscribing, Calling, Asking, Refused, IsResponse
  <2>. QED BY <2>1, <2>2, RolesSame, ExpectedKept
<1>3. CASE Application
  BY <1>3, ExpectedWhenCalled DEF Application
<1>4. CASE MainWaiting
  BY <1>1, <1>4, ExpectedWhenReturned, ExpectedWhenWaiting DEF MainWaiting
<1>5. CASE Loop
  BY <1>1, <1>5, ExpectedWhenReceived, ExpectedInTheLoop, ExpectedWhenWaiting DEF Loop
<1>6. CASE CountDown \/ Disconnect \/ NullCodec
  BY <1>6, ExpectedInTheLoop
<1>7. ASSUME NEW w \in Worker, Work(w) PROVE Roles' /\ Expected'
  BY <1>1, <1>7, ExpectedInThePool, ExpectedWhenWaiting DEF Work
<1>8. CASE Register \/ Respond \/ Deliver \/ \E c \in Chan : ChooseConsumer(c)
  BY <1>8, ExpectedByServer
<1>. QED BY <1>2, <1>3, <1>4, <1>5, <1>6, <1>7, <1>8 DEF Next

LEMMA OnlyMissesMiss ==
    ASSUME TypeOK, [Next]_vars, NEW c \in Chan, missed'[c] # missed[c]
    PROVE  \E w \in Worker : ConsumeMisses(w) /\ act[w].ch = c
<1>1. ~UNCHANGED missed
  OBVIOUS
<1>2. Next
  BY <1>1 DEF vars, history
<1>3. ASSUME NEW t, Waiting(t) PROVE FALSE
  BY <1>1, <1>3 DEF Waiting, Sleep, CancelReturns, Destroy, vars, history
<1>4. ~Application
  BY <1>1 DEF Application, OpenChannel, OpenOnNull, Call, BasicCancel, CloseChannel, LetGo,
              BasicConsume, history
<1>5. ~MainWaiting
  BY <1>1, <1>3 DEF MainWaiting, OpenReturns, CallReturns, ConsumeReturns, CloseReturns, history
<1>6. ~Loop
  BY <1>1, <1>3 DEF Loop, BasicResponse, ConsumeResponse, Notify, HandlerEnds, SetConnection,
                    history
<1>7. ~CountDown /\ ~Disconnect /\ ~NullCodec
  BY <1>1 DEF CountDown, Disconnect, NullCodec, history
<1>8. ~Register /\ ~Respond /\ ~Deliver /\ ~\E d \in Chan : ChooseConsumer(d)
  BY <1>1 DEF Register, Respond, Deliver, ChooseConsumer, history
<1>9. PICK w \in Worker : Work(w)
  BY <1>2, <1>4, <1>5, <1>6, <1>7, <1>8 DEF Next
<1>10. ConsumeMisses(w)
  BY <1>1, <1>3, <1>9 DEF Work, Park, Take, ConsumeAuto, BasicAck, AckReturns, history
<1>11. act[w].ch = c
  BY <1>10 DEF ConsumeMisses, TypeOK
<1>. QED BY <1>10, <1>11

\* A delivery that finds no consumer, on a channel whose subscription was not
\* cancelled, has come while the channel subscribes (channel.hpp:199-205, 229).
THEOREM MissedOnlyWhenSubscribing == Spec => MissedWhileSubscribing
<1>1. IInv /\ Roles /\ Expected /\ [Next]_vars =>
          [\A c \in Chan \ reset : missed'[c] # missed[c] =>
              Calling(Main) /\ act[Main].op = "consume" /\ act[Main].ch = c]_vars
  <2>. SUFFICES ASSUME IInv, Expected, [Next]_vars, NEW c \in Chan, missed'[c] # missed[c]
                PROVE  Subscribing(c)
    BY DEF Subscribing
  <2>1. PICK w \in Worker : ConsumeMisses(w) /\ act[w].ch = c
    BY OnlyMissesMiss DEF IInv
  <2>2. Reached(c) /\ c \notin consumer
    BY <2>1 DEF ConsumeMisses, Reached, Runs
  <2>. QED BY <2>2 DEF Expected
<1>. QED BY <1>1, InitInv, NextInv, TokensInit, TokensNext, ExpectedInit, ExpectedNext, PTL
     DEF Spec, MissedWhileSubscribing

=============================================================================
