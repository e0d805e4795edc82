------------------------------- MODULE Client -------------------------------
(***************************************************************************)
(* The client library: its connection and channels (client/connection.hpp, *)
(* channel.hpp) and the threads that use them.  The application calls a    *)
(* channel, which sends a request and waits for the response; the IO       *)
(* thread receives the responses and wakes the callers, and leaves the     *)
(* deliveries to the workers of the thread pool (threadpool.hpp); a worker *)
(* calls the consumer back, and the callback calls the channel to          *)
(* acknowledge.                                                            *)
(*                                                                         *)
(* Of the server (server/channel.hpp, at work in Broker) there is what a   *)
(* client sees: it answers requests in their order, and delivers from the  *)
(* moment it has registered the consumer, which is before it answers.      *)
(* Undefined behaviour ends the process, with its cause in "dead", or goes *)
(* unnoticed.                                                              *)
(***************************************************************************)
EXTENDS Integers, Sequences, FiniteSets

CONSTANTS
    Chan,       \* the ids of channels (UUIDs: none is used twice)
    Main,       \* the thread of the application
    IO,         \* the thread of the connection's event loop
    Worker,     \* the threads of the pool: 5, the size AsyncWorker asks for first
    MaxMsg,     \* messages delivered to a channel
    None        \* no channel

Thread == Worker \cup {Main, IO}
Op == {"open", "call", "consume", "cancel", "close", "ack"}

ASSUME ClientAssumption ==
    /\ Main # IO /\ Main \notin Worker /\ IO \notin Worker
    /\ IsFiniteSet(Worker)
    /\ None \notin Chan
    /\ MaxMsg \in Nat

VARIABLES
    conn,       \* the connection: Connection::_conn is set in "up" only
    chan,       \* "new", "managed" by the ChannelManager, or "removed"
    app,        \* channels the application has a pointer to
    consumer,   \* channels with a _consumer
    auto,       \* those whose consumer is, or will be, one with autoAck
    reset,      \* channels whose _codec was reset
    resps,      \* Channel::_basicResps
    act,        \* what each thread does
    tasks,      \* ThreadPool::_tasks
    dead,       \* the undefined behaviour met, or "no"
    \* the server
    toServer,   \* requests on their way
    fromServer, \* responses and deliveries on their way
    registered, \* channels with a consumer
    chosen,     \* the channel chosen for the message in hand
    \* history
    sent,       \* number of messages sent to each channel
    taken,      \* deliveries to each channel that workers took, in this order
    missed      \* those that found no consumer

server == <<toServer, fromServer, registered, chosen>>
history == <<sent, taken, missed>>
vars == <<conn, chan, app, consumer, auto, reset, resps, act, tasks, dead, server, history>>

Idle == [at |-> "idle"]
Managed == {c \in Chan : chan[c] = "managed"}

Init ==
    /\ conn = "connecting"
    /\ chan = [c \in Chan |-> "new"]
    /\ app = {}
    /\ consumer = {}
    /\ auto = {}
    /\ reset = {}
    /\ resps = [c \in Chan |-> {}]
    /\ act = [t \in Thread |-> Idle]
    /\ tasks = <<>>
    /\ dead = "no"
    /\ toServer = <<>>
    /\ fromServer = <<>>
    /\ registered = {}
    /\ chosen = None
    /\ sent = [c \in Chan |-> 0]
    /\ taken = [c \in Chan |-> <<>>]
    /\ missed = [c \in Chan |-> {}]

-----------------------------------------------------------------------------
(* A call: send the request, wait for the response, return.                 *)

\* ProtobufCodec::send; what is sent over a connection gone down is lost.
Send(t, c, op) ==
    /\ toServer' = IF conn = "up" THEN Append(toServer, [ch |-> c, t |-> t, op |-> op])
                   ELSE toServer
    /\ act' = [act EXCEPT ![t] = [at |-> "wait", op |-> op, ch |-> c]]

Calling(t) == act[t].at \in {"wait", "asleep"}

\* The predicate of WaitResponse.  A thread has one request under way, so it
\* stands for the request's id.
Answers(t) == {r \in resps[act[t].ch] : r.t = t}

\* WaitResponse finds no response and sleeps on the channel's _cv.
Sleep(t) ==
    /\ act[t].at = "wait"
    /\ Answers(t) = {}
    /\ act' = [act EXCEPT ![t].at = "asleep"]
    /\ UNCHANGED <<conn, chan, app, consumer, auto, reset, resps, tasks, dead, server, history>>

\* Mutant: the response stays in the map.
WaitResponseKeeps(t, ops) ==
    /\ act[t].at = "wait"
    /\ act[t].op \in ops
    /\ Answers(t) # {}
    /\ resps' = resps

\* WaitResponse takes the response to one of these operations out of the map.
WaitResponse(t, ops) ==
    /\ act[t].at = "wait"
    /\ act[t].op \in ops
    /\ Answers(t) # {}
    /\ resps' = [resps EXCEPT ![act[t].ch] = @ \ Answers(t)]

Ok(t) == \E r \in Answers(t) : r.ok

\* Some other thread, a table, a task or the consumer's callback, which needs
\* the channel to acknowledge (client.cpp:38), holds a pointer to c.
HeldByOther(t, c) ==
    \/ c \in Managed \/ c \in app \ (IF t = Main THEN {c} ELSE {})
    \/ c \in consumer \ auto
    \/ \E k \in DOMAIN tasks : tasks[k].ch = c
    \/ \E u \in Thread \ {t} : act[u].at \in {"run", "wait", "asleep", "notify", "release"}
                               /\ act[u].ch = c

\* What t does after it let go its pointer to c: ~Channel, if it was the last
\* one and there is a consumer to cancel.
AfterRelease(t, c) ==
    IF c \in consumer /\ ~HeldByOther(t, c) THEN [at |-> "destroy", ch |-> c] ELSE Idle

-----------------------------------------------------------------------------
(* The application.  It uses the channels it has opened and not yet closed. *)

Usable(c) == act[Main] = Idle /\ c \in app \cap Managed

\* Connection::OpenChannel: the channel copies _conn.
OpenChannel(c) ==
    /\ act[Main] = Idle
    /\ conn = "up"
    /\ chan[c] = "new"
    /\ chan' = [chan EXCEPT ![c] = "managed"]
    /\ Send(Main, c, "open")
    /\ UNCHANGED <<conn, app, consumer, auto, reset, resps, tasks, dead, fromServer, registered,
                   chosen, history>>

\* The constructor's latch is open and _conn not set, or reset again.
OpenOnNull(c) ==
    /\ act[Main] = Idle
    /\ conn \in {"latched", "down"}
    /\ chan[c] = "new"
    /\ dead' = "null connection"
    /\ UNCHANGED <<conn, chan, app, consumer, auto, reset, resps, act, tasks, server, history>>

OpenReturns ==
    /\ WaitResponse(Main, {"open"})
    /\ app' = IF Ok(Main) THEN app \cup {act[Main].ch} ELSE app
    /\ act' = [act EXCEPT ![Main] = Idle]
    /\ UNCHANGED <<conn, chan, consumer, auto, reset, tasks, dead, server, history>>

\* DeclareExchange to BasicPublish: they do nothing but wait for the response.
Call(c) ==
    /\ Usable(c)
    /\ Send(Main, c, "call")
    /\ UNCHANGED <<conn, chan, app, consumer, auto, reset, resps, tasks, dead, fromServer,
                   registered, chosen, history>>

CallReturns ==
    /\ WaitResponse(Main, {"call"})
    /\ act' = [act EXCEPT ![Main] = Idle]
    /\ UNCHANGED <<conn, chan, app, consumer, auto, reset, tasks, dead, server, history>>

BasicConsume(c, autoAck) ==
    /\ Usable(c)
    /\ c \notin consumer
    /\ Send(Main, c, "consume")
    /\ auto' = IF autoAck THEN auto \cup {c} ELSE auto \ {c}
    /\ UNCHANGED <<conn, chan, app, consumer, reset, resps, tasks, dead, fromServer,
                   registered, chosen, history>>

\* Mutant: the test of the answer is inverted.
ConsumeReturnsIfRefused ==
    /\ WaitResponse(Main, {"consume"})
    /\ consumer' = IF Ok(Main) THEN consumer ELSE consumer \cup {act[Main].ch}
    /\ act' = [act EXCEPT ![Main] = Idle]
    /\ UNCHANGED <<conn, chan, app, auto, reset, tasks, dead, server, history>>

\* Only now there is a _consumer for what is delivered.
ConsumeReturns ==
    /\ WaitResponse(Main, {"consume"})
    /\ consumer' = IF Ok(Main) THEN consumer \cup {act[Main].ch} ELSE consumer
    /\ act' = [act EXCEPT ![Main] = Idle]
    /\ UNCHANGED <<conn, chan, app, auto, reset, tasks, dead, server, history>>

BasicCancel(c) ==
    /\ Usable(c)
    /\ c \in consumer
    /\ Send(Main, c, "cancel")
    /\ UNCHANGED <<conn, chan, app, consumer, auto, reset, resps, tasks, dead, fromServer,
                   registered, chosen, history>>

\* ~Channel in whichever thread let go the last pointer: BasicCancel.
Destroy(t) ==
    /\ act[t].at = "destroy"
    /\ Send(t, act[t].ch, "cancel")
    /\ UNCHANGED <<conn, chan, app, consumer, auto, reset, resps, tasks, dead, fromServer,
                   registered, chosen, history>>

\* _codec is reset, not _consumer.
CancelReturns(t) ==
    /\ WaitResponse(t, {"cancel"})
    /\ reset' = reset \cup {act[t].ch}
    /\ act' = [act EXCEPT ![t] = Idle]
    /\ UNCHANGED <<conn, chan, app, consumer, auto, tasks, dead, server, history>>

\* Mutant: the channel is removed before its response has come.
CloseChannelRemovesFirst(c) ==
    /\ Usable(c)
    /\ Send(Main, c, "close")
    /\ chan' = [chan EXCEPT ![c] = "removed"]
    /\ UNCHANGED <<conn, app, consumer, auto, reset, resps, tasks, dead, fromServer,
                   registered, chosen, history>>

\* Connection::CloseChannel.
CloseChannel(c) ==
    /\ Usable(c)
    /\ Send(Main, c, "close")
    /\ UNCHANGED <<conn, chan, app, consumer, auto, reset, resps, tasks, dead, fromServer,
                   registered, chosen, history>>

CloseReturns ==
    /\ WaitResponse(Main, {"close"})
    /\ chan' = [chan EXCEPT ![act[Main].ch] = "removed"]
    /\ act' = [act EXCEPT ![Main] = Idle]
    /\ UNCHANGED <<conn, app, consumer, auto, reset, tasks, dead, server, history>>

\* The application's pointer goes out of scope.
LetGo(c) ==
    /\ act[Main] = Idle
    /\ c \in app \ Managed
    /\ app' = app \ {c}
    /\ act' = [act EXCEPT ![Main] = AfterRelease(Main, c)]
    /\ UNCHANGED <<conn, chan, consumer, auto, reset, resps, tasks, dead, server, history>>

-----------------------------------------------------------------------------
(* The IO thread.                                                           *)

\* OnConnection opens the latch first ...
CountDown ==
    /\ conn = "connecting"
    /\ conn' = "latched"
    /\ UNCHANGED <<chan, app, consumer, auto, reset, resps, act, tasks, dead, server, history>>

\* ... and sets _conn then.
SetConnection ==
    /\ conn = "latched"
    /\ conn' = "up"
    /\ UNCHANGED <<chan, app, consumer, auto, reset, resps, act, tasks, dead, server, history>>

\* The connection goes down, for good; what is on its way is lost.
Disconnect ==
    /\ act[IO] = Idle
    /\ conn = "up"
    /\ conn' = "down"
    /\ toServer' = <<>>
    /\ fromServer' = <<>>
    /\ registered' = {}
    /\ chosen' = None
    /\ UNCHANGED <<chan, app, consumer, auto, reset, resps, act, tasks, dead, history>>

\* Mutant: notify_one, which wakes any one of them.
PutBasicResponseOne(r) ==
    /\ resps' = [resps EXCEPT ![r.ch] = @ \cup {r}]
    /\ LET S == {t \in Thread : act[t].at = "asleep" /\ act[t].ch = r.ch}
       IN  \/ S = {} /\ act' = [act EXCEPT ![IO] = [at |-> "release", ch |-> r.ch]]
           \/ \E t \in S : act' = [act EXCEPT ![IO] = [at |-> "release", ch |-> r.ch],
                                            ![t].at = "wait"]

\* Everyone who sleeps on the channel's _cv wakes up to look for his response.
PutBasicResponse(r) ==
    /\ resps' = [resps EXCEPT ![r.ch] = @ \cup {r}]
    /\ act' = [t \in Thread |->
                  IF t = IO THEN [at |-> "release", ch |-> r.ch]
                  ELSE IF act[t].at = "asleep" /\ act[t].ch = r.ch
                  THEN [act[t] EXCEPT !.at = "wait"]
                  ELSE act[t]]

\* A response, unless its channel is no longer managed.
BasicResponse ==
    /\ act[IO] = Idle
    /\ fromServer # <<>>
    /\ Head(fromServer).is = "response"
    /\ fromServer' = Tail(fromServer)
    /\ IF Head(fromServer).ch \in Managed THEN PutBasicResponse(Head(fromServer))
       ELSE UNCHANGED <<resps, act>>
    /\ UNCHANGED <<conn, chan, app, consumer, auto, reset, tasks, dead, toServer, registered,
                   chosen, history>>

\* Mutant: nobody looks whether the channel was found.
ConsumeResponseUnchecked ==
    /\ act[IO] = Idle
    /\ fromServer # <<>>
    /\ LET d == Head(fromServer)
           c == IF d.ch \in Managed THEN d.ch ELSE None
       IN  /\ d.is = "delivery"
           /\ tasks' = Append(tasks, [ch |-> c, m |-> d.m])
           /\ act' = [act EXCEPT ![IO] = [at |-> "notify", ch |-> c]]
    /\ fromServer' = Tail(fromServer)
    /\ UNCHANGED <<conn, chan, app, consumer, auto, reset, resps, dead, toServer, registered,
                   chosen, history>>

\* A delivery, likewise: enqueue pushes a task under _queue_mutex.
ConsumeResponse ==
    /\ act[IO] = Idle
    /\ fromServer # <<>>
    /\ LET d == Head(fromServer) IN
        /\ d.is = "delivery"
        /\ IF d.ch \in Managed
           THEN /\ tasks' = Append(tasks, [ch |-> d.ch, m |-> d.m])
                /\ act' = [act EXCEPT ![IO] = [at |-> "notify", ch |-> d.ch]]
           ELSE UNCHANGED <<tasks, act>>
    /\ fromServer' = Tail(fromServer)
    /\ UNCHANGED <<conn, chan, app, consumer, auto, reset, resps, dead, toServer, registered,
                   chosen, history>>

\* Mutant: nobody is told.
NotifyNobody ==
    /\ act[IO].at = "notify"
    /\ act' = [act EXCEPT ![IO].at = "release"]
    /\ UNCHANGED <<conn, chan, app, consumer, auto, reset, resps, tasks, dead, server, history>>

\* Mutant: notify only if the task is the only one.
NotifyIfAlone ==
    /\ act[IO].at = "notify"
    /\ LET parked == {w \in Worker : act[w].at = "parked" /\ Len(tasks) = 1}
       IN  \/ /\ parked = {}
              /\ act' = [act EXCEPT ![IO].at = "release"]
           \/ \E w \in parked :
                  act' = [act EXCEPT ![IO].at = "release", ![w] = Idle]
    /\ UNCHANGED <<conn, chan, app, consumer, auto, reset, resps, tasks, dead, server, history>>

\* notify_one: one of the workers that wait, if any, wakes up.
Notify ==
    /\ act[IO].at = "notify"
    /\ LET parked == {w \in Worker : act[w].at = "parked"}
       IN  \/ /\ parked = {}
              /\ act' = [act EXCEPT ![IO].at = "release"]
           \/ \E w \in parked :
                  act' = [act EXCEPT ![IO].at = "release", ![w] = Idle]
    /\ UNCHANGED <<conn, chan, app, consumer, auto, reset, resps, tasks, dead, server, history>>

\* The handler's own pointer to the channel goes out of scope.
HandlerEnds ==
    /\ act[IO].at = "release"
    /\ act' = [act EXCEPT ![IO] = AfterRelease(IO, act[IO].ch)]
    /\ UNCHANGED <<conn, chan, app, consumer, auto, reset, resps, tasks, dead, server, history>>

-----------------------------------------------------------------------------
(* The workers of the pool.                                                 *)

Park(w) ==
    /\ act[w] = Idle
    /\ tasks = <<>>
    /\ act' = [act EXCEPT ![w] = [at |-> "parked"]]
    /\ UNCHANGED <<conn, chan, app, consumer, auto, reset, resps, tasks, dead, server, history>>

\* Mutant: the task is moved out of the queue, and left there.
TakeWithoutPop(w) ==
    /\ act[w] = Idle
    /\ tasks # <<>>
    /\ LET d == Head(tasks) IN
        /\ act' = [act EXCEPT ![w] = [at |-> "run", ch |-> d.ch, m |-> d.m]]
        /\ taken' = [taken EXCEPT ![d.ch] = Append(@, d.m)]
    /\ UNCHANGED <<conn, chan, app, consumer, auto, reset, resps, tasks, dead, server,
                   sent, missed>>

Take(w) ==
    /\ act[w] = Idle
    /\ tasks # <<>>
    /\ LET d == Head(tasks) IN
        /\ act' = [act EXCEPT ![w] = [at |-> "run", ch |-> d.ch, m |-> d.m]]
        /\ taken' = [taken EXCEPT ![d.ch] = Append(@, d.m)]
    /\ tasks' = Tail(tasks)
    /\ UNCHANGED <<conn, chan, app, consumer, auto, reset, resps, dead, server, sent, missed>>

\* Channel::Consume without a _consumer: the delivery is dropped.
ConsumeMisses(w) ==
    /\ act[w].at = "run"
    /\ act[w].ch \notin consumer
    /\ missed' = [missed EXCEPT ![act[w].ch] = @ \cup {act[w].m}]
    /\ act' = [act EXCEPT ![w] = AfterRelease(w, act[w].ch)]
    /\ UNCHANGED <<conn, chan, app, consumer, auto, reset, resps, tasks, dead, server, sent, taken>>

\* Channel::Consume, whose tag is the delivery's since a channel subscribes once,
\* calls a callback that need not acknowledge.
ConsumeAuto(w) ==
    /\ act[w].at = "run"
    /\ act[w].ch \in consumer \cap auto
    /\ act' = [act EXCEPT ![w] = AfterRelease(w, act[w].ch)]
    /\ UNCHANGED <<conn, chan, app, consumer, auto, reset, resps, tasks, dead, server, history>>

\* Channel::Consume calls a callback that calls BasicAck.
BasicAck(w) ==
    /\ act[w].at = "run"
    /\ act[w].ch \in consumer \ auto
    /\ Send(w, act[w].ch, "ack")
    /\ UNCHANGED <<conn, chan, app, consumer, auto, reset, resps, tasks, dead, fromServer,
                   registered, chosen, history>>

AckReturns(w) ==
    /\ WaitResponse(w, {"ack"})
    /\ act' = [act EXCEPT ![w] = AfterRelease(w, act[w].ch)]
    /\ UNCHANGED <<conn, chan, app, consumer, auto, reset, tasks, dead, server, history>>

\* A call of send through a _codec that was reset.
NullCodec ==
    /\ \E c \in reset :
        \/ Usable(c)
        \/ \E t \in Thread : act[t].at = "destroy" /\ act[t].ch = c
        \/ \E w \in Worker : act[w].at = "run" /\ act[w].ch = c /\ c \in consumer \ auto
    /\ dead' = "null codec"
    /\ UNCHANGED <<conn, chan, app, consumer, auto, reset, resps, act, tasks, server, history>>

-----------------------------------------------------------------------------
(* The server, as the client sees it.                                       *)

Asked(op) == toServer # <<>> /\ Head(toServer).op = op

Register ==
    /\ Asked("consume")
    /\ Head(toServer).ch \notin registered
    /\ registered' = registered \cup {Head(toServer).ch}
    /\ UNCHANGED <<conn, chan, app, consumer, auto, reset, resps, act, tasks, dead, toServer,
                   fromServer, chosen, history>>

\* To subscribe may be refused, or granted without a consumer if the tag is in
\* use; a request for a closed channel is answered, or the connection goes down.
Respond ==
    /\ toServer # <<>>
    /\ \E ok \in BOOLEAN :
        LET q == Head(toServer)
        IN /\ q.op # "consume" \/ q.ch \in registered => ok
           /\ fromServer' = Append(fromServer,
                  [is |-> "response", ch |-> q.ch, t |-> q.t, op |-> q.op, ok |-> ok])
           /\ registered' = registered \ (IF q.op \in {"cancel", "close"} THEN {q.ch} ELSE {})
    /\ toServer' = Tail(toServer)
    /\ UNCHANGED <<conn, chan, app, consumer, auto, reset, resps, act, tasks, dead,
                   chosen, history>>

\* The server's worker chooses a consumer, who may cancel before it is called.
ChooseConsumer(c) ==
    /\ chosen = None
    /\ c \in registered
    /\ sent[c] < MaxMsg
    /\ chosen' = c
    /\ UNCHANGED <<conn, chan, app, consumer, auto, reset, resps, act, tasks, dead, toServer,
                   fromServer, registered, history>>

Deliver ==
    /\ chosen # None
    /\ fromServer' = Append(fromServer,
           [is |-> "delivery", ch |-> chosen, m |-> sent[chosen] + 1])
    /\ sent' = [sent EXCEPT ![chosen] = @ + 1]
    /\ chosen' = None
    /\ UNCHANGED <<conn, chan, app, consumer, auto, reset, resps, act, tasks, dead, toServer,
                   registered, taken, missed>>

-----------------------------------------------------------------------------
Application ==
    \E c \in Chan :
        \/ OpenChannel(c) \/ OpenOnNull(c) \/ Call(c) \/ BasicCancel(c) \/ CloseChannel(c)
        \/ LetGo(c) \/ \E autoAck \in BOOLEAN : BasicConsume(c, autoAck)

\* A call returns, or sleeps on.
Waiting(t) == Sleep(t) \/ CancelReturns(t) \/ Destroy(t)

MainWaiting == Waiting(Main) \/ OpenReturns \/ CallReturns \/ ConsumeReturns \/ CloseReturns

Loop == BasicResponse \/ ConsumeResponse \/ Notify \/ HandlerEnds \/ SetConnection \/ Waiting(IO)

Work(w) ==
    Park(w) \/ Take(w) \/ ConsumeMisses(w) \/ ConsumeAuto(w) \/ BasicAck(w) \/ AckReturns(w)
    \/ Waiting(w)

Next ==
    /\ dead = "no"
    /\ \/ Application \/ MainWaiting \/ CountDown \/ Loop \/ Disconnect \/ NullCodec
       \/ \E w \in Worker : Work(w)
       \/ Register \/ Respond \/ Deliver \/ \E c \in Chan : ChooseConsumer(c)

\* Each thread goes on with what it has begun, and the server answers.
Spec ==
    /\ Init /\ [][Next]_vars
    /\ WF_vars(dead = "no" /\ MainWaiting)
    /\ WF_vars(dead = "no" /\ Loop)
    /\ \A w \in Worker : WF_vars(dead = "no" /\ Work(w))
    /\ WF_vars(dead = "no" /\ Respond)

-----------------------------------------------------------------------------
(* Properties.                                                             *)

Request == [ch : Chan, t : Thread, op : Op]
Response == [is : {"response"}, ch : Chan, t : Thread, op : Op, ok : BOOLEAN]
Delivery == [is : {"delivery"}, ch : Chan, m : 1..MaxMsg]
Message == Response \cup Delivery
Task == [ch : Chan, m : 1..MaxMsg]

\* What a thread may be doing.
Doing(t) ==
    {Idle} \cup [at : {"wait", "asleep"}, op : Op, ch : Chan] \cup [at : {"destroy"}, ch : Chan]
    \cup (IF t \in Worker THEN {[at |-> "parked"]} \cup [at : {"run"}, ch : Chan, m : 1..MaxMsg]
          ELSE {})
    \cup (IF t = IO THEN [at : {"notify", "release"}, ch : Chan] ELSE {})

TypeOK ==
    /\ conn \in {"connecting", "latched", "up", "down"}
    /\ chan \in [Chan -> {"new", "managed", "removed"}]
    /\ app \subseteq Chan /\ consumer \subseteq Chan /\ auto \subseteq Chan /\ reset \subseteq Chan
    /\ resps \in [Chan -> SUBSET Response]
    /\ DOMAIN act = Thread
    /\ \A t \in Thread : act[t] \in Doing(t)
    /\ tasks \in Seq(Task)
    /\ dead \in {"no", "null connection", "null codec"}
    /\ toServer \in Seq(Request)
    /\ fromServer \in Seq(Message)
    /\ registered \subseteq Chan
    /\ chosen \in Chan \cup {None}
    /\ sent \in [Chan -> 0..MaxMsg]
    /\ taken \in [Chan -> Seq(1..MaxMsg)]
    /\ missed \in [Chan -> SUBSET (1..MaxMsg)]

\* A caller whose response has come is not asleep: no wake-up is lost, though
\* the application and the workers sleep on one condition variable.
NoneSleepsThroughAnswer == \A t \in Thread : act[t].at = "asleep" => Answers(t) = {}

\* Every response in the map is waited for, by the thread whose request it
\* answers, in the call that made it; and there is one.
AnswersAreAwaited ==
    \A c \in Chan : \A r \in resps[c] :
        /\ Calling(r.t) /\ act[r.t].ch = c /\ act[r.t].op = r.op
        /\ \A other \in resps[c] : other.t = r.t => other = r

\* As long as workers wait for tasks, others were woken, or one is about to be,
\* for all the tasks there are.
WorkersWoken ==
    (\E w \in Worker : act[w].at = "parked") =>
        Len(tasks) <= Cardinality({w \in Worker : act[w] = Idle})
                      + (IF act[IO].at = "notify" THEN 1 ELSE 0)

\* The deliveries to a channel are taken by the workers in the order in which
\* the server sent them, each once, with all others still on their way, until
\* the channel is closed or the connection goes down.
DeliveriesTakenInOrder ==
    \A c \in Managed : conn = "up" =>
        LET line == tasks \o fromServer
            mine == {i \in DOMAIN line :
                        line[i].ch = c /\ (i > Len(tasks) => line[i].is = "delivery")}
        IN  /\ \A k \in DOMAIN taken[c] : taken[c][k] = k
            /\ {line[i].m : i \in mine} = (Len(taken[c]) + 1)..sent[c]
            /\ \A i, j \in mine : i < j => line[i].m < line[j].m

\* Until its subscription has been cancelled, a channel drops a delivery for want
\* of a consumer only while the call that subscribes is waiting or about to
\* return (channel.hpp:203-204, 229-232), never before or later.  After a cancel a
\* delivery may find no consumer: today it still finds one, since BasicCancel
\* resets _codec and leaves _consumer (channel.hpp:219).
MissedWhileSubscribing ==
    [][\A c \in Chan \ reset : missed'[c] # missed[c] =>
           Calling(Main) /\ act[Main].op = "consume" /\ act[Main].ch = c]_vars

\* Where the code waits for ever: the connection is down, a destructor runs in
\* the IO thread, or t calls a channel that is no longer managed (a callback
\* overtaken by CloseChannel, a destructor).
Hopeless(t) ==
    \/ dead # "no" \/ conn = "down" \/ Calling(IO)
    \/ Calling(t) /\ act[t].op \in {"ack", "cancel"} /\ act[t].ch \notin Managed

\* Every other call returns, also when all workers are waiting in callbacks.
CallsReturn == \A t \in Thread : Calling(t) ~> ~Calling(t) \/ Hopeless(t)

\* Every delivery that has entered the pool is taken by a worker, unless none is
\* left that could.
DeliveriesTaken ==
    \A c \in Chan, m \in 1..MaxMsg :
        (\E k \in DOMAIN tasks : tasks[k] = [ch |-> c, m |-> m])
            ~> \/ \E k \in DOMAIN taken[c] : taken[c][k] = m
               \/ \A w \in Worker : Hopeless(w)

=============================================================================
