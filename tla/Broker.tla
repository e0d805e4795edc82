------------------------------- MODULE Broker -------------------------------
(***************************************************************************)
(* The server at work: the IO thread that runs the request handlers        *)
(* (server/broker.hpp, channel.hpp) and the one worker of the thread pool  *)
(* that runs the consume tasks the publish handler leaves behind.  They    *)
(* meet in the queues' messages (message.hpp), the queues' consumers       *)
(* (consumer.hpp), the table of queues (host.hpp, msgqueue.hpp) and the    *)
(* task queue (threadpool.hpp).                                            *)
(*                                                                         *)
(* A handler is one step where the worker cannot tell, and one step per    *)
(* lock it takes where it can.  Undefined behaviour ends the process, with *)
(* its cause in "dead"; where a freed channel is used it also may go       *)
(* unnoticed.  What the queues keep on disk is in MessageStore, and which  *)
(* binding keys match in Router; the exchange is one that exists.          *)
(***************************************************************************)
EXTENDS Integers, Sequences, FiniteSets, Picks

CONSTANTS
    Queue,      \* names of queues
    Deletable,  \* those clients delete
    Chan,       \* the ids of channels (UUIDs: none is used twice)
    Conn,       \* the TCP connections
    ConnOf,     \* the connection of each channel
    TagOf,      \* the tag with which each channel subscribes
    MaxMsg,     \* messages published
    MaxFail,    \* writes to the disk or the database that fail
    None        \* a null ConsumerPtr

Consumer == [tag : {TagOf[c] : c \in Chan}, q : Queue, auto : BOOLEAN, ch : Chan]
Subscription == [q : Queue, on : BOOLEAN]

ASSUME BrokerAssumption ==
    /\ Deletable \subseteq Queue
    /\ ConnOf \in [Chan -> Conn]
    /\ DOMAIN TagOf = Chan
    /\ MaxMsg \in Nat
    /\ MaxFail \in Nat
    /\ None \notin Consumer \cup Subscription

VARIABLES
    declared,   \* MsgQueueManager::_msg_queues
    bound,      \* queues bound to the exchange (BindingManager::_bindings)
    stores,     \* queues with an entry in MessageManager::_queMsgs
    msgs,       \* QueueMessage::_msgs of each queue
    waitack,    \* QueueMessage::_waitackMsgs of each queue
    unmarked,   \* its messages removed since, whose records in the file are
                \* still valid: the mark failed
    lists,      \* queues with an entry in ConsumerManager::_qconsumer
    consumers,  \* QueueConsumer::_consumers of each queue
    rrSeq,      \* QueueConsumer::_rrSeq of each queue
    chan,       \* "new", "open", "closed", or "gone" with its connection
    own,        \* Channel::_consumer in the server
    sub,        \* Channel::_consumer in the client; on is history: neither cancelled
                \* nor the queue deleted since
    tasks,      \* ThreadPool::_tasks: the publishing channel and the queue
    io,         \* the handler in progress
    worker,     \* the task in progress
    dead,       \* the undefined behaviour met, or "no"
    \* history
    published,  \* number of messages published
    failed,     \* number of failed writes
    tainted,    \* queues deleted, or that a message failed to enter
    sent,       \* to each queue's consumers: message, channel, auto-ack
    requeued    \* messages of each queue that a collection has put back

tables == <<declared, bound, stores, lists>>
content == <<msgs, waitack, unmarked>>
subscribers == <<consumers, rrSeq, own, sub>>
history == <<published, failed, tainted, sent, requeued>>
vars == <<tables, content, subscribers, chan, tasks, io, worker, dead, history>>

Idle == [at |-> "idle"]
Task == [ch : Chan, q : Queue]
\* Messages in the order of publication, each with an id of its own (those that
\* share one are in MessageFile).
Ids == 1..MaxMsg

\* The server starts with the queues and bindings found in the database, each
\* with a store and an empty list of consumers (broker.hpp:42-46).
Init ==
    /\ declared \in SUBSET Queue
    /\ bound \in SUBSET declared
    /\ stores = declared
    /\ lists = declared
    /\ msgs = [q \in Queue |-> <<>>]
    /\ waitack = [q \in Queue |-> {}]
    /\ unmarked = [q \in Queue |-> {}]
    /\ consumers = [q \in Queue |-> <<>>]
    /\ rrSeq = [q \in Queue |-> 0]
    /\ chan = [c \in Chan |-> "new"]
    /\ own = [c \in Chan |-> None]
    /\ sub = [c \in Chan |-> None]
    /\ tasks = <<>>
    /\ io = Idle
    /\ worker = Idle
    /\ dead = "no"
    /\ published = 0
    /\ failed = 0
    /\ tainted = {}
    /\ sent = [q \in Queue |-> <<>>]
    /\ requeued = [q \in Queue |-> <<>>]

-----------------------------------------------------------------------------
(* Requests, as the clients of client/channel.hpp make them: the handler    *)
(* starts when the IO thread is idle.                                       *)

Request(c) == io = Idle /\ chan[c] = "open"

OpenChannel(c) ==
    /\ io = Idle
    /\ chan[c] = "new"
    /\ chan' = [chan EXCEPT ![c] = "open"]
    /\ UNCHANGED <<tables, content, subscribers, tasks, io, worker, dead, history>>

\* Mutant: whoever is first is removed.
WithoutFirst(list, tags) == IF list = <<>> \/ tags = {} THEN list ELSE Tail(list)

\* QueueConsumer::Remove of these tags; no two consumers of a list share one.
Without(list, tags) == Pick(list, {k \in DOMAIN list : list[k].tag \notin tags})

\* Mutant: the consumer is removed by its tag, wherever it is.
DestroyedAnywhere(C) ==
    [q \in Queue |->
        IF q \in lists
        THEN Without(consumers[q], {own[c].tag : c \in {d \in C : own[d] # None}})
        ELSE consumers[q]]

\* ~Channel of the channels C: each removes its consumer, by queue and tag.
Destroyed(C) ==
    [q \in Queue |->
        IF q \in lists
        THEN Without(consumers[q],
                     {own[c].tag : c \in {d \in C : own[d] # None /\ own[d].q = q}})
        ELSE consumers[q]]

\* Mutant: a channel without a destructor.
CloseChannelLeaves(c) ==
    /\ Request(c)
    /\ chan' = [chan EXCEPT ![c] = "closed"]
    /\ own' = [own EXCEPT ![c] = None]
    /\ UNCHANGED <<tables, content, consumers, rrSeq, sub, tasks, io, worker, dead, history>>

CloseChannel(c) ==
    /\ Request(c)
    /\ chan' = [chan EXCEPT ![c] = "closed"]
    /\ consumers' = Destroyed({c})
    /\ own' = [own EXCEPT ![c] = None]
    /\ UNCHANGED <<tables, content, rrSeq, sub, tasks, io, worker, dead, history>>

\* A connection goes down: its channels are freed, open or not yet closed.
DeleteConnection(k) ==
    LET C == {c \in Chan : ConnOf[c] = k}
    IN  /\ io = Idle
        /\ \E c \in C : chan[c] # "gone"
        /\ chan' = [c \in Chan |-> IF c \in C THEN "gone" ELSE chan[c]]
        /\ consumers' = Destroyed(C)
        /\ own' = [c \in Chan |-> IF c \in C THEN None ELSE own[c]]
        /\ UNCHANGED <<tables, content, rrSeq, sub, tasks, io, worker, dead, history>>

\* The client's ~Channel cancels its subscription, which no call resets, on a
\* channel already closed: GetChannel dereferences the end of the map.
LateRequest(c) ==
    /\ io = Idle
    /\ chan[c] = "closed"
    /\ sub[c] # None
    /\ dead' = "late request"
    /\ UNCHANGED <<tables, content, subscribers, chan, tasks, io, worker, history>>

\* The response is true whether or not Create made a consumer, and the client
\* asks once per channel.
BasicConsume(c, q, auto) ==
    LET con == [tag |-> TagOf[c], q |-> q, auto |-> auto, ch |-> c]
        ok == q \in lists /\ \A k \in DOMAIN consumers[q] : consumers[q][k].tag # con.tag
    IN  /\ Request(c)
        /\ sub[c] = None
        /\ q \in declared
        /\ consumers' = [consumers EXCEPT ![q] = IF ok THEN Append(@, con) ELSE @]
        /\ own' = [own EXCEPT ![c] = IF ok THEN con ELSE None]
        /\ sub' = [sub EXCEPT ![c] = [q |-> q, on |-> TRUE]]
        /\ UNCHANGED <<tables, content, rrSeq, chan, tasks, io, worker, dead, history>>

BasicCancel(c) ==
    /\ Request(c)
    /\ sub[c] # None
    /\ sub[c].q \in lists
    /\ consumers' = [consumers EXCEPT ![sub[c].q] = Without(@, {TagOf[c]})]
    /\ sub' = [sub EXCEPT ![c].on = FALSE]
    /\ UNCHANGED <<tables, content, rrSeq, own, chan, tasks, io, worker, dead, history>>

\* The messages of S in the order of their records in the file.
InFileOrder(S) == Pick([m \in Ids |-> m], S)

\* QueueMessage::Remove, under the queue's lock.  A failure to mark the record
\* invalid is not noticed.  Then the file may be collected (when, is in
\* MessageStore): what is valid in it and has no entry in the index is back
\* among the messages to be sent, and no task is made for it.
Remove(q, m) ==
    \E marked, collected \in BOOLEAN :
        LET orphans == IF marked THEN unmarked[q] ELSE unmarked[q] \cup {m}
            back == IF collected THEN InFileOrder(orphans) ELSE <<>>
        IN  /\ marked \/ failed < MaxFail
            /\ failed' = IF marked THEN failed ELSE failed + 1
            /\ waitack' = [waitack EXCEPT ![q] = @ \ {m}]
            /\ msgs' = [msgs EXCEPT ![q] = @ \o back]
            /\ requeued' = [requeued EXCEPT ![q] = @ \o back]
            /\ unmarked' = [unmarked EXCEPT ![q] = IF collected THEN {} ELSE orphans]

\* A client acknowledges what it was sent.
BasicAck(c, m) ==
    /\ Request(c)
    /\ sub[c] # None
    /\ LET q == sub[c].q IN
        /\ q \in declared \cap stores
        /\ \E k \in DOMAIN sent[q] : sent[q][k].m = m /\ sent[q][k].ch = c
        /\ m \in waitack[q]
        /\ Remove(q, m)
    /\ UNCHANGED <<tables, subscribers, chan, tasks, io, worker, dead, published, tainted,
                   sent>>

QueueBind(c, q) ==
    /\ Request(c)
    /\ q \in declared \ bound
    /\ bound' = bound \cup {q}
    /\ UNCHANGED <<declared, stores, lists, content, subscribers, chan, tasks, io, worker,
                   dead, history>>

QueueUnBind(c, q) ==
    /\ Request(c)
    /\ q \in bound
    /\ bound' = bound \ {q}
    /\ UNCHANGED <<declared, stores, lists, content, subscribers, chan, tasks, io, worker,
                   dead, history>>

-----------------------------------------------------------------------------
(* Channel::BasicPublish: into each bound queue whose key matches, in any   *)
(* order, the message is inserted and then a task to consume it enqueued.   *)

BasicPublish(c, matching) ==
    /\ Request(c)
    /\ published < MaxMsg
    /\ published' = published + 1
    /\ io' = [at |-> "insert", ch |-> c, todo |-> matching]
    /\ UNCHANGED <<tables, content, subscribers, chan, tasks, worker, dead, failed,
                   tainted, sent, requeued>>

Insert(q) ==
    /\ io.at = "insert"
    /\ q \in io.todo
    /\ msgs' = [msgs EXCEPT ![q] = Append(@, published)]
    /\ io' = [at |-> "enqueue", ch |-> io.ch, todo |-> io.todo, q |-> q]
    /\ UNCHANGED <<tables, waitack, unmarked, subscribers, chan, tasks, worker, dead, history>>

\* The message does not reach the file; BasicPublish ignores the result.
InsertFails(q) ==
    /\ io.at = "insert"
    /\ q \in io.todo
    /\ failed < MaxFail
    /\ failed' = failed + 1
    /\ tainted' = tainted \cup {q}
    /\ io' = [at |-> "enqueue", ch |-> io.ch, todo |-> io.todo, q |-> q]
    /\ UNCHANGED <<tables, content, subscribers, chan, tasks, worker, dead, published, sent,
                   requeued>>

\* What the publish handler does next.
AfterEnqueue ==
    IF io.todo = {io.q} THEN Idle
    ELSE [at |-> "insert", ch |-> io.ch, todo |-> io.todo \ {io.q}]

\* Mutant: no task is added while another one is waiting.
EnqueueOnce ==
    /\ io.at = "enqueue"
    /\ tasks' = IF tasks = <<>> THEN <<[ch |-> io.ch, q |-> io.q]>> ELSE tasks
    /\ io' = AfterEnqueue
    /\ UNCHANGED <<tables, content, subscribers, chan, worker, dead, history>>

Enqueue ==
    /\ io.at = "enqueue"
    /\ tasks' = Append(tasks, [ch |-> io.ch, q |-> io.q])
    /\ io' = AfterEnqueue
    /\ UNCHANGED <<tables, content, subscribers, chan, worker, dead, history>>

-----------------------------------------------------------------------------
(* Channel::DeclareQueue: first the store, then the table and the database, *)
(* then the list of consumers.                                              *)

DeclareQueue(c, q) ==
    /\ Request(c)
    /\ stores' = stores \cup {q}
    /\ io' = [at |-> "declare", q |-> q]
    /\ UNCHANGED <<declared, bound, lists, content, subscribers, chan, tasks, worker, dead,
                   history>>

\* Mutant: the queue gets no list of consumers.
InitQueueConsumerForgets ==
    /\ io.at = "declare"
    /\ declared' = declared \cup {io.q}
    /\ io' = Idle
    /\ UNCHANGED <<bound, stores, lists, content, subscribers, chan, tasks, worker, dead,
                   history>>

InitQueueConsumer ==
    /\ io.at = "declare"
    /\ declared' = declared \cup {io.q}
    /\ lists' = lists \cup {io.q}
    /\ io' = Idle
    /\ UNCHANGED <<bound, stores, content, subscribers, chan, tasks, worker, dead, history>>

\* The row is not written: the store remains, undeclared.
DeclareFails ==
    /\ io.at = "declare"
    /\ io.q \notin declared
    /\ failed < MaxFail
    /\ failed' = failed + 1
    /\ io' = Idle
    /\ UNCHANGED <<tables, content, subscribers, chan, tasks, worker, dead, published,
                   tainted, sent, requeued>>

(* Channel::DeleteQueue: the table, the bindings, the store, the consumers. *)

DeleteQueue(c, q) ==
    /\ Request(c)
    /\ declared' = declared \ {q}
    /\ bound' = bound \ {q}
    /\ io' = [at |-> "delete", q |-> q]
    /\ UNCHANGED <<stores, lists, content, subscribers, chan, tasks, worker, dead, history>>

\* A worker that has found the store keeps it, and finds it cleared.
DestroyQueueMessage ==
    /\ io.at = "delete"
    /\ stores' = stores \ {io.q}
    /\ msgs' = [msgs EXCEPT ![io.q] = <<>>]
    /\ waitack' = [waitack EXCEPT ![io.q] = {}]
    /\ unmarked' = [unmarked EXCEPT ![io.q] = {}]
    /\ tainted' = tainted \cup {io.q}
    /\ worker' = IF worker.at = "front" /\ worker.q = io.q
                 THEN [worker EXCEPT !.at = "front cleared"]
                 ELSE worker
    /\ io' = [io EXCEPT !.at = "destroy"]
    /\ UNCHANGED <<declared, bound, lists, subscribers, chan, tasks, dead, published, failed,
                   sent, requeued>>

DestoryQueueConsumer ==
    /\ io.at = "destroy"
    /\ lists' = lists \ {io.q}
    /\ consumers' = [consumers EXCEPT ![io.q] = <<>>]
    /\ rrSeq' = [rrSeq EXCEPT ![io.q] = 0]
    /\ sub' = [c \in Chan |-> IF sub[c] # None /\ sub[c].q = io.q
                              THEN [sub[c] EXCEPT !.on = FALSE]
                              ELSE sub[c]]
    /\ io' = Idle
    /\ UNCHANGED <<declared, bound, stores, content, own, chan, tasks, worker, dead, history>>

-----------------------------------------------------------------------------
(* Channel::consume in the worker, for the channel that published.          *)

Take ==
    /\ worker = Idle
    /\ tasks # <<>>
    /\ worker' = [at |-> "find", ch |-> Head(tasks).ch, q |-> Head(tasks).q]
    /\ tasks' = Tail(tasks)
    /\ UNCHANGED <<tables, content, subscribers, chan, io, dead, history>>

\* MessageManager::Front finds the store, or consume returns.
Find ==
    /\ worker.at = "find"
    /\ worker' = IF worker.q \in stores THEN [worker EXCEPT !.at = "front"] ELSE Idle
    /\ UNCHANGED <<tables, content, subscribers, chan, tasks, io, dead, history>>

\* Mutant: Front takes the message at the back.
FrontTakesBack ==
    /\ worker.at = "front"
    /\ msgs[worker.q] # <<>>
    /\ LET s == msgs[worker.q]
           m == s[Len(s)]
       IN  /\ msgs' = [msgs EXCEPT ![worker.q] = SubSeq(s, 1, Len(s) - 1)]
           /\ waitack' = [waitack EXCEPT ![worker.q] = @ \cup {m}]
           /\ worker' = [at |-> "choose", ch |-> worker.ch, q |-> worker.q, m |-> m]
    /\ UNCHANGED <<tables, unmarked, subscribers, chan, tasks, io, dead, history>>

Front ==
    /\ worker.at = "front"
    /\ msgs[worker.q] # <<>>
    /\ LET m == Head(msgs[worker.q]) IN
        /\ msgs' = [msgs EXCEPT ![worker.q] = Tail(@)]
        /\ waitack' = [waitack EXCEPT ![worker.q] = @ \cup {m}]
        /\ worker' = [at |-> "choose", ch |-> worker.ch, q |-> worker.q, m |-> m]
    /\ UNCHANGED <<tables, unmarked, subscribers, chan, tasks, io, dead, history>>

\* front() and pop_front() of an empty deque.
FrontOfEmpty ==
    /\ \/ worker.at = "front cleared"
       \/ worker.at = "front" /\ msgs[worker.q] = <<>>
    /\ dead' = "empty queue"
    /\ UNCHANGED <<tables, content, subscribers, chan, tasks, io, worker, history>>

\* Mutant: the code goes on with a null consumer.
ChooseUnchecked ==
    /\ worker.at = "choose"
    /\ worker.q \in lists
    /\ LET list == consumers[worker.q]
           turn == rrSeq[worker.q]
       IN  /\ worker' = [at |-> "callback", ch |-> worker.ch, q |-> worker.q, m |-> worker.m,
                         con |-> IF list = <<>> THEN None ELSE list[(turn % Len(list)) + 1]]
           /\ rrSeq' = [rrSeq EXCEPT ![worker.q] = turn + 1]
    /\ UNCHANGED <<tables, content, consumers, own, sub, chan, tasks, io, dead, history>>

\* ConsumerManager::Choose: the next consumer in turn, or consume returns.
Choose ==
    /\ worker.at = "choose"
    /\ worker.q \in lists
    /\ LET list == consumers[worker.q]
           turn == rrSeq[worker.q]
       IN  IF list = <<>>
           THEN worker' = Idle /\ rrSeq' = rrSeq
           ELSE /\ worker' = [at |-> "callback", ch |-> worker.ch, q |-> worker.q,
                              m |-> worker.m, con |-> list[(turn % Len(list)) + 1]]
                /\ rrSeq' = [rrSeq EXCEPT ![worker.q] = turn + 1]
    /\ UNCHANGED <<tables, content, consumers, own, sub, chan, tasks, io, dead, history>>

\* Choose calls a member of a null QueueConsumerPtr.
ChooseOfNull ==
    /\ worker.at = "choose"
    /\ worker.q \notin lists
    /\ dead' = "no consumer list"
    /\ UNCHANGED <<tables, content, subscribers, chan, tasks, io, worker, history>>

Callback ==
    /\ worker.at = "callback"
    /\ sent' = [sent EXCEPT ![worker.q] =
                   Append(@, [m |-> worker.m, ch |-> worker.con.ch, auto |-> worker.con.auto])]
    /\ worker' = IF worker.con.auto THEN [worker EXCEPT !.at = "ack"] ELSE Idle
    /\ UNCHANGED <<tables, content, subscribers, chan, tasks, io, dead, published, failed,
                   tainted, requeued>>

\* Mutant: the worker leaves the acknowledgement to the consumer.
AutoAckForgets ==
    /\ worker.at = "ack"
    /\ worker' = Idle
    /\ UNCHANGED <<tables, content, subscribers, chan, tasks, io, dead, history>>

\* BasicAck by the worker: nothing is left to remove if the queue is deleted.
AutoAck ==
    /\ worker.at = "ack"
    /\ \/ /\ worker.q \in declared \cap stores
          /\ worker.m \in waitack[worker.q]
          /\ Remove(worker.q, worker.m)
       \/ /\ worker.q \notin declared \cap stores \/ worker.m \notin waitack[worker.q]
          /\ UNCHANGED <<content, failed, requeued>>
    /\ worker' = Idle
    /\ UNCHANGED <<tables, subscribers, chan, tasks, io, dead, published, tainted, sent>>

\* The task's "this", or the chosen consumer's, is a channel freed since.
UseOfFreed ==
    /\ \/ worker.at \in {"find", "choose", "ack"} /\ chan[worker.ch] # "open"
       \/ worker.at = "callback" /\ chan[worker.con.ch] # "open"
    /\ dead' = "freed channel"
    /\ UNCHANGED <<tables, content, subscribers, chan, tasks, io, worker, history>>

-----------------------------------------------------------------------------
Requests ==
    \/ \E k \in Conn : DeleteConnection(k)
    \/ \E c \in Chan :
        \/ OpenChannel(c) \/ CloseChannel(c) \/ LateRequest(c) \/ BasicCancel(c)
        \/ \E q \in Queue, auto \in BOOLEAN : BasicConsume(c, q, auto)
        \/ \E m \in Ids : BasicAck(c, m)
        \/ \E q \in Queue : QueueBind(c, q) \/ QueueUnBind(c, q) \/ DeclareQueue(c, q)
        \/ \E q \in Deletable : DeleteQueue(c, q)
        \/ \E matching \in SUBSET bound \ {{}} : BasicPublish(c, matching)

\* A handler once begun goes on; a failed write is no duty of its.
Handler ==
    \/ \E q \in Queue : Insert(q)
    \/ Enqueue
    \/ InitQueueConsumer
    \/ DestroyQueueMessage
    \/ DestoryQueueConsumer

WriteFails == DeclareFails \/ \E q \in Queue : InsertFails(q)

Worker == Take \/ Find \/ Front \/ FrontOfEmpty \/ Choose \/ ChooseOfNull \/ Callback \/ AutoAck

Next == dead = "no" /\ (Requests \/ Handler \/ WriteFails \/ Worker \/ UseOfFreed)

\* A handler runs to its end, and so does the worker's loop; the clients owe
\* nothing.
Spec ==
    /\ Init /\ [][Next]_vars
    /\ WF_vars(dead = "no" /\ Handler)
    /\ WF_vars(dead = "no" /\ Worker)

-----------------------------------------------------------------------------
(* Properties.                                                             *)

\* Where a handler or a task can be, with what it has at hand there.
Publishing == [at : {"insert"}, ch : Chan, todo : SUBSET Queue]
Leaving == [at : {"enqueue"}, ch : Chan, todo : SUBSET Queue, q : Queue]
Administering == [at : {"declare", "delete", "destroy"}, q : Queue]
HandlerState == {Idle} \cup Publishing \cup Leaving \cup Administering

Fetching == [at : {"find", "front", "front cleared"}, ch : Chan, q : Queue]
Choosing == [at : {"choose"}, ch : Chan, q : Queue, m : Ids]
Delivering == [at : {"callback", "ack"}, ch : Chan, q : Queue, m : Ids, con : Consumer]
WorkerState == {Idle} \cup Fetching \cup Choosing \cup Delivering

TypeOK ==
    /\ declared \subseteq Queue /\ bound \subseteq Queue
    /\ stores \subseteq Queue /\ lists \subseteq Queue
    /\ msgs \in [Queue -> Seq(Ids)]
    /\ waitack \in [Queue -> SUBSET Ids]
    /\ unmarked \in [Queue -> SUBSET Ids]
    /\ consumers \in [Queue -> Seq(Consumer)]
    /\ rrSeq \in [Queue -> Nat]
    /\ chan \in [Chan -> {"new", "open", "closed", "gone"}]
    /\ own \in [Chan -> Consumer \cup {None}]
    /\ sub \in [Chan -> Subscription \cup {None}]
    /\ tasks \in Seq(Task)
    /\ io \in HandlerState
    /\ worker \in WorkerState
    /\ dead \in {"no", "late request", "empty queue", "no consumer list", "freed channel"}
    /\ published \in 0..MaxMsg
    /\ failed \in 0..MaxFail
    /\ tainted \subseteq Queue
    /\ sent \in [Queue -> Seq([m : Ids, ch : Chan, auto : BOOLEAN])]
    /\ requeued \in [Queue -> Seq(Ids)]

\* The consume tasks under way that will take a message of q's store.
Pending(q) ==
    Cardinality({k \in DOMAIN tasks : tasks[k].q = q})
    + (IF worker.at \in {"find", "front"} /\ worker.q = q THEN 1 ELSE 0)
    + (IF io.at = "enqueue" /\ io.q = q THEN 1 ELSE 0)

\* Every message has its task (channel.hpp:127-133), whatever fails or is
\* deleted, but for as many as collections have put back (message.hpp:353-360):
\* those wait until later publications bring more tasks.  Nor is there a task
\* without a message, unless the queue was deleted before or a message failed to
\* enter it.
OneTaskPerMessage ==
    \A q \in Queue :
        /\ Len(msgs[q]) <= Pending(q) + Len(requeued[q])
        /\ q \notin tainted => Pending(q) + Len(requeued[q]) <= Len(msgs[q])

\* As long as a queue is not deleted and takes every message, the worker meets
\* neither an empty list of messages nor a missing list of consumers.
SafeUnlessTainted ==
    dead \in {"empty queue", "no consumer list"} => worker.q \in tainted

PutBack(q) == {requeued[q][k] : k \in DOMAIN requeued[q]}

\* Consumers are sent the messages of a queue in the order of publication, each
\* at most once, with those still queued to come.  Only a message whose mark
\* failed, and that a collection has put back, is sent again, and then after
\* messages published later.
SentInOrder ==
    \A q \in Queue :
        LET line == [k \in DOMAIN sent[q] |-> sent[q][k].m]
                    \o (IF worker.at \in {"choose", "callback"} /\ worker.q = q
                        THEN <<worker.m>> ELSE <<>>)
                    \o msgs[q]
        IN  \A k, l \in DOMAIN line : k < l => line[k] < line[l] \/ line[l] \in PutBack(q)

\* A consumer that can still be chosen belongs to an open channel, and only one
\* of the channel's.
ConsumersAreOpen ==
    \A q \in Queue : \A k \in DOMAIN consumers[q] :
        LET con == consumers[q][k] IN chan[con.ch] = "open" /\ own[con.ch] = con

\* Another channel has used c's tag at c's queue: consumers are known by these
\* two alone (consumer.hpp:56-81), so it may have taken c's place, or removed it.
TagShared(c) ==
    \E d \in Chan \ {c} : TagOf[d] = TagOf[c] /\ sub[d] # None /\ sub[d].q = sub[c].q

\* A client that has subscribed, neither cancelled nor closed its channel, and
\* whose queue was not deleted since, is among the consumers, whatever those
\* with other tags or at other queues do.
SubscriptionKept ==
    \A c \in Chan :
        chan[c] = "open" /\ sub[c] # None =>
            \/ ~sub[c].on
            \/ \E k \in DOMAIN consumers[sub[c].q] : consumers[sub[c].q][k].ch = c
            \/ TagShared(c)

\* A message sent to a consumer that need not acknowledge is not kept waiting
\* for one once the worker has finished with it; put back, it may be sent to one
\* that has to.
AutoAckSettles ==
    \A q \in Queue : \A k \in DOMAIN sent[q] :
        LET s == sent[q][k] IN
        s.auto /\ s.m \in waitack[q] =>
            \/ worker.at = "ack" /\ worker.q = q /\ worker.m = s.m
            \/ q \notin declared
            \/ s.m \in PutBack(q)

\* A message of a queue that has consumers is sent, unless they leave or the
\* queue is deleted.
Delivered ==
    \A q \in Queue, m \in Ids :
        (\E k \in DOMAIN msgs[q] : msgs[q][k] = m) /\ consumers[q] # <<>>
            ~> \/ \E k \in DOMAIN sent[q] : sent[q][k].m = m
               \/ consumers[q] = <<>>
               \/ dead # "no"

-----------------------------------------------------------------------------
(* What comments and log lines of the code say, and the code does not do.  *)

\* "No message" is an outcome of a consume task (channel.hpp:184).
EmptyQueueHandled == dead # "empty queue"

=============================================================================
