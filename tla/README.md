# MyMessageQueue: a verification project

MyMessageQueue is a small message broker in C++ (`server/`), with a client
library (`client/`) and shared code (`common/`), on top of muduo, protobuf and
SQLite.  This directory holds TLA+ models of it, the TLC runs that check them
and the TLAPS proofs about them.  `PROJECT.json` maps every definition to the
lines it models; source paths below are relative to `src/`.

## The system

| part | state | operations | meets |
|---|---|---|---|
| message store, `server/message.hpp` | per queue: `_msgs`, `_durableMsgs`, `_waitackMsgs`, two counters, the file `<queue>.mqd` | Insert, Front, Remove (acknowledge), Gc, Recovery, Clear; the manager adds and erases entries | called by the IO thread and the worker, one mutex per queue |
| router, `server/route.hpp` | none | Route | called for every binding of a published message |
| consumers, `server/consumer.hpp` | per queue a list of consumers and a turn counter | Create, Remove, Choose, the manager's InitQueueConsumer and DestoryQueueConsumer | IO thread (subscribe, cancel, channel destructor) and worker (Choose) |
| catalogue: `exchange.hpp`, `msgqueue.hpp`, `binding.hpp` | three maps, three SQLite tables | declare, delete, bind, unbind, recover | IO thread; the worker reads the table of queues |
| virtual host, `server/host.hpp` | the four managers | composes them in handlers of several steps | channels |
| channels and connections, `server/channel.hpp`, `connection.hpp`, `broker.hpp` | channels per connection, one `_consumer` each | the request handlers, the consume task | everything above; tasks keep raw pointers to channels |
| thread pool, `common/threadpool.hpp` | a queue of tasks | enqueue, the worker loop | handlers enqueue, one worker runs; in the client the event loop enqueues for five |
| client, `client/channel.hpp`, `connection.hpp` | `_consumer`, waiting responses | requests that block for a response, deliveries in a pool | the server over TCP |
| codec and dispatcher, `common/codec.cc`, `dispatcher.h` | the connection's buffer | send, the framing loop, refusals, dispatching by type | both ends; muduo's buffers and TCP carry the bytes |
| tables of connections and channels, `server/connection.hpp`, `broker.hpp` | the connections of the server, the channels of each | accept, end, open, close, look up | the dispatcher calls them in the IO thread |

The server runs one event loop, so request handlers never overlap, and a pool
of one worker.  Publishing inserts the message into every queue that is bound
with a matching key and enqueues one *consume task* per queue; the worker takes
the front message, chooses a consumer, sends, and acknowledges for consumers
with auto-ack.  The hard parts are what the two threads do to each other
between two locks, what a queue's deletion leaves behind in the task queue,
objects kept alive or not by raw and shared pointers, and the store's file,
which is rewritten in place, compacted, and read back after a crash.

What makes each part correct:

- *store*: an acknowledgement overwrites its own record and no other; counters,
  index and file agree; accepted messages outlive crashes until acknowledged;
  acknowledged ones never return; garbage is bounded.  This holds while the file
  fits its offsets, 32-bit fields of the `Message` it writes; and where calls of
  the file system fail, only the failures the code cannot make up for break it.
- *link*: requests are served in the order they were sent, once each, however TCP
  cuts them; a whole frame never waits in a buffer; nothing follows a refused one.
- *router*: a message reaches every queue bound with a matching key, and no other.
- *broker*: as many tasks as messages; messages are sent in order and at most
  once; those who can be chosen are there; everything published is sent in the end.
  A failed write that marks a message undoes the first two for that message.
- *catalogue*: memory and database agree, also after a crash inside a handler;
  no binding names a queue or an exchange that is gone, but where a statement failed.
- *client*: every call returns once its response has come; no delivery is lost
  between subscribing and being subscribed.

## Modules

| module | what it is |
|---|---|
| `AckQueue` | the abstract promise of a queue's store: a queue with acknowledgements and a log, no file |
| `MessageStore` | one queue's store: memory, index, counters and the data file as a sequence of records; a crash in every operation |
| `MCMessageStore` | `MessageStore` for TLC, with its symmetry; also checks that `Pick`, and so `Compact`, is the filter `load()` computes |
| `Picks`, `PickProofs` | the subsequence of a sequence at given indices, by which a loop that keeps some elements is modelled, and what is true of it |
| `MessageFile` | the same store down to the layout of its file: two writes for a record, offsets of 32 bits, reused ids, the temporary file, failing calls of `FileHelper` |
| `MCMessageFile` | `MessageFile` for TLC |
| `MessageFileProofs` | theorems about `MessageFile`: everything its run checks |
| `MessageStoreProofs` | theorems about `MessageStore` and its refinement of `AckQueue` |
| `Router` | `Router::Route`, one step per loop iteration, against a definition of matching |
| `RouterProofs` | no matching key is turned away, for keys of every length |
| `DurableMap` | the abstract promise of the catalogue: a map with volatile and durable entries, of which a restart keeps the durable ones |
| `Catalogue` | exchanges, queues and bindings in memory and in their tables, which queues have a store; a crash between any two statements, statements that fail |
| `MCCatalogue` | `Catalogue` for TLC |
| `CatalogueProofs` | theorems about `Catalogue` and its refinement of `DurableMap` |
| `Broker` | IO thread and worker over queues, consumers, channels and tasks |
| `MCBroker` | instances of `Broker` for TLC |
| `BrokerProofs` | theorems about `Broker`: every invariant its runs check |
| `Client` | application, IO thread and pool of the client over one connection and its channels |
| `ClientProofs` | theorems about `Client`: every invariant its run checks, and when a delivery finds no consumer |
| `RequestStream` | the abstract promise of a connection: requests served once each and in order, one answer each |
| `Link` | frames, buffers, the loop of `onMessage`, dispatching, the tables of connections and channels |
| `MCLink` | `Link` for TLC |
| `LinkProofs` | theorems about `Link` and its refinement of `RequestStream` |

### MessageStore

Every operation holds `QueueMessage::_mutex`, so each is one action.  The file
is a sequence of records with a message and a valid flag; offsets count records,
not bytes, which is exact as long as records are whole.  `insert()` assigns the
`size_t` it computes to `Message::offset`, a `uint32` (`msg.proto:32`,
`message.hpp:137`), and a collection copies such offsets (`message.hpp:367`), so
`Place` takes the remainder by `OffsetRange`, which stands for 4 GiB.  No line of
the code refuses an insertion for that, and neither does the model: `outgrown` says
that the file has once been longer, from then on an acknowledgement may mark a
record of another message, and every property of the store is about the time
before.  (`Message::length` is a `uint32` too; it cannot overflow, because the codec
takes no frame above 64 MiB.)  `Gc` is part of the
acknowledgement that triggers it, and of `InitQueueManager` (Recovery calls it
unconditionally).  Crashes inside an operation leave the file in any state the
operation's file-system calls pass through (`GcImages`): the old file, no file
between `remove` and `rename`, or the new one; a record without its body
(`Phantom`).  A message is its id, and ids are unique (`UUIDHelper`).
`GcMinTotal` stands for the 2000 of `GCCheck`.  `MessageManager::Clear` leaves
an entry whose file is gone (status "cleared"): persistent inserts are then
refused.

### MessageFile

What `MessageStore` takes for granted, made explicit.  A cell of the file is a
length word or a body, and an offset counts cells; bodies are all of one length,
so what is wrong with a layout shows as a body read for a length, on which
`load()` throws and the process ends.  Objects (`Message`) are told apart from
messages and ids, because lists and maps share objects, maps are keyed by id, and
a collection makes a new object of a record the index does not know.  All
messages are persistent.  Every call of `FileHelper` may fail: at most one in a
handler, and at most `MaxFault` kinds of them in a behaviour.  The process may die
between any two calls.  Places are cut to `OffsetRange` cells as in `MessageStore`
(`PlaceIn`, `TooLong`, `outgrown`).

`stat()` is one of these calls, and nobody can see that it failed: `Exists` denies
the file (`help.hpp:124`) and `Size` is 0 (`help.hpp:130`).  What follows depends on
where it fails:

| call | where | consequence |
|---|---|---|
| `statCreate` | `Exists` in `CreateFile` at a start (`message.hpp:43`) | the data file is emptied (`Created`) |
| `statInsert` | `Size` in `insert` into the data file (`message.hpp:121`) | the record is written over the first one (`Overwrite`) |
| `statLoad` | `Size` in `load` (`message.hpp:148`) | the file passes for empty, and the collection replaces it by an empty one |
| `statTemp` | `Size` in `insert` into the temporary file | the record is written over the first one collected |

Where `stat()` fails for a file that is not there, `Exists` and `Size` return what they
would have.  That opening the file in `CreateMsgFile` fails has no consequence of its
own, because the collection that follows makes the file anew.

The three invariants name the calls whose failure makes up an exception:

| what happens | calls |
|---|---|
| an accepted message is lost, or no start can read the file (`Losing`) | `stat()` in the four places above, a write of `insert` (`message.hpp:131`), reading a length or a body, creating, opening or writing the temporary file, `rename` |
| a settled message returns (`Reviving`) | marking a record (`message.hpp:82`), removing the files of a deleted queue, creating or opening the temporary file |

`rename` needs seven messages to make a file unreadable, more than the run has:
with the data file gone, the next collection makes an empty one, and messages that
are still in memory are marked in it at their old offsets, past its end.  The attempt
to prove `StartsAgain` without that name failed on this, and TLC, given one id for
each of seven messages published in order and no other failure, finds it; with
six it finds none.

Failing to open the file in `insert` and to remove the old file before `rename`
harm nothing.  `confused` says that a collection met two records of one id:
`publicClient.cpp:36-43` publishes one `properties` object several times, so ids do
repeat.  Then the acknowledgement of one message marks the record of another.
`QuietSteps` says that with unique ids and harmless failures each step is a step of
`AckQueue`, or nothing that it knows of.

### Router

Keys are non-empty sequences of words, as `StrHelper::Split` makes them; words
of a routing key are neither `*` nor `#`, as `IsLegalRoutingKey` has it (the
server does not enforce it).  A *cut* divides the routing key among the words of
the binding key; a key matches if there is a cut.

### Catalogue

The operations of the three managers as `VirtualHost` calls them, all from the
IO thread, so they do not overlap.  One that executes one SQL statement is one
action; DeclareQueue, DeleteQueue and DeleteExchange have one action for each
manager they call, and `pc` says what is left, because the process may die in
between.  A statement is atomic (SQLite commits each) and may fail (`MaxFail`):
a failed insertion refuses the declaration, a failed removal is ignored by the
code and leaves its row.  The SELECT of a start may fail too: that of the exchanges
(`exchange.hpp:123`) or of the bindings (`binding.hpp:104`) has then read none or some
of the rows, and the start goes on with those; that of the queues is in an `assert`
(`msgqueue.hpp:121`; the build sets no `NDEBUG`), so the process dies once more and
nothing has changed.  The tables of exchanges and queues are keyed by name,
so a declaration whose row is still there is refused; the table of bindings has
no key, so a pair may get several rows, of which recovery keeps the oldest
(`bindingRows` is a sequence for each pair).  `Restart` is death at any point
and the constructor of `VirtualHost`, which only reads.  `files` says which
queues have a message file, not what is in it.  Operations that find nothing to
do (a name already declared, a pair already bound, whatever the new key or
durability) change nothing and have no step.

Three variables are history: `stale` (names and pairs with a row that memory does not
know of: a removal failed, or a start did not read it), `dangling` (pairs whose rows a
torn DeleteQueue or a failed removal left, or that a start has read without their
exchange) and
`refused` (queues whose store was made before their declaration was refused).
They say exactly where the code gives up on its own invariants: a crash in
DeleteQueue leaves stored bindings that also bind a queue declared later under
that name, and a failed removal brings the entry back at the next start.
For a type, a key or a flag no step reads there is nothing in the model; of
these the arguments of an exchange do not survive a restart (`SetArgs`,
`exchange.hpp:37`, splits them and drops the parts).

### Broker

A handler is one action where the worker cannot see its inside: subscribe,
cancel, bind, acknowledge, open, close, disconnect.  Publish, DeclareQueue and
DeleteQueue take several locks the worker also takes, and have one action per
such lock.  The worker has one action per lock too, with these merged, because
the order of their parts cannot be told: looking up a list of consumers and
choosing from it (a list out of the map is no longer changed), the three
lookups of an automatic acknowledgement, and erasing and clearing a store.
A worker that has found a store keeps it when the queue is deleted
("front cleared").  Undefined behaviour ends the process with a cause in
`dead`; where the pointer to a freed channel is used the process may also go on.
The clients do what `client/channel.hpp` lets them: one subscription per
channel, whose cancelling does not clear it; acknowledgements of what they were
sent; a cancel request from `~Channel`, even after the channel was closed.
There is one exchange, which exists; publishing picks any non-empty set of bound
queues as those that match.

An acknowledgement, by a client or by the worker, is `QueueMessage::Remove` as a whole:
the record is marked, or the mark fails and nobody notices (`message.hpp:276`); then the
file may be collected (`message.hpp:279`), and what is valid in it without an entry in
the index goes back into `_msgs` (`message.hpp:353-360`), in file order and with no
task.  `unmarked` has those messages before the collection, `requeued` (history) after
it.  So a message whose mark failed is sent again, after later ones, when a later
publication brings a task for it, and `OneTaskPerMessage`, `SentInOrder` and
`AutoAckSettles` say so.  When a collection is due is in `MessageStore`; here it may come
with any acknowledgement.  Messages have ids of their own here; two with one id
(`publicClient.cpp:36`), for which a collection can do the same without any failure,
are in `MessageFile`.  A message whose task met no consumer, and one that was put
back, wait as long as nobody publishes; `Delivered` is checked without failing writes.

Consumers are known by queue and tag.  Nothing checks tags, and `client.cpp:39` writes
`"consumer1"` into the program, so tags are arbitrary here: two channels may share one.
At one queue the second subscription is then none, and its cancel or its channel's
end removes the first (`TagShared`, the exception in `SubscriptionKept`); at different
queues they do each other no harm.

### Link

A request on its way: `ProtobufCodec::send`, the bytes, `onMessage`, the
dispatcher, and the tables that say which connection and channel it is for.
Bytes are counted: of each frame we know where it begins and how long it is, and
a buffer is what lies between `taken` and `arrived`.  `Read` appends any number of
bytes and starts `onMessage`, whose loop takes one action per round; the event loop
does nothing else until it breaks.  A frame may be too long for the receiver
(`fillEmptyBuffer` never looks at `kMaxMessageLen`) or fail any of the checks of
`parse`.  A refused frame stays in the buffer, the connection is shut down for
writing only, and what still arrives meets the same frame again.  The client may
leave in the middle of a frame.  What a request does in its channel is in `Broker`;
a request for a channel that is not open dereferences the end of a map.

`GetValidConnection`'s other branch (no connection in the table) is in the model
and never taken, which `LinkProofs` shows (`Tables`).  `Connection`'s constructor
does not store the codec it is given (`server/connection.hpp:25`), so channels
call `send` through a null pointer; `send` uses no member and the model lets it be.

The refinement of `RequestStream` is what `Client` assumes of its server:
requests answered in order, each once.

### Client

Three kinds of threads: the application, the event loop of the connection and
the workers of the pool; `act` says what each is doing.  A call is a `Send`, then
`WaitResponse`, which either takes the response, together with what the caller
does next without meeting another lock (setting `_consumer`, resetting `_codec`,
removing the channel), or sleeps on `_cv` until `PutBasicResponse` wakes all
that sleep there.  The IO thread has a step for a response or a delivery, one
for `notify_one`, which comes after the unlocking, and one for letting go of its
own pointer to the channel.  A worker parks, takes a task, and calls back; the
callback of a consumer without auto-ack calls `BasicAck`, as the one of
`client.cpp` does, and needs a pointer to the channel for it, so such a channel
is never destroyed (its `_consumer` holds it).  Whoever lets go of the last
pointer runs `~Channel` (`AfterRelease`, `Destroy`).

A thread has one request under way, so it stands for the request's id.  Of the
server there is what the client sees: requests answered in order, a consumer
registered before the answer, deliveries from then on, one of them possibly
chosen before a cancel and sent after it.  A request on a connection that went
down is lost; muduo's `TcpClient` does not reconnect, so it stays down.
The application uses a channel until it has closed it through
`Connection::CloseChannel`.  `MaxMsg` bounds the deliveries; calls are not bounded.

## Runs

| run | checks | instance, and why it is enough |
|---|---|---|
| `store` | type, `OwnRecord`, `IndexMatchesFile`, `AckedStaysGone`, `GarbageBounded`, `SurvivesOutsideSwap`, refinement of `AckQueue` | five persistent messages and a transient one, collections from two records on, offsets for four records: several collections, each moving records, between crashes and restarts, and files that outgrow their offsets by one record |
| `message_file` | `LossExplained`, `ReturnExplained`, `StartsAgain`, `QuietSteps` | three messages, three ids used in any way, collections from two records on, offsets for eight cells, one kind of failing call: a collection with a live record on either side of a dead one, two messages of one id with a third, a failure followed by crashes and starts |
| `store_swap` | `SurvivesCrash` is violated | as `store` |
| `store_recovered` | `RecoveredDeliverable` is violated | as `store` |
| `router` | `NoMissedRoute`, `LastWordRespected`, `Returns` | all keys of one to three words over two words, `*` and `#`: a `#` at the front, in the middle and at the end, taking none, one and two words |
| `router_overmatch` | `OnlyMatchesRouted` is violated | as `router` |
| `catalogue` | type, `TablesMatchMemory`, `BindingsResolve`, `StoresMatchQueues`, refinement of `DurableMap` | two exchanges, two queues, two keys, one failed statement or SELECT, any number of restarts: a pair can get two rows with different keys, an operation on one queue or exchange must leave the other's bindings alone |
| `broker` | type, `OneTaskPerMessage`, `SafeUnlessTainted`, `SentInOrder`, `ConsumersAreOpen`, `SubscriptionKept`, `AutoAckSettles` | one queue that is deleted and declared at will, two channels on two connections with their own tags, two messages, one failed write (an insertion, a declaration or a mark), a collection with any acknowledgement: a message is put back, and sent after the other one |
| `broker_delivery` | `SubscriptionKept`, `Delivered` | two queues, a message routed to either or both, two channels on one connection and with one tag |
| `broker_empty_queue` | `EmptyQueueHandled` is violated | one queue and one message |
| `client` | type, `NoneSleepsThroughAnswer`, `AnswersAreAwaited`, `WorkersWoken`, `DeliveriesTakenInOrder`, `MissedWhileSubscribing`, `CallsReturn`, `DeliveriesTaken` | one channel, two workers, two deliveries: the application and both workers sleep on one condition variable, one delivery meets the other under way, and both workers can be in a callback at once. The properties speak of one channel at a time, and channels share no more than the pool |
| `link` | type, `NothingLeftBehind`, refinement of `RequestStream`, `SentIsServed` | one connection with one channel id, three frames with a header of one byte and two to four of body, one kind too long and one of an unknown type: every cut of three frames into pieces, a refused frame before, between and after good ones. Connections share the event loop only, for which the proofs take any number of them |

Bounds: `Msg` (each message is published once), `OffsetRange`, `MaxLen`, `MaxMsg`, `MaxFail`,
`MaxFault`, `MaxSent`; `Queue` and `Chan` are the finite sets of a configuration.  Declaring, deleting,
subscribing and binding are not bounded.  `broker` is checked up to the
exchange of the two channels, `store` up to that of the persistent messages,
`message_file` and `catalogue` likewise; the runs with liveness use no symmetry.  Deadlock is
checked for the store and the catalogue, which can always crash and restart;
`Router` stops when it returns, `Client` when the connection is down and all wait,
`Broker` when the process is dead or nobody has anything to ask, `MessageFile`
when no start can read the file, and `Link` when the clients have sent all or left.

Fairness: `Router` runs in a thread, so it takes its next step.  In `Broker` a
handler that has begun and the worker, while it has a task, go on
(`WF_vars(dead = "no" /\ Handler)`, `WF_vars(dead = "no" /\ Worker)`): the
event loop runs a handler to its end, and a worker waiting on the condition
variable is notified after every push, both under `_queue_mutex`.  Nothing is
assumed of the clients, of failing writes or of crashes.  In `Client` a call that
has begun, the event loop and each worker go on, each by itself, and the server
answers the first request (what `Broker` assumes of its handlers); the
application need not call and the connection may go down.  The waits that never
end are exceptions named in `Hopeless`.  In `Link` TCP delivers and the event loop
accepts, reads, ends and goes round its loop for every connection that is ready
(`WF_vars` of `Accept`, `Read`, `ReadEnd`, `OnMessage`); nothing is assumed of the
clients.

## What the code does not do as it says

Kept as runs that TLC finds violated (`PROJECT.json`, findings): a crash in the
swap of a collection loses the queue; recovered messages are never delivered;
keys that do not match are routed; a stale consume task takes the front of an
empty list.

Met while modelling, and in the models, without a run of their own:
a consume task that finds no consumer leaves its message among the unacknowledged
ones, where nothing sends it again (`server/channel.hpp:191`);
offsets are cut to 32 bits and nothing limits the file to 4 GiB (`message.hpp:137`);
a `stat()` that fails empties or overwrites the data file (`help.hpp:124-137`);
a record whose body was cut off by a crash is recovered as an empty message
(`message.hpp:164`, `Phantom`); after a failed write of an acknowledgement the
message is queued again by the next collection, under the log line "垃圾回收逻辑错误"
(`message.hpp:276`, 358); Choose after the list was erased calls through a null
pointer (`consumer.hpp:205`); a request for a closed channel dereferences the
end of the map (`channel.hpp:244`); a second subscription with a tag in use is
answered with true and is none (`server/channel.hpp:146`).  With four messages two of
which share an id, a collection and an acknowledgement destroy a third one's record
without any failure (seen once with a larger instance of `MessageFile`).

On the link: a publication of more than 64 MiB is sent and refused; the server logs it
and shuts down writing, the client waits for ever, and since its channels hold the
connection it is never closed, so that the server keeps its consumers and drops what
it delivers to them.

In the client: a channel with a consumer, once closed and dropped, waits for ever
in its destructor, because the response to its cancel request finds no managed
channel (`client/channel.hpp:59`, `connection.hpp:73`), and the thread that waits
may be the IO thread, which ends all responses; a callback that acknowledges
after CloseChannel has returned waits for ever, and the pool has a worker less;
BasicCancel resets `_codec` where `_consumer` is meant (`client/channel.hpp:219`),
so the next call goes through a null pointer and deliveries still call back
(`MissedWhileSubscribing` is about channels that were not cancelled, and TLC finds that
it also holds with `_consumer` reset there);
deliveries that overtake the end of BasicConsume are dropped; OpenChannel may
copy a null connection (`connection.hpp:99`); the pool has five workers and not
the one `client.cpp:21` asks for, because `AsyncWorker` asks first
(`worker.hpp:19`), so callbacks may run at once and out of order.

## Proofs

`MessageStoreProofs` proves, for every set of messages, every choice of the
persistent ones and every threshold of `GCCheck`:
`TypeCorrect`, `OffsetsCorrect` (`OwnRecord`), `IndexAndCountsCorrect`,
`AtMostOnce` (`AckedStaysGone`, `OnePlace`), `GarbageIsBounded`, `Durability`
(`SurvivesOutsideSwap`) and `Implementation` (`Spec => ImplementsAckQueue`).
The only assumption is `MessageStoreAssumption`.  All but `TypeCorrect`'s types are
about behaviours in which the file has not outgrown its offsets; there `Place` is exact,
and that it is follows from the bound on the file's length in each lemma that uses an
offset.

None of them is inductive alone: that an acknowledgement hits its own
record needs the index to be that of the file, which a collection preserves only
if counters and offsets were right before it.  `Inv` joins them, with what ties
the records to history (no message has two records, what is in the list or
waiting was published and is not settled).  The lemmas are in three groups:
`PickProofs` (`Pick` as a bijection with ranks, so that `Compact` keeps each valid
record once and in order), what appending, marking and collecting do to a file, and one
lemma per action that it preserves `Inv`.  `Implementation` maps each action to
a step of `AckQueue` or to a stutter; a collection is a stutter because `Inv`
excludes orphans.

`MessageFileProofs` proves, for any messages and ids, any use of the ids, any threshold
and any bound on failures, what the run `message_file` checks: `LossesExplained`
(`LossExplained`), `ReturnsExplained` (`ReturnExplained`), `StartsPossible`
(`StartsAgain`) and `StepsQuiet` (`QuietSteps`), and `Typed`, the types.  The only
assumption is `MessageFileAssumption`.  As there, they are about files that fit their
offsets, which `PlaceIn` needs to be exact.  The invariant `Inv` has one part for each way
things may go wrong, and each part only says what is left while that has not happened:

- `Bounds`: nothing is in memory or in a file that was not offered, and the index has
  one entry for an id;
- `Single`, until a collection confuses ids: a message has one object in memory, and
  the index has that one if no other message has its id.  So a place a collection
  finds reaches the object that will be acknowledged;
- `Unique`, unless creating the temporary file failed (then a collection appends to
  what an earlier one left): a message has one valid body;
- `NothingDone`, unless a call of `Reviving` failed: besides what `ReturnExplained` says,
  the valid body of a message in memory, if there is one, is where its object has it, so
  that marking destroys the right one even when other failures have misplaced or lost
  bodies;
- `NothingLost`, unless a call of `Losing` failed: lengths and bodies alternate but for a
  length at the end of a dead process's file (`WellFormed`), and the body of
  each message in memory is there (`Placed`);
- that ids are confused only if two messages have one, and, while the state is `Orderly`,
  that the index has every record of the file (`AllIndexed`): a collection that finds
  a record it does not know would queue it, which is not a step of `AckQueue`.

The lemmas go from the file upwards: what a write leaves of a sequence of cells, which
cells start a record, what `load()` finds in a well-formed file and in any file, what a
collection makes of what was found and where, what `Gc` does to memory; then one lemma per
part of `Inv` with a step for each action.  `Starts` and `Temps` are recursive
functions; only their defining equation is used.
`StepsQuiet` is the refinement of `AckQueue` step by step: from `Inv` in both states, each
action is `Publish`, `Deliver`, `Ack`, `Crash` or another of its steps, or a stutter.

`RouterProofs` proves `NoMissedRoute` for keys of every length and any words:
`TableComplete` is inductive together with the types, since a cut of two
prefixes yields a cut of one of the prefixes a cell looks at.

`CatalogueProofs` proves, for any sets of exchanges, queues and keys and any
bound on failures: `TablesCorrect` (`TablesMatchMemory`), `BindingsCorrect`
(`BindingsResolve`), `StoresCorrect` (`StoresMatchQueues`) and `Implementation`
(`Spec => ImplementsDurableMap`), from `CatalogueAssumption`.  `IInv` adds to the
three invariants what an operation that is half done has already established
(`UnderWay`: the bindings of the exchange that is about to go are gone, the
queue whose bindings are about to go is gone, the store of the queue about to
be declared is there).  `BindingsResolve` needs `TablesMatchMemory`: that a
binding is stored only between durable ends says something about the tables
only because a durable end has a row.  The refinement goes entry by entry
(`SameEntries`), then each action adds an entry or removes a group of them; that
a restart removes the volatile entries and no others is `TablesMatchMemory`
again.  A restart that meets a row memory does not know of, or misses one, is excepted
(`Inexact`): every exception needs a statement that failed.

`ClientProofs` proves, for any channels, any finite pool and any number of
deliveries, `TypeCorrect` and `NoWakeUpLost` (`NoneSleepsThroughAnswer`), from
`ClientAssumption`.  A step lets one thread go on without falling asleep
(`OneThread`), or is one of the two that do otherwise: `Sleep`, which has looked
for the answer under the lock, and `PutBasicResponse`, which wakes everyone on the
channel.  The types need `ChosenInBounds`: the message in hand is one that may
still be sent.

`AnswersAwaited` (`AnswersAreAwaited`) follows a request as a token (`Tokens`): it is
on its way, or its response is, or its response is in a map, in one of these
places at most, and its thread waits for just that; `AnswersAreAwaited` alone says
nothing of the first two places and is not inductive.  `TasksHaveWorkers`
(`WorkersWoken`) is inductive given the types and needs `Worker` to be finite: an
idle worker is counted against each task while others are parked.

`TakenInOrder` (`DeliveriesTakenInOrder`) needs `New`, that nothing anywhere names a
channel that was not opened: opening one is what makes it `Managed`, and its line
of deliveries must start empty.  `Lines` says of each managed channel what the
property does, and each step takes from the front of a line, appends to its end or
leaves it alone.

`MissedOnlyWhenSubscribing` (`MissedWhileSubscribing`), an action property, needs an
invariant about every place a subscription can be in: a channel that a delivery can
reach (registered, chosen, on the way, in a task or in a worker's hands) and that has no consumer has a
call that subscribes, which is neither still to be registered nor refused (`Expected`).
Channels whose subscription was cancelled are excepted, so that it does not rest on the
client's forgetting to reset `_consumer`.
`Roles` says which thread can be in which call.

`LinkProofs` proves, for any connections and frames, any header and limits and any
number of requests, `TypeCorrect`, `NoFrameLeft` (`NothingLeftBehind`) and
`Implementation` (`Spec => ImplementsRequestStream`), from `LinkAssumption`.  `IInv` says of each
connection that its frames lie one behind the other (`Positions`), that what was taken ends where
the last handled frame does (`Progress`), that an established connection is in the
table (`Tables`), that a refused one has an unreadable frame at its head (`Stuck`)
and that none else has a whole one while it rests (`Rest`).  So the length read
at the head of a buffer is always that of the next frame, although bytes are cut
anywhere.

`BrokerProofs` proves, for any queues, channels, connections, numbers of messages
and of failures, every invariant of the run `broker`: `TypeCorrect`, `TaskPerMessage`
(`OneTaskPerMessage`), `SafeServer` (`SafeUnlessTainted`), `OrderOfSending`
(`SentInOrder`), `OpenConsumers` (`ConsumersAreOpen`), `AutoAckDone`
(`AutoAckSettles`) and `Subscriptions` (`SubscriptionKept`), from `BrokerAssumption`
alone: tags may be shared, and any number of marks may fail.  None is inductive alone,
and `IInv` adds four parts:

- `Tables`: which of the five tables a queue is in while the handler that changes
  them is between two of its locks; a declared queue has a store and a list, the
  queue being deleted is no longer declared;
- `Remains`: what is left of a queue that is gone.  Messages are there only if the
  queue has a list of consumers or was tainted, which is what `SafeUnlessTainted`
  rests on;
- `Ordered`: what was sent, what the worker carries and what is queued are in line,
  each after those before it or put back (`Follows`), and none is newer than the message
  being published (`Newest`: than the one before it, for a queue that is still to get
  it), so that appending keeps the order; the same bound holds of what is `unmarked` and
  of what the worker is about to acknowledge (`InHand`), which may be put back;
- `Subscribed`: a consumer in a list is its channel's own, has its channel's tag,
  and a list that is out of the map is empty.  Destroying a channel removes by tag and
  from the queue of `own`, which reaches all its entries only because of this.

Each part has one lemma for the requests of one action, one for the handlers with
several steps and one for the worker; what an action does to the sequences
(`Without` as a `Pick`, appending, taking the front) is stated once before them.  What
an acknowledgement may put back is `Removal`, the only thing the other lemmas need to
know of `Remove`: list and `requeued` grow by the same messages, all of them unmarked or
the one acknowledged.

`RouterProofs` also proves `LastWord` (`LastWordRespected`), from the shape of the
last row of the table, and `CatalogueProofs` `TypeCorrect`.

Every invariant and action property of the passing runs has a theorem, and so has
every refinement.  Only model-checked: the liveness
properties `Returns`, `Delivered`, `CallsReturn`, `DeliveriesTaken` and `SentIsServed`
(temporal proofs under fairness are out of the prover's reach), and that `Compact` is
the recursive filter (`MCMessageStore`; recursive operators are out of its reach too).

## Not modelled

The bytes inside a frame (type name, checksum, body: `flaws` says which checks a
frame fails) and the codec at the client's end of the responses; publishing without
properties (an uninitialised pointer, `channel.hpp:118`); `Clear` of the
managers and `GetBinding`, which only tests call; what a response says of a failed
request; whose records a file holds that a crash left to a later queue of the same
name; the destruction of a client's connection and of the pool; logging.
See the components in `PROJECT.json`.

What a file that has outgrown its offsets comes to is in the models, without a promise;
nor is there one for what happens to messages once two of one id have met in a
collection.

## Plan

1. `Broker`'s queues as instances of an abstract queue, proved step by step.
2. The catalogue composed with the stores, for the files that outlive their queues.
