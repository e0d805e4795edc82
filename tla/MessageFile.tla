----------------------------- MODULE MessageFile -----------------------------
(***************************************************************************)
(* The messages of one queue down to the layout of their file, with what   *)
(* MessageStore takes for granted made explicit: a record is two writes, a *)
(* length and a body, and 32 bits keep its place; every call of FileHelper *)
(* may fail, stat() included, most of them with nobody looking; the        *)
(* temporary file of a collection outlives a failure; a publisher may use  *)
(* one id for two messages, while the maps of QueueMessage are keyed by id *)
(* and share their Message objects with the list.                          *)
(*                                                                         *)
(* The file is a sequence of cells, each a length word or a body: bodies   *)
(* are all of one length.  A cell of zero bytes is the length of an empty  *)
(* record.  All messages here are persistent; one handler meets at most    *)
(* one failure, and a behaviour at most MaxFault kinds of them.            *)
(***************************************************************************)
EXTENDS Integers, Picks, Functions

CONSTANTS
    Msg,         \* messages
    Id,          \* ids that publishers use
    Phantom,     \* what parsing bytes that are no record yields; also its id
    NoFile,      \* a file that does not exist
    GcMinTotal,  \* GCCheck never collects a file of this many records, 2000
    OffsetRange, \* how many cells a uint32 can tell apart: 4 GiB of them
    MaxFault     \* bound on the kinds of failures in a behaviour

VARIABLES
    idOf,      \* the id each message is published with
    up,        \* MessageManager has the queue
    msgs,      \* QueueMessage::_msgs, of message objects
    index,     \* the objects in _durableMsgs
    waitack,   \* the objects in _waitackMsgs
    offset,    \* Message::offset by object, in cells; 0 if never set, when
               \* Message::length is 0 as well
    total,     \* _total_count
    valid,     \* _valid_count
    datafile,  \* <queue>.mqd
    tempfile,  \* <queue>.tmp
    accepted,  \* history: messages Insert returned true for
    done,      \* history: those acknowledged, or destroyed with the queue
    offered,   \* history: messages handed to Insert
    faults,    \* history: the calls that have failed
    swapLost,  \* history: a crash fell between remove and rename
    confused,  \* history: a collection met two records it could not tell apart
    outgrown   \* history: a file has been too long for one more record

memory  == <<up, msgs, index, waitack, offset, total, valid>>
files   == <<datafile, tempfile>>
history == <<accepted, done, offered, faults, swapLost, confused>>
vars    == <<idOf, memory, files, history, outgrown>>

-----------------------------------------------------------------------------
(* The bytes.                                                              *)

Cell == [is : {"length", "zero", "body"}, msg : Msg \cup {Phantom}, valid : BOOLEAN]

ASSUME MessageFileAssumption ==
    /\ Phantom \notin Msg \cup Id
    /\ NoFile \notin Seq(Cell)
    /\ GcMinTotal \in Nat
    /\ OffsetRange \in Nat \ {0, 1}
    /\ MaxFault \in Nat

Length == [is |-> "length", msg |-> Phantom, valid |-> TRUE]
Zero   == [is |-> "zero", msg |-> Phantom, valid |-> TRUE]

Body(m, v) == [is |-> "body", msg |-> m, valid |-> v]

\* FileHelper::Size: 0 if there is no file.  It is 0 as well if stat() fails,
\* which the failures stat... below stand for.
Size(f) == IF f = NoFile THEN 0 ELSE Len(f)

\* FileHelper::Write at a place; seeking past the end leaves zeros.
WriteAt(f, place, cell) ==
    [i \in 1..(IF place > Size(f) THEN place ELSE Size(f)) |->
        IF i = place THEN cell ELSE IF i <= Size(f) THEN f[i] ELSE Zero]

\* What insert() leaves in a file that can be opened when the writes in
\* "unseen" are lost: fstream buffers a write and its close() is not checked;
\* of the body's write the result is not used either (line 132).
Put(f, m, unseen) ==
    IF m = Phantom
    THEN IF "length" \in unseen THEN f ELSE Append(f, Zero)
    ELSE CASE unseen = {}         -> f \o <<Length, Body(m, TRUE)>>
           [] unseen = {"length"} -> f \o <<Zero, Body(m, TRUE)>>
           [] unseen = {"body"}   -> Append(f, Length)
           [] OTHER               -> f

\* What insert() leaves if stat() fails: it writes at the start of the file.
Overwrite(f, m) ==
    IF m = Phantom THEN WriteAt(f, 1, Zero)
    ELSE WriteAt(WriteAt(f, 1, Length), 2, Body(m, TRUE))

\* Mutant: the size of the length word is left out.
PlaceInShort(f) == (Size(f) % OffsetRange) + 1

\* Message::offset after insert() into a file that seems as long as f: the
\* uint32 is the remainder of the size_t that is assigned to it.
PlaceIn(f) == ((Size(f) + 1) % OffsetRange) + 1

\* One more record would lie beyond what an offset can say.
TooLong(f) == Size(f) + 2 > OffsetRange

Unseen == {{"length"}, {"body"}, {"length", "body"}}

-----------------------------------------------------------------------------
(* load().                                                                 *)

Empty == [msg |-> Phantom, valid |-> TRUE]

\* A body read as a length: the string of that size cannot be had, and the
\* exception ends the process.
Garbage == [msg |-> Phantom, valid |-> FALSE]

\* Whether each cell of f starts a record: it does not if it is read as the
\* body of the one before.
Starts(f) ==
    LET starts[i \in 1..Size(f)] ==
            ~(i > 1 /\ f[i - 1].is = "length" /\ starts[i - 1])
    IN  starts

\* The record that starts with the i-th cell.  A body that is missing, or is
\* some other cell, yields an empty message, since the result of reading and
\* parsing is not used.
RecordAt(f, i) ==
    CASE f[i].is = "body" -> Garbage
      [] f[i].is = "length" /\ i < Size(f) /\ f[i + 1].is = "body"
           -> [msg |-> f[i + 1].msg, valid |-> f[i + 1].valid]
      [] OTHER -> Empty

\* The records load() comes to.
Records(f) ==
    LET starting == {i \in 1..Size(f) : Starts(f)[i]}
    IN  Pick([i \in 1..Size(f) |-> RecordAt(f, i)],
             {i \in starting : \A j \in starting : f[j].is = "body" => i <= j})

Readable(f) == Garbage \notin Range(Records(f))

Stored(f) == {r.msg : r \in {s \in Range(Records(f)) : s.valid}} \ {Phantom}

Messages(records, kept) == Pick([k \in DOMAIN records |-> records[k].msg], kept)

ValidAmong(records) == {k \in DOMAIN records : records[k].valid}

\* Mutant: load() stops one record early.
LiveShort(records) == Messages(records, ValidAmong(records) \ {Len(records)})

\* What load() returns of the records it has read.
Live(records) == Messages(records, ValidAmong(records))

\* The records read when, of the k-th, the length or the body cannot be; or
\* none when stat() fails and the file passes for empty.
Read(f, failed, k) ==
    LET r == Records(f)
    IN  CASE failed = "statLoad" -> <<>>
          [] failed = "readLength" -> SubSeq(r, 1, k - 1)
          [] failed = "readBody" /\ r[k] # Garbage -> [r EXCEPT ![k] = Empty]
          [] OTHER -> r

-----------------------------------------------------------------------------
(* MessageMapper::Gc().                                                    *)

Failure(call, at, unseen) == [call |-> call, at |-> at, unseen |-> unseen]

None == Failure("none", 1, {})

\* The calls that may fail while f is collected.
Failures(f) ==
    LET read == 1..Len(Records(f))
        live == 1..Len(Live(Records(f)))
    IN  {Failure(c, 1, {}) : c \in {"statLoad", "createTemp", "removeOld", "rename"}}
        \cup {Failure(c, k, {}) : c \in {"readLength", "readBody"}, k \in read}
        \cup {Failure(c, k, {}) : c \in {"statTemp", "openTemp"}, k \in live}
        \cup {Failure("writeTemp", k, u) : k \in live, u \in Unseen}

\* The contents of the temporary file after each of n insert(), from first.
Temps(first, found, n, e) ==
    LET temps[i \in 0..n] ==
            IF i = 0 THEN first
            ELSE IF e.call = "statTemp" /\ i = e.at
            THEN Overwrite(temps[i - 1], found[i])
            ELSE Put(temps[i - 1], found[i],
                     IF e.call = "writeTemp" /\ i = e.at THEN e.unseen ELSE {})
    IN  temps

\* What Gc() finds in f and where it says it has put it, and the contents of
\* the temporary file.  Creating that file may fail; the first length that
\* cannot be written ends the collection, and the offsets it has set stay.
Collection(f, e) ==
    LET found == Live(Read(f, e.call, e.at))
        first == IF e.call = "createTemp" THEN tempfile ELSE <<>>
        n     == IF first = NoFile THEN 0
                 ELSE IF e.call = "openTemp" THEN e.at - 1 ELSE Len(found)
        temps == Temps(first, found, n, e)
        seen  == [i \in 1..n |->
                     IF e.call = "statTemp" /\ i = e.at THEN <<>> ELSE temps[i - 1]]
    IN  [found    |-> found,
         place    |-> [i \in DOMAIN found |-> IF i <= n THEN PlaceIn(seen[i]) ELSE 0],
         images   |-> {temps[i] : i \in 0..n},
         temp     |-> temps[n],
         complete |-> n = Len(found)]

\* Whether load() throws in a collection of f.
Throws(f, e) == Garbage \in Range(Read(f, e.call, e.at))

\* The data file is removed and the temporary one renamed; rename() replaces
\* a file that could not be removed.
Swap(f, e, c) ==
    IF ~c.complete
    THEN datafile' = f /\ tempfile' = c.temp
    ELSE IF e.call = "rename" \/ c.temp = NoFile
    THEN datafile' = NoFile /\ tempfile' = c.temp
    ELSE datafile' = c.temp /\ tempfile' = NoFile

\* In a behaviour at most MaxFault calls fail, each of another kind.
Meets(e) ==
    IF e = None THEN UNCHANGED faults
    ELSE /\ e.call \notin faults
         /\ Cardinality(faults) < MaxFault
         /\ faults' = faults \cup {e.call}

-----------------------------------------------------------------------------
(* QueueMessage.  A message object is a message and a number, since a       *)
(* collection makes a new object of a record the index does not know.       *)

Key(m) == IF m = Phantom THEN Phantom ELSE idOf[m]

IdOf(o) == Key(o.msg)

Object(m, n) == [msg |-> m, copy |-> n]

\* unordered_map::insert: an entry with the key stays.
With(objects, o) ==
    IF \E p \in objects : IdOf(p) = IdOf(o) THEN objects ELSE objects \cup {o}

\* unordered_map::erase by key.
WithoutId(objects, o) == {p \in objects : IdOf(p) # IdOf(o)}

\* Mutant: the record is taken up whether the index knows it or not.
UnknownQueues(found, objects) ==
    {i \in DOMAIN found : \A j \in 1..(i - 1) : Key(found[j]) # Key(found[i])}

\* The messages found that are inserted into a map of the objects.
Unknown(found, objects) ==
    {i \in DOMAIN found :
        /\ \A p \in objects : IdOf(p) # Key(found[i])
        /\ \A j \in 1..(i - 1) : Key(found[j]) # Key(found[i])}

ForgetMemory ==
    /\ msgs' = <<>>
    /\ index' = {}
    /\ waitack' = {}
    /\ offset' = <<>>
    /\ total' = 0
    /\ valid' = 0

Die == up' = FALSE /\ ForgetMemory

Init ==
    /\ idOf \in [Msg -> Id]
    /\ up = FALSE
    /\ msgs = <<>>
    /\ index = {}
    /\ waitack = {}
    /\ offset = <<>>
    /\ total = 0
    /\ valid = 0
    /\ datafile = NoFile
    /\ tempfile = NoFile
    /\ accepted = {}
    /\ done = {}
    /\ offered = {}
    /\ faults = {}
    /\ swapLost = FALSE
    /\ confused = FALSE
    /\ outgrown = FALSE

\* CreateMsgFile, which the Gc() that follows makes up for if it fails.  If
\* stat() fails, Exists() denies the file and CreateFile empties it.
Created(e) ==
    IF datafile = NoFile \/ e.call = "statCreate" THEN <<>> ELSE datafile

\* Declares the queue or finds it at a start.  If load() throws, the process
\* ends again.
InitQueueManager(e) ==
    LET c     == Collection(Created(e), e)
        news  == Unknown(c.found, {})
    IN  /\ ~up
        /\ ~Throws(Created(e), e)
        /\ Meets(e)
        /\ up' = TRUE
        /\ index' = {Object(c.found[i], 0) : i \in news}
        /\ offset' = [o \in index' |->
                        c.place[CHOOSE i \in news : c.found[i] = o.msg]]
        /\ total' = Len(c.found)
        /\ valid' = Len(c.found)
        /\ Swap(Created(e), e, c)
        /\ UNCHANGED <<idOf, msgs, waitack, accepted, done, offered, swapLost,
                       confused>>

\* The calls of insert() that may fail with the message accepted.
Unnoticed ==
    {Failure("statInsert", 1, {})} \cup {Failure("writeInsert", 1, u) : u \in Unseen}

\* Insert() of a message that insert() has put into the file, or says so.
Take(m, e) ==
    LET seen == IF e.call = "statInsert" THEN <<>> ELSE datafile
    IN  /\ datafile # NoFile
        /\ Meets(e)
        /\ datafile' = IF e.call = "statInsert" THEN Overwrite(datafile, m)
                       ELSE Put(datafile, m, e.unseen)
        /\ offset' = [o \in DOMAIN offset \cup {Object(m, 0)} |->
                        IF o = Object(m, 0) THEN PlaceIn(seen) ELSE offset[o]]
        /\ total' = total + 1
        /\ valid' = valid + 1
        /\ index' = With(index, Object(m, 0))
        /\ msgs' = Append(msgs, Object(m, 0))
        /\ accepted' = accepted \cup {m}

\* The first write could not open the file: nothing has changed.
Refuse ==
    /\ Meets(IF datafile = NoFile THEN None ELSE Failure("openInsert", 1, {}))
    /\ UNCHANGED <<msgs, index, offset, total, valid, datafile, accepted>>

Insert(m) ==
    /\ up
    /\ m \notin offered
    /\ offered' = offered \cup {m}
    /\ Refuse \/ \E e \in {None} \cup Unnoticed : Take(m, e)
    /\ UNCHANGED <<idOf, up, waitack, tempfile, done, swapLost, confused>>

Front ==
    /\ msgs # <<>>
    /\ msgs' = Tail(msgs)
    /\ waitack' = With(waitack, Head(msgs))
    /\ UNCHANGED <<idOf, up, index, offset, total, valid, files, history>>

\* MessageMapper::Remove, which does nothing if the length is not that of
\* the body or the file cannot be opened.
Marked(o) ==
    IF offset[o] = 0 \/ datafile = NoFile THEN datafile
    ELSE WriteAt(datafile, offset[o], Body(o.msg, FALSE))

\* A count below zero is a huge unsigned one.
GcCheck(v, t) == t > GcMinTotal /\ v >= 0 /\ (v * 10) \div t < 5

\* A new object for m.
Fresh(m) ==
    LET used == {o \in Range(msgs) \cup waitack : o.msg = m}
    IN  Object(m, CHOOSE n \in 0..Cardinality(used) :
                     Object(m, n) \notin used /\ \A k \in 0..(n - 1) : Object(m, k) \in used)

\* Mutant: set_offset() is missing, and an object the index gets has the first place.
PlacesStale(c, objects, o) == IF o \in DOMAIN offset THEN offset[o] ELSE 2

\* The last place found for the id of o, or the one o had.
Places(c, objects, o) ==
    LET at == {i \in DOMAIN c.found : Key(c.found[i]) = IdOf(o)}
    IN  IF o \in objects /\ at # {}
        THEN c.place[CHOOSE i \in at : \A j \in at : j <= i]
        ELSE offset[o]

\* A record of a reused id is not that of the object the index has.
Confuses(found, kept) ==
    \E m \in Range(found) \ {Phantom} :
        /\ \A p \in kept : p.msg # m
        /\ \E n \in offered \ {m} : idOf[n] = idOf[m]

\* Gc() of f after the index became kept: the place of a record found becomes
\* that of the object the index has under its id, and without one it is
\* queued.
Gc(f, kept, e) ==
    LET c    == Collection(f, e)
        news == Unknown(c.found, kept)
    IN  /\ msgs' = msgs \o Pick([i \in DOMAIN c.found |-> Fresh(c.found[i])], news)
        /\ index' = kept \cup {Fresh(c.found[i]) : i \in news}
        /\ offset' = [o \in DOMAIN offset \cup index' |-> Places(c, index', o)]
        /\ total' = Len(c.found)
        /\ valid' = Len(c.found)
        /\ confused' = (confused \/ Confuses(c.found, kept))
        /\ Swap(f, e, c)

\* The rest of Remove() after the record was marked, or not: an exception of
\* load() ends the process.
Forget(o, f, e) ==
    IF ~GcCheck(valid - 1, total)
    THEN /\ e = None
         /\ datafile' = f
         /\ index' = WithoutId(index, o)
         /\ valid' = valid - 1
         /\ waitack' = waitack \ {o}
         /\ UNCHANGED <<up, msgs, offset, total, tempfile, confused>>
    ELSE IF Throws(f, e)
    THEN Die /\ datafile' = f /\ UNCHANGED <<tempfile, confused>>
    ELSE Gc(f, WithoutId(index, o), e) /\ waitack' = waitack \ {o} /\ UNCHANGED up

\* Remove() of a persistent message; whether it could be marked is ignored.
RemoveDurable(o) ==
    /\ o \in waitack
    /\ o.msg # Phantom
    /\ \/ \E e \in {None} \cup Failures(Marked(o)) :
            Meets(e) /\ Forget(o, Marked(o), e)
       \/ Meets(Failure("mark", 1, {})) /\ Forget(o, datafile, None)
    /\ done' = done \cup {o.msg}
    /\ UNCHANGED <<idOf, accepted, offered, swapLost>>

\* An empty message has no delivery mode.
RemovePhantom(o) ==
    /\ o \in waitack
    /\ o.msg = Phantom
    /\ waitack' = waitack \ {o}
    /\ UNCHANGED <<idOf, up, msgs, index, offset, total, valid, files, history>>

\* RemoveMsgFile: the temporary file is only removed after the data file.
RemoveMsgFile ==
    IF datafile = NoFile THEN UNCHANGED <<files, faults>>
    ELSE \/ Meets(None) /\ datafile' = NoFile /\ tempfile' = NoFile
         \/ Meets(Failure("removeFile", 1, {})) /\ UNCHANGED files

ClearQueue ==
    /\ up
    /\ ForgetMemory
    /\ RemoveMsgFile
    /\ accepted' = {}
    /\ done' = done \cup accepted
    /\ swapLost' = FALSE
    /\ UNCHANGED <<idOf, offered, confused>>

DestroyQueueMessage == ClearQueue /\ up' = FALSE

\* MessageManager::Clear leaves the cleared object in the map.
Clear == ClearQueue /\ UNCHANGED up

-----------------------------------------------------------------------------
(* The death of the process, in operations in which no call fails.         *)

Crash ==
    /\ up
    /\ Die
    /\ UNCHANGED <<idOf, files, history>>

\* After the length, or after the body of the record.
CrashInInsert(m) ==
    /\ up
    /\ m \notin offered
    /\ datafile # NoFile
    /\ Die
    /\ datafile' \in {Put(datafile, m, {"body"}), Put(datafile, m, {})}
    /\ offered' = offered \cup {m}
    /\ UNCHANGED <<idOf, tempfile, accepted, done, faults, swapLost, confused>>

\* Inside a collection of f, wherever the process dies.
GcInterrupted(f) ==
    LET c == Collection(f, None)
    IN  \/ datafile' = f /\ tempfile' \in c.images /\ UNCHANGED swapLost
        \/ datafile' = NoFile /\ tempfile' = c.temp /\ swapLost' = TRUE
        \/ datafile' = c.temp /\ tempfile' = NoFile /\ UNCHANGED swapLost

CrashInRemove(o) ==
    /\ o \in waitack
    /\ o.msg # Phantom
    /\ Die
    /\ IF GcCheck(valid - 1, total) /\ Readable(Marked(o))
       THEN GcInterrupted(Marked(o))
       ELSE datafile' = Marked(o) /\ UNCHANGED <<tempfile, swapLost>>
    /\ done' = done \cup {o.msg}
    /\ UNCHANGED <<idOf, accepted, offered, faults, confused>>

CrashInRecovery ==
    /\ ~up
    /\ Readable(Created(None))
    /\ GcInterrupted(Created(None))
    /\ UNCHANGED <<idOf, memory, accepted, done, offered, faults, confused>>

-----------------------------------------------------------------------------
Step ==
    \/ \E e \in {None, Failure("statCreate", 1, {})} \cup Failures(Created(None)) :
          InitQueueManager(e)
    \/ \E m \in Msg : Insert(m) \/ CrashInInsert(m)
    \/ \E o \in waitack : RemoveDurable(o) \/ RemovePhantom(o) \/ CrashInRemove(o)
    \/ Front
    \/ DestroyQueueMessage
    \/ Clear
    \/ Crash
    \/ CrashInRecovery

Next == Step /\ outgrown' = (outgrown \/ TooLong(datafile') \/ TooLong(tempfile'))

Spec == Init /\ [][Next]_vars

-----------------------------------------------------------------------------
(* Properties.                                                             *)

\* The calls whose failure explains the loss of an accepted message or a file
\* no start can load, and the return of a message that was done with.
Losing   == {"statCreate", "statInsert", "statLoad", "statTemp", "writeInsert",
             "readLength", "readBody", "createTemp", "openTemp", "writeTemp",
             "rename"}
Reviving == {"mark", "removeFile", "createTemp", "openTemp"}

\* A message Insert accepted is in the file until it is acknowledged, through
\* any crashes and collections, unless a call of Losing failed, a crash hit
\* the swap, a collection confused messages of one id or the file outgrew its
\* offsets: a failing mark, a refused insertion and a failing remove cost no
\* message.
LossExplained ==
    \/ faults \cap Losing # {}
    \/ swapLost
    \/ confused
    \/ outgrown
    \/ accepted \ done \subseteq Stored(datafile)

\* What was acknowledged, or went with its queue, comes back neither to the
\* list or the unacknowledged messages nor to the file, unless a call of
\* Reviving failed, a collection confused messages of one id or the file
\* outgrew its offsets: records cut short, overwritten or lost, in particular,
\* revive nothing.
ReturnExplained ==
    \/ faults \cap Reviving # {}
    \/ confused
    \/ outgrown
    \/ \A m \in done :
          /\ m \notin Stored(datafile)
          /\ \A o \in Range(msgs) \cup waitack : o.msg # m

\* No crash, and no failure but those of Losing, leaves a file of which a
\* start takes a body for a length and ends, as every later start would.
\* A failing rename() may: the next collection makes an empty file, and the
\* messages in memory are marked in it at places of the one that is gone.
StartsAgain ==
    \/ faults \cap Losing # {}
    \/ confused
    \/ outgrown
    \/ Readable(datafile)

Names(list) == [i \in DOMAIN list |-> list[i].msg]

Abstract == INSTANCE AckQueue WITH
    Persistent <- Msg,
    ready      <- Names(msgs),
    unacked    <- {o.msg : o \in waitack},
    log        <- Stored(datafile),
    published  <- offered

\* Without failures that matter, with an id for each message and a file that
\* fits its offsets.
Orderly ==
    /\ ~outgrown
    /\ faults \subseteq {"openInsert", "removeOld"}
    /\ \A m, n \in offered : idOf[m] = idOf[n] => m = n

\* Then the bytes keep the promise of the store: every step is one of
\* AckQueue, or changes nothing that AckQueue knows of.
QuietSteps == [][Orderly' => Abstract!Next \/ UNCHANGED Abstract!vars]_vars

=============================================================================
