---------------------------- MODULE MessageStore ----------------------------
(***************************************************************************)
(* The messages of one queue: QueueMessage and MessageMapper of            *)
(* server/message.hpp, with the entry MessageManager keeps for the queue.  *)
(*                                                                         *)
(* In memory there are a list of undelivered messages, a map of delivered  *)
(* and unacknowledged ones and an index of the persistent ones; on disk,   *)
(* an append-only file of records.  An acknowledgement overwrites the      *)
(* record of its message in place, at the offset the index remembers, and  *)
(* now and then a garbage collection rewrites the file and with it every   *)
(* offset.  A start of the process collects the file as well and rebuilds  *)
(* the index from what it finds.                                           *)
(*                                                                         *)
(* Every operation runs under QueueMessage::_mutex and is one step of this *)
(* module.  The process may die inside an operation: the Crash actions     *)
(* leave the file in any state that the file-system calls of the operation *)
(* pass through.  The temporary file is not a variable, since the code     *)
(* truncates it before every use (line 97) and never reads it.             *)
(***************************************************************************)
EXTENDS Integers, Sequences, FiniteSets, Picks

CONSTANTS
    Msg,         \* messages; a message is identified with its unique id
    Persistent,  \* those published with DeliveryMode DURABLE
    Phantom,     \* what parsing a record without a body yields: no id, no body
    GcMinTotal,  \* GCCheck never collects a file of this many records, 2000
    OffsetRange  \* how many records a uint32 can tell apart: 4 GiB of them

ASSUME MessageStoreAssumption ==
    /\ Persistent \subseteq Msg
    /\ Phantom \notin Msg
    /\ GcMinTotal \in Nat
    /\ OffsetRange \in Nat \ {0}

VARIABLES
    status,       \* of the entry in MessageManager::_queMsgs
    msgs,         \* QueueMessage::_msgs
    durableMsgs,  \* the keys of QueueMessage::_durableMsgs
    waitackMsgs,  \* the keys of QueueMessage::_waitackMsgs
    offset,       \* Message::offset of the persistent messages, in records
    total,        \* QueueMessage::_total_count
    valid,        \* QueueMessage::_valid_count
    datafile,     \* the records of <queue>.mqd
    published,    \* history: messages handed to Insert
    accepted,     \* history: those it accepted, until the queue is destroyed
    settled,      \* history: messages whose acknowledgement took effect
    swapLost,     \* history: a crash fell between remove and rename of a Gc
    outgrown      \* history: the file has been longer than a uint32 can say

memory  == <<msgs, durableMsgs, waitackMsgs, offset, total, valid>>
history == <<published, accepted, settled, swapLost>>
vars    == <<status, memory, datafile, history, outgrown>>

Entry  == Msg \cup {Phantom}
Record == [msg : Entry, valid : BOOLEAN]

-----------------------------------------------------------------------------
(* The data file.                                                          *)

\* Message::offset of the i-th record: the size_t is assigned to a uint32,
\* and beyond 4 GiB it points at a record at the start of the file.
Place(i) == ((i - 1) % OffsetRange) + 1

ValidAt(d) == {i \in DOMAIN d : d[i].valid}

\* Mutant: the last record is missed.
CompactShort(d) == Pick(d, ValidAt(d) \ {Len(d)})

\* What load() keeps of the file, and what Gc() leaves in it.
Compact(d) == Pick(d, ValidAt(d))

\* The messages a start of the process would find in the file.
Stored(d) == {d[i].msg : i \in ValidAt(d)}

\* Mutant: the file is not written.
InvalidateNothing(d, i, m) == d

\* The file after the record at index i was overwritten by m, invalid.  That i
\* lies beyond the end takes an offset that was cut to 32 bits: MessageFile
\* has what the write does there.
Invalidate(d, i, m) ==
    [k \in DOMAIN d |-> IF k = i THEN [msg |-> m, valid |-> FALSE] ELSE d[k]]

\* The states the file goes through while Gc() rewrites it: untouched until
\* the temporary file is complete, removed, and replaced.
GcImages(d) == {d, <<>>, Compact(d)}

\* Mutant: a smaller share of live records is tolerated.
GcCheckLate(v, t) == t > GcMinTotal /\ v >= 0 /\ (v * 10) \div t < 3

\* GCCheck(); both operands of the division are unsigned, and a count that fell
\* below zero is a huge number.
GcCheck(v, t) == t > GcMinTotal /\ v >= 0 /\ (v * 10) \div t < 5

\* Mutant: the index keeps the offsets it had.
RelocateNothing(r) == offset

\* The offsets after the records r have been written in this order.
Relocate(r) ==
    [m \in Persistent |->
        IF \E k \in DOMAIN r : r[k].msg = m
        THEN Place(CHOOSE k \in DOMAIN r : r[k].msg = m)
        ELSE offset[m]]

\* The collected messages the index does not know: Gc() calls that a logic
\* error and queues them again.
Orphans(r, index) ==
    Pick(r, {k \in DOMAIN r : /\ r[k].msg \notin index
                              /\ \A j \in 1..(k - 1) : r[j].msg # r[k].msg})

Names(r) == [k \in DOMAIN r |-> r[k].msg]

-----------------------------------------------------------------------------
(* The operations of MessageManager and QueueMessage.                      *)

Alive == status # "absent"

ForgetMemory ==
    /\ msgs' = <<>>
    /\ durableMsgs' = {}
    /\ waitackMsgs' = {}
    /\ offset' = [m \in Persistent |-> 0]
    /\ total' = 0
    /\ valid' = 0

Init ==
    /\ status = "absent"
    /\ msgs = <<>>
    /\ durableMsgs = {}
    /\ waitackMsgs = {}
    /\ offset = [m \in Persistent |-> 0]
    /\ total = 0
    /\ valid = 0
    /\ datafile = <<>>
    /\ published = {}
    /\ accepted = {}
    /\ settled = {}
    /\ swapLost = FALSE
    /\ outgrown = FALSE

\* Mutant: the file is created although it exists.
InitQueueManagerTruncates ==
    /\ status = "absent"
    /\ status' = "live"
    /\ datafile' = <<>>
    /\ UNCHANGED <<memory, history>>

\* Declares the queue, or finds it at a start: the constructor creates the
\* file if there is none, Recovery collects it and fills the index only.
InitQueueManager ==
    /\ status = "absent"
    /\ status' = "live"
    /\ datafile' = Compact(datafile)
    /\ durableMsgs' = Stored(datafile)
    /\ offset' = Relocate(Compact(datafile))
    /\ total' = Len(Compact(datafile))
    /\ valid' = Len(Compact(datafile))
    /\ UNCHANGED <<msgs, waitackMsgs, history>>

\* A persistent message goes to the file and to the index before the list.
InsertDurable(m) ==
    /\ status = "live"
    /\ m \in Persistent \ published
    /\ datafile' = Append(datafile, [msg |-> m, valid |-> TRUE])
    /\ offset' = [offset EXCEPT ![m] = Place(Len(datafile) + 1)]
    /\ total' = total + 1
    /\ valid' = valid + 1
    /\ durableMsgs' = durableMsgs \cup {m}
    /\ msgs' = Append(msgs, m)
    /\ published' = published \cup {m}
    /\ accepted' = accepted \cup {m}
    /\ UNCHANGED <<status, waitackMsgs, settled, swapLost>>

\* Once Clear has removed the file, FileHelper::Write cannot open it.
InsertRefused(m) ==
    /\ status = "cleared"
    /\ m \in Persistent \ published
    /\ published' = published \cup {m}
    /\ UNCHANGED <<status, memory, datafile, accepted, settled, swapLost>>

InsertTransient(m) ==
    /\ Alive
    /\ m \in Msg \ (Persistent \cup published)
    /\ msgs' = Append(msgs, m)
    /\ published' = published \cup {m}
    /\ accepted' = accepted \cup {m}
    /\ UNCHANGED <<status, durableMsgs, waitackMsgs, offset, total, valid,
                   datafile, settled, swapLost>>

\* On an empty list front() is undefined and the process dies: see Crash.
Front ==
    /\ Alive
    /\ msgs # <<>>
    /\ msgs' = Tail(msgs)
    /\ waitackMsgs' = waitackMsgs \cup {Head(msgs)}
    /\ UNCHANGED <<status, durableMsgs, offset, total, valid, datafile, history>>

\* The private Gc(), after the file became d, the index became index and the
\* valid count became v.
Gc(d, index, v) ==
    IF GcCheck(v, total)
    THEN LET r == Compact(d)
         IN  /\ datafile' = r
             /\ offset' = Relocate(r)
             /\ msgs' = msgs \o Names(Orphans(r, index))
             /\ durableMsgs' = index \cup Stored(d)
             /\ total' = Len(r)
             /\ valid' = Len(r)
    ELSE /\ datafile' = d
         /\ durableMsgs' = index
         /\ valid' = v
         /\ UNCHANGED <<offset, msgs, total>>

\* MessageMapper::Remove overwrites the record of m with its invalid form.
Marked(m) == Invalidate(datafile, offset[m], m)

\* Mutant: _durableMsgs.erase is missing.
RemoveDurableStaysIndexed(m) ==
    /\ m \in waitackMsgs \cap Persistent
    /\ Gc(Marked(m), durableMsgs, valid - 1)
    /\ waitackMsgs' = waitackMsgs \ {m}
    /\ settled' = settled \cup {m}
    /\ UNCHANGED <<status, published, accepted, swapLost>>

\* Remove() of a persistent message.
RemoveDurable(m) ==
    /\ m \in waitackMsgs \cap Persistent
    /\ Gc(Marked(m), durableMsgs \ {m}, valid - 1)
    /\ waitackMsgs' = waitackMsgs \ {m}
    /\ settled' = settled \cup {m}
    /\ UNCHANGED <<status, published, accepted, swapLost>>

\* Mutant: --_valid_count outside the test of the delivery mode.
RemoveTransientCounted(m) ==
    /\ m \in waitackMsgs \ Persistent
    /\ waitackMsgs' = waitackMsgs \ {m}
    /\ settled' = settled \cup {m}
    /\ valid' = valid - 1
    /\ UNCHANGED <<status, msgs, durableMsgs, offset, total, datafile,
                   published, accepted, swapLost>>

\* Remove() of any other message touches the map only.
RemoveTransient(m) ==
    /\ m \in waitackMsgs \ Persistent
    /\ waitackMsgs' = waitackMsgs \ {m}
    /\ settled' = settled \cup {m}
    /\ UNCHANGED <<status, msgs, durableMsgs, offset, total, valid, datafile,
                   published, accepted, swapLost>>

\* QueueMessage::Clear.
ClearQueue ==
    /\ ForgetMemory
    /\ datafile' = <<>>
    /\ accepted' = {}
    /\ swapLost' = FALSE
    /\ UNCHANGED <<published, settled>>

\* The entry is erased and the object it held is cleared.
DestroyQueueMessage ==
    /\ Alive
    /\ status' = "absent"
    /\ ClearQueue

\* MessageManager::Clear leaves the cleared object in the map.
Clear ==
    /\ Alive
    /\ status' = "cleared"
    /\ ClearQueue

-----------------------------------------------------------------------------
(* The death of the process.                                               *)

Die ==
    /\ status' = "absent"
    /\ ForgetMemory

\* The file images of Gc() on d; between remove and rename every record is
\* only in the temporary file, which no code reads.
GcInterrupted(d) ==
    /\ datafile' \in GcImages(d)
    /\ swapLost' = (swapLost \/ datafile' \notin {d, Compact(d)})

\* Between operations, or in one that had not reached the disk.
Crash ==
    /\ Alive
    /\ Die
    /\ UNCHANGED <<datafile, history>>

\* insert() writes the length and the body of a record separately.  load()
\* does not notice a missing body and reads the record as a Phantom.
CrashInInsert(m) ==
    /\ status = "live"
    /\ m \in Persistent \ published
    /\ Die
    /\ \E e \in {m, Phantom} :
          datafile' = Append(datafile, [msg |-> e, valid |-> TRUE])
    /\ published' = published \cup {m}
    /\ UNCHANGED <<accepted, settled, swapLost>>

\* After the record was marked, possibly inside the collection.
CrashInRemove(m) ==
    /\ m \in waitackMsgs \cap Persistent
    /\ Die
    /\ IF GcCheck(valid - 1, total)
       THEN GcInterrupted(Marked(m))
       ELSE datafile' = Marked(m) /\ UNCHANGED swapLost
    /\ settled' = settled \cup {m}
    /\ UNCHANGED <<published, accepted>>

\* Inside the collection of a start.
CrashInRecovery ==
    /\ status = "absent"
    /\ GcInterrupted(datafile)
    /\ UNCHANGED <<status, memory, published, accepted, settled>>

-----------------------------------------------------------------------------
\* The file is longer than its offsets can say.
TooLong(d) == Len(d) > OffsetRange

Step ==
    \/ InitQueueManager
    \/ Front
    \/ DestroyQueueMessage
    \/ Clear
    \/ Crash
    \/ CrashInRecovery
    \/ \E m \in Msg :
          \/ InsertDurable(m)
          \/ InsertRefused(m)
          \/ InsertTransient(m)
          \/ CrashInInsert(m)
          \/ CrashInRemove(m)
          \/ RemoveDurable(m)
          \/ RemoveTransient(m)

Next == Step /\ outgrown' = (outgrown \/ TooLong(datafile'))

Spec == Init /\ [][Next]_vars

-----------------------------------------------------------------------------
(* Properties.                                                             *)

InList(m) == \E i \in DOMAIN msgs : msgs[i] = m

Types ==
    /\ status \in {"absent", "live", "cleared"}
    /\ msgs \in Seq(Entry)
    /\ durableMsgs \subseteq Persistent \cup {Phantom}
    /\ waitackMsgs \subseteq Entry
    /\ offset \in [Persistent -> Nat]
    /\ total \in Nat
    /\ valid \in Int
    /\ datafile \in Seq(Record)
    /\ published \subseteq Msg
    /\ accepted \subseteq Msg
    /\ settled \subseteq Msg
    /\ swapLost \in BOOLEAN
    /\ outgrown \in BOOLEAN

\* The types of the variables; in particular the unsigned counters of
\* QueueMessage never fall below zero, while the file fits its offsets.
TypeOK == Types /\ (outgrown \/ valid >= 0)

\* The offset an acknowledgement will write to is that of a valid record of
\* the very message, however many collections have moved it: a stale offset
\* would destroy the record of another message.  An offset is a uint32, and
\* once the file has outgrown 4 GiB nothing like it can be promised; no line of
\* the code refuses an insertion for that.
OwnRecord ==
    Alive /\ ~outgrown =>
        \A m \in durableMsgs \cap Persistent :
            /\ offset[m] \in DOMAIN datafile
            /\ datafile[offset[m]] = [msg |-> m, valid |-> TRUE]

\* The counters are those of the file (part of the proofs' invariant).
CountsMatchFile ==
    Alive /\ ~outgrown => /\ total = Len(datafile)
                         /\ valid = Cardinality(ValidAt(datafile))

\* The index holds exactly what a start would recover, so that a collection
\* never meets the "logic error" of Gc() (line 358), while offsets are exact.
IndexMatchesFile == Alive /\ ~outgrown => durableMsgs = Stored(datafile)

\* An acknowledged message never comes back: not to the list, not to the
\* unacknowledged ones, not through the file after any number of crashes,
\* unless offsets were cut.
AckedStaysGone ==
    ~outgrown =>
        \A m \in settled :
            /\ ~InList(m)
            /\ m \notin waitackMsgs
            /\ m \notin Stored(datafile)

\* A message is queued once or waits for its acknowledgement, never both (part
\* of the proofs' invariant; the refinement below implies it).
OnePlace ==
    /\ \A i, j \in DOMAIN msgs : msgs[i] = msgs[j] => i = j
    /\ \A m \in waitackMsgs : ~InList(m)

\* What the counters say of the garbage after every operation.
CountsBounded ==
    \/ total - valid <= GcMinTotal
    \/ 2 * valid >= total

\* While the process lives, the dead records in the file never outnumber both
\* the threshold of GCCheck and the live records: the counters that decide
\* about a collection stay those of the file, and collections come in time.
GarbageBounded ==
    Alive /\ ~outgrown =>
        LET live == Cardinality(ValidAt(datafile))
            dead == Len(datafile) - live
        IN  dead <= GcMinTotal \/ dead <= live

\* A persistent message that Insert accepted is in the file until it is
\* acknowledged, whatever crashed, as long as no crash hit the swap of Gc() and
\* the file fits its offsets.
SurvivesOutsideSwap ==
    ~swapLost /\ ~outgrown => (accepted \cap Persistent) \ settled \subseteq Stored(datafile)

\* The same without the exception: "restore the history", host.hpp:32.
SurvivesCrash ==
    (accepted \cap Persistent) \ settled \subseteq Stored(datafile)

\* What a start recovered can be delivered: host.hpp:32 again.
RecoveredDeliverable ==
    \A m \in durableMsgs \cap accepted : InList(m) \/ m \in waitackMsgs

-----------------------------------------------------------------------------
(* The promise of the store, with the bytes of the file forgotten.         *)

Abstract == INSTANCE AckQueue WITH
    up      <- Alive,
    ready   <- msgs,
    unacked <- waitackMsgs,
    log     <- Stored(datafile) \cap Persistent

\* The store is a queue with acknowledgements and a log: collecting garbage,
\* moving offsets and rebuilding the index are invisible, until the file is
\* longer than its offsets can say.
ImplementsAckQueue ==
    Abstract!Init /\ [][outgrown' \/ Abstract!Next]_Abstract!vars

=============================================================================
