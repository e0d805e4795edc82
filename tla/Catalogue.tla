------------------------------- MODULE Catalogue -------------------------------
(***************************************************************************)
(* The catalogue of a virtual host: exchanges, queues and bindings in      *)
(* memory, a SQLite table behind each, and the set of queues that have a   *)
(* message store.  All of its operations run on the one thread that reads  *)
(* the connections; what interleaves with them is the death of the process *)
(* between two statements, and a statement may fail.                       *)
(*                                                                         *)
(* An operation of one statement is one action; DeclareQueue, DeleteQueue  *)
(* and DeleteExchange take one action for each manager they call, in the   *)
(* order of host.hpp.  Types, arguments and flags no step of the catalogue *)
(* reads are left out.                                                     *)
(***************************************************************************)
EXTENDS Naturals, Sequences, FiniteSets

CONSTANTS
    Exchange,
    Queue,
    Key,
    None,
    MaxFail   \* bound on the statements that fail

ASSUME CatalogueAssumption ==
    /\ None \notin Key
    /\ None \notin [value : Key \cup {None}, kind : {"volatile", "durable"}]
    /\ Exchange \cap Queue = {}
    /\ (Exchange \cup Queue) \cap (Exchange \X Queue) = {}
    /\ MaxFail \in Nat

VARIABLES
    exchanges,    \* _exchanges: what each name is declared as
    queues,       \* _msg_queues
    bindings,     \* _bindings: the key that binds a queue to an exchange
    exchangeRow,  \* exchange_table: the names that have a row
    queueRow,     \* queue_table
    bindingRows,  \* binding_table: the keys of the rows of a pair, oldest first
    stores,       \* _queMsgs: the queues with an open message store
    files,        \* the queues with a message file on the disk
    pc,           \* what is left of the operation under way
    fails,        \* how many statements have failed
    (* History, read by the properties only. *)
    stale,        \* names and pairs with a row that memory does not know of,
                  \* since a statement failed
    dangling,     \* pairs that a crash or a failure has left without an end
    refused       \* queues that got a store and were then refused

vars == <<exchanges, queues, bindings, exchangeRow, queueRow, bindingRows,
          stores, files, pc, fails, stale, dangling, refused>>

-----------------------------------------------------------------------------
Pair == Exchange \X Queue
Mode == {"absent", "volatile", "durable"}

Idle == [at |-> "idle"]
Pending(step, x) == [at |-> step, name |-> x]
Declaring(q, d) == [at |-> "declare", name |-> q, durable |-> d]

Operation ==
    {Idle}
    \cup {Pending("exchange", e) : e \in Exchange}
    \cup {Pending(step, q) : step \in {"bindings", "store"}, q \in Queue}
    \cup {Declaring(q, durable) : q \in Queue, durable \in BOOLEAN}

\* SqliteHelper::Exec, with the outcome ok.
Exec(ok) ==
    /\ ok \/ fails < MaxFail
    /\ fails' = IF ok THEN fails ELSE fails + 1

\* A durable declaration needs its row, and a name has one row at most.
Accepted(table, x, durable) == durable => x \notin table

Declared(map, x, durable) ==
    [map EXCEPT ![x] = IF durable THEN "durable" ELSE "volatile"]

\* Mutant: a row is inserted for a volatile entry too.
WithRowAlways(table, x, durable) == table \cup {x}

WithRow(table, x, durable) == IF durable THEN table \cup {x} ELSE table

\* Recovery reads back rows, all of them durable.
Recovered(Names, table) ==
    [x \in Names |-> IF x \in table THEN "durable" ELSE "absent"]

HasRows(p) == bindingRows[p] # <<>>

\* Mutant: the key is read from the column of the queue's name.
RecoveredBindingsShifted(missed) ==
    [p \in Pair |-> IF HasRows(p) /\ p \notin missed THEN p[2] ELSE None]

\* Of several rows for a pair the oldest is kept; the rows of the pairs in
\* missed are not read.
RecoveredBindings(missed) ==
    [p \in Pair |->
        IF HasRows(p) /\ p \notin missed THEN Head(bindingRows[p]) ELSE None]

Init ==
    /\ exchanges = [e \in Exchange |-> "absent"]
    /\ queues = [q \in Queue |-> "absent"]
    /\ bindings = [p \in Pair |-> None]
    /\ exchangeRow = {}
    /\ queueRow = {}
    /\ bindingRows = [p \in Pair |-> <<>>]
    /\ stores = {}
    /\ files = {}
    /\ pc = Idle
    /\ fails = 0
    /\ stale = {}
    /\ dangling = {}
    /\ refused = {}

-----------------------------------------------------------------------------
(* Exchanges.                                                              *)

\* Mutant: a second declaration may make a volatile exchange durable.
DeclareExchangeUpgrades(e, durable) ==
    /\ pc = Idle
    /\ exchanges[e] # "durable"
    /\ Accepted(exchangeRow, e, durable)
    /\ exchanges' = Declared(exchanges, e, durable)
    /\ exchangeRow' = WithRow(exchangeRow, e, durable)
    /\ UNCHANGED <<queues, bindings, queueRow, bindingRows, stores, files, pc,
                   fails, stale, dangling, refused>>

\* A declaration that is refused changes nothing.
DeclareExchange(e, durable) ==
    /\ pc = Idle
    /\ exchanges[e] = "absent"
    /\ Accepted(exchangeRow, e, durable)
    /\ exchanges' = Declared(exchanges, e, durable)
    /\ exchangeRow' = WithRow(exchangeRow, e, durable)
    /\ UNCHANGED <<queues, bindings, queueRow, bindingRows, stores, files, pc,
                   fails, stale, dangling, refused>>

\* The bindings of the pairs S are removed: from the table if the statement
\* does not fail, and from memory anyway.
RemoveBindings(S, ok) ==
    /\ Exec(ok)
    /\ bindings' = [p \in Pair |-> IF p \in S THEN None ELSE bindings[p]]
    /\ bindingRows' = [p \in Pair |-> IF p \in S /\ ok THEN <<>> ELSE bindingRows[p]]
    /\ LET left == {p \in S : bindingRows'[p] # <<>>} IN
          /\ stale' = (stale \ S) \cup left
          /\ dangling' = (dangling \ S) \cup left

OfExchange(e) == {e} \X Queue
OfQueue(q) == Exchange \X {q}

DeleteExchange(e) ==
    /\ pc = Idle
    /\ \E ok \in BOOLEAN : RemoveBindings(OfExchange(e), ok)
    /\ pc' = Pending("exchange", e)
    /\ UNCHANGED <<exchanges, queues, exchangeRow, queueRow, stores, files, refused>>

\* The row of a durable entry goes if the statement does not fail; a volatile
\* entry has none.
WithoutRow(map, table, x, ok) ==
    IF map[x] = "durable" /\ ok THEN table \ {x} ELSE table

ExecIfDurable(map, x, ok) ==
    IF map[x] = "durable" THEN Exec(ok) ELSE ok /\ UNCHANGED fails

DeleteExchangeEntry ==
    LET e == pc.name IN
    /\ pc.at = "exchange"
    /\ \E ok \in BOOLEAN :
          /\ ExecIfDurable(exchanges, e, ok)
          /\ exchangeRow' = WithoutRow(exchanges, exchangeRow, e, ok)
    /\ exchanges' = [exchanges EXCEPT ![e] = "absent"]
    /\ stale' = (stale \ {e}) \cup ({e} \cap exchangeRow')
    /\ pc' = Idle
    /\ UNCHANGED <<queues, bindings, queueRow, bindingRows, stores, files,
                   dangling, refused>>

-----------------------------------------------------------------------------
(* Queues.                                                                 *)

\* VirtualHost::DeclareQueue makes the store and its file before the queue.
DeclareQueue(q, durable) ==
    /\ pc = Idle
    /\ stores' = stores \cup {q}
    /\ files' = files \cup ({q} \ stores)
    /\ pc' = Declaring(q, durable)
    /\ UNCHANGED <<exchanges, queues, bindings, exchangeRow, queueRow,
                   bindingRows, fails, stale, dangling, refused>>

DeclareQueueEntry ==
    LET q == pc.name IN
    /\ pc.at = "declare"
    /\ pc' = Idle
    /\ \/ /\ queues[q] # "absent"
          /\ UNCHANGED <<queues, queueRow, fails, refused>>
       \/ /\ queues[q] = "absent"
          /\ Accepted(queueRow, q, pc.durable)
          /\ queues' = Declared(queues, q, pc.durable)
          /\ queueRow' = WithRow(queueRow, q, pc.durable)
          /\ refused' = refused \ {q}
          /\ UNCHANGED fails
       \/ /\ queues[q] = "absent"
          /\ pc.durable
          /\ Exec(q \in queueRow)   \* no fault is needed if the row exists
          /\ refused' = refused \cup {q}
          /\ UNCHANGED <<queues, queueRow>>
    /\ UNCHANGED <<exchanges, bindings, exchangeRow, bindingRows, stores, files,
                   stale, dangling>>

DeleteQueue(q) ==
    /\ pc = Idle
    /\ \E ok \in BOOLEAN :
          /\ ExecIfDurable(queues, q, ok)
          /\ queueRow' = WithoutRow(queues, queueRow, q, ok)
    /\ queues' = [queues EXCEPT ![q] = "absent"]
    /\ stale' = (stale \ {q}) \cup ({q} \cap queueRow')
    /\ pc' = Pending("bindings", q)
    /\ UNCHANGED <<exchanges, bindings, exchangeRow, bindingRows, stores, files,
                   dangling, refused>>

DeleteQueueBindings ==
    /\ pc.at = "bindings"
    /\ \E ok \in BOOLEAN : RemoveBindings(OfQueue(pc.name), ok)
    /\ pc' = Pending("store", pc.name)
    /\ UNCHANGED <<exchanges, queues, exchangeRow, queueRow, stores, files, refused>>

DestroyQueueMessage ==
    LET q == pc.name IN
    /\ pc.at = "store"
    /\ stores' = stores \ {q}
    /\ files' = files \ ({q} \cap stores)
    /\ refused' = refused \ {q}
    /\ pc' = Idle
    /\ UNCHANGED <<exchanges, queues, bindings, exchangeRow, queueRow,
                   bindingRows, fails, stale, dangling>>

-----------------------------------------------------------------------------
(* Bindings.                                                               *)

\* Mutant: a binding is stored if either end is.
EitherDurable(e, q) == exchanges[e] = "durable" \/ queues[q] = "durable"

BothDurable(e, q) == exchanges[e] = "durable" /\ queues[q] = "durable"

\* The table of bindings has no key: an insertion never meets an older row.
\* A pair that is bound keeps its key.
Bind(e, q, key) ==
    LET p == <<e, q>> IN
    /\ pc = Idle
    /\ exchanges[e] # "absent"
    /\ queues[q] # "absent"
    /\ bindings[p] = None
    /\ bindings' = [bindings EXCEPT ![p] = key]
    /\ bindingRows' = IF BothDurable(e, q)
                      THEN [bindingRows EXCEPT ![p] = Append(@, key)]
                      ELSE bindingRows
    /\ UNCHANGED <<exchanges, queues, exchangeRow, queueRow, stores, files, pc,
                   fails, stale, dangling, refused>>

UnBind(e, q) ==
    /\ pc = Idle
    /\ bindings[<<e, q>>] # None
    /\ \E ok \in BOOLEAN : RemoveBindings({<<e, q>>}, ok)
    /\ UNCHANGED <<exchanges, queues, exchangeRow, queueRow, stores, files, pc,
                   refused>>

-----------------------------------------------------------------------------
(* The process dies, at any point, and starts again: the managers read     *)
(* their tables and every queue gets a store.  The SELECT of the exchanges *)
(* or of the bindings may fail, before any row or after some: the rest is  *)
(* not read, and the start goes on.  The SELECT of the queues is asserted  *)
(* on: if it fails the process dies again, and nothing has changed.        *)

\* A SELECT that misses something is a statement that failed.
Missing(exchange, binding) ==
    fails' = fails + Cardinality({missed \in {exchange, binding} : missed # {}})

\* Mutant: the recovered queues get no store.
RecoverWithoutStores(exchange, binding) ==
    /\ exchanges' = Recovered(Exchange, exchangeRow \ exchange)
    /\ queues' = Recovered(Queue, queueRow)
    /\ bindings' = RecoveredBindings(binding)
    /\ stores' = {}
    /\ files' = files

Recover(exchange, binding) ==
    /\ exchanges' = Recovered(Exchange, exchangeRow \ exchange)
    /\ queues' = Recovered(Queue, queueRow)
    /\ bindings' = RecoveredBindings(binding)
    /\ stores' = queueRow
    /\ files' = files \cup queueRow

\* The pairs whose rows outlive their queue if the process dies now.
Torn == {p \in Pair : pc.at = "bindings" /\ p[2] = pc.name /\ HasRows(p)}

\* Missed are the rows of some exchanges and those of some pairs.
Restart(exchange, binding) ==
    /\ Missing(exchange, binding)
    /\ fails' <= MaxFail
    /\ Recover(exchange, binding)
    /\ pc' = Idle
    /\ stale' = exchange \cup binding
    /\ dangling' = dangling \cup Torn
                    \cup {p \in Pair : bindings'[p] # None /\ p[1] \in exchange}
    /\ refused' = {}
    /\ UNCHANGED <<exchangeRow, queueRow, bindingRows>>

Next ==
    \/ \E e \in Exchange, durable \in BOOLEAN : DeclareExchange(e, durable)
    \/ \E e \in Exchange : DeleteExchange(e)
    \/ DeleteExchangeEntry
    \/ \E q \in Queue, durable \in BOOLEAN : DeclareQueue(q, durable)
    \/ DeclareQueueEntry
    \/ \E q \in Queue : DeleteQueue(q)
    \/ DeleteQueueBindings
    \/ DestroyQueueMessage
    \/ \E e \in Exchange, q \in Queue, key \in Key : Bind(e, q, key)
    \/ \E e \in Exchange, q \in Queue : UnBind(e, q)
    \/ \E exchange \in SUBSET exchangeRow, binding \in SUBSET {p \in Pair : HasRows(p)} :
          Restart(exchange, binding)

Spec == Init /\ [][Next]_vars

-----------------------------------------------------------------------------
(* Properties.                                                             *)

TypeOK ==
    /\ exchanges \in [Exchange -> Mode]
    /\ queues \in [Queue -> Mode]
    /\ bindings \in [Pair -> Key \cup {None}]
    /\ exchangeRow \subseteq Exchange
    /\ queueRow \subseteq Queue
    /\ bindingRows \in [Pair -> Seq(Key)]
    /\ stores \subseteq Queue
    /\ files \subseteq Queue
    /\ pc \in Operation
    /\ fails \in 0..MaxFail
    /\ stale \subseteq Exchange \cup Queue \cup Pair
    /\ dangling \subseteq Pair
    /\ refused \subseteq Queue

\* Memory and tables agree at every step (exchange.hpp:161-181,
\* msgqueue.hpp:161-188, binding.hpp:134-182): a name has a row if it is
\* durable and no other, and the row of a binding that a restart reads has the
\* key that routes now.  A failed removal leaves a row behind, and a start
\* whose SELECT failed has not read one: those names are stale.
TablesMatchMemory ==
    /\ \A e \in Exchange :
          /\ exchanges[e] = "durable" => e \in exchangeRow
          /\ e \in exchangeRow => exchanges[e] = "durable" \/ e \in stale
    /\ \A q \in Queue :
          /\ queues[q] = "durable" => q \in queueRow
          /\ q \in queueRow => queues[q] = "durable" \/ q \in stale
    /\ \A p \in Pair \ stale : bindingRows[p] # <<>> => Head(bindingRows[p]) = bindings[p]

\* An operation is cutting the bindings of the pair's queue.
BeingCut(p) == pc.at = "bindings" /\ p[2] = pc.name

\* What a binding names exists, in memory and in the tables, whatever died or
\* was restarted before: an exchange loses its bindings before it goes
\* (host.hpp:52-53), and a binding is stored only if both ends are
\* (host.hpp:95).  DeleteQueue removes the queue first (host.hpp:76-77): if the
\* process dies there, or a removal fails, or a start misses the row of the
\* exchange and reads that of the binding, the pair dangles.
BindingsResolve ==
    \A p \in Pair \ dangling :
        /\ bindings[p] # None =>
              exchanges[p[1]] # "absent" /\ (queues[p[2]] # "absent" \/ BeingCut(p))
        /\ bindingRows[p] # <<>> =>
              p[1] \in exchangeRow /\ (p[2] \in queueRow \/ BeingCut(p))

\* A declared queue has its message store and its file at every step, also
\* after a restart (host.hpp:33-37); between two operations there is no other
\* store, but for the queues whose declaration was refused (host.hpp:69-70).
StoresMatchQueues ==
    /\ stores \subseteq files
    /\ \A q \in Queue : queues[q] # "absent" => q \in stores
    /\ pc = Idle => \A q \in stores : queues[q] # "absent" \/ q \in refused

Named(map, x) ==
    IF map[x] = "absent" THEN None ELSE [value |-> None, kind |-> map[x]]

Bound(p) ==
    IF bindings[p] = None THEN None
    ELSE [value |-> bindings[p],
          kind |-> IF bindingRows[p] = <<>> THEN "volatile" ELSE "durable"]

catalogue ==
    [x \in Exchange \cup Queue \cup Pair |->
        IF x \in Exchange THEN Named(exchanges, x)
        ELSE IF x \in Queue THEN Named(queues, x)
        ELSE Bound(x)]

Groups ==
    {{x} : x \in Exchange \cup Queue \cup Pair}
    \cup {OfExchange(e) : e \in Exchange} \cup {OfQueue(q) : q \in Queue}

Abstract ==
    INSTANCE DurableMap WITH
        map <- catalogue, Name <- Exchange \cup Queue \cup Pair,
        Value <- Key \cup {None}, Group <- Groups, Absent <- None

\* A restart with a row that memory did not know, or does not know now.
Inexact ==
    /\ stale # {} \/ stale' # {}
    /\ \E exchange \in SUBSET exchangeRow, binding \in SUBSET {p \in Pair : HasRows(p)} :
          Restart(exchange, binding)

\* Every step is a step of the durable map: no entry changes but by being
\* declared or removed, and a restart removes the volatile ones and keeps the
\* others, also when it cuts an operation short.  Only a restart after a failed
\* statement may differ, or one with a failed SELECT: it brings back what was
\* removed or missed, or misses what is stored.
ImplementsDurableMap ==
    Abstract!Init /\ [][Abstract!Next \/ Inexact]_catalogue

=============================================================================
