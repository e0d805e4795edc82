---------------------------- MODULE CatalogueProofs ----------------------------
(* The invariants of the catalogue and its refinement of DurableMap, for any *)
(* exchanges, queues and keys and any number of crashes and failures.        *)
EXTENDS Catalogue, FiniteSetTheorems, TLAPS

(* What an operation that is half done has established. *)
UnderWay ==
    /\ pc.at = "exchange" =>
          \A p \in Pair : p[1] = pc.name =>
              bindings[p] = None /\ (bindingRows[p] # <<>> => p \in dangling)
    /\ pc.at \in {"bindings", "store"} => queues[pc.name] = "absent"
    /\ pc.at = "declare" => pc.name \in stores

(* A store belongs to a queue, or an operation is about to settle it. *)
StoresAccounted ==
    \A q \in stores :
        queues[q] # "absent" \/ q \in refused \/ (pc.at # "idle" /\ pc.name = q)

StoresOpen ==
    /\ stores \subseteq files
    /\ \A q \in Queue : queues[q] # "absent" => q \in stores

IInv ==
    /\ TypeOK
    /\ TablesMatchMemory
    /\ BindingsResolve
    /\ StoresOpen
    /\ StoresAccounted
    /\ UnderWay

-----------------------------------------------------------------------------
(* Pairs, the operation under way, and the removal of bindings.              *)

LEMMA Pairs ==
    /\ \A p \in Pair : p[1] \in Exchange /\ p[2] \in Queue /\ p = <<p[1], p[2]>>
    /\ \A e \in Exchange, q \in Queue : <<e, q>> \in Pair
    /\ \A e \in Exchange : OfExchange(e) = {p \in Pair : p[1] = e}
    /\ \A q \in Queue : OfQueue(q) = {p \in Pair : p[2] = q}
  BY DEF Pair, OfExchange, OfQueue

LEMMA Names ==
    /\ \A e \in Exchange : e \notin Queue /\ e \notin Pair
    /\ \A q \in Queue : q \notin Exchange /\ q \notin Pair
  BY CatalogueAssumption DEF Pair

\* What the operation under way works on.
LEMMA Worked ==
    ASSUME TypeOK
    PROVE  /\ pc = Idle <=> pc.at = "idle"
           /\ pc.at \in {"idle", "exchange", "bindings", "store", "declare"}
           /\ pc.at = "exchange" => pc.name \in Exchange
           /\ pc.at \in {"bindings", "store", "declare"} => pc.name \in Queue
           /\ pc.at = "declare" => pc.durable \in BOOLEAN
  BY DEF TypeOK, Operation, Idle, Pending, Declaring

LEMMA Operations ==
    /\ Idle \in Operation
    /\ \A e \in Exchange : Pending("exchange", e) \in Operation
    /\ \A q \in Queue : Pending("bindings", q) \in Operation /\ Pending("store", q) \in Operation
    /\ \A q \in Queue, durable \in BOOLEAN : Declaring(q, durable) \in Operation
  BY DEF Operation

LEMMA Removal ==
    ASSUME TypeOK, NEW S \in SUBSET Pair, NEW ok \in BOOLEAN, RemoveBindings(S, ok)
    PROVE  /\ bindings' \in [Pair -> Key \cup {None}]
           /\ bindingRows' \in [Pair -> Seq(Key)]
           /\ fails' \in 0..MaxFail
           /\ stale' \subseteq Exchange \cup Queue \cup Pair
           /\ dangling' \subseteq Pair
           /\ \A x \in Exchange \cup Queue : x \in stale' <=> x \in stale
           /\ \A p \in S : bindings'[p] = None
           /\ \A p \in S : bindingRows'[p] # <<>> => p \in stale' /\ p \in dangling'
           /\ \A p \in Pair \ S :
                 /\ bindings'[p] = bindings[p]
                 /\ bindingRows'[p] = bindingRows[p]
                 /\ p \in stale' <=> p \in stale
                 /\ p \in dangling' <=> p \in dangling
  <1>1. bindings' \in [Pair -> Key \cup {None}]
    BY DEF RemoveBindings, TypeOK
  <1>2. bindingRows' \in [Pair -> Seq(Key)]
    BY DEF RemoveBindings, TypeOK
  <1>3. fails' \in 0..MaxFail
    BY CatalogueAssumption DEF RemoveBindings, Exec, TypeOK
  <1>4. \A p \in S : bindings'[p] = None
    BY DEF RemoveBindings
  <1>5. \A p \in Pair \ S : bindings'[p] = bindings[p] /\ bindingRows'[p] = bindingRows[p]
    BY DEF RemoveBindings, TypeOK
  <1> DEFINE left == {p \in S : bindingRows'[p] # <<>>}
  <1>6. stale' = (stale \ S) \cup left /\ dangling' = (dangling \ S) \cup left
    BY DEF RemoveBindings
  <1> QED
    BY <1>1, <1>2, <1>3, <1>4, <1>5, <1>6, Names DEF TypeOK

-----------------------------------------------------------------------------
(* The initial state, and one lemma for each action.                         *)

LEMMA InitInv == Init => IInv
  <1> SUFFICES ASSUME Init PROVE IInv
    OBVIOUS
  <1>1. TypeOK
    BY CatalogueAssumption, Operations DEF Init, TypeOK, Mode
  <1>2. TablesMatchMemory /\ BindingsResolve
    BY DEF Init, TablesMatchMemory, BindingsResolve
  <1>3. StoresOpen /\ StoresAccounted /\ UnderWay
    BY DEF Init, StoresOpen, StoresAccounted, UnderWay, Idle
  <1> QED
    BY <1>1, <1>2, <1>3 DEF IInv

LEMMA DeclareExchangeInv ==
    ASSUME IInv, NEW e \in Exchange, NEW durable \in BOOLEAN, DeclareExchange(e, durable)
    PROVE  IInv'
  <1>1. /\ exchanges' = Declared(exchanges, e, durable)
        /\ exchangeRow' = WithRow(exchangeRow, e, durable)
        /\ exchanges[e] = "absent" /\ (durable => e \notin exchangeRow)
        /\ UNCHANGED <<queues, bindings, queueRow, bindingRows, stores, files, pc,
                       fails, stale, dangling, refused>>
    BY DEF DeclareExchange, Accepted
  <1>2. exchanges \in [Exchange -> Mode] /\ exchangeRow \subseteq Exchange
    BY DEF IInv, TypeOK
  <1>3. /\ exchanges' \in [Exchange -> Mode] /\ exchangeRow' \subseteq Exchange
        /\ exchangeRow \subseteq exchangeRow'
        /\ exchanges'[e] # "absent"
        /\ exchanges'[e] = "durable" <=> durable
        /\ e \in exchangeRow' <=> durable \/ e \in exchangeRow
        /\ \A x \in Exchange \ {e} :
              exchanges'[x] = exchanges[x] /\ (x \in exchangeRow' <=> x \in exchangeRow)
    BY <1>1, <1>2 DEF Declared, WithRow, Mode
  <1>4. TypeOK'
    BY <1>1, <1>3 DEF IInv, TypeOK
  <1>5. TablesMatchMemory'
    BY <1>1, <1>3 DEF IInv, TablesMatchMemory
  <1>6. BindingsResolve'
    BY <1>1, <1>3, Pairs DEF IInv, BindingsResolve, BeingCut
  <1>7. StoresOpen' /\ StoresAccounted' /\ UnderWay'
    BY <1>1 DEF IInv, StoresOpen, StoresAccounted, UnderWay
  <1> QED
    BY <1>4, <1>5, <1>6, <1>7 DEF IInv

LEMMA DeleteExchangeInv ==
    ASSUME IInv, NEW e \in Exchange, DeleteExchange(e)
    PROVE  IInv'
  <1>1. PICK ok \in BOOLEAN : RemoveBindings(OfExchange(e), ok)
    BY DEF DeleteExchange
  <1>2. OfExchange(e) \in SUBSET Pair /\ \A p \in Pair : p \in OfExchange(e) <=> p[1] = e
    BY Pairs
  <1>3. /\ pc = Idle /\ pc' = [at |-> "exchange", name |-> e]
        /\ UNCHANGED <<exchanges, queues, exchangeRow, queueRow, stores, files, refused>>
    BY DEF DeleteExchange, Pending
  <1>4. TypeOK
    BY DEF IInv
  <1> HIDE DEF OfExchange
  <1>5. TypeOK'
    BY <1>1, <1>2, <1>3, <1>4, Removal, Operations DEF TypeOK, DeleteExchange
  <1>6. TablesMatchMemory'
    BY <1>1, <1>2, <1>3, <1>4, Removal DEF IInv, TablesMatchMemory
  <1>7. BindingsResolve'
    BY <1>1, <1>2, <1>3, <1>4, Removal DEF IInv, BindingsResolve, BeingCut, Idle
  <1>8. StoresOpen' /\ StoresAccounted'
    BY <1>3 DEF IInv, StoresOpen, StoresAccounted, Idle
  <1>9. UnderWay'
    BY <1>1, <1>2, <1>3, <1>4, Removal DEF UnderWay
  <1> QED
    BY <1>5, <1>6, <1>7, <1>8, <1>9 DEF IInv

LEMMA DeleteExchangeEntryInv == IInv /\ DeleteExchangeEntry => IInv'
  <1> SUFFICES ASSUME IInv, DeleteExchangeEntry PROVE IInv'
    OBVIOUS
  <1> DEFINE e == pc.name
  <1>1. /\ pc.at = "exchange" /\ e \in Exchange /\ TypeOK
        /\ pc' = Idle /\ pc'.at = "idle"
        /\ exchanges' = [exchanges EXCEPT ![e] = "absent"]
        /\ stale' = (stale \ {e}) \cup ({e} \cap exchangeRow')
        /\ UNCHANGED <<queues, bindings, queueRow, bindingRows, stores, files,
                       dangling, refused>>
    BY Worked DEF IInv, DeleteExchangeEntry, Idle
  <1>2. /\ exchangeRow' \subseteq Exchange
        /\ \A x \in Exchange \ {e} : x \in exchangeRow' <=> x \in exchangeRow
        /\ fails' \in 0..MaxFail
    BY <1>1, CatalogueAssumption
    DEF DeleteExchangeEntry, ExecIfDurable, WithoutRow, Exec, TypeOK
  <1>3. /\ exchanges' \in [Exchange -> Mode] /\ exchanges'[e] = "absent"
        /\ \A x \in Exchange \ {e} : exchanges'[x] = exchanges[x]
    BY <1>1 DEF TypeOK, Mode
  <1>4. /\ stale' \subseteq Exchange \cup Queue \cup Pair
        /\ \A x \in Queue \cup Pair : x \in stale' <=> x \in stale
        /\ \A x \in Exchange \ {e} : x \in stale' <=> x \in stale
        /\ e \in stale' <=> e \in exchangeRow'
    BY <1>1, <1>2, Names DEF TypeOK
  <1> HIDE DEF e
  <1>5. TypeOK'
    BY <1>1, <1>2, <1>3, <1>4, Operations DEF TypeOK
  <1>6. TablesMatchMemory'
    BY <1>1, <1>2, <1>3, <1>4 DEF IInv, TablesMatchMemory
  <1>7. BindingsResolve'
    <2> SUFFICES ASSUME NEW p \in Pair \ dangling
                 PROVE  /\ bindings[p] # None => exchanges'[p[1]] # "absent" /\ queues[p[2]] # "absent"
                        /\ bindingRows[p] # <<>> => p[1] \in exchangeRow' /\ p[2] \in queueRow
      BY <1>1 DEF BindingsResolve
    <2>1. CASE p[1] = e
      BY <2>1, <1>1 DEF IInv, UnderWay, e
    <2>2. CASE p[1] # e
      BY <2>2, <1>1, <1>2, <1>3, Pairs DEF IInv, BindingsResolve, BeingCut
    <2> QED
      BY <2>1, <2>2
  <1>8. StoresOpen' /\ StoresAccounted' /\ UnderWay'
    BY <1>1, Names DEF IInv, StoresOpen, StoresAccounted, UnderWay, TypeOK, e
  <1> QED
    BY <1>5, <1>6, <1>7, <1>8 DEF IInv

LEMMA DeclareQueueInv ==
    ASSUME IInv, NEW q \in Queue, NEW durable \in BOOLEAN, DeclareQueue(q, durable)
    PROVE  IInv'
  <1>1. /\ pc = Idle /\ pc.at = "idle"
        /\ pc' = Declaring(q, durable) /\ pc'.at = "declare" /\ pc'.name = q
        /\ stores' = stores \cup {q} /\ files' = files \cup ({q} \ stores)
        /\ UNCHANGED <<exchanges, queues, bindings, exchangeRow, queueRow,
                       bindingRows, fails, stale, dangling, refused>>
    BY DEF DeclareQueue, Declaring, Idle
  <1>2. TypeOK'
    BY <1>1, Operations DEF IInv, TypeOK
  <1>3. TablesMatchMemory'
    BY <1>1 DEF IInv, TablesMatchMemory
  <1>4. BindingsResolve'
    BY <1>1 DEF IInv, BindingsResolve, BeingCut
  <1>5. StoresOpen'
    BY <1>1 DEF IInv, StoresOpen
  <1>6. StoresAccounted'
    BY <1>1 DEF IInv, StoresAccounted
  <1>7. UnderWay'
    BY <1>1 DEF UnderWay
  <1> QED
    BY <1>2, <1>3, <1>4, <1>5, <1>6, <1>7 DEF IInv

LEMMA DeclareQueueEntryInv == IInv /\ DeclareQueueEntry => IInv'
  <1> SUFFICES ASSUME IInv, DeclareQueueEntry PROVE IInv'
    OBVIOUS
  <1> DEFINE q == pc.name
  <1>1. /\ pc.at = "declare" /\ q \in Queue /\ TypeOK /\ pc.durable \in BOOLEAN
        /\ q \in stores
        /\ pc' = Idle /\ pc'.at = "idle"
        /\ UNCHANGED <<exchanges, bindings, exchangeRow, bindingRows, stores, files,
                       stale, dangling>>
    BY Worked DEF IInv, UnderWay, DeclareQueueEntry, Idle
  <1>2. CASE queues[q] # "absent" /\ UNCHANGED <<queues, queueRow, fails, refused>>
    <2>1. TypeOK' /\ TablesMatchMemory'
      BY <1>1, <1>2, Operations DEF IInv, TypeOK, TablesMatchMemory
    <2>2. BindingsResolve'
      BY <1>1, <1>2 DEF IInv, BindingsResolve, BeingCut
    <2>3. StoresOpen' /\ StoresAccounted' /\ UnderWay'
      BY <1>1, <1>2 DEF IInv, StoresOpen, StoresAccounted, UnderWay
    <2> QED
      BY <2>1, <2>2, <2>3 DEF IInv
  <1>3. CASE /\ queues[q] = "absent"
             /\ Accepted(queueRow, q, pc.durable)
             /\ queues' = Declared(queues, q, pc.durable)
             /\ queueRow' = WithRow(queueRow, q, pc.durable)
             /\ refused' = refused \ {q}
             /\ UNCHANGED fails
    <2>1. /\ queues' \in [Queue -> Mode] /\ queueRow' \subseteq Queue
          /\ queueRow \subseteq queueRow'
          /\ queues'[q] # "absent"
          /\ queues'[q] = "durable" <=> pc.durable
          /\ q \in queueRow' <=> pc.durable \/ q \in queueRow
          /\ \A x \in Queue \ {q} :
                queues'[x] = queues[x] /\ (x \in queueRow' <=> x \in queueRow)
      BY <1>1, <1>3 DEF Declared, WithRow, Mode, TypeOK
    <2>2. TypeOK'
      BY <1>1, <1>3, <2>1, Operations DEF TypeOK
    <2> HIDE DEF q
    <2>3. TablesMatchMemory'
      BY <1>1, <1>3, <2>1 DEF IInv, TablesMatchMemory
    <2>4. BindingsResolve'
      BY <1>1, <1>3, <2>1, Pairs DEF IInv, BindingsResolve, BeingCut
    <2>5. StoresOpen' /\ StoresAccounted' /\ UnderWay'
      BY <1>1, <1>3, <2>1 DEF IInv, StoresOpen, StoresAccounted, UnderWay, TypeOK, q
    <2> QED
      BY <2>2, <2>3, <2>4, <2>5 DEF IInv
  <1>4. CASE /\ queues[q] = "absent"
             /\ Exec(q \in queueRow)
             /\ refused' = refused \cup {q}
             /\ UNCHANGED <<queues, queueRow>>
    <2>1. fails' \in 0..MaxFail
      BY <1>1, <1>4, CatalogueAssumption DEF Exec, TypeOK
    <2>2. TypeOK' /\ TablesMatchMemory'
      BY <1>1, <1>4, <2>1, Operations DEF IInv, TypeOK, TablesMatchMemory
    <2>3. BindingsResolve'
      BY <1>1, <1>4 DEF IInv, BindingsResolve, BeingCut
    <2>4. StoresOpen' /\ StoresAccounted' /\ UnderWay'
      BY <1>1, <1>4 DEF IInv, StoresOpen, StoresAccounted, UnderWay
    <2> QED
      BY <2>2, <2>3, <2>4 DEF IInv
  <1> QED
    BY <1>2, <1>3, <1>4 DEF DeclareQueueEntry

LEMMA DeleteQueueInv ==
    ASSUME IInv, NEW q \in Queue, DeleteQueue(q)
    PROVE  IInv'
  <1>1. /\ pc = Idle /\ pc.at = "idle" /\ TypeOK
        /\ pc' = Pending("bindings", q) /\ pc'.at = "bindings" /\ pc'.name = q
        /\ queues' = [queues EXCEPT ![q] = "absent"]
        /\ stale' = (stale \ {q}) \cup ({q} \cap queueRow')
        /\ UNCHANGED <<exchanges, bindings, exchangeRow, bindingRows, stores, files,
                       dangling, refused>>
    BY DEF IInv, DeleteQueue, Pending, Idle
  <1>2. /\ queueRow' \subseteq Queue
        /\ \A x \in Queue \ {q} : x \in queueRow' <=> x \in queueRow
        /\ fails' \in 0..MaxFail
    BY <1>1, CatalogueAssumption
    DEF DeleteQueue, ExecIfDurable, WithoutRow, Exec, TypeOK
  <1>3. /\ queues' \in [Queue -> Mode] /\ queues'[q] = "absent"
        /\ \A x \in Queue \ {q} : queues'[x] = queues[x]
    BY <1>1 DEF TypeOK, Mode
  <1>4. /\ stale' \subseteq Exchange \cup Queue \cup Pair
        /\ \A x \in Exchange \cup Pair : x \in stale' <=> x \in stale
        /\ \A x \in Queue \ {q} : x \in stale' <=> x \in stale
        /\ q \in stale' <=> q \in queueRow'
    BY <1>1, <1>2, Names DEF TypeOK
  <1>5. TypeOK'
    BY <1>1, <1>2, <1>3, <1>4, Operations DEF TypeOK
  <1>6. TablesMatchMemory'
    BY <1>1, <1>2, <1>3, <1>4 DEF IInv, TablesMatchMemory
  <1>7. BindingsResolve'
    BY <1>1, <1>2, <1>3, Pairs DEF IInv, BindingsResolve, BeingCut
  <1>8. StoresOpen' /\ StoresAccounted' /\ UnderWay'
    BY <1>1, <1>3 DEF IInv, StoresOpen, StoresAccounted, UnderWay, TypeOK
  <1> QED
    BY <1>5, <1>6, <1>7, <1>8 DEF IInv

LEMMA DeleteQueueBindingsInv == IInv /\ DeleteQueueBindings => IInv'
  <1> SUFFICES ASSUME IInv, DeleteQueueBindings PROVE IInv'
    OBVIOUS
  <1> DEFINE q == pc.name
  <1>1. /\ pc.at = "bindings" /\ q \in Queue /\ TypeOK /\ queues[q] = "absent"
        /\ pc' = Pending("store", q) /\ pc'.at = "store" /\ pc'.name = q
        /\ UNCHANGED <<exchanges, queues, exchangeRow, queueRow, stores, files, refused>>
    BY Worked DEF IInv, UnderWay, DeleteQueueBindings, Pending
  <1>2. PICK ok \in BOOLEAN : RemoveBindings(OfQueue(q), ok)
    BY DEF DeleteQueueBindings
  <1> HIDE DEF q
  <1>3. OfQueue(q) \in SUBSET Pair /\ \A p \in Pair : p \in OfQueue(q) <=> p[2] = q
    BY <1>1, Pairs
  <1>5. TypeOK'
    BY <1>1, <1>2, <1>3, Removal, Operations DEF TypeOK
  <1>6. TablesMatchMemory'
    BY <1>1, <1>2, <1>3, Removal DEF IInv, TablesMatchMemory
  <1>7. BindingsResolve'
    <2> SUFFICES ASSUME NEW p \in Pair \ dangling'
                 PROVE  /\ bindings'[p] # None => exchanges[p[1]] # "absent" /\ queues[p[2]] # "absent"
                        /\ bindingRows'[p] # <<>> => p[1] \in exchangeRow /\ p[2] \in queueRow
      BY <1>1 DEF BindingsResolve
    <2>1. CASE p \in OfQueue(q)
      <3>1. bindings'[p] = None /\ (bindingRows'[p] # <<>> => p \in dangling')
        BY <2>1, <1>1, <1>2, <1>3, Removal
      <3> QED
        BY <3>1
    <2>2. CASE p \notin OfQueue(q)
      <3>1. /\ p \in Pair \ OfQueue(q) /\ p \notin dangling /\ p[2] # q
            /\ bindings'[p] = bindings[p] /\ bindingRows'[p] = bindingRows[p]
        BY <2>2, <1>1, <1>2, <1>3, Removal
      <3> QED
        BY <3>1, <1>1 DEF IInv, BindingsResolve, BeingCut, q
    <2> QED
      BY <2>1, <2>2
  <1>8. StoresOpen' /\ StoresAccounted' /\ UnderWay'
    BY <1>1 DEF IInv, StoresOpen, StoresAccounted, UnderWay, q
  <1> QED
    BY <1>5, <1>6, <1>7, <1>8 DEF IInv

LEMMA DestroyQueueMessageInv == IInv /\ DestroyQueueMessage => IInv'
  <1> SUFFICES ASSUME IInv, DestroyQueueMessage PROVE IInv'
    OBVIOUS
  <1> DEFINE q == pc.name
  <1>1. /\ pc.at = "store" /\ q \in Queue /\ TypeOK /\ queues[q] = "absent"
        /\ pc' = Idle /\ pc'.at = "idle"
        /\ stores' = stores \ {q} /\ files' = files \ ({q} \cap stores)
        /\ refused' = refused \ {q}
        /\ UNCHANGED <<exchanges, queues, bindings, exchangeRow, queueRow,
                       bindingRows, fails, stale, dangling>>
    BY Worked DEF IInv, UnderWay, DestroyQueueMessage, Idle
  <1> HIDE DEF q
  <1>2. TypeOK' /\ TablesMatchMemory'
    BY <1>1, Operations DEF IInv, TypeOK, TablesMatchMemory
  <1>3. BindingsResolve'
    BY <1>1 DEF IInv, BindingsResolve, BeingCut
  <1>4. StoresOpen' /\ StoresAccounted' /\ UnderWay'
    BY <1>1 DEF IInv, StoresOpen, StoresAccounted, UnderWay, q
  <1> QED
    BY <1>2, <1>3, <1>4 DEF IInv

LEMMA BindInv ==
    ASSUME IInv, NEW e \in Exchange, NEW q \in Queue, NEW key \in Key, Bind(e, q, key)
    PROVE  IInv'
  <1> DEFINE p == <<e, q>>
  <1>1. /\ TypeOK /\ p \in Pair /\ p[1] = e /\ p[2] = q
        /\ exchanges[e] # "absent" /\ queues[q] # "absent" /\ bindings[p] = None
        /\ bindings' = [bindings EXCEPT ![p] = key]
        /\ bindingRows' = IF BothDurable(e, q)
                          THEN [bindingRows EXCEPT ![p] = Append(bindingRows[p], key)]
                          ELSE bindingRows
        /\ UNCHANGED <<exchanges, queues, exchangeRow, queueRow, stores, files, pc,
                       fails, stale, dangling, refused>>
    BY Pairs DEF IInv, Bind
  <1>2. bindingRows[p] \in Seq(Key) /\ Append(bindingRows[p], key) \in Seq(Key)
    BY <1>1 DEF TypeOK
  <1> HIDE DEF p
  <1>3. /\ bindings' \in [Pair -> Key \cup {None}] /\ bindingRows' \in [Pair -> Seq(Key)]
        /\ bindings'[p] = key
        /\ bindingRows'[p] = IF BothDurable(e, q) THEN Append(bindingRows[p], key) ELSE bindingRows[p]
        /\ \A r \in Pair \ {p} : bindings'[r] = bindings[r] /\ bindingRows'[r] = bindingRows[r]
    BY <1>1, <1>2 DEF TypeOK
  <1>4. p \notin stale => bindingRows[p] = <<>>
    <2> SUFFICES ASSUME p \notin stale, bindingRows[p] # <<>> PROVE FALSE
      OBVIOUS
    <2>1. Head(bindingRows[p]) = None
      BY <1>1 DEF IInv, TablesMatchMemory
    <2> QED
      BY <2>1, <1>2, CatalogueAssumption
  <1>5. TypeOK'
    BY <1>1, <1>3 DEF TypeOK
  <1>6. TablesMatchMemory'
    <2>1. p \notin stale /\ bindingRows'[p] # <<>> => Head(bindingRows'[p]) = bindings'[p]
      BY <1>3, <1>4
    <2> QED
      BY <2>1, <1>1, <1>3 DEF IInv, TablesMatchMemory
  <1>7. BindingsResolve'
    <2> SUFFICES ASSUME NEW r \in Pair \ dangling
                 PROVE  /\ bindings'[r] # None =>
                              exchanges[r[1]] # "absent" /\ (queues[r[2]] # "absent" \/ BeingCut(r))
                        /\ bindingRows'[r] # <<>> =>
                              r[1] \in exchangeRow /\ (r[2] \in queueRow \/ BeingCut(r))
      BY <1>1 DEF BindingsResolve, BeingCut
    <2>1. CASE r # p
      BY <2>1, <1>3 DEF IInv, BindingsResolve
    <2>2. CASE r = p
      <3>1. BothDurable(e, q) => e \in exchangeRow /\ q \in queueRow
        BY DEF BothDurable, IInv, TablesMatchMemory
      <3>2. ~BothDurable(e, q) => bindingRows'[r] = bindingRows[r]
        BY <2>2, <1>3
      <3> QED
        BY <3>1, <3>2, <2>2, <1>1 DEF IInv, BindingsResolve
    <2> QED
      BY <2>1, <2>2
  <1>8. StoresOpen' /\ StoresAccounted' /\ UnderWay'
    <2>1. pc = Idle
      BY DEF Bind
    <2> QED
      BY <2>1, <1>1 DEF IInv, StoresOpen, StoresAccounted, UnderWay, Idle
  <1> QED
    BY <1>5, <1>6, <1>7, <1>8 DEF IInv

LEMMA UnBindInv ==
    ASSUME IInv, NEW e \in Exchange, NEW q \in Queue, UnBind(e, q)
    PROVE  IInv'
  <1> DEFINE S == {<<e, q>>}
  <1>1. PICK ok \in BOOLEAN : RemoveBindings(S, ok)
    BY DEF UnBind
  <1>2. /\ S \in SUBSET Pair /\ TypeOK /\ pc = Idle
        /\ UNCHANGED <<exchanges, queues, exchangeRow, queueRow, stores, files, pc,
                       refused>>
    BY Pairs DEF IInv, UnBind
  <1> HIDE DEF S
  <1>3. TypeOK'
    BY <1>1, <1>2, Removal DEF TypeOK
  <1>4. TablesMatchMemory'
    BY <1>1, <1>2, Removal DEF IInv, TablesMatchMemory
  <1>5. BindingsResolve'
    BY <1>1, <1>2, Removal DEF IInv, BindingsResolve, BeingCut, Idle
  <1>6. StoresOpen' /\ StoresAccounted' /\ UnderWay'
    BY <1>2 DEF IInv, StoresOpen, StoresAccounted, UnderWay, Idle
  <1> QED
    BY <1>3, <1>4, <1>5, <1>6 DEF IInv

\* At most two SELECTs miss something.
LEMMA Misses ==
    ASSUME TypeOK, NEW e, NEW b, Missing(e, b)
    PROVE  fails' \in Nat
  <1> DEFINE missed == {m \in {e, b} : m # {}}
  <1>1. IsFiniteSet({e, b})
    <2>1. IsFiniteSet({e})
      BY FS_Singleton
    <2>2. {e} \cup {b} = {e, b}
      OBVIOUS
    <2>3. IsFiniteSet({e} \cup {b})
      BY <2>1, FS_AddElement
    <2> QED
      BY <2>2, <2>3
  <1>2. IsFiniteSet(missed)
    BY <1>1, FS_Subset
  <1>3. Cardinality(missed) \in Nat
    BY <1>2, FS_CardinalityType
  <1> QED
    BY <1>3 DEF Missing, TypeOK

LEMMA RestartInv ==
    ASSUME IInv, NEW e \in SUBSET exchangeRow, NEW b \in SUBSET {p \in Pair : HasRows(p)},
           Restart(e, b)
    PROVE  IInv'
  <1>1. /\ TypeOK /\ pc' = Idle /\ pc'.at = "idle"
        /\ stale' = e \cup b /\ refused' = {}
        /\ dangling' = dangling \cup Torn \cup {p \in Pair : bindings'[p] # None /\ p[1] \in e}
        /\ stores' = queueRow /\ files' = files \cup queueRow
        /\ UNCHANGED <<exchangeRow, queueRow, bindingRows>>
        /\ e \subseteq Exchange /\ b \subseteq Pair
    BY DEF IInv, Restart, Recover, Idle, TypeOK
  <1>2. /\ exchanges' \in [Exchange -> Mode] /\ queues' \in [Queue -> Mode]
        /\ \A x \in Exchange :
              exchanges'[x] = IF x \in exchangeRow \ e THEN "durable" ELSE "absent"
        /\ \A q \in Queue : queues'[q] = IF q \in queueRow THEN "durable" ELSE "absent"
    BY DEF Restart, Recover, Recovered, Mode
  <1>3. \A p \in Pair :
            bindings'[p] = IF bindingRows[p] # <<>> /\ p \notin b
                           THEN Head(bindingRows[p]) ELSE None
    BY DEF Restart, Recover, RecoveredBindings, HasRows
  <1>4. bindings' \in [Pair -> Key \cup {None}]
    <2>1. \A p \in Pair : bindingRows[p] # <<>> => Head(bindingRows[p]) \in Key
      BY <1>1 DEF TypeOK
    <2> QED
      BY <2>1 DEF Restart, Recover, RecoveredBindings, HasRows
  <1>5. TypeOK'
    <2>1. fails' \in 0..MaxFail
      BY <1>1, Misses, CatalogueAssumption DEF Restart
    <2>2. Torn \subseteq Pair
      BY DEF Torn
    <2> QED
      BY <1>1, <1>2, <1>4, <2>1, <2>2, Operations DEF TypeOK
  <1>6. TablesMatchMemory'
    BY <1>1, <1>2, <1>3 DEF TablesMatchMemory
  <1>7. BindingsResolve'
    <2> SUFFICES ASSUME NEW p \in Pair \ dangling', bindingRows[p] # <<>>
                 PROVE  /\ p[1] \in exchangeRow /\ p[2] \in queueRow
                        /\ bindings'[p] # None => p[1] \notin e
      BY <1>1, <1>2, <1>3, Pairs DEF BindingsResolve
    <2>1. p \notin dangling /\ ~BeingCut(p)
      BY <1>1 DEF Torn, BeingCut, HasRows
    <2>2. bindings'[p] # None => p[1] \notin e
      BY <1>1
    <2> QED
      BY <2>1, <2>2 DEF IInv, BindingsResolve
  <1>8. StoresOpen' /\ StoresAccounted' /\ UnderWay'
    BY <1>1, <1>2 DEF IInv, StoresOpen, StoresAccounted, UnderWay, TypeOK
  <1> QED
    BY <1>5, <1>6, <1>7, <1>8 DEF IInv

-----------------------------------------------------------------------------
(* The theorems.                                                             *)

\* IInv holds in every state.
THEOREM Invariance == Spec => []IInv
  <1>1. IInv /\ [Next]_vars => IInv'
    <2> SUFFICES ASSUME IInv, [Next]_vars PROVE IInv'
      OBVIOUS
    <2>1. CASE UNCHANGED vars
      BY <2>1 DEF vars, IInv, TypeOK, TablesMatchMemory, BindingsResolve, BeingCut,
                  StoresOpen, StoresAccounted, UnderWay
    <2>2. CASE Next
      BY <2>2, DeclareExchangeInv, DeleteExchangeInv, DeleteExchangeEntryInv,
         DeclareQueueInv, DeclareQueueEntryInv, DeleteQueueInv, DeleteQueueBindingsInv,
         DestroyQueueMessageInv, BindInv, UnBindInv, RestartInv
      DEF Next
    <2> QED
      BY <2>1, <2>2
  <1> QED
    BY <1>1, InitInv, PTL DEF Spec

\* The types: in particular every operation is at a step the code has, and a
\* name has an entry of a mode, or none.
THEOREM TypeCorrect == Spec => []TypeOK
  <1>1. IInv => TypeOK
    BY DEF IInv
  <1> QED
    BY <1>1, Invariance, PTL

\* Memory and tables agree at every step but for the names a failed removal has
\* left a row to, or whose row a start did not read (exchange.hpp:119-182,
\* msgqueue.hpp:161-186, binding.hpp:100-178).
THEOREM TablesCorrect == Spec => []TablesMatchMemory
  <1>1. IInv => TablesMatchMemory
    BY DEF IInv
  <1> QED
    BY <1>1, Invariance, PTL

\* What a binding names exists, whatever died or was restarted before, unless
\* the removal of its rows was cut short or failed, or a start read its row and
\* not that of its exchange (host.hpp:25-96).
THEOREM BindingsCorrect == Spec => []BindingsResolve
  <1>1. IInv => BindingsResolve
    BY DEF IInv
  <1> QED
    BY <1>1, Invariance, PTL

\* A declared queue has its store and its file at every step, and between two
\* operations only it and a refused queue have a store (host.hpp:33-37, 69-78).
THEOREM StoresCorrect == Spec => []StoresMatchQueues
  <1>1. IInv => StoresMatchQueues
    BY DEF IInv, StoresOpen, StoresAccounted, StoresMatchQueues, Idle
  <1> QED
    BY <1>1, Invariance, PTL

-----------------------------------------------------------------------------
(* The refinement: entry by entry, then the steps of the durable map.        *)

LEMMA Entries ==
    /\ \A e \in Exchange : catalogue[e] = Named(exchanges, e)
    /\ \A q \in Queue : catalogue[q] = Named(queues, q)
    /\ \A p \in Pair : catalogue[p] = Bound(p)
    /\ \A e \in Exchange : catalogue'[e] = Named(exchanges, e)'
    /\ \A q \in Queue : catalogue'[q] = Named(queues, q)'
    /\ \A p \in Pair : catalogue'[p] = Bound(p)'
  BY Names DEF catalogue

LEMMA SameEntries ==
    /\ \A e \in Exchange : exchanges'[e] = exchanges[e] => catalogue'[e] = catalogue[e]
    /\ \A q \in Queue : queues'[q] = queues[q] => catalogue'[q] = catalogue[q]
    /\ \A p \in Pair : bindings'[p] = bindings[p] /\ bindingRows'[p] = bindingRows[p] =>
                          catalogue'[p] = catalogue[p]
  <1>1. ASSUME NEW e \in Exchange, exchanges'[e] = exchanges[e]
        PROVE  catalogue'[e] = catalogue[e]
    <2>1. catalogue[e] = Named(exchanges, e) /\ catalogue'[e] = Named(exchanges, e)'
      BY Entries
    <2> QED
      BY <2>1, <1>1 DEF Named
  <1>2. ASSUME NEW q \in Queue, queues'[q] = queues[q]
        PROVE  catalogue'[q] = catalogue[q]
    <2>1. catalogue[q] = Named(queues, q) /\ catalogue'[q] = Named(queues, q)'
      BY Entries
    <2> QED
      BY <2>1, <1>2 DEF Named
  <1>3. ASSUME NEW p \in Pair, bindings'[p] = bindings[p], bindingRows'[p] = bindingRows[p]
        PROVE  catalogue'[p] = catalogue[p]
    <2>1. catalogue[p] = Bound(p) /\ catalogue'[p] = Bound(p)'
      BY Entries
    <2> QED
      BY <2>1, <1>3 DEF Bound
  <1> QED
    BY <1>1, <1>2, <1>3

\* An entry is not None.
LEMMA Real ==
    \A v \in Key \cup {None}, kind \in {"volatile", "durable"} :
        [value |-> v, kind |-> kind] # None
  BY CatalogueAssumption

LEMMA RemoveStep ==
    ASSUME NEW S \in Groups,
           \A x \in Exchange \cup Queue \cup Pair :
               catalogue'[x] = IF x \in S THEN None ELSE catalogue[x]
    PROVE  Abstract!Next
  <1>1. catalogue' = [x \in Exchange \cup Queue \cup Pair |-> catalogue'[x]]
    BY DEF catalogue
  <1>2. Abstract!Remove(S)
    BY <1>1 DEF Abstract!Remove
  <1> QED
    BY <1>2 DEF Abstract!Next

LEMMA AddStep ==
    ASSUME NEW x \in Exchange \cup Queue \cup Pair, NEW v \in Key \cup {None},
           NEW kind \in {"volatile", "durable"},
           catalogue[x] = None,
           catalogue'[x] = [value |-> v, kind |-> kind],
           \A y \in (Exchange \cup Queue \cup Pair) \ {x} : catalogue'[y] = catalogue[y]
    PROVE  Abstract!Next
  <1>1. /\ catalogue' = [y \in Exchange \cup Queue \cup Pair |-> catalogue'[y]]
        /\ catalogue = [y \in Exchange \cup Queue \cup Pair |-> catalogue[y]]
    BY DEF catalogue
  <1>2. Abstract!Add(x, v, kind)
    BY <1>1 DEF Abstract!Add
  <1> QED
    BY <1>2 DEF Abstract!Next

LEMMA InitRefines == Init => Abstract!Init
  BY Names DEF Init, Abstract!Init, catalogue, Named, Bound

LEMMA DeclareExchangeRefines ==
    ASSUME IInv, NEW e \in Exchange, NEW durable \in BOOLEAN, DeclareExchange(e, durable)
    PROVE  Abstract!Next
  <1>1. /\ exchanges[e] = "absent" /\ exchanges \in [Exchange -> Mode]
        /\ exchanges' = Declared(exchanges, e, durable)
        /\ UNCHANGED <<queues, bindings, bindingRows>>
    BY DEF DeclareExchange, IInv, TypeOK
  <1>2. catalogue[e] = None
    BY <1>1, Entries DEF Named
  <1>3. catalogue'[e] = [value |-> None, kind |-> IF durable THEN "durable" ELSE "volatile"]
    BY <1>1, Entries DEF Named, Declared
  <1>4. \A y \in (Exchange \cup Queue \cup Pair) \ {e} : catalogue'[y] = catalogue[y]
    BY <1>1, SameEntries DEF Declared
  <1> QED
    BY <1>2, <1>3, <1>4, AddStep

LEMMA DeclareQueueEntryRefines ==
    ASSUME IInv, DeclareQueueEntry
    PROVE  Abstract!Next \/ UNCHANGED catalogue
  <1> DEFINE q == pc.name
  <1>1. /\ q \in Queue /\ pc.durable \in BOOLEAN /\ queues \in [Queue -> Mode]
        /\ UNCHANGED <<exchanges, bindings, bindingRows>>
    BY Worked DEF IInv, TypeOK, DeclareQueueEntry
  <1>2. CASE UNCHANGED queues
    BY <1>1, <1>2 DEF catalogue, Named, Bound
  <1>3. CASE queues[q] = "absent" /\ queues' = Declared(queues, q, pc.durable)
    <2> HIDE DEF q
    <2>1. catalogue[q] = None
      BY <1>1, <1>3, Entries DEF Named
    <2>2. catalogue'[q] = [value |-> None, kind |-> IF pc.durable THEN "durable" ELSE "volatile"]
      BY <1>1, <1>3, Entries DEF Named, Declared
    <2>3. \A y \in (Exchange \cup Queue \cup Pair) \ {q} : catalogue'[y] = catalogue[y]
      BY <1>1, <1>3, SameEntries DEF Declared
    <2> QED
      BY <1>1, <2>1, <2>2, <2>3, AddStep
  <1> QED
    BY <1>2, <1>3 DEF DeclareQueueEntry

LEMMA DeleteEntryRefines ==
    ASSUME IInv, DeleteExchangeEntry \/ \E q \in Queue : DeleteQueue(q)
    PROVE  Abstract!Next
  <1>1. CASE DeleteExchangeEntry
    <2> DEFINE e == pc.name
    <2>1. /\ e \in Exchange /\ exchanges \in [Exchange -> Mode]
          /\ exchanges' = [exchanges EXCEPT ![e] = "absent"]
          /\ UNCHANGED <<queues, bindings, bindingRows>>
      BY <1>1, Worked DEF IInv, TypeOK, DeleteExchangeEntry
    <2> HIDE DEF e
    <2>2. \A x \in Exchange \cup Queue \cup Pair :
              catalogue'[x] = IF x \in {e} THEN None ELSE catalogue[x]
      <3>1. catalogue'[e] = None
        BY <2>1, Entries DEF Named
      <3>2. \A y \in Exchange \ {e} : catalogue'[y] = catalogue[y]
        BY <2>1, SameEntries
      <3>3. \A y \in Queue \cup Pair : y # e /\ catalogue'[y] = catalogue[y]
        BY <2>1, SameEntries, Names
      <3> QED
        BY <3>1, <3>2, <3>3
    <2> QED
      BY <2>1, <2>2, RemoveStep DEF Groups
  <1>2. ASSUME NEW q \in Queue, DeleteQueue(q) PROVE Abstract!Next
    <2>1. /\ queues \in [Queue -> Mode]
          /\ queues' = [queues EXCEPT ![q] = "absent"]
          /\ UNCHANGED <<exchanges, bindings, bindingRows>>
      BY <1>2 DEF IInv, TypeOK, DeleteQueue
    <2>2. \A x \in Exchange \cup Queue \cup Pair :
              catalogue'[x] = IF x \in {q} THEN None ELSE catalogue[x]
      <3>1. catalogue'[q] = None
        BY <2>1, Entries DEF Named
      <3>2. \A y \in Queue \ {q} : catalogue'[y] = catalogue[y]
        BY <2>1, SameEntries
      <3>3. \A y \in Exchange \cup Pair : y # q /\ catalogue'[y] = catalogue[y]
        BY <2>1, SameEntries, Names
      <3> QED
        BY <3>1, <3>2, <3>3
    <2> QED
      BY <2>2, RemoveStep DEF Groups
  <1> QED
    BY <1>1, <1>2

\* The removal of a group of bindings, from memory in any case.
LEMMA RemoveBindingsRefines ==
    ASSUME IInv, NEW S \in Groups, S \in SUBSET Pair, NEW ok \in BOOLEAN,
           RemoveBindings(S, ok), UNCHANGED <<exchanges, queues>>
    PROVE  Abstract!Next
  <1>0. /\ \A p \in S : bindings'[p] = None
        /\ \A p \in Pair \ S :
              bindings'[p] = bindings[p] /\ bindingRows'[p] = bindingRows[p]
    BY Removal DEF IInv
  <1>1. \A p \in Pair : p \in S => catalogue'[p] = None
    BY <1>0, Entries DEF Bound
  <1>2. \A p \in Pair : p \notin S => catalogue'[p] = catalogue[p]
    BY <1>0, SameEntries
  <1>3. \A x \in Exchange \cup Queue : x \notin S /\ catalogue'[x] = catalogue[x]
    BY SameEntries, Names
  <1> QED
    BY <1>1, <1>2, <1>3, RemoveStep

LEMMA BindRefines ==
    ASSUME IInv, NEW e \in Exchange, NEW q \in Queue, NEW key \in Key, Bind(e, q, key)
    PROVE  Abstract!Next
  <1> DEFINE p == <<e, q>>
  <1>1. /\ p \in Pair /\ bindings[p] = None /\ bindings \in [Pair -> Key \cup {None}]
        /\ bindingRows \in [Pair -> Seq(Key)]
        /\ bindings' = [bindings EXCEPT ![p] = key]
        /\ \A r \in Pair \ {p} : bindingRows'[r] = bindingRows[r]
        /\ UNCHANGED <<exchanges, queues>>
    BY Pairs DEF Bind, IInv, TypeOK
  <1> HIDE DEF p
  <1>2. catalogue[p] = None
    BY <1>1, Entries DEF Bound
  <1>3. catalogue'[p] = [value |-> key,
                         kind |-> IF bindingRows'[p] = <<>> THEN "volatile" ELSE "durable"]
    <2>1. catalogue'[p] = Bound(p)'
      BY <1>1, Entries
    <2>2. bindings'[p] = key /\ key # None
      BY <1>1, CatalogueAssumption
    <2> QED
      BY <2>1, <2>2 DEF Bound
  <1>4. \A y \in (Exchange \cup Queue \cup Pair) \ {p} : catalogue'[y] = catalogue[y]
    BY <1>1, SameEntries
  <1> QED
    BY <1>1, <1>2, <1>3, <1>4, AddStep

LEMMA RestartRefines ==
    ASSUME IInv, NEW e \in SUBSET exchangeRow, NEW b \in SUBSET {p \in Pair : HasRows(p)},
           Restart(e, b), stale = {}, stale' = {}
    PROVE  Abstract!Next
  <1>0. e = {} /\ b = {}
    BY DEF Restart
  <1>1. /\ exchanges \in [Exchange -> Mode] /\ queues \in [Queue -> Mode]
        /\ UNCHANGED bindingRows
    BY DEF IInv, TypeOK, Restart
  <1>2. \A x \in Exchange : exchanges'[x] = IF exchanges[x] = "durable" THEN "durable" ELSE "absent"
    BY <1>0 DEF Restart, Recover, Recovered, IInv, TablesMatchMemory
  <1>3. \A q \in Queue : queues'[q] = IF queues[q] = "durable" THEN "durable" ELSE "absent"
    BY DEF Restart, Recover, Recovered, IInv, TablesMatchMemory
  <1>4. \A p \in Pair : bindings'[p] = IF bindingRows[p] # <<>> THEN bindings[p] ELSE None
    BY <1>0 DEF Restart, Recover, RecoveredBindings, HasRows, IInv, TablesMatchMemory
  <1>5. \A x \in Exchange \cup Queue \cup Pair :
            catalogue'[x] = IF Abstract!Volatile(x) THEN None ELSE catalogue[x]
    <2>1. ASSUME NEW x \in Exchange
         PROVE  catalogue'[x] = IF Abstract!Volatile(x) THEN None ELSE catalogue[x]
      <3>1. catalogue[x] = Named(exchanges, x) /\ catalogue'[x] = Named(exchanges, x)'
        BY Entries
      <3>2. CASE exchanges[x] = "volatile"
        BY <3>1, <3>2, <1>2 DEF Named, Abstract!Volatile
      <3>3. CASE exchanges[x] = "durable"
        BY <3>1, <3>3, <1>2 DEF Named, Abstract!Volatile
      <3>4. CASE exchanges[x] = "absent"
        BY <3>1, <3>4, <1>2 DEF Named, Abstract!Volatile
      <3> QED
        BY <3>2, <3>3, <3>4, <1>1 DEF Mode
    <2>2. ASSUME NEW q \in Queue
         PROVE  catalogue'[q] = IF Abstract!Volatile(q) THEN None ELSE catalogue[q]
      <3>1. catalogue[q] = Named(queues, q) /\ catalogue'[q] = Named(queues, q)'
        BY Entries
      <3>2. CASE queues[q] = "volatile"
        BY <3>1, <3>2, <1>3 DEF Named, Abstract!Volatile
      <3>3. CASE queues[q] = "durable"
        BY <3>1, <3>3, <1>3 DEF Named, Abstract!Volatile
      <3>4. CASE queues[q] = "absent"
        BY <3>1, <3>4, <1>3 DEF Named, Abstract!Volatile
      <3> QED
        BY <3>2, <3>3, <3>4, <1>1 DEF Mode
    <2>3. ASSUME NEW p \in Pair
         PROVE  catalogue'[p] = IF Abstract!Volatile(p) THEN None ELSE catalogue[p]
      <3>1. catalogue[p] = Bound(p) /\ catalogue'[p] = Bound(p)'
        BY Entries
      <3>2. CASE bindings[p] = None
        BY <3>1, <3>2, <1>4 DEF Bound, Abstract!Volatile
      <3>3. CASE bindings[p] # None /\ bindingRows[p] = <<>>
        BY <3>1, <3>3, <1>4, Real DEF Bound, Abstract!Volatile
      <3>4. CASE bindings[p] # None /\ bindingRows[p] # <<>>
        BY <3>1, <3>4, <1>1, <1>4 DEF Bound, Abstract!Volatile
      <3> QED
        BY <3>2, <3>3, <3>4
    <2> QED
      BY <2>1, <2>2, <2>3
  <1>6. catalogue' = [x \in Exchange \cup Queue \cup Pair |-> catalogue'[x]]
    BY DEF catalogue
  <1>7. Abstract!Restart
    BY <1>5, <1>6 DEF Abstract!Restart, Abstract!Remove
  <1> QED
    BY <1>7 DEF Abstract!Next

LEMMA StepRefines ==
    ASSUME IInv, Next
    PROVE  Abstract!Next \/ Inexact \/ UNCHANGED catalogue
  <1>1. CASE \E e \in Exchange, durable \in BOOLEAN : DeclareExchange(e, durable)
    BY <1>1, DeclareExchangeRefines
  <1>2. CASE \E e \in Exchange : DeleteExchange(e)
    <2>1. PICK e \in Exchange : DeleteExchange(e)
      BY <1>2
    <2>2. PICK ok \in BOOLEAN : RemoveBindings(OfExchange(e), ok)
      BY <2>1 DEF DeleteExchange
    <2>3. OfExchange(e) \in Groups /\ OfExchange(e) \in SUBSET Pair /\ UNCHANGED <<exchanges, queues>>
      BY <2>1, Pairs DEF DeleteExchange, Groups
    <2> QED
      BY <2>2, <2>3, RemoveBindingsRefines
  <1>3. CASE DeleteExchangeEntry \/ \E q \in Queue : DeleteQueue(q)
    BY <1>3, DeleteEntryRefines
  <1>4. CASE \/ \E q \in Queue, durable \in BOOLEAN : DeclareQueue(q, durable)
             \/ DestroyQueueMessage
    <2>1. UNCHANGED <<exchanges, queues, bindings, bindingRows>>
      BY <1>4 DEF DeclareQueue, DestroyQueueMessage
    <2> QED
      BY <2>1 DEF catalogue, Named, Bound
  <1>5. CASE DeclareQueueEntry
    BY <1>5, DeclareQueueEntryRefines
  <1>6. CASE DeleteQueueBindings
    <2>1. pc.name \in Queue /\ UNCHANGED <<exchanges, queues>>
      BY <1>6, Worked DEF IInv, DeleteQueueBindings
    <2>2. PICK ok \in BOOLEAN : RemoveBindings(OfQueue(pc.name), ok)
      BY <1>6 DEF DeleteQueueBindings
    <2>3. OfQueue(pc.name) \in Groups /\ OfQueue(pc.name) \in SUBSET Pair
      BY <2>1, Pairs DEF Groups
    <2> QED
      BY <2>1, <2>2, <2>3, RemoveBindingsRefines
  <1>7. CASE \E e \in Exchange, q \in Queue, key \in Key : Bind(e, q, key)
    BY <1>7, BindRefines
  <1>8. CASE \E e \in Exchange, q \in Queue : UnBind(e, q)
    <2>1. PICK e \in Exchange, q \in Queue : UnBind(e, q)
      BY <1>8
    <2>2. PICK ok \in BOOLEAN : RemoveBindings({<<e, q>>}, ok)
      BY <2>1 DEF UnBind
    <2>3. {<<e, q>>} \in Groups /\ {<<e, q>>} \in SUBSET Pair /\ UNCHANGED <<exchanges, queues>>
      BY <2>1, Pairs DEF UnBind, Groups
    <2> QED
      BY <2>2, <2>3, RemoveBindingsRefines
  <1>9. CASE \E e \in SUBSET exchangeRow, b \in SUBSET {p \in Pair : HasRows(p)} :
                 Restart(e, b)
    BY <1>9, RestartRefines DEF Inexact
  <1> QED
    BY <1>1, <1>2, <1>3, <1>4, <1>5, <1>6, <1>7, <1>8, <1>9 DEF Next

\* The catalogue is a durable map: every step of an operation declares an entry
\* or removes a group of them, and a restart at any point keeps exactly the
\* durable entries, until a statement fails (host.hpp:25-103).
THEOREM Implementation == Spec => ImplementsDurableMap
  <1>1. IInv /\ [Next]_vars => [Abstract!Next \/ Inexact]_catalogue
    <2> SUFFICES ASSUME IInv, [Next]_vars
                 PROVE  [Abstract!Next \/ Inexact]_catalogue
      OBVIOUS
    <2>1. CASE UNCHANGED vars
      BY <2>1 DEF vars, catalogue, Named, Bound
    <2> QED
      BY <2>1, StepRefines
  <1> QED
    BY <1>1, InitRefines, Invariance, PTL DEF Spec, ImplementsDurableMap

=============================================================================
