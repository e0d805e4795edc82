------------------------------ MODULE AckQueue ------------------------------
(***************************************************************************)
(* What the store of a queue promises, without files, offsets and          *)
(* counters: a queue with acknowledgements and a set of logged messages.   *)
(* The log is changed by publishing, by acknowledging and by destroying    *)
(* the queue; a crash settles the one operation it interrupts either way,  *)
(* and may lose the log altogether.  There is no collection here: in an    *)
(* implementation it has to be invisible.                                  *)
(***************************************************************************)
EXTENDS Sequences

CONSTANTS Msg, Persistent

VARIABLES
    up,         \* the queue is open
    ready,      \* messages to deliver, in order
    unacked,    \* messages delivered and not acknowledged
    log,        \* persistent messages that a crash does not lose
    published   \* messages offered so far

vars == <<up, ready, unacked, log, published>>

Init ==
    /\ up = FALSE
    /\ ready = <<>>
    /\ unacked = {}
    /\ log = {}
    /\ published = {}

Open ==
    /\ ~up
    /\ up' = TRUE
    /\ UNCHANGED <<ready, unacked, log, published>>

Publish(m) ==
    /\ up
    /\ m \notin published
    /\ published' = published \cup {m}
    /\ \/ ready' = Append(ready, m) /\ log' = log \cup ({m} \cap Persistent)
       \/ m \in Persistent /\ UNCHANGED <<ready, log>>
    /\ UNCHANGED <<up, unacked>>

Deliver ==
    /\ up
    /\ ready # <<>>
    /\ ready' = Tail(ready)
    /\ unacked' = unacked \cup {Head(ready)}
    /\ UNCHANGED <<up, log, published>>

Ack(m) ==
    /\ m \in unacked
    /\ unacked' = unacked \ {m}
    /\ log' = log \ {m}
    /\ UNCHANGED <<up, ready, published>>

Emptied == ready' = <<>> /\ unacked' = {}

Destroy ==
    /\ up
    /\ up' \in BOOLEAN
    /\ Emptied
    /\ log' = {}
    /\ UNCHANGED published

\* The interrupted operation, if any, has reached the log or not.
Crash ==
    /\ up
    /\ up' = FALSE
    /\ Emptied
    /\ \/ UNCHANGED <<log, published>>
       \/ \E m \in Persistent \ published :
             /\ published' = published \cup {m}
             /\ log' \in {log, log \cup {m}}
       \/ \E m \in unacked \cap Persistent :
             log' \in {log \ {m}, {}} /\ UNCHANGED published

LoseLog ==
    /\ ~up
    /\ log' = {}
    /\ UNCHANGED <<up, ready, unacked, published>>

Next ==
    \/ Open
    \/ Deliver
    \/ Destroy
    \/ Crash
    \/ LoseLog
    \/ \E m \in Msg : Publish(m) \/ Ack(m)

Spec == Init /\ [][Next]_vars

=============================================================================
