---------------------------- MODULE RequestStream ----------------------------
(***************************************************************************)
(* What a connection promises to the code on both its ends, without bytes, *)
(* buffers and tables: the requests of a client are served once each and   *)
(* in the order they were sent, until the client leaves or the server      *)
(* refuses one; whether a channel may be opened or used depends on the     *)
(* requests served before, and every request a handler is registered for   *)
(* gets one answer when it is served.                                      *)
(***************************************************************************)
EXTENDS Naturals, Sequences

CONSTANTS
    Conn,
    Cid,
    Request,     \* records with a kind and the channel they are for
    Acceptable   \* the requests the server can read

VARIABLES
    sent,      \* the requests of each client, in order
    served,    \* those the server has served
    open,      \* the channels that are open
    answers,   \* what the server has answered
    status,    \* of the connection
    dead       \* the server has died

vars == <<sent, served, open, answers, status, dead>>

Init ==
    /\ sent = [c \in Conn |-> <<>>]
    /\ served = [c \in Conn |-> <<>>]
    /\ open = [c \in Conn |-> {}]
    /\ answers = [c \in Conn |-> <<>>]
    /\ status = [c \in Conn |-> "open"]
    /\ dead = FALSE

Send(c, r) ==
    /\ sent' = [sent EXCEPT ![c] = Append(@, r)]
    /\ UNCHANGED <<served, open, answers, status, dead>>

\* The request that is to be served next.
Due(c) == Len(served[c]) + 1

Answer(c, ok) ==
    answers' = [answers EXCEPT ![c] = Append(@, [rid |-> Due(c), ok |-> ok])]

Serve(c) ==
    /\ status[c] = "open"
    /\ Due(c) <= Len(sent[c])
    /\ sent[c][Due(c)] \in Acceptable
    /\ served' = [served EXCEPT ![c] = Append(@, sent[c][Due(c)])]
    /\ LET r == sent[c][Due(c)]
       IN  \/ /\ r.kind = "open"
              /\ open' = [open EXCEPT ![c] = @ \cup {r.cid}]
              /\ Answer(c, r.cid \notin open[c])
              /\ dead' = dead
           \/ /\ r.kind = "close"
              /\ open' = [open EXCEPT ![c] = @ \ {r.cid}]
              /\ Answer(c, TRUE)
              /\ dead' = dead
           \/ /\ r.kind = "use"
              /\ r.cid \in open[c]
              /\ \E ok \in BOOLEAN : Answer(c, ok)
              /\ UNCHANGED <<open, dead>>
           \/ /\ r.kind = "use"
              /\ r.cid \notin open[c]
              /\ dead' = TRUE
              /\ UNCHANGED <<open, answers>>
           \/ /\ r.kind = "other"
              /\ UNCHANGED <<open, answers, dead>>
    /\ UNCHANGED <<sent, status>>

\* Only a request that cannot be read is a reason to refuse.
Refuse(c) ==
    /\ status[c] = "open"
    /\ Due(c) <= Len(sent[c])
    /\ sent[c][Due(c)] \notin Acceptable
    /\ status' = [status EXCEPT ![c] = "refused"]
    /\ UNCHANGED <<sent, served, open, answers, dead>>

\* The client has gone, and what it had still under way is lost.
Over(c) ==
    /\ status' = [status EXCEPT ![c] = "over"]
    /\ open' = [open EXCEPT ![c] = {}]
    /\ UNCHANGED <<sent, served, answers, dead>>

Next ==
    \E c \in Conn :
        \/ \E r \in Request : Send(c, r)
        \/ Serve(c)
        \/ Refuse(c)
        \/ Over(c)

Spec == Init /\ [][Next]_vars

==============================================================================
