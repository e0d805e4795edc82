-------------------------------- MODULE Link --------------------------------
(***************************************************************************)
(* The way of a request from the client's codec to the server's handler:   *)
(* common/codec.cc, common/dispatcher.h, and the tables of connections and *)
(* channels of server/broker.hpp, server/connection.hpp and                *)
(* server/channel.hpp.                                                     *)
(*                                                                         *)
(* A request travels as a frame: a length, and as many bytes as it says.   *)
(* TCP carries the bytes of a connection in order and in pieces of any     *)
(* size; muduo's event loop appends a piece to the connection's buffer and *)
(* calls onMessage, which takes the whole frames off the buffer.  There is *)
(* one event loop thread for all connections.                              *)
(*                                                                         *)
(* Bytes are counted, not stored: of the n-th frame of a connection we     *)
(* keep its content and at which byte of the stream it begins, and a       *)
(* buffer is what lies between two positions in the stream.  Where no      *)
(* frame begins, four bytes read as a length may say anything; the module  *)
(* takes them for one out of bounds.                                       *)
(*                                                                         *)
(* TCP and muduo's TcpConnection are external and modelled from how the    *)
(* code uses them: the state of a connection is that of the server's       *)
(* TcpConnection.                                                          *)
(***************************************************************************)
EXTENDS Integers, Sequences, FiniteSets

CONSTANTS
    Conn,           \* connections
    Cid,            \* channel ids
    Frame,          \* what clients send
    HeaderLen,      \* ProtobufCodec::kHeaderLen
    MinMessageLen,  \* ProtobufCodec::kMinMessageLen
    MaxMessageLen,  \* ProtobufCodec::kMaxMessageLen
    MaxSent,        \* bound on the frames of all connections
    None

\* What parse() looks at, in its order.
Checks == <<"CheckSumError", "InvalidNameLen", "UnknownMessageType", "ParseError">>

\* "use" stands for every request that names a channel, "other" for a message
\* that the server has no handler for.
Kind == {"open", "close", "use", "other"}

\* fillEmptyBuffer never looks at kMaxMessageLen, so len has no upper bound;
\* flaws are the checks of the receiver that the frame does not pass.
FrameType ==
    [len : Nat, flaws : SUBSET {Checks[k] : k \in DOMAIN Checks}, kind : Kind, cid : Cid]

ASSUME LinkAssumption ==
    /\ Frame \subseteq FrameType
    /\ HeaderLen \in Nat \ {0}
    /\ MinMessageLen \in Nat \ {0}
    /\ MaxMessageLen \in Nat
    /\ MaxSent \in Nat
    /\ \A f \in Frame : f.len >= MinMessageLen
    /\ None \notin Conn

VARIABLES
    sent,      \* the frames each client has written
    begins,    \* at which byte of the stream each of them begins
    wire,      \* the bytes of the stream that will reach the server
    arrived,   \* the bytes that have reached the connection's buffer
    taken,     \* those that were retrieved from it
    quit,      \* the client has closed its end
    state,     \* of the server's TcpConnection
    serving,   \* the connection onMessage is running for
    conns,     \* the keys of ConnectionManager::_conns
    channels,  \* the keys of ChannelManager::_channels of each connection
    handled,   \* history: the frames handed to a handler
    answers,   \* the responses sent, each with the number of its request
    dead       \* the process has died of a null pointer

stream == <<sent, begins, wire, quit>>
vars   == <<stream, arrived, taken, state, serving, conns, channels, handled,
            answers, dead>>

Init ==
    /\ sent = [c \in Conn |-> <<>>]
    /\ begins = [c \in Conn |-> <<>>]
    /\ wire = [c \in Conn |-> 0]
    /\ arrived = [c \in Conn |-> 0]
    /\ taken = [c \in Conn |-> 0]
    /\ quit = [c \in Conn |-> FALSE]
    /\ state = [c \in Conn |-> "connecting"]
    /\ serving = None
    /\ conns = {}
    /\ channels = [c \in Conn |-> {}]
    /\ handled = [c \in Conn |-> <<>>]
    /\ answers = [c \in Conn |-> <<>>]
    /\ dead = FALSE

-----------------------------------------------------------------------------
(* The client's end and the network.                                       *)

\* The frames of all connections.
Requests == {r \in Conn \X (1..MaxSent) : r[2] <= Len(sent[r[1]])}

\* send(): the bytes of a frame are written in one piece, whichever thread
\* sends it, because muduo runs the writing in its event loop.
Send(c, f) ==
    /\ ~quit[c]
    /\ Cardinality(Requests) < MaxSent
    /\ sent' = [sent EXCEPT ![c] = Append(@, f)]
    /\ begins' = [begins EXCEPT ![c] = Append(@, wire[c])]
    /\ wire' = [wire EXCEPT ![c] = @ + HeaderLen + f.len]
    /\ UNCHANGED <<quit, arrived, taken, state, serving, conns, channels, handled,
                   answers, dead>>

\* The client closes the connection, or ends; what it had not got rid of is
\* lost, be it in the middle of a frame.
Quit(c) ==
    /\ ~quit[c]
    /\ quit' = [quit EXCEPT ![c] = TRUE]
    /\ \E n \in arrived[c]..wire[c] : wire' = [wire EXCEPT ![c] = n]
    /\ UNCHANGED <<sent, begins, arrived, taken, state, serving, conns, channels,
                   handled, answers, dead>>

-----------------------------------------------------------------------------
(* The event loop of the server.                                           *)

Idle == serving = None /\ ~dead

\* OnConnection with connected(): NewConnection.
Accept(c) ==
    /\ Idle
    /\ state[c] = "connecting"
    /\ state' = [state EXCEPT ![c] = "connected"]
    /\ conns' = conns \cup {c}
    /\ UNCHANGED <<stream, arrived, taken, serving, channels, handled, answers, dead>>

Established(c) == state[c] \in {"connected", "disconnecting"}

\* A piece of the stream is appended to the buffer and onMessage begins; a
\* connection whose writing side is shut down is read from as before.
Read(c) ==
    /\ Idle
    /\ Established(c)
    /\ \E n \in (arrived[c] + 1)..wire[c] : arrived' = [arrived EXCEPT ![c] = n]
    /\ serving' = c
    /\ UNCHANGED <<stream, taken, state, conns, channels, handled, answers, dead>>

\* The end of the stream: OnConnection with ~connected(), DeleteConnection.
ReadEnd(c) ==
    /\ Idle
    /\ Established(c)
    /\ quit[c]
    /\ arrived[c] = wire[c]
    /\ state' = [state EXCEPT ![c] = "disconnected"]
    /\ conns' = conns \ {c}
    /\ channels' = [channels EXCEPT ![c] = {}]
    /\ UNCHANGED <<stream, arrived, taken, serving, handled, answers, dead>>

Readable(c) == arrived[c] - taken[c]

\* The frames that begin at the head of the buffer: one at most.
AtHead(c) == {i \in DOMAIN sent[c] : begins[c][i] = taken[c]}
Number(c) == CHOOSE i \in AtHead(c) : TRUE
First(c)  == sent[c][Number(c)]

\* peekInt32() at the head of the buffer.
Peek(c) == IF AtHead(c) = {} THEN 0 ELSE First(c).len

InBounds(n) == n >= MinMessageLen /\ n <= MaxMessageLen

\* Mutant: the shortest frame is not enough.
HasMinMore(c) == Readable(c) > MinMessageLen + HeaderLen

\* The condition of the loop in onMessage.
HasMin(c) == Readable(c) >= MinMessageLen + HeaderLen

Whole(c) == Readable(c) >= Peek(c) + HeaderLen

\* The error code of parse(): that of the first check that fails.
Parse(f) ==
    IF f.flaws = {} THEN "NoError"
    ELSE Checks[CHOOSE k \in DOMAIN Checks :
                  /\ Checks[k] \in f.flaws
                  /\ \A j \in 1..(k - 1) : Checks[j] \notin f.flaws]

\* TcpConnection::shutdown() does nothing unless it is connected.
Shutdown(c) ==
    state' = [state EXCEPT ![c] = IF @ = "connected" THEN "disconnecting" ELSE @]

\* The loop ends, and with it onMessage.
Break == serving' = None

\* Mutant: the bad frame is skipped and the connection goes on.
RefusedSkips(c) ==
    /\ taken' = [taken EXCEPT ![c] = @ + HeaderLen + Peek(c)]
    /\ UNCHANGED <<stream, arrived, state, serving, conns, channels, handled,
                   answers, dead>>

\* defaultErrorCallback() and break; the bytes stay in the buffer.
Refused(c) ==
    /\ Shutdown(c)
    /\ Break
    /\ UNCHANGED <<stream, arrived, taken, conns, channels, handled, answers, dead>>

Serving(c) == serving = c /\ ~dead

InvalidLength(c) ==
    /\ Serving(c)
    /\ HasMin(c)
    /\ ~InBounds(Peek(c))
    /\ Refused(c)

ParseFails(c) ==
    /\ Serving(c)
    /\ HasMin(c)
    /\ InBounds(Peek(c))
    /\ Whole(c)
    /\ Parse(First(c)) # "NoError"
    /\ Refused(c)

\* Mutant: the loop ends after a frame, as with if for while.
IncompleteOrServed(c) ==
    /\ Serving(c)
    /\ \/ ~HasMin(c)
       \/ ~Whole(c)
       \/ taken[c] > 0
    /\ Break
    /\ UNCHANGED <<stream, arrived, taken, state, conns, channels, handled, answers,
                   dead>>

\* Too little for a frame, or for this one.
Incomplete(c) ==
    /\ Serving(c)
    /\ \/ ~HasMin(c)
       \/ InBounds(Peek(c)) /\ ~Whole(c)
    /\ Break
    /\ UNCHANGED <<stream, arrived, taken, state, conns, channels, handled, answers,
                   dead>>

-----------------------------------------------------------------------------
(* messageCallback_ and retrieve(): the dispatcher calls the handler       *)
(* registered for the type of the message.                                 *)

Dispatch(c, kind) ==
    /\ Serving(c)
    /\ HasMin(c)
    /\ InBounds(Peek(c))
    /\ Whole(c)
    /\ Parse(First(c)) = "NoError"
    /\ First(c).kind = kind
    /\ handled' = [handled EXCEPT ![c] = Append(@, First(c))]

\* Mutant: the length word is counted twice.
RetrieveTooMuch(c) == taken' = [taken EXCEPT ![c] = @ + 2 * HeaderLen + Peek(c)]

Retrieve(c) == taken' = [taken EXCEPT ![c] = @ + HeaderLen + Peek(c)]

\* basicResponse(); a TcpConnection that is not connected drops what it is
\* given to send.
Respond(c, ok) ==
    answers' = [answers EXCEPT ![c] =
                  IF state[c] = "connected"
                  THEN Append(@, [rid |-> Number(c), ok |-> ok])
                  ELSE @]

\* GetValidConnection() does not find the connection: the handler returns.
NoConnection(c) ==
    /\ Shutdown(c)
    /\ UNCHANGED <<channels, answers>>

OpenChannel(c) ==
    /\ Dispatch(c, "open")
    /\ IF c \in conns
       THEN /\ channels' = [channels EXCEPT ![c] = @ \cup {First(c).cid}]
            /\ Respond(c, First(c).cid \notin channels[c])
            /\ UNCHANGED state
       ELSE NoConnection(c)
    /\ Retrieve(c)
    /\ UNCHANGED <<stream, arrived, serving, conns, dead>>

CloseChannel(c) ==
    /\ Dispatch(c, "close")
    /\ IF c \in conns
       THEN /\ channels' = [channels EXCEPT ![c] = @ \ {First(c).cid}]
            /\ Respond(c, TRUE)
            /\ UNCHANGED state
       ELSE NoConnection(c)
    /\ Retrieve(c)
    /\ UNCHANGED <<stream, arrived, serving, conns, dead>>

\* Every other request is handed to its channel, which answers it; what it
\* does there is in Broker.
UseChannel(c) ==
    /\ Dispatch(c, "use")
    /\ IF c \in conns
       THEN /\ First(c).cid \in channels[c]
            /\ \E ok \in BOOLEAN : Respond(c, ok)
            /\ UNCHANGED <<channels, state>>
       ELSE NoConnection(c)
    /\ Retrieve(c)
    /\ UNCHANGED <<stream, arrived, serving, conns, dead>>

\* GetChannel() dereferences the end of the map.
UseOfNoChannel(c) ==
    /\ Dispatch(c, "use")
    /\ c \in conns
    /\ First(c).cid \notin channels[c]
    /\ dead' = TRUE
    /\ UNCHANGED <<stream, arrived, taken, state, serving, conns, channels, answers>>

\* The default callback only writes to the log.
OnUnknownMessage(c) ==
    /\ Dispatch(c, "other")
    /\ Retrieve(c)
    /\ UNCHANGED <<stream, arrived, state, serving, conns, channels, answers, dead>>

-----------------------------------------------------------------------------
\* One round of the loop of onMessage.
OnMessage(c) ==
    \/ InvalidLength(c)
    \/ ParseFails(c)
    \/ Incomplete(c)
    \/ OpenChannel(c)
    \/ CloseChannel(c)
    \/ UseChannel(c)
    \/ UseOfNoChannel(c)
    \/ OnUnknownMessage(c)

Next ==
    \E c \in Conn :
        \/ \E f \in Frame : Send(c, f)
        \/ Quit(c)
        \/ Accept(c)
        \/ Read(c)
        \/ ReadEnd(c)
        \/ OnMessage(c)

\* TCP delivers, and the event loop serves every connection that is ready and
\* ends what it has begun; nothing is assumed of the clients.
Fairness ==
    \A c \in Conn :
        /\ WF_vars(Accept(c))
        /\ WF_vars(Read(c))
        /\ WF_vars(ReadEnd(c))
        /\ WF_vars(OnMessage(c))

Spec == Init /\ [][Next]_vars /\ Fairness

-----------------------------------------------------------------------------
(* Properties.                                                             *)

\* The types; a buffer lies between what was taken and what arrived.
TypeOK ==
    /\ sent \in [Conn -> Seq(Frame)]
    /\ begins \in [Conn -> Seq(Nat)]
    /\ wire \in [Conn -> Nat]
    /\ arrived \in [Conn -> Nat]
    /\ taken \in [Conn -> Nat]
    /\ quit \in [Conn -> BOOLEAN]
    /\ state \in [Conn -> {"connecting", "connected", "disconnecting", "disconnected"}]
    /\ serving \in Conn \cup {None}
    /\ conns \subseteq Conn
    /\ channels \in [Conn -> SUBSET Cid]
    /\ handled \in [Conn -> Seq(Frame)]
    /\ answers \in [Conn -> Seq([rid : Nat, ok : BOOLEAN])]
    /\ dead \in BOOLEAN
    /\ \A c \in Conn : taken[c] <= arrived[c] /\ arrived[c] <= wire[c]

Readability(f) == f.len <= MaxMessageLen /\ f.flaws = {}

\* Between two calls of onMessage no whole frame waits at the head of a
\* buffer that has not been refused (codec.cc:137): muduo calls again only
\* when more bytes come, and the client may be waiting for the response before
\* it sends any.
NothingLeftBehind ==
    \A c \in Conn :
        Idle /\ state[c] = "connected" =>
            \A i \in AtHead(c) : Readable(c) < HeaderLen + sent[c][i].len

StatusOf(s) ==
    IF s = "disconnecting" THEN "refused"
    ELSE IF s = "disconnected" THEN "over" ELSE "open"

\* However the bytes are cut into pieces, the requests are served in the order
\* they were sent, once each, answered each with its own number, and nothing
\* is served after a frame that was refused (codec.cc:137-167).
Stream == INSTANCE RequestStream WITH
    Request <- Frame,
    Acceptable <- {f \in Frame : Readability(f)},
    served <- handled,
    open <- channels,
    status <- [c \in Conn |-> StatusOf(state[c])]

ImplementsRequestStream == Stream!Spec

\* A frame that was sent is served in the end, unless the connection is
\* refused, the client leaves or the process dies.
SentIsServed ==
    \A c \in Conn : \A n \in 1..MaxSent :
        Len(sent[c]) >= n ~> \/ Len(handled[c]) >= n
                             \/ state[c] \in {"disconnecting", "disconnected"}
                             \/ dead

=============================================================================
