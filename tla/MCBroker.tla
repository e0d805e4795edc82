------------------------------ MODULE MCBroker ------------------------------
(* Instances of the broker for TLC.                                        *)
EXTENDS Broker, TLC

\* A connection for each channel, or the same for all of them.
OwnConn == [c \in Chan |-> c]
OneConn == [c \in Chan |-> CHOOSE k \in Conn : TRUE]

\* A tag for each channel, or the one in the code of client/client.cpp.
OwnTag == [c \in Chan |-> c]
SameTag == [c \in Chan |-> "consumer1"]

Symmetry == Permutations(Chan) \cup Permutations(Queue)
=============================================================================
