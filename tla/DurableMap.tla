------------------------------ MODULE DurableMap ------------------------------
(***************************************************************************)
(* What a catalogue with a database behind it promises: a map from names   *)
(* to values, each entry volatile or durable.  An entry keeps its value    *)
(* and its durability until it is removed, and a restart removes the       *)
(* volatile entries and nothing else.                                      *)
(***************************************************************************)
CONSTANTS
    Name,
    Value,
    Group,   \* the sets of names that one operation may remove together
    Absent

VARIABLE map

Init == map = [x \in Name |-> Absent]

Add(x, v, kind) ==
    /\ map[x] = Absent
    /\ map' = [map EXCEPT ![x] = [value |-> v, kind |-> kind]]

Remove(S) == map' = [x \in Name |-> IF x \in S THEN Absent ELSE map[x]]

Volatile(x) == map[x] # Absent /\ map[x].kind = "volatile"

Restart == Remove({x \in Name : Volatile(x)})

Next ==
    \/ Restart
    \/ \E S \in Group : Remove(S)
    \/ \E x \in Name, kind \in {"volatile", "durable"}, v \in Value : Add(x, v, kind)

Spec == Init /\ [][Next]_map

===============================================================================
