-------------------------------- MODULE MCLink --------------------------------
(* Frames for TLC, with a header of one byte and messages of two or three:   *)
(* those of the shortest and of the longest kind that is read, one that is   *)
(* too long, and one of a type that only a later client knows.               *)
EXTENDS Link

Plain(kind, len) ==
    [len : {len}, flaws : {{}}, kind : {kind}, cid : Cid]

MCFrame ==
    UNION {Plain("open", 2), Plain("close", 2), Plain("use", 3), Plain("other", 2),
           Plain("use", 4),
           [len : {3}, flaws : {{"UnknownMessageType"}}, kind : {"use"}, cid : Cid]}
================================================================================
