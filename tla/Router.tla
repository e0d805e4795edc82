------------------------------- MODULE Router -------------------------------
(***************************************************************************)
(* Router::Route of server/route.hpp: does a binding key of an exchange    *)
(* select a message with this routing key?  Keys are sequences of words    *)
(* (StrHelper::Split at the dots).  For a topic exchange the code fills a  *)
(* table: dp[i][j] is to say whether the first i words of the binding key  *)
(* match the first j words of the routing key.  A step of this module is   *)
(* an iteration of one of its loops.                                       *)
(***************************************************************************)
EXTENDS Integers, Sequences

CONSTANTS
    Word,   \* the words of routing keys
    Star,   \* "*" in a binding key: any one word
    Hash,   \* "#" in a binding key: any number of words, none included
    MaxLen  \* no key has more words

ASSUME RouterAssumption ==
    /\ Star # Hash
    /\ Star \notin Word /\ Hash \notin Word
    /\ MaxLen \in Nat \ {0}

VARIABLES
    type,   \* of the exchange
    bkeys,  \* the binding key
    rkeys,  \* the routing key
    dp,     \* the table, rows 0..Len(bkeys), columns 0..Len(rkeys)
    i, j,   \* the loop variables
    result  \* what Route returned, or "none"

vars == <<type, bkeys, rkeys, dp, i, j, result>>

Answer(b) == IF b THEN "yes" ELSE "no"
Keys(W) == UNION {[1..n -> W] : n \in 1..MaxLen}
n == Len(bkeys)
m == Len(rkeys)

Init ==
    /\ type \in {"DIRECT", "FANOUT", "TOPIC"}
    /\ bkeys \in Keys(Word \cup {Star, Hash})
    /\ rkeys \in Keys(Word)
    /\ dp = [c \in (0..n) \X (0..m) |-> c = <<0, 0>>]
    /\ i = 1
    /\ j = 0
    /\ result = "none"

\* The early returns.
NotTopic ==
    /\ type # "TOPIC"
    /\ result = "none"
    /\ result' = Answer(type = "FANOUT" \/ rkeys = bkeys)
    /\ UNCHANGED <<type, bkeys, rkeys, dp, i, j>>

\* The first loop: leading "#" words match the empty key.
FirstColumn ==
    /\ type = "TOPIC"
    /\ j = 0
    /\ IF i <= n /\ bkeys[i] = Hash
       THEN dp' = [dp EXCEPT ![<<i, 0>>] = TRUE] /\ i' = i + 1 /\ j' = j
       ELSE i' = 1 /\ j' = 1 /\ dp' = dp
    /\ UNCHANGED <<type, bkeys, rkeys, result>>

\* Mutant: "#" always takes a word.
CellNeedsWord ==
    \/ bkeys[i] \in {rkeys[j], Star}
    \/ bkeys[i] = Hash /\ (dp[<<i - 1, j - 1>>] \/ dp[<<i, j - 1>>])

\* Mutant: a row inherits what the row above has found.
CellInherits ==
    \/ bkeys[i] \in {rkeys[j], Star}
    \/ dp[<<i - 1, j>>]

\* The body of the double loop: a cell stays FALSE if no test is met.
Cell ==
    \/ bkeys[i] \in {rkeys[j], Star}
    \/ bkeys[i] = Hash /\ (dp[<<i - 1, j>>] \/ dp[<<i - 1, j - 1>>] \/ dp[<<i, j - 1>>])

Fill ==
    /\ type = "TOPIC"
    /\ j > 0
    /\ i <= n
    /\ dp' = [dp EXCEPT ![<<i, j>>] = Cell]
    /\ i' = IF j < m THEN i ELSE i + 1
    /\ j' = IF j < m THEN j + 1 ELSE 1
    /\ UNCHANGED <<type, bkeys, rkeys, result>>

\* Mutant: the outer loop has no end.
ReturnLate ==
    /\ type = "TOPIC"
    /\ j > 0
    /\ i > n + 1
    /\ result = "none"
    /\ result' = Answer(dp[<<n, m>>])
    /\ UNCHANGED <<type, bkeys, rkeys, dp, i, j>>

Return ==
    /\ type = "TOPIC"
    /\ j > 0
    /\ i > n
    /\ result = "none"
    /\ result' = Answer(dp[<<n, m>>])
    /\ UNCHANGED <<type, bkeys, rkeys, dp, i, j>>

Next == NotTopic \/ FirstColumn \/ Fill \/ Return

Spec == Init /\ [][Next]_vars /\ WF_vars(Next)

-----------------------------------------------------------------------------
(* Properties.                                                             *)

\* A cut divides the first l words of the routing key among the first k words
\* of the binding key, in order: "*" and plain words get one word each, "#" any
\* number.
IsCut(c, k, l) ==
    /\ c[0] = 0
    /\ c[k] = l
    /\ \A p, r \in 0..k : p <= r => c[p] <= c[r]
    /\ \A p \in 1..k :
          \/ bkeys[p] = Hash
          \/ bkeys[p] = Star /\ c[p] = c[p - 1] + 1
          \/ /\ bkeys[p] \in Word
             /\ c[p] = c[p - 1] + 1
             /\ rkeys[c[p]] = bkeys[p]

\* What matching means: there is a cut.
Matches(k, l) == \E c \in [0..k -> 0..m] : IsCut(c, k, l)

TypeOK ==
    /\ type \in {"DIRECT", "FANOUT", "TOPIC"}
    /\ bkeys \in Seq(Word \cup {Star, Hash}) \ {<<>>}
    /\ rkeys \in Seq(Word) \ {<<>>}
    /\ dp \in [(0..n) \X (0..m) -> BOOLEAN]
    /\ i \in 1..(n + 1)
    /\ j \in 0..m
    /\ result \in {"none", "yes", "no"}

\* The cells the loops have passed.
Filled(k, l) ==
    \/ l = 0 /\ (j > 0 \/ k < i)
    \/ l > 0 /\ j > 0 /\ (k < i \/ (k = i /\ l < j))
    \/ k = 0

\* Every cell is filled after the cells it is computed from, and it is set
\* wherever the prefixes of the keys match.
TableComplete ==
    type = "TOPIC" =>
        \A k \in 0..n, l \in 0..m :
            Filled(k, l) /\ Matches(k, l) => dp[<<k, l>>]

\* No message is withheld from a queue bound with a matching key.
NoMissedRoute == type = "TOPIC" /\ Matches(n, m) => result # "no"

\* Route returns.
Returns == <>(result # "none")

\* The last word of a binding key that is not "#" is respected.
LastWordRespected ==
    type = "TOPIC" /\ result = "yes" /\ bkeys[n] \in Word => bkeys[n] = rkeys[m]

\* "Send if the route matches" (channel.hpp:128): a message is routed to a
\* queue only if the keys match.
OnlyMatchesRouted == type = "TOPIC" /\ result = "yes" => Matches(n, m)

=============================================================================
