------------------------------ MODULE Delivery ------------------------------
(***************************************************************************)
(* What the agent's spool promises, whatever its limits and its eviction   *)
(* policy: results are numbered as they are produced, a held result is     *)
(* delivered or discarded and counted, never both and never twice, they    *)
(* are delivered oldest first, and the controller never hears of more      *)
(* discards than there were.                                               *)
(***************************************************************************)
EXTENDS Integers, Sequences

VARIABLES
    made,       \* results produced
    pending,    \* the numbers of those held, oldest first
    delivered,  \* how many were delivered
    last,       \* the newest of them
    lost,       \* how many were discarded
    known       \* how many of these the controller knows of

vars == <<made, pending, delivered, last, lost, known>>

Rising(s) == \A i, j \in 1..Len(s) : i < j => s[i] < s[j]

(* Of these, some are held from now on and the others are discarded.       *)
Keep(s) ==
    /\ Rising(pending')
    /\ \A i \in 1..Len(pending') : \E j \in 1..Len(s) : pending'[i] = s[j]
    /\ lost' = lost + Len(s) - Len(pending')

Init ==
    /\ made = 0 /\ pending = << >> /\ delivered = 0 /\ last = 0
    /\ lost = 0 /\ known = 0

Produce ==
    /\ made' = made + 1
    /\ Keep(Append(pending, made + 1))
    /\ UNCHANGED <<delivered, last, known>>

Discard ==
    /\ Keep(pending)
    /\ UNCHANGED <<made, delivered, last, known>>

Learn == known' >= known /\ known' <= lost

Deliver ==
    /\ \E n \in 1..Len(pending) :
          /\ pending' = SubSeq(pending, n + 1, Len(pending))
          /\ delivered' = delivered + n
          /\ last' = pending[n]
    /\ Learn
    /\ UNCHANGED <<made, lost>>

Report == Learn /\ UNCHANGED <<made, pending, delivered, last, lost>>

Next == Produce \/ Discard \/ Deliver \/ Report

Spec == Init /\ [][Next]_vars
=============================================================================
