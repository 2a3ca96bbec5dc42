--------------------------- MODULE PacketCounters ---------------------------
(***************************************************************************)
(* What floodgate's statistics promise to the three parties that use them: *)
(* every outcome is counted once, every counted outcome is handed out in   *)
(* exactly one rolling window (the [STATS] line), and /health shows the    *)
(* counters as they stood at one instant.  AntifloodStats implements it    *)
(* with two sets of integers and a lock.                                   *)
(***************************************************************************)
EXTENDS Naturals, Functions

CONSTANTS CounterNames,     \* the names of the counters
          MaxCount          \* bound on each counter

VARIABLES counted,          \* how many outcomes of each kind were counted
          taken,            \* how many of them some rolling window reported
          shown             \* the last answer of /health

vars == <<counted, taken, shown>>

Zeros == [c \in CounterNames |-> 0]

(* The counters of one /health answer, with their sum. *)
WithTotal(counts) == [counters |-> counts, total |-> SumFunction(counts)]

Init == /\ counted = Zeros
        /\ taken = Zeros
        /\ shown = WithTotal(Zeros)

Count(c) == /\ counted[c] < MaxCount
            /\ counted' = [counted EXCEPT ![c] = @ + 1]
            /\ UNCHANGED <<taken, shown>>

(* A window reports whatever no earlier window did: the two are disjoint. *)
CutWindow == /\ taken' = counted
             /\ UNCHANGED <<counted, shown>>

Show == /\ shown' = WithTotal(counted)
        /\ UNCHANGED <<counted, taken>>

Next == (\E c \in CounterNames : Count(c)) \/ CutWindow \/ Show

Spec == Init /\ [][Next]_vars
=============================================================================
