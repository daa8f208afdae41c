------------------------------- MODULE MCLeave -------------------------------
(* Instances of LeaveLedger for TLC: two periods of two days. *)
EXTENDS LeaveLedger, TLC

CONSTANTS r1, r2, r3

TwoPeriods == [d \in Day |-> IF d <= 2 THEN 1 ELSE 2]
Spans == {{2}, {4}, {2, 3}, {1, 2}}

(* Two half days on every day, carried and capped. *)
Monthly == [days |-> 2, due |-> Day, carry |-> TRUE, maxCarry |-> 3, cap |-> 5,
            paid |-> TRUE, negative |-> FALSE, half |-> TRUE, countOff |-> FALSE]
(* Everything on the first day of a period, overdraft allowed. *)
Annual == [days |-> 3, due |-> {1, 3}, carry |-> TRUE, maxCarry |-> 2, cap |-> NoLimit,
           paid |-> TRUE, negative |-> TRUE, half |-> FALSE, countOff |-> TRUE]

BothPolicies == {Monthly, Annual}
OnePolicy == {[Monthly EXCEPT !.due = {1}]}
Symmetric == Permutations(Request)
==============================================================================
