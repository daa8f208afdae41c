------------------------------- MODULE MCCover -------------------------------
(* Instances of DailyCover for TLC: lesson A lasts from 0 to 2 and B from 1 to 3;  *)
(* cat teaches none and may be given duty D from 1 to 2.                     *)
EXTENDS DailyCover, TLC

CONSTANTS A, B, D, ann, ben, cat

Teachers == [i \in Lesson \cup Duty |-> CASE i = A -> ann [] i = B -> ben [] OTHER -> cat]
Begins == [i \in Lesson \cup Duty |-> CASE i = A -> 0 [] OTHER -> 1]
Ends == [i \in Lesson \cup Duty |-> CASE i = B -> 3 [] OTHER -> 2]
AnnOrCat == Lesson \X {ann, cat}

Present == [teach |-> 0, cover |-> 0, until |-> Never]
Absent == [teach |-> Never, cover |-> Never, until |-> Never]
LateAt1 == [teach |-> 1, cover |-> 1, until |-> Never]
Records == {Present, Absent, LateAt1}

Afternoon == [from |-> 2, until |-> EndOfDay]
Afternoons == {Afternoon}
NoLeave == {}
==============================================================================
