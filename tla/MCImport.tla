------------------------------ MODULE MCImport ------------------------------
(* Instances of StudentImport for TLC. *)
EXTENDS StudentImport, TLC

CONSTANTS r1, r2, f1, f2, w1, w2

OneFile == [r \in Row |-> f1]
TwoFiles == [r \in Row |-> IF r = r1 THEN f1 ELSE f2]

Symmetric == Permutations(Worker) \cup Permutations(Row)
=============================================================================
