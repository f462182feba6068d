---------------------------- MODULE MCConnection ----------------------------
(* Small instances of Connection. *)
EXTENDS Connection

CONSTANTS a, b

Ends == {a, b}
OnlyA == [e \in Ends |-> IF e = a THEN 1 ELSE 0]
Both  == [e \in Ends |-> 1]
=============================================================================
