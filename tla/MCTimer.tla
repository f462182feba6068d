------------------------------ MODULE MCTimer ------------------------------
(* Small instances of Timer. *)
EXTENDS Timer

CONSTANTS m1, m2

Messages == {m1, m2}
=============================================================================
