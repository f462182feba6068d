----------------------------- MODULE MCRecvList -----------------------------
(* Small instances of RecvList. *)
EXTENDS RecvList

OrderlyOnly == {"orderly"}
RoOnly      == {"reliable_orderly"}
FirstIdsMC  == {0, 1, 11, 14}   \* the start of the id space, and both sides of its wrap
=============================================================================
