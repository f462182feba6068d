----------------------------- MODULE MCOutbound -----------------------------
(* A small instance of Outbound. *)
EXTENDS Outbound
=============================================================================
