----------------------------- MODULE MCFilters ------------------------------
(* Small instances of Filters. *)
EXTENDS Filters

CONSTANTS p1, p2

OnePeer == {p1}
TwoPeers == {p1, p2}
=============================================================================
