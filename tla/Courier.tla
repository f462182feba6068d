------------------------------ MODULE Courier ------------------------------
(***************************************************************************)
(* What the chain of filters promises to a sender of bodies: each one it     *)
(* took is delivered once and as it was, in any order, unless the connection *)
(* was closed over it.                                                       *)
(***************************************************************************)
EXTENDS Sequences, SequencesExt

CONSTANT Parcel

VARIABLES
    taken,     \* the bodies handed over
    given,     \* those delivered, in the order they were
    returned   \* those the closing of the connection stopped

courierVars == <<taken, given, returned>>

Init == taken = {} /\ given = <<>> /\ returned = {}

Take(p) ==
    /\ p \in Parcel \ taken
    /\ taken' = taken \cup {p}
    /\ UNCHANGED <<given, returned>>

Give(p) ==
    /\ p \in taken \ (Range(given) \cup returned)
    /\ given' = Append(given, p)
    /\ UNCHANGED <<taken, returned>>

Return(p) ==
    /\ p \in taken \ (Range(given) \cup returned)
    /\ returned' = returned \cup {p}
    /\ UNCHANGED <<taken, given>>

Next == \E p \in Parcel : Take(p) \/ Give(p) \/ Return(p)

Spec == Init /\ [][Next]_courierVars
=============================================================================
