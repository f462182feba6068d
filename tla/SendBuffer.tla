----------------------------- MODULE SendBuffer -----------------------------
(***************************************************************************)
(* What a send window promises, whatever its maps and counters are: one     *)
(* line of messages, numbered in the order they were handed in, never more  *)
(* than the limit unacked, and nothing held back while there is room.       *)
(* SendWnd implements it.                                                  *)
(***************************************************************************)
EXTENDS Integers, Sequences, FiniteSets

CONSTANTS Line,      \* messages that may wait
          Hasty,     \* messages that are lost unless they can go at once
          InitLimit,
          Limits

VARIABLES
    accepted,  \* messages kept, in the order they were handed in
    sent,      \* the ones that were numbered and sent
    acked,     \* the ones the peer acked
    refused,   \* hasty messages that found no room
    limit      \* how many may be unacked

bufVars == <<accepted, sent, acked, refused, limit>>

Listed(s) == {s[i] : i \in DOMAIN s}
New       == (Line \cup Hasty) \ (Listed(accepted) \cup refused)
Room      == Len(sent) - Cardinality(acked) < limit

Init ==
    /\ accepted = <<>>
    /\ sent = <<>>
    /\ acked = {}
    /\ refused = {}
    /\ limit = InitLimit

\* A message is handed in and sent at once: there is room, and none waits.
Pass(m) ==
    /\ Room
    /\ sent = accepted
    /\ accepted' = Append(accepted, m)
    /\ sent' = Append(sent, m)
    /\ UNCHANGED <<acked, refused, limit>>

Keep(m) ==
    /\ ~ Room
    /\ m \in Line
    /\ accepted' = Append(accepted, m)
    /\ UNCHANGED <<sent, acked, refused, limit>>

Refuse(m) ==
    /\ ~ Room
    /\ m \in Hasty
    /\ refused' = refused \cup {m}
    /\ UNCHANGED <<accepted, sent, acked, limit>>

\* The message that has waited longest is sent.
Emit ==
    /\ Room
    /\ Len(sent) < Len(accepted)
    /\ sent' = Append(sent, accepted[Len(sent) + 1])
    /\ UNCHANGED <<accepted, acked, refused, limit>>

Ack(m) ==
    /\ m \in Listed(sent) \ acked
    /\ acked' = acked \cup {m}
    /\ UNCHANGED <<accepted, sent, refused, limit>>

SetLimit(l) ==
    /\ limit' = l
    /\ UNCHANGED <<accepted, sent, acked, refused>>

Next ==
    \/ \E m \in New : Pass(m) \/ Keep(m) \/ Refuse(m)
    \/ Emit
    \/ \E m \in Line \cup Hasty : Ack(m)
    \/ \E l \in Limits : SetLimit(l)

Spec == Init /\ [][Next]_bufVars
=============================================================================
