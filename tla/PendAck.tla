------------------------------ MODULE PendAck ------------------------------
(***************************************************************************)
(* The arithmetic of pended acks (common/PendAck.cpp): how many acks GetAck  *)
(* moves into a message that has so many bytes left, and what it subtracts   *)
(* from _cur_size for them. The two differ: the lengths of the first ack     *)
(* that does not fit are counted before they are compared with the limit.    *)
(***************************************************************************)
EXTENDS Integers

IdLength   == 2
TimeLength == 8
AckLength  == IdLength + TimeLength

\* How many acks a message with limit bytes left takes at most. The loop stops
\* as soon as the limit is not more than the bytes counted.
Capacity(limit) == IF limit = 0 THEN 0 ELSE (limit - 1) \div AckLength

\* How many of the n pended acks GetAck takes.
Taken(n, limit) == IF n <= Capacity(limit) THEN n ELSE Capacity(limit)

\* What it takes off _cur_size: the lengths of the acks taken, and when one was
\* left, its time and perhaps its id.
Charged(n, limit) ==
    LET full == AckLength * Capacity(limit)
    IN  IF n <= Capacity(limit)         THEN AckLength * n
        ELSE IF limit <= full + TimeLength THEN full + TimeLength
                                           ELSE full + AckLength
=============================================================================
