----------------------------- MODULE RecvList ------------------------------
(***************************************************************************)
(* The receive list of one delivery class of a socket: Insert of the three  *)
(* subclasses of CRecvList (common/OrderListImpl.cpp), and AddToRecvList    *)
(* (net/SocketImpl.cpp) which makes the list on the first message and       *)
(* answers each message by what Insert returned.                            *)
(*                                                                         *)
(* A message is its position 1, 2, ... in the order the peer's send window  *)
(* numbered it; the id it carries is that position counted from a random    *)
(* first id, modulo the id space. The network repeats, delays and loses     *)
(* messages at will.                                                       *)
(***************************************************************************)
EXTENDS Integers, Sequences, FiniteSets, SequencesExt

CONSTANTS
    Kinds,        \* the classes of list checked, see AllKinds
    IdSpace,      \* number of message ids, 2^16
    FirstIds,     \* the ids message 1 may carry
    CacheSize,    \* __msx_cache_msg_num, 256
    MaxCompare,   \* __max_compare_num, 100
    DiscardLimit, \* __msg_discard_limit, 3
    LastMsg,      \* bound: messages 1 .. LastMsg are sent
    Copies,       \* bound: how often one message may arrive
    Window        \* the peer's send window

AllKinds == {"reliable_orderly", "reliable", "orderly"}
Numbers  == 1 .. LastMsg
Ids      == 0 .. IdSpace - 1
Slots    == 0 .. CacheSize - 1
Null     == 0      \* a null message pointer
NoId     == -1     \* the expected id of a list that is not made yet

ASSUME RecvListAssumption ==
    /\ Kinds \subseteq AllKinds
    /\ IdSpace \in Nat /\ CacheSize \in Nat \ {0} /\ IdSpace % CacheSize = 0
    /\ MaxCompare \in Nat /\ MaxCompare < CacheSize
    /\ FirstIds \subseteq Ids
    /\ DiscardLimit \in Nat \ {0}
    /\ LastMsg \in Nat /\ Copies \in Nat /\ Window \in Nat

VARIABLES
    kind,      \* the subclass of the list
    firstId,   \* the id of message 1
    expect,    \* _expect_id, or NoId
    slot,      \* _order_list of the reliable orderly list: messages
    seen,      \* _order_list of the reliable list: ids, all 0 at first
    discards,  \* _discard_msg_count, whose 16 bits last beyond any break
    delivered, \* the messages given to ToRecv, in order
    answered,  \* the messages an ack was scheduled or sent for
    breaks,    \* how often HEC_BREAK was reported and a reset sent
    arrivals,  \* how often each message arrived
    inOrder    \* nothing was lost, repeated or overtaken so far

vars == <<kind, firstId, expect, slot, seen, discards, delivered, answered,
          breaks, arrivals, inOrder>>

Init ==
    /\ kind \in Kinds
    /\ firstId \in FirstIds
    /\ expect = NoId
    /\ slot = [h \in Slots |-> Null]
    /\ seen = [h \in Slots |-> 0]
    /\ discards = 0
    /\ delivered = <<>>
    /\ answered = {}
    /\ breaks = 0
    /\ arrivals = [n \in Numbers |-> 0]
    /\ inOrder = TRUE
-----------------------------------------------------------------------------
Id(n) == (firstId + n - 1) % IdSpace

\* The list is made with the id of the first message that arrives.
Expected(n) == IF expect = NoId THEN Id(n) ELSE expect

\* Faulty variants of the operators after them; only the mutation runs use them.
HashSmall(id)  == id % (CacheSize \div 2)
NeverFar(n)    == FALSE
NotPast(n)     == FALSE
OneStep(f, h)  == 1
NoRepeat(n)    == FALSE
AfterWide(e, len) == e + len
BreakingLate(count) == count > DiscardLimit

\* CRecvList::HashFunc, id & (__msx_cache_msg_num - 1).
Hash(id) == id % CacheSize

\* The guard shared by the two ordered lists: the ids are compared as plain
\* integers, and the second line is meant for ids just past the wrap.
TooFar(n) ==
    LET id == Id(n)
        e  == Expected(n)
    IN  \/ id - e > MaxCompare \/ e - id > MaxCompare
        \/ e > IdSpace - 1 - MaxCompare \div 2 /\ id < MaxCompare \div 2

\* So many discards are reported as a break.
Breaking(count) == count >= DiscardLimit

\* _expect_id++ on a uint16_t, len times.
After(e, len) == (e + len) % IdSpace

\* A message behind what the orderly list delivered last.
Past(n) == Id(n) < Expected(n)

\* The reliable list remembers the last id that fell in each slot.
Repeated(n) == seen[Hash(Id(n))] = Id(n)

\* How many slots from h on are filled: what the delivery loop takes.
RunLength(f, h) ==
    CHOOSE k \in 1 .. CacheSize :
        /\ \A i \in 0 .. k - 1 : f[(h + i) % CacheSize] # Null
        /\ k = CacheSize \/ f[(h + k) % CacheSize] = Null

-----------------------------------------------------------------------------
\* What AddToRecvList does with the three results of Insert. Only reliable
\* messages are acked: quickly when repeated, through the pended acks otherwise.
Answer(n) ==
    /\ answered' = IF kind = "orderly" THEN answered ELSE answered \cup {n}
    /\ UNCHANGED breaks

\* Too far: nothing is kept, but the result is that of an accepted message
\* until the discards reach the limit.
Discard(n) ==
    /\ discards' = discards + 1
    /\ IF Breaking(discards + 1)
       THEN breaks' = breaks + 1 /\ UNCHANGED answered
       ELSE Answer(n)
    /\ expect' = Expected(n)
    /\ UNCHANGED <<slot, seen, delivered>>

\* CReliableOrderlyList::Insert
InsertReliableOrderly(n) ==
    /\ kind = "reliable_orderly"
    /\ LET h == Hash(Id(n)) IN
       \/ TooFar(n) /\ Discard(n)
       \/ /\ ~ TooFar(n) /\ Id(n) = Expected(n)
          /\ LET full == [slot EXCEPT ![h] = n]
                 len  == RunLength(full, h)
                 run  == [i \in 1 .. len |-> (h + i - 1) % CacheSize]
             IN  /\ delivered' = delivered \o [i \in 1 .. len |-> full[run[i]]]
                 /\ slot' = [s \in Slots |-> IF s \in ToSet(run) THEN Null ELSE full[s]]
                 /\ expect' = After(Expected(n), len)
          /\ Answer(n)
          /\ UNCHANGED <<seen, discards>>
       \/ /\ ~ TooFar(n) /\ Id(n) # Expected(n)
          /\ slot' = IF slot[h] = Null THEN [slot EXCEPT ![h] = n] ELSE slot
          /\ expect' = Expected(n)
          /\ Answer(n)
          /\ UNCHANGED <<seen, discards, delivered>>

\* CReliableList::Insert
InsertReliable(n) ==
    /\ kind = "reliable"
    /\ \/ /\ Repeated(n)
          /\ expect' = Expected(n)
          /\ UNCHANGED <<seen, delivered>>
       \/ /\ ~ Repeated(n)
          /\ seen' = [seen EXCEPT ![Hash(Id(n))] = Id(n)]
          /\ delivered' = Append(delivered, n)
          /\ expect' = Id(n)
    /\ Answer(n)
    /\ UNCHANGED <<slot, discards>>

\* COrderlyList::Insert
InsertOrderly(n) ==
    /\ kind = "orderly"
    /\ \/ TooFar(n) /\ Discard(n)
       \/ /\ ~ TooFar(n)
          /\ IF Past(n)
             THEN UNCHANGED <<expect, delivered>>
             ELSE /\ expect' = Id(n)
                  /\ delivered' = Append(delivered, n)
          /\ Answer(n)
          /\ UNCHANGED <<slot, seen, discards>>

\* A copy of message n arrives. The peer's window has let n out once fewer
\* than Window of the messages before it were unanswered; the window of the
\* orderly class never fills.
Arrive(n) ==
    /\ arrivals[n] < Copies
    /\ kind = "orderly"
         \/ Cardinality((1 .. n - 1) \ answered) < Window
    /\ arrivals' = [arrivals EXCEPT ![n] = @ + 1]
    /\ inOrder' = (inOrder /\ \A k \in Numbers : arrivals[k] = IF k < n THEN 1 ELSE 0)
    /\ InsertReliableOrderly(n) \/ InsertReliable(n) \/ InsertOrderly(n)
    /\ UNCHANGED <<kind, firstId>>

Next == \E n \in Numbers : Arrive(n)

Spec == Init /\ [][Next]_vars
-----------------------------------------------------------------------------
TypeOK ==
    /\ kind \in Kinds
    /\ firstId \in FirstIds
    /\ expect \in Ids \cup {NoId}
    /\ slot \in [Slots -> Numbers \cup {Null}]
    /\ seen \in [Slots -> Ids]
    /\ discards \in Nat
    /\ delivered \in Seq(Numbers)
    /\ answered \subseteq Numbers
    /\ breaks \in Nat
    /\ arrivals \in [Numbers -> 0 .. Copies]
    /\ inOrder \in BOOLEAN

\* The reliable orderly list delivers a gapless run of messages, each once,
\* whatever arrives and however often, within one turn of its cache: a message
\* that came too late and is still held shares its slot with one a turn after it.
InOrderWithoutGap ==
    kind = "reliable_orderly" /\ LastMsg < CacheSize =>
        \A i \in DOMAIN delivered : delivered[i] = delivered[1] + i - 1

\* It holds back no message whose turn has come: the run taken on arrival of
\* the expected message reaches to the first gap.
NothingHeldBack ==
    kind = "reliable_orderly" /\ delivered # <<>> =>
        \A h \in Slots : slot[h] # Last(delivered) + 1

\* Acked, though neither passed up nor held until its turn comes.
Lost == {n \in answered : n > Last(delivered) /\ slot[Hash(Id(n))] # n}

\* The peer forgets what is acked, and a message that is discarded, or that comes
\* after a later one made the list, is acked like any other. Until a break is
\* reported these are few: the first are fewer than the discards that break, the
\* others than fit in the peer's window. What else was acked is passed up, or will
\* be once the gap before it is filled.
FewAreLost ==
    kind = "reliable_orderly" /\ LastMsg < CacheSize /\ breaks = 0 /\ delivered # <<>> =>
        /\ Cardinality(Lost) < DiscardLimit
        /\ delivered[1] <= Window

\* A stream that arrives complete and in order goes through the reliable
\* orderly list as it comes, the wrap of the ids included.
CrossesTheWrap ==
    kind = "reliable_orderly" /\ inOrder =>
        \E m \in 0 .. LastMsg :
            /\ \A n \in Numbers : arrivals[n] = IF n <= m THEN 1 ELSE 0
            /\ delivered = [i \in 1 .. m |-> i]

\* The reliable list passes each message up at most once, and every message it
\* acks but the one whose id is 0, within one turn of its cache of ids.
ReliableOnceEach ==
    kind = "reliable" /\ LastMsg <= CacheSize =>
        /\ IsInjective(delivered)
        /\ \A n \in answered : n \in ToSet(delivered) \/ Id(n) = 0

\* The orderly list never goes back: what it passes up is in sending order, as
\* long as no message is so old that its id comes up again.
OrderlyNeverGoesBack ==
    kind = "orderly" /\ LastMsg + MaxCompare <= IdSpace =>
        \A i, j \in DOMAIN delivered : i < j => delivered[i] <= delivered[j]
-----------------------------------------------------------------------------
\* A claim of the sources that the lists do not keep.

\* README.md:37, reliable orderly transfer "looks like TCP to ensure
\* reliability and sequentiality": the messages come in order, each once, for
\* as long as the connection lasts.
SequentialForever ==
    kind = "reliable_orderly" =>
        \A i \in DOMAIN delivered : delivered[i] = delivered[1] + i - 1
=============================================================================
