-------------------------- MODULE ConnectionProofs --------------------------
(***************************************************************************)
(* What Connection keeps for any amount of data, Closes, resends and        *)
(* faults: its types, and what an end may conclude from its status about    *)
(* itself and the other end.                                                *)
(***************************************************************************)
EXTENDS Connection, FiniteSetTheorems, TLAPS

-----------------------------------------------------------------------------
(* Ends and packets.                                                         *)

\* There are two ends, each the peer of the other.
LEMMA PeerFacts ==
    /\ \A e \in End : Peer(e) \in End /\ Peer(e) # e /\ Peer(Peer(e)) = e
    /\ \A e, f \in End : f # e => f = Peer(e)
<1>1. PICK a \in End : TRUE
  BY ConnectionAssumption, FS_EmptySet
<1>2. IsFiniteSet(End \ {a}) /\ Cardinality(End \ {a}) = 1
  BY ConnectionAssumption, <1>1, FS_RemoveElement
<1>3. PICK b : End \ {a} = {b}
  BY <1>2, FS_Singleton
<1>4. End = {a, b} /\ a # b
  BY <1>1, <1>3
<1>5. ASSUME NEW e \in End, NEW f \in End, f # e PROVE Peer(e) = f
  BY <1>4, <1>5 DEF Peer
<1>6. QED
  BY <1>4, <1>5

Packets == BagToSet(net)

\* What is under way after packets are added and after one is consumed.
LEMMA NetAdd ==
    ASSUME IsABag(net), NEW R, net' = net (+) SetToBag(R)
    PROVE  IsABag(net') /\ Packets' = Packets \cup R
<1>1. Packets' = Packets \cup R
  BY DEF Packets, BagToSet, SetToBag, (+)
<1>2. \A p \in DOMAIN net : net[p] \in Nat /\ net[p] > 0
  BY DEF IsABag
<1>3. DOMAIN net' = DOMAIN net \cup R
  BY DEF SetToBag, (+)
<1>4. ASSUME NEW p \in DOMAIN net' PROVE net'[p] \in Nat /\ net'[p] > 0
  <2>1. net'[p] = (IF p \in DOMAIN net THEN net[p] ELSE 0) + (IF p \in R THEN 1 ELSE 0)
    BY <1>3, <1>4 DEF SetToBag, (+)
  <2>2. QED
    BY <1>2, <1>3, <1>4, <2>1
<1>5. net' = [p \in DOMAIN net' |-> net'[p]]
  BY DEF (+)
<1>6. QED
  BY <1>1, <1>4, <1>5 DEF IsABag

\* What is under way after a packet is consumed and others are sent in reply.
LEMMA NetConsume ==
    ASSUME IsABag(net), NEW p, NEW R, Consume(p, R)
    PROVE  IsABag(net') /\ Packets' \subseteq Packets \cup R
<1> DEFINE left == net (-) SetToBag({p})
<1>1. DOMAIN left \subseteq DOMAIN net /\ IsABag(left)
  <2> DEFINE B == [q \in DOMAIN net |-> IF q \in {p} THEN net[q] - 1 ELSE net[q]]
  <2>1. left = [q \in {d \in DOMAIN B : B[d] > 0} |-> B[q]]
    BY DEF SetToBag, (-)
  <2>2. \A q \in DOMAIN net : net[q] \in Nat /\ net[q] > 0
    BY DEF IsABag
  <2>3. \A q \in DOMAIN net : B[q] \in Int
    BY <2>2
  <2>4. DOMAIN B = DOMAIN net
    OBVIOUS
  <2> HIDE DEF left, B
  <2>5. DOMAIN left = {d \in DOMAIN net : B[d] > 0}
    BY <2>1, <2>4
  <2>6. \A q \in DOMAIN left : left[q] = B[q] /\ B[q] \in Nat /\ B[q] > 0
    BY <2>1, <2>3, <2>5
  <2>7. left = [q \in DOMAIN left |-> left[q]]
    BY <2>1
  <2>8. QED
    BY <2>5, <2>6, <2>7 DEF IsABag
<1> HIDE DEF left
<1>2. net' = left (+) SetToBag(R)
  BY DEF Consume, left
<1>3. DOMAIN net' = DOMAIN left \cup R
  BY <1>2 DEF SetToBag, (+)
<1>4. ASSUME NEW q \in DOMAIN net' PROVE net'[q] \in Nat /\ net'[q] > 0
  <2>1. net'[q] = (IF q \in DOMAIN left THEN left[q] ELSE 0) + (IF q \in R THEN 1 ELSE 0)
    BY <1>2, <1>3, <1>4 DEF SetToBag, (+)
  <2>2. \A x \in DOMAIN left : left[x] \in Nat /\ left[x] > 0
    BY <1>1 DEF IsABag
  <2>3. QED
    BY <1>3, <1>4, <2>1, <2>2
<1>5. net' = [q \in DOMAIN net' |-> net'[q]]
  BY <1>2 DEF (+)
<1>6. QED
  BY <1>1, <1>3, <1>4, <1>5 DEF IsABag, Packets, BagToSet
-----------------------------------------------------------------------------
(* Types. Acks, the numbers of messages and the resend timers go back to     *)
(* messages that were sent.                                                  *)

Socket ==
    [status : Statuses \cup {Absent, Dead}, window : BOOLEAN, armed : SUBSET Nat,
     pend : SUBSET Nat, got : SUBSET Nat, msl : BOOLEAN, life : Nat]

Numbers(n) == 1 .. n

SockTypes ==
    /\ sk \in [End -> Socket]
    /\ \A e \in End :
        /\ sk[e].armed \subseteq Numbers(sent[e])
        /\ sk[e].pend \subseteq sk[e].got
        /\ sk[e].got \subseteq Numbers(sent[Peer(e)])

CountTypes ==
    /\ sent \in [End -> Nat]
    /\ fins \in [End -> SUBSET Nat] /\ heard \in [End -> SUBSET Nat]
    /\ \A e \in End : fins[e] \subseteq Numbers(sent[e])

ThreadTypes ==
    /\ closer \in [End -> {"idle", "checked", "SS_FIN_WAIT_1", "SS_LAST_ACK", "stale"}]
    /\ queued \in [End -> Nat]
    /\ handler \in [End -> {"idle", "got_fin", "changed", "checked"}]

\* What packet p is, and the numbered ones were sent by the peer of its receiver.
PacketType(p) ==
    /\ p \in [to : End, type : Types, n : Nat, acks : SUBSET Nat]
    /\ p.type \in {"data", "fin"} => p.n \in Numbers(sent[Peer(p.to)])

NetTypes == IsABag(net) /\ \A p \in Packets : PacketType(p)

Typed == SockTypes /\ CountTypes /\ ThreadTypes /\ NetTypes

\* The parts make up the type invariant of the model.
LEMMA TypedIsTypeOK == Typed => TypeOK
BY DEF Typed, SockTypes, CountTypes, ThreadTypes, NetTypes, Socket, Numbers, TypeOK

\* The first n numbers are among the first m, when n is not more.
LEMMA NumbersGrow ==
    ASSUME NEW n \in Nat, NEW m \in Nat, n <= m
    PROVE  Numbers(n) \subseteq Numbers(m) /\ Numbers(n) \subseteq Nat
BY DEF Numbers

\* Each end has sent no less than before.
SentMore == \A e \in End : sent[e] <= sent'[e] /\ fins[e] \subseteq fins'[e]

\* What counting a message changes.
LEMMA CountSentTypes ==
    ASSUME CountTypes, NEW e \in End, NEW isFin \in BOOLEAN, CountSent(e, isFin), heard' = heard
    PROVE  /\ CountTypes' /\ SentMore
           /\ NewNumber(e) \in Numbers(sent'[e])
           /\ isFin => NewNumber(e) \in fins'[e]
<1>1. sent' = [sent EXCEPT ![e] = sent[e] + 1] /\ sent[e] \in Nat /\ NewNumber(e) = sent[e] + 1
  BY DEF CountSent, CountTypes, NewNumber
<1>2. fins' = IF isFin THEN [fins EXCEPT ![e] = fins[e] \cup {NewNumber(e)}] ELSE fins
  BY DEF CountSent
<1>3. /\ sent' \in [End -> Nat] /\ \A f \in End : sent[f] <= sent'[f]
      /\ NewNumber(e) \in Numbers(sent'[e]) /\ NewNumber(e) \in Nat
  BY <1>1 DEF CountTypes, Numbers
<1>4. \A f \in End : Numbers(sent[f]) \subseteq Numbers(sent'[f])
  BY <1>3, NumbersGrow DEF CountTypes
<1>5. /\ fins' \in [End -> SUBSET Nat] /\ \A f \in End : fins[f] \subseteq fins'[f]
      /\ isFin => NewNumber(e) \in fins'[e]
      /\ \A f \in End : fins'[f] \subseteq Numbers(sent'[f])
  BY <1>2, <1>3, <1>4 DEF CountTypes
<1>6. QED
  BY <1>3, <1>5 DEF CountTypes, SentMore

\* The socket of e becomes s.
LEMMA SockTypesMove ==
    ASSUME SockTypes, CountTypes, CountTypes', SentMore, NEW e \in End, NEW s \in Socket,
           sk' = [sk EXCEPT ![e] = s], s.armed \subseteq Numbers(sent'[e]),
           s.pend \subseteq s.got, s.got \subseteq Numbers(sent[Peer(e)])
    PROVE  SockTypes'
<1>1. \A f \in End : Numbers(sent[f]) \subseteq Numbers(sent'[f])
  BY NumbersGrow DEF CountTypes, SentMore
<1>2. sk' \in [End -> Socket]
  BY DEF SockTypes
<1>3. ASSUME NEW f \in End
      PROVE  /\ sk'[f].armed \subseteq Numbers(sent'[f])
             /\ sk'[f].pend \subseteq sk'[f].got
             /\ sk'[f].got \subseteq Numbers(sent'[Peer(f)])
  <2>1. Peer(f) \in End /\ Peer(e) \in End
    BY PeerFacts
  <2>2. CASE f = e
    BY <1>1, <2>1, <2>2 DEF SockTypes
  <2>3. CASE f # e
    BY <1>1, <2>1, <2>3 DEF SockTypes
  <2>4. QED
    BY <2>2, <2>3
<1>4. QED
  BY <1>2, <1>3 DEF SockTypes

\* No socket changes.
LEMMA SockTypesKept ==
    ASSUME SockTypes, CountTypes, CountTypes', SentMore, sk' = sk PROVE SockTypes'
<1>1. \A f \in End : Numbers(sent[f]) \subseteq Numbers(sent'[f])
  BY NumbersGrow DEF CountTypes, SentMore
<1>2. QED
  BY <1>1, PeerFacts DEF SockTypes

\* Packets are added to those under way.
LEMMA NetTypesMove ==
    ASSUME NetTypes, CountTypes, CountTypes', SentMore, IsABag(net'),
           NEW R, Packets' \subseteq Packets \cup R,
           \A p \in R : /\ p \in [to : End, type : Types, n : Nat, acks : SUBSET Nat]
                        /\ p.type \in {"data", "fin"} => p.n \in Numbers(sent'[Peer(p.to)])
    PROVE  NetTypes'
<1>1. \A f \in End : Numbers(sent[f]) \subseteq Numbers(sent'[f])
  BY NumbersGrow DEF CountTypes, SentMore
<1>2. ASSUME NEW p \in Packets' PROVE PacketType(p)'
  <2>1. CASE p \in R
    BY <2>1 DEF PacketType
  <2>2. CASE p \in Packets
    <3>1. PacketType(p) /\ p.to \in End
      BY <2>2 DEF NetTypes, PacketType
    <3>2. Peer(p.to) \in End
      BY <3>1, PeerFacts
    <3>3. QED
      BY <1>1, <3>1, <3>2 DEF PacketType
  <2>3. QED
    BY <1>2, <2>1, <2>2
<1>3. QED
  BY <1>2 DEF NetTypes

\* One packet is sent.
LEMMA NetTypesSend ==
    ASSUME NetTypes, CountTypes, CountTypes', SentMore,
           NEW q \in [to : End, type : Types, n : Nat, acks : SUBSET Nat],
           net' = net (+) SetToBag({q}),
           q.type \in {"data", "fin"} => q.n \in Numbers(sent'[Peer(q.to)])
    PROVE  NetTypes'
<1>1. IsABag(net') /\ Packets' = Packets \cup {q}
  BY NetAdd DEF NetTypes
<1>2. Packets' \subseteq Packets \cup {q}
  BY <1>1
<1>3. \A p \in {q} : /\ p \in [to : End, type : Types, n : Nat, acks : SUBSET Nat]
                      /\ p.type \in {"data", "fin"} => p.n \in Numbers(sent'[Peer(p.to)])
  OBVIOUS
<1>4. QED
  BY <1>1, <1>2, <1>3, NetTypesMove

\* Nothing is counted.
LEMMA SentSame ==
    ASSUME CountTypes, UNCHANGED <<sent, fins>>, heard' \in [End -> SUBSET Nat]
    PROVE  CountTypes' /\ SentMore
BY DEF CountTypes, SentMore

\* A socket that is released or whose end has crashed keeps its types.
LEMMA SetSocketTypes ==
    ASSUME SockTypes, ThreadTypes, CountTypes, CountTypes', SentMore,
           NEW e \in End, NEW s \in Socket, SetSocket(e, s),
           handler' \in [End -> {"idle", "got_fin", "changed", "checked"}],
           s.armed \subseteq Numbers(sent[e]),
           s.pend \subseteq s.got, s.got \subseteq Numbers(sent[Peer(e)])
    PROVE  SockTypes' /\ ThreadTypes'
<1>1. Numbers(sent[e]) \subseteq Numbers(sent'[e])
  BY NumbersGrow DEF CountTypes, SentMore
<1>2. CASE s.status \in {Absent, Dead}
  <2> DEFINE r == [NoSocket EXCEPT !.status = s.status, !.life = s.life]
  <2>1. /\ sk' = [sk EXCEPT ![e] = r] /\ queued' = [queued EXCEPT ![e] = 0]
        /\ closer' = [closer EXCEPT ![e] = IF closer[e] = "idle" THEN closer[e] ELSE "stale"]
    BY <1>2 DEF SetSocket, ThreadTypes
  <2>2. r \in Socket /\ r.armed = {} /\ r.pend = {} /\ r.got = {}
    BY <1>2 DEF NoSocket, Socket
  <2> HIDE DEF r
  <2>3. SockTypes'
    BY <2>1, <2>2, SockTypesMove
  <2>4. ThreadTypes'
    BY <2>1 DEF ThreadTypes
  <2>5. QED
    BY <2>3, <2>4
<1>3. CASE s.status \notin {Absent, Dead}
  <2>1. sk' = [sk EXCEPT ![e] = s] /\ UNCHANGED <<queued, closer>>
    BY <1>3 DEF SetSocket
  <2>2. SockTypes'
    BY <1>1, <2>1, SockTypesMove
  <2>3. QED
    BY <2>1, <2>2 DEF ThreadTypes
<1>4. QED
  BY <1>2, <1>3

\* What a packet makes of the socket it reaches, before its type counts.
LEMMA ReceiverFacts ==
    ASSUME Typed, NEW p \in Packets, Arrives(p)
    PROVE  /\ p.to \in End /\ Receiver(p) \in Socket
           /\ Receiver(p).armed \subseteq sk[p.to].armed
           /\ Receiver(p).pend = sk[p.to].pend /\ Receiver(p).got = sk[p.to].got
           /\ Receiver(p).status = IF sk[p.to].status \in {Absent, "SS_CLOSE"}
                                   THEN "SS_READY" ELSE sk[p.to].status
           /\ Receiver(p).life = IF sk[p.to].status = Absent
                                 THEN sk[p.to].life + 1 ELSE sk[p.to].life
<1>1. p.to \in End /\ p.acks \in SUBSET Nat
  BY DEF Typed, NetTypes, PacketType
<1>2. PICK s \in Socket : s = sk[p.to]
  BY <1>1 DEF Typed, SockTypes
<1>3. /\ Found(s) \in Socket /\ Found(s).armed = s.armed /\ Found(s).pend = s.pend
      /\ Found(s).got = s.got
      /\ Found(s).status = IF s.status = Absent THEN "SS_CLOSE" ELSE s.status
      /\ Found(s).life = IF s.status = Absent THEN s.life + 1 ELSE s.life
  <2>1. CASE s.status = Absent
    <3>1. Found(s) = [s EXCEPT !.status = "SS_CLOSE", !.life = s.life + 1]
      BY <2>1 DEF Found
    <3>2. s.life + 1 \in Nat /\ "SS_CLOSE" \in Statuses
      BY DEF Socket, Statuses
    <3>3. QED
      BY <2>1, <3>1, <3>2 DEF Socket
  <2>2. CASE s.status # Absent
    BY <2>2 DEF Found
  <2>3. QED
    BY <2>1, <2>2
<1>4. PICK f \in Socket : f = Found(s)
  BY <1>3
<1>5. /\ Opened(f) \in Socket /\ Opened(f).armed = f.armed /\ Opened(f).pend = f.pend
      /\ Opened(f).got = f.got /\ Opened(f).life = f.life
      /\ Opened(f).status = IF f.status = "SS_CLOSE" THEN "SS_READY" ELSE f.status
  BY DEF Opened, Socket, Statuses
<1>6. PICK o \in Socket : o = Opened(f)
  BY <1>5
<1>7. /\ AcceptAcks(o, p.acks) \in Socket /\ AcceptAcks(o, p.acks).armed \subseteq o.armed
      /\ AcceptAcks(o, p.acks).pend = o.pend /\ AcceptAcks(o, p.acks).got = o.got
      /\ AcceptAcks(o, p.acks).life = o.life /\ AcceptAcks(o, p.acks).status = o.status
  BY DEF AcceptAcks, Socket
<1>8. Receiver(p) = AcceptAcks(o, p.acks)
  BY <1>2, <1>4, <1>6 DEF Receiver
<1>9. QED
  BY <1>1, <1>2, <1>3, <1>4, <1>5, <1>6, <1>7, <1>8 DEF Absent

\* A message that is taken is listed, and its ack pended unless it went at once.
LEMMA TakenFacts ==
    ASSUME NEW s \in Socket, s.pend \subseteq s.got, NEW n \in Nat, NEW quick \in BOOLEAN
    PROVE  /\ Taken(s, n, quick) \in Socket
           /\ Taken(s, n, quick).armed = s.armed /\ Taken(s, n, quick).status = s.status
           /\ Taken(s, n, quick).life = s.life /\ Taken(s, n, quick).got = s.got \cup {n}
           /\ Taken(s, n, quick).pend \subseteq s.got \cup {n}
BY DEF Taken, Socket

\* A reliable message that leaves a socket takes the pended acks along.
LEMMA TrackFacts ==
    ASSUME NEW s \in Socket, NEW n \in Nat
    PROVE  /\ Track(s, n) \in Socket
           /\ Track(s, n).armed = s.armed \cup {n} /\ Track(s, n).status = s.status
           /\ Track(s, n).life = s.life /\ Track(s, n).got = s.got /\ Track(s, n).pend = {}
BY DEF Track, Socket

\* A change of status ends in a status, the old one or the new one.
LEMMA StatusChangeFacts ==
    ASSUME NEW st \in Statuses \cup {Absent, Dead}, NEW to \in Statuses
    PROVE  /\ StatusChange(st, to) \in {st, to}
           /\ st \in {Absent, Dead} => StatusChange(st, to) = st
           /\ to = "SS_FIN_WAIT_1" /\ StatusChange(st, to) # st => st = "SS_READY"
           /\ to = "SS_LAST_ACK" /\ StatusChange(st, to) # st => st = "SS_CLOSE_WIAT"
           /\ to = "SS_CLOSE_WIAT" /\ StatusChange(st, to) # st => st = "SS_READY"
BY DEF StatusChange, Changes, Statuses, Absent, Dead

\* A FIN and a FIN_ACK lead from a status to a status.
LEMMA OnFinFacts ==
    ASSUME NEW st \in Statuses \cup {Absent, Dead}
    PROVE  /\ OnFin(st) \in Statuses \cup {Absent, Dead}
           /\ OnFinAck(st) \in Statuses \cup {Absent, Dead}
BY DEF OnFin, OnFinAck, Statuses

\* What CheckClose makes of a socket: a status, and the timer of SS_TIME_WAIT.
LEMMA MovedFacts ==
    ASSUME NEW o \in Socket, NEW st \in Statuses \cup {Absent, Dead}
    PROVE  /\ Moved(o, st) \in Socket /\ Moved(o, st).status = st
           /\ Moved(o, st).armed = o.armed /\ Moved(o, st).pend = o.pend
           /\ Moved(o, st).got = o.got /\ Moved(o, st).life = o.life
BY DEF Moved, Socket

\* The FIN and the data an end sends are packets to its peer.
LEMMA PacketFacts ==
    ASSUME NEW e \in End, NEW type \in Types, NEW n \in Nat, NEW acks \in SUBSET Nat
    PROVE  LET p == Packet(e, type, n, acks)
           IN  /\ p \in [to : End, type : Types, n : Nat, acks : SUBSET Nat]
               /\ p.to = e /\ p.type = type /\ p.n = n /\ p.acks = acks
BY DEF Packet

-----------------------------------------------------------------------------
(* What every step keeps of a socket: it comes to life again only as a new   *)
(* one, does not come back from a crash, and keeps what it has got as long   *)
(* as it lives.                                                              *)

Onward(e) ==
    /\ sk'[e].life >= sk[e].life
    /\ sk[e].status = Dead => sk'[e].status = Dead
    /\ sk[e].status = Absent => sk'[e].status = Absent \/ sk'[e].life > sk[e].life
    /\ sk'[e].status \in {Absent, Dead} \/ sk[e].got \subseteq sk'[e].got
    /\ heard[e] \subseteq heard'[e] /\ fins[e] \subseteq fins'[e]

AllOnward == \A e \in End : Onward(e)

\* A step that leaves the sockets alone goes onward.
LEMMA OnwardSame ==
    ASSUME SockTypes, sk' = sk, SentMore, \A e \in End : heard[e] \subseteq heard'[e]
    PROVE  AllOnward
BY DEF AllOnward, Onward, SentMore, SockTypes, Socket

\* A socket that loses nothing as long as it lives goes onward.
LEMMA OnwardMove ==
    ASSUME SockTypes, SentMore, \A e \in End : heard[e] \subseteq heard'[e],
           NEW e \in End, NEW s \in Socket, sk' = [sk EXCEPT ![e] = s],
           s.life >= sk[e].life, sk[e].status = Dead => s.status = Dead,
           sk[e].status = Absent => s.status = Absent \/ s.life > sk[e].life,
           s.status \in {Absent, Dead} \/ sk[e].got \subseteq s.got
    PROVE  AllOnward
<1>1. \A f \in End : sk[f].life \in Nat
  BY DEF SockTypes, Socket
<1>2. ASSUME NEW f \in End, f # e PROVE sk'[f] = sk[f]
  BY <1>2 DEF SockTypes
<1>3. sk'[e] = s
  BY DEF SockTypes
<1>4. QED
  BY <1>1, <1>2, <1>3 DEF AllOnward, Onward, SentMore

\* So does one that the process thread or the 2MSL timer sets, be it released.
LEMMA OnwardSetSocket ==
    ASSUME SockTypes, SentMore, \A e \in End : heard[e] \subseteq heard'[e],
           NEW e \in End, NEW s \in Socket, SetSocket(e, s), sk[e].status # Dead,
           s.life >= sk[e].life,
           sk[e].status = Absent => s.status = Absent \/ s.life > sk[e].life,
           s.status \in {Absent, Dead} \/ sk[e].got \subseteq s.got
    PROVE  /\ AllOnward /\ \A f \in End : f # e => sk'[f] = sk[f]
           /\ sk'[e].status = s.status /\ sk'[e].life = s.life
           /\ s.status \notin {Absent, Dead} => sk'[e] = s
<1>1. CASE s.status \in {Absent, Dead}
  <2> DEFINE r == [NoSocket EXCEPT !.status = s.status, !.life = s.life]
  <2>1. /\ sk' = [sk EXCEPT ![e] = r] /\ r \in Socket
        /\ r.status = s.status /\ r.life = s.life
    BY <1>1 DEF SetSocket, NoSocket, Socket
  <2> HIDE DEF r
  <2>2. AllOnward
    BY <1>1, <2>1, OnwardMove
  <2>3. QED
    BY <1>1, <2>1, <2>2 DEF SockTypes
<1>2. CASE s.status \notin {Absent, Dead}
  <2>1. sk' = [sk EXCEPT ![e] = s]
    BY <1>2 DEF SetSocket
  <2>2. AllOnward
    BY <2>1, OnwardMove
  <2>3. QED
    BY <2>1, <2>2 DEF SockTypes
<1>3. QED
  BY <1>1, <1>2
-----------------------------------------------------------------------------
(* Each step keeps the types and goes onward.                                *)

Kept == Typed' /\ AllOnward

\* The next data message of the user makes a socket where there is none.
LEMMA KeptBySendTo ==
    ASSUME Typed, NEW e \in End, SendTo(e) PROVE Kept
<1>1. CountTypes' /\ SentMore /\ \A f \in End : heard[f] \subseteq heard'[f]
  BY SentSame DEF SendTo, Typed, CountTypes
<1>2. PICK s \in Socket : s = sk[e]
  BY DEF Typed, SockTypes
<1>3. /\ Found(s) \in Socket /\ Found(s).armed = s.armed /\ Found(s).pend = s.pend
      /\ Found(s).got = s.got /\ s.life \in Nat
      /\ Found(s).status = IF s.status = Absent THEN "SS_CLOSE" ELSE s.status
      /\ Found(s).life = IF s.status = Absent THEN s.life + 1 ELSE s.life
  <2>1. CASE s.status = Absent
    <3>1. Found(s) = [s EXCEPT !.status = "SS_CLOSE", !.life = s.life + 1]
      BY <2>1 DEF Found
    <3>2. s.life + 1 \in Nat /\ "SS_CLOSE" \in Statuses
      BY DEF Socket, Statuses
    <3>3. QED
      BY <2>1, <3>1, <3>2 DEF Socket
  <2>2. CASE s.status # Absent
    BY <2>2 DEF Found, Socket
  <2>3. QED
    BY <2>1, <2>2
<1>4. PICK r \in Socket : r = Found(s)
  BY <1>3
<1>5. sk' = [sk EXCEPT ![e] = r]
  BY <1>2, <1>4 DEF SendTo
<1>6. SockTypes'
  <2>1. /\ r.armed \subseteq Numbers(sent'[e]) /\ r.pend \subseteq r.got
        /\ r.got \subseteq Numbers(sent[Peer(e)])
    BY <1>2, <1>3, <1>4 DEF SendTo, Typed, SockTypes
  <2>2. QED
    BY <1>1, <1>5, <2>1, SockTypesMove DEF Typed
<1>7. AllOnward
  <2>1. /\ r.life >= sk[e].life /\ sk[e].status # Dead
        /\ sk[e].status = Absent => r.life > sk[e].life
        /\ sk[e].got \subseteq r.got
    BY <1>2, <1>3, <1>4 DEF SendTo, Absent, Dead
  <2>2. QED
    BY <1>1, <1>5, <2>1, OnwardMove DEF Typed
<1>8. ThreadTypes' /\ NetTypes'
  BY DEF SendTo, Typed, ThreadTypes, NetTypes, PacketType, Packets
<1>9. QED
  BY <1>1, <1>6, <1>7, <1>8 DEF Kept, Typed

\* A reliable message leaves.
LEMMA KeptByTrack ==
    ASSUME Typed, NEW e \in End, NEW type \in {"data", "fin"}, CountSent(e, type = "fin"),
           NEW s \in Socket, sk' = [sk EXCEPT ![e] = Track(s, NewNumber(e))],
           s.armed = sk[e].armed, s.got = sk[e].got, s.life = sk[e].life,
           s.status = sk[e].status \/ (s.status \in Statuses /\ sk[e].status \in Statuses),
           net' = net (+) SetToBag({Packet(Peer(e), type, NewNumber(e), sk[e].pend)}),
           heard' = heard
    PROVE  SockTypes' /\ CountTypes' /\ NetTypes' /\ AllOnward
<1>0. (type = "fin") \in BOOLEAN /\ Peer(e) \in End /\ Peer(Peer(e)) = e /\ type \in Types
  BY PeerFacts DEF Types
<1>1. /\ CountTypes' /\ SentMore /\ NewNumber(e) \in Numbers(sent'[e])
  BY <1>0, CountSentTypes DEF Typed
<1>2. NewNumber(e) \in Nat
  BY DEF NewNumber, Typed, CountTypes
<1>3. PICK r \in Socket : /\ r = Track(s, NewNumber(e))
                          /\ r.armed = s.armed \cup {NewNumber(e)} /\ r.status = s.status
                          /\ r.life = s.life /\ r.got = s.got /\ r.pend = {}
  BY <1>2, TrackFacts
<1>4. Numbers(sent[e]) \subseteq Numbers(sent'[e])
  BY <1>1, NumbersGrow DEF SentMore, Typed, CountTypes
<1>5. SockTypes'
  <2>1. /\ r.armed \subseteq Numbers(sent'[e]) /\ r.pend \subseteq r.got
        /\ r.got \subseteq Numbers(sent[Peer(e)])
    BY <1>1, <1>3, <1>4 DEF Typed, SockTypes
  <2>2. QED
    BY <1>1, <1>3, <2>1, SockTypesMove DEF Typed
<1>6. AllOnward
  <2>1. /\ sk[e].life \in Nat
        /\ sk[e].status = Dead => r.status = Dead
        /\ sk[e].status = Absent => r.status = Absent
    BY <1>3 DEF Typed, SockTypes, Socket, Statuses, Absent, Dead
  <2>2. r.life >= sk[e].life /\ sk[e].got \subseteq r.got
    BY <1>3, <2>1
  <2>3. QED
    BY <1>1, <1>3, <2>1, <2>2, OnwardMove DEF Typed
<1>7. NetTypes'
  <2>1. sk[e].pend \in SUBSET Nat
    BY DEF Typed, SockTypes, Socket
  <2> DEFINE q == Packet(Peer(e), type, NewNumber(e), sk[e].pend)
  <2>2. q \in [to : End, type : Types, n : Nat, acks : SUBSET Nat] /\ q.to = Peer(e)
        /\ q.n = NewNumber(e)
    BY <1>0, <1>2, <2>1, PacketFacts
  <2>3. net' = net (+) SetToBag({q})
    BY DEF q
  <2>4. q.type \in {"data", "fin"} => q.n \in Numbers(sent'[Peer(q.to)])
    BY <1>0, <1>1, <2>2
  <2> HIDE DEF q
  <2>5. QED
    BY <1>1, <2>2, <2>3, <2>4, NetTypesSend DEF Typed
<1>8. QED
  BY <1>1, <1>5, <1>6, <1>7

\* The process thread takes a message of the user and sends it.
LEMMA KeptBySendData ==
    ASSUME Typed, NEW e \in End, SendData(e) PROVE Kept
<1>1. SockTypes' /\ CountTypes' /\ NetTypes' /\ AllOnward
  <2>1. PICK s \in Socket : s = sk[e]
    BY DEF Typed, SockTypes
  <2>2. sk' = [sk EXCEPT ![e] = Track(s, NewNumber(e))] /\ CountSent(e, "data" = "fin")
    BY <2>1 DEF SendData
  <2>3. QED
    BY <2>1, <2>2, KeptByTrack DEF SendData
<1>2. ThreadTypes'
  <2>1. queued[e] - 1 \in Nat
    BY DEF SendData, Typed, ThreadTypes
  <2>2. QED
    BY <2>1 DEF SendData, Typed, ThreadTypes
<1>3. QED
  BY <1>1, <1>2 DEF Kept, Typed

\* A FIN leaves, whatever becomes of the status.
LEMMA KeptBySendFin ==
    ASSUME Typed, NEW e \in End, NEW status \in Statuses, SendFin(e, status), heard' = heard
    PROVE  SockTypes' /\ CountTypes' /\ NetTypes' /\ AllOnward
<1>1. PICK o \in Socket : o = sk[e]
  BY DEF Typed, SockTypes
<1>2. PICK s \in Socket : /\ s = [o EXCEPT !.status = StatusChange(o.status, status)]
                          /\ s.status = StatusChange(o.status, status)
                          /\ s.armed = o.armed /\ s.got = o.got /\ s.life = o.life
  <2> DEFINE r == [o EXCEPT !.status = StatusChange(o.status, status)]
  <2>1. o.status \in Statuses \cup {Absent, Dead}
    BY DEF Socket
  <2>2. StatusChange(o.status, status) \in Statuses \cup {Absent, Dead}
    BY <2>1, StatusChangeFacts
  <2>3. /\ r \in Socket /\ r.status = StatusChange(o.status, status)
        /\ r.armed = o.armed /\ r.got = o.got /\ r.life = o.life
    BY <2>2 DEF Socket
  <2>4. QED
    BY <2>3
<1>3. s.status = o.status \/ (s.status \in Statuses /\ o.status \in Statuses)
  BY <1>2, StatusChangeFacts DEF Socket
<1>4. sk' = [sk EXCEPT ![e] = Track(s, NewNumber(e))]
  <2>1. sk' = [sk EXCEPT ![e] =
           Track([sk[e] EXCEPT !.status = StatusChange(sk[e].status, status)], NewNumber(e))]
    BY DEF SendFin
  <2>2. s = [sk[e] EXCEPT !.status = StatusChange(sk[e].status, status)]
    BY <1>1, <1>2
  <2>3. QED
    BY <2>1, <2>2
<1>5. CountSent(e, "fin" = "fin")
  <2>1. ("fin" = "fin") = TRUE
    OBVIOUS
  <2>2. CountSent(e, TRUE)
    BY DEF SendFin
  <2>3. QED
    BY <2>2 DEF CountSent
<1>6. QED
  BY <1>1, <1>2, <1>3, <1>4, <1>5, KeptByTrack DEF SendFin

\* A step of a thread that changes no socket and sends nothing.
LEMMA KeptByThreads ==
    ASSUME Typed, ThreadTypes', UNCHANGED <<sk, net, sent, fins, heard>>
    PROVE  Kept
<1>1. CountTypes' /\ SentMore
  BY SentSame DEF Typed, CountTypes
<1>2. SockTypes' /\ AllOnward
  BY <1>1, SockTypesKept, OnwardSame DEF Typed
<1>3. NetTypes'
  BY DEF Typed, NetTypes, PacketType, Packets
<1>4. QED
  BY <1>1, <1>2, <1>3 DEF Kept, Typed

\* The steps of Close: its check, its second look and the FIN.
LEMMA KeptByClose ==
    ASSUME Typed, NEW e \in End, CloseCheck(e) \/ CloseRead(e) \/ CloseSend(e) PROVE Kept
<1>1. CASE CloseCheck(e) \/ CloseRead(e)
  <2>1. ThreadTypes'
    BY <1>1 DEF CloseCheck, CloseRead, Typed, ThreadTypes
  <2>2. QED
    BY <1>1, <2>1, KeptByThreads DEF CloseCheck, CloseRead
<1>2. CASE CloseSend(e)
  <2>1. ThreadTypes'
    BY <1>2 DEF CloseSend, Typed, ThreadTypes
  <2>2. CASE closer[e] \in Statuses /\ SendFin(e, closer[e])
    BY <1>2, <2>1, <2>2, KeptBySendFin DEF CloseSend, Kept, Typed
  <2>3. CASE /\ net' = net (+) SetToBag({Packet(Peer(e), "fin", NewNumber(e), {})})
             /\ CountSent(e, TRUE) /\ UNCHANGED sk
    <3>0. Peer(e) \in End /\ Peer(Peer(e)) = e /\ "fin" \in Types /\ NewNumber(e) \in Nat
          /\ heard' = heard
      BY <1>2, PeerFacts DEF Types, NewNumber, Typed, CountTypes, CloseSend
    <3>1. CountTypes' /\ SentMore /\ NewNumber(e) \in Numbers(sent'[e])
      BY <2>3, <3>0, CountSentTypes DEF Typed
    <3>2. SockTypes' /\ AllOnward
      BY <2>3, <3>0, <3>1, SockTypesKept, OnwardSame DEF Typed
    <3> DEFINE q == Packet(Peer(e), "fin", NewNumber(e), {})
    <3>3. q \in [to : End, type : Types, n : Nat, acks : SUBSET Nat] /\ q.to = Peer(e)
          /\ q.n = NewNumber(e)
      BY <3>0, PacketFacts
    <3>4. net' = net (+) SetToBag({q}) /\ q.n \in Numbers(sent'[Peer(q.to)])
      BY <2>3, <3>0, <3>1, <3>3 DEF q
    <3> HIDE DEF q
    <3>5. NetTypes'
      BY <3>1, <3>3, <3>4, NetTypesSend DEF Typed
    <3>6. QED
      BY <2>1, <3>1, <3>2, <3>5 DEF Kept, Typed
  <2>4. QED
    BY <1>2, <2>2, <2>3 DEF CloseSend
<1>3. QED
  BY <1>1, <1>2

\* The steps of the process thread after a FIN in SS_READY.
LEMMA KeptByAnswer ==
    ASSUME Typed, NEW e \in End, BecomeCloseWait(e) \/ AnswerCheck(e) \/ AnswerFin(e)
    PROVE  Kept
<1>1. CASE BecomeCloseWait(e)
  <2>1. PICK o \in Socket : o = sk[e]
    BY DEF Typed, SockTypes
  <2>2. CountTypes' /\ SentMore /\ \A f \in End : heard[f] \subseteq heard'[f]
    BY <1>1, SentSame DEF BecomeCloseWait, Typed, CountTypes
  <2>3. /\ StatusChange(o.status, "SS_CLOSE_WIAT") \in Statuses \cup {Absent, Dead}
        /\ o.status \in {Absent, Dead} => StatusChange(o.status, "SS_CLOSE_WIAT") = o.status
    <3>1. o.status \in Statuses \cup {Absent, Dead} /\ "SS_CLOSE_WIAT" \in Statuses
      BY DEF Socket, Statuses
    <3>2. QED
      BY <3>1, StatusChangeFacts
  <2> DEFINE s == [o EXCEPT !.status = StatusChange(o.status, "SS_CLOSE_WIAT")]
  <2>4. /\ s \in Socket /\ s.armed = o.armed /\ s.got = o.got /\ s.life = o.life
        /\ s.pend = o.pend /\ s.status = StatusChange(o.status, "SS_CLOSE_WIAT") /\ o.life \in Nat
    BY <2>3 DEF Socket
  <2>5. sk' = [sk EXCEPT ![e] = s]
    BY <1>1, <2>1 DEF BecomeCloseWait
  <2> HIDE DEF s
  <2>6. SockTypes'
    <3>1. /\ s.armed \subseteq Numbers(sent'[e]) /\ s.pend \subseteq s.got
          /\ s.got \subseteq Numbers(sent[Peer(e)])
      BY <1>1, <2>1, <2>4 DEF BecomeCloseWait, Typed, SockTypes
    <3>2. QED
      BY <2>2, <2>4, <2>5, <3>1, SockTypesMove DEF Typed
  <2>7. AllOnward
    <3>1. /\ s.life >= sk[e].life
          /\ sk[e].got \subseteq s.got
      BY <2>1, <2>4
    <3>2. /\ sk[e].status = Dead => s.status = Dead
          /\ sk[e].status = Absent => s.status = Absent
      BY <2>1, <2>3, <2>4
    <3>3. QED
      BY <2>2, <2>4, <2>5, <3>1, <3>2, OnwardMove DEF Typed
  <2>8. ThreadTypes' /\ NetTypes'
    BY <1>1 DEF BecomeCloseWait, Typed, ThreadTypes, NetTypes, PacketType, Packets
  <2>9. QED
    BY <2>2, <2>6, <2>7, <2>8 DEF Kept, Typed
<1>2. CASE AnswerCheck(e)
  <2>1. ThreadTypes'
    BY <1>2 DEF AnswerCheck, Typed, ThreadTypes
  <2>2. QED
    BY <1>2, <2>1, KeptByThreads DEF AnswerCheck
<1>3. CASE AnswerFin(e)
  <2>1. ThreadTypes'
    BY <1>3 DEF AnswerFin, Typed, ThreadTypes
  <2>2. "SS_LAST_ACK" \in Statuses /\ SendFin(e, "SS_LAST_ACK") /\ heard' = heard
    BY <1>3 DEF AnswerFin, Statuses
  <2>3. QED
    BY <2>1, <2>2, KeptBySendFin DEF Kept, Typed
<1>4. QED
  BY <1>1, <1>2, <1>3

\* A timer of socket e sends packet q and takes its acks along.
LEMMA KeptByTimer ==
    ASSUME Typed, NEW e \in End, NEW armed \in SUBSET sk[e].armed,
           sk' = [sk EXCEPT ![e] = [sk[e] EXCEPT !.armed = armed, !.pend = {}]],
           NEW q \in [to : End, type : Types, n : Nat, acks : SUBSET Nat],
           q.type \in {"data", "fin"} => q.n \in Numbers(sent[Peer(q.to)]),
           net' = net (+) SetToBag({q}),
           UNCHANGED <<closer, queued, handler, sent, fins, heard>>
    PROVE  Kept
<1>1. CountTypes' /\ SentMore /\ \A f \in End : heard[f] \subseteq heard'[f]
  BY SentSame DEF Typed, CountTypes
<1>2. PICK o \in Socket : o = sk[e]
  BY DEF Typed, SockTypes
<1> DEFINE s == [o EXCEPT !.armed = armed, !.pend = {}]
<1>3. /\ s \in Socket /\ s.armed = armed /\ s.pend = {} /\ s.got = o.got /\ s.life = o.life
      /\ s.status = o.status /\ o.life \in Nat
  BY <1>2 DEF Socket
<1>4. sk' = [sk EXCEPT ![e] = s]
  BY <1>2
<1> HIDE DEF s
<1>5. SockTypes'
  <2>1. /\ s.armed \subseteq Numbers(sent'[e]) /\ s.pend \subseteq s.got
        /\ s.got \subseteq Numbers(sent[Peer(e)])
    BY <1>2, <1>3 DEF Typed, SockTypes
  <2>2. QED
    BY <1>1, <1>3, <1>4, <2>1, SockTypesMove DEF Typed
<1>6. AllOnward
  <2>1. /\ s.life >= sk[e].life
        /\ sk[e].status = Dead => s.status = Dead
        /\ sk[e].status = Absent => s.status = Absent
        /\ sk[e].got \subseteq s.got
    BY <1>2, <1>3
  <2>2. SockTypes /\ SentMore /\ s \in Socket /\ \A f \in End : heard[f] \subseteq heard'[f]
    BY <1>1, <1>3 DEF Typed
  <2>3. QED
    BY <1>4, <2>1, <2>2, OnwardMove
<1>7. NetTypes'
  <2>1. q.type \in {"data", "fin"} => q.n \in Numbers(sent'[Peer(q.to)])
    OBVIOUS
  <2>2. QED
    BY <1>1, <2>1, NetTypesSend DEF Typed
<1>8. ThreadTypes'
  BY DEF Typed, ThreadTypes
<1>9. QED
  BY <1>1, <1>5, <1>6, <1>7, <1>8 DEF Kept, Typed

\* A socket that loses a timer loses nothing else.
LosesTimer(e) ==
    /\ \E s \in Socket :
         /\ sk' = [sk EXCEPT ![e] = s] /\ s.armed \subseteq sk[e].armed
         /\ s.pend = sk[e].pend /\ s.got = sk[e].got
         /\ s.life = sk[e].life /\ s.status = sk[e].status
    /\ UNCHANGED <<closer, queued, handler, net, sent, fins, heard>>

\* That is what a resend and a 2MSL close that do not come about do to it.
LEMMA DropsLoseTimers ==
    ASSUME Typed, NEW e \in End, (\E n \in sk[e].armed : Drop(e, n)) \/ Drop2Msl(e)
    PROVE  LosesTimer(e)
<1>1. PICK o \in Socket : o = sk[e]
  BY DEF Typed, SockTypes
<1>2. CASE \E n \in sk[e].armed : Drop(e, n)
  <2>1. PICK n \in sk[e].armed : Drop(e, n)
    BY <1>2
  <2> DEFINE s == [o EXCEPT !.armed = o.armed \ {n}]
  <2>2. sk' = [sk EXCEPT ![e] = s]
    BY <1>1, <2>1 DEF Drop
  <2>3. /\ s \in Socket /\ s.armed \subseteq o.armed /\ s.pend = o.pend /\ s.got = o.got
        /\ s.life = o.life /\ s.status = o.status
    BY DEF Socket
  <2> HIDE DEF s
  <2>4. UNCHANGED <<closer, queued, handler, net, sent, fins, heard>>
    BY <2>1 DEF Drop
  <2>5. QED
    BY <1>1, <2>2, <2>3, <2>4 DEF LosesTimer
<1>3. CASE Drop2Msl(e)
  <2> DEFINE s == [o EXCEPT !.msl = FALSE]
  <2>1. sk' = [sk EXCEPT ![e] = s]
    BY <1>1, <1>3 DEF Drop2Msl
  <2>2. /\ s \in Socket /\ s.armed \subseteq o.armed /\ s.pend = o.pend /\ s.got = o.got
        /\ s.life = o.life /\ s.status = o.status
    BY DEF Socket
  <2> HIDE DEF s
  <2>3. UNCHANGED <<closer, queued, handler, net, sent, fins, heard>>
    BY <1>3 DEF Drop2Msl
  <2>4. QED
    BY <1>1, <2>1, <2>2, <2>3 DEF LosesTimer
<1>4. QED
  BY <1>2, <1>3

\* A resend or a 2MSL close does not come about.
LEMMA KeptByDrops ==
    ASSUME Typed, NEW e \in End, LosesTimer(e) PROVE Kept
<1>1. CountTypes' /\ SentMore /\ \A f \in End : heard[f] \subseteq heard'[f]
  BY SentSame DEF LosesTimer, Typed, CountTypes
<1>2. PICK s \in Socket :
         /\ sk' = [sk EXCEPT ![e] = s] /\ s.armed \subseteq sk[e].armed
         /\ s.pend = sk[e].pend /\ s.got = sk[e].got
         /\ s.life = sk[e].life /\ s.status = sk[e].status
  BY DEF LosesTimer
<1>3. UNCHANGED <<closer, queued, handler, net, sent, fins, heard>>
  BY DEF LosesTimer
<1>4. SockTypes'
  <2>1. /\ s.armed \subseteq Numbers(sent'[e]) /\ s.pend \subseteq s.got
        /\ s.got \subseteq Numbers(sent[Peer(e)])
    BY <1>2, <1>3 DEF Typed, SockTypes
  <2>2. QED
    BY <1>1, <1>2, <2>1, SockTypesMove DEF Typed
<1>5. AllOnward
  <2>1. s.life >= sk[e].life
    BY <1>2 DEF Socket
  <2>2. QED
    BY <1>1, <1>2, <2>1, OnwardMove DEF Typed
<1>6. NetTypes'
  BY <1>3 DEF Typed, NetTypes, PacketType, Packets
<1>7. ThreadTypes'
  BY <1>3 DEF Typed, ThreadTypes
<1>8. QED
  BY <1>1, <1>4, <1>5, <1>6, <1>7 DEF Kept, Typed

\* The resend timers and the timer of the pended acks.
LEMMA KeptByTimers ==
    ASSUME Typed, NEW e \in End, (\E n \in sk[e].armed : Resend(e, n)) \/ AckTimer(e)
    PROVE  Kept
<1>0. /\ sk[e].pend \in SUBSET Nat /\ Peer(e) \in End /\ Peer(Peer(e)) = e
      /\ {"data", "fin", "ack"} \subseteq Types
  BY PeerFacts DEF Typed, SockTypes, Socket, Types
<1>1. ASSUME NEW n \in sk[e].armed, Resend(e, n) PROVE Kept
  <2>1. n \in Numbers(sent[e]) /\ n \in Nat
    BY DEF Typed, SockTypes, Numbers
  <2>2. PICK type \in {"data", "fin"} : type = IF n \in fins[e] THEN "fin" ELSE "data"
    OBVIOUS
  <2> DEFINE q == Packet(Peer(e), type, n, sk[e].pend)
  <2>3. q \in [to : End, type : Types, n : Nat, acks : SUBSET Nat] /\ q.to = Peer(e) /\ q.n = n
    BY <1>0, <2>1, PacketFacts
  <2>4. net' = net (+) SetToBag({q}) /\ q.n \in Numbers(sent[Peer(q.to)])
    BY <1>0, <1>1, <2>1, <2>2, <2>3 DEF Resend
  <2> HIDE DEF q
  <2>5. sk' = [sk EXCEPT ![e] = [sk[e] EXCEPT !.armed = sk[e].armed \ {n}, !.pend = {}]]
    <3>1. PICK o \in Socket : o = sk[e]
      BY DEF Typed, SockTypes
    <3>2. sk' = [sk EXCEPT ![e].armed = o.armed \ {n}, ![e].pend = {}]
      BY <1>1, <3>1 DEF Resend
    <3>3. QED
      BY <3>1, <3>2 DEF Typed, SockTypes, Socket
  <2>6. sk[e].armed \ {n} \in SUBSET sk[e].armed
    OBVIOUS
  <2>7. UNCHANGED <<closer, queued, handler, sent, fins, heard>>
    BY <1>1 DEF Resend
  <2>8. QED
    BY <2>3, <2>4, <2>5, <2>6, <2>7, KeptByTimer
<1>2. ASSUME AckTimer(e) PROVE Kept
  <2> DEFINE q == Packet(Peer(e), "ack", 0, sk[e].pend)
  <2>1. q \in [to : End, type : Types, n : Nat, acks : SUBSET Nat] /\ q.type = "ack"
    BY <1>0, PacketFacts
  <2>2. net' = net (+) SetToBag({q})
    BY <1>2 DEF AckTimer
  <2> HIDE DEF q
  <2>3. sk' = [sk EXCEPT ![e] = [sk[e] EXCEPT !.armed = sk[e].armed, !.pend = {}]]
    <3>1. PICK o \in Socket : o = sk[e]
      BY DEF Typed, SockTypes
    <3>2. sk' = [sk EXCEPT ![e] = [o EXCEPT !.pend = {}]]
      BY <1>2, <3>1 DEF AckTimer
    <3>3. [o EXCEPT !.pend = {}] = [o EXCEPT !.armed = o.armed, !.pend = {}]
      BY DEF Socket
    <3>4. QED
      BY <3>1, <3>2, <3>3
  <2>4. sk[e].armed \in SUBSET sk[e].armed
    OBVIOUS
  <2>5. UNCHANGED <<closer, queued, handler, sent, fins, heard>>
    BY <1>2 DEF AckTimer
  <2>6. QED
    BY <2>1, <2>2, <2>3, <2>4, <2>5, KeptByTimer
<1>3. QED
  BY <1>1, <1>2

\* The 2MSL timer releases a socket.
LEMMA KeptByClose2Msl ==
    ASSUME Typed, NEW e \in End, Close2Msl(e) PROVE Kept
<1>1. CountTypes' /\ SentMore /\ \A f \in End : heard[f] \subseteq heard'[f]
  BY SentSame DEF Close2Msl, Typed, CountTypes
<1>2. PICK o \in Socket : o = sk[e]
  BY DEF Typed, SockTypes
<1> DEFINE s == [o EXCEPT !.status = Absent]
<1>3. /\ s \in Socket /\ s.armed = o.armed /\ s.pend = o.pend /\ s.got = o.got
      /\ s.life = o.life /\ s.status = Absent /\ o.life \in Nat
  BY DEF Socket
<1>4. SetSocket(e, s) /\ sk[e].status = "SS_TIME_WAIT"
  BY <1>2 DEF Close2Msl
<1> HIDE DEF s
<1>5. SockTypes' /\ ThreadTypes'
  <2>1. /\ s.armed \subseteq Numbers(sent[e]) /\ s.pend \subseteq s.got
        /\ s.got \subseteq Numbers(sent[Peer(e)])
    BY <1>2, <1>3 DEF Typed, SockTypes
  <2>2. handler' \in [End -> {"idle", "got_fin", "changed", "checked"}]
    BY DEF Close2Msl, Typed, ThreadTypes
  <2>3. QED
    BY <1>1, <1>3, <1>4, <2>1, <2>2, SetSocketTypes DEF Typed
<1>6. AllOnward
  <2>1. s.life >= sk[e].life /\ s.status = Absent /\ sk[e].status # Dead
    BY <1>2, <1>3, <1>4 DEF Dead
  <2>2. QED
    BY <1>1, <1>3, <1>4, <2>1, OnwardSetSocket DEF Typed
<1>7. NetTypes'
  BY DEF Close2Msl, Typed, NetTypes, PacketType, Packets
<1>8. QED
  BY <1>1, <1>5, <1>6, <1>7 DEF Kept, Typed

\* Packet p is consumed, R sent in reply and the socket it reached becomes s.
LEMMA KeptByRecvStep ==
    ASSUME Typed, NEW p \in Packets, Arrives(p), NEW s \in Socket, SetSocket(p.to, s),
           NEW R \in SUBSET [to : End, type : Types, n : Nat, acks : SUBSET Nat],
           Consume(p, R), \A r \in R : r.type \notin {"data", "fin"},
           handler' \in [End -> {"idle", "got_fin", "changed", "checked"}],
           UNCHANGED <<sent, fins>>, heard' \in [End -> SUBSET Nat],
           \A e \in End : heard[e] \subseteq heard'[e],
           s.armed \subseteq Receiver(p).armed, s.life = Receiver(p).life, s.pend \subseteq s.got,
           sk[p.to].got \subseteq s.got, s.got \subseteq Numbers(sent[Peer(p.to)])
    PROVE  Kept
<1>1. CountTypes' /\ SentMore
  BY SentSame DEF Typed
<1>2. /\ p.to \in End /\ s.armed \subseteq sk[p.to].armed /\ sk[p.to].status # Dead
      /\ s.life = IF sk[p.to].status = Absent THEN sk[p.to].life + 1 ELSE sk[p.to].life
  BY ReceiverFacts DEF Arrives
<1>3. sk[p.to].life \in Nat /\ sk[p.to].armed \subseteq Numbers(sent[p.to])
  BY <1>2 DEF Typed, SockTypes, Socket
<1>4. SockTypes' /\ ThreadTypes'
  <2>1. s.armed \subseteq Numbers(sent[p.to])
    BY <1>2, <1>3
  <2>2. QED
    BY <1>1, <1>2, <2>1, SetSocketTypes DEF Typed
<1>5. AllOnward
  <2>1. /\ s.life >= sk[p.to].life
        /\ sk[p.to].status = Absent => s.life > sk[p.to].life
    BY <1>2, <1>3
  <2>2. QED
    BY <1>1, <1>2, <2>1, OnwardSetSocket DEF Typed
<1>6. NetTypes'
  <2>1. IsABag(net') /\ Packets' \subseteq Packets \cup R
    BY NetConsume DEF Typed, NetTypes
  <2>2. \A r \in R : /\ r \in [to : End, type : Types, n : Nat, acks : SUBSET Nat]
                      /\ r.type \in {"data", "fin"} => r.n \in Numbers(sent'[Peer(r.to)])
    OBVIOUS
  <2>3. QED
    BY <1>1, <2>1, <2>2, NetTypesMove DEF Typed
<1>7. QED
  BY <1>1, <1>4, <1>5, <1>6 DEF Kept, Typed

\* Repeated, a message may be acked at once.
LEMMA QuickAckFacts ==
    ASSUME NEW e \in End, NEW n \in Nat, NEW quick \in BOOLEAN
    PROVE  /\ QuickAck(e, n, quick) \in SUBSET [to : End, type : Types, n : Nat, acks : SUBSET Nat]
           /\ \A r \in QuickAck(e, n, quick) : r.type = "ack"
<1>1. Peer(e) \in End /\ "ack" \in Types /\ {n} \in SUBSET Nat /\ 0 \in Nat
  BY PeerFacts DEF Types
<1>2. QuickAck(e, n, quick) \subseteq {Packet(Peer(e), "ack", 0, {n})}
  BY DEF QuickAck
<1>3. QED
  BY <1>1, <1>2, PacketFacts

\* A packet arrives, of whatever type and in whatever status.
LEMMA KeptByRecv ==
    ASSUME Typed, NEW p \in Packets, Recv(p) PROVE Kept
<1>0. /\ Arrives(p) /\ p.to \in End /\ Peer(p.to) \in End /\ p.n \in Nat
      /\ p.type \in {"data", "fin"} => p.n \in Numbers(sent[Peer(p.to)])
  BY PeerFacts DEF Recv, RecvCrash, RecvInTimeWait, RecvRst, RecvOnlyAck, RecvData, RecvFin,
     RecvFinAck, Handled, Typed, NetTypes, PacketType
<1>1. PICK o \in Socket : /\ o = Receiver(p) /\ o.pend = sk[p.to].pend /\ o.got = sk[p.to].got
  BY <1>0, ReceiverFacts
<1>2. /\ o.pend \subseteq o.got /\ o.got \subseteq Numbers(sent[Peer(p.to)])
      /\ o.pend \in SUBSET Nat /\ o.status \in Statuses \cup {Absent, Dead}
      /\ sk[p.to].pend \in SUBSET Nat
  BY <1>0, <1>1 DEF Typed, SockTypes, Socket
<1>3. ASSUME UNCHANGED <<handler, heard>>
      PROVE  /\ handler' \in [End -> {"idle", "got_fin", "changed", "checked"}]
             /\ heard' \in [End -> SUBSET Nat] /\ \A e \in End : heard[e] \subseteq heard'[e]
  BY <1>3 DEF Typed, ThreadTypes, CountTypes
<1>4. {} \in SUBSET [to : End, type : Types, n : Nat, acks : SUBSET Nat]
  OBVIOUS
<1>5. ASSUME NEW st \in Statuses \cup {Absent, Dead},
             SetSocket(p.to, [o EXCEPT !.status = st]), Consume(p, {}),
             UNCHANGED <<handler, sent, fins, heard>>
      PROVE  Kept
  <2> DEFINE s == [o EXCEPT !.status = st]
  <2>1. /\ s \in Socket /\ s.armed = o.armed /\ s.pend = o.pend /\ s.got = o.got
        /\ s.life = o.life
    BY DEF Socket
  <2>2. SetSocket(p.to, s)
    BY <1>5
  <2> HIDE DEF s
  <2>3. QED
    BY <1>0, <1>1, <1>2, <1>3, <1>4, <1>5, <2>1, <2>2, KeptByRecvStep
<1>6. CASE RecvCrash(p)
  <2>1. SetSocket(p.to, [o EXCEPT !.status = Dead]) /\ Consume(p, {})
    BY <1>1, <1>6 DEF RecvCrash
  <2>2. UNCHANGED <<handler, sent, fins, heard>>
    BY <1>6 DEF RecvCrash
  <2>3. QED
    BY <1>5, <2>1, <2>2
<1>7. CASE RecvRst(p)
  <2>1. SetSocket(p.to, [o EXCEPT !.status = Absent]) /\ Consume(p, {})
    BY <1>1, <1>7 DEF RecvRst
  <2>2. UNCHANGED <<handler, sent, fins, heard>>
    BY <1>7 DEF RecvRst
  <2>3. QED
    BY <1>5, <2>1, <2>2
<1>8. CASE RecvFinAck(p)
  <2>1. SetSocket(p.to, Moved(o, OnFinAck(o.status))) /\ Consume(p, {})
    BY <1>1, <1>8 DEF RecvFinAck
  <2>2. UNCHANGED <<handler, sent, fins, heard>>
    BY <1>8 DEF RecvFinAck
  <2>3. PICK st \in Statuses \cup {Absent, Dead} : st = OnFinAck(o.status)
    BY <1>2, OnFinFacts
  <2>4. PICK s \in Socket : /\ s = Moved(o, st) /\ s.armed = o.armed /\ s.pend = o.pend
                            /\ s.got = o.got /\ s.life = o.life
    BY MovedFacts
  <2>5. SetSocket(p.to, s) /\ Consume(p, {})
    BY <2>1, <2>3, <2>4
  <2>6. QED
    BY <1>0, <1>1, <1>2, <1>3, <1>4, <2>2, <2>4, <2>5, KeptByRecvStep
<1>9. CASE RecvOnlyAck(p)
  <2>1. SetSocket(p.to, o) /\ Consume(p, {}) /\ UNCHANGED <<sent, fins>>
        /\ UNCHANGED <<handler, heard>>
    BY <1>1, <1>9 DEF RecvOnlyAck
  <2>2. QED
    BY <1>0, <1>1, <1>2, <1>3, <1>4, <2>1, KeptByRecvStep
<1>10. CASE RecvInTimeWait(p)
  <2> DEFINE s == [o EXCEPT !.pend = {}]
  <2>1. /\ s \in Socket /\ s.armed = o.armed /\ s.pend = {} /\ s.got = o.got
        /\ s.life = o.life
    BY DEF Socket
  <2>2. SetSocket(p.to, s) /\ UNCHANGED <<sent, fins>> /\ UNCHANGED <<handler, heard>>
    BY <1>1, <1>10 DEF RecvInTimeWait
  <2> HIDE DEF s
  <2> DEFINE r == Packet(Peer(p.to), "rst", 0, sk[p.to].pend)
  <2>3. r \in [to : End, type : Types, n : Nat, acks : SUBSET Nat] /\ r.type = "rst"
    <3>1. "rst" \in Types
      BY DEF Types
    <3>2. QED
      BY <1>0, <1>2, <3>1, PacketFacts
  <2>4. Consume(p, {r})
    BY <1>10 DEF RecvInTimeWait
  <2> HIDE DEF r
  <2>5. {r} \in SUBSET [to : End, type : Types, n : Nat, acks : SUBSET Nat]
        /\ \A x \in {r} : x.type \notin {"data", "fin"}
    BY <2>3
  <2>6. /\ sk[p.to].got \subseteq s.got /\ s.got \subseteq Numbers(sent[Peer(p.to)])
       /\ s.pend \subseteq s.got
        /\ s.armed \subseteq Receiver(p).armed /\ s.life = Receiver(p).life
    BY <1>1, <1>2, <2>1
  <2>7. QED
    BY <1>0, <1>3, <2>1, <2>2, <2>4, <2>5, <2>6, KeptByRecvStep
<1>11. CASE RecvData(p)
  <2>1. PICK quick \in BOOLEAN : /\ SetSocket(p.to, Taken(o, p.n, quick))
                                 /\ Consume(p, QuickAck(p.to, p.n, quick))
    BY <1>1, <1>11 DEF RecvData, MayBeRepeat
  <2>2. UNCHANGED <<sent, fins>> /\ UNCHANGED <<handler, heard>> /\ p.type = "data"
    BY <1>11 DEF RecvData
  <2>3. PICK s \in Socket : /\ s = Taken(o, p.n, quick) /\ s.armed = o.armed /\ s.life = o.life
                            /\ s.got = o.got \cup {p.n} /\ s.pend \subseteq s.got
    BY <1>0, <1>2, TakenFacts
  <2>4. PICK R \in SUBSET [to : End, type : Types, n : Nat, acks : SUBSET Nat] :
           R = QuickAck(p.to, p.n, quick) /\ \A r \in R : r.type = "ack"
    BY <1>0, QuickAckFacts
  <2>5. \A r \in R : r.type \notin {"data", "fin"}
    BY <2>4
  <2>6. sk[p.to].got \subseteq s.got /\ s.got \subseteq Numbers(sent[Peer(p.to)])
    BY <1>0, <1>1, <1>2, <2>2, <2>3
  <2>7. QED
    BY <1>0, <1>1, <1>3, <2>1, <2>2, <2>3, <2>4, <2>5, <2>6, KeptByRecvStep
<1>12. CASE RecvFin(p)
  <2>1. PICK quick \in BOOLEAN :
           LET s == Taken(o, p.n, quick)
           IN  /\ SetSocket(p.to, Moved([s EXCEPT !.pend = {}], OnFin(s.status)))
               /\ Consume(p, QuickAck(p.to, p.n, quick)
                               \cup {Packet(Peer(p.to), "fin_ack", 0, s.pend)})
               /\ handler' = [handler EXCEPT ![p.to] =
                    IF s.status = "SS_READY" THEN "got_fin" ELSE "idle"]
    BY <1>1, <1>12 DEF RecvFin, MayBeRepeat
  <2>2. PICK t \in Socket : /\ t = Taken(o, p.n, quick) /\ t.armed = o.armed /\ t.life = o.life
                            /\ t.got = o.got \cup {p.n} /\ t.pend \subseteq t.got
    BY <1>0, <1>2, TakenFacts
  <2>3. t.status \in Statuses \cup {Absent, Dead} /\ t.pend \in SUBSET Nat
    BY DEF Socket
  <2>4. OnFin(t.status) \in Statuses \cup {Absent, Dead}
    BY <2>3, OnFinFacts
  <2> DEFINE bare == [t EXCEPT !.pend = {}]
             s == Moved(bare, OnFin(t.status))
  <2>4a. /\ bare \in Socket /\ bare.armed = t.armed /\ bare.pend = {} /\ bare.got = t.got
        /\ bare.life = t.life
    BY DEF Socket
  <2>4b. SetSocket(p.to, s)
    BY <2>1, <2>2
  <2> HIDE DEF bare
  <2>5. /\ s \in Socket /\ s.armed = t.armed /\ s.pend = {} /\ s.got = t.got
        /\ s.life = t.life
    BY <2>4, <2>4a, MovedFacts
  <2>6. SetSocket(p.to, s)
    BY <2>4b
  <2> HIDE DEF s
  <2> DEFINE fa == Packet(Peer(p.to), "fin_ack", 0, t.pend)
             R == QuickAck(p.to, p.n, quick) \cup {fa}
  <2>7. fa \in [to : End, type : Types, n : Nat, acks : SUBSET Nat] /\ fa.type = "fin_ack"
    <3>1. "fin_ack" \in Types
      BY DEF Types
    <3>2. QED
      BY <1>0, <2>3, <3>1, PacketFacts
  <2>8. Consume(p, R)
    BY <2>1, <2>2
  <2> HIDE DEF fa
  <2>9. R \in SUBSET [to : End, type : Types, n : Nat, acks : SUBSET Nat]
        /\ \A r \in R : r.type \notin {"data", "fin"}
    BY <1>0, <2>7, QuickAckFacts
  <2> HIDE DEF R
  <2>10. handler' \in [End -> {"idle", "got_fin", "changed", "checked"}]
    BY <2>1 DEF Typed, ThreadTypes
  <2>11. /\ heard' \in [End -> SUBSET Nat] /\ \A e \in End : heard[e] \subseteq heard'[e]
         /\ UNCHANGED <<sent, fins>> /\ p.type = "fin"
    BY <1>0, <1>12 DEF RecvFin, Typed, CountTypes
  <2>12. /\ sk[p.to].got \subseteq s.got /\ s.got \subseteq Numbers(sent[Peer(p.to)])
        /\ s.pend \subseteq s.got
    BY <1>0, <1>1, <1>2, <2>2, <2>5, <2>11
  <2>13. s.armed \subseteq Receiver(p).armed /\ s.life = Receiver(p).life
    BY <1>1, <2>2, <2>5
  <2>14. PICK z \in Socket : z = s
    BY <2>5
  <2>15. PICK Z \in SUBSET [to : End, type : Types, n : Nat, acks : SUBSET Nat] : Z = R
    BY <2>9
  <2>16. /\ SetSocket(p.to, z) /\ Consume(p, Z) /\ \A r \in Z : r.type \notin {"data", "fin"}
         /\ z.armed \subseteq Receiver(p).armed /\ z.life = Receiver(p).life
         /\ z.pend \subseteq z.got /\ sk[p.to].got \subseteq z.got
         /\ z.got \subseteq Numbers(sent[Peer(p.to)])
    BY <2>6, <2>8, <2>9, <2>12, <2>13, <2>14, <2>15
  <2>17. QED
    BY <1>0, <2>10, <2>11, <2>16, KeptByRecvStep
<1>13. QED
  BY <1>6, <1>7, <1>8, <1>9, <1>10, <1>11, <1>12 DEF Recv

\* The network loses or repeats a packet.
LEMMA KeptByNetwork ==
    ASSUME Typed, NEW p \in Packets, Lose(p) \/ Copy(p) PROVE Kept
<1>1. CountTypes' /\ SentMore /\ \A f \in End : heard[f] \subseteq heard'[f]
  BY SentSame DEF Lose, Copy, Typed, CountTypes
<1>2. IsABag(net') /\ Packets' \subseteq Packets
  <2>1. CASE Lose(p)
    BY <2>1, NetConsume DEF Lose, Typed, NetTypes
  <2>2. CASE Copy(p)
    BY <2>2, NetAdd DEF Copy, Typed, NetTypes
  <2>3. QED
    BY <2>1, <2>2
<1>3. NetTypes'
  <2>1. \A q \in Packets : PacketType(q)'
    BY DEF Lose, Copy, Typed, NetTypes, PacketType
  <2>2. QED
    BY <1>2, <2>1 DEF NetTypes
<1>4. SockTypes' /\ AllOnward
  BY <1>1, SockTypesKept, OnwardSame DEF Lose, Copy, Typed
<1>5. ThreadTypes'
  BY DEF Lose, Copy, Typed, ThreadTypes
<1>6. QED
  BY <1>1, <1>3, <1>4, <1>5 DEF Kept, Typed

\* Every step keeps the types and goes onward.
LEMMA KeptByAll == Typed /\ [Next]_vars => Kept
<1> SUFFICES ASSUME Typed, [Next]_vars PROVE Kept
  OBVIOUS
<1>1. ASSUME NEW e \in End,
             \/ SendTo(e) \/ SendData(e) \/ CloseCheck(e) \/ CloseRead(e) \/ CloseSend(e)
             \/ BecomeCloseWait(e) \/ AnswerCheck(e) \/ AnswerFin(e)
             \/ (\E n \in sk[e].armed : Resend(e, n)) \/ AckTimer(e) \/ Close2Msl(e)
             \/ (\E n \in sk[e].armed : Drop(e, n)) \/ Drop2Msl(e)
      PROVE  Kept
  BY <1>1, KeptBySendTo, KeptBySendData, KeptByClose, KeptByAnswer, KeptByTimers,
     KeptByClose2Msl, DropsLoseTimers, KeptByDrops
<1>2. ASSUME NEW p \in Packets, Recv(p) \/ Lose(p) \/ Copy(p) PROVE Kept
  BY <1>2, KeptByRecv, KeptByNetwork
<1>3. CASE UNCHANGED vars
  <2>1. ThreadTypes' /\ UNCHANGED <<sk, net, sent, fins, heard>>
    BY <1>3 DEF vars, Typed, ThreadTypes
  <2>2. QED
    BY <2>1, KeptByThreads
<1>4. QED
  BY <1>1, <1>2, <1>3 DEF Next, Packets

\* In the beginning there are no sockets and no packets.
LEMMA InitTyped == Init => Typed
<1> SUFFICES ASSUME Init PROVE Typed
  OBVIOUS
<1>1. NoSocket \in Socket
  BY DEF NoSocket, Socket
<1>2. SockTypes
  BY <1>1 DEF Init, SockTypes, NoSocket
<1>3. CountTypes /\ ThreadTypes
  BY DEF Init, CountTypes, ThreadTypes
<1>4. NetTypes
  BY DEF Init, NetTypes, Packets, EmptyBag, SetToBag, IsABag, BagToSet
<1>5. QED
  BY <1>2, <1>3, <1>4 DEF Typed

\* Every step keeps the types: acks and resend timers are of messages that were
\* sent, and what a socket has got its peer has sent.
THEOREM TypeCorrect == Spec => []TypeOK
<1>1. Typed /\ [Next]_vars => Typed'
  BY KeptByAll DEF Kept
<1>2. QED
  BY <1>1, InitTyped, TypedIsTypeOK, PTL DEF Spec
-----------------------------------------------------------------------------
(* What an end may conclude from its status. A FIN under way is one of its   *)
(* sender's; an end that a FIN_ACK goes to, or that took one, is followed:   *)
(* its peer has come to life and, if that is its only life, is gone again or *)
(* has got a FIN.                                                            *)

Alive == \A e \in End : sk[e].status # Absent => sk[e].life >= 1

HasFin(e) == sk[e].got \cap fins[Peer(e)] # {}

Followed(e) ==
    /\ heard[e] # {} /\ sk[Peer(e)].life >= 1
    /\ FirstConnection => sk[Peer(e)].status \in {Absent, Dead} \/ HasFin(Peer(e))

SocketFine(e) ==
    /\ sk[e].status \in Closing \/ handler[e] # "idle" => HasFin(e)
    /\ sk[e].status \in {"SS_FIN_WAIT_2", "SS_TIME_WAIT"} => Followed(e)

PacketFine(p) ==
    /\ p.type = "fin" => p.n \in fins[Peer(p.to)]
    /\ p.type = "fin_ack" => Followed(p.to)

Fine ==
    /\ Alive
    /\ \A e \in End : SocketFine(e)
    /\ \A p \in Packets : PacketFine(p)

\* What lives stays counted.
LEMMA AliveKept == Typed /\ Kept /\ Alive => Alive'
<1> SUFFICES ASSUME Typed, Kept, Alive, NEW e \in End, sk'[e].status # Absent
             PROVE  sk'[e].life >= 1
  BY DEF Alive
<1>1. sk[e].life \in Nat /\ sk'[e].life \in Nat
  BY DEF Typed, Kept, SockTypes, Socket
<1>2. /\ sk'[e].life >= sk[e].life
      /\ sk[e].status = Absent => sk'[e].life > sk[e].life
  BY DEF Kept, AllOnward, Onward
<1>3. sk[e].status # Absent => sk[e].life >= 1
  BY DEF Alive
<1>4. QED
  BY <1>1, <1>2, <1>3

\* An end that is followed stays so: its peer can only go, or start another life.
LEMMA FollowedKept ==
    ASSUME Typed, Kept, NEW e \in End, Followed(e) PROVE Followed(e)'
<1>1. Peer(e) \in End /\ Peer(Peer(e)) = e
  BY PeerFacts
<1>2. PICK p \in End : p = Peer(e)
  BY <1>1
<1>3. \A f \in End : sk[f].life \in Nat /\ sk'[f].life \in Nat /\ sk'[f].life >= sk[f].life
  BY DEF Typed, Kept, SockTypes, Socket, AllOnward, Onward
<1>4. /\ sk[p].status = Dead => sk'[p].status = Dead
      /\ sk[p].status = Absent => sk'[p].status = Absent \/ sk'[p].life > sk[p].life
      /\ sk'[p].status \in {Absent, Dead} \/ sk[p].got \subseteq sk'[p].got
      /\ heard[e] \subseteq heard'[e] /\ fins[e] \subseteq fins'[e]
  BY DEF Kept, AllOnward, Onward
<1>5. /\ heard[e] # {} /\ sk[p].life >= 1
      /\ FirstConnection => sk[p].status \in {Absent, Dead} \/ sk[p].got \cap fins[e] # {}
  BY <1>1, <1>2 DEF Followed, HasFin
<1>6. heard'[e] # {} /\ sk'[p].life >= 1
  BY <1>3, <1>4, <1>5
<1>7. ASSUME FirstConnection'
      PROVE  sk'[p].status \in {Absent, Dead} \/ sk'[p].got \cap fins'[e] # {}
  <2>1. FirstConnection /\ sk'[p].life <= 1
    BY <1>3, <1>7 DEF FirstConnection
  <2>2. sk'[p].life = sk[p].life
    BY <1>3, <1>5, <2>1
  <2>3. QED
    BY <1>3, <1>4, <1>5, <2>1, <2>2
<1>8. QED
  BY <1>1, <1>2, <1>6, <1>7 DEF Followed, HasFin

\* Packets stay as good as they are.
LEMMA PacketFineKept ==
    ASSUME Typed, Kept, NEW p \in Packets, PacketFine(p) PROVE PacketFine(p)'
<1>1. p.to \in End /\ Peer(p.to) \in End
  BY PeerFacts DEF Typed, NetTypes, PacketType
<1>2. fins[Peer(p.to)] \subseteq fins'[Peer(p.to)]
  BY <1>1 DEF Kept, AllOnward, Onward
<1>3. p.type = "fin_ack" => Followed(p.to)'
  BY <1>1, FollowedKept DEF PacketFine
<1>4. QED
  BY <1>2, <1>3 DEF PacketFine

\* A socket keeps what it has got, and concludes nothing new without a reason.
NothingNew(e) ==
    /\ handler'[e] # "idle" => handler[e] # "idle"
    /\ sk'[e].status \in Closing => sk[e].status \in Closing \/ handler[e] # "idle"
    /\ sk'[e].status \in {"SS_FIN_WAIT_2", "SS_TIME_WAIT"} =>
         sk[e].status \in {"SS_FIN_WAIT_2", "SS_TIME_WAIT"} \/ Followed(e)
    /\ sk'[e].status \in Closing \/ handler'[e] # "idle" => sk[e].got \subseteq sk'[e].got

\* A socket that concludes nothing new stays fine.
LEMMA SocketFineKept ==
    ASSUME Typed, Kept, NEW e \in End, SocketFine(e), NothingNew(e) PROVE SocketFine(e)'
<1>1. Peer(e) \in End
  BY PeerFacts
<1>2. fins[Peer(e)] \subseteq fins'[Peer(e)]
  BY <1>1 DEF Kept, AllOnward, Onward
<1>3. sk'[e].status \in Closing \/ handler'[e] # "idle" => HasFin(e)'
  BY <1>2 DEF SocketFine, NothingNew, HasFin
<1>4. sk'[e].status \in {"SS_FIN_WAIT_2", "SS_TIME_WAIT"} => Followed(e)'
  BY FollowedKept DEF SocketFine, NothingNew
<1>5. QED
  BY <1>3, <1>4 DEF SocketFine

\* One socket moves and sends fine packets.
LEMMA FineMove ==
    ASSUME Typed, Kept, Fine, NEW e \in End, NothingNew(e),
           \A f \in End : f # e => sk'[f] = sk[f] /\ handler'[f] = handler[f],
           \A p \in Packets' : p \in Packets \/ PacketFine(p)'
    PROVE  Fine'
<1>1. Alive'
  BY AliveKept DEF Fine
<1>2. ASSUME NEW f \in End PROVE SocketFine(f)'
  <2>1. NothingNew(f)
    <3>1. CASE f # e
      BY <3>1 DEF NothingNew
    <3>2. QED
      BY <3>1
  <2>2. QED
    BY <2>1, SocketFineKept DEF Fine
<1>3. \A p \in Packets' : PacketFine(p)'
  BY PacketFineKept DEF Fine
<1>4. QED
  BY <1>1, <1>2, <1>3 DEF Fine

\* Nothing is concluded by a step that leaves the sockets alone.
LEMMA FineSame ==
    ASSUME Typed, Kept, Fine, sk' = sk,
           \A f \in End : handler'[f] \in {handler[f], "idle"} \/ handler[f] # "idle",
           \A p \in Packets' : p \in Packets \/ PacketFine(p)'
    PROVE  Fine'
<1>1. Alive'
  BY AliveKept DEF Fine
<1>2. ASSUME NEW f \in End PROVE SocketFine(f)'
  <2>1. NothingNew(f)
    BY DEF NothingNew
  <2>2. QED
    BY <2>1, SocketFineKept DEF Fine
<1>3. \A p \in Packets' : PacketFine(p)'
  BY PacketFineKept DEF Fine
<1>4. QED
  BY <1>1, <1>2, <1>3 DEF Fine

\* What is sent and is neither a FIN nor a FIN_ACK says nothing.
LEMMA OtherPackets ==
    ASSUME NEW p, p.type \notin {"fin", "fin_ack"} PROVE PacketFine(p)'
BY DEF PacketFine

\* A socket made for the user's data concludes nothing.
LEMMA FineBySendTo ==
    ASSUME Typed, Fine, Kept, NEW e \in End, SendTo(e) PROVE Fine'
<1>1. sk' = [sk EXCEPT ![e] = Found(sk[e])] /\ handler' = handler /\ Packets' = Packets
  BY DEF SendTo, Packets
<1>2. \A f \in End : f # e => sk'[f] = sk[f] /\ handler'[f] = handler[f]
  BY <1>1 DEF Typed, SockTypes
<1>3. PICK s \in Socket : s = sk[e]
  BY DEF Typed, SockTypes
<1>4. sk'[e] = Found(s)
  BY <1>1, <1>3 DEF Typed, SockTypes
<1>5. Found(s).got = s.got /\ (Found(s).status = s.status \/ Found(s).status = "SS_CLOSE")
  BY DEF Found, Socket
<1>6. NothingNew(e)
  BY <1>1, <1>3, <1>4, <1>5 DEF NothingNew, Closing
<1>7. QED
  BY <1>1, <1>2, <1>6, FineMove

\* A packet that is added is the only new one.
LEMMA NewPacket ==
    ASSUME Typed, NEW q, net' = net (+) SetToBag({q}), PacketFine(q)'
    PROVE  \A p \in Packets' : p \in Packets \/ PacketFine(p)'
<1>1. Packets' = Packets \cup {q}
  BY NetAdd DEF Typed, NetTypes
<1>2. QED
  BY <1>1

\* Data that leaves changes no status.
LEMMA FineBySendData ==
    ASSUME Typed, Fine, Kept, NEW e \in End, SendData(e) PROVE Fine'
<1>1. PICK s \in Socket : s = sk[e]
  BY DEF Typed, SockTypes
<1>2. NewNumber(e) \in Nat /\ sk[e].pend \in SUBSET Nat /\ Peer(e) \in End /\ "data" \in Types
  BY PeerFacts DEF NewNumber, Typed, CountTypes, SockTypes, Socket, Types
<1>3. sk' = [sk EXCEPT ![e] = Track(s, NewNumber(e))] /\ handler' = handler
  BY <1>1 DEF SendData
<1>4. \A f \in End : f # e => sk'[f] = sk[f] /\ handler'[f] = handler[f]
  BY <1>3 DEF Typed, SockTypes
<1>5. sk'[e].got = s.got /\ sk'[e].status = s.status
  BY <1>2, <1>3, TrackFacts DEF Typed, SockTypes
<1>6. NothingNew(e)
  BY <1>1, <1>3, <1>5 DEF NothingNew
<1>7. PICK q : q = Packet(Peer(e), "data", NewNumber(e), sk[e].pend)
  OBVIOUS
<1>8. \A p \in Packets' : p \in Packets \/ PacketFine(p)'
  <2>1. q.type \notin {"fin", "fin_ack"}
    BY <1>2, <1>7, PacketFacts
  <2>2. net' = net (+) SetToBag({q})
    BY <1>7 DEF SendData
  <2>3. QED
    BY <2>1, <2>2, NewPacket, OtherPackets
<1>9. QED
  BY <1>4, <1>6, <1>8, FineMove

\* The FIN that an end sends is one of its FINs.
LEMMA FinIsFine ==
    ASSUME Typed, NEW e \in End, NEW acks \in SUBSET Nat, CountSent(e, TRUE), heard' = heard,
           net' = net (+) SetToBag({Packet(Peer(e), "fin", NewNumber(e), acks)})
    PROVE  \A p \in Packets' : p \in Packets \/ PacketFine(p)'
<1>1. /\ NewNumber(e) \in Nat /\ Peer(e) \in End /\ Peer(Peer(e)) = e
      /\ "fin" \in Types
  BY PeerFacts DEF NewNumber, Typed, CountTypes, Types
<1>2. NewNumber(e) \in fins'[e]
  BY CountSentTypes DEF Typed
<1>3. PICK q : q = Packet(Peer(e), "fin", NewNumber(e), acks)
  OBVIOUS
<1>4. q.type = "fin" /\ q.to = Peer(e) /\ q.n = NewNumber(e)
  BY <1>1, <1>3, PacketFacts
<1>5. PacketFine(q)'
  BY <1>1, <1>2, <1>4 DEF PacketFine
<1>6. QED
  BY <1>3, <1>5, NewPacket

\* The FIN of an end moves it to SS_FIN_WAIT_1 or, after SS_CLOSE_WIAT, to
\* SS_LAST_ACK, whatever it had read before.
LEMMA FineBySendFin ==
    ASSUME Typed, Fine, Kept, NEW e \in End, NEW status \in {"SS_FIN_WAIT_1", "SS_LAST_ACK"},
           SendFin(e, status), heard' = heard,
           \A f \in End : handler'[f] \in {handler[f], "idle"}
    PROVE  Fine'
<1>1. PICK o \in Socket : o = sk[e]
  BY DEF Typed, SockTypes
<1>2. NewNumber(e) \in Nat /\ sk[e].pend \in SUBSET Nat
  BY DEF NewNumber, Typed, CountTypes, SockTypes, Socket
<1>3. /\ StatusChange(o.status, status) \in Statuses \cup {Absent, Dead}
      /\ StatusChange(o.status, status) \in {o.status, status}
      /\ status = "SS_LAST_ACK" /\ StatusChange(o.status, status) # o.status
           => o.status = "SS_CLOSE_WIAT"
  <2>1. o.status \in Statuses \cup {Absent, Dead} /\ status \in Statuses
    BY DEF Socket, Statuses
  <2>2. QED
    BY <2>1, StatusChangeFacts
<1> DEFINE s == [o EXCEPT !.status = StatusChange(o.status, status)]
<1>4. s \in Socket /\ s.status = StatusChange(o.status, status) /\ s.got = o.got
  BY <1>3 DEF Socket
<1>5. sk' = [sk EXCEPT ![e] = Track(s, NewNumber(e))]
  BY <1>1 DEF SendFin
<1> HIDE DEF s
<1>6. sk'[e].got = o.got /\ sk'[e].status = StatusChange(o.status, status)
  BY <1>2, <1>4, <1>5, TrackFacts DEF Typed, SockTypes
<1>7. ASSUME NEW f \in End PROVE NothingNew(f)
  <2>1. CASE f = e
    BY <1>1, <1>3, <1>6, <2>1 DEF NothingNew, Closing
  <2>2. CASE f # e
    <3>1. sk'[f] = sk[f]
      BY <1>5, <2>2 DEF Typed, SockTypes
    <3>2. QED
      BY <3>1 DEF NothingNew
  <2>3. QED
    BY <2>1, <2>2
<1>8. \A p \in Packets' : p \in Packets \/ PacketFine(p)'
  BY <1>2, FinIsFine DEF SendFin
<1>9. Alive'
  BY AliveKept DEF Fine
<1>10. \A f \in End : SocketFine(f)'
  BY <1>7, SocketFineKept DEF Fine
<1>11. \A p \in Packets' : PacketFine(p)'
  BY <1>8, PacketFineKept DEF Fine
<1>12. QED
  BY <1>9, <1>10, <1>11 DEF Fine

\* Close, on the user's thread, concludes nothing about the other end.
LEMMA FineByClose ==
    ASSUME Typed, Fine, Kept, NEW e \in End, CloseCheck(e) \/ CloseRead(e) \/ CloseSend(e)
    PROVE  Fine'
<1>1. CASE CloseCheck(e) \/ CloseRead(e)
  <2>1. sk' = sk /\ handler' = handler /\ Packets' = Packets
    BY <1>1 DEF CloseCheck, CloseRead, Packets
  <2>2. QED
    BY <2>1, FineSame
<1>2. CASE CloseSend(e)
  <2>1. handler' = handler /\ heard' = heard
    BY <1>2 DEF CloseSend
  <2>2. CASE closer[e] \in Statuses /\ SendFin(e, closer[e])
    <3>1. closer[e] \in {"SS_FIN_WAIT_1", "SS_LAST_ACK"}
      BY <2>2 DEF Typed, ThreadTypes, Statuses
    <3>2. QED
      BY <2>1, <2>2, <3>1, FineBySendFin
  <2>3. CASE /\ net' = net (+) SetToBag({Packet(Peer(e), "fin", NewNumber(e), {})})
             /\ CountSent(e, TRUE) /\ UNCHANGED sk
    <3>1. {} \in SUBSET Nat
      OBVIOUS
    <3>2. PICK acks \in SUBSET Nat : acks = {}
      BY <3>1
    <3>3. CountSent(e, TRUE)
          /\ net' = net (+) SetToBag({Packet(Peer(e), "fin", NewNumber(e), acks)})
      BY <2>3, <3>2
    <3>4. \A p \in Packets' : p \in Packets \/ PacketFine(p)'
      BY <2>1, <3>3, FinIsFine
    <3>5. QED
      BY <2>1, <2>3, <3>4, FineSame
  <2>4. QED
    BY <1>2, <2>2, <2>3 DEF CloseSend
<1>3. QED
  BY <1>1, <1>2

\* The process thread is in SS_CLOSE_WIAT and after only with the FIN it got.
LEMMA FineByAnswer ==
    ASSUME Typed, Fine, Kept, NEW e \in End,
           BecomeCloseWait(e) \/ AnswerCheck(e) \/ AnswerFin(e)
    PROVE  Fine'
<1>1. CASE BecomeCloseWait(e)
  <2>1. PICK o \in Socket : o = sk[e]
    BY DEF Typed, SockTypes
  <2>2. StatusChange(o.status, "SS_CLOSE_WIAT") \in {o.status, "SS_CLOSE_WIAT"}
    BY DEF StatusChange
  <2>3. sk' = [sk EXCEPT ![e] = [o EXCEPT !.status = StatusChange(o.status, "SS_CLOSE_WIAT")]]
    BY <1>1, <2>1 DEF BecomeCloseWait
  <2>4. sk'[e].got = o.got /\ sk'[e].status = StatusChange(o.status, "SS_CLOSE_WIAT")
    BY <2>3 DEF Typed, SockTypes, Socket
  <2>5. /\ handler[e] = "got_fin" /\ Packets' = Packets
        /\ \A f \in End : f # e => handler'[f] = handler[f]
    BY <1>1 DEF BecomeCloseWait, Packets, Typed, ThreadTypes
  <2>6. \A f \in End : f # e => sk'[f] = sk[f]
    BY <2>3 DEF Typed, SockTypes
  <2>7. NothingNew(e)
    BY <2>1, <2>2, <2>4, <2>5 DEF NothingNew
  <2>8. QED
    BY <2>5, <2>6, <2>7, FineMove
<1>2. CASE AnswerCheck(e)
  <2>1. /\ sk' = sk /\ Packets' = Packets
        /\ \A f \in End : handler'[f] = handler[f] \/ handler[f] # "idle"
    BY <1>2 DEF AnswerCheck, Packets, Typed, ThreadTypes
  <2>2. QED
    BY <2>1, FineSame
<1>3. CASE AnswerFin(e)
  <2>1. /\ SendFin(e, "SS_LAST_ACK") /\ heard' = heard
        /\ \A f \in End : handler'[f] \in {handler[f], "idle"}
    BY <1>3 DEF AnswerFin, Typed, ThreadTypes
  <2>2. QED
    BY <2>1, FineBySendFin
<1>4. QED
  BY <1>1, <1>2, <1>3

\* What a resend timer sends as a FIN was a FIN.
LEMMA FineByTimers ==
    ASSUME Typed, Fine, Kept, NEW e \in End, (\E n \in sk[e].armed : Resend(e, n)) \/ AckTimer(e)
    PROVE  Fine'
<1>0. /\ sk[e].pend \in SUBSET Nat /\ Peer(e) \in End /\ Peer(Peer(e)) = e
      /\ {"data", "fin", "ack"} \subseteq Types /\ sk[e] \in Socket
  BY PeerFacts DEF Typed, SockTypes, Socket, Types
<1>1. ASSUME NEW n \in sk[e].armed, Resend(e, n) PROVE Fine'
  <2>1. n \in Nat
    BY DEF Typed, SockTypes, Socket
  <2>2. PICK type \in {"data", "fin"} : type = IF n \in fins[e] THEN "fin" ELSE "data"
    OBVIOUS
  <2>3. PICK q : q = Packet(Peer(e), type, n, sk[e].pend)
    OBVIOUS
  <2>4. q.to = Peer(e) /\ q.type = type /\ q.n = n
    BY <1>0, <2>1, <2>3, PacketFacts
  <2>5. net' = net (+) SetToBag({q}) /\ handler' = handler /\ fins' = fins
    BY <1>1, <2>2, <2>3 DEF Resend
  <2>6. PacketFine(q)'
    BY <1>0, <2>2, <2>4, <2>5 DEF PacketFine
  <2>7. \A p \in Packets' : p \in Packets \/ PacketFine(p)'
    BY <2>5, <2>6, NewPacket
  <2>8. /\ \A f \in End : f # e => sk'[f] = sk[f]
        /\ sk'[e].got = sk[e].got /\ sk'[e].status = sk[e].status
    BY <1>0, <1>1 DEF Resend, Typed, SockTypes, Socket
  <2>9. NothingNew(e)
    BY <2>5, <2>8 DEF NothingNew
  <2>10. QED
    BY <2>5, <2>7, <2>8, <2>9, FineMove
<1>2. ASSUME AckTimer(e) PROVE Fine'
  <2>1. PICK q : q = Packet(Peer(e), "ack", 0, sk[e].pend)
    OBVIOUS
  <2>2. q.type \notin {"fin", "fin_ack"}
    BY <1>0, <2>1, PacketFacts
  <2>3. net' = net (+) SetToBag({q}) /\ handler' = handler
    BY <1>2, <2>1 DEF AckTimer
  <2>4. \A p \in Packets' : p \in Packets \/ PacketFine(p)'
    BY <2>2, <2>3, NewPacket, OtherPackets
  <2>5. /\ \A f \in End : f # e => sk'[f] = sk[f]
        /\ sk'[e].got = sk[e].got /\ sk'[e].status = sk[e].status
    BY <1>0, <1>2 DEF AckTimer, Typed, SockTypes, Socket
  <2>6. NothingNew(e)
    BY <2>3, <2>5 DEF NothingNew
  <2>7. QED
    BY <2>3, <2>4, <2>5, <2>6, FineMove
<1>3. QED
  BY <1>1, <1>2

\* Nothing is concluded from a timer that is lost.
LEMMA FineByDrops ==
    ASSUME Typed, Fine, Kept, NEW e \in End, LosesTimer(e) PROVE Fine'
<1>1. /\ \A f \in End : f # e => sk'[f] = sk[f]
      /\ sk'[e].got = sk[e].got /\ sk'[e].status = sk[e].status
  BY DEF LosesTimer, Typed, SockTypes
<1>2. handler' = handler /\ Packets' = Packets
  BY DEF LosesTimer, Packets
<1>3. NothingNew(e)
  BY <1>1, <1>2 DEF NothingNew
<1>4. QED
  BY <1>1, <1>2, <1>3, FineMove

\* What SetSocket makes of the sockets.
LEMMA SetSocketMoves ==
    ASSUME Typed, NEW e \in End, NEW s \in Socket, SetSocket(e, s)
    PROVE  /\ \A f \in End : f # e => sk'[f] = sk[f]
           /\ sk'[e].status = s.status
           /\ s.status \notin {Absent, Dead} => sk'[e] = s
<1>1. CASE s.status \in {Absent, Dead}
  <2> DEFINE r == [NoSocket EXCEPT !.status = s.status, !.life = s.life]
  <2>1. sk' = [sk EXCEPT ![e] = r] /\ r.status = s.status
    BY <1>1 DEF SetSocket, NoSocket
  <2> HIDE DEF r
  <2>2. QED
    BY <1>1, <2>1 DEF Typed, SockTypes
<1>2. CASE s.status \notin {Absent, Dead}
  <2>1. sk' = [sk EXCEPT ![e] = s]
    BY <1>2 DEF SetSocket
  <2>2. QED
    BY <2>1 DEF Typed, SockTypes
<1>3. QED
  BY <1>1, <1>2

\* The socket of e becomes s, which has lost nothing unless it is gone.
LEMMA FineBySetSocket ==
    ASSUME Typed, Fine, Kept, NEW e \in End, NEW s \in Socket, SetSocket(e, s),
           handler' = handler, handler[e] = "idle",
           s.status \in {Absent, Dead} \/ sk[e].got \subseteq s.got,
           s.status \in Closing => sk[e].status \in Closing,
           s.status \in {"SS_FIN_WAIT_2", "SS_TIME_WAIT"} =>
             sk[e].status \in {"SS_FIN_WAIT_2", "SS_TIME_WAIT"} \/ Followed(e),
           \A p \in Packets' : p \in Packets \/ PacketFine(p)'
    PROVE  Fine'
<1>1. /\ \A f \in End : f # e => sk'[f] = sk[f]
      /\ sk'[e].status = s.status
      /\ s.status \notin {Absent, Dead} => sk'[e] = s
  BY SetSocketMoves
<1>2. s.status \in {Absent, Dead} => s.status \notin Closing
  BY DEF Absent, Dead, Closing
<1>3. NothingNew(e)
  BY <1>1, <1>2 DEF NothingNew
<1>4. QED
  BY <1>1, <1>3, FineMove

\* The 2MSL timer releases the socket when no handler is at work.
LEMMA FineByClose2Msl ==
    ASSUME Typed, Fine, Kept, NEW e \in End, Close2Msl(e) PROVE Fine'
<1>1. PICK o \in Socket : o = sk[e]
  BY DEF Typed, SockTypes
<1> DEFINE s == [o EXCEPT !.status = Absent]
<1>2. s \in Socket /\ s.status = Absent
  BY DEF Socket
<1>3. SetSocket(e, s) /\ handler' = handler /\ handler[e] = "idle" /\ Packets' = Packets
  BY <1>1 DEF Close2Msl, Quiet, Packets
<1> HIDE DEF s
<1>4. s.status \notin Closing \cup {"SS_FIN_WAIT_2"}
  BY <1>2 DEF Absent, Closing
<1>5. s.status \notin {"SS_FIN_WAIT_2", "SS_TIME_WAIT"}
  BY <1>2 DEF Absent
<1>6. QED
  BY <1>2, <1>3, <1>4, <1>5, FineBySetSocket

\* Consuming a packet and replying by packets that say nothing.
LEMMA ConsumeFine ==
    ASSUME Typed, NEW p, NEW R, Consume(p, R), \A r \in R : PacketFine(r)'
    PROVE  \A q \in Packets' : q \in Packets \/ PacketFine(q)'
<1>1. Packets' \subseteq Packets \cup R
  BY NetConsume DEF Typed, NetTypes
<1>2. QED
  BY <1>1

\* Packets that are lost or repeated say nothing new.
LEMMA FineByNetwork ==
    ASSUME Typed, Fine, Kept, NEW p \in Packets, Lose(p) \/ Copy(p) PROVE Fine'
<1>1. Packets' \subseteq Packets
  <2>1. CASE Lose(p)
    BY <2>1, NetConsume DEF Lose, Typed, NetTypes
  <2>2. CASE Copy(p)
    BY <2>2, NetAdd DEF Copy, Typed, NetTypes
  <2>3. QED
    BY <2>1, <2>2
<1>2. sk' = sk /\ handler' = handler
  BY DEF Lose, Copy
<1>3. QED
  BY <1>1, <1>2, FineSame

\* Of the other packets only a FIN_ACK lets an end conclude that its FIN was
\* answered, and its sender follows.
LEMMA FineByRecv ==
    ASSUME Typed, Fine, Kept, NEW p \in Packets, Recv(p), ~ RecvFin(p) PROVE Fine'
<1>0. /\ Arrives(p) /\ p.to \in End /\ Peer(p.to) \in End /\ p.n \in Nat
      /\ handler[p.to] = "idle"
  BY PeerFacts DEF Recv, RecvCrash, RecvInTimeWait, RecvRst, RecvOnlyAck, RecvData, RecvFin,
     RecvFinAck, Handled, Arrives, Typed, NetTypes, PacketType
<1>1. PICK o \in Socket :
         /\ o = Receiver(p) /\ o.pend = sk[p.to].pend /\ o.got = sk[p.to].got
         /\ o.status = IF sk[p.to].status \in {Absent, "SS_CLOSE"} THEN "SS_READY"
                       ELSE sk[p.to].status
  BY <1>0, ReceiverFacts
<1>2. /\ o.status \in Closing => sk[p.to].status \in Closing
      /\ o.status \in {"SS_FIN_WAIT_2", "SS_TIME_WAIT"} =>
           sk[p.to].status \in {"SS_FIN_WAIT_2", "SS_TIME_WAIT"}
  BY <1>1 DEF Closing
<1>3. sk[p.to].pend \in SUBSET Nat /\ o.pend \subseteq o.got /\ p.n \in Nat
  BY <1>0, <1>1 DEF Typed, SockTypes, Socket, NetTypes, PacketType
<1>4. \A r \in {} : PacketFine(r)'
  OBVIOUS
<1>5. ASSUME NEW st \in {Absent, Dead}, SetSocket(p.to, [o EXCEPT !.status = st]),
             Consume(p, {}), handler' = handler
      PROVE  Fine'
  <2> DEFINE s == [o EXCEPT !.status = st]
  <2>1. s \in Socket /\ s.status = st
    BY DEF Socket
  <2>2. SetSocket(p.to, s)
    BY <1>5
  <2> HIDE DEF s
  <2>3. s.status \notin Closing /\ s.status \notin {"SS_FIN_WAIT_2", "SS_TIME_WAIT"}
    BY <2>1 DEF Absent, Dead, Closing
  <2>4. \A q \in Packets' : q \in Packets \/ PacketFine(q)'
    BY <1>4, <1>5, ConsumeFine
  <2>5. QED
    BY <1>0, <1>5, <2>1, <2>2, <2>3, <2>4, FineBySetSocket
<1>6. CASE RecvCrash(p)
  <2>1. SetSocket(p.to, [o EXCEPT !.status = Dead]) /\ Consume(p, {}) /\ handler' = handler
    BY <1>1, <1>6 DEF RecvCrash
  <2>2. QED
    BY <1>5, <2>1
<1>7. CASE RecvRst(p)
  <2>1. SetSocket(p.to, [o EXCEPT !.status = Absent]) /\ Consume(p, {}) /\ handler' = handler
    BY <1>1, <1>7 DEF RecvRst
  <2>2. QED
    BY <1>5, <2>1
<1>8. CASE RecvFinAck(p)
  <2>1. /\ SetSocket(p.to, Moved(o, OnFinAck(o.status))) /\ Consume(p, {})
        /\ handler' = handler /\ p.type = "fin_ack"
    BY <1>1, <1>8 DEF RecvFinAck
  <2>2. OnFinAck(o.status) \in Statuses \cup {Absent, Dead}
    BY OnFinFacts DEF Socket
  <2> DEFINE s == Moved(o, OnFinAck(o.status))
  <2>3. s \in Socket /\ s.got = o.got /\ s.status = OnFinAck(o.status)
    BY <2>2, MovedFacts
  <2>4. SetSocket(p.to, s)
    BY <2>1
  <2> HIDE DEF s
  <2>5. Followed(p.to)
    BY <2>1 DEF Fine, PacketFine
  <2>6. s.status \in Closing => o.status \in Closing
    BY <2>3 DEF OnFinAck, Closing, Absent
  <2>7. \A q \in Packets' : q \in Packets \/ PacketFine(q)'
    BY <1>4, <2>1, ConsumeFine
  <2>8. sk[p.to].got \subseteq s.got /\ (s.status \in Closing => sk[p.to].status \in Closing)
    BY <1>1, <1>2, <2>3, <2>6
  <2>9. QED
    BY <1>0, <2>1, <2>3, <2>4, <2>5, <2>7, <2>8, FineBySetSocket
<1>9. CASE RecvOnlyAck(p)
  <2>1. SetSocket(p.to, o) /\ Consume(p, {}) /\ handler' = handler
    BY <1>1, <1>9 DEF RecvOnlyAck
  <2>2. \A q \in Packets' : q \in Packets \/ PacketFine(q)'
    BY <1>4, <2>1, ConsumeFine
  <2>3. QED
    BY <1>0, <1>1, <1>2, <2>1, <2>2, FineBySetSocket
<1>10. CASE RecvInTimeWait(p)
  <2> DEFINE s == [o EXCEPT !.pend = {}]
  <2>1. s \in Socket /\ s.got = o.got /\ s.status = o.status
    BY DEF Socket
  <2>2. SetSocket(p.to, s) /\ handler' = handler
    BY <1>1, <1>10 DEF RecvInTimeWait
  <2> HIDE DEF s
  <2>3. PICK r : r = Packet(Peer(p.to), "rst", 0, sk[p.to].pend)
    OBVIOUS
  <2>4. r.type \notin {"fin", "fin_ack"}
    <3>1. "rst" \in Types
      BY DEF Types
    <3>2. QED
      BY <1>0, <1>3, <2>3, <3>1, PacketFacts
  <2>5. Consume(p, {r})
    BY <1>10, <2>3 DEF RecvInTimeWait
  <2>6. \A x \in {r} : PacketFine(x)'
    BY <2>4, OtherPackets
  <2>7. \A q \in Packets' : q \in Packets \/ PacketFine(q)'
    BY <2>5, <2>6, ConsumeFine
  <2>8. QED
    BY <1>0, <1>1, <1>2, <2>1, <2>2, <2>7, FineBySetSocket
<1>11. CASE RecvData(p)
  <2>1. PICK quick \in BOOLEAN : /\ SetSocket(p.to, Taken(o, p.n, quick))
                                 /\ Consume(p, QuickAck(p.to, p.n, quick))
    BY <1>1, <1>11 DEF RecvData, MayBeRepeat
  <2>2. PICK s \in Socket : /\ s = Taken(o, p.n, quick) /\ s.status = o.status
                            /\ s.got = o.got \cup {p.n}
    BY <1>3, TakenFacts
  <2>3. PICK R : R = QuickAck(p.to, p.n, quick)
    OBVIOUS
  <2>4. \A r \in R : r.type \notin {"fin", "fin_ack"}
    BY <1>0, <2>3, QuickAckFacts
  <2>5. \A r \in R : PacketFine(r)'
    BY <2>4, OtherPackets
  <2>6. \A q \in Packets' : q \in Packets \/ PacketFine(q)'
    BY <2>1, <2>3, <2>5, ConsumeFine
  <2>7. handler' = handler
    BY <1>11 DEF RecvData
  <2>8. QED
    BY <1>0, <1>1, <1>2, <2>1, <2>2, <2>6, <2>7, FineBySetSocket
<1>12. QED
  BY <1>6, <1>7, <1>8, <1>9, <1>10, <1>11 DEF Recv

\* A FIN that arrives is got by the socket, heard of, and answered by a FIN_ACK
\* to an end that is therefore followed.
LEMMA FineByRecvFin ==
    ASSUME Typed, Fine, Kept, NEW p \in Packets, RecvFin(p) PROVE Fine'
<1>0. /\ Arrives(p) /\ p.to \in End /\ Peer(p.to) \in End /\ Peer(Peer(p.to)) = p.to
      /\ p.n \in Nat /\ p.type = "fin" /\ handler[p.to] = "idle"
      /\ sk[p.to].status # "SS_TIME_WAIT" /\ sk[p.to].status # Dead
  BY PeerFacts DEF RecvFin, Handled, Arrives, Typed, NetTypes, PacketType
<1>1. PICK o \in Socket :
         /\ o = Receiver(p) /\ o.pend = sk[p.to].pend /\ o.got = sk[p.to].got
         /\ o.status = IF sk[p.to].status \in {Absent, "SS_CLOSE"} THEN "SS_READY"
                       ELSE sk[p.to].status
  BY <1>0, ReceiverFacts
<1>2. o.pend \subseteq o.got /\ sk[p.to].status \in Statuses \cup {Absent, Dead}
  BY <1>0, <1>1 DEF Typed, SockTypes, Socket
<1>3. PICK quick \in BOOLEAN :
         LET s == Taken(o, p.n, quick)
         IN  /\ SetSocket(p.to, Moved([s EXCEPT !.pend = {}], OnFin(s.status)))
             /\ Consume(p, QuickAck(p.to, p.n, quick)
                             \cup {Packet(Peer(p.to), "fin_ack", 0, s.pend)})
             /\ handler' = [handler EXCEPT ![p.to] =
                  IF s.status = "SS_READY" THEN "got_fin" ELSE "idle"]
  BY <1>1 DEF RecvFin, MayBeRepeat
<1>4. PICK t \in Socket : /\ t = Taken(o, p.n, quick) /\ t.status = o.status
                          /\ t.got = o.got \cup {p.n}
  BY <1>0, <1>2, TakenFacts
<1>5. OnFin(t.status) \in Statuses \cup {Absent, Dead} /\ t.pend \in SUBSET Nat
  BY OnFinFacts DEF Socket
<1> DEFINE bare == [t EXCEPT !.pend = {}]
           s == Moved(bare, OnFin(t.status))
<1>5b. SetSocket(p.to, s)
  BY <1>3, <1>4
<1>5a. bare \in Socket /\ bare.got = t.got
  BY DEF Socket
<1> HIDE DEF bare
<1>6. s \in Socket /\ s.got = t.got /\ s.status = OnFin(t.status)
  BY <1>5, <1>5a, MovedFacts
<1>7. SetSocket(p.to, s)
  BY <1>5b
<1> HIDE DEF s
<1>8. /\ s.status \notin {Absent, Dead}
      /\ s.status \in {"SS_FIN_WAIT_2", "SS_TIME_WAIT"} =>
           sk[p.to].status \in {"SS_FIN_WAIT_2", "SS_TIME_WAIT"}
  BY <1>0, <1>1, <1>2, <1>4, <1>6 DEF OnFin, Absent, Dead, Statuses
<1>9. sk'[p.to] = s /\ \A f \in End : f # p.to => sk'[f] = sk[f]
  BY <1>0, <1>6, <1>7, <1>8, SetSocketMoves
<1>10. /\ p.n \in fins'[Peer(p.to)] /\ p.n \in heard'[Peer(p.to)]
       /\ \A f \in End : f # p.to => handler'[f] = handler[f]
  BY <1>0, <1>3 DEF RecvFin, Fine, PacketFine, Typed, CountTypes, ThreadTypes
<1>11. HasFin(p.to)'
  BY <1>4, <1>6, <1>9, <1>10 DEF HasFin
<1>12. Alive'
  BY AliveKept DEF Fine
<1>13. ASSUME NEW f \in End PROVE SocketFine(f)'
  <2>1. CASE f = p.to
    <3>1. SocketFine(f) /\ (Followed(f) => Followed(f)')
      BY FollowedKept DEF Fine
    <3>2. QED
      BY <1>8, <1>9, <1>11, <2>1, <3>1 DEF SocketFine
  <2>2. CASE f # p.to
    <3>1. NothingNew(f)
      BY <1>9, <1>10, <2>2 DEF NothingNew
    <3>2. QED
      BY <3>1, SocketFineKept DEF Fine
  <2>3. QED
    BY <2>1, <2>2
<1>14. Followed(Peer(p.to))'
  <2>1. sk'[p.to].life >= 1
    BY <1>0, <1>8, <1>9, <1>12 DEF Alive
  <2>2. QED
    BY <1>0, <1>10, <1>11, <2>1 DEF Followed
<1>15. \A q \in Packets' : q \in Packets \/ PacketFine(q)'
  <2>1. PICK Q : Q = QuickAck(p.to, p.n, quick)
    OBVIOUS
  <2>2. PICK fa : fa = Packet(Peer(p.to), "fin_ack", 0, t.pend)
    OBVIOUS
  <2>3. fa.to = Peer(p.to) /\ fa.type = "fin_ack"
    <3>1. "fin_ack" \in Types
      BY DEF Types
    <3>2. QED
      BY <1>0, <1>5, <2>2, <3>1, PacketFacts
  <2>4. PacketFine(fa)'
    BY <1>14, <2>3 DEF PacketFine
  <2>5. \A r \in Q : r.type \notin {"fin", "fin_ack"}
    BY <1>0, <2>1, QuickAckFacts
  <2>6. \A r \in Q \cup {fa} : PacketFine(r)'
    BY <2>4, <2>5, OtherPackets
  <2>7. Consume(p, Q \cup {fa})
    BY <1>3, <1>4, <2>1, <2>2
  <2>8. QED
    BY <2>6, <2>7, ConsumeFine
<1>16. \A q \in Packets' : PacketFine(q)'
  BY <1>15, PacketFineKept DEF Fine
<1>17. QED
  BY <1>12, <1>13, <1>16 DEF Fine

\* Every step keeps what the ends may conclude.
LEMMA FineKept == Typed /\ Fine /\ [Next]_vars => Fine'
<1> SUFFICES ASSUME Typed, Fine, [Next]_vars PROVE Fine'
  OBVIOUS
<1>0. Kept
  BY KeptByAll
<1>1. ASSUME NEW e \in End,
             \/ SendTo(e) \/ SendData(e) \/ CloseCheck(e) \/ CloseRead(e) \/ CloseSend(e)
             \/ BecomeCloseWait(e) \/ AnswerCheck(e) \/ AnswerFin(e)
             \/ (\E n \in sk[e].armed : Resend(e, n)) \/ AckTimer(e) \/ Close2Msl(e)
             \/ (\E n \in sk[e].armed : Drop(e, n)) \/ Drop2Msl(e)
      PROVE  Fine'
  BY <1>0, <1>1, FineBySendTo, FineBySendData, FineByClose, FineByAnswer, FineByTimers,
     FineByClose2Msl, DropsLoseTimers, FineByDrops
<1>2. ASSUME NEW p \in Packets, Recv(p) \/ Lose(p) \/ Copy(p) PROVE Fine'
  BY <1>0, <1>2, FineByRecv, FineByRecvFin, FineByNetwork
<1>3. CASE UNCHANGED vars
  <2>1. sk' = sk /\ handler' = handler /\ Packets' = Packets
    BY <1>3 DEF vars, Packets
  <2>2. QED
    BY <1>0, <2>1, FineSame
<1>4. QED
  BY <1>1, <1>2, <1>3 DEF Next, Packets

\* In the beginning nothing has been concluded.
LEMMA InitFine == Init => Fine
<1> SUFFICES ASSUME Init PROVE Fine
  OBVIOUS
<1>1. Packets = {}
  BY DEF Init, Packets, EmptyBag, SetToBag, BagToSet
<1>2. \A e \in End : sk[e].status = Absent /\ handler[e] = "idle"
  BY DEF Init, NoSocket
<1>3. QED
  BY <1>1, <1>2 DEF Fine, Alive, SocketFine, Closing, Absent

\* An end is in the closing states only when this very socket has got a FIN.
THEOREM FinWasGotBefore == Spec => []FinWasGot
<1>1. Fine => FinWasGot
  BY DEF Fine, SocketFine, HasFin, FinWasGot
<1>2. Typed /\ [Next]_vars => Typed'
  BY KeptByAll DEF Kept
<1>3. QED
  BY <1>1, <1>2, InitTyped, InitFine, FineKept, PTL DEF Spec

\* A half closed end's FIN was heard of, though the FIN_ACK does not say which
\* FIN it answers.
THEOREM HalfClosedKnows == Spec => []HalfClosedIsKnown
<1>1. Fine => HalfClosedIsKnown
  BY DEF Fine, SocketFine, Followed, HalfClosedIsKnown
<1>2. Typed /\ [Next]_vars => Typed'
  BY KeptByAll DEF Kept
<1>3. QED
  BY <1>1, <1>2, InitTyped, InitFine, FineKept, PTL DEF Spec

\* In a connection's first life the peer of a half closed end is gone or has got
\* a FIN of it.
THEOREM PeerIsFollowing == Spec => []PeerFollows
<1>1. Fine => PeerFollows
  <2> SUFFICES ASSUME Fine, FirstConnection, NEW e \in End,
                      sk[e].status \in {"SS_FIN_WAIT_2", "SS_TIME_WAIT"}
               PROVE  sk[Peer(e)].status \in {Absent, Dead} \/ sk[Peer(e)].got \cap fins[e] # {}
    BY DEF PeerFollows
  <2>1. Followed(e) /\ Peer(Peer(e)) = e
    BY PeerFacts DEF Fine, SocketFine
  <2>2. QED
    BY <2>1 DEF Followed, HasFin
<1>2. Typed /\ [Next]_vars => Typed'
  BY KeptByAll DEF Kept
<1>3. QED
  BY <1>1, <1>2, InitTyped, InitFine, FineKept, PTL DEF Spec
=============================================================================
