------------------------------ MODULE Filters ------------------------------
(***************************************************************************)
(* The way of a body from a user to a user: the threads and their queues     *)
(* (base/TaskQueue.h), which give back the newest element first, and the     *)
(* slicing filter (filter/FlowSlicingFilter.cpp), which cuts a body that is  *)
(* too long for a packet and joins it again. Peers send to one receiver.     *)
(* Between them stands the HTF_RELIABLE_ORDERLY class, which SendWnd and     *)
(* RecvList model: every packet once, in the order it was sent.              *)
(* The filters around slicing pass bodies on: compression changes their      *)
(* length and never makes them empty.                                        *)
(***************************************************************************)
EXTENDS Integers, Sequences, SequencesExt, FiniteSets

CONSTANTS
    Peer,       \* the senders
    Lengths,    \* of the bodies, in bytes, after compression
    MaxBodies,  \* bound: how many bodies a peer sends
    SliceLimit, \* __slice_limit, 394 bytes
    FlagLimit   \* 2^16, where _cur_flag and the count of slices wrap

ASSUME FiltersAssumption ==
    /\ Lengths \subseteq Nat \ {0} /\ MaxBodies \in Nat
    /\ SliceLimit \in Nat \ {0} /\ FlagLimit \in Nat \ {0}

\* A body is known by who sent it, as which, and how long it is. A slice is a
\* stretch of one, with the head that travels with it.
Body  == [peer : Peer, no : 1 .. MaxBodies, len : Lengths]
Flag  == 0 .. FlagLimit - 1
Piece == [body : Body, from : Nat, len : Nat]

VARIABLES
    bodies,    \* the bodies each peer has handed over, in order
    toFilter,  \* each peer's filter queue
    cutting,   \* the slices of the body its filter thread still has to send
    curFlag,   \* _cur_flag of each peer
    toProcess, \* each peer's process queue
    closed,    \* peers that have called Close: SendTo refuses
    net,       \* packets of each peer on their way
    toRelieve, \* the receiver's filter queue
    slices,    \* _slice_map
    toUpper,   \* the receiver's upper queue
    received,  \* what the user has received: sequences of pieces
    refused    \* history: bodies of which a slice was refused

sendVars == <<bodies, toFilter, cutting, curFlag, toProcess, closed, net, refused>>
recvVars == <<toRelieve, slices, toUpper, received>>
vars == <<sendVars, recvVars>>

Init ==
    /\ bodies = [p \in Peer |-> <<>>]
    /\ toFilter = [p \in Peer |-> <<>>]
    /\ cutting = [p \in Peer |-> <<>>]
    /\ curFlag = [p \in Peer |-> 0]
    /\ toProcess = [p \in Peer |-> <<>>]
    /\ closed = {}
    /\ net = [p \in Peer |-> <<>>]
    /\ toRelieve = <<>>
    /\ slices = [f \in Flag |-> <<>>]
    /\ toUpper = <<>>
    /\ received = <<>>
    /\ refused = {}
-----------------------------------------------------------------------------
\* Faulty variants of the operators after them; only the mutation runs use them.
SliceNumDown(total) == total \div SliceLimit
PieceLenFull(total, i) == SliceLimit
KeepSlices(flag) == slices
AnyOrder(parts)  == parts

\* Push of a task queue is at the back, and so is Pop.
Push(queue, x) == Append(queue, x)
Pop(queue) == Front(queue)

\* How a body of total bytes is cut.
SliceNum(total) == total \div SliceLimit + (IF total % SliceLimit > 0 THEN 1 ELSE 0)
PieceLen(total, i) ==
    IF total - i * SliceLimit < SliceLimit THEN total - i * SliceLimit ELSE SliceLimit

\* The slices FilterProcess makes of a body, in the order it sends them.
Slices(body, flag) ==
    [i \in 1 .. SliceNum(body.len) |->
        [flag |-> flag, count |-> SliceNum(body.len) % FlagLimit, index |-> (i - 1) % FlagLimit,
         piece |-> [body |-> body, from |-> (i - 1) * SliceLimit,
                    len |-> PieceLen(body.len, i - 1)]]]

\* How many slices come no later than the i-th when they are sorted by index. Equal
\* indices, of two bodies under one flag, keep their places; std::sort may swap them.
Rank(parts, i) ==
    Cardinality({j \in 1 .. Len(parts) :
                    \/ parts[j].index < parts[i].index
                    \/ parts[j].index = parts[i].index /\ j <= i})

\* The slices of a flag in the order of their indices, joined.
Sorted(parts) ==
    [n \in 1 .. Len(parts) |-> parts[CHOOSE i \in 1 .. Len(parts) : Rank(parts, i) = n]]
Joined(parts) == [i \in 1 .. Len(parts) |-> Sorted(parts)[i].piece]

\* Whether the slices of the flag are taken to be all.
Complete(head, parts) == head.count = Len(parts) % FlagLimit

\* _slice_map without the entry of the flag.
Erased(flag) == [slices EXCEPT ![flag] = <<>>]
-----------------------------------------------------------------------------
(* A sender.                                                                 *)

\* A user thread hands a body over.
SendBody(p, len) ==
    LET b == [peer |-> p, no |-> Len(bodies[p]) + 1, len |-> len]
    IN  /\ Len(bodies[p]) < MaxBodies
        /\ bodies' = [bodies EXCEPT ![p] = Append(@, b)]
        /\ toFilter' = [toFilter EXCEPT ![p] = Push(@, b)]
        /\ UNCHANGED <<cutting, curFlag, toProcess, closed, net, refused, recvVars>>

\* The filter thread takes a body and cuts it.
FilterProcess(p) ==
    /\ cutting[p] = <<>>
    /\ toFilter[p] # <<>>
    /\ LET flag == (curFlag[p] + 1) % FlagLimit
       IN  /\ curFlag' = [curFlag EXCEPT ![p] = flag]
           /\ cutting' = [cutting EXCEPT ![p] = Slices(Last(toFilter[p]), flag)]
    /\ toFilter' = [toFilter EXCEPT ![p] = Pop(@)]
    /\ UNCHANGED <<bodies, toProcess, closed, net, refused, recvVars>>

\* SendTo of the next slice. A refusal ends the loop, and nobody hears of it.
SendSlice(p) ==
    /\ cutting[p] # <<>>
    /\ \/ /\ p \notin closed
          /\ toProcess' = [toProcess EXCEPT ![p] = Push(@, Head(cutting[p]))]
          /\ cutting' = [cutting EXCEPT ![p] = Tail(@)]
          /\ UNCHANGED refused
       \/ /\ p \in closed
          /\ cutting' = [cutting EXCEPT ![p] = <<>>]
          /\ refused' = refused \cup {Head(cutting[p]).piece.body}
          /\ UNCHANGED toProcess
    /\ UNCHANGED <<bodies, toFilter, curFlag, closed, net, recvVars>>

\* The process thread takes a packet and numbers it.
Process(p) ==
    /\ toProcess[p] # <<>>
    /\ net' = [net EXCEPT ![p] = Append(@, Last(toProcess[p]))]
    /\ toProcess' = [toProcess EXCEPT ![p] = Pop(@)]
    /\ UNCHANGED <<bodies, toFilter, cutting, curFlag, closed, refused, recvVars>>

\* A user thread closes the connection: what has been queued is still sent.
Close(p) ==
    /\ p \notin closed
    /\ closed' = closed \cup {p}
    /\ UNCHANGED <<bodies, toFilter, cutting, curFlag, toProcess, net, refused, recvVars>>
-----------------------------------------------------------------------------
(* The receiver.                                                             *)

\* The process thread hands the next packet of a peer to the filters.
Arrive(p) ==
    /\ net[p] # <<>>
    /\ toRelieve' = Push(toRelieve, Head(net[p]))
    /\ net' = [net EXCEPT ![p] = Tail(@)]
    /\ UNCHANGED <<bodies, toFilter, cutting, curFlag, toProcess, closed, refused, slices,
                   toUpper, received>>

\* The filter thread takes a slice, and joins those of its flag when they are all.
RelieveFilterProcess ==
    /\ toRelieve # <<>>
    /\ LET head  == Last(toRelieve)
           parts == Append(slices[head.flag], head)
       IN  \/ /\ Complete(head, parts)
              /\ toUpper' = Push(toUpper, Joined(parts))
              /\ slices' = Erased(head.flag)
           \/ /\ ~ Complete(head, parts)
              /\ slices' = [slices EXCEPT ![head.flag] = parts]
              /\ UNCHANGED toUpper
    /\ toRelieve' = Pop(toRelieve)
    /\ UNCHANGED <<sendVars, received>>

\* The upper thread calls the user back.
RecvMessageToUpper ==
    /\ toUpper # <<>>
    /\ received' = Append(received, Last(toUpper))
    /\ toUpper' = Pop(toUpper)
    /\ UNCHANGED <<sendVars, toRelieve, slices>>

Threads ==
    \/ \E p \in Peer : FilterProcess(p) \/ SendSlice(p) \/ Process(p) \/ Arrive(p)
    \/ RelieveFilterProcess
    \/ RecvMessageToUpper

Next ==
    \/ \E p \in Peer : Close(p) \/ \E len \in Lengths : SendBody(p, len)
    \/ Threads

Spec == Init /\ [][Next]_vars

\* The threads run, and the class of the connection delivers.
FairSpec == Spec /\ WF_vars(Threads)
-----------------------------------------------------------------------------
\* Whether r is the body b and nothing else: its stretches, one after the other.
Whole(r, b) ==
    /\ \A i \in 1 .. Len(r) :
          /\ r[i].body = b
          /\ r[i].from = IF i = 1 THEN 0 ELSE r[i - 1].from + r[i - 1].len
    /\ r # <<>> /\ Last(r).from + Last(r).len = b.len

\* The body that was received as r; number 0 stands for none.
Meant(r) == IF Whole(r, r[1].body) THEN r[1].body ELSE [r[1].body EXCEPT !.no = 0]

Sent == UNION {Range(bodies[p]) : p \in Peer}

TypeOK ==
    /\ bodies \in [Peer -> Seq(Body)] /\ toFilter \in [Peer -> Seq(Body)]
    /\ curFlag \in [Peer -> Flag]
    /\ closed \subseteq Peer /\ refused \subseteq Body
    /\ \A s \in Range(toRelieve) \cup (UNION {Range(slices[f]) : f \in Flag})
                  \cup (UNION {Range(cutting[p] \o toProcess[p] \o net[p]) : p \in Peer}) :
          /\ s.flag \in Flag /\ s.count \in Flag /\ s.index \in 0 .. s.count - 1
          /\ s.piece \in Piece /\ s.piece.from + s.piece.len <= s.piece.body.len
    /\ \A r \in Range(toUpper \o received) : r \in Seq(Piece)

\* The filters implement Courier: every body arrives whole and once or is
\* stopped by Close, though the queues turn the order of its slices about, and
\* those of other bodies come between them. No mixture of bodies is received.
TheCourier == INSTANCE Courier WITH
    Parcel   <- Body,
    taken    <- Sent,
    given    <- [i \in 1 .. Len(received) |-> Meant(received[i])],
    returned <- refused

ImplementsCourier == TheCourier!Spec

\* Every body arrives at last, unless Close stopped it.
BodiesArrive ==
    \A p \in Peer, n \in 1 .. MaxBodies :
        Len(bodies[p]) >= n ~>
            /\ Len(bodies[p]) >= n
            /\ \/ bodies[p][n] \in refused
               \/ \E r \in Range(received) : Whole(r, bodies[p][n])

\* No slice is on its way to the map.
AtRest ==
    /\ \A p \in Peer : toFilter[p] = <<>> /\ cutting[p] = <<>> /\ toProcess[p] = <<>>
                       /\ net[p] = <<>>
    /\ toRelieve = <<>>

\* What stays in _slice_map when all is at rest belongs to bodies that Close
\* stopped half-way: it is never freed.
LeftBehind ==
    AtRest =>
        \A f \in Flag : \A s \in Range(slices[f]) : s.piece.body \in refused

\* A claim the filters do not keep. README.md:37 says of HTF_RELIABLE_ORDERLY that
\* it "looks like TCP to ensure reliability and sequentiality": bodies are
\* received in the order they were handed over.
InOrder ==
    \A i, j \in 1 .. Len(received) :
        i < j => LET b == received[i][1].body
                     c == received[j][1].body
                 IN  b.peer = c.peer => b.no < c.no
=============================================================================
