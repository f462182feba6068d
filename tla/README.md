# Hudp: a verification development

Hudp is a C++ library that gives ordered and reliable delivery over UDP. This
directory holds TLA+ models of its core, the TLC configurations that check
them and proofs that TLAPS checks. Every definition follows the source; the
`map` of `PROJECT.json` gives its lines.

## The system

A process has one instance of the library, and one socket object per remote
address. These threads run in it:

| thread | code | what it does |
| --- | --- | --- |
| receive | `hudp/RecvThread.cpp` | reads the UDP socket, calls `RecvMsgFromNet` |
| process | `hudp/ProcessThread.cpp` | takes messages from a queue, runs `SendMessage` or `RecvMessage` of the socket |
| timer | `common/Timer.cpp` | calls `TimerOut` of the messages that are due |
| pacing timer | `net/controller/Pacing.cpp` | a second timer, for paced sending |
| filter, upper | `hudp/FilterProcessWithThread.cpp`, `filter/UpperThreadFilter.cpp` | bodies to and from the user |
| user threads | | `SendTo` queues a message; `Close` changes the socket itself |

### Inventory

| component | state | operations | called by | what is hard | what makes it correct |
| --- | --- | --- | --- | --- | --- |
| send window `common/SendWnd.cpp` | messages in flight by id, `_start`, two counters, window size, parked messages | `PushBack`, `AcceptAck`, `ChangeSendWndSize` | process thread; `Close` on a user thread | state kept twice, wrap of ids, refilling | order kept, nothing forgotten before its ack, no message waits beside room |
| receive lists `common/OrderListImpl.cpp` | expected id, 256 slots, discard count | `Insert` in three forms | process thread | repeats, overtaking, wrap of ids, a cache that is reused | in order without gap, at most once, few acked messages lost before a break |
| socket status `net/SocketImpl.cpp` | eight states | `RecvMessage`, `SendFinMessage`, `CheckClose`, `TimerOut` | process, timer and user threads, no lock | two closes at once, late FIN and FIN_ACK, re-creation | the two ends agree, a close ends |
| socket map `net/SocketManager.cpp` | sockets by address | `GetSocket`, `DeleteSocket`, `CloseSocket` | all | a late packet re-creates a socket | |
| timer `common/Timer.cpp` | list of messages per millisecond | `AddTimer`, `RemoveTimer`, `Run` | all | a clock read without the lock, wake-up against sleep, removal during the wait | a timer is late only by what holds a thread up, lost only in two known ways, and else goes off |
| pended acks `common/PendAck.cpp` | ids with send times, a size | `AddAck`, `GetAck` | process and timer threads | flag and timer out of step, size limit | no ack stays without a timer, none is lost |
| priority queue `common/PriorityQueue.cpp` | four queues, credits | `PushBack`, `Pop` | send window | credits, classification | no class starves |
| thread queues `base/TaskQueue.h` | a list | `Push`, `Pop` | all | last in, first out | |
| flow queue, pacing `net/controller/` | two lists, paced messages, the next time | `Add`, `Get`, `Remove`, `SendMessage` | process and both timer threads | timer id shared with resending, a clock that stands still, one `Get` per `Add` | every message leaves unless pacing holds it, none is sent without bound |
| congestion control `net/controller/bbr/` | mode, filters, samples | `bbr_main` | process thread | units, what it is fed, uninitialised members | window and rate follow the path |
| RTO `common/Rto.cpp` | smoothed times | `SetRttTime`, `GetRto` | process thread | every round trip is 0 | the timeout should be near the round trip, and is a constant |
| slicing `filter/FlowSlicingFilter.cpp` | slices by flag | `FilterProcess`, `RelieveFilterProcess` | filter thread | order, refusal in mid-body, flags of several peers | bodies arrive whole, once |
| message, header `common/MsgImpl.cpp`, `MsgHead.cpp`, `BitStream.cpp`, `Serializes.cpp` | | coding | all | lengths, widths | coding and decoding agree |
| buffers, pools `base/` | | memory | all | wrap of the ring | |

The socket joins them: `SendMessage` puts a message in the window of its class,
the window calls back `ToSend`, which arms the timer, adds pended acks and
sends through the flow queue and pacing; `RecvMessage` gives the acks of a packet to the window, its message to
the receive list, which calls back `ToRecv`, and acts on FIN and FIN_ACK. Above
the sockets the filters cut bodies into slices for `SendTo` and join what
`ToRecv` gives them.

## Modules

### SendWnd

One window of an acked class. The map `_id_msg_map` is the function `msgAt`; an
unordered map has no first element, so `begin()` is any (`StartAfter`). The loop
of `SendNext` is one step per iteration, `pc` says that a handler is inside it.
`PushBack` parks a message when the window is full; the priority queue behind it
classifies by the internal flag, where a user message has one bit that reads as
LOW and a message the socket made has none: the first is queued in FIFO order,
the second is lost. History variables record the calls for the properties.

`AcceptAck` of an id that is not in the map changes nothing and is not a step.
The range forms of `AcceptAck` are loops over it.

`SendBuffer` is what the window promises, without ids, map or counters: one line
of messages sent in the order they were handed in, at most the limit unacked,
direct passage only when none waits, and refusal of a message the socket made
only when there is no room. `ImplementsBuffer` is the refinement, with
`numbered` for `sent`, `dropped` for `refused` and `wndSize` for `limit`; it
holds across the wrap of the ids, where the map has lost messages.

### RecvList

One receive list of any of the three kinds. A message is its position in the
peer's numbering, and its id follows from a first id, which is near the wrap in
one of the initial states. The network delivers copies in any order; only the
peer's window holds it back.
`TooFar`, `Past` and `Repeated` are the guards of `Insert`, and `Answer` and
`Discard` what `AddToRecvList` does with its result.

A message that is discarded is acked like one that is kept, and so is one that
comes after a later one made the list and only lies in its slot: their sender
forgets them though they are never delivered. This is short of the reliability
that `README.md:36-37` of the repository claims, and `FewAreLost` says how far:
until the list reports a break (`Breaking`), fewer messages are lost by being
discarded than the discards that break, and those before the first that made the
list fit into the peer's window.

### Connection

Both ends of a connection and the network between them, a bag of packets that
may be reordered, lost and repeated. A socket is a record: its status, whether
it has a send window, the messages whose resend timer is set, the acks it holds
back, the messages it has got, whether the timer of its 2MSL close is set, and
how often it was made. `Close` runs on a
user thread without a lock, so `SendFinMessage` is three steps (check the
status, read it again, change it and send) and `CheckClose` on a FIN in
SS_READY is three more after the FIN_ACK. `StatusChange` is the table of changes
the code lets through. Windows have room here and ids do not come up again:
`SendWnd` and `RecvList` show what happens otherwise. An ack that finds no
window is a crash (`RecvCrash`).

`TimerOut` asks the user before it resends, and asks for the message of the 2MSL
close too, which is no resend. `Resend` and `Close2Msl` are its steps when the
user lets them be; `Drop` and `Drop2Msl` when he refuses, or when the timer was
erased with a neighbour of its millisecond (`common/Timer.cpp:39`). `TimerOut`
returns then before it releases the socket, and sets no timer again, so that the
socket stays in SS_TIME_WAIT for ever.

The process thread's queue is last in, first out and user threads and the
network fill it at any time, so between two ends packets are taken in any order;
a bag is all that is left of it.

### Timer

The timer thread against the threads that set and remove timers. `AddTimer` has
three steps, as the source has: it reads the clock without the lock (`AddTimer`),
puts the message in under it (`Insert`), and compares with `_wait_time` after it
(`WakeUp`). `Look` is `Run` from the top of its loop to the wait, and keeps the
lock (`held`) up to `Wait`; `Wake` is the end of the wait, `TimerOut` one call
back. The clock may advance between any two of these. `RemoveTimer` erases the
entry of the message's millisecond; when the thread waits with a pointer to it,
what `Wake` finds there is any of a crash, an empty list and a list that took
its place. The condition variable is taken not to wake without cause, which would
only bring the thread back to `Look`; the clock object that `Run` and `AddTimer`
set without a common lock gives `Run` at worst a wait of 0, which is a `Look` more.

Because a timer is set with an old clock, or a wait begins late, the thread does
sleep past timers. `LateByHoldUps` bounds this by how long a thread was held up
between reading the clock and using it. Each timer has a `fate`, so that what
becomes of it is told apart: `RemoveTimer` of a neighbour erased it, or `Run` did
through its pointer to an entry that was erased. `NoneMislaid` says that nothing
else loses one.

### Outbound and PendAck

A socket's way to the network, below the send window: pended acks, flow queue,
pacing and the timers, on the process thread, the timer thread and the thread of
the pacing timer, which share them without a lock of the socket. A thread's step
is one locked call or one test: `at` is what it does next, `on` the message it
handles, `got` the one it took from the flow queue, which may be another's.
`ToSend` is split after the timer is set (`Attach` is the rest), `AddPendAck`
before the flag is raised (`AddAck`, `ArmTimer`, `RaiseFlag`), `TimerOut` of acks
after the flag is lowered (`AckTimerOut`, `SendAcks`), `SendPacingMsg` between
Add, `Get` and `Pace`. `Enqueue` joins `AddAckToMsg` and `Add`.

What the code does that the properties must allow, each visible in the module:

- A quick resend calls `ToSend` again for a message in flight (`QuickResend`).
  That sets a second timer and overwrites the message's timer id; the first one
  is `loose`: `AckDone` does not find it, and the message is resent although
  acked. Pacing overwrites the id in the same way. `SendsBounded` says what this
  costs: two sendings at most for each call of `ToSend`.
- `RemoveTimer` erases all of a millisecond (`EraseList`): resend timers of other
  messages and the ack timer too, and it is called for the other sockets of the
  process as well (`AckDoneElsewhere`), which share the timer.
- The clock that pacing reads stands still: `GetCurTimeStamp`
  (`common/CommonFunc.cpp:28-31`) keeps a static `CTimeTool`, which reads the time
  when it is made and never again (`base/TimeTool.cpp:91-94`). So once the next
  time is past now (`hot`) it stays so. Every message with a body is then put in
  the pacing timer and, when that goes off, put in again, and never leaves; a FIN,
  without a body, does.
- Pacing hands its timer the absolute next time where a delay is expected, so
  that timer may go off at any time.
- A resent message drops the acks it carried (`wiped`), and so does a refusal
  by the user's callback.
- When the ack timer goes off before its flag is raised, or is erased with a
  neighbour, the flag stays up with no timer (`StuckFlag`).
- `_cur_size` counts repeats twice and loses the size of an ack that did not fit;
  `PendAck` has this arithmetic.

The bytes of `_in_flight` are not modelled. A message adds the size it has when it
is sent and takes off the one it has when it is acked, which the acks it carries
have changed in between, so that nothing bounds the sum; only the controller
reads it, and `Controller` takes any value of it.

One class of acks is modelled, so that `AddAckToMsg` is one `GetAck`. A message
of the two acked classes behaves alike here; `plain` stands for the unacked.

### Filters and Courier

A body's way from user to user: the filter thread's queue, slicing, `SendTo`, the
process thread's queue, the network, the receiver's filter queue, the collected
slices and the queue to the upper thread. Each queue gives back its newest
element first. The ordered class between the two ends delivers each packet once
and in order, as `SendWnd` and `RecvList` show within one turn of their ids.
`Close` makes `SendTo` refuse; nobody above hears of it.

`Courier` is what the chain promises: each body handed over is given once and
whole, in any order, or returned because of a close. `ImplementsCourier` maps
what the user receives to a body only when its stretches are those of that body
in order, so a mixture of bodies is no step of `Courier`.

All peers' slices share one map keyed by a flag that every sender counts from 1,
so with two peers (`TwoPeers`) `ImplementsCourier` does not hold: the passing
run has one peer. `in_order` shows what the queues do to the order of bodies.
A body of 2^16 bytes or more is announced to the user with its length cut to 16
bits, which is not modelled; nor is a socket that is released and made anew.

### Bbr and Controller

`Bbr` is the class `CBbr` as operators on its control block, one per method, on
words scaled from 2^32 to `Word`. `Controller` is what governs it: acks come in
and resends are counted. The clock is the one that stands still, a constant
`Now`: the time of sending that a peer echoes is this process's own stamp, so
every `GetRtt` is 0. Three things in the socket starve the controller besides:
`ControllerProcess` hands over window 0 exactly where there is a window (the
test is inverted), the size acked is assigned to a variable of the same name
inside the loop and so is 0, and a round begins only above a count of 1000 that
nothing raises. With a round trip of 0 `bbr_update_bw` returns at once, and the
long-term sampling is never reached. `bbr_init` leaves several members
uninitialised; they are any of `Garbage` at first. Also, `CMsgImpl::GetAck` gives
the orderly acks twice when a message carries both classes (`AcksRead`).

The properties say what comes of it. A window follows the last message's acks
alone (`WindowForgets`). No member of the block ever changes, and the pacing rate
is what the memory held, or what the long-term bandwidth in it makes
(`LearnsNothing`). The timeout goes from 150 to 60 ms at the first ack and stays
there, however long the path is (`TimeoutIsBlind`).

## Runs

| run | bounds | shows |
| --- | --- | --- |
| `send_window` | 3 user messages and a FIN, 4 ids, windows 1, 2, 3, quick limit 2 | all invariants of the window; parked messages are sent; the window implements `SendBuffer` |
| `recv_list` | 5 messages, 2 copies each, 8 slots, 16 ids, compare distance 2, a break at 3 discards | what the lists deliver, what they ack and lose, across the wrap |
| `connection` | both ends close, one data message, 2 resends, 1 drop, 1 fault | no end is ahead of what the other told it |
| `connection_live` | one end closes, one data message, 3 resends, 1 drop, 1 fault | the close ends, if the user refuses nothing and no timer is erased with another |
| `timer` | 2 messages, delays 1 and 2, empty wait 1, expiries to 3 ms, 2 timers at a time | the thread is late by hold-ups only; timers are lost in two ways only; the others go off |
| `outbound` | 2 messages, 2 ack ids, 3 calls of `ToSend` and arrivals together, room for 1 ack, limit 2 | acks are watched, kept and counted as said; sendings are bounded; every message leaves unless pacing holds it |
| `filters` | 1 peer, 2 bodies of 1 to 3 slices | bodies arrive whole and once, or Close stopped them |
| `controller` | 3 messages with 1 or 5 acks per class, 1 resend, words of 6 bits | what window, rate and timeout become |
| `fin_dropped` | as `send_window` | a FIN that finds the window full is lost |
| `stale_slot` | more messages than slots | a message left in its slot is delivered a turn of the cache later, in place of another |
| `close_race` | both ends close, no fault | a FIN is spent and the socket stays in SS_FIN_WAIT_1 |
| `in_order` | 2 bodies of one slice | the second body overtakes the first |

The last four expect a violation of what a comment or the documentation says;
`findings` in `PROJECT.json` quotes it.

Why the bounds are enough. The window needs a message in flight, one parked and
one more to be overtaken, and a control message; with 4 messages it fills, closes
below what is in flight (size 1) and opens. The lists need messages on both
sides of a gap, a copy of each, a slot shared by two ids (`stale_slot`) and ids
on both sides of the wrap; 256 slots, 2^16 ids and a distance of 100 are scaled
to 8, 16 and 2, keeping that the distance is less than the slots and the slots
divide the ids. The trace of `stale_slot` has no repeat in it: message 2 makes the
list, message 1 comes late and stays in its slot, and after 4 the list delivers
it in the place of 5, which has the same slot. The connection needs each end to
close and to answer, a late copy, a lost packet and a refusal. The timer needs a
second, earlier timer during a wait, two in one millisecond, and a clock that
moves between reading and inserting.
The way out needs two messages that one thread each handles at the same time,
one paced and one resent, a message handed over twice, and acks beyond the
limit: in the code 43 acks are the
limit and a message without a body takes 42, here 2 and 1, with the same
remainders. Slicing needs a full and a short last slice and slices of two bodies
between each other. The controller needs a message after another one (what is
remembered), and counts on both sides of 4; gains and units are scaled with their
ratios.

Fairness. `send_window`: the process thread finishes its handler, and acks of
what is in flight keep arriving (strong, as a handler may be inside when one
comes). `connection_live`: both ends' threads and timers go on and packets that
are not lost arrive. `timer`: the clock, the timer thread and a thread inside `AddTimer`
go on. `outbound`: each of the three threads goes on, and its timers go off; the
clock does not.
`filters`: the threads go on together.
Nobody is assumed to send, to close or to remove a timer.

`CHECK_DEADLOCK FALSE` stands where bounded inputs run out: a system nobody
sends anything through rests.

What the connection runs do not hide: `FirstConnection` in `PeerFollows` and
`CloseCompletes` excludes connections re-opened by a late packet, which have no
such guarantee (two re-created ends can answer each other's FINs for ever);
`CloseCompletes` excuses a close where the user refused a resend or the 2MSL
close, or a timer was erased with another (`Drop`, `Drop2Msl`). Nothing else is
excused: the 3 resends of its run are never used up. It holds because the run
loses one packet at most. `TimerOut` does not set the timer again, so a FIN that
is lost together with its one resend leaves SS_FIN_WAIT_1 for good.
`AcksAreWatched` and `SizeCovers` exclude by name the states where the code gives
up what they say.

## Proofs

`SendWndProofs` proves eight theorems of `SendWnd` for any number of messages
and ids, any window sizes and any quick limit, from `SendWndAssumption` alone:
`TypeCorrect`, `WorkIsConserved`, `OrderIsKept`, `SizeIsInFlight`,
`InFlightXorAcked`, `ResendsAreBounded`, `StartIsInWindow` and `WindowIsBuffer`.

`WindowIsBuffer` shows that each step of the window is one of `SendBuffer` or
none. Its room is the window's because `curSize` is, at every step, the numbered
messages less the acked ones (`SizeInv`); a direct passage finds the line empty
by `WorkConserving`, and `SendNext` sends the right message by `OrderKept`.

Of the others, none from `SizeIsInFlight` on is inductive. The invariants that
strengthen them say where a message is: it is accepted once and flies under one
id;
what is in flight has been numbered; no acked message is in flight; and the ids
in use are, until an id comes up again, those of the last `Len(numbered)`
numbers counted back from `lastId`, so that the next id is free. From these
`curSize` follows the cardinality of the map (one element added or removed per
step), `start` stays in the map, and each ack adds one to `acked`, which pays
for the quick resends. Each proof has one step per action and combines them
with PTL.

`TimerProofs` proves all three of `Timer`, for any messages, delays and waits and
however the clock moves.

- `TypeCorrect` adds to the types that there is a batch exactly while it is called
  back, and that a call about to insert has its expiry.
- `LateOnlyByHoldUps`, by `Awake`: no call has its expiry from the future, a wait
  is as long as it was computed, and it was computed with every timer of the map.
  A timer inserted during the wait is then sooner than the wait and wakes the
  thread, or late by the hold-up of its own call at the most (`InsertedInTime`).
- `TimersAreKept`, by `Kept`: what is taken out of the map is in the batch at once,
  and what is erased is marked.

`OutboundProofs` proves six of `Outbound`, for any number of messages, acks and
room. It assumes that the limit of the pended acks and one ack more fit into the
integer that counts them (`common/PendAck.cpp:9` keeps the limit below an mtu).

- `TypeCorrect`: the types need what a thread has in its hands at each step
  (`HandTypes`), and that messages are handed over in order.
- `NoneIsStranded`, by `Balanced`: no more is queued than there are Gets to come.
  Each Add is followed by a Get of its thread, and a Get empties a place if it
  finds one taken.
- `SendsAreBounded`, by `Bounded`: a call of `ToSend` puts a copy of the message in
  the hands of the process thread and one in a timer, if it has one. The copies
  sent, waiting in timers (`Waiting`), queued (`InQueue`) and in threads' hands
  (`InHands`) are no more than the calls allow for, as each step moves a copy on or
  takes it away, and none makes one.
- `AcksWatched` is inductive, given the types.
- `AcksKept`, by `Kept`: an ack that is due is pended, or in a message that was
  acked or is on its way, in a queue, in a thread's hands or sent.
- `SizeIsCovered`, by `SizeInv`: between two AddAcks the size stays below the
  limit, hence below its wrap; over the limit, there is an ack to take.

`ConnectionProofs` proves four of `Connection`, for any amount of data, Closes,
resends, refusals, losses and repeats, for two ends.

- `TypeCorrect`: numbered packets, resend timers and what a socket has got all go
  back to messages their sender has sent.
- `FinWasGotBefore`, `HalfClosedKnows` and `PeerIsFollowing`, by `Fine`. None of
  the three is inductive, as each needs what is under way: a FIN in the network
  is one of its sender's, and an end that a FIN_ACK goes to is `Followed`, which
  is that a FIN of it was heard, and that its peer has lived and, in its first
  life, is gone or has got a FIN. A process thread between its two looks at the
  status has got a FIN too. `AllOnward` keeps `Followed`: a socket comes back
  only in another life, and loses nothing it has got while it lives.

`RecvListProofs` proves all seven of `RecvList`, for any number of messages,
copies and slots, any distance and any id space that the slots divide.

- `TypeCorrect`, and `NextIsNeverHeld` (`NextSlotFree`: the slot of the next id is
  free), hold whatever the network repeats or delays: also after what is left in its
  slots has led the list astray.
- `NoGap` and `FewLosses` are about one turn of the cache (`LastMsg < CacheSize`):
  then each slot holds the message of its id (`SlotsKept`), and `_expect_id` is the
  id of the first message not passed up (`NextIsExpected`). With `CacheSize`
  messages, the slot expected after the last one is that of message 1, which may
  still lie in it: `stale_slot`.
- `FewLosses` rests on `LossInv`: no more acked messages are lost than were
  discarded, and fewer than the discards that break. A discard adds one to each
  (`LossByDiscard`), a message that is held until its turn is not lost
  (`LossByHolding`), and when a run is passed up what it leaves stays held
  (`LossByRun`).
- `WrapIsCrossed` is about a stream that comes in order (`Straight`), over any
  number of turns.
- `OnceEach` needs that the list remembers what it has passed up (`Remembers`),
  for as long as no id comes up again.
- `NeverBack`, by `LastIsLatest`: the expected id is the successor of the latest
  message, so that what the comparison lets through is later, as long as the ids
  of all messages and a window more are different.

`FiltersProofs` proves three of `Filters`, for any bodies that are cut into fewer
slices than a count of 16 bits tells (`Short`; a body of 25 MB has more).

- `TypeCorrect`, for any number of peers. It needs that a slice is a slice of its
  body (`Packet`), and that a body is its slices in order (`SlicesAre`).
- `FiltersAreACourier` and `StoppedIsLeftBehind`, for one peer that sends fewer
  bodies than there are flags (`Alone`, `Few`), since all peers share a map of
  the same flags and the flags come round. Both rest on `FilterInv`. Each slice is
  in one place and once, though every queue turns the order about (`EachOnce`).
  What a flag collects is of one body and not yet all of it (`ByFlag`, `OneFlag`).
  A body waits, moves, has been joined or was stopped (`BodiesApart`): one that
  moves has all its slices on the way (`AllThere`), one that was stopped lacks one
  for ever (`Stopped`), so that a count is reached only by a body that is whole.
  Then, as many slices as the body has, none twice, are all of them
  (`AllPresent`), the k-th by index is the k-th of the body, and joined they are
  the body (`JoinsWhole`). `Sorted` says by `Rank` what sorting does, since the
  sort of the standard modules has no definition a prover can use.

`ControllerProofs` proves all four of `Controller`, for any word, units, window
limit and contents of memory, any counts of acks and any stamp of the clock.

- All rest on `Sleeping`: the set of blocks whose members, but for the memory's,
  the window and the rate, are what `bbr_init` makes them. Every method that
  `bbr_main` calls, given a round trip of 0 and 0 as what was acked, leaves a block
  of it as it is but for the window and the rate (`MainIs`): no round begins, no
  mode changes, nothing is sampled (`ModelRests`). So the block is always the one
  that was constructed (`Calm`), which is `NothingIsLearnt`.
- `WindowsForget`: the target is that of an empty path, but not 0 (`TargetIs`), and
  the window, handed over as 0, grows by what was acked (`CwndIs`).
- `TimeoutStaysBlind`: a round trip of 0 makes the state before the first ack and
  the one after it both into the latter (`TimeIs`).
- `TypeCorrect` follows from what the block was when constructed.
- `Repeated` says that what one ack preserves any number of them does:
  `SetRttTimes` is a recursive function, and the sets that the induction of
  `AllNumbers` runs over are sets of numbers.

`FiniteLemmas` holds what these proofs use of minima, of finite sets of numbers,
of induction over numbers and of remainders.

Only model-checked are the liveness properties (`ParkedIsSent`, `CloseCompletes`,
`TimersGoOff`, `MessagesLeave`, `BodiesArrive`), as no prover here handles
fairness, and the four runs that expect a violation.

## Not modelled

See `components` in `PROJECT.json`. In short:

- Coding of headers and bodies: the models pass decoded messages.
- Buffers, pools, the network and the log: memory and system calls beneath them.
- The credits of the priority queue: the classification gives every message the
  same class, so that they never decide.
- Compression, a library's; the chain without a thread.
- The window of the HTF_ORDERLY class, which never counts, parks or forgets a
  message.
- Two threads inside one send window, or one receive list.
- The two classes of pended acks side by side, and the room of the second one.
- The bytes counted in `_in_flight`.

Facts met on the way that have no property of their own: an orderly stream stops
where its ids wrap (`Past` in `RecvList`); an ack that reaches a socket without a
window dereferences a null pointer (`Crashes` in `Connection`); a user who refuses
the 2MSL message keeps the socket for ever (`Drop2Msl`); a message that is lost
with its one resend is never sent again. The send window's `_start` is called the
start of the list (`common/SendWnd.h:51`), but is any message in flight. The clock
that `GetCurTimeStamp` gives is read once: pacing and the controller are modelled
with it as it is.

## What could come next

1. `Channel`: `SendWnd`, network, `RecvList` and acks composed, refining an
   abstract channel that delivers a prefix of what was sent but for what
   `FewAreLost` allows; two classes, whose acks `AcksRead` mixes.
2. `Close` on its own thread inside `SendWnd`: `PushBack` takes no lock, so its steps
   and those of `AcceptAck` may be between each other.
3. Pure parts as operators: header coding, ring buffer, ack ranges, credits,
   each against a reference definition.
