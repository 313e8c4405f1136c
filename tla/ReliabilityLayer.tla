-------------------------- MODULE ReliabilityLayer --------------------------
(***************************************************************************)
(* The reliability layer of RakNet (ReliabilityLayer.cpp) at both ends of   *)
(* a connection, and the datagrams between them, which may be lost, late    *)
(* and out of order.                                                        *)
(*                                                                          *)
(* A peer sends a given list of messages over ordering channel 0, the only  *)
(* one this program uses. Every message fills one place of FrameSize in a   *)
(* frame; an acknowledgement, of 17 bits, takes none. Split and sequenced   *)
(* packets are left out: the program's messages are neither.                *)
(*                                                                          *)
(* Times are kept as ages in ticks, which stop growing where nothing more   *)
(* depends on them, so the clock needs no bound; `uptime` is the value of   *)
(* RakNet::GetTime(), which counts from the start of the process.           *)
(***************************************************************************)
EXTENDS Integers, SequencesExt

CONSTANTS
  Peer,                   \* the two ends of the connection
  Messages,               \* Messages[p]: what p sends, first to last
  PacketNumberRange,      \* 2^16, the range of PacketNumberType
  OrderingIndexRange,     \* 2^8, the range of OrderingIndexType
  FrameSize,              \* how many messages fit into a frame (MTUSize)
  MINIMUM_WINDOW_SIZE, MAXIMUM_WINDOW_SIZE,
  TIMEOUT_TIME, LostPacketResendDelay,
  FrameLife,              \* how many ticks a datagram can be on its way
  StartTime               \* RakNet::GetTime() when the connection is made

RELIABLE == "reliable"
RELIABLE_ORDERED == "ordered"
UNRELIABLE == "unreliable"
HIGH_PRIORITY == 1
MEDIUM_PRIORITY == 2

ASSUME LayerConstants ==
  /\ {PacketNumberRange, OrderingIndexRange} \subseteq Nat \ {0, 1}
  /\ {FrameSize, MINIMUM_WINDOW_SIZE, LostPacketResendDelay} \subseteq Nat \ {0}
  /\ {FrameLife, TIMEOUT_TIME, StartTime} \subseteq Nat
  /\ MAXIMUM_WINDOW_SIZE \in Nat /\ MINIMUM_WINDOW_SIZE <= MAXIMUM_WINDOW_SIZE

ASSUME TwoEnds == \E p, q \in Peer : p # q /\ Peer = {p, q}

ASSUME MessagesAssumption ==
  Messages \in [Peer -> Seq([reliability : {RELIABLE, RELIABLE_ORDERED, UNRELIABLE},
                             priority : {HIGH_PRIORITY, MEDIUM_PRIORITY}])]

VARIABLES
  layer,       \* per peer, the ReliabilityLayer object
  sentCount,   \* per peer, how many of Messages[p] were given to Send
  network,     \* the frames on their way
  uptime,      \* RakNet::GetTime(), up to TIMEOUT_TIME
  updated      \* the peers whose Update has run in this tick

vars == <<layer, sentCount, network, uptime, updated>>

Other(p) == CHOOSE q \in Peer : q # p

NoAck == -1   \* lastAckTime = 0
Hole == [hole |-> TRUE]

\* The members of S that are in a sequence, in its order.
Selected(s, S) ==
  LET selected[n \in 0 .. Len(s)] ==
        IF n = 0 THEN <<>>
        ELSE IF s[n] \in S THEN Append(selected[n - 1], s[n]) ELSE selected[n - 1]
  IN  selected[Len(s)]

IsReliable(packet) == packet.reliability # UNRELIABLE
Ordered(p, i) == Messages[p][i].reliability = RELIABLE_ORDERED

-----------------------------------------------------------------------------
(* Sending *)

InitLayer ==
  [packetNumber |-> 0, orderedWriteIndex |-> 0, orderedReadIndex |-> 0,
   sendPacketSet |-> [priority \in {HIGH_PRIORITY, MEDIUM_PRIORITY} |-> <<>>],
   resendQueue |-> <<>>, lastAck |-> NoAck, deadConnection |-> FALSE,
   windowSize |-> MINIMUM_WINDOW_SIZE, lossyWindowSize |-> MAXIMUM_WINDOW_SIZE + 1,
   lastIncrease |-> 2 * LostPacketResendDelay + 1,
   receivedPackets |-> <<>>, receivedPacketsBaseIndex |-> 0,
   acknowledgementQueue |-> <<>>, orderingList |-> <<>>, outputQueue |-> <<>>]

\* Send: the packet gets its number and, if ordered, its place in the order before
\* it waits in the queue of its priority.
Sent(l, p, i) ==
  LET message == Messages[p][i]
      ordered == message.reliability = RELIABLE_ORDERED
      packet == [number |-> l.packetNumber, reliability |-> message.reliability,
                 index |-> IF ordered THEN l.orderedWriteIndex ELSE 0, message |-> i]
  IN  [l EXCEPT !.packetNumber = (@ + 1) % PacketNumberRange,
                !.orderedWriteIndex = IF ordered THEN (@ + 1) % OrderingIndexRange ELSE @,
                !.sendPacketSet[message.priority] = Append(@, packet)]

\* The queue's length counts its holes.
IsSendThrottled(l) == Len(l.resendQueue) >= l.windowSize

Due(entry) == entry # Hole /\ entry.age > LostPacketResendDelay

IsFrameReady(l) ==
  \/ ~IsSendThrottled(l)
  \/ Len(l.acknowledgementQueue) >= MINIMUM_WINDOW_SIZE
  \/ l.resendQueue # <<>> /\ Due(Head(l.resendQueue))

\* A frame with resent packets narrows the window by one.
UpdatePacketloss(l) ==
  LET size == Max({l.windowSize - 1, MINIMUM_WINDOW_SIZE})
  IN  [l EXCEPT !.windowSize = size, !.lossyWindowSize = size, !.lastIncrease = 0]

\* Mutant: every packet that is sent again starts the timer of the connection anew.
ResentResetsTimer(l) ==
  LET queue == l.resendQueue
      again == SelectSeq(queue, LAMBDA e : e # Hole /\ Due(e))
      rest == SelectSeq(queue, LAMBDA e : e # Hole /\ ~Due(e))
  IN  [layer |-> [l EXCEPT
         !.resendQueue = rest \o [k \in DOMAIN again |-> [again[k] EXCEPT !.age = 0]],
         !.lastAck = IF again # <<>> THEN 0 ELSE @],
       packets |-> [k \in DOMAIN again |-> again[k].packet],
       full |-> FALSE]

\* What is due at the head of the resend queue, as far as the frame has room, goes
\* out again and to the tail; the holes before and between it go for good.
Resent(l) ==
  LET queue == l.resendQueue
      stops == { k \in DOMAIN queue :
                   /\ queue[k] # Hole
                   /\ \/ ~Due(queue[k])
                      \/ Cardinality({ j \in 1 .. k - 1 : Due(queue[j]) }) >= FrameSize }
      stop == IF stops = {} THEN Len(queue) + 1 ELSE Min(stops)
      again == Selected(SubSeq(queue, 1, stop - 1), ToSet(queue) \ {Hole})
      rest == SubSeq(queue, stop, Len(queue))
      restarted == [k \in DOMAIN again |-> [again[k] EXCEPT !.age = 0]]
      l1 == [l EXCEPT !.resendQueue = rest \o restarted,
                      !.lastAck = IF again # <<>> /\ @ = NoAck THEN 0 ELSE @]
  IN  [layer |-> IF again = <<>> THEN l1 ELSE UpdatePacketloss(l1),
       packets |-> [k \in DOMAIN again |-> again[k].packet],
       full |-> stops # {} /\ Due(queue[stop])]

\* New packets, by priority, as far as the frame has room beside what is resent.
FirstSent(l, room) ==
  LET waiting == l.sendPacketSet[HIGH_PRIORITY] \o l.sendPacketSet[MEDIUM_PRIORITY]
      new == SubSeq(waiting, 1, Min({room, Len(waiting)}))
      high == Len(l.sendPacketSet[HIGH_PRIORITY])
      reliable == Selected(new, { packet \in ToSet(new) : IsReliable(packet) })
  IN  [layer |-> [l EXCEPT
         !.sendPacketSet = [priority \in DOMAIN @ |->
            IF priority = HIGH_PRIORITY THEN SubSeq(@[priority], room + 1, high)
            ELSE SubSeq(@[priority], Max({room - high, 0}) + 1, Len(@[priority]))],
         !.resendQueue = @ \o [k \in DOMAIN reliable |->
            [packet |-> reliable[k], age |-> 0, outstanding |-> 0]],
         !.lastAck = IF reliable # <<>> THEN 0 ELSE @],
       packets |-> new]

\* GenerateFrame: acknowledgements that are due or many enough, then what is due
\* again, then, unless the window is shut, new packets; acknowledgements that can
\* wait ride along with new packets.
GenerateFrame(l) ==
  LET pending == l.acknowledgementQueue
      flush == /\ pending # <<>>
               /\ \/ Len(pending) >= MINIMUM_WINDOW_SIZE
                  \/ Head(pending).age > LostPacketResendDelay \div 4
      r == Resent(l)
      shut == r.full \/ IsSendThrottled(r.layer)
      s == IF shut THEN [layer |-> r.layer, packets |-> <<>>]
           ELSE FirstSent(r.layer, FrameSize - Len(r.packets))
      packets == r.packets \o s.packets
      acks == flush \/ (~shut /\ packets # <<>>)
  IN  [layer |-> IF acks THEN [s.layer EXCEPT !.acknowledgementQueue = <<>>] ELSE s.layer,
       packets |-> packets,
       acks |-> IF acks THEN [k \in DOMAIN pending |-> pending[k].number] ELSE <<>>]

\* One more turn of Update's loop, while a frame is ready and not empty.
NextFrame(p, acc) ==
  LET g == GenerateFrame(acc.layer)
  IN  IF ~IsFrameReady(acc.layer) THEN acc
      ELSE [layer |-> g.layer,
            frames |-> IF g.packets = <<>> /\ g.acks = <<>> THEN acc.frames
                       ELSE acc.frames \cup
                              {[to |-> Other(p), packets |-> g.packets, acks |-> g.acks,
                                life |-> FrameLife]}]

\* The frames of one Update: each but the last, empty one takes something away.
Frames(p) ==
  LET l == layer[p]
      turns == 1 + Len(l.resendQueue) + Len(l.acknowledgementQueue)
               + Len(l.sendPacketSet[HIGH_PRIORITY]) + Len(l.sendPacketSet[MEDIUM_PRIORITY])
      after[n \in 0 .. turns] ==
        IF n = 0 THEN [layer |-> l, frames |-> {}] ELSE NextFrame(p, after[n - 1])
  IN  after[turns]

-----------------------------------------------------------------------------
(* Receiving *)

\* An acknowledged packet leaves the resend queue: the first one is popped, a later
\* one becomes a hole.
Acknowledged(l, number) ==
  LET queue == l.resendQueue
      acked == { k \in DOMAIN queue : queue[k] # Hole /\ queue[k].packet.number = number }
      timed == [l EXCEPT !.lastAck = IF queue = <<>> THEN NoAck ELSE 0]
  IN  IF acked = {} THEN timed
      ELSE IF Min(acked) = 1 THEN [timed EXCEPT !.resendQueue = Tail(queue)]
      ELSE [timed EXCEPT !.resendQueue[Min(acked)] = Hole]

\* Below TIMEOUT_TIME the subtraction currentTime - TIMEOUT_TIME wraps, and every
\* time counts as expired.
IsExpiredTime(entry) == uptime < TIMEOUT_TIME \/ entry.age > TIMEOUT_TIME

\* The log of received packets without the expired entries at its head.
Expired(l) ==
  LET received == l.receivedPackets
      kept == { k \in DOMAIN received : ~IsExpiredTime(received[k]) }
      gone == IF kept = {} THEN Len(received) ELSE Min(kept) - 1
  IN  [l EXCEPT !.receivedPackets = SubSeq(received, gone + 1, Len(received)),
                !.receivedPacketsBaseIndex = (@ + gone) % PacketNumberRange]

\* How far the packet is ahead of the first one that the log does not know yet.
HoleCount(l, packet) ==
  (packet.number - l.receivedPacketsBaseIndex) % PacketNumberRange

\* A packet that the log says has come before, or that the log has moved past.
IsDuplicate(l, packet) ==
  LET holeCount == HoleCount(l, packet)
  IN  \/ holeCount > PacketNumberRange \div 2
      \/ /\ holeCount # 0
         /\ holeCount < Len(l.receivedPackets)
         /\ ~l.receivedPackets[holeCount + 1].hole

\* Mutant: the packets that were skipped are logged as received.
LoggedWithoutHoles(l, packet) ==
  LET received == l.receivedPackets
      holeCount == HoleCount(l, packet)
      now == [age |-> 0, hole |-> FALSE]
  IN  IF holeCount = 0
      THEN [l EXCEPT !.receivedPackets = IF @ = <<>> THEN @ ELSE Tail(@),
                     !.receivedPacketsBaseIndex = (@ + 1) % PacketNumberRange]
      ELSE IF holeCount < Len(received)
      THEN [l EXCEPT !.receivedPackets[holeCount + 1] = now]
      ELSE [l EXCEPT !.receivedPackets =
              @ \o [k \in 1 .. holeCount + 1 - Len(received) |-> now]]

\* The log with the packet in it.
Logged(l, packet) ==
  LET received == l.receivedPackets
      holeCount == HoleCount(l, packet)
      holes == [k \in 1 .. holeCount - Len(received) |-> [age |-> 0, hole |-> TRUE]]
      now == [age |-> 0, hole |-> FALSE]
  IN  IF holeCount = 0
      THEN [l EXCEPT !.receivedPackets = IF @ = <<>> THEN @ ELSE Tail(@),
                     !.receivedPacketsBaseIndex = (@ + 1) % PacketNumberRange]
      ELSE IF holeCount < Len(received)
      THEN [l EXCEPT !.receivedPackets[holeCount + 1] = now]
      ELSE [l EXCEPT !.receivedPackets = Append(@ \o holes, now)]

\* One pass over the ordering list: what is next in order goes out, the rest stays.
Released(l, packet) ==
  IF packet.index = l.orderedReadIndex
  THEN [l EXCEPT !.outputQueue = Append(@, packet.message),
                 !.orderedReadIndex = (@ + 1) % OrderingIndexRange]
  ELSE [l EXCEPT !.orderingList = Append(@, packet)]

Pass(l) ==
  LET after[n \in 0 .. Len(l.orderingList)] ==
        IF n = 0 THEN [l EXCEPT !.orderingList = <<>>]
        ELSE Released(after[n - 1], l.orderingList[n])
  IN  after[Len(l.orderingList)]

\* Passes are made until one finds nothing.
Drained(l) ==
  LET pass[n \in 0 .. Len(l.orderingList)] == IF n = 0 THEN l ELSE Pass(pass[n - 1])
  IN  pass[Len(l.orderingList)]

\* Mutant: whatever is not older than what is waited for goes out at once, as if it
\* were sequenced.
AcceptedIfNewer(l, packet) ==
  IF packet.reliability # RELIABLE_ORDERED
  THEN [l EXCEPT !.outputQueue = Append(@, packet.message)]
  ELSE IF packet.index < l.orderedReadIndex THEN l
  ELSE [l EXCEPT !.outputQueue = Append(@, packet.message),
                 !.orderedReadIndex = (packet.index + 1) % OrderingIndexRange]

\* The packet is handed to the user or, out of order, waits in the ordering list,
\* whether its index is newer or older than the one that is waited for.
Accepted(l, packet) ==
  IF packet.reliability # RELIABLE_ORDERED
  THEN [l EXCEPT !.outputQueue = Append(@, packet.message)]
  ELSE IF packet.index # l.orderedReadIndex
  THEN [l EXCEPT !.orderingList = Append(@, packet)]
  ELSE Drained([l EXCEPT !.outputQueue = Append(@, packet.message),
                         !.orderedReadIndex = (@ + 1) % OrderingIndexRange])

\* A reliable packet is acknowledged also when it is a duplicate.
Received(l, packet) ==
  LET acked == IF IsReliable(packet)
               THEN [l EXCEPT !.acknowledgementQueue =
                       Append(@, [number |-> packet.number, age |-> 0])]
               ELSE l
  IN  IF IsDuplicate(l, packet) THEN acked
      ELSE Accepted(Expired(Logged(acked, packet)), packet)

\* A frame with as many acknowledgements as the window is wide widens it.
Widened(l, acks) ==
  LET rested == l.lastIncrease > 2 * LostPacketResendDelay
      size == Min({l.windowSize + 1, MAXIMUM_WINDOW_SIZE})
  IN  IF /\ acks >= l.windowSize
         /\ \E priority \in DOMAIN l.sendPacketSet : l.sendPacketSet[priority] # <<>>
         /\ l.windowSize < l.lossyWindowSize \/ rested
      THEN [l EXCEPT !.windowSize = size,
                     !.lastIncrease = IF rested THEN 0 ELSE @,
                     !.lossyWindowSize =
                        IF size = MAXIMUM_WINDOW_SIZE \/ size - @ > 5 THEN @ + 1 ELSE @]
      ELSE l

HandleFrame(l, frame) ==
  LET acknowledged[n \in 0 .. Len(frame.acks)] ==
        IF n = 0 THEN l ELSE Acknowledged(acknowledged[n - 1], frame.acks[n])
      received[n \in 0 .. Len(frame.packets)] ==
        IF n = 0 THEN acknowledged[Len(frame.acks)]
        ELSE Received(received[n - 1], frame.packets[n])
  IN  Widened(received[Len(frame.packets)], Len(frame.acks))

-----------------------------------------------------------------------------
(* The peers, the network and the clock *)

Init ==
  /\ layer = [p \in Peer |-> InitLayer]
  /\ sentCount = [p \in Peer |-> 0]
  /\ network = {}
  /\ uptime = Min({StartTime, TIMEOUT_TIME})
  /\ updated = {}

Alive(p) == ~layer[p].deadConnection

\* RakPeer hands the next message to Send.
SendNext(p) ==
  /\ Alive(p) /\ sentCount[p] < Len(Messages[p])
  /\ sentCount' = [sentCount EXCEPT ![p] = @ + 1]
  /\ layer' = [layer EXCEPT ![p] = Sent(@, p, sentCount[p] + 1)]
  /\ UNCHANGED <<network, uptime, updated>>

Lost(l) == l.resendQueue # <<>> /\ l.lastAck > TIMEOUT_TIME

\* Update: no acknowledgement in TIMEOUT_TIME and the connection is dead, and closed;
\* otherwise the frames that are ready go out.
Update(p) ==
  /\ Alive(p)
  /\ updated' = updated \cup {p}
  /\ IF Lost(layer[p])
     THEN /\ layer' = [layer EXCEPT ![p].deadConnection = TRUE]
          /\ UNCHANGED network
     ELSE \E sent \in {Frames(p)} :
          /\ layer' = [layer EXCEPT ![p] = sent.layer]
          /\ network' = network \cup sent.frames
  /\ UNCHANGED <<sentCount, uptime>>

\* HandleSocketReceiveFromConnectedPlayer, for any frame on its way.
HandleSocketReceive(p) ==
  \E frame \in network :
    /\ frame.to = p /\ Alive(p)
    /\ network' = network \ {frame}
    /\ layer' = [layer EXCEPT ![p] = HandleFrame(@, frame)]
    /\ UNCHANGED <<sentCount, uptime, updated>>

UpTo(n, bound) == Min({n, bound})

Aged(entry, bound) == [entry EXCEPT !.age = UpTo(@ + 1, bound)]
AgedPacket(entry) ==
  [entry EXCEPT !.age = UpTo(@ + 1, LostPacketResendDelay + 1),
                !.outstanding = UpTo(@ + 1, TIMEOUT_TIME + 1)]

Older(l) ==
  LET queue == l.resendQueue
      pending == l.acknowledgementQueue
      received == l.receivedPackets
  IN  [l EXCEPT
        !.resendQueue =
           [k \in DOMAIN queue |-> IF queue[k] = Hole THEN Hole ELSE AgedPacket(queue[k])],
        !.acknowledgementQueue =
           [k \in DOMAIN pending |-> Aged(pending[k], LostPacketResendDelay \div 4 + 1)],
        !.receivedPackets =
           [k \in DOMAIN received |-> Aged(received[k], TIMEOUT_TIME + 1)],
        !.lastAck = IF l.lastAck = NoAck THEN NoAck ELSE UpTo(l.lastAck + 1, TIMEOUT_TIME + 1),
        !.lastIncrease = UpTo(l.lastIncrease + 1, 2 * LostPacketResendDelay + 1)]

\* The clock moves on once the update thread has been through every connection;
\* frames that have been on their way for FrameLife ticks are lost.
Tick ==
  /\ \A p \in Peer : Alive(p) => p \in updated
  /\ layer' = [p \in Peer |-> IF Alive(p) THEN Older(layer[p]) ELSE layer[p]]
  /\ network' = { [frame EXCEPT !.life = @ - 1] : frame \in { f \in network : f.life > 0 } }
  /\ uptime' = UpTo(uptime + 1, TIMEOUT_TIME)
  /\ updated' = {}
  /\ UNCHANGED sentCount

Next ==
  \/ Tick
  \/ \E p \in Peer : SendNext(p) \/ Update(p) \/ HandleSocketReceive(p)

Spec == Init /\ [][Next]_vars

\* The clock runs, and the update thread, which goes through all connections without
\* end, calls Update of each again and again. The network may lose everything.
FairSpec ==
  /\ Spec
  /\ WF_vars(Tick)
  /\ \A p \in Peer : []<>(Alive(p) => p \in updated)

-----------------------------------------------------------------------------
(* Properties *)

\* The ordered messages that p has given to Send, and those that its peer got.
InOrder == [p \in Peer |-> { i \in DOMAIN Messages[p] : Ordered(p, i) }]
OrderedSent(p) == Selected([i \in 1 .. sentCount[p] |-> i], InOrder[p])
OrderedDelivered(p) == Selected(layer[Other(p)].outputQueue, InOrder[p])

Channel == INSTANCE OrderedChannel
  WITH Message <- UNION { DOMAIN Messages[p] : p \in Peer },
       sent <- [p \in Peer |-> OrderedSent(p)],
       delivered <- [p \in Peer |-> OrderedDelivered(p)]

\* The ordered messages that a peer's user gets are a prefix of those that the other
\* gave to Send, through losses, late frames, resends and two priorities, as long as
\* they are fewer than OrderingIndexRange.
ImplementsOrderedChannel == Channel!ChannelSpec

AcceptedBy(q) ==
  ToSet(layer[q].outputQueue)
  \cup { layer[q].orderingList[k].message : k \in DOMAIN layer[q].orderingList }

Unacknowledged(p) ==
  { k \in DOMAIN layer[p].resendQueue : layer[p].resendQueue[k] # Hole }

\* A packet that leaves the resend queue, acknowledged, has been accepted by the peer,
\* unless it was on its way for TIMEOUT_TIME: the receiver does not take for a
\* duplicate what it never got. (With StartTime below TIMEOUT_TIME it does, and where a
\* packet waits that long behind later ones of a higher priority.)
ReliableUntilTimeout ==
  [][ \A p \in Peer : Alive(p) =>
        \A k \in Unacknowledged(p) :
          LET entry == layer[p].resendQueue[k]
          IN  \/ \E j \in Unacknowledged(p)' :
                   layer'[p].resendQueue[j].packet = entry.packet
              \/ entry.packet.message \in AcceptedBy(Other(p))
              \/ entry.outstanding > TIMEOUT_TIME ]_vars

\* Whatever the network does, what is sent reliably is acknowledged in the end or
\* the connection is given up.
AcknowledgedOrDead ==
  \A p \in Peer :
    Unacknowledged(p) # {} ~> (layer[p].deadConnection \/ Unacknowledged(p) = {})
=============================================================================
