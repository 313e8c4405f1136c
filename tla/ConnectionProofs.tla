-------------------------- MODULE ConnectionProofs --------------------------
(***************************************************************************)
(* Of Connection, for every set of peers and every bound: users know of     *)
(* their connections, and are told of their ends.                           *)
(*                                                                          *)
(* UserKnowsConnections says nothing of what ends a connection, so it is    *)
(* strengthened by what slots and packets look like: a request is packet 0  *)
(* of its connection, and a peer that has handled a connection which it did *)
(* not make has taken that packet.  A second request cannot end it, then.   *)
(* Nor does the failure of a request reach a user who knows of a connection *)
(* (CallsInv).                                                              *)
(***************************************************************************)
EXTENDS Connection, TLAPS

-----------------------------------------------------------------------------
(* Slots *)

\* A request is the first packet of its connection.
RequestsFirst(d) == d.message \in Requests => d.number = 0

GoodPacket == {d \in Packet : RequestsFirst(d)}

\* A peer that did not make the connection has taken the request for it.
TookRequest(slot) == slot.weInitiated \/ 0 \in slot.got

Handled == {"HANDLING_CONNECTION_REQUEST", "CONNECTED"}

GoodSlot ==
  {slot \in Slot :
     /\ slot.unacked \subseteq GoodPacket
     /\ slot.connectMode = "REQUESTED_CONNECTION" => slot.weInitiated
     /\ slot.connectMode \in Handled => TookRequest(slot)}

\* What is sent over a slot leaves it sound, if only the first packet is a request.
LEMMA SentGood ==
  ASSUME NEW slot \in GoodSlot, NEW m \in Messages, m \notin Requests \/ slot.next = 0
  PROVE  /\ Sent(slot, m) \in GoodSlot /\ Sent(slot, m).connectMode = slot.connectMode
         /\ TookRequest(slot) => TookRequest(Sent(slot, m))
<1>1. CASE slot.connectMode = "unassigned"
  BY <1>1 DEF Sent
<1>2. CASE slot.connectMode # "unassigned"
  <2> DEFINE d == [number |-> slot.next, message |-> m]
  <2>1. slot \in Slot /\ slot.unacked \subseteq GoodPacket
    BY DEF GoodSlot
  <2>2. slot.next \in Nat /\ slot.next + 1 \in Nat
    BY <2>1 DEF Slot
  <2>3. d \in GoodPacket
    BY <2>2 DEF Packet, GoodPacket, RequestsFirst
  <2>4. GoodPacket \subseteq Packet
    BY DEF GoodPacket
  <2> DEFINE sent == [slot EXCEPT !.next = slot.next + 1, !.unacked = slot.unacked \cup {d}]
  <2>5. Sent(slot, m) = sent
    BY <1>2 DEF Sent
  <2> HIDE DEF d
  <2>6. /\ sent \in Slot /\ sent.unacked \subseteq GoodPacket
        /\ sent.connectMode = slot.connectMode /\ sent.weInitiated = slot.weInitiated
        /\ sent.got = slot.got
    BY <2>1, <2>2, <2>3, <2>4 DEF Slot
  <2> HIDE DEF sent
  <2>7. QED
    BY <2>5, <2>6 DEF GoodSlot, TookRequest
<1>3. QED
  BY <1>1, <1>2

\* A slot may get any other mode; a connection only if its request was taken.
LEMMA FlaggedGood ==
  ASSUME NEW slot \in GoodSlot, NEW mode \in ConnectModes, mode # "REQUESTED_CONNECTION",
         mode \in Handled => TookRequest(slot)
  PROVE  Flagged(slot, mode) \in GoodSlot /\ Flagged(slot, mode).connectMode = mode
<1> DEFINE flagged == Flagged(slot, mode)
<1>1. slot \in Slot /\ slot.unacked \subseteq GoodPacket
  BY DEF GoodSlot
<1>2. /\ flagged \in Slot /\ flagged.connectMode = mode /\ flagged.unacked = slot.unacked
      /\ flagged.weInitiated = slot.weInitiated /\ flagged.got = slot.got
  BY <1>1 DEF Flagged, Slot
<1> HIDE DEF flagged
<1>3. flagged \in GoodSlot
  BY <1>1, <1>2 DEF GoodSlot, TookRequest
<1>4. QED
  BY <1>2, <1>3 DEF flagged

\* Slots that are given away, assigned, or made by the answer to a request.
LEMMA UnassignedGood ==
  Unassigned \in GoodSlot /\ Unassigned.connectMode = "unassigned"
BY DEF Unassigned, GoodSlot, Slot, ConnectModes, Handled

\* A slot that is given to a sender, or for a notification.
LEMMA AssignedGood ==
  ASSUME NEW mode \in {"UNVERIFIED_SENDER", "DISCONNECT_ASAP"}
  PROVE  Assigned(mode) \in GoodSlot /\ Assigned(mode).connectMode = mode
BY DEF Assigned, Unassigned, GoodSlot, Slot, ConnectModes, Handled

\* A slot that is given to the peer that was asked for a connection.
LEMMA RequestedGood ==
  LET slot == [Assigned("REQUESTED_CONNECTION") EXCEPT !.weInitiated = TRUE]
  IN  /\ slot \in GoodSlot /\ slot.connectMode = "REQUESTED_CONNECTION" /\ slot.next = 0
BY DEF Assigned, Unassigned, GoodSlot, Slot, ConnectModes, Handled

\* A connection that is notified of its end is none any more.
LEMMA NotifiedGood ==
  ASSUME NEW slot \in GoodSlot
  PROVE  /\ NotifiedAndFlagged(slot) \in GoodSlot
         /\ NotifiedAndFlagged(slot).connectMode = "DISCONNECT_ASAP"
<1>1. "DISCONNECT_ASAP" \in ConnectModes /\ "DISCONNECT_ASAP" \notin Handled
  BY DEF ConnectModes, Handled
<1>2. "DISCONNECTION_NOTIFICATION" \in Messages /\ "DISCONNECTION_NOTIFICATION" \notin Requests
  BY DEF Messages, Requests
<1>3. Sent(slot, "DISCONNECTION_NOTIFICATION") \in GoodSlot
  BY <1>2, SentGood
<1>4. QED
  BY <1>1, <1>3, FlaggedGood DEF NotifiedAndFlagged

\* What becomes of a slot that has taken a request.
LEMMA ParsedGood ==
  ASSUME NEW p, NEW slot \in GoodSlot, TookRequest(slot), NEW right \in BOOLEAN
  PROVE  Parsed(p, slot, right) \in GoodSlot /\ Parsed(p, slot, right).connectMode # "CONNECTED"
<1>1. ASSUME NEW m \in Messages, m \notin Requests,
             NEW mode \in ConnectModes, mode \notin {"REQUESTED_CONNECTION", "CONNECTED"}
      PROVE  /\ Flagged(Sent(slot, m), mode) \in GoodSlot
             /\ Flagged(Sent(slot, m), mode).connectMode # "CONNECTED"
  <2>1. Sent(slot, m) \in GoodSlot /\ TookRequest(Sent(slot, m))
    BY <1>1, SentGood
  <2>2. QED
    BY <1>1, <2>1, FlaggedGood
<1>2. /\ "NO_FREE_INCOMING_CONNECTIONS" \in Messages \ Requests
      /\ "CONNECTION_REQUEST_ACCEPTED" \in Messages \ Requests
      /\ "INVALID_PASSWORD" \in Messages \ Requests
      /\ "DISCONNECT_ASAP" \in ConnectModes
      /\ "HANDLING_CONNECTION_REQUEST" \in ConnectModes
  BY DEF Messages, Requests, ConnectModes
<1>3. CASE ~AllowIncomingConnections(p)
  <2>1. Parsed(p, slot, right) =
          Flagged(Sent(slot, "NO_FREE_INCOMING_CONNECTIONS"), "DISCONNECT_ASAP")
    BY <1>3 DEF Parsed
  <2>2. QED
    BY <1>1, <1>2, <2>1
<1>4. CASE AllowIncomingConnections(p) /\ right
  <2>1. Parsed(p, slot, right) =
          Flagged(Sent(slot, "CONNECTION_REQUEST_ACCEPTED"), "HANDLING_CONNECTION_REQUEST")
    BY <1>4 DEF Parsed
  <2>2. QED
    BY <1>1, <1>2, <2>1
<1>5. CASE AllowIncomingConnections(p) /\ ~right
  <2>1. Parsed(p, slot, right) = Flagged(Sent(slot, "INVALID_PASSWORD"), "DISCONNECT_ASAP")
    BY <1>5 DEF Parsed
  <2>2. QED
    BY <1>1, <1>2, <2>1
<1>6. QED
  BY <1>3, <1>4, <1>5

-----------------------------------------------------------------------------
(* The inductive invariant *)

Slots == [Peers -> [Peers -> GoodSlot]]
LatePackets == SUBSET (Peers \X Peers \X GoodPacket)
Knowledge == [Peers -> [Peers -> {"nothing", "requested", "connected"}]]

RestOK ==
  /\ offline \in SUBSET (Peers \X Peers \X {"REQUEST", "REPLY"})
  /\ requests \in [Peers -> [Peers -> Seq(Nat)]]
  /\ calling \in [Peers -> SUBSET Peers]
  /\ commands \in [Peers -> Seq(Commands)]
  /\ allowed \in [Peers -> Nat]
  /\ banned \in [Peers -> SUBSET Peers]
  /\ calls \in 0 .. MaxCalls

Typed == remoteSystem \in Slots /\ late \in LatePackets /\ known \in Knowledge /\ RestOK

\* p has called Connect for q, and was not answered.
Asks(p, q) == q \in calling[p] \/ requests[p][q] # <<>>

NoCommand(p, q) == \A i \in DOMAIN commands[p] : commands[p][i].to # q

\* Meanwhile nothing else is under way between them, and p's user knows of nothing.
Waits(p, q) ==
  Asks(p, q) =>
    /\ q \in Targets[p] /\ ~IsAssigned(p, q) /\ NoCommand(p, q)
    /\ IF q \in calling[p] THEN known[p][q] = "nothing" /\ requests[p][q] = <<>>
       ELSE known[p][q] = "requested" /\ Len(requests[p][q]) = 1

AsksTarget(p, q) == <<p, q, "REQUEST">> \in offline => q \in Targets[p]

CallsInv == \A p, q \in Peers : Waits(p, q) /\ AsksTarget(p, q)

Told == \A p, q \in Peers : Mode(p, q) = "CONNECTED" => known[p][q] = "connected"

ConnectionInv == Typed /\ Told

\* The invariant is the property and more.
LEMMA InvImplies == ConnectionInv => UserKnowsConnections
<1>1. GoodSlot \subseteq Slot /\ GoodPacket \subseteq Packet
  BY DEF GoodSlot, GoodPacket
<1>2. ASSUME ConnectionInv PROVE TypeOK
  <2>1. remoteSystem \in [Peers -> [Peers -> Slot]]
    BY <1>1, <1>2 DEF ConnectionInv, Typed, Slots
  <2>2. late \in SUBSET (Peers \X Peers \X Packet)
    BY <1>1, <1>2 DEF ConnectionInv, Typed, LatePackets
  <2>3. QED
    BY <1>2, <2>1, <2>2, Zenon DEF ConnectionInv, Typed, Knowledge, RestOK, TypeOK
<1>3. QED
  BY <1>2, Zenon DEF ConnectionInv, Told, UserKnowsConnections

\* No slot is assigned at first.
LEMMA Initially == Init => ConnectionInv
<1> SUFFICES ASSUME Init PROVE ConnectionInv
  OBVIOUS
<1>1. remoteSystem \in Slots
  BY UnassignedGood DEF Init, Slots
<1>2. late \in LatePackets /\ known \in Knowledge
  BY DEF Init, LatePackets, Knowledge
<1>3. RestOK
  BY ConnectionConstants DEF Init, RestOK
<1>4. Told
  BY UnassignedGood DEF Init, Told, Mode
<1>5. QED
  BY <1>1, <1>2, <1>3, <1>4 DEF ConnectionInv, Typed

-----------------------------------------------------------------------------
(* What a step does to the slots and to what users know *)

\* Of all slots only p's for q changes its mode.
OnlyMode(p, q) == \A r, s \in Peers : r # p \/ s # q => Mode(r, s)' = Mode(r, s)

\* Only p's user is told something, of its connection with q.
OnlyTold(p, q) == \A r, s \in Peers : r # p \/ s # q => known'[r][s] = known[r][s]

AcceptedAgain(p, q) ==
  \E d \in Arriving(p, q) : d.message = "CONNECTION_REQUEST_ACCEPTED" /\ ~Taken(p, q, d)

\* What is told of the slot agrees with what becomes of it.
ToldOfSlot(p, q) ==
  /\ Mode(p, q)' = "CONNECTED" => known'[p][q] = "connected"
  /\ Mode(p, q) = "CONNECTED" /\ Mode(p, q)' # "CONNECTED" =>
       known'[p][q] = "nothing" \/ AcceptedAgain(p, q)

EndsToldNow ==
  \A p, q \in Peers :
    Mode(p, q) = "CONNECTED" /\ Mode(p, q)' # "CONNECTED" =>
      known'[p][q] = "nothing" \/ AcceptedAgain(p, q)

\* It is enough to look at the one slot that a step changes.
LEMMA ToldSuffices ==
  ASSUME Told, NEW p \in Peers, NEW q \in Peers, OnlyMode(p, q), OnlyTold(p, q), ToldOfSlot(p, q)
  PROVE  Told' /\ EndsToldNow
<1>1. ASSUME NEW r \in Peers, NEW s \in Peers
      PROVE  /\ Mode(r, s)' = "CONNECTED" => known'[r][s] = "connected"
             /\ Mode(r, s) = "CONNECTED" /\ Mode(r, s)' # "CONNECTED" =>
                  known'[r][s] = "nothing" \/ AcceptedAgain(r, s)
  <2>1. CASE r = p /\ s = q
    BY <2>1 DEF ToldOfSlot
  <2>2. CASE r # p \/ s # q
    <3>1. Mode(r, s)' = Mode(r, s) /\ known'[r][s] = known[r][s]
      BY <2>2 DEF OnlyMode, OnlyTold
    <3>2. QED
      BY <3>1 DEF Told
  <2>3. QED
    BY <2>1, <2>2
<1>2. Told'
  BY <1>1, Zenon DEF Told
<1>3. EndsToldNow
  BY <1>1, Zenon DEF EndsToldNow
<1>4. QED
  BY <1>2, <1>3

\* A step that changes neither slots nor what users know.
LEMMA NothingToTell ==
  ASSUME Told, UNCHANGED <<remoteSystem, known>>
  PROVE  Told' /\ EndsToldNow
BY DEF Told, EndsToldNow, Mode

Updated(slots, p, q, slot) == [slots EXCEPT ![p][q] = slot]

\* Changing one slot leaves the others.
LEMMA SlotUpdated ==
  ASSUME NEW slots \in Slots, NEW p \in Peers, NEW q \in Peers, NEW slot \in GoodSlot
  PROVE  /\ Updated(slots, p, q, slot) \in Slots
         /\ Updated(slots, p, q, slot)[p][q] = slot
BY DEF Slots, Updated

\* ... and the others are as they were.
LEMMA SlotsNotUpdated ==
  ASSUME NEW slots \in Slots, NEW p \in Peers, NEW q \in Peers, NEW slot \in GoodSlot,
         NEW r \in Peers, NEW s \in Peers, r # p \/ s # q
  PROVE  Updated(slots, p, q, slot)[r][s] = slots[r][s]
BY DEF Slots, Updated

\* A step that changes one slot.
LEMMA SlotChanges ==
  ASSUME Typed, NEW p \in Peers, NEW q \in Peers, NEW slot \in GoodSlot,
         remoteSystem' = Updated(remoteSystem, p, q, slot)
  PROVE  remoteSystem' \in Slots /\ Mode(p, q)' = slot.connectMode /\ OnlyMode(p, q)
<1>1. remoteSystem \in Slots
  BY DEF Typed
<1>2. remoteSystem' \in Slots /\ remoteSystem'[p][q] = slot
  BY <1>1, SlotUpdated
<1>3. ASSUME NEW r \in Peers, NEW s \in Peers, r # p \/ s # q
      PROVE  remoteSystem'[r][s] = remoteSystem[r][s]
  BY <1>1, <1>3, SlotsNotUpdated
<1>4. QED
  BY <1>2, <1>3, Zenon DEF Mode, OnlyMode

\* p's slot for q changes, and what the other end has unacknowledged.
LEMMA BothSlotsChange ==
  ASSUME Typed, NEW p \in Peers, NEW q \in Peers, p # q, NEW slot \in GoodSlot,
         NEW other \in GoodSlot, other.connectMode = Mode(q, p),
         remoteSystem' = Updated(Updated(remoteSystem, p, q, slot), q, p, other)
  PROVE  remoteSystem' \in Slots /\ Mode(p, q)' = slot.connectMode /\ OnlyMode(p, q)
<1> DEFINE middle == Updated(remoteSystem, p, q, slot)
<1>1. remoteSystem \in Slots
  BY DEF Typed
<1>2. middle \in Slots /\ middle[p][q] = slot
  BY <1>1, SlotUpdated
<1>3. ASSUME NEW r \in Peers, NEW s \in Peers, r # p \/ s # q
      PROVE  middle[r][s] = remoteSystem[r][s]
  BY <1>1, <1>3, SlotsNotUpdated
<1>4. remoteSystem' = Updated(middle, q, p, other)
  OBVIOUS
<1> HIDE DEF middle
<1>5. remoteSystem' \in Slots /\ remoteSystem'[q][p] = other
  BY <1>2, <1>4, SlotUpdated
<1>6. ASSUME NEW r \in Peers, NEW s \in Peers, r # q \/ s # p
      PROVE  remoteSystem'[r][s] = middle[r][s]
  BY <1>2, <1>4, <1>6, SlotsNotUpdated
<1>7. remoteSystem'[p][q] = slot
  BY <1>2, <1>6
<1>8. ASSUME NEW r \in Peers, NEW s \in Peers, r # p \/ s # q
      PROVE  Mode(r, s)' = Mode(r, s)
  <2>1. CASE r = q /\ s = p
    BY <1>5, <2>1 DEF Mode
  <2>2. CASE r # q \/ s # p
    BY <1>3, <1>6, <1>8, <2>2 DEF Mode
  <2>3. QED
    BY <2>1, <2>2
<1>9. QED
  BY <1>5, <1>7, <1>8, Zenon DEF Mode, OnlyMode

\* A slot of which some packets are acknowledged.
LEMMA LessUnacked ==
  ASSUME NEW slot \in GoodSlot, NEW rest \in SUBSET slot.unacked
  PROVE  LET less == [slot EXCEPT !.unacked = rest]
         IN  less \in GoodSlot /\ less.connectMode = slot.connectMode
<1> DEFINE less == [slot EXCEPT !.unacked = rest]
<1>1. slot \in Slot /\ rest \subseteq GoodPacket /\ rest \subseteq Packet
  BY DEF GoodSlot, GoodPacket
<1>2. /\ less \in Slot /\ less.unacked = rest /\ less.connectMode = slot.connectMode
      /\ less.weInitiated = slot.weInitiated /\ less.got = slot.got
  BY <1>1 DEF Slot
<1> HIDE DEF less
<1>3. less \in GoodSlot
  BY <1>1, <1>2 DEF GoodSlot, TookRequest
<1>4. QED
  BY <1>2, <1>3 DEF less

\* ... when a packet arrives.
LEMMA BecomesGood ==
  ASSUME Typed, NEW p \in Peers, NEW q \in Peers, p # q, NEW d, NEW slot \in GoodSlot,
         Becomes(p, q, d, slot)
  PROVE  remoteSystem' \in Slots /\ Mode(p, q)' = slot.connectMode /\ OnlyMode(p, q)
<1>1. PICK acknowledged \in BOOLEAN :
        remoteSystem' =
          [remoteSystem EXCEPT ![p][q] = slot,
             ![q][p].unacked = IF acknowledged THEN {e \in @ : e.number # d.number} ELSE @]
  BY DEF Becomes
<1> DEFINE unacked == IF acknowledged
                      THEN {e \in remoteSystem[q][p].unacked : e.number # d.number}
                      ELSE remoteSystem[q][p].unacked
           other == [remoteSystem[q][p] EXCEPT !.unacked = unacked]
<1>2. remoteSystem[q][p] \in GoodSlot
  BY DEF Typed, Slots
<1>3. unacked \in SUBSET remoteSystem[q][p].unacked
  OBVIOUS
<1>4. other \in GoodSlot /\ other.connectMode = Mode(q, p)
  <2> HIDE DEF unacked
  <2>1. QED
    BY <1>2, <1>3, LessUnacked DEF Mode
<1>5. remoteSystem' = Updated(Updated(remoteSystem, p, q, slot), q, p, other)
  BY <1>1 DEF Typed, Slots, Updated
<1>6. QED
  BY <1>4, <1>5, BothSlotsChange

\* What is told is told to one user, of one connection.
LEMMA TellsGood ==
  ASSUME Typed, NEW p \in Peers, NEW q \in Peers,
         NEW what \in {"nothing", "requested", "connected"}, Tells(p, q, what)
  PROVE  known' \in Knowledge /\ known'[p][q] = what /\ OnlyTold(p, q)
BY DEF Typed, Knowledge, Tells, OnlyTold

\* A step that tells nothing.
LEMMA TellsNothing ==
  ASSUME Typed, UNCHANGED known, NEW p, NEW q
  PROVE  known' \in Knowledge /\ OnlyTold(p, q)
BY DEF Typed, OnlyTold

-----------------------------------------------------------------------------
(* Packets *)

\* Packets that arrive, and those that stay under way, have requests first.
LEMMA ArrivingGood ==
  ASSUME Typed, NEW p \in Peers, NEW q \in Peers, NEW d \in Arriving(p, q)
  PROVE  d \in GoodPacket
<1>1. remoteSystem[q][p].unacked \subseteq GoodPacket
  BY DEF Typed, Slots, GoodSlot
<1>2. \A l \in late : l[3] \in GoodPacket
  BY DEF Typed, LatePackets
<1>3. d \in remoteSystem[q][p].unacked
        \/ \E l \in late : d = l[3]
  BY DEF Arriving
<1>4. QED
  BY <1>1, <1>2, <1>3

\* Packets of slots that are given away.
LEMMA UnderWayGood ==
  ASSUME Typed, NEW p \in Peers, NEW qs \in SUBSET Peers, NEW l \in UnderWay(p, qs)
  PROVE  l \in LatePackets
<1> DEFINE gone == UNION {{<<p, q, d>> : d \in remoteSystem[p][q].unacked} : q \in qs}
<1>1. \A q \in qs : remoteSystem[p][q].unacked \subseteq GoodPacket
  BY DEF Typed, Slots, GoodSlot
<1>2. gone \subseteq Peers \X Peers \X GoodPacket
  BY <1>1
<1>3. PICK copies \in SUBSET gone : l = late \cup copies
  BY DEF UnderWay
<1>4. QED
  BY <1>2, <1>3 DEF Typed, LatePackets

\* What has arrived is no longer under way.
LEMMA ArrivedGood ==
  ASSUME Typed, NEW p, NEW q, NEW d, Arrived(p, q, d)
  PROVE  late' \in LatePackets
BY DEF Typed, LatePackets, Arrived

\* Taking a packet leaves a slot's mode; taking a request makes it one that took it.
LEMMA TakingGood ==
  ASSUME Typed, NEW p \in Peers, NEW q \in Peers, NEW d \in GoodPacket
  PROVE  /\ Taking(p, q, d) \in GoodSlot /\ Taking(p, q, d).connectMode = Mode(p, q)
         /\ Taking(p, q, d).weInitiated = remoteSystem[p][q].weInitiated
         /\ TookRequest(remoteSystem[p][q]) \/ d.message \in Requests =>
              TookRequest(Taking(p, q, d))
<1> DEFINE slot == remoteSystem[p][q]
           taking == [slot EXCEPT !.got = slot.got \cup {d.number}]
<1>1. slot \in GoodSlot /\ slot \in Slot
  BY DEF Typed, Slots, GoodSlot
<1>2. d.number \in Nat \cup {-1} /\ (d.message \in Requests => d.number = 0)
  BY DEF GoodPacket, Packet, RequestsFirst, Unnumbered
<1>3. CASE d.number = -1
  <2>1. Taking(p, q, d) = slot
    BY <1>3 DEF Taking, Unnumbered
  <2>2. d.message \notin Requests
    BY <1>2, <1>3
  <2>3. QED
    BY <1>1, <2>1, <2>2 DEF Mode
<1>4. CASE d.number # -1
  <2>1. Taking(p, q, d) = taking
    BY <1>4 DEF Taking, Unnumbered
  <2> HIDE DEF slot
  <2>2. d.number \in Nat
    BY <1>2, <1>4
  <2>3. /\ taking \in Slot /\ taking.connectMode = slot.connectMode
        /\ taking.weInitiated = slot.weInitiated /\ taking.unacked = slot.unacked
        /\ taking.got = slot.got \cup {d.number}
    BY <1>1, <2>2 DEF Slot
  <2> HIDE DEF taking
  <2>4. TookRequest(slot) \/ d.message \in Requests => TookRequest(taking)
    BY <1>2, <2>3 DEF TookRequest
  <2>5. taking \in GoodSlot
    BY <1>1, <2>3, <2>4 DEF GoodSlot
  <2>6. slot.connectMode = Mode(p, q)
    BY DEF slot, Mode
  <2>7. QED
    BY <2>1, <2>3, <2>4, <2>5, <2>6 DEF slot
<1>5. QED
  BY <1>3, <1>4

-----------------------------------------------------------------------------
(* Steps *)

\* Packets change slots only.
LEMMA RestIsKept ==
  ASSUME RestOK, UNCHANGED <<offline, user, banned, calls>>
  PROVE  RestOK'
BY DEF RestOK, user

\* A step that changes one slot's mode and tells of it keeps the invariant.
LEMMA SlotStep ==
  ASSUME ConnectionInv, NEW p \in Peers, NEW q \in Peers, RestOK',
         remoteSystem' \in Slots, late' \in LatePackets, known' \in Knowledge,
         OnlyMode(p, q), OnlyTold(p, q), ToldOfSlot(p, q)
  PROVE  ConnectionInv' /\ EndsToldNow
<1>1. Told' /\ EndsToldNow
  BY ToldSuffices, Zenon DEF ConnectionInv
<1>2. QED
  BY <1>1, Zenon DEF ConnectionInv, Typed

\* So does one that changes no slot and tells nothing.
LEMMA QuietStep ==
  ASSUME ConnectionInv, UNCHANGED <<remoteSystem, late, known>>, RestOK'
  PROVE  ConnectionInv' /\ EndsToldNow
<1>1. Told' /\ EndsToldNow
  BY NothingToTell DEF ConnectionInv
<1>2. Typed'
  BY DEF ConnectionInv, Typed
<1>3. QED
  BY <1>1, <1>2, Zenon DEF ConnectionInv

\* A packet is taken; nothing of it is told.
LEMMA SilentPacket ==
  ASSUME ConnectionInv, NEW p \in Peers, NEW q \in Peers, p # q, NEW d, NEW slot \in GoodSlot,
         Becomes(p, q, d, slot), late' \in LatePackets, RestOK', UNCHANGED known,
         slot.connectMode = "CONNECTED" => Mode(p, q) = "CONNECTED",
         Mode(p, q) = "CONNECTED" => slot.connectMode = "CONNECTED" \/ AcceptedAgain(p, q)
  PROVE  ConnectionInv' /\ EndsToldNow
<1>1. Typed
  BY DEF ConnectionInv
<1>2. remoteSystem' \in Slots /\ Mode(p, q)' = slot.connectMode /\ OnlyMode(p, q)
  BY <1>1, BecomesGood
<1>3. known' \in Knowledge /\ OnlyTold(p, q)
  BY <1>1, TellsNothing
<1>4. ToldOfSlot(p, q)
  BY <1>2 DEF ToldOfSlot, ConnectionInv, Told
<1>5. QED
  BY <1>2, <1>3, <1>4, SlotStep

\* A packet is taken, and the user is told.
LEMMA ToldPacket ==
  ASSUME ConnectionInv, NEW p \in Peers, NEW q \in Peers, p # q, NEW d, NEW slot \in GoodSlot,
         NEW what \in {"nothing", "connected"}, Tells(p, q, what),
         Becomes(p, q, d, slot), late' \in LatePackets, RestOK',
         slot.connectMode = "CONNECTED" => what = "connected",
         Mode(p, q) = "CONNECTED" => slot.connectMode = "CONNECTED" \/ what = "nothing"
  PROVE  ConnectionInv' /\ EndsToldNow
<1>1. Typed
  BY DEF ConnectionInv
<1>2. remoteSystem' \in Slots /\ Mode(p, q)' = slot.connectMode /\ OnlyMode(p, q)
  BY <1>1, BecomesGood
<1>3. known' \in Knowledge /\ known'[p][q] = what /\ OnlyTold(p, q)
  BY <1>1, TellsGood
<1>4. ToldOfSlot(p, q)
  BY <1>2, <1>3 DEF ToldOfSlot
<1>5. QED
  BY <1>2, <1>3, <1>4, SlotStep

\* The packets of each kind.
LEMMA DuplicateStep ==
  ASSUME ConnectionInv, NEW p \in Peers, NEW q \in Peers, p # q, TakeDuplicate(p, q)
  PROVE  ConnectionInv' /\ EndsToldNow
<1>1. PICK d \in Arriving(p, q) : Becomes(p, q, d, remoteSystem[p][q]) /\ Arrived(p, q, d)
  BY DEF TakeDuplicate
<1>2. remoteSystem[p][q] \in GoodSlot /\ remoteSystem[p][q].connectMode = Mode(p, q)
  BY DEF ConnectionInv, Typed, Slots, Mode
<1>3. late' \in LatePackets
  BY <1>1, ArrivedGood DEF ConnectionInv
<1>4. RestOK' /\ UNCHANGED known
  BY RestIsKept DEF TakeDuplicate, ConnectionInv, Typed
<1>5. QED
  BY <1>1, <1>2, <1>3, <1>4, SilentPacket

\* A new request cannot arrive over a connection that the other end made.
LEMMA RequestStep ==
  ASSUME ConnectionInv, NEW p \in Peers, NEW q \in Peers, p # q, HandleConnectionRequest(p, q)
  PROVE  ConnectionInv' /\ EndsToldNow
<1>1. PICK d \in Arriving(p, q) :
        /\ ~Taken(p, q, d) /\ d.message \in Requests
        /\ Becomes(p, q, d,
                   IF Taking(p, q, d).weInitiated THEN Taking(p, q, d)
                   ELSE Parsed(p, Taking(p, q, d), d.message = "CONNECTION_REQUEST"))
        /\ Arrived(p, q, d)
  BY DEF HandleConnectionRequest, IsNew
<1> DEFINE slot == Taking(p, q, d)
           right == d.message = "CONNECTION_REQUEST"
<1>2. Typed /\ d \in GoodPacket
  BY ArrivingGood DEF ConnectionInv
<1>3. /\ slot \in GoodSlot /\ slot.connectMode = Mode(p, q) /\ TookRequest(slot)
      /\ slot.weInitiated = remoteSystem[p][q].weInitiated
  BY <1>1, <1>2, TakingGood
<1>4. late' \in LatePackets
  BY <1>1, <1>2, ArrivedGood
<1>5. RestOK' /\ UNCHANGED known
  BY <1>2, RestIsKept DEF HandleConnectionRequest, Typed
<1>6. CASE slot.weInitiated
  <2>1. Becomes(p, q, d, slot)
    BY <1>1, <1>6
  <2>2. QED
    BY <1>3, <1>4, <1>5, <2>1, SilentPacket
<1>7. CASE ~slot.weInitiated
  <2>1. Becomes(p, q, d, Parsed(p, slot, right))
    BY <1>1, <1>7
  <2>2. Parsed(p, slot, right) \in GoodSlot /\ Parsed(p, slot, right).connectMode # "CONNECTED"
    BY <1>3, ParsedGood
  <2>3. Mode(p, q) # "CONNECTED"
    <3>1. d.number = 0 /\ 0 \notin remoteSystem[p][q].got
      BY <1>1, <1>2 DEF GoodPacket, RequestsFirst, Taken
    <3>2. remoteSystem[p][q] \in GoodSlot
      BY <1>2 DEF Typed, Slots
    <3>3. QED
      BY <1>3, <1>7, <3>1, <3>2 DEF GoodSlot, TookRequest, Mode, Handled
  <2>4. QED
    BY <1>4, <1>5, <2>1, <2>2, <2>3, SilentPacket
<1>8. QED
  BY <1>6, <1>7

\* An unverified sender has no connection to lose.
LEMMA NonsenseStep ==
  ASSUME ConnectionInv, NEW p \in Peers, NEW q \in Peers, p # q, HandleNonsense(p, q)
  PROVE  ConnectionInv' /\ EndsToldNow
<1>1. PICK d \in Arriving(p, q) :
        /\ Mode(p, q) = "UNVERIFIED_SENDER" /\ Becomes(p, q, d, Unassigned)
        /\ late' \in {l \ {<<q, p, d>>} : l \in UnderWay(p, {q})}
  BY DEF HandleNonsense, IsNew
<1>2. Typed
  BY DEF ConnectionInv
<1>3. late' \in LatePackets
  <2>1. PICK l \in UnderWay(p, {q}) : late' = l \ {<<q, p, d>>}
    BY <1>1
  <2>2. l \in LatePackets
    BY <1>2, UnderWayGood
  <2>3. QED
    BY <2>1, <2>2 DEF LatePackets
<1>4. RestOK' /\ UNCHANGED known
  BY <1>2 DEF HandleNonsense, Typed, RestOK, user
<1>5. QED
  BY <1>1, <1>3, <1>4, UnassignedGood, SilentPacket

\* The peer that handled the request is told of the connection when it is made.
LEMMA NewIncomingStep ==
  ASSUME ConnectionInv, NEW p \in Peers, NEW q \in Peers, p # q,
         HandleNewIncomingConnection(p, q)
  PROVE  ConnectionInv' /\ EndsToldNow
<1>1. PICK d \in Arriving(p, q) :
        /\ IF Mode(p, q) = "HANDLING_CONNECTION_REQUEST"
           THEN /\ Becomes(p, q, d, Flagged(Taking(p, q, d), "CONNECTED"))
                /\ Tells(p, q, "connected")
           ELSE Becomes(p, q, d, Taking(p, q, d)) /\ UNCHANGED known
        /\ Arrived(p, q, d)
  BY DEF HandleNewIncomingConnection
<1> DEFINE slot == Taking(p, q, d)
<1>2. Typed /\ d \in GoodPacket
  BY ArrivingGood DEF ConnectionInv
<1>3. /\ slot \in GoodSlot /\ slot.connectMode = Mode(p, q)
      /\ TookRequest(remoteSystem[p][q]) => TookRequest(slot)
  BY <1>2, TakingGood
<1>4. late' \in LatePackets
  BY <1>1, <1>2, ArrivedGood
<1>5. RestOK'
  BY <1>2, RestIsKept DEF HandleNewIncomingConnection, Typed
<1>6. CASE Mode(p, q) = "HANDLING_CONNECTION_REQUEST"
  <2>1. Becomes(p, q, d, Flagged(slot, "CONNECTED")) /\ Tells(p, q, "connected")
    BY <1>1, <1>6
  <2>2. remoteSystem[p][q] \in GoodSlot
    BY <1>2 DEF Typed, Slots
  <2>3. TookRequest(slot)
    BY <1>3, <1>6, <2>2 DEF GoodSlot, Mode, Handled
  <2>4. "CONNECTED" \in ConnectModes
    BY DEF ConnectModes
  <2>5. Flagged(slot, "CONNECTED") \in GoodSlot /\ Flagged(slot, "CONNECTED").connectMode = "CONNECTED"
    BY <1>3, <2>3, <2>4, FlaggedGood
  <2>6. QED
    BY <1>4, <1>5, <2>1, <2>5, ToldPacket
<1>7. CASE Mode(p, q) # "HANDLING_CONNECTION_REQUEST"
  <2>1. Becomes(p, q, d, slot) /\ UNCHANGED known
    BY <1>1, <1>7
  <2>2. QED
    BY <1>3, <1>4, <1>5, <2>1, SilentPacket
<1>8. QED
  BY <1>6, <1>7

\* The other end's notification is told to the user.
LEMMA NotificationStep ==
  ASSUME ConnectionInv, NEW p \in Peers, NEW q \in Peers, p # q,
         HandleDisconnectionNotification(p, q)
  PROVE  ConnectionInv' /\ EndsToldNow
<1>1. PICK d \in Arriving(p, q) :
        /\ Becomes(p, q, d, Flagged(Taking(p, q, d), "DISCONNECT_ASAP"))
        /\ Arrived(p, q, d)
  BY DEF HandleDisconnectionNotification
<1>2. Typed /\ d \in GoodPacket
  BY ArrivingGood DEF ConnectionInv
<1>3. "DISCONNECT_ASAP" \in ConnectModes /\ "DISCONNECT_ASAP" \notin Handled
  BY DEF ConnectModes, Handled
<1>4. /\ Flagged(Taking(p, q, d), "DISCONNECT_ASAP") \in GoodSlot
      /\ Flagged(Taking(p, q, d), "DISCONNECT_ASAP").connectMode = "DISCONNECT_ASAP"
  BY <1>2, <1>3, TakingGood, FlaggedGood
<1>5. late' \in LatePackets
  BY <1>1, <1>2, ArrivedGood
<1>6. RestOK' /\ Tells(p, q, "nothing")
  BY <1>2, RestIsKept DEF HandleDisconnectionNotification, Typed
<1>7. QED
  BY <1>1, <1>4, <1>5, <1>6, ToldPacket

\* The peer that requested the connection is told of it when it is accepted.
LEMMA AcceptedStep ==
  ASSUME ConnectionInv, NEW p \in Peers, NEW q \in Peers, p # q,
         HandleConnectionRequestAccepted(p, q)
  PROVE  ConnectionInv' /\ EndsToldNow
<1>1. PICK d \in Arriving(p, q) :
        /\ ~Taken(p, q, d) /\ d.message = "CONNECTION_REQUEST_ACCEPTED"
        /\ LET slot == Taking(p, q, d)
               reply == Sent(slot, "NEW_INCOMING_CONNECTION")
           IN  CASE Mode(p, q) = "REQUESTED_CONNECTION" ->
                      Becomes(p, q, d, Flagged(reply, "CONNECTED")) /\ Tells(p, q, "connected")
                 [] Mode(p, q) = "HANDLING_CONNECTION_REQUEST" ->
                      Becomes(p, q, d, reply) /\ Tells(p, q, "connected")
                 [] OTHER -> Becomes(p, q, d, NotifiedAndFlagged(slot)) /\ UNCHANGED known
        /\ Arrived(p, q, d)
  BY DEF HandleConnectionRequestAccepted, IsNew
<1> DEFINE slot == Taking(p, q, d)
           reply == Sent(slot, "NEW_INCOMING_CONNECTION")
<1>2. Typed /\ d \in GoodPacket
  BY ArrivingGood DEF ConnectionInv
<1>3. /\ slot \in GoodSlot /\ slot.connectMode = Mode(p, q)
      /\ TookRequest(remoteSystem[p][q]) => TookRequest(slot)
  BY <1>2, TakingGood
<1>4. late' \in LatePackets
  BY <1>1, <1>2, ArrivedGood
<1>5. RestOK'
  BY <1>2, RestIsKept DEF HandleConnectionRequestAccepted, Typed
<1>6. /\ reply \in GoodSlot /\ reply.connectMode = Mode(p, q)
      /\ TookRequest(slot) => TookRequest(reply)
  <2>1. "NEW_INCOMING_CONNECTION" \in Messages /\ "NEW_INCOMING_CONNECTION" \notin Requests
    BY DEF Messages, Requests
  <2>2. QED
    BY <1>3, <2>1, SentGood
<1>7. CASE Mode(p, q) = "REQUESTED_CONNECTION"
  <2>1. Becomes(p, q, d, Flagged(reply, "CONNECTED")) /\ Tells(p, q, "connected")
    BY <1>1, <1>7
  <2>2. remoteSystem[p][q] \in GoodSlot
    BY <1>2 DEF Typed, Slots
  <2>3. TookRequest(reply)
    BY <1>3, <1>6, <1>7, <2>2 DEF GoodSlot, Mode, TookRequest
  <2>4. "CONNECTED" \in ConnectModes
    BY DEF ConnectModes
  <2>5. Flagged(reply, "CONNECTED") \in GoodSlot /\ Flagged(reply, "CONNECTED").connectMode = "CONNECTED"
    BY <1>6, <2>3, <2>4, FlaggedGood
  <2>6. QED
    BY <1>4, <1>5, <2>1, <2>5, ToldPacket
<1>8. CASE Mode(p, q) = "HANDLING_CONNECTION_REQUEST"
  <2>1. Becomes(p, q, d, reply) /\ Tells(p, q, "connected")
    BY <1>1, <1>8
  <2>2. QED
    BY <1>4, <1>5, <1>6, <1>8, <2>1, ToldPacket
<1>9. CASE Mode(p, q) \notin {"REQUESTED_CONNECTION", "HANDLING_CONNECTION_REQUEST"}
  <2>1. Becomes(p, q, d, NotifiedAndFlagged(slot)) /\ UNCHANGED known
    BY <1>1, <1>9
  <2>2. /\ NotifiedAndFlagged(slot) \in GoodSlot
        /\ NotifiedAndFlagged(slot).connectMode = "DISCONNECT_ASAP"
    BY <1>3, NotifiedGood
  <2>3. AcceptedAgain(p, q)
    BY <1>1 DEF AcceptedAgain
  <2>4. QED
    BY <1>4, <1>5, <2>1, <2>2, <2>3, SilentPacket
<1>10. QED
  BY <1>7, <1>8, <1>9

\* The rest changes no mode.
LEMMA OtherStep ==
  ASSUME ConnectionInv, NEW p \in Peers, NEW q \in Peers, p # q, HandleOther(p, q)
  PROVE  ConnectionInv' /\ EndsToldNow
<1>1. PICK d \in Arriving(p, q) : Becomes(p, q, d, Taking(p, q, d)) /\ Arrived(p, q, d)
  BY DEF HandleOther
<1>2. Typed /\ d \in GoodPacket
  BY ArrivingGood DEF ConnectionInv
<1>3. Taking(p, q, d) \in GoodSlot /\ Taking(p, q, d).connectMode = Mode(p, q)
  BY <1>2, TakingGood
<1>4. late' \in LatePackets
  BY <1>1, <1>2, ArrivedGood
<1>5. RestOK' /\ UNCHANGED known
  BY <1>2, RestIsKept DEF HandleOther, Typed
<1>6. QED
  BY <1>1, <1>3, <1>4, <1>5, SilentPacket

\* The calls of users, and what becomes of requests.
LEMMA CallCounted ==
  ASSUME RestOK, Calls
  PROVE  calls' \in 0 .. MaxCalls
BY ConnectionConstants DEF RestOK, Calls

\* Connect changes no slot before it returns.
LEMMA ConnectStep ==
  ASSUME ConnectionInv, NEW p \in Peers, NEW q \in Peers, Connect(p, q)
  PROVE  ConnectionInv' /\ EndsToldNow
<1>1. RestOK
  BY DEF ConnectionInv, Typed
<1>2. calls' \in 0 .. MaxCalls /\ calling' \in [Peers -> SUBSET Peers]
  BY <1>1, CallCounted DEF Connect, RestOK
<1>3. RestOK' /\ UNCHANGED <<remoteSystem, late, known>>
  BY <1>1, <1>2 DEF Connect, RestOK
<1>4. QED
  BY <1>3, QuietStep

\* A command waits, and changes no slot.
LEMMA CommandStep ==
  ASSUME ConnectionInv, NEW p \in Peers, NEW q \in Peers,
         NEW command \in {"SEND", "NOTIFY", "CLOSE"}, Command(p, q, command)
  PROVE  ConnectionInv' /\ EndsToldNow
<1>1. RestOK
  BY DEF ConnectionInv, Typed
<1> DEFINE c == [command |-> command, to |-> q]
<1>2. c \in Commands
  BY DEF Commands
<1>3. commands' = [commands EXCEPT ![p] = Append(commands[p], c)]
  BY DEF Command
<1> HIDE DEF c
<1>4. commands' \in [Peers -> Seq(Commands)]
  BY <1>1, <1>2, <1>3 DEF RestOK
<1>5. calls' \in 0 .. MaxCalls
  BY <1>1, CallCounted DEF Command
<1>6. UNCHANGED <<remoteSystem, late, known, offline, requests, calling, allowed, banned>>
  BY DEF Command
<1>7. RestOK'
  BY <1>1, <1>4, <1>5, <1>6 DEF RestOK
<1>8. QED
  BY <1>6, <1>7, QuietStep

\* A maximum is for later requests.
LEMMA MaximumStep ==
  ASSUME ConnectionInv, NEW p \in Peers, SetMaximumIncomingConnections(p)
  PROVE  ConnectionInv' /\ EndsToldNow
<1>1. RestOK
  BY DEF ConnectionInv, Typed
<1>2. calls' \in 0 .. MaxCalls
  BY <1>1, CallCounted DEF SetMaximumIncomingConnections
<1>3. allowed' \in [Peers -> Nat]
  BY <1>1 DEF SetMaximumIncomingConnections, RestOK
<1>4. UNCHANGED <<remoteSystem, late, known, offline, requests, calling, commands, banned>>
  BY DEF SetMaximumIncomingConnections
<1>5. RestOK'
  BY <1>1, <1>2, <1>3, <1>4 DEF RestOK
<1>6. QED
  BY <1>4, <1>5, QuietStep

\* A ban ends without a change to any slot.
LEMMA BanEndsStep ==
  ASSUME ConnectionInv, NEW p \in Peers, NEW q \in Peers, BanEnds(p, q)
  PROVE  ConnectionInv' /\ EndsToldNow
<1>1. RestOK
  BY DEF ConnectionInv, Typed
<1>2. banned' \in [Peers -> SUBSET Peers]
  BY <1>1 DEF BanEnds, RestOK
<1>3. UNCHANGED <<remoteSystem, late, known, offline, requests, calling, commands, allowed, calls>>
  BY DEF BanEnds, user
<1>4. RestOK'
  BY <1>1, <1>2, <1>3 DEF RestOK
<1>5. QED
  BY <1>3, <1>4, QuietStep

\* An offline datagram is lost.
LEMMA LossStep ==
  ASSUME ConnectionInv, OfflineIsLost
  PROVE  ConnectionInv' /\ EndsToldNow
<1>1. RestOK
  BY DEF ConnectionInv, Typed
<1>2. RestOK'
  BY <1>1 DEF OfflineIsLost, RestOK, user
<1>3. UNCHANGED <<remoteSystem, late, known>>
  BY DEF OfflineIsLost
<1>4. QED
  BY <1>2, <1>3, QuietStep

\* Slots stay, and a user who knows of no connection is told something else.
LEMMA AnswerStep ==
  ASSUME ConnectionInv, NEW p \in Peers, NEW q \in Peers, UNCHANGED <<remoteSystem, late>>,
         RestOK', NEW what \in {"nothing", "requested"}, known[p][q] # "connected",
         Tells(p, q, what)
  PROVE  ConnectionInv' /\ EndsToldNow
<1>1. Typed
  BY DEF ConnectionInv
<1>2. known' \in Knowledge /\ OnlyTold(p, q)
  BY <1>1, TellsGood
<1>3. remoteSystem' \in Slots /\ late' \in LatePackets
  BY <1>1 DEF Typed
<1>4. OnlyMode(p, q) /\ Mode(p, q)' = Mode(p, q)
  BY DEF OnlyMode, Mode
<1>5. Mode(p, q) # "CONNECTED"
  BY DEF ConnectionInv, Told
<1>6. ToldOfSlot(p, q)
  BY <1>4, <1>5 DEF ToldOfSlot
<1>7. QED
  BY <1>2, <1>3, <1>4, <1>6, SlotStep

\* Connect returns to a user who knows of nothing.
LEMMA ConnectReturnsStep ==
  ASSUME ConnectionInv, CallsInv, NEW p \in Peers, NEW q \in Peers, ConnectReturns(p, q)
  PROVE  ConnectionInv' /\ EndsToldNow
<1>1. RestOK
  BY DEF ConnectionInv, Typed
<1>2. calling' \in [Peers -> SUBSET Peers]
  BY <1>1 DEF ConnectReturns, RestOK
<1>3. requests' \in [Peers -> [Peers -> Seq(Nat)]]
  <2>1. Append(requests[p][q], 0) \in Seq(Nat)
    BY <1>1 DEF RestOK
  <2>2. QED
    BY <1>1, <2>1 DEF ConnectReturns, RestOK
<1>4. UNCHANGED <<remoteSystem, late, offline, commands, allowed, banned, calls>>
  BY DEF ConnectReturns
<1>5. RestOK'
  BY <1>1, <1>2, <1>3, <1>4 DEF RestOK
<1>6. Tells(p, q, "requested") /\ known[p][q] # "connected"
  BY DEF ConnectReturns, CallsInv, Waits, Asks
<1>7. QED
  BY <1>4, <1>5, <1>6, AnswerStep

\* A list of requests without its ith.
LEMMA RequestGoes ==
  ASSUME NEW list \in Seq(Nat), NEW i \in 1 .. Len(list)
  PROVE  [j \in 1 .. Len(list) - 1 |-> IF j < i THEN list[j] ELSE list[j + 1]] \in Seq(Nat)
<1> DEFINE n == Len(list) - 1
           rest == [j \in 1 .. n |-> IF j < i THEN list[j] ELSE list[j + 1]]
<1>1. n \in Nat
  OBVIOUS
<1>2. ASSUME NEW j \in 1 .. n PROVE (IF j < i THEN list[j] ELSE list[j + 1]) \in Nat
  <2>1. j \in 1 .. Len(list) /\ j + 1 \in 1 .. Len(list)
    OBVIOUS
  <2>2. list[j] \in Nat /\ list[j + 1] \in Nat
    BY <2>1
  <2>3. QED
    BY <2>2
<1>3. rest \in [1 .. n -> Nat]
  BY <1>2
<1> HIDE DEF rest
<1>4. rest \in Seq(Nat)
  BY <1>1, <1>3
<1>5. QED
  BY <1>4 DEF rest

\* Whoever is told that a request is given up waits for its answer.
LEMMA SendRequestStep ==
  ASSUME ConnectionInv, CallsInv, NEW p \in Peers, NEW q \in Peers, SendRequest(p, q)
  PROVE  ConnectionInv' /\ EndsToldNow
<1>1. RestOK /\ requests[p][q] \in Seq(Nat)
  BY DEF ConnectionInv, Typed, RestOK
<1>2. PICK i \in 1 .. Len(requests[p][q]) :
        IF requests[p][q][i] < MaxRequests
        THEN /\ requests' = [requests EXCEPT ![p][q][i] = @ + 1]
             /\ offline' = offline \cup {<<p, q, "REQUEST">>}
             /\ UNCHANGED known
        ELSE /\ requests' = [requests EXCEPT ![p][q] =
                  [j \in 1 .. Len(@) - 1 |-> IF j < i THEN @[j] ELSE @[j + 1]]]
             /\ Tells(p, q, "nothing") /\ UNCHANGED offline
  BY DEF SendRequest
<1>3. UNCHANGED <<remoteSystem, late, calling, commands, allowed, banned, calls>>
  BY DEF SendRequest
<1>4. CASE requests[p][q][i] < MaxRequests
  <2> DEFINE list == [requests[p][q] EXCEPT ![i] = @ + 1]
  <2>1. list \in Seq(Nat)
    BY <1>1
  <2>2. requests' = [requests EXCEPT ![p][q] = list]
    BY <1>2, <1>4
  <2> HIDE DEF list
  <2>3. requests' \in [Peers -> [Peers -> Seq(Nat)]]
    BY <1>1, <2>1, <2>2 DEF RestOK
  <2>4. offline' \in SUBSET (Peers \X Peers \X {"REQUEST", "REPLY"}) /\ UNCHANGED known
    BY <1>1, <1>2, <1>4 DEF RestOK
  <2>5. RestOK'
    BY <1>1, <1>3, <2>3, <2>4 DEF RestOK
  <2>6. QED
    BY <1>3, <2>4, <2>5, QuietStep
<1>5. CASE ~(requests[p][q][i] < MaxRequests)
  <2> DEFINE list == [j \in 1 .. Len(requests[p][q]) - 1 |->
                        IF j < i THEN requests[p][q][j] ELSE requests[p][q][j + 1]]
  <2>1. list \in Seq(Nat)
    BY <1>1, RequestGoes
  <2>2. requests' = [requests EXCEPT ![p][q] = list]
    BY <1>2, <1>5
  <2> HIDE DEF list
  <2>3. requests' \in [Peers -> [Peers -> Seq(Nat)]]
    BY <1>1, <2>1, <2>2 DEF RestOK
  <2>4. UNCHANGED offline
    BY <1>2, <1>5
  <2>5. RestOK'
    BY <1>1, <1>3, <2>3, <2>4 DEF RestOK
  <2>6. Tells(p, q, "nothing") /\ known[p][q] # "connected"
    BY <1>2, <1>5 DEF CallsInv, Waits, Asks
  <2>7. QED
    BY <1>3, <2>5, <2>6, AnswerStep
<1>6. QED
  BY <1>4, <1>5

\* One slot changes; nothing of it is told.
LEMMA SilentSlot ==
  ASSUME ConnectionInv, NEW p \in Peers, NEW q \in Peers, NEW slot \in GoodSlot,
         remoteSystem' = Updated(remoteSystem, p, q, slot),
         late' \in LatePackets, RestOK', UNCHANGED known,
         (slot.connectMode = "CONNECTED") <=> (Mode(p, q) = "CONNECTED")
  PROVE  ConnectionInv' /\ EndsToldNow
<1>1. Typed
  BY DEF ConnectionInv
<1>2. remoteSystem' \in Slots /\ Mode(p, q)' = slot.connectMode /\ OnlyMode(p, q)
  BY <1>1, SlotChanges
<1>3. known' \in Knowledge /\ OnlyTold(p, q)
  BY <1>1, TellsNothing
<1>4. ToldOfSlot(p, q)
  BY <1>2 DEF ToldOfSlot, ConnectionInv, Told
<1>5. QED
  BY <1>2, <1>3, <1>4, SlotStep

\* A connection is closed by its user.
LEMMA ClosedSlot ==
  ASSUME ConnectionInv, NEW p \in Peers, NEW q \in Peers, NEW slot \in GoodSlot,
         remoteSystem' = Updated(remoteSystem, p, q, slot), slot.connectMode # "CONNECTED",
         late' \in LatePackets, RestOK', Tells(p, q, "nothing")
  PROVE  ConnectionInv' /\ EndsToldNow
<1>1. Typed
  BY DEF ConnectionInv
<1>2. remoteSystem' \in Slots /\ Mode(p, q)' = slot.connectMode /\ OnlyMode(p, q)
  BY <1>1, SlotChanges
<1>3. known' \in Knowledge /\ known'[p][q] = "nothing" /\ OnlyTold(p, q)
  BY <1>1, TellsGood
<1>4. ToldOfSlot(p, q)
  BY <1>2, <1>3 DEF ToldOfSlot
<1>5. QED
  BY <1>2, <1>3, <1>4, SlotStep

\* Executing a command sends over a slot, or ends what the user knows of.
LEMMA ExecuteStep ==
  ASSUME ConnectionInv, NEW p \in Peers, Execute(p)
  PROVE  ConnectionInv' /\ EndsToldNow
<1>1. Typed /\ RestOK
  BY DEF ConnectionInv, Typed
<1> DEFINE c == Head(commands[p])
           q == Head(commands[p]).to
           slot == IF Assignable(p, q) THEN Assigned("DISCONNECT_ASAP") ELSE remoteSystem[p][q]
<1>2. c \in Commands /\ Tail(commands[p]) \in Seq(Commands)
  <2>1. commands[p] \in Seq(Commands) /\ commands[p] # <<>>
    BY <1>1 DEF RestOK, Execute
  <2>2. QED
    BY <2>1
<1>3. q \in Peers /\ c.command \in {"SEND", "NOTIFY", "CLOSE"}
  BY <1>2 DEF Commands
<1>4. remoteSystem[p][q] \in GoodSlot
  BY <1>1, <1>3 DEF Typed, Slots
<1>5. RestOK'
  <2>1. commands' \in [Peers -> Seq(Commands)]
    BY <1>1, <1>2 DEF Execute, RestOK
  <2>2. UNCHANGED <<offline, requests, calling, allowed, banned, calls>>
    BY DEF Execute
  <2>3. QED
    BY <1>1, <2>1, <2>2 DEF RestOK
<1>6. CASE c.command = "SEND"
  <2>1. /\ remoteSystem' = [remoteSystem EXCEPT ![p][q] = Sent(@, "user data")]
        /\ UNCHANGED <<late, known>>
    BY <1>6 DEF Execute
  <2>2. remoteSystem' = Updated(remoteSystem, p, q, Sent(remoteSystem[p][q], "user data"))
    BY <2>1 DEF Updated
  <2>3. "user data" \in Messages /\ "user data" \notin Requests
    BY DEF Messages, Requests
  <2>4. /\ Sent(remoteSystem[p][q], "user data") \in GoodSlot
        /\ Sent(remoteSystem[p][q], "user data").connectMode = Mode(p, q)
    BY <1>4, <2>3, SentGood DEF Mode
  <2>5. late' \in LatePackets
    BY <1>1, <2>1 DEF Typed
  <2>6. QED
    BY <1>3, <1>5, <2>1, <2>2, <2>4, <2>5, SilentSlot
<1>7. CASE c.command = "NOTIFY"
  <2> DEFINE ended == IF slot.connectMode = "unassigned" THEN slot ELSE NotifiedAndFlagged(slot)
  <2>1. /\ remoteSystem' = [remoteSystem EXCEPT ![p][q] =
             IF slot.connectMode = "unassigned" THEN slot ELSE NotifiedAndFlagged(slot)]
        /\ Tells(p, q, "nothing") /\ UNCHANGED late
    BY <1>7 DEF Execute
  <2>2. remoteSystem' = Updated(remoteSystem, p, q, ended)
    BY <2>1 DEF Updated
  <2>3. slot \in GoodSlot
    BY <1>4, AssignedGood
  <2> HIDE DEF slot
  <2>4. ended \in GoodSlot /\ ended.connectMode # "CONNECTED"
    BY <2>3, NotifiedGood
  <2>5. late' \in LatePackets
    BY <1>1, <2>1 DEF Typed
  <2> HIDE DEF ended
  <2>6. QED
    BY <1>3, <1>5, <2>1, <2>2, <2>4, <2>5, ClosedSlot
<1>8. CASE c.command = "CLOSE"
  <2>1. /\ remoteSystem' = [remoteSystem EXCEPT ![p][q] = Unassigned]
        /\ late' \in UnderWay(p, {q}) /\ Tells(p, q, "nothing")
    BY <1>8 DEF Execute
  <2>2. remoteSystem' = Updated(remoteSystem, p, q, Unassigned)
    BY <2>1 DEF Updated
  <2>3. late' \in LatePackets
    BY <1>1, <1>3, <2>1, UnderWayGood
  <2>4. QED
    BY <1>3, <1>5, <2>1, <2>2, <2>3, UnassignedGood, ClosedSlot
<1>9. QED
  BY <1>3, <1>6, <1>7, <1>8

\* A request to open assigns a slot that was free.
LEMMA OpenRequestStep ==
  ASSUME ConnectionInv, NEW p \in Peers, NEW q \in Peers, OpenRequestArrives(p, q)
  PROVE  ConnectionInv' /\ EndsToldNow
<1>1. Typed /\ RestOK
  BY DEF ConnectionInv, Typed
<1> DEFINE opens == q \notin banned[p] /\ Assignable(p, q)
<1>2. offline' \in SUBSET (Peers \X Peers \X {"REQUEST", "REPLY"})
  BY <1>1 DEF OpenRequestArrives, RestOK
<1>3. UNCHANGED <<late, requests, calling, commands, allowed, banned, known, calls>>
  BY DEF OpenRequestArrives, user
<1>4. RestOK'
  BY <1>1, <1>2, <1>3 DEF RestOK
<1>5. late' \in LatePackets
  BY <1>1, <1>3 DEF Typed
<1>6. CASE opens
  <2>1. remoteSystem' = Updated(remoteSystem, p, q, Assigned("UNVERIFIED_SENDER"))
    BY <1>6 DEF OpenRequestArrives, Updated
  <2>2. Mode(p, q) = "unassigned"
    BY <1>6 DEF Assignable, IsAssigned
  <2>3. /\ Assigned("UNVERIFIED_SENDER") \in GoodSlot
        /\ Assigned("UNVERIFIED_SENDER").connectMode = "UNVERIFIED_SENDER"
    BY AssignedGood
  <2>4. QED
    BY <1>3, <1>4, <1>5, <2>1, <2>2, <2>3, SilentSlot
<1>7. CASE ~opens
  <2>1. UNCHANGED remoteSystem
    BY <1>7 DEF OpenRequestArrives
  <2>2. QED
    BY <1>3, <1>4, <2>1, QuietStep
<1>8. QED
  BY <1>6, <1>7

\* A reply does, and its first packet is the request.
LEMMA OpenReplyStep ==
  ASSUME ConnectionInv, NEW p \in Peers, NEW q \in Peers, OpenReplyArrives(p, q)
  PROVE  ConnectionInv' /\ EndsToldNow
<1>1. Typed /\ RestOK
  BY DEF ConnectionInv, Typed
<1> DEFINE requested == q \notin banned[p] /\ requests[p][q] # <<>>
           slot == [Assigned("REQUESTED_CONNECTION") EXCEPT !.weInitiated = TRUE]
<1>2. offline' \in SUBSET (Peers \X Peers \X {"REQUEST", "REPLY"})
  BY <1>1 DEF OpenReplyArrives, RestOK
<1>3. UNCHANGED <<late, calling, commands, allowed, banned, known, calls>>
  BY DEF OpenReplyArrives
<1>4. requests' \in [Peers -> [Peers -> Seq(Nat)]]
  <2>1. requests \in [Peers -> [Peers -> Seq(Nat)]]
    BY <1>1 DEF RestOK
  <2>2. [requests EXCEPT ![p][q] = <<>>] \in [Peers -> [Peers -> Seq(Nat)]]
    BY <2>1
  <2>3. requests' = requests \/ requests' = [requests EXCEPT ![p][q] = <<>>]
    BY DEF OpenReplyArrives
  <2>4. QED
    BY <2>1, <2>2, <2>3
<1>5. RestOK'
  BY <1>1, <1>2, <1>3, <1>4 DEF RestOK
<1>6. late' \in LatePackets
  BY <1>1, <1>3 DEF Typed
<1>7. PICK request \in Requests :
        remoteSystem' = IF requested /\ Assignable(p, q)
                        THEN [remoteSystem EXCEPT ![p][q] = Sent(slot, request)]
                        ELSE remoteSystem
  BY DEF OpenReplyArrives
<1>8. CASE requested /\ Assignable(p, q)
  <2>1. slot \in GoodSlot /\ slot.connectMode = "REQUESTED_CONNECTION" /\ slot.next = 0
    BY RequestedGood
  <2> HIDE DEF slot
  <2>2. request \in Messages
    BY DEF Messages, Requests
  <2>3. Sent(slot, request) \in GoodSlot /\ Sent(slot, request).connectMode = "REQUESTED_CONNECTION"
    BY <2>1, <2>2, SentGood
  <2>4. Mode(p, q) = "unassigned"
    BY <1>8 DEF Assignable, IsAssigned
  <2>5. remoteSystem' = Updated(remoteSystem, p, q, Sent(slot, request))
    BY <1>7, <1>8 DEF Updated
  <2>6. QED
    BY <1>3, <1>5, <1>6, <2>3, <2>4, <2>5, SilentSlot
<1>9. CASE ~(requested /\ Assignable(p, q))
  <2>1. UNCHANGED remoteSystem
    BY <1>7, <1>9
  <2>2. QED
    BY <1>3, <1>5, <2>1, QuietStep
<1>10. QED
  BY <1>8, <1>9

\* A keep-alive leaves the connection.
LEMMA KeepAliveStep ==
  ASSUME ConnectionInv, NEW p \in Peers, NEW q \in Peers, SendKeepAlive(p, q)
  PROVE  ConnectionInv' /\ EndsToldNow
<1>1. Typed
  BY DEF ConnectionInv
<1> DEFINE slot == remoteSystem[p][q]
           kept == [slot EXCEPT !.unacked = {KeepAlive}]
<1>2. slot \in GoodSlot /\ slot \in Slot
  BY <1>1 DEF Typed, Slots, GoodSlot
<1>3. KeepAlive \in GoodPacket /\ KeepAlive \in Packet
  BY DEF KeepAlive, GoodPacket, Packet, RequestsFirst, Unnumbered, Messages, Requests
<1>4. remoteSystem' = Updated(remoteSystem, p, q, kept)
  BY DEF SendKeepAlive, Updated
<1>5. slot.connectMode = Mode(p, q)
  BY DEF Mode
<1> HIDE DEF slot
<1>6. /\ kept \in Slot /\ kept.unacked = {KeepAlive} /\ kept.connectMode = slot.connectMode
      /\ kept.weInitiated = slot.weInitiated /\ kept.got = slot.got
  BY <1>2, <1>3 DEF Slot
<1> HIDE DEF kept
<1>7. kept \in GoodSlot
  BY <1>2, <1>3, <1>6 DEF GoodSlot, TookRequest
<1>8. RestOK' /\ UNCHANGED known
  BY <1>1, RestIsKept DEF SendKeepAlive, Typed
<1>9. late' \in LatePackets
  BY <1>1 DEF SendKeepAlive, Typed
<1>10. QED
  BY <1>4, <1>5, <1>6, <1>7, <1>8, <1>9, SilentSlot

\* A connection that fails is told.
LEMMA FailStep ==
  ASSUME ConnectionInv, NEW p \in Peers, NEW q \in Peers, p # q, Fail(p, q)
  PROVE  ConnectionInv' /\ EndsToldNow
<1>1. Typed
  BY DEF ConnectionInv
<1>2. PICK came \in SUBSET remoteSystem[q][p].unacked :
        remoteSystem' =
          [remoteSystem EXCEPT ![p][q] = Unassigned, ![q][p].unacked = @ \ came]
  BY DEF Fail
<1> DEFINE rest == remoteSystem[q][p].unacked \ came
           other == [remoteSystem[q][p] EXCEPT !.unacked = rest]
<1>3. other \in GoodSlot /\ other.connectMode = Mode(q, p)
  <2>1. remoteSystem[q][p] \in GoodSlot /\ rest \in SUBSET remoteSystem[q][p].unacked
    BY <1>1 DEF Typed, Slots
  <2> HIDE DEF rest
  <2>2. QED
    BY <2>1, LessUnacked DEF Mode
<1>4. remoteSystem' = Updated(Updated(remoteSystem, p, q, Unassigned), q, p, other)
  BY <1>1, <1>2 DEF Typed, Slots, Updated
<1> HIDE DEF other
<1>5. remoteSystem' \in Slots /\ Mode(p, q)' = "unassigned" /\ OnlyMode(p, q)
  BY <1>1, <1>3, <1>4, UnassignedGood, BothSlotsChange
<1>6. late' \in LatePackets
  BY <1>1, UnderWayGood DEF Fail
<1>7. RestOK'
  BY <1>1, RestIsKept DEF Fail, Typed
<1>8. known' \in Knowledge /\ OnlyTold(p, q) /\ ToldOfSlot(p, q)
  <2>1. CASE ToldOfFailure(remoteSystem[p][q])
    <3>1. Tells(p, q, "nothing")
      BY <2>1 DEF Fail
    <3>2. known' \in Knowledge /\ known'[p][q] = "nothing" /\ OnlyTold(p, q)
      BY <1>1, <3>1, TellsGood
    <3>3. QED
      BY <1>5, <3>2 DEF ToldOfSlot
  <2>2. CASE ~ToldOfFailure(remoteSystem[p][q])
    <3>1. UNCHANGED known
      BY <2>2 DEF Fail
    <3>2. known' \in Knowledge /\ OnlyTold(p, q)
      BY <1>1, <3>1, TellsNothing
    <3>3. Mode(p, q) # "CONNECTED"
      BY <2>2 DEF ToldOfFailure, Mode
    <3>4. QED
      BY <1>5, <3>2, <3>3 DEF ToldOfSlot
  <2>3. QED
    BY <2>1, <2>2
<1>9. QED
  BY <1>5, <1>6, <1>7, <1>8, SlotStep

\* A restart gives all slots away and forgets what its user knew.
LEMMA RestartStep ==
  ASSUME ConnectionInv, NEW p \in Peers, Restart(p)
  PROVE  ConnectionInv' /\ EndsToldNow
<1>1. Typed /\ RestOK
  BY DEF ConnectionInv, Typed
<1>2. remoteSystem' \in Slots
  BY <1>1, UnassignedGood DEF Restart, Typed, Slots
<1>3. late' \in LatePackets
  BY <1>1, UnderWayGood DEF Restart
<1>4. known' \in Knowledge
  BY <1>1 DEF Restart, Typed, Knowledge
<1>5. RestOK'
  <2>1. calls' \in 0 .. MaxCalls
    BY <1>1, CallCounted DEF Restart
  <2>2. requests' \in [Peers -> [Peers -> Seq(Nat)]]
    <3>1. [q \in Peers |-> <<>>] \in [Peers -> Seq(Nat)]
      OBVIOUS
    <3>2. QED
      BY <1>1, <3>1 DEF Restart, RestOK
  <2>3. commands' \in [Peers -> Seq(Commands)]
    BY <1>1 DEF Restart, RestOK
  <2>4. /\ calling' \in [Peers -> SUBSET Peers] /\ banned' \in [Peers -> SUBSET Peers]
        /\ allowed' \in [Peers -> Nat] /\ UNCHANGED offline
    BY <1>1, ConnectionConstants DEF Restart, RestOK
  <2>5. QED
    BY <1>1, <2>1, <2>2, <2>3, <2>4 DEF RestOK
<1>6. ASSUME NEW r \in Peers, NEW s \in Peers
      PROVE  /\ r = p => Mode(r, s)' = "unassigned" /\ known'[r][s] = "nothing"
             /\ r # p => Mode(r, s)' = Mode(r, s) /\ known'[r][s] = known[r][s]
  BY <1>1, UnassignedGood DEF Restart, Mode, Typed, Slots, Knowledge
<1>7. Told'
  BY <1>6 DEF ConnectionInv, Told
<1>8. EndsToldNow
  BY <1>6 DEF EndsToldNow
<1>9. QED
  BY <1>2, <1>3, <1>4, <1>5, <1>7, <1>8, Zenon DEF ConnectionInv, Typed

\* Whatever arrives.
LEMMA ReceiveStep ==
  ASSUME ConnectionInv, NEW p \in Peers, NEW q \in Peers, p # q, Receive(p, q)
  PROVE  ConnectionInv' /\ EndsToldNow
<1>1. CASE TakeDuplicate(p, q)
  BY <1>1, DuplicateStep
<1>2. CASE HandleConnectionRequest(p, q)
  BY <1>2, RequestStep
<1>3. CASE HandleNonsense(p, q)
  BY <1>3, NonsenseStep
<1>4. CASE HandleNewIncomingConnection(p, q)
  BY <1>4, NewIncomingStep
<1>5. CASE HandleDisconnectionNotification(p, q)
  BY <1>5, NotificationStep
<1>6. CASE HandleConnectionRequestAccepted(p, q)
  BY <1>6, AcceptedStep
<1>7. CASE HandleOther(p, q)
  BY <1>7, OtherStep
<1>8. QED
  BY <1>1, <1>2, <1>3, <1>4, <1>5, <1>6, <1>7, Zenon DEF Receive

\* Every step.
LEMMA Stepwise ==
  ASSUME ConnectionInv, CallsInv, [Next]_vars
  PROVE  ConnectionInv' /\ EndsToldNow
<1>1. ASSUME NEW p \in Peers, Restart(p) \/ SetMaximumIncomingConnections(p) \/ Execute(p)
      PROVE  ConnectionInv' /\ EndsToldNow
  BY <1>1, RestartStep, MaximumStep, ExecuteStep, Zenon
<1>2. ASSUME NEW p \in Peers, NEW q \in Peers \ {p},
             \/ q \in Targets[p] /\ Connect(p, q)
             \/ ConnectReturns(p, q) \/ Send(p, q) \/ CloseConnection(p, q)
             \/ SendRequest(p, q) \/ OpenRequestArrives(p, q) \/ OpenReplyArrives(p, q)
             \/ SendKeepAlive(p, q) \/ Fail(p, q) \/ BanEnds(p, q)
             \/ Receive(p, q)
      PROVE  ConnectionInv' /\ EndsToldNow
  <2>1. q \in Peers /\ p # q
    OBVIOUS
  <2>2. CASE Connect(p, q) \/ ConnectReturns(p, q)
    BY <2>1, <2>2, ConnectStep, ConnectReturnsStep, Zenon
  <2>3. CASE Send(p, q)
    BY <2>1, <2>3, CommandStep DEF Send
  <2>4. CASE CloseConnection(p, q)
    BY <2>1, <2>4, CommandStep DEF CloseConnection
  <2>5. CASE SendRequest(p, q) \/ OpenRequestArrives(p, q) \/ OpenReplyArrives(p, q)
    BY <2>1, <2>5, SendRequestStep, OpenRequestStep, OpenReplyStep, Zenon
  <2>6. CASE SendKeepAlive(p, q) \/ Fail(p, q) \/ BanEnds(p, q)
    BY <2>1, <2>6, KeepAliveStep, FailStep, BanEndsStep, Zenon
  <2>7. CASE Receive(p, q)
    BY <2>1, <2>7, ReceiveStep
  <2>8. QED
    BY <1>2, <2>2, <2>3, <2>4, <2>5, <2>6, <2>7, Zenon
<1>3. CASE OfflineIsLost
  BY <1>3, LossStep
<1>4. CASE UNCHANGED vars
  <2>1. UNCHANGED <<remoteSystem, late, known, offline, user, banned, calls>>
    BY <1>4 DEF vars, user
  <2>2. RestOK'
    BY <2>1, RestIsKept DEF ConnectionInv, Typed
  <2>3. QED
    BY <2>1, <2>2, QuietStep
<1>5. QED
  BY <1>1, <1>2, <1>3, <1>4, Zenon DEF Next

-----------------------------------------------------------------------------
(* Calls of Connect and their requests *)

\* Nobody has called Connect at first.
LEMMA NobodyAsks == Init => CallsInv
BY DEF Init, CallsInv, Waits, Asks, AsksTarget

\* Of all calls and commands only p's for q change; others go at most.
OnlyAsks(p, q) ==
  \A r, s \in Peers : r # p \/ s # q =>
    /\ s \in calling'[r] <=> s \in calling[r]
    /\ requests'[r][s] = requests[r][s]
    /\ NoCommand(r, s) => NoCommand(r, s)'
    /\ <<r, s, "REQUEST">> \in offline' => <<r, s, "REQUEST">> \in offline

\* It is enough to look at the one pair that a step changes.
LEMMA PairSuffices ==
  ASSUME CallsInv, NEW p \in Peers, NEW q \in Peers, OnlyMode(p, q), OnlyTold(p, q),
         OnlyAsks(p, q), Waits(p, q)', AsksTarget(p, q)'
  PROVE  CallsInv'
<1> SUFFICES ASSUME NEW r \in Peers, NEW s \in Peers, r # p \/ s # q
             PROVE  Waits(r, s)' /\ AsksTarget(r, s)'
  BY DEF CallsInv
<1>1. /\ Mode(r, s)' = Mode(r, s) /\ known'[r][s] = known[r][s]
      /\ s \in calling'[r] <=> s \in calling[r]
      /\ requests'[r][s] = requests[r][s]
      /\ NoCommand(r, s) => NoCommand(r, s)'
      /\ <<r, s, "REQUEST">> \in offline' => <<r, s, "REQUEST">> \in offline
  BY DEF OnlyMode, OnlyTold, OnlyAsks
<1>2. Waits(r, s) /\ AsksTarget(r, s)
  BY DEF CallsInv
<1>3. QED
  BY <1>1, <1>2 DEF Waits, Asks, AsksTarget, IsAssigned

\* A step that leaves calls and commands alone, and a slot of which nobody asks.
LEMMA SlotOfNobody ==
  ASSUME CallsInv, NEW p \in Peers, NEW q \in Peers, OnlyMode(p, q), OnlyTold(p, q),
         ~Asks(p, q), UNCHANGED <<calling, requests, commands>>,
         \A r, s \in Peers : <<r, s, "REQUEST">> \in offline' => <<r, s, "REQUEST">> \in offline
  PROVE  CallsInv'
<1>1. OnlyAsks(p, q)
  BY DEF OnlyAsks, NoCommand
<1>2. Waits(p, q)'
  BY DEF Waits, Asks
<1>3. AsksTarget(p, q)'
  BY DEF CallsInv, AsksTarget
<1>4. QED
  BY <1>1, <1>2, <1>3, PairSuffices

\* A step that leaves slots alone as well.
LEMMA NothingAsked ==
  ASSUME CallsInv, UNCHANGED <<remoteSystem, known, calling, requests, commands>>,
         \A r, s \in Peers : <<r, s, "REQUEST">> \in offline' => <<r, s, "REQUEST">> \in offline
  PROVE  CallsInv'
<1> SUFFICES ASSUME NEW r \in Peers, NEW s \in Peers
             PROVE  Waits(r, s)' /\ AsksTarget(r, s)'
  BY DEF CallsInv
<1>1. Waits(r, s) /\ AsksTarget(r, s)
  BY DEF CallsInv
<1>2. Asks(r, s)' <=> Asks(r, s)
  BY DEF Asks
<1>3. NoCommand(r, s)' <=> NoCommand(r, s)
  BY DEF NoCommand
<1>4. Waits(r, s)'
  BY <1>1, <1>2, <1>3 DEF Waits, IsAssigned, Mode
<1>5. AsksTarget(r, s)'
  BY <1>1 DEF AsksTarget
<1>6. QED
  BY <1>4, <1>5

\* p's slot for q, and what is unacknowledged at the other end.
LEMMA OnlyBecomes ==
  ASSUME Typed, NEW p \in Peers, NEW q \in Peers, p # q, NEW slot, NEW unacked,
         remoteSystem' = [remoteSystem EXCEPT ![p][q] = slot, ![q][p].unacked = unacked]
  PROVE  OnlyMode(p, q)
<1>1. remoteSystem \in [Peers -> [Peers -> GoodSlot]] /\ GoodSlot \subseteq Slot
  BY DEF Typed, Slots, GoodSlot
<1> SUFFICES ASSUME NEW r \in Peers, NEW s \in Peers, r # p \/ s # q
             PROVE  remoteSystem'[r][s].connectMode = remoteSystem[r][s].connectMode
  BY DEF OnlyMode, Mode
<1>2. CASE r = q /\ s = p
  <2>1. remoteSystem'[q][p] = [remoteSystem[q][p] EXCEPT !.unacked = unacked]
    BY <1>1
  <2>2. remoteSystem[q][p] \in Slot
    BY <1>1
  <2>3. QED
    BY <1>2, <2>1, <2>2 DEF Slot
<1>3. CASE r # q \/ s # p
  BY <1>1, <1>3
<1>4. QED
  BY <1>2, <1>3

\* A packet comes to a slot that is assigned, so nobody asks for it.
LEMMA ReceiveCalls ==
  ASSUME Typed, CallsInv, NEW p \in Peers, NEW q \in Peers, p # q, Receive(p, q)
  PROVE  CallsInv'
<1>1. /\ \E d \in Arriving(p, q) : \E slot : Becomes(p, q, d, slot)
      /\ UNCHANGED <<offline, user>>
      /\ \/ UNCHANGED known
         \/ \E what \in {"nothing", "requested", "connected"} : Tells(p, q, what)
  <2>1. CASE TakeDuplicate(p, q)
    BY <2>1 DEF TakeDuplicate
  <2>2. CASE HandleConnectionRequest(p, q)
    BY <2>2 DEF HandleConnectionRequest
  <2>3. CASE HandleNonsense(p, q)
    BY <2>3 DEF HandleNonsense
  <2>4. CASE HandleNewIncomingConnection(p, q)
    BY <2>4 DEF HandleNewIncomingConnection
  <2>5. CASE HandleDisconnectionNotification(p, q)
    BY <2>5 DEF HandleDisconnectionNotification
  <2>6. CASE HandleConnectionRequestAccepted(p, q)
    BY <2>6 DEF HandleConnectionRequestAccepted
  <2>7. CASE HandleOther(p, q)
    BY <2>7 DEF HandleOther
  <2>8. QED
    BY <2>1, <2>2, <2>3, <2>4, <2>5, <2>6, <2>7, Zenon DEF Receive
<1>2. OnlyMode(p, q)
  BY <1>1, OnlyBecomes DEF Becomes
<1>3. OnlyTold(p, q)
  BY <1>1, TellsGood, TellsNothing
<1>4. ~Asks(p, q)
  BY <1>1 DEF Arriving, CallsInv, Waits
<1>5. QED
  BY <1>1, <1>2, <1>3, <1>4, SlotOfNobody DEF user

\* A slot that ends or sends is assigned.
LEMMA SlotCalls ==
  ASSUME Typed, CallsInv, NEW p \in Peers, NEW q \in Peers, p # q,
         Fail(p, q) \/ SendKeepAlive(p, q)
  PROVE  CallsInv'
<1>1. CASE Fail(p, q)
  <2>1. /\ \E slot, unacked :
             remoteSystem' = [remoteSystem EXCEPT ![p][q] = slot, ![q][p].unacked = unacked]
        /\ IsAssigned(p, q) /\ UNCHANGED <<offline, user>>
        /\ Tells(p, q, "nothing") \/ UNCHANGED known
    <3>1. PICK came : remoteSystem' =
            [remoteSystem EXCEPT ![p][q] = Unassigned, ![q][p].unacked = @ \ came]
      BY <1>1 DEF Fail
    <3>2. remoteSystem' = [remoteSystem EXCEPT ![p][q] = Unassigned,
                             ![q][p].unacked = remoteSystem[q][p].unacked \ came]
      BY <3>1 DEF Typed, Slots
    <3>3. QED
      BY <1>1, <3>2 DEF Fail
  <2>2. OnlyMode(p, q) /\ OnlyTold(p, q)
    BY <2>1, OnlyBecomes, TellsGood, TellsNothing
  <2>3. ~Asks(p, q)
    BY <2>1 DEF CallsInv, Waits
  <2>4. QED
    BY <2>1, <2>2, <2>3, SlotOfNobody DEF user
<1>2. CASE SendKeepAlive(p, q)
  <2>1. /\ remoteSystem' = [remoteSystem EXCEPT ![p][q].unacked = {KeepAlive}]
        /\ UNCHANGED <<offline, user, known>> /\ IsAssigned(p, q)
    BY <1>2 DEF SendKeepAlive, IsAssigned
  <2>2. OnlyMode(p, q) /\ OnlyTold(p, q)
    BY <2>1, TellsNothing DEF OnlyMode, Mode, Typed, Slots
  <2>3. ~Asks(p, q)
    BY <2>1 DEF CallsInv, Waits
  <2>4. QED
    BY <2>1, <2>2, <2>3, SlotOfNobody DEF user
<1>3. QED
  BY <1>1, <1>2

\* A request comes from a peer that has the other one as a target, so that the other does
\* not ask for it.
LEMMA OpenRequestCalls ==
  ASSUME Typed, CallsInv, NEW p \in Peers, NEW q \in Peers, OpenRequestArrives(p, q)
  PROVE  CallsInv'
<1>1. /\ \/ remoteSystem' = Updated(remoteSystem, p, q, Assigned("UNVERIFIED_SENDER"))
         \/ UNCHANGED remoteSystem
      /\ \A r, s \in Peers : <<r, s, "REQUEST">> \in offline' => <<r, s, "REQUEST">> \in offline
      /\ UNCHANGED <<user, known>> /\ <<q, p, "REQUEST">> \in offline
  BY DEF OpenRequestArrives, Updated
<1>2. OnlyMode(p, q) /\ OnlyTold(p, q)
  BY <1>1, AssignedGood, SlotChanges, TellsNothing DEF OnlyMode, Mode
<1>3. ~Asks(p, q)
  BY <1>1, ConnectionConstants DEF CallsInv, Waits, AsksTarget
<1>4. QED
  BY <1>1, <1>2, <1>3, SlotOfNobody DEF user

\* The reply ends the request that it answers.
LEMMA OpenReplyCalls ==
  ASSUME Typed, CallsInv, NEW p \in Peers, NEW q \in Peers, OpenReplyArrives(p, q)
  PROVE  CallsInv'
<1>1. /\ UNCHANGED <<calling, commands, known>>
      /\ \A r, s \in Peers : <<r, s, "REQUEST">> \in offline' => <<r, s, "REQUEST">> \in offline
      /\ \/ UNCHANGED <<remoteSystem, requests>>
         \/ /\ requests[p][q] # <<>> /\ requests' = [requests EXCEPT ![p][q] = <<>>]
            /\ \/ UNCHANGED remoteSystem
               \/ \E slot : remoteSystem' = [remoteSystem EXCEPT ![p][q] = slot]
  BY Zenon DEF OpenReplyArrives
<1>2. CASE UNCHANGED <<remoteSystem, requests>>
  BY <1>1, <1>2, NothingAsked
<1>3. CASE requests[p][q] # <<>> /\ requests' = [requests EXCEPT ![p][q] = <<>>]
  <2>1. OnlyMode(p, q) /\ OnlyTold(p, q)
    BY <1>1, <1>3, TellsNothing DEF OnlyMode, Mode, Typed, Slots
  <2>2. OnlyAsks(p, q)
    BY <1>1, <1>3 DEF OnlyAsks, NoCommand, Typed, RestOK
  <2>3. q \notin calling[p]
    BY <1>3 DEF CallsInv, Waits, Asks
  <2>4. Waits(p, q)' /\ AsksTarget(p, q)'
    <3>1. ~Asks(p, q)'
      BY <1>1, <1>3, <2>3 DEF Asks, Typed, RestOK
    <3>2. QED
      BY <1>1, <3>1 DEF CallsInv, Waits, AsksTarget
  <2>5. QED
    BY <2>1, <2>2, <2>4, PairSuffices
<1>4. QED
  BY <1>1, <1>2, <1>3

\* Connect is called when nothing is under way, and makes one request.
LEMMA ConnectCalls ==
  ASSUME Typed, CallsInv, NEW p \in Peers, NEW q \in Peers,
         \/ q \in Targets[p] /\ Connect(p, q)
         \/ ConnectReturns(p, q)
         \/ SendRequest(p, q)
  PROVE  CallsInv'
<1>1. UNCHANGED <<remoteSystem, commands>>
  BY DEF Connect, ConnectReturns, SendRequest
<1>2. requests[p][q] \in Seq(Nat) /\ calling \in [Peers -> SUBSET Peers]
  BY DEF Typed, RestOK
<1>3. OnlyMode(p, q) /\ OnlyTold(p, q)
  <2>1. OnlyMode(p, q)
    BY <1>1 DEF OnlyMode, Mode
  <2>2. \/ UNCHANGED known
        \/ \E what \in {"nothing", "requested", "connected"} : Tells(p, q, what)
    BY DEF Connect, ConnectReturns, SendRequest
  <2>3. QED
    BY <2>1, <2>2, TellsGood, TellsNothing
<1>4. CASE q \in Targets[p] /\ Connect(p, q)
  <2>1. /\ known[p][q] = "nothing" /\ ~IsAssigned(p, q) /\ q \notin calling[p]
        /\ \A i \in 1 .. Len(commands[p]) : commands[p][i].to # q
        /\ calling' = [calling EXCEPT ![p] = @ \cup {q}]
        /\ UNCHANGED <<offline, requests, known>>
    BY <1>4 DEF Connect
  <2>2. NoCommand(p, q) /\ DOMAIN commands[p] = 1 .. Len(commands[p])
    BY <2>1 DEF NoCommand, Typed, RestOK
  <2>3. requests[p][q] = <<>>
    BY <2>1 DEF CallsInv, Waits, Asks
  <2>4. OnlyAsks(p, q)
    BY <1>1, <1>2, <2>1 DEF OnlyAsks, NoCommand
  <2>5. Waits(p, q)' /\ AsksTarget(p, q)'
    BY <1>1, <1>2, <1>4, <2>1, <2>2, <2>3
       DEF CallsInv, Waits, AsksTarget, IsAssigned, Mode, NoCommand
  <2>6. QED
    BY <1>3, <2>4, <2>5, PairSuffices
<1>5. CASE ConnectReturns(p, q)
  <2>1. /\ q \in calling[p] /\ calling' = [calling EXCEPT ![p] = @ \ {q}]
        /\ requests' = [requests EXCEPT ![p][q] = Append(@, 0)]
        /\ Tells(p, q, "requested") /\ UNCHANGED offline
    BY <1>5 DEF ConnectReturns
  <2>2. requests[p][q] = <<>> /\ q \in Targets[p] /\ ~IsAssigned(p, q) /\ NoCommand(p, q)
    BY <2>1 DEF CallsInv, Waits, Asks
  <2>3. requests'[p][q] = <<0>> /\ known'[p][q] = "requested" /\ q \notin calling'[p]
    <3>1. requests'[p][q] = Append(requests[p][q], 0)
      BY <2>1 DEF Typed, RestOK
    <3>2. QED
      BY <1>2, <2>1, <2>2, <3>1, TellsGood
  <2>4. OnlyAsks(p, q)
    BY <1>1, <1>2, <2>1 DEF OnlyAsks, NoCommand, Typed, RestOK
  <2>5. Waits(p, q)' /\ AsksTarget(p, q)'
    BY <1>1, <2>1, <2>2, <2>3 DEF CallsInv, Waits, AsksTarget, IsAssigned, Mode, NoCommand
  <2>6. QED
    BY <1>3, <2>4, <2>5, PairSuffices
<1>6. CASE SendRequest(p, q)
  <2>1. PICK i \in 1 .. Len(requests[p][q]) :
          IF requests[p][q][i] < MaxRequests
          THEN /\ requests' = [requests EXCEPT ![p][q][i] = @ + 1]
               /\ offline' = offline \cup {<<p, q, "REQUEST">>}
               /\ UNCHANGED known
          ELSE /\ requests' = [requests EXCEPT ![p][q] =
                    [j \in 1 .. Len(@) - 1 |-> IF j < i THEN @[j] ELSE @[j + 1]]]
               /\ Tells(p, q, "nothing") /\ UNCHANGED offline
    BY <1>6 DEF SendRequest
  <2>2. UNCHANGED calling
    BY <1>6 DEF SendRequest
  <2>3. requests[p][q] # <<>>
    BY <1>2, <2>1
  <2>4. /\ q \notin calling[p] /\ q \in Targets[p] /\ ~IsAssigned(p, q) /\ NoCommand(p, q)
        /\ Len(requests[p][q]) = 1 /\ known[p][q] = "requested"
    BY <2>3 DEF CallsInv, Waits, Asks
  <2>5. OnlyAsks(p, q)
    <3>1. \A r, s \in Peers : (r # p \/ s # q) /\ <<r, s, "REQUEST">> \in offline' =>
            <<r, s, "REQUEST">> \in offline
      BY <2>1
    <3>2. \E list : requests' = [requests EXCEPT ![p][q] = list]
      <4>1. CASE requests[p][q][i] < MaxRequests
        <5> DEFINE list == [requests[p][q] EXCEPT ![i] = @ + 1]
        <5>1. requests' = [requests EXCEPT ![p][q] = list]
          BY <2>1, <4>1 DEF Typed, RestOK
        <5> HIDE DEF list
        <5>2. QED
          BY <5>1
      <4>2. CASE ~(requests[p][q][i] < MaxRequests)
        <5> DEFINE list == [j \in 1 .. Len(requests[p][q]) - 1 |->
                              IF j < i THEN requests[p][q][j] ELSE requests[p][q][j + 1]]
        <5>1. requests' = [requests EXCEPT ![p][q] = list]
          BY <2>1, <4>2 DEF Typed, RestOK
        <5> HIDE DEF list
        <5>2. QED
          BY <5>1
      <4>3. QED
        BY <4>1, <4>2
    <3>3. \A r, s \in Peers : r # p \/ s # q => requests'[r][s] = requests[r][s]
      BY <3>2 DEF Typed, RestOK
    <3>4. QED
      BY <1>1, <2>2, <3>1, <3>3 DEF OnlyAsks, NoCommand
  <2>6. CASE requests[p][q][i] < MaxRequests
    <3>1. requests'[p][q] = [requests[p][q] EXCEPT ![i] = @ + 1] /\ UNCHANGED known
      BY <2>1, <2>6 DEF Typed, RestOK
    <3>2. Len(requests'[p][q]) = 1
      BY <1>2, <2>4, <3>1
    <3>3. Waits(p, q)' /\ AsksTarget(p, q)'
      BY <1>1, <2>2, <2>4, <3>1, <3>2 DEF Waits, AsksTarget, IsAssigned, Mode, NoCommand
    <3>4. QED
      BY <1>3, <2>5, <3>3, PairSuffices
  <2>7. CASE ~(requests[p][q][i] < MaxRequests)
    <3> DEFINE list == [j \in 1 .. Len(requests[p][q]) - 1 |->
                          IF j < i THEN requests[p][q][j] ELSE requests[p][q][j + 1]]
    <3>1. requests' = [requests EXCEPT ![p][q] = list]
      BY <2>1, <2>7 DEF Typed, RestOK
    <3>2. list = <<>>
      BY <2>4
    <3> HIDE DEF list
    <3>3. requests'[p][q] = <<>>
      BY <3>1, <3>2 DEF Typed, RestOK
    <3>4. Waits(p, q)' /\ AsksTarget(p, q)'
      BY <2>1, <2>2, <2>4, <2>7, <3>3 DEF Waits, Asks, AsksTarget
    <3>5. QED
      BY <1>3, <2>5, <3>4, PairSuffices
  <2>8. QED
    BY <2>6, <2>7
<1>7. QED
  BY <1>4, <1>5, <1>6

\* A command is given for a connection that is there or that the user knows of.
LEMMA CommandCalls ==
  ASSUME Typed, CallsInv, NEW p \in Peers, NEW q \in Peers, Send(p, q) \/ CloseConnection(p, q)
  PROVE  CallsInv'
<1>1. PICK c : Command(p, q, c)
  BY DEF Send, CloseConnection
<1>2. ~Asks(p, q)
  BY DEF Send, CloseConnection, CallsInv, Waits, IsAssigned
<1>3. /\ commands' = [commands EXCEPT ![p] = Append(commands[p], [command |-> c, to |-> q])]
      /\ UNCHANGED <<remoteSystem, known, offline, requests, calling>>
  BY <1>1 DEF Command
<1>4. ASSUME NEW s \in Peers, s # q, NoCommand(p, s)
      PROVE  NoCommand(p, s)'
  <2> DEFINE d == [command |-> c, to |-> q]
  <2>1. d.to = q
    OBVIOUS
  <2> HIDE DEF d
  <2>2. commands[p] \in Seq(Commands) /\ commands'[p] = Append(commands[p], d)
    BY <1>3 DEF Typed, RestOK, d
  <2>3. ASSUME NEW i \in DOMAIN Append(commands[p], d)
        PROVE  \/ Append(commands[p], d)[i] = d
               \/ i \in DOMAIN commands[p] /\ Append(commands[p], d)[i] = commands[p][i]
    BY <2>2, <2>3
  <2>4. QED
    BY <1>4, <2>1, <2>2, <2>3 DEF NoCommand
<1>5. OnlyAsks(p, q)
  <2> SUFFICES ASSUME NEW r \in Peers, NEW s \in Peers, r # p \/ s # q, NoCommand(r, s)
               PROVE  NoCommand(r, s)'
    BY <1>3 DEF OnlyAsks
  <2>1. CASE r = p
    BY <1>4, <2>1
  <2>2. CASE r # p
    <3>1. commands'[r] = commands[r]
      BY <1>3, <2>2 DEF Typed, RestOK
    <3>2. QED
      BY <3>1 DEF NoCommand
  <2>3. QED
    BY <2>1, <2>2
<1>6. OnlyMode(p, q) /\ OnlyTold(p, q)
  BY <1>3 DEF OnlyMode, Mode, OnlyTold
<1>7. Waits(p, q)' /\ AsksTarget(p, q)'
  BY <1>2, <1>3 DEF CallsInv, Waits, Asks, AsksTarget
<1>8. QED
  BY <1>5, <1>6, <1>7, PairSuffices

\* The command that is executed is for a peer that nobody asks.
LEMMA ExecuteCalls ==
  ASSUME Typed, CallsInv, NEW p \in Peers, Execute(p)
  PROVE  CallsInv'
<1>1. /\ commands[p] \in Seq(Commands) /\ commands[p] # <<>> /\ commands \in [Peers -> Seq(Commands)]
      /\ commands' = [commands EXCEPT ![p] = Tail(commands[p])]
      /\ UNCHANGED <<offline, requests, calling>>
  BY DEF Execute, Typed, RestOK
<1> DEFINE c == Head(commands[p])
<1>2. PICK q \in Peers : /\ q = c.to /\ 1 \in DOMAIN commands[p] /\ c = commands[p][1]
                         /\ c.command \in {"SEND", "NOTIFY", "CLOSE"}
  <2>1. c \in Commands /\ c = commands[p][1] /\ 1 \in DOMAIN commands[p]
    BY <1>1
  <2> HIDE DEF c
  <2>2. c.to \in Peers /\ c.command \in {"SEND", "NOTIFY", "CLOSE"}
    BY <2>1 DEF Commands
  <2>3. QED
    BY <2>1, <2>2
<1>3. ~Asks(p, q)
  BY <1>2 DEF CallsInv, Waits, NoCommand
<1>4. \E slot : remoteSystem' = [remoteSystem EXCEPT ![p][q] = slot]
  <2> DEFINE found == IF Assignable(p, q) THEN Assigned("DISCONNECT_ASAP") ELSE remoteSystem[p][q]
  <2>1. CASE Head(commands[p]).command = "SEND"
    <3>1. remoteSystem' = [remoteSystem EXCEPT ![p][q] = Sent(@, "user data")]
      BY <1>2, <2>1 DEF Execute
    <3>2. remoteSystem' = [remoteSystem EXCEPT ![p][q] = Sent(remoteSystem[p][q], "user data")]
      BY <3>1
    <3>3. QED
      BY <3>2
  <2>2. CASE Head(commands[p]).command = "NOTIFY"
    <3>1. remoteSystem' = [remoteSystem EXCEPT ![p][q] =
            IF found.connectMode = "unassigned" THEN found ELSE NotifiedAndFlagged(found)]
      BY <1>2, <2>2 DEF Execute
    <3>2. QED
      BY <3>1
  <2>3. CASE Head(commands[p]).command = "CLOSE"
    BY <1>2, <2>3 DEF Execute
  <2>4. QED
    BY <1>2, <2>1, <2>2, <2>3
<1>5. UNCHANGED known \/ Tells(p, q, "nothing")
  BY <1>2 DEF Execute
<1>6. OnlyMode(p, q) /\ OnlyTold(p, q)
  <2>1. OnlyMode(p, q)
    BY <1>2, <1>4 DEF OnlyMode, Mode, Typed, Slots
  <2>2. QED
    BY <1>2, <1>5, <2>1, TellsGood, TellsNothing
<1>7. ASSUME NEW s, NoCommand(p, s)
      PROVE  NoCommand(p, s)'
  <2>1. \A i \in DOMAIN Tail(commands[p]) :
          i + 1 \in DOMAIN commands[p] /\ Tail(commands[p])[i] = commands[p][i + 1]
    BY <1>1
  <2>2. commands'[p] = Tail(commands[p])
    BY <1>1
  <2>3. QED
    BY <1>7, <2>1, <2>2 DEF NoCommand
<1>8. OnlyAsks(p, q)
  <2> SUFFICES ASSUME NEW r \in Peers, NEW s \in Peers, NoCommand(r, s)
               PROVE  NoCommand(r, s)'
    BY <1>1 DEF OnlyAsks
  <2>1. CASE r = p
    BY <1>7, <2>1
  <2>2. CASE r # p
    <3>1. commands'[r] = commands[r]
      BY <1>1, <2>2
    <3>2. QED
      BY <3>1 DEF NoCommand
  <2>3. QED
    BY <2>1, <2>2
<1>9. Waits(p, q)' /\ AsksTarget(p, q)'
  BY <1>1, <1>2, <1>3 DEF CallsInv, Waits, Asks, AsksTarget
<1>10. QED
  BY <1>2, <1>6, <1>8, <1>9, PairSuffices

\* A new process has called nobody.
LEMMA RestartCalls ==
  ASSUME Typed, CallsInv, NEW p \in Peers, Restart(p)
  PROVE  CallsInv'
<1> SUFFICES ASSUME NEW r \in Peers, NEW s \in Peers
             PROVE  Waits(r, s)' /\ AsksTarget(r, s)'
  BY DEF CallsInv
<1>1. /\ remoteSystem' = [remoteSystem EXCEPT ![p] = [q \in Peers |-> Unassigned]]
      /\ requests' = [requests EXCEPT ![p] = [q \in Peers |-> <<>>]]
      /\ calling' = [calling EXCEPT ![p] = {}]
      /\ commands' = [commands EXCEPT ![p] = <<>>]
      /\ known' = [known EXCEPT ![p] = [q \in Peers |-> "nothing"]]
      /\ UNCHANGED offline
  BY DEF Restart
<1>2. CASE r = p
  <2>1. ~Asks(r, s)'
    BY <1>1, <1>2 DEF Asks, Typed, RestOK
  <2>2. QED
    BY <1>1, <2>1 DEF Waits, AsksTarget, CallsInv
<1>3. CASE r # p
  <2>1. /\ remoteSystem'[r] = remoteSystem[r] /\ requests'[r] = requests[r]
        /\ calling'[r] = calling[r] /\ commands'[r] = commands[r] /\ known'[r] = known[r]
    BY <1>1, <1>3 DEF Typed, RestOK, Slots, Knowledge
  <2>2. QED
    BY <1>1, <2>1 DEF CallsInv, Waits, Asks, AsksTarget, IsAssigned, Mode, NoCommand
<1>4. QED
  BY <1>2, <1>3

\* Every step.
LEMMA CallsStepwise ==
  ASSUME Typed, CallsInv, [Next]_vars
  PROVE  CallsInv'
<1>1. ASSUME NEW p \in Peers, Restart(p) \/ SetMaximumIncomingConnections(p) \/ Execute(p)
      PROVE  CallsInv'
  <2>1. CASE SetMaximumIncomingConnections(p)
    BY <2>1, NothingAsked DEF SetMaximumIncomingConnections
  <2>2. QED
    BY <1>1, <2>1, RestartCalls, ExecuteCalls
<1>2. ASSUME NEW p \in Peers, NEW q \in Peers \ {p},
             \/ q \in Targets[p] /\ Connect(p, q)
             \/ ConnectReturns(p, q) \/ Send(p, q) \/ CloseConnection(p, q)
             \/ SendRequest(p, q) \/ OpenRequestArrives(p, q) \/ OpenReplyArrives(p, q)
             \/ SendKeepAlive(p, q) \/ Fail(p, q) \/ BanEnds(p, q)
             \/ Receive(p, q)
      PROVE  CallsInv'
  <2>1. q \in Peers /\ p # q
    OBVIOUS
  <2>2. CASE BanEnds(p, q)
    BY <2>2, NothingAsked DEF BanEnds, user
  <2>3. QED
    BY <1>2, <2>1, <2>2, ConnectCalls, CommandCalls, OpenRequestCalls, OpenReplyCalls,
       SlotCalls, ReceiveCalls, Zenon
<1>3. CASE OfflineIsLost
  BY <1>3, NothingAsked DEF OfflineIsLost, user
<1>4. CASE UNCHANGED vars
  BY <1>4, NothingAsked DEF vars
<1>5. QED
  BY <1>1, <1>2, <1>3, <1>4, Zenon DEF Next

-----------------------------------------------------------------------------
(* Theorems *)

\* Whatever a peer's user has been told, of every connection that is there it was told
\* last that it is: for any number of peers, any interleaving and any late packets.
THEOREM ConnectionsAreKnown == Spec => []UserKnowsConnections
<1>1. ConnectionInv /\ CallsInv /\ [Next]_vars => (ConnectionInv /\ CallsInv)'
  BY Stepwise, CallsStepwise DEF ConnectionInv
<1>2. QED
  BY <1>1, Initially, NobodyAsks, InvImplies, PTL DEF Spec

\* The user is told of every end of a connection but the one by a second acceptance.  The
\* invariant is needed for one case: a request that ends a connection would have to be
\* new, and the connection's first packet was one.
THEOREM EveryEndIsTold == Spec => EndsAreTold
<1>1. ConnectionInv /\ CallsInv /\ [Next]_vars => (ConnectionInv /\ CallsInv)'
  BY Stepwise, CallsStepwise DEF ConnectionInv
<1>2. ConnectionInv /\ CallsInv /\ [Next]_vars =>
        [\A p, q \in Peers :
           Mode(p, q) = "CONNECTED" /\ Mode(p, q)' # "CONNECTED" =>
             \/ known'[p][q] = "nothing"
             \/ \E d \in Arriving(p, q) :
                  d.message = "CONNECTION_REQUEST_ACCEPTED" /\ ~Taken(p, q, d)]_vars
  BY Stepwise DEF EndsToldNow, AcceptedAgain
<1>3. QED
  BY <1>1, <1>2, Initially, NobodyAsks, PTL DEF Spec, EndsAreTold

=============================================================================
