----------------------------- MODULE Connection -----------------------------
(***************************************************************************)
(* How peers of RakNet make, keep and end a connection (RakPeer.cpp): the   *)
(* calls of the user, which the network thread executes later, the offline  *)
(* datagrams that open a connection, and what is sent reliably over it.     *)
(*                                                                          *)
(* A reliability layer is what ReliabilityLayer shows of it: packets are    *)
(* numbered from 0, come in any order, are sent until they are acknowledged *)
(* and taken once.  When a slot is given away its layer starts again, and   *)
(* copies of the packets of the old one may be late.                        *)
(*                                                                          *)
(* Times are abstracted: every timeout may end at any time and does end.    *)
(* Left out: encryption, pings and static data (unreliable packets and ones *)
(* that change no connection), and peers that speak another protocol.       *)
(***************************************************************************)
EXTENDS Integers, Sequences, FiniteSets

CONSTANTS
  Peers,
  Targets,          \* Targets[p]: the peers to which p's user calls Connect
  MaxIncoming,      \* maximumIncomingConnections, as a peer starts
  ListSize,         \* remoteSystemListSize
  MaxRequests,      \* how often a request is sent: 3
  MaxLate,          \* bound: late packets
  MaxCalls          \* bound: calls of the users, and restarts

ASSUME ConnectionConstants ==
  /\ Targets \in [Peers -> SUBSET Peers]
  /\ \A p \in Peers : \A q \in Targets[p] : p # q /\ p \notin Targets[q]
  /\ {MaxIncoming, ListSize, MaxRequests, MaxLate, MaxCalls} \subseteq Nat

ConnectModes == {"unassigned", "UNVERIFIED_SENDER", "REQUESTED_CONNECTION",
                 "HANDLING_CONNECTION_REQUEST", "CONNECTED", "DISCONNECT_ASAP"}

Messages == {"CONNECTION_REQUEST", "CONNECTION_REQUEST_WRONG_PASSWORD",
             "CONNECTION_REQUEST_ACCEPTED", "NEW_INCOMING_CONNECTION",
             "NO_FREE_INCOMING_CONNECTIONS", "INVALID_PASSWORD",
             "DISCONNECTION_NOTIFICATION", "KEEPALIVE", "user data"}

Requests == {"CONNECTION_REQUEST", "CONNECTION_REQUEST_WRONG_PASSWORD"}

VARIABLES
  remoteSystem,   \* remoteSystem[p][q]: p's slot for q
  late,           \* <<p, q, packet>>: packets of p's former slots for q, under way
  offline,        \* OPEN_CONNECTION_REQUESTs and REPLYs under way
  requests,       \* requestedConnectionList: per request to q, how often it was sent
  calling,        \* peers to which Connect has found no connection yet
  commands,       \* bufferedCommands
  allowed,        \* maximumIncomingConnections
  banned,         \* banList of peers that spoke out of turn
  known,          \* known[p][q]: what p's user was told last of its connection with q
  calls

vars == <<remoteSystem, late, offline, requests, calling, commands, allowed,
          banned, known, calls>>

user == <<requests, calling, commands, allowed>>

-----------------------------------------------------------------------------
(* Slots *)

Unassigned == [connectMode |-> "unassigned", weInitiated |-> FALSE,
               next |-> 0, unacked |-> {}, got |-> {}]

Mode(p, q) == remoteSystem[p][q].connectMode
IsAssigned(p, q) == Mode(p, q) # "unassigned"

\* AssignPlayerIDToRemoteSystemList finds a slot.
Assignable(p, q) ==
  /\ ~IsAssigned(p, q)
  /\ Cardinality({r \in Peers : IsAssigned(p, r)}) < ListSize

Assigned(mode) == [Unassigned EXCEPT !.connectMode = mode]

Flagged(slot, mode) == [slot EXCEPT !.connectMode = mode]

\* SendImmediate of a reliable message.
Sent(slot, m) ==
  IF slot.connectMode = "unassigned" THEN slot
  ELSE [slot EXCEPT !.next = @ + 1,
                    !.unacked = @ \cup {[number |-> slot.next, message |-> m]}]

\* Sent over and over: that there is one is all that is kept of it.
Unnumbered == -1
KeepAlive == [number |-> Unnumbered, message |-> "KEEPALIVE"]

\* Mutant: the slot is notified of the end, and stays.
NotifiedOnly(slot) == Sent(slot, "DISCONNECTION_NOTIFICATION")

NotifiedAndFlagged(slot) ==
  Flagged(Sent(slot, "DISCONNECTION_NOTIFICATION"), "DISCONNECT_ASAP")

AllowIncomingConnections(p) ==
  Cardinality({q \in Peers : Mode(p, q) = "CONNECTED" /\ ~remoteSystem[p][q].weInitiated})
    < allowed[p]

Init ==
  /\ remoteSystem = [p \in Peers |-> [q \in Peers |-> Unassigned]]
  /\ late = {} /\ offline = {}
  /\ requests = [p \in Peers |-> [q \in Peers |-> <<>>]]
  /\ calling = [p \in Peers |-> {}]
  /\ commands = [p \in Peers |-> <<>>]
  /\ allowed = [p \in Peers |-> MaxIncoming]
  /\ banned = [p \in Peers |-> {}]
  /\ known = [p \in Peers |-> [q \in Peers |-> "nothing"]]
  /\ calls = 0

Tells(p, q, what) == known' = [known EXCEPT ![p][q] = what]

\* Of the packets in p's slots for the peers in qs, which are given away, any may
\* come late.
UnderWay(p, qs) ==
  LET gone == UNION {{<<p, q, d>> : d \in remoteSystem[p][q].unacked} : q \in qs}
  IN  {l \in {late \cup copies : copies \in SUBSET gone} : Cardinality(l) <= MaxLate}

-----------------------------------------------------------------------------
(* The user's calls *)

Calls == calls < MaxCalls /\ calls' = calls + 1

\* Connect has looked for a connection.  Its user knows of none, waits for the answer to
\* an earlier call, and closes none meanwhile.
Connect(p, q) ==
  /\ Calls
  /\ known[p][q] = "nothing" /\ ~IsAssigned(p, q) /\ q \notin calling[p]
  /\ \A i \in 1 .. Len(commands[p]) : commands[p][i].to # q
  /\ calling' = [calling EXCEPT ![p] = @ \cup {q}]
  /\ UNCHANGED <<remoteSystem, late, offline, requests, commands, allowed, banned, known>>

\* The end of SendConnectionRequest.
ConnectReturns(p, q) ==
  /\ q \in calling[p]
  /\ calling' = [calling EXCEPT ![p] = @ \ {q}]
  /\ requests' = [requests EXCEPT ![p][q] = Append(@, 0)]
  /\ Tells(p, q, "requested")
  /\ UNCHANGED <<remoteSystem, late, offline, commands, allowed, banned, calls>>

Command(p, q, command) ==
  /\ Calls /\ calling[p] = {}
  /\ commands' = [commands EXCEPT ![p] = Append(@, [command |-> command, to |-> q])]
  /\ UNCHANGED <<remoteSystem, late, offline, requests, calling, allowed, banned,
                 known>>

\* Send, to a valid target.
Send(p, q) == Mode(p, q) = "CONNECTED" /\ Command(p, q, "SEND")

\* CloseConnection, with a notification or without, of a peer that the user knows to be
\* connected, as masterserver.cpp:116 does with the sender of a packet.
CloseConnection(p, q) == known[p][q] = "connected" /\ \E c \in {"NOTIFY", "CLOSE"} : Command(p, q, c)

SetMaximumIncomingConnections(p) ==
  /\ Calls
  /\ \E n \in 0 .. MaxIncoming : allowed' = [allowed EXCEPT ![p] = n]
  /\ UNCHANGED <<remoteSystem, late, offline, requests, calling, commands, banned, known>>

\* The process of p ends and starts again.
Restart(p) ==
  /\ Calls
  /\ remoteSystem' = [remoteSystem EXCEPT ![p] = [q \in Peers |-> Unassigned]]
  /\ late' \in UnderWay(p, Peers)
  /\ requests' = [requests EXCEPT ![p] = [q \in Peers |-> <<>>]]
  /\ calling' = [calling EXCEPT ![p] = {}]
  /\ commands' = [commands EXCEPT ![p] = <<>>]
  /\ allowed' = [allowed EXCEPT ![p] = MaxIncoming]
  /\ banned' = [banned EXCEPT ![p] = {}]
  /\ known' = [known EXCEPT ![p] = [q \in Peers |-> "nothing"]]
  /\ UNCHANGED offline

-----------------------------------------------------------------------------
(* The network thread: commands and requests *)

\* The command at the head of bufferedCommands.  One that closes a connection which is
\* not there makes a slot for the notification.
Execute(p) ==
  /\ commands[p] # <<>>
  /\ commands' = [commands EXCEPT ![p] = Tail(@)]
  /\ LET q == Head(commands[p]).to
         slot == IF Assignable(p, q) THEN Assigned("DISCONNECT_ASAP") ELSE remoteSystem[p][q]
     IN  CASE Head(commands[p]).command = "SEND" ->
                /\ remoteSystem' = [remoteSystem EXCEPT ![p][q] = Sent(@, "user data")]
                /\ UNCHANGED <<late, known>>
           [] Head(commands[p]).command = "NOTIFY" ->
                /\ remoteSystem' = [remoteSystem EXCEPT ![p][q] =
                     IF slot.connectMode = "unassigned" THEN slot
                     ELSE NotifiedAndFlagged(slot)]
                /\ Tells(p, q, "nothing") /\ UNCHANGED late
           [] Head(commands[p]).command = "CLOSE" ->
                /\ remoteSystem' = [remoteSystem EXCEPT ![p][q] = Unassigned]
                /\ late' \in UnderWay(p, {q})
                /\ Tells(p, q, "nothing")
  /\ UNCHANGED <<offline, requests, calling, allowed, banned, calls>>

\* A request is due: it is sent again or given up, of which the user is told.
SendRequest(p, q) ==
  /\ \E i \in 1 .. Len(requests[p][q]) :
       IF requests[p][q][i] < MaxRequests
       THEN /\ requests' = [requests EXCEPT ![p][q][i] = @ + 1]
            /\ offline' = offline \cup {<<p, q, "REQUEST">>}
            /\ UNCHANGED known
       ELSE /\ requests' = [requests EXCEPT ![p][q] =
                 [j \in 1 .. Len(@) - 1 |-> IF j < i THEN @[j] ELSE @[j + 1]]]
            /\ Tells(p, q, "nothing") /\ UNCHANGED offline
  /\ UNCHANGED <<remoteSystem, late, calling, commands, allowed, banned, calls>>

\* ProcessNetworkPacket of the request to open a connection.
OpenRequestArrives(p, q) ==
  /\ <<q, p, "REQUEST">> \in offline
  /\ LET opens == q \notin banned[p] /\ Assignable(p, q) IN
     /\ remoteSystem' = IF opens
                        THEN [remoteSystem EXCEPT ![p][q] = Assigned("UNVERIFIED_SENDER")]
                        ELSE remoteSystem
     /\ offline' = (offline \ {<<q, p, "REQUEST">>})
                     \cup IF opens THEN {<<p, q, "REPLY">>} ELSE {}
  /\ UNCHANGED <<late, user, banned, known, calls>>

\* ... and of the reply, which ends all requests to that peer.  The password that Connect
\* was given last is the right one or not.
OpenReplyArrives(p, q) ==
  /\ <<q, p, "REPLY">> \in offline
  /\ offline' = offline \ {<<q, p, "REPLY">>}
  /\ LET requested == q \notin banned[p] /\ requests[p][q] # <<>>
         slot == [Assigned("REQUESTED_CONNECTION") EXCEPT !.weInitiated = TRUE]
     IN  /\ requests' = IF requested THEN [requests EXCEPT ![p][q] = <<>>] ELSE requests
         /\ \E request \in Requests :
              remoteSystem' = IF requested /\ Assignable(p, q)
                              THEN [remoteSystem EXCEPT ![p][q] = Sent(slot, request)]
                              ELSE remoteSystem
  /\ UNCHANGED <<late, calling, commands, allowed, banned, known, calls>>

OfflineIsLost ==
  /\ \E datagram \in offline : offline' = offline \ {datagram}
  /\ UNCHANGED <<remoteSystem, late, user, banned, known, calls>>

-----------------------------------------------------------------------------
(* The network thread: slots *)

\* Five seconds without a reliable send, and nothing to acknowledge.
SendKeepAlive(p, q) ==
  /\ Mode(p, q) = "CONNECTED" /\ remoteSystem[p][q].unacked = {}
  /\ remoteSystem' = [remoteSystem EXCEPT ![p][q].unacked = {KeepAlive}]
  /\ UNCHANGED <<late, offline, user, banned, known, calls>>

\* Mutant: only attempts that fail are told to the user.
ToldIfRequested(slot) == slot.connectMode = "REQUESTED_CONNECTION"

ToldOfFailure(slot) == slot.connectMode \in {"CONNECTED", "REQUESTED_CONNECTION"}

\* Mutant: a connection is kept however long nothing is acknowledged.
FailsIfNotMade(slot) == slot.connectMode # "CONNECTED"

\* Mutant: a slot that waits for an answer to its request is kept.
FailsIfVerified(slot) ==
  /\ slot.connectMode # "REQUESTED_CONNECTION"
  /\ slot.connectMode = "CONNECTED" => slot.unacked # {}

\* The connection is dead, was not made in ten seconds, or was to end and is older than
\* that or has nothing more to send.
Fails(slot) == slot.connectMode = "CONNECTED" => slot.unacked # {}

\* The slot is given away.  Packets that came since the last update are acknowledged
\* and not looked at.
Fail(p, q) ==
  /\ IsAssigned(p, q) /\ Fails(remoteSystem[p][q])
  /\ \E came \in SUBSET remoteSystem[q][p].unacked :
       /\ q \in banned[p] => came = {}
       /\ remoteSystem' = [remoteSystem EXCEPT ![p][q] = Unassigned, ![q][p].unacked = @ \ came]
  /\ late' \in UnderWay(p, {q})
  /\ IF ToldOfFailure(remoteSystem[p][q]) THEN Tells(p, q, "nothing") ELSE UNCHANGED known
  /\ UNCHANGED <<offline, user, banned, calls>>

BanEnds(p, q) ==
  /\ q \in banned[p]
  /\ banned' = [banned EXCEPT ![p] = @ \ {q}]
  /\ UNCHANGED <<remoteSystem, late, offline, user, known, calls>>

-----------------------------------------------------------------------------
(* The network thread: packets *)

Arriving(p, q) ==
  IF q \in banned[p] \/ ~IsAssigned(p, q) THEN {}
  ELSE remoteSystem[q][p].unacked \cup {m[3] : m \in {l \in late : l[1] = q /\ l[2] = p}}

Taken(p, q, d) == d.number \in remoteSystem[p][q].got

\* p's slot for q when d is taken.
Taking(p, q, d) ==
  IF d.number = Unnumbered THEN remoteSystem[p][q]
  ELSE [remoteSystem[p][q] EXCEPT !.got = @ \cup {d.number}]

\* The packet is off the network, and the acknowledgement of its number comes or not.
Becomes(p, q, d, slot) ==
  \E acknowledged \in BOOLEAN :
    remoteSystem' =
      [remoteSystem EXCEPT ![p][q] = slot,
         ![q][p].unacked = IF acknowledged THEN {e \in @ : e.number # d.number} ELSE @]

Arrived(p, q, d) == late' = late \ {<<q, p, d>>}

TakeDuplicate(p, q) ==
  /\ \E d \in Arriving(p, q) :
       /\ Taken(p, q, d)
       /\ Becomes(p, q, d, remoteSystem[p][q]) /\ Arrived(p, q, d)
  /\ UNCHANGED <<offline, user, banned, known, calls>>

\* d is new to p, whose slot for q is in one of the modes.
IsNew(p, q, d, modes) == ~Taken(p, q, d) /\ Mode(p, q) \in modes

Verified == ConnectModes \ {"unassigned", "UNVERIFIED_SENDER"}

\* ParseConnectionRequestPacket and OnConnectionRequest.
Parsed(p, slot, right) ==
  IF ~AllowIncomingConnections(p)
  THEN Flagged(Sent(slot, "NO_FREE_INCOMING_CONNECTIONS"), "DISCONNECT_ASAP")
  ELSE IF right
  THEN Flagged(Sent(slot, "CONNECTION_REQUEST_ACCEPTED"), "HANDLING_CONNECTION_REQUEST")
  ELSE Flagged(Sent(slot, "INVALID_PASSWORD"), "DISCONNECT_ASAP")

HandleConnectionRequest(p, q) ==
  /\ \E d \in Arriving(p, q) :
       /\ IsNew(p, q, d, Verified \cup {"UNVERIFIED_SENDER"}) /\ d.message \in Requests
       /\ LET slot == Taking(p, q, d) IN
          Becomes(p, q, d, IF slot.weInitiated THEN slot
                           ELSE Parsed(p, slot, d.message = "CONNECTION_REQUEST"))
       /\ Arrived(p, q, d)
  /\ UNCHANGED <<offline, user, banned, known, calls>>

\* Anything else from an unverified sender.
HandleNonsense(p, q) ==
  /\ \E d \in Arriving(p, q) :
       /\ IsNew(p, q, d, {"UNVERIFIED_SENDER"}) /\ d.message \notin Requests
       /\ Becomes(p, q, d, Unassigned)
       /\ late' \in {l \ {<<q, p, d>>} : l \in UnderWay(p, {q})}
  /\ banned' = [banned EXCEPT ![p] = @ \cup {q}]
  /\ UNCHANGED <<offline, user, known, calls>>

HandleNewIncomingConnection(p, q) ==
  /\ \E d \in Arriving(p, q) :
       /\ IsNew(p, q, d, Verified) /\ d.message = "NEW_INCOMING_CONNECTION"
       /\ IF Mode(p, q) = "HANDLING_CONNECTION_REQUEST"
          THEN /\ Becomes(p, q, d, Flagged(Taking(p, q, d), "CONNECTED"))
               /\ Tells(p, q, "connected")
          ELSE Becomes(p, q, d, Taking(p, q, d)) /\ UNCHANGED known
       /\ Arrived(p, q, d)
  /\ UNCHANGED <<offline, user, banned, calls>>

HandleDisconnectionNotification(p, q) ==
  /\ \E d \in Arriving(p, q) :
       /\ IsNew(p, q, d, Verified) /\ d.message = "DISCONNECTION_NOTIFICATION"
       /\ Becomes(p, q, d, Flagged(Taking(p, q, d), "DISCONNECT_ASAP"))
       /\ Arrived(p, q, d)
  /\ Tells(p, q, "nothing")
  /\ UNCHANGED <<offline, user, banned, calls>>

HandleConnectionRequestAccepted(p, q) ==
  /\ \E d \in Arriving(p, q) :
       /\ IsNew(p, q, d, Verified) /\ d.message = "CONNECTION_REQUEST_ACCEPTED"
       /\ LET slot == Taking(p, q, d)
              reply == Sent(slot, "NEW_INCOMING_CONNECTION")
          IN  CASE Mode(p, q) = "REQUESTED_CONNECTION" ->
                     Becomes(p, q, d, Flagged(reply, "CONNECTED")) /\ Tells(p, q, "connected")
                [] Mode(p, q) = "HANDLING_CONNECTION_REQUEST" ->
                     Becomes(p, q, d, reply) /\ Tells(p, q, "connected")
                [] OTHER -> Becomes(p, q, d, NotifiedAndFlagged(slot)) /\ UNCHANGED known
       /\ Arrived(p, q, d)
  /\ UNCHANGED <<offline, user, banned, calls>>

\* A keep-alive, and what the user gets as it is.
HandleOther(p, q) ==
  /\ \E d \in Arriving(p, q) :
       /\ IsNew(p, q, d, Verified)
       /\ d.message \in {"KEEPALIVE", "NO_FREE_INCOMING_CONNECTIONS", "INVALID_PASSWORD",
                         "user data"}
       /\ Becomes(p, q, d, Taking(p, q, d)) /\ Arrived(p, q, d)
  /\ UNCHANGED <<offline, user, banned, known, calls>>

Receive(p, q) ==
  \/ TakeDuplicate(p, q) \/ HandleConnectionRequest(p, q) \/ HandleNonsense(p, q)
  \/ HandleNewIncomingConnection(p, q) \/ HandleDisconnectionNotification(p, q)
  \/ HandleConnectionRequestAccepted(p, q) \/ HandleOther(p, q)

Next ==
  \/ \E p \in Peers :
       Restart(p) \/ SetMaximumIncomingConnections(p) \/ Execute(p)
  \/ \E p \in Peers : \E q \in Peers \ {p} :
       \/ q \in Targets[p] /\ Connect(p, q)
       \/ ConnectReturns(p, q) \/ Send(p, q) \/ CloseConnection(p, q)
       \/ SendRequest(p, q) \/ OpenRequestArrives(p, q) \/ OpenReplyArrives(p, q)
       \/ SendKeepAlive(p, q) \/ Fail(p, q) \/ BanEnds(p, q)
       \/ Receive(p, q)
  \/ OfflineIsLost

\* What a peer does at its next turn or when a time has come, with what was asked of it
\* and with a slot.
Turn(p) ==
  \/ Execute(p)
  \/ \E q \in Peers \ {p} : ConnectReturns(p, q) \/ SendRequest(p, q)

SlotUpdate(p, q) == SendKeepAlive(p, q) \/ Fail(p, q)

\* The network thread of a peer goes round and time passes.  Nothing need ever arrive.
Fairness ==
  \A p \in Peers :
    WF_vars(Turn(p)) /\ \A q \in Peers \ {p} : WF_vars(SlotUpdate(p, q))

Spec == Init /\ [][Next]_vars /\ Fairness

-----------------------------------------------------------------------------
(* Properties *)

Packet == [number : Nat \cup {Unnumbered}, message : Messages]

Slot == [connectMode : ConnectModes, weInitiated : BOOLEAN, next : Nat,
         unacked : SUBSET Packet, got : SUBSET Nat]

Commands == [command : {"SEND", "NOTIFY", "CLOSE"}, to : Peers]

\* Every variable has its type.
TypeOK ==
  /\ remoteSystem \in [Peers -> [Peers -> Slot]]
  /\ late \in SUBSET (Peers \X Peers \X Packet)
  /\ offline \in SUBSET (Peers \X Peers \X {"REQUEST", "REPLY"})
  /\ requests \in [Peers -> [Peers -> Seq(Nat)]]
  /\ calling \in [Peers -> SUBSET Peers]
  /\ commands \in [Peers -> Seq(Commands)]
  /\ allowed \in [Peers -> Nat]
  /\ banned \in [Peers -> SUBSET Peers]
  /\ known \in [Peers -> [Peers -> {"nothing", "requested", "connected"}]]
  /\ calls \in 0 .. MaxCalls

\* The user was told of every connection that is there, and told nothing else of it since,
\* whichever command was queued for an earlier one and whatever came late.
UserKnowsConnections ==
  /\ TypeOK
  /\ \A p, q \in Peers : Mode(p, q) = "CONNECTED" => known[p][q] = "connected"

\* The user is told of every end of a connection, whoever ended it and however.  One end
\* is not told (RakPeer.cpp:4386): when a request is accepted that was accepted before.
EndsAreTold ==
  [][\A p, q \in Peers :
       Mode(p, q) = "CONNECTED" /\ Mode(p, q)' # "CONNECTED" =>
         \/ known'[p][q] = "nothing"
         \/ \E d \in Arriving(p, q) :
              d.message = "CONNECTION_REQUEST_ACCEPTED" /\ ~Taken(p, q, d)]_vars

\* A call of Connect that returned true is answered, unless its user closes the
\* connection: it is made, or the user is told that it failed.
ConnectsAreAnswered ==
  \A p \in Peers : \A q \in Targets[p] :
    known[p][q] = "requested" ~> known[p][q] # "requested"

\* A connection that the other end does not have ends, or comes to be there at both.
HalfOpenEnds ==
  \A p \in Peers : \A q \in Peers \ {p} :
    Mode(p, q) = "CONNECTED" ~> (Mode(p, q) # "CONNECTED" \/ Mode(q, p) = "CONNECTED")
=============================================================================
