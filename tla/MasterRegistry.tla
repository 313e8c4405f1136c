--------------------------- MODULE MasterRegistry ---------------------------
(***************************************************************************)
(* Master clients (MasterClient.cpp) and the master server.  On each Host  *)
(* runs one game server that lists itself through one MasterClient; the    *)
(* server's steps are those of MasterServer.                               *)
(*                                                                         *)
(* A client and the server talk over a RakNet connection: what is sent on  *)
(* it arrives in order, or is lost with the connection.  Each end learns   *)
(* of a loss by itself, in any order; from then on nothing that is under   *)
(* way arrives.  RakPeer::Send drops what is sent while the connection is  *)
(* not there.                                                              *)
(*                                                                         *)
(* No client sends ID_PONG: the server pings a listed server with          *)
(* RakPeer::Ping(connectionIdentifier), which goes to connected peers only *)
(* and is answered below the level of packets, and the game port is not    *)
(* the master client's (MasterClient.h:25).                                *)
(***************************************************************************)
EXTENDS MasterServer

CONSTANTS
  Host,        \* the hosts that run a game server
  GamePort,    \* the port of every game server
  ClientPort,  \* the ports that a master client may be told to use
  Name,        \* what the rule "Game name" may be posted as
  MaxChannel   \* bound on the packets in transit from a client

ASSUME RegistryAssumption ==
  /\ Host \subseteq IP /\ Name \subseteq String
  /\ ClientPort \subseteq Port /\ GamePort \in Port \ ClientPort

VARIABLES
  client,   \* the MasterClient of each host
  channel,  \* what it has sent and the server's RakPeer has not received
  session,  \* hosts with a connection at the server's end
  swept     \* history: listed servers dropped since their last upload

clientVars == <<client, channel, session, swept>>
allVars    == <<vars, clientVars>>

\* listServer, serverListed and localServerModified are the class's flags;
\* name is localServer's rule; port is 0 until RakPeer is initialized.
Client == [port : ClientPort \cup {0},
           connection : {"none", "requested", "connected"},
           listServer : BOOLEAN, serverListed : BOOLEAN,
           localServerModified : BOOLEAN, name : Name \cup {NULL}]

GameServer(h) == [ip |-> h, port |-> GamePort]
ClientID(h)   == [ip |-> h, port |-> client[h].port]

NameRule(name) ==
  [k \in RuleKey |-> IF k = "Game name" /\ name # NULL
                     THEN [stringValue |-> name, intValue |-> -1]
                     ELSE NULL]

Upload(from, name) ==
  [type |-> "SET_SERVER", from |-> from, port |-> GamePort, rules |-> NameRule(name)]
DelistRequest(from) ==
  [type |-> "DELIST_SERVER", from |-> from, port |-> GamePort]

ClientPackets ==
  LET IDs == [ip : Host, port : ClientPort]
  IN {Upload(id, name) : id \in IDs, name \in Name \cup {NULL}}
       \cup {DelistRequest(id) : id \in IDs}

ASSUME ClientPacketsAssumption == ClientPackets \subseteq NetworkPacket

IsConnected(h) == client[h].connection = "connected"

\* RakPeer::Send, broadcast to the one connected system there may be.  A server that
\* has lost the connection never receives it.
Sends(h, packet) ==
  channel' = [channel EXCEPT ![h] =
    IF IsConnected(h) /\ h \in session THEN Append(@, packet) ELSE @]

RegistryInit ==
  /\ Init
  /\ client = [h \in Host |-> [port |-> 0, connection |-> "none", listServer |-> FALSE,
                              serverListed |-> FALSE, localServerModified |-> FALSE,
                              name |-> NULL]]
  /\ channel = [h \in Host |-> <<>>]
  /\ session = {}
  /\ swept = {}
-----------------------------------------------------------------------------
(* Calls on the master client *)

\* A RakPeer that is active keeps its port, and its connection if there is one.
Connect(h, port) ==
  /\ client' = [client EXCEPT ![h] =
       [port                |-> IF @.port = 0 THEN port ELSE @.port,
        connection          |-> IF @.connection = "none" THEN "requested" ELSE @.connection,
        listServer          |-> FALSE,
        serverListed        |-> FALSE,
        localServerModified |-> FALSE,
        name                |-> NULL]]
  /\ UNCHANGED <<vars, channel, session, swept>>

RequestListing(h) ==
  /\ IsConnected(h)
  /\ client' = [client EXCEPT ![h].listServer = TRUE]
  /\ UNCHANGED <<vars, channel, session, swept>>

\* Mutant: the client still thinks that it is listed.
DelistedKeepsFlag(h) == [client[h] EXCEPT !.listServer = FALSE]

Delisted(h) == [client[h] EXCEPT !.listServer = FALSE, !.serverListed = FALSE]

DelistServer(h) ==
  /\ IsConnected(h)
  /\ Len(channel[h]) < MaxChannel
  /\ client' = [client EXCEPT ![h] = Delisted(h)]
  /\ IF client[h].serverListed
     THEN Sends(h, DelistRequest(ClientID(h)))
     ELSE UNCHANGED channel
  /\ UNCHANGED <<vars, session, swept>>

\* Mutant: a removed rule is not a modification.
PostRuleIgnoresRemoval(h, name) ==
  /\ IsConnected(h)
  /\ client' = [client EXCEPT ![h].name = name,
                              ![h].localServerModified =
                                 @ \/ name \notin {NULL, client[h].name}]
  /\ UNCHANGED <<vars, channel, session, swept>>

\* PostRule, and RemoveRule for NULL: a rule that is there already, or is not,
\* modifies nothing.
PostRule(h, name) ==
  /\ IsConnected(h)
  /\ client' = [client EXCEPT ![h].name = name,
                              ![h].localServerModified = @ \/ client[h].name # name]
  /\ UNCHANGED <<vars, channel, session, swept>>

\* Update, the part that sends; what it receives changes none of the flags.
Update(h) ==
  /\ client[h].listServer
  /\ client[h].serverListed => client[h].localServerModified
  /\ Len(channel[h]) < MaxChannel
  /\ Sends(h, Upload(ClientID(h), client[h].name))
  /\ client' = [client EXCEPT ![h].serverListed = TRUE,
                              ![h].localServerModified = FALSE]
  /\ swept' = swept \ {h}
  /\ UNCHANGED <<vars, session>>

\* Disconnect delists if it can, lets RakPeer send for 100 ms and closes the
\* socket: any rest of what was sent is lost.
Disconnect(h) ==
  /\ client[h].port # 0
  /\ LET delist == IF IsConnected(h) /\ h \in session /\ client[h].serverListed
                   THEN <<DelistRequest(ClientID(h))>> ELSE <<>>
         out    == channel[h] \o delist
     IN \E n \in 0 .. Len(out) : channel' = [channel EXCEPT ![h] = SubSeq(out, 1, n)]
  /\ client' = [client EXCEPT ![h] =
       [(IF IsConnected(h) THEN Delisted(h) ELSE @)
          EXCEPT !.port = 0, !.connection = "none"]]
  /\ UNCHANGED <<vars, session, swept>>
-----------------------------------------------------------------------------
(* RakNet *)

\* The server accepts a client once nothing of an older connection is under way.
Accept(h) ==
  /\ pc # "down"
  /\ client[h].connection = "requested"
  /\ h \notin banned
  /\ channel[h] = <<>>
  /\ client' = [client EXCEPT ![h].connection = "connected"]
  /\ session' = session \cup {h}
  /\ UNCHANGED <<vars, channel, swept>>

\* The client gives up a request or a connection (OnConnectionAttemptFailed,
\* OnLostConnection): RakPeer forgets it, the MasterClient changes nothing.
ClientLoses(h) ==
  /\ client[h].connection # "none"
  /\ client' = [client EXCEPT ![h].connection = "none"]
  /\ channel' = [channel EXCEPT ![h] = <<>>]
  /\ UNCHANGED <<vars, session, swept>>

\* The server gives up a connection, whatever the client thinks of it.
ServerLoses(h) ==
  /\ h \in session
  /\ session' = session \ {h}
  /\ channel' = [channel EXCEPT ![h] = <<>>]
  /\ UNCHANGED <<vars, client, swept>>

Arrives(h) ==
  /\ h \in session
  /\ channel[h] # <<>>
  /\ NetworkDelivers(Head(channel[h]))
  /\ channel' = [channel EXCEPT ![h] = Tail(@)]
  /\ UNCHANGED <<client, session, swept>>
-----------------------------------------------------------------------------
(* The master server.  A ban and the end of the process close connections.  *)

ServerStep ==
  /\ Start \/ Loop \/ DatabaseFails
  /\ session' = IF pc' = "down" THEN {} ELSE session \ banned'
  /\ channel' = [h \in Host |-> IF h \in session \ session' THEN <<>> ELSE channel[h]]
  /\ swept' = swept \cup {h \in Host : pc = "sweep" /\ GameServer(h) \in Listed \ Listed'}
  /\ UNCHANGED client

\* A player asks for a server's attention (ConnectionAttemptNotification).
PlayerAsks ==
  /\ \E packet \in NetworkPacket : packet.type = "RELAYED" /\ NetworkDelivers(packet)
  /\ UNCHANGED clientVars

ClientStep(h) ==
  \/ \E port \in ClientPort : Connect(h, port)
  \/ RequestListing(h)
  \/ DelistServer(h)
  \/ \E name \in Name \cup {NULL} : PostRule(h, name)
  \/ Update(h)
  \/ Disconnect(h)

Connection(h) == Accept(h) \/ ClientLoses(h) \/ ServerLoses(h) \/ Arrives(h)

RegistryNext ==
  \/ \E h \in Host : ClientStep(h) \/ Connection(h)
  \/ ServerStep
  \/ PlayerAsks

RegistrySpec == RegistryInit /\ [][RegistryNext]_allVars
-----------------------------------------------------------------------------
(* Properties *)

Waiting(h) == {incoming[i] : i \in {j \in DOMAIN incoming : incoming[j].from.ip = h}}
InTransit(h) == {channel[h][i] : i \in DOMAIN channel[h]}

\* What a connected client believes comes true: a server it thinks is listed is
\* listed, or its upload is still under way, or the sweep has dropped it since.
\* No older delisting, lost connection, ban or restart undoes an upload.
UploadsArrive ==
  \A h \in session : IsConnected(h) /\ client[h].serverListed =>
    \/ GameServer(h) \in Listed
    \/ h \in swept
    \/ \E p \in Waiting(h) \cup InTransit(h) : p.type = "SET_SERVER"

\* Once a client's uploads have been handled, the master server's rule is the
\* client's, whatever was posted, removed or lost before.
ListingIsUpToDate ==
  \A h \in session :
    /\ IsConnected(h) /\ client[h].serverListed /\ ~ client[h].localServerModified
    /\ Waiting(h) \cup InTransit(h) = {}
    /\ GameServer(h) \in Listed
    => gameServerList[GameServer(h)].serverRules["Game name"]
         = NameRule(client[h].name)["Game name"]

\* "KEEP_ALIVE_PING_FREQUENCY is how often to ping servers to make sure they are
\* active" (masterserver.h:24): the server of a connected client is not dropped.
ActiveServersAreKept ==
  [][ pc = "sweep" /\ pc' = "loop" =>
        \A h \in session : IsConnected(h) => GameServer(h) \notin Listed \ Listed' ]_allVars
=============================================================================
