---------------------------- MODULE MasterServer ----------------------------
(***************************************************************************)
(* The OpenAnno master server: oaMasterServer::run and the packet handlers *)
(* it calls (master-server/masterserver.cpp) over the table `games` of its *)
(* database (mysqldb.cpp).  Game servers upload themselves through a       *)
(* MasterClient, the master server keeps them in gameServerList, pings     *)
(* them, and mirrors them into the database that the web page reads.       *)
(*                                                                         *)
(* One thread runs the loop: take the time and export, handle the packets  *)
(* that RakPeer has queued, sweep the list for pings.  RakPeer's network   *)
(* thread queues packets at any moment (NetworkDelivers).                  *)
(*                                                                         *)
(* gameServerList is an array that is searched by connectionIdentifier     *)
(* before every insertion, so it is a function from PlayerIDs here.  Its   *)
(* order is the order of insertion, which is that of the auto-increment    *)
(* column: mySQLListID says which of two servers comes first.              *)
(***************************************************************************)
EXTENDS Integers, Sequences, Functions

CONSTANTS
  IP,             \* addresses of hosts
  Port,           \* UDP ports: of game servers and of master clients
  String,         \* non-empty strings a rule can hold
  NULL,           \* the null char pointer
  PingTime,       \* values of RakPeer::GetLastPing; -1 when not connected
  NetworkPacket,  \* the packets that hosts send
  NUMBER_OF_MISSED_PINGS_TO_DROP,
  KEEP_ALIVE_PING_FREQUENCY,
  ExportPeriod,   \* ticks between two exports to the database
  TimeRange,      \* RakNet::GetTime() counts modulo TimeRange
  Horizon,        \* bound on the clock; below TimeRange it never wraps
  MaxDelay,       \* bound on the ticks one turn of the loop takes
  MaxQueue,       \* bound on the packets RakPeer holds for the loop
  MaxID           \* bound on the auto-increment column

PlayerID == [ip : IP, port : Port]

ReservedKey == {"Ping", "IP", "Port"}
UserKey     == {"SPing", "Game name", "Server location"}
RuleKey     == ReservedKey \cup UserKey

\* struct GameServerRule.  The dotted form of an address is the address.
Text  == String \cup IP \cup {""}
Rule  == [stringValue : Text \cup {NULL}, intValue : Int]
\* A server's rules by key; NULL where FindKey finds none.
Rules == [RuleKey -> Rule \cup {NULL}]
Keys(rules) == {k \in RuleKey : rules[k] # NULL}

Server == [originationId        : PlayerID,
           failedPingResponses  : 0 .. NUMBER_OF_MISSED_PINGS_TO_DROP,
           nextPingTime         : 0 .. TimeRange - 1,
           mySQLListID          : Nat,
           serverRules          : Rules]

\* A row of the table `games`.
Column == Text \cup {"N/A"}
Row    == [host : IP, name : Column, location : Column, ping : Nat]

Packet ==
       [type : {"SET_SERVER"}, from : PlayerID, port : Port, rules : Rules]
  \cup [type : {"DELIST_SERVER"}, from : PlayerID, port : Port]
  \cup [type : {"RELAYED"}, from : PlayerID, port : Port, target : PlayerID]
  \cup [type : {"PONG"}, from : PlayerID, pingTime : Int]
  \cup [type : {"OTHER"}, from : PlayerID]

Notification == [to : PlayerID, client : PlayerID]

\* A rule off the wire has a string or an integer (DeserializeRule).
ASSUME NetworkAssumption ==
  /\ NetworkPacket \subseteq Packet
  /\ \A p \in NetworkPacket : p.type = "SET_SERVER" =>
       \A k \in Keys(p.rules) :
         p.rules[k].stringValue # NULL => p.rules[k].intValue = -1

ASSUME NullAssumption == NULL \notin Column /\ NULL \notin Rule

ASSUME ConstantsAssumption ==
  /\ Port \subseteq Nat
  /\ PingTime \subseteq Int /\ PingTime # {}
  /\ NUMBER_OF_MISSED_PINGS_TO_DROP \in Nat \ {0}
  /\ KEEP_ALIVE_PING_FREQUENCY \in Nat
  /\ ExportPeriod \in Nat
  /\ TimeRange \in Nat \ {0}
  /\ {Horizon, MaxDelay, MaxQueue, MaxID} \subseteq Nat

VARIABLES
  pc,             \* where run() is: "loop", "packets", "sweep", or "down"
  gameServerList, \* the listed servers, by connectionIdentifier
  games,          \* the table `games`, by ID
  nextID,         \* the auto-increment column of `games`
  time,           \* the local `time` of run(), read once per turn
  sinceExport,    \* ticks since lastUpdate, cut off at ExportPeriod
  banned,         \* RakPeer's ban list
  incoming,       \* RakPeer's incomingPacketQueue
  sent            \* what the last step gave to RakPeer::Send

vars == <<pc, gameServerList, games, nextID, time, sinceExport, banned,
          incoming, sent>>

Listed == DOMAIN gameServerList
Empty  == [x \in {} |-> NULL]
-----------------------------------------------------------------------------
(* Rules *)

NewRule == [stringValue |-> NULL, intValue |-> -1]

\* Mutant: a string that replaces an integer leaves the integer there.
UpdatedRuleLeavesInt(old, string, int) ==
  IF string = NULL
  THEN [stringValue |-> NULL, intValue |-> int]
  ELSE [stringValue |-> string, intValue |-> IF old # NULL THEN old.intValue ELSE -1]

\* What UpdateServerRule makes of `old`: a string keeps the integer beside it.
UpdatedRule(old, string, int) ==
  IF string = NULL
  THEN [stringValue |-> NULL, intValue |-> int]
  ELSE [stringValue |-> string,
        intValue    |-> IF old # NULL /\ old.stringValue # NULL
                        THEN old.intValue
                        ELSE -1]

UpdateServerRule(rules, key, string, int) ==
  [rules EXCEPT ![key] = UpdatedRule(@, string, int)]

\* Mutant: reserved rules are deleted like any other.
UpdateServerDeletesReserved(destination, source) ==
  [k \in RuleKey |->
     IF source[k] = NULL THEN NULL
     ELSE UpdatedRule(destination[k], source[k].stringValue, source[k].intValue)]

\* UpdateServer(destination, source, deleteSingleRules): the uploads call it
\* with deleteSingleRules, so only reserved rules survive without a source.
UpdateServer(destination, source) ==
  [k \in RuleKey |->
     IF k \in ReservedKey THEN destination[k]
     ELSE IF source[k] = NULL THEN NULL
     ELSE UpdatedRule(destination[k], source[k].stringValue, source[k].intValue)]

AddDefaultRulesToServer(rules, s) ==
  [rules EXCEPT !["IP"]   = [NewRule EXCEPT !.stringValue = s.ip],
                !["Port"] = [NewRule EXCEPT !.intValue = s.port],
                !["Ping"] = [NewRule EXCEPT !.intValue = 9999]]

\* DeserializeRule returns 0 for a rule whose string is empty, and with it
\* DeserializeServer; reserved identifiers are dropped.
Deserializes(rules) == \A k \in Keys(rules) : rules[k].stringValue # ""
DeserializeServer(rules) ==
  [k \in RuleKey |-> IF k \in ReservedKey THEN NULL ELSE rules[k]]
-----------------------------------------------------------------------------
(* The database *)

RowsOf(hosts) == {id \in DOMAIN games : games[id].host \in hosts}

\* Mutant: the list is changed, the table is not.
GamesKeepHosts(hosts) == games

\* deleteByIP: every row of the host goes.
GamesWithoutHosts(hosts) == Restrict(games, DOMAIN games \ RowsOf(hosts))

\* addNewServer: the other columns take their defaults.
WithNewRow(host) ==
  [id \in DOMAIN games \cup {nextID} |->
     IF id = nextID
     THEN [host |-> host, name |-> "N/A", location |-> "N/A", ping |-> 0]
     ELSE games[id]]

StringColumn(rules, key) ==
  IF rules[key] = NULL THEN "" ELSE rules[key].stringValue

\* The ping goes through an unsigned short.
PingColumn(rules) ==
  IF rules["SPing"] = NULL THEN 0 ELSE rules["SPing"].intValue % 65536

\* exportRulesToMySQL: updateServerInfos has no WHERE clause, so the columns
\* of every row are set.
ExportRulesToMySQL(table, rules) ==
  [id \in DOMAIN table |->
     [host     |-> table[id].host,
      name     |-> StringColumn(rules, "Game name"),
      location |-> StringColumn(rules, "Server location"),
      ping     |-> PingColumn(rules)]]

\* std::string = NULL when a string column was posted as an integer.
ExportsNull(rules) ==
  NULL \in {StringColumn(rules, "Game name"),
            StringColumn(rules, "Server location")}
-----------------------------------------------------------------------------
(* The process: start, and the three ways it ends *)

Init ==
  /\ pc = "down"
  /\ gameServerList = Empty
  /\ games = Empty
  /\ nextID = 1
  /\ time = 0
  /\ sinceExport = 0
  /\ banned = {}
  /\ incoming = <<>>
  /\ sent = <<>>

\* run() up to the loop: the table is cleared, everything else is new.
Start ==
  /\ pc = "down"
  /\ pc' = "loop"
  /\ games' = Empty
  /\ UNCHANGED <<gameServerList, nextID, time, sinceExport, banned, incoming, sent>>

\* The process ends; its memory is gone, the table is not.
Stop ==
  /\ pc' = "down"
  /\ gameServerList' = Empty
  /\ time' = 0
  /\ sinceExport' = 0
  /\ banned' = {}
  /\ incoming' = <<>>
  /\ sent' = <<>>
-----------------------------------------------------------------------------
(* The head of the loop *)

LastOf(servers) ==
  {s \in servers : \A t \in servers :
     gameServerList[t].mySQLListID <= gameServerList[s].mySQLListID}

\* What the table holds once `servers` have been exported in turn: every row is
\* overwritten each time, so the last of them counts.
GamesAfterExportOf(servers) ==
  IF servers = {}
  THEN {games}
  ELSE {ExportRulesToMySQL(games, gameServerList[s].serverRules) : s \in LastOf(servers)}

Unexportable == {s \in Listed : ExportsNull(gameServerList[s].serverRules)}

\* The servers that are exported before the first one that cannot be.
ExportedBeforeNull ==
  {s \in Listed : \A u \in Unexportable :
     gameServerList[s].mySQLListID < gameServerList[u].mySQLListID}

LoopStart(delay) ==
  LET due == sinceExport + delay >= ExportPeriod
  IN /\ pc = "loop"
     /\ time + delay <= Horizon
     /\ IF due /\ Unexportable # {}
        THEN /\ games' \in GamesAfterExportOf(ExportedBeforeNull)
             /\ Stop
             /\ UNCHANGED nextID
        ELSE /\ pc' = "packets"
             /\ time' = (time + delay) % TimeRange
             /\ sinceExport' = IF due THEN 0 ELSE sinceExport + delay
             /\ games' \in IF due THEN GamesAfterExportOf(Listed) ELSE {games}
             /\ sent' = <<>>
             /\ UNCHANGED <<gameServerList, nextID, banned, incoming>>
-----------------------------------------------------------------------------
(* The packet loop *)

\* RakPeer's network thread; ProcessNetworkPacket ignores banned addresses,
\* what it queued before the ban stays queued.  MaxQueue and MaxID bound the
\* network here, so that the server itself never waits for them.
NetworkDelivers(packet) ==
  /\ pc # "down"
  /\ packet.from.ip \notin banned
  /\ Len(incoming) < MaxQueue
  /\ packet.type = "SET_SERVER" => nextID + Len(incoming) <= MaxID
  /\ incoming' = Append(incoming, packet)
  /\ sent' = <<>>
  /\ UNCHANGED <<pc, gameServerList, games, nextID, time, sinceExport, banned>>

Receives(type) ==
  /\ pc = "packets"
  /\ incoming # <<>>
  /\ Head(incoming).type = type
  /\ incoming' = Tail(incoming)

\* Mutant: whole PlayerIDs are compared, not the addresses.
BanExactSender ==
  /\ pc = "packets"
  /\ incoming # <<>>
  /\ LET sender == Head(incoming).from
     IN /\ banned' = banned \cup {sender.ip}
        /\ games' = GamesWithoutHosts({sender.ip})
        /\ gameServerList' = Restrict(gameServerList, Listed \ {sender})
  /\ incoming' = Tail(incoming)
  /\ sent' = <<>>
  /\ pc' = "sweep"
  /\ UNCHANGED <<nextID, time, sinceExport>>

\* The sender of the next packet has sent more than it may: every server on
\* its host goes, and `break` leaves the packet loop.
BanFlooder ==
  /\ pc = "packets"
  /\ incoming # <<>>
  /\ LET host == Head(incoming).from.ip
     IN /\ banned' = banned \cup {host}
        /\ games' = GamesWithoutHosts({host})
        /\ gameServerList' = Restrict(gameServerList, {s \in Listed : s.ip # host})
  /\ incoming' = Tail(incoming)
  /\ sent' = <<>>
  /\ pc' = "sweep"
  /\ UNCHANGED <<nextID, time, sinceExport>>

\* Mutant: the row goes before the list has been searched.
DelistUnlisted ==
  /\ Receives("DELIST_SERVER")
  /\ LET packet == Head(incoming)
         s      == [ip |-> packet.from.ip, port |-> packet.port]
     IN /\ games' = GamesWithoutHosts({s.ip})
        /\ gameServerList' = Restrict(gameServerList, Listed \ {s})
  /\ sent' = <<>>
  /\ UNCHANGED <<pc, nextID, time, sinceExport, banned>>

HandleDelistServer ==
  /\ Receives("DELIST_SERVER")
  /\ LET packet == Head(incoming)
         s      == [ip |-> packet.from.ip, port |-> packet.port]
     IN IF s \in Listed
        THEN /\ games' = GamesWithoutHosts({s.ip})
             /\ gameServerList' = Restrict(gameServerList, Listed \ {s})
        ELSE UNCHANGED <<games, gameServerList>>
  /\ sent' = <<>>
  /\ UNCHANGED <<pc, nextID, time, sinceExport, banned>>

NewServer(s, origin, rules) ==
  [originationId       |-> origin,
   failedPingResponses |-> 0,
   nextPingTime        |-> 0,
   mySQLListID         |-> nextID,
   serverRules         |-> AddDefaultRulesToServer(rules, s)]

ListServer(s, server) ==
  gameServerList' =
    [t \in Listed \cup {s} |-> IF t = s THEN server ELSE gameServerList[t]]

\* A server that is not listed: UpdateServerList inserts it, adds a row and
\* exports it at once.  A NULL string column ends the process there.
AddServer(s, origin, rules) ==
  LET server == NewServer(s, origin, rules)
  IN /\ nextID' = nextID + 1
     /\ IF ExportsNull(server.serverRules)
        THEN /\ games' = WithNewRow(s.ip)
             /\ Stop
        ELSE /\ ListServer(s, server)
             /\ games' = ExportRulesToMySQL(WithNewRow(s.ip), server.serverRules)
             /\ incoming' = Tail(incoming)
             /\ sent' = <<>>
             /\ UNCHANGED <<pc, time, sinceExport, banned>>

\* A listed server: its rules become those of the upload, nothing else does.
RefreshServer(s, rules) ==
  /\ gameServerList' =
       [gameServerList EXCEPT ![s].serverRules = UpdateServer(@, rules)]
  /\ incoming' = Tail(incoming)
  /\ sent' = <<>>
  /\ UNCHANGED <<pc, games, nextID, time, sinceExport, banned>>

\* A server that does not deserialize is a null pointer, and dereferenced.
HandleUpdateServer ==
  /\ pc = "packets"
  /\ incoming # <<>>
  /\ Head(incoming).type = "SET_SERVER"
  /\ LET packet == Head(incoming)
         s      == [ip |-> packet.from.ip, port |-> packet.port]
         rules  == DeserializeServer(packet.rules)
     IN IF ~Deserializes(packet.rules)
        THEN Stop /\ UNCHANGED <<games, nextID>>
        ELSE IF s \in Listed
             THEN RefreshServer(s, rules)
             ELSE AddServer(s, packet.from, rules)

HandlePong ==
  /\ Receives("PONG")
  /\ LET packet == Head(incoming)
         s      == packet.from
         ponged == [gameServerList[s] EXCEPT !.failedPingResponses = 0]
     IN gameServerList' =
          IF s \notin Listed
          THEN gameServerList
          ELSE IF gameServerList[s].serverRules["Ping"] # NULL
          THEN [gameServerList EXCEPT ![s] =
                  [ponged EXCEPT !.serverRules["Ping"].intValue = packet.pingTime]]
          ELSE [gameServerList EXCEPT ![s] = ponged]
  /\ sent' = <<>>
  /\ UNCHANGED <<pc, games, nextID, time, sinceExport, banned>>

\* The notification goes to the master client that first listed the server.
HandleRelayedConnectionNotification ==
  /\ Receives("RELAYED")
  /\ LET packet == Head(incoming)
     IN sent' = IF packet.target \in Listed
                THEN << [to     |-> gameServerList[packet.target].originationId,
                         client |-> [ip |-> packet.from.ip, port |-> packet.port]] >>
                ELSE <<>>
  /\ UNCHANGED <<pc, gameServerList, games, nextID, time, sinceExport, banned>>

\* HandleQuery, HandleRegisterUser and the packets without a case leave the
\* list and the table `games` alone.
HandleOtherPacket ==
  /\ Receives("OTHER")
  /\ sent' = <<>>
  /\ UNCHANGED <<pc, gameServerList, games, nextID, time, sinceExport, banned>>

PacketsDone ==
  /\ pc = "packets"
  /\ incoming = <<>>
  /\ pc' = "sweep"
  /\ sent' = <<>>
  /\ UNCHANGED <<gameServerList, games, nextID, time, sinceExport, banned, incoming>>
-----------------------------------------------------------------------------
(* The ping sweep *)

\* Mutant: no server waits for its nextPingTime.
PingDueAlways == Listed

PingDue == {s \in Listed : time >= gameServerList[s].nextPingTime}

\* Mutant: one missed ping too many.
UnansweredLate ==
  {s \in PingDue :
     gameServerList[s].failedPingResponses > NUMBER_OF_MISSED_PINGS_TO_DROP}

Unanswered ==
  {s \in PingDue :
     gameServerList[s].failedPingResponses >= NUMBER_OF_MISSED_PINGS_TO_DROP}

\* Mutants: a ping is not counted; the next one comes a tick early.
PingedUncounted(server, lastPing) ==
  [server EXCEPT
     !.serverRules         = UpdateServerRule(@, "SPing", NULL, lastPing),
     !.nextPingTime        = (time + KEEP_ALIVE_PING_FREQUENCY) % TimeRange]
PingedEarly(server, lastPing) ==
  [server EXCEPT
     !.serverRules         = UpdateServerRule(@, "SPing", NULL, lastPing),
     !.nextPingTime        = (time + KEEP_ALIVE_PING_FREQUENCY - 1) % TimeRange,
     !.failedPingResponses = @ + 1]

Pinged(server, lastPing) ==
  [server EXCEPT
     !.serverRules         = UpdateServerRule(@, "SPing", NULL, lastPing),
     !.nextPingTime        = (time + KEEP_ALIVE_PING_FREQUENCY) % TimeRange,
     !.failedPingResponses = @ + 1]

PingSweep ==
  /\ pc = "sweep"
  /\ \E lastPing \in [PingDue \ Unanswered -> PingTime] :
       gameServerList' =
         [s \in Listed \ Unanswered |->
            IF s \in PingDue
            THEN Pinged(gameServerList[s], lastPing[s])
            ELSE gameServerList[s]]
  /\ games' = GamesWithoutHosts({s.ip : s \in Unanswered})
  /\ pc' = "loop"
  /\ sent' = <<>>
  /\ UNCHANGED <<nextID, time, sinceExport, banned, incoming>>
-----------------------------------------------------------------------------
(* A statement fails: mysqlpp throws out of run() and main() catches.      *)

\* `table` is what the handler has done so far; the destructor clears it,
\* unless that statement fails as well.
StatementFails(table) ==
  /\ games' \in {table, Empty}
  /\ Stop

ExportFails ==
  /\ pc = "loop"
  /\ sinceExport + MaxDelay >= ExportPeriod
  /\ \E s \in ExportedBeforeNull :
       \E table \in GamesAfterExportOf({t \in Listed :
           gameServerList[t].mySQLListID < gameServerList[s].mySQLListID}) :
         StatementFails(table)
  /\ UNCHANGED nextID

\* The first statement of a handler, or the ban of the packet's sender.
HandlerFails ==
  /\ pc = "packets"
  /\ incoming # <<>>
  /\ StatementFails(games)
  /\ UNCHANGED nextID

\* The row of a new server is there, its export fails.
FirstExportFails ==
  /\ pc = "packets"
  /\ incoming # <<>>
  /\ Head(incoming).type = "SET_SERVER"
  /\ Deserializes(Head(incoming).rules)
  /\ ~ ExportsNull(DeserializeServer(Head(incoming).rules))
  /\ [ip |-> Head(incoming).from.ip, port |-> Head(incoming).port] \notin Listed
  /\ nextID' = nextID + 1
  /\ StatementFails(WithNewRow(Head(incoming).from.ip))

SweepFails ==
  /\ pc = "sweep"
  /\ \E s \in Unanswered : StatementFails(GamesWithoutHosts(
       {t.ip : t \in {u \in Unanswered :
          gameServerList[u].mySQLListID < gameServerList[s].mySQLListID}}))
  /\ UNCHANGED nextID

DatabaseFails == ExportFails \/ HandlerFails \/ FirstExportFails \/ SweepFails
-----------------------------------------------------------------------------
HandlePacket ==
  \/ HandleDelistServer
  \/ HandleUpdateServer
  \/ HandlePong
  \/ HandleRelayedConnectionNotification
  \/ HandleOtherPacket
  \/ BanFlooder

Loop ==
  \/ \E delay \in 0 .. MaxDelay : LoopStart(delay)
  \/ HandlePacket
  \/ PacketsDone
  \/ PingSweep

Next ==
  \/ Start
  \/ Loop
  \/ DatabaseFails
  \/ \E packet \in NetworkPacket : NetworkDelivers(packet)

Spec == Init /\ [][Next]_vars
-----------------------------------------------------------------------------
(* Properties *)

Running == pc # "down"

\* Every variable holds values of the program's types.
TypeOK ==
  /\ pc \in {"down", "loop", "packets", "sweep"}
  /\ Listed \subseteq PlayerID
  /\ \A s \in Listed : gameServerList[s] \in Server
  /\ DOMAIN games \subseteq Nat
  /\ \A id \in DOMAIN games : games[id] \in Row
  /\ nextID \in Nat
  /\ time \in 0 .. TimeRange - 1
  /\ sinceExport \in Nat
  /\ banned \subseteq IP
  /\ incoming \in Seq(NetworkPacket)
  /\ sent \in Seq(Notification)

\* While the server runs, a row of `games` is the row of one listed server,
\* under that server's address: delisting, bans and missed pings take a
\* server's row along, although deleteByIP and the list are told apart.
RowsBelongToListedServers ==
  Running => \A id \in DOMAIN games :
               \E s \in Listed : /\ gameServerList[s].mySQLListID = id
                                /\ games[id].host = s.ip

\* "stringValue and intValue are mutually exclusive" (masterserver.h:37),
\* through every sequence of uploads, pongs and pings.
StringXorInt ==
  \A s \in Listed : LET rules == gameServerList[s].serverRules IN
    \A k \in Keys(rules) : rules[k].stringValue # NULL => rules[k].intValue = -1

\* A listed server always has its three default rules, with its own address
\* and port and a ping that is a number: no upload, refresh or rule removal
\* reaches them (the assertion of HandlePong relies on it).
DefaultRulesAreKept ==
  \A s \in Listed : LET rules == gameServerList[s].serverRules IN
    /\ ReservedKey \subseteq Keys(rules)
    /\ rules["IP"].stringValue = s.ip
    /\ rules["Port"].intValue = s.port
    /\ rules["Ping"].stringValue = NULL

\* A row of the table is lost only together with a listed server of its host
\* (or with the process).
RowsGoWithServers ==
  [][ Running /\ pc' # "down" =>
        \A id \in DOMAIN games \ DOMAIN games' :
          \E s \in Listed \ Listed' : s.ip = games[id].host ]_vars

\* A server whose host falls silent does not stay listed: if from some time on
\* nothing arrives from it, it leaves the list for good.
SilentServersAreDropped ==
  \A s \in PlayerID :
    <>[][\A p \in {incoming'[i] : i \in DOMAIN incoming'} : p.from.ip # s.ip]_vars
      => <>[](s \notin Listed)

\* The thread never rests for good (the loop only sleeps 50 us), the process is
\* started again, and of infinitely many turns infinitely many find that the
\* clock has advanced: strong fairness, since a turn may take no tick at all.
\* That the packet loop ends is an assumption about the network: hosts that send
\* faster than the handlers work keep `while (packet)` from ever ending, and
\* PacketsDone is strongly fair to rule them out.
Fairness ==
  /\ WF_vars(Start)
  /\ WF_vars(\E delay \in 0 .. MaxDelay : LoopStart(delay))
  /\ SF_vars(\E delay \in 1 .. MaxDelay : LoopStart(delay))
  /\ WF_vars(HandlePacket)
  /\ SF_vars(PacketsDone)
  /\ WF_vars(PingSweep)

FairSpec == Spec /\ Fairness
-----------------------------------------------------------------------------
(* The loop implements ServerListing. *)

ServersWithARow == {s \in Listed : gameServerList[s].mySQLListID \in DOMAIN games}

MissedPings ==
  [s \in PlayerID |-> IF s \in Listed THEN gameServerList[s].failedPingResponses ELSE 0]

Listing == INSTANCE ServerListing WITH
  Host <- IP, Number <- Port, MaxMissed <- NUMBER_OF_MISSED_PINGS_TO_DROP,
  listed <- Listed, shown <- ServersWithARow, missed <- MissedPings

\* Every step of the server is one the listing allows: no server leaves but by
\* its own request, with its host, after all its pings were missed or with the
\* process, and its row never outlives it.
ImplementsListing == Listing!Spec
=============================================================================
