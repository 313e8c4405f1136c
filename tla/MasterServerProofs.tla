------------------------- MODULE MasterServerProofs -------------------------
(***************************************************************************)
(* Proofs about MasterServer, for every set of hosts, ports and packets    *)
(* and every value of the bounds; then about its timing, as long as the    *)
(* clock does not wrap; and, in the end, about the server with its         *)
(* clients (MasterRegistry).                                               *)
(***************************************************************************)
EXTENDS MasterServerTiming, MasterRegistry, TLAPS

-----------------------------------------------------------------------------
(* Rules *)

LEMMA RuleIntro ==
  ASSUME NEW string \in Text \cup {NULL}, NEW int \in Int
  PROVE  [stringValue |-> string, intValue |-> int] \in Rule
BY DEF Rule

\* UpdateServerRule leaves a rule a rule.
LEMMA UpdatedRuleType ==
  ASSUME NEW old \in Rule \cup {NULL}, NEW string \in Text \cup {NULL},
         NEW int \in Int
  PROVE  UpdatedRule(old, string, int) \in Rule
<1>1. CASE string = NULL
  BY <1>1 DEF UpdatedRule, Rule
<1>2. CASE string # NULL
  <2>1. CASE old # NULL /\ old.stringValue # NULL
    <3>1. old.intValue \in Int
      BY <2>1 DEF Rule
    <3>2. UpdatedRule(old, string, int) = [stringValue |-> string, intValue |-> old.intValue]
      BY <1>2, <2>1 DEF UpdatedRule
    <3>3. QED
      BY <3>1, <3>2, RuleIntro
  <2>2. CASE ~ (old # NULL /\ old.stringValue # NULL)
    <3>1. UpdatedRule(old, string, int) = [stringValue |-> string, intValue |-> -1]
      BY <1>2, <2>2 DEF UpdatedRule
    <3>2. -1 \in Int
      OBVIOUS
    <3>3. QED
      BY <3>1, <3>2, RuleIntro
  <2>3. QED
    BY <2>1, <2>2
<1>3. QED
  BY <1>1, <1>2

\* A ping leaves a server's rules rules.
LEMMA UpdateServerRuleType ==
  ASSUME NEW rules \in Rules, NEW key \in RuleKey, NEW int \in Int
  PROVE  UpdateServerRule(rules, key, NULL, int) \in Rules
<1>1. rules[key] \in Rule \cup {NULL}
  BY DEF Rules
<1>2. UpdatedRule(rules[key], NULL, int) \in Rule
  BY <1>1, UpdatedRuleType
<1>3. QED
  BY <1>2 DEF UpdateServerRule, Rules

\* An upload leaves a listed server's rules rules.
LEMMA UpdateServerType ==
  ASSUME NEW destination \in Rules, NEW source \in Rules
  PROVE  UpdateServer(destination, source) \in Rules
<1>1. ASSUME NEW k \in RuleKey, source[k] # NULL
      PROVE  UpdatedRule(destination[k], source[k].stringValue, source[k].intValue) \in Rule
  <2>1. destination[k] \in Rule \cup {NULL} /\ source[k] \in Rule
    BY <1>1 DEF Rules
  <2>2. source[k].stringValue \in Text \cup {NULL} /\ source[k].intValue \in Int
    BY <2>1 DEF Rule
  <2>3. QED
    BY <2>1, <2>2, UpdatedRuleType
<1>2. QED
  BY <1>1 DEF UpdateServer, Rules

\* The default rules are rules.
LEMMA DefaultRuleType ==
  ASSUME NEW s \in PlayerID
  PROVE  /\ [NewRule EXCEPT !.stringValue = s.ip] \in Rule
         /\ [NewRule EXCEPT !.intValue = s.port] \in Rule
         /\ [NewRule EXCEPT !.intValue = 9999] \in Rule
<1> DEFINE ip   == [NewRule EXCEPT !.stringValue = s.ip]
           port == [NewRule EXCEPT !.intValue = s.port]
           ping == [NewRule EXCEPT !.intValue = 9999]
<1>1. ip = [stringValue |-> s.ip, intValue |-> -1] /\ s.ip \in IP
  BY DEF NewRule, PlayerID
<1>2. port = [stringValue |-> NULL, intValue |-> s.port]
  BY DEF NewRule
<1>3. ping = [stringValue |-> NULL, intValue |-> 9999]
  BY DEF NewRule
<1>4. -1 \in Int /\ 9999 \in Int
  OBVIOUS
<1>5. s.port \in Int
  <2>1. s.port \in Port
    BY DEF PlayerID
  <2>2. \A n \in Port : n \in Int
    BY ConstantsAssumption
  <2>3. QED
    BY <2>1, <2>2, Zenon
<1>6. ip \in Rule
  <2>1. s.ip \in Text \cup {NULL}
    BY <1>1 DEF Text
  <2>2. QED
    BY <1>1, <1>4, <2>1, RuleIntro
<1>7. port \in Rule
  BY <1>2, <1>5, RuleIntro
<1>8. ping \in Rule
  BY <1>3, <1>4, RuleIntro
<1>9. QED
  BY <1>6, <1>7, <1>8

LEMMA DefaultRulesType ==
  ASSUME NEW rules \in Rules, NEW s \in PlayerID
  PROVE  /\ AddDefaultRulesToServer(rules, s) \in Rules
         /\ \A k \in UserKey : AddDefaultRulesToServer(rules, s)[k] = rules[k]
<1> DEFINE ip   == [NewRule EXCEPT !.stringValue = s.ip]
           port == [NewRule EXCEPT !.intValue = s.port]
           ping == [NewRule EXCEPT !.intValue = 9999]
<1>1. ip \in Rule /\ port \in Rule /\ ping \in Rule
  BY DefaultRuleType
<1>2. AddDefaultRulesToServer(rules, s) =
        [rules EXCEPT !["IP"] = ip, !["Port"] = port, !["Ping"] = ping]
  BY DEF AddDefaultRulesToServer
<1> HIDE DEF ip, port, ping
<1>3. QED
  BY <1>1, <1>2 DEF Rules, RuleKey, ReservedKey, UserKey

LEMMA DeserializeServerType ==
  ASSUME NEW rules \in Rules
  PROVE  DeserializeServer(rules) \in Rules
BY DEF DeserializeServer, Rules
-----------------------------------------------------------------------------
(* The database table and the list *)

IsTable(t) == DOMAIN t \subseteq Nat /\ \A id \in DOMAIN t : t[id] \in Row

IsList(l) == DOMAIN l \subseteq PlayerID /\ \A s \in DOMAIN l : l[s] \in Server

LEMMA RowIntro ==
  ASSUME NEW host \in IP, NEW name \in Column, NEW location \in Column, NEW ping \in Nat
  PROVE  [host |-> host, name |-> name, location |-> location, ping |-> ping] \in Row
BY DEF Row

\* What the columns get is never the null pointer when the export gets through.
LEMMA ColumnType ==
  ASSUME NEW rules \in Rules, NEW key \in RuleKey, StringColumn(rules, key) # NULL
  PROVE  StringColumn(rules, key) \in Column
<1>1. CASE rules[key] = NULL
  <2>1. "" \in Column
    BY Zenon DEF Column, Text
  <2>2. QED
    BY <1>1, <2>1 DEF StringColumn
<1>2. CASE rules[key] # NULL
  <2>1. rules[key] \in Rule
    BY <1>2 DEF Rules
  <2>2. rules[key].stringValue \in Text \cup {NULL}
    BY <2>1 DEF Rule
  <2>3. StringColumn(rules, key) = rules[key].stringValue
    BY <1>2 DEF StringColumn
  <2>4. QED
    BY <2>2, <2>3, Zenon DEF Column
<1>3. QED
  BY <1>1, <1>2

LEMMA PingColumnType ==
  ASSUME NEW rules \in Rules
  PROVE  PingColumn(rules) \in Nat
<1>1. CASE rules["SPing"] = NULL
  BY <1>1 DEF PingColumn
<1>2. CASE rules["SPing"] # NULL
  <2>1. rules["SPing"] \in Rule
    BY <1>2 DEF Rules, RuleKey, UserKey
  <2>2. rules["SPing"].intValue \in Int
    BY <2>1 DEF Rule
  <2>3. \A n \in Int : n % 65536 \in Nat
    OBVIOUS
  <2>4. PingColumn(rules) = rules["SPing"].intValue % 65536
    BY <1>2 DEF PingColumn
  <2>5. QED
    BY <2>2, <2>3, <2>4
<1>3. QED
  BY <1>1, <1>2

\* updateServerInfos keeps the table a table.
LEMMA ExportType ==
  ASSUME NEW t, IsTable(t), NEW rules \in Rules, ~ ExportsNull(rules)
  PROVE  IsTable(ExportRulesToMySQL(t, rules))
<1>1. /\ StringColumn(rules, "Game name") \in Column
      /\ StringColumn(rules, "Server location") \in Column
  BY ColumnType DEF ExportsNull, RuleKey, UserKey
<1>2. PingColumn(rules) \in Nat
  BY PingColumnType
<1>3. \A id \in DOMAIN t : t[id].host \in IP
  BY DEF IsTable, Row
<1>4. DOMAIN ExportRulesToMySQL(t, rules) = DOMAIN t
  BY DEF ExportRulesToMySQL
<1>5. ASSUME NEW id \in DOMAIN t
      PROVE  ExportRulesToMySQL(t, rules)[id] \in Row
  BY <1>1, <1>2, <1>3, RowIntro DEF ExportRulesToMySQL
<1>6. QED
  BY <1>4, <1>5 DEF IsTable

\* So do the other statements.
LEMMA TableType ==
  ASSUME IsTable(games), nextID \in Nat
  PROVE  /\ \A hosts : IsTable(GamesWithoutHosts(hosts))
         /\ \A host \in IP : IsTable(WithNewRow(host))
         /\ IsTable(Empty)
<1>1. \A hosts : IsTable(GamesWithoutHosts(hosts))
  BY DEF IsTable, GamesWithoutHosts, Restrict
<1>2. ASSUME NEW host \in IP
      PROVE  IsTable(WithNewRow(host))
  <2>1. "N/A" \in Column /\ 0 \in Nat
    BY Zenon, 0 \in Nat DEF Column
  <2>2. [host |-> host, name |-> "N/A", location |-> "N/A", ping |-> 0] \in Row
    BY <2>1, RowIntro
  <2>3. QED
    BY <2>2 DEF IsTable, WithNewRow
<1>3. IsTable(Empty)
  BY DEF IsTable, Empty
<1>4. QED
  BY <1>1, <1>2, <1>3

\* An export of any servers, all of them exportable, leaves a table.
LEMMA GamesAfterExportType ==
  ASSUME TypeOK, NEW servers \in SUBSET (Listed \ Unexportable),
         NEW table \in GamesAfterExportOf(servers)
  PROVE  IsTable(table)
<1>1. IsTable(games)
  BY DEF TypeOK, IsTable
<1>2. CASE servers = {}
  BY <1>1, <1>2 DEF GamesAfterExportOf
<1>3. CASE servers # {}
  <2>1. PICK s \in servers : table = ExportRulesToMySQL(games, gameServerList[s].serverRules)
    BY <1>3 DEF GamesAfterExportOf, LastOf
  <2>2. gameServerList[s].serverRules \in Rules
    BY DEF TypeOK, Server
  <2>3. ~ ExportsNull(gameServerList[s].serverRules)
    BY DEF Unexportable
  <2>4. QED
    BY <1>1, <2>1, <2>2, <2>3, ExportType
<1>4. QED
  BY <1>2, <1>3

\* Stop leaves the types as they are, whatever happened to the table.
LEMMA StopType ==
  ASSUME TypeOK, Stop, nextID' \in Nat, IsTable(games')
  PROVE  TypeOK'
<1>1. DOMAIN Empty = {} /\ 0 \in 0 .. TimeRange - 1 /\ 0 \in Nat
  BY ConstantsAssumption DEF Empty
<1>2. QED
  BY <1>1 DEF TypeOK, Stop, IsTable, Listed
-----------------------------------------------------------------------------
(* The list *)

LEMMA ServerIntro ==
  ASSUME NEW origin \in PlayerID, NEW failed \in 0 .. NUMBER_OF_MISSED_PINGS_TO_DROP,
         NEW next \in 0 .. TimeRange - 1, NEW id \in Nat, NEW rules \in Rules
  PROVE  [originationId |-> origin, failedPingResponses |-> failed, nextPingTime |-> next,
          mySQLListID |-> id, serverRules |-> rules] \in Server
BY DEF Server

LEMMA NewServerType ==
  ASSUME nextID \in Nat, NEW s \in PlayerID, NEW origin \in PlayerID, NEW rules \in Rules
  PROVE  NewServer(s, origin, rules) \in Server
<1>1. 0 \in 0 .. NUMBER_OF_MISSED_PINGS_TO_DROP /\ 0 \in 0 .. TimeRange - 1
  BY ConstantsAssumption
<1>2. AddDefaultRulesToServer(rules, s) \in Rules
  BY DefaultRulesType
<1>3. QED
  BY <1>1, <1>2, ServerIntro DEF NewServer

LEMMA PingedType ==
  ASSUME time \in 0 .. TimeRange - 1, NEW server \in Server, NEW lastPing \in PingTime,
         server.failedPingResponses < NUMBER_OF_MISSED_PINGS_TO_DROP
  PROVE  Pinged(server, lastPing) \in Server
<1>1. lastPing \in Int
  BY ConstantsAssumption
<1>2. UpdateServerRule(server.serverRules, "SPing", NULL, lastPing) \in Rules
  BY <1>1, UpdateServerRuleType DEF Server, RuleKey, UserKey
<1>3. (time + KEEP_ALIVE_PING_FREQUENCY) % TimeRange \in 0 .. TimeRange - 1
  BY ConstantsAssumption
<1>4. server.failedPingResponses + 1 \in 0 .. NUMBER_OF_MISSED_PINGS_TO_DROP
  BY ConstantsAssumption DEF Server
<1>5. QED
  BY <1>2, <1>3, <1>4 DEF Pinged, Server

\* What the next packet is.
LEMMA HeadType ==
  ASSUME TypeOK, incoming # <<>>
  PROVE  /\ Head(incoming) \in Packet
         /\ Tail(incoming) \in Seq(NetworkPacket)
BY NetworkAssumption DEF TypeOK

LEMMA SenderType ==
  ASSUME NEW packet \in Packet
  PROVE  /\ packet.from \in PlayerID
         /\ packet.from.ip \in IP
BY DEF Packet, PlayerID

\* Uploads and delists name a server of the sender's host.
LEMMA NamedServerType ==
  ASSUME NEW packet \in Packet, packet.type \in {"SET_SERVER", "DELIST_SERVER", "RELAYED"}
  PROVE  [ip |-> packet.from.ip, port |-> packet.port] \in PlayerID
<1>1. packet.port \in Port
  BY DEF Packet
<1>2. QED
  BY <1>1, SenderType DEF PlayerID

LEMMA UploadType ==
  ASSUME NEW packet \in Packet, packet.type = "SET_SERVER"
  PROVE  DeserializeServer(packet.rules) \in Rules
<1>1. packet.rules \in Rules
  BY DEF Packet
<1>2. QED
  BY <1>1, DeserializeServerType
-----------------------------------------------------------------------------
(* Type correctness: one lemma for each action that changes the list or the *)
(* table.                                                                  *)

LEMMA LoopStartType ==
  ASSUME TypeOK, NEW delay \in 0 .. MaxDelay, LoopStart(delay)
  PROVE  TypeOK'
<1> DEFINE due == sinceExport + delay >= ExportPeriod
<1>1. CASE due /\ Unexportable # {}
  <2>1. ExportedBeforeNull \in SUBSET (Listed \ Unexportable)
    <3>1. ASSUME NEW s \in Unexportable
          PROVE  s \notin ExportedBeforeNull
      <4>1. gameServerList[s].mySQLListID \in Nat
        BY DEF TypeOK, Server, Unexportable
      <4>2. ~ (gameServerList[s].mySQLListID < gameServerList[s].mySQLListID)
        BY <4>1
      <4>3. QED
        BY <4>2 DEF ExportedBeforeNull
    <3>2. QED
      BY <3>1 DEF ExportedBeforeNull
  <2>2. games' \in GamesAfterExportOf(ExportedBeforeNull) /\ Stop /\ UNCHANGED nextID
    BY <1>1 DEF LoopStart
  <2>3. IsTable(games')
    BY <2>1, <2>2, GamesAfterExportType
  <2>4. QED
    BY <2>2, <2>3, StopType DEF TypeOK
<1>2. CASE ~ (due /\ Unexportable # {})
  <2>1. /\ pc' = "packets"
        /\ time' = (time + delay) % TimeRange
        /\ sinceExport' = IF due THEN 0 ELSE sinceExport + delay
        /\ games' \in IF due THEN GamesAfterExportOf(Listed) ELSE {games}
        /\ sent' = <<>>
        /\ UNCHANGED <<gameServerList, nextID, banned, incoming>>
    BY <1>2 DEF LoopStart
  <2>2. IsTable(games')
    <3>1. CASE due
      <4>1. Listed \in SUBSET (Listed \ Unexportable)
        BY <1>2, <3>1
      <4>2. games' \in GamesAfterExportOf(Listed)
        BY <2>1, <3>1
      <4>3. QED
        BY <4>1, <4>2, GamesAfterExportType
    <3>2. CASE ~ due
      BY <2>1, <3>2 DEF TypeOK, IsTable
    <3>3. QED
      BY <3>1, <3>2
  <2>3. time' \in 0 .. TimeRange - 1 /\ sinceExport' \in Nat
    BY <2>1, ConstantsAssumption DEF TypeOK
  <2>4. QED
    BY <2>1, <2>2, <2>3 DEF TypeOK, IsTable, Listed
<1>3. QED
  BY <1>1, <1>2

LEMMA BanFlooderType ==
  ASSUME TypeOK, BanFlooder
  PROVE  TypeOK'
<1>1. Head(incoming) \in Packet /\ Tail(incoming) \in Seq(NetworkPacket)
  BY HeadType DEF BanFlooder
<1>2. banned' \subseteq IP
  BY <1>1, SenderType DEF BanFlooder, TypeOK
<1>3. IsTable(games')
  BY TableType DEF BanFlooder, TypeOK, IsTable
<1>4. IsList(gameServerList')
  BY DEF BanFlooder, TypeOK, IsList, Restrict, Listed
<1>5. /\ pc' = "sweep"
      /\ incoming' \in Seq(NetworkPacket)
      /\ sent' \in Seq(Notification)
      /\ UNCHANGED <<nextID, time, sinceExport>>
  BY <1>1 DEF BanFlooder
<1>6. QED
  BY <1>2, <1>3, <1>4, <1>5 DEF TypeOK, IsTable, IsList, Listed

LEMMA HandleDelistServerType ==
  ASSUME TypeOK, HandleDelistServer
  PROVE  TypeOK'
<1>1. Tail(incoming) \in Seq(NetworkPacket)
  BY HeadType DEF HandleDelistServer, Receives
<1>2. IsTable(games')
  BY TableType DEF HandleDelistServer, TypeOK, IsTable
<1>3. IsList(gameServerList')
  BY DEF HandleDelistServer, TypeOK, IsList, Restrict, Listed
<1>4. /\ incoming' = Tail(incoming)
      /\ sent' = <<>>
      /\ UNCHANGED <<pc, nextID, time, sinceExport, banned>>
  BY DEF HandleDelistServer, Receives
<1>5. incoming' \in Seq(NetworkPacket) /\ sent' \in Seq(Notification)
  BY <1>1, <1>4
<1>6. QED
  BY <1>2, <1>3, <1>4, <1>5 DEF TypeOK, IsTable, IsList, Listed

LEMMA HandleUpdateServerType ==
  ASSUME TypeOK, HandleUpdateServer
  PROVE  TypeOK'
<1> DEFINE packet == Head(incoming)
           s      == [ip |-> packet.from.ip, port |-> packet.port]
           rules  == DeserializeServer(packet.rules)
<1>1. packet \in Packet /\ Tail(incoming) \in Seq(NetworkPacket)
  BY HeadType DEF HandleUpdateServer
<1>2. s \in PlayerID /\ packet.from \in PlayerID /\ s.ip \in IP
  BY <1>1, NamedServerType, SenderType DEF HandleUpdateServer
<1>3. rules \in Rules
  BY <1>1, UploadType DEF HandleUpdateServer
<1>4. IsTable(games)
  BY DEF TypeOK, IsTable
<1>5. CASE ~ Deserializes(packet.rules)
  BY <1>4, <1>5, StopType DEF HandleUpdateServer, TypeOK
<1>6. CASE Deserializes(packet.rules) /\ s \in Listed
  <2>1. RefreshServer(s, rules)
    BY <1>6 DEF HandleUpdateServer
  <2>2. gameServerList[s] \in Server
    BY <1>6 DEF TypeOK
  <2>3. UpdateServer(gameServerList[s].serverRules, rules) \in Rules
    BY <1>3, <2>2, UpdateServerType DEF Server
  <2>4. [gameServerList[s] EXCEPT !.serverRules = UpdateServer(@, rules)] \in Server
    BY <2>2, <2>3 DEF Server
  <2>5. IsList(gameServerList')
    BY <2>1, <2>4 DEF RefreshServer, TypeOK, IsList, Listed
  <2>6. QED
    BY <1>1, <2>1, <2>5 DEF RefreshServer, TypeOK, IsList, Listed
<1>7. CASE Deserializes(packet.rules) /\ s \notin Listed
  <2> DEFINE server == NewServer(s, packet.from, rules)
  <2>1. AddServer(s, packet.from, rules)
    BY <1>7 DEF HandleUpdateServer
  <2>2. server \in Server
    BY <1>2, <1>3, NewServerType DEF TypeOK
  <2>3. nextID' = nextID + 1 /\ nextID' \in Nat
    BY <2>1 DEF AddServer, TypeOK
  <2>4. IsTable(WithNewRow(s.ip))
    BY <1>2, <1>4, TableType DEF TypeOK
  <2>5. CASE ExportsNull(server.serverRules)
    BY <2>1, <2>3, <2>4, <2>5, StopType DEF AddServer
  <2>6. CASE ~ ExportsNull(server.serverRules)
    <3>1. /\ ListServer(s, server)
          /\ games' = ExportRulesToMySQL(WithNewRow(s.ip), server.serverRules)
          /\ incoming' = Tail(incoming)
          /\ sent' = <<>>
          /\ UNCHANGED <<pc, time, sinceExport, banned>>
      BY <2>1, <2>6 DEF AddServer
    <3>2. IsTable(games')
      BY <2>2, <2>4, <2>6, <3>1, ExportType DEF Server
    <3>3. IsList(gameServerList')
      BY <1>2, <2>2, <3>1 DEF ListServer, TypeOK, IsList, Listed
    <3>4. incoming' \in Seq(NetworkPacket) /\ sent' \in Seq(Notification)
      BY <1>1, <3>1
    <3>5. QED
      BY <2>3, <3>1, <3>2, <3>3, <3>4 DEF TypeOK, IsTable, IsList, Listed
  <2>7. QED
    BY <2>5, <2>6
<1>8. QED
  BY <1>5, <1>6, <1>7

LEMMA HandlePongType ==
  ASSUME TypeOK, HandlePong
  PROVE  TypeOK'
<1> DEFINE packet == Head(incoming)
           s      == packet.from
           ponged == [gameServerList[s] EXCEPT !.failedPingResponses = 0]
<1>1. /\ packet \in Packet
      /\ incoming' \in Seq(NetworkPacket)
      /\ packet.type = "PONG"
  BY HeadType DEF HandlePong, Receives
<1>2. packet.pingTime \in Int
  BY <1>1 DEF Packet
<1>3. CASE s \notin Listed
  BY <1>1, <1>3 DEF HandlePong, TypeOK, Listed
<1>4. CASE s \in Listed
  <2>1. gameServerList[s] \in Server
    BY <1>4 DEF TypeOK
  <2>2. ponged \in Server /\ ponged.serverRules = gameServerList[s].serverRules
    BY <2>1, ConstantsAssumption DEF Server
  <2>3. ASSUME gameServerList[s].serverRules["Ping"] # NULL
        PROVE  [ponged EXCEPT !.serverRules["Ping"].intValue = packet.pingTime] \in Server
    <3> DEFINE r == ponged.serverRules
    <3>1. r \in Rules /\ r["Ping"] \in Rule
      BY <2>2, <2>3 DEF Server, Rules, RuleKey, ReservedKey
    <3>2. [r["Ping"] EXCEPT !.intValue = packet.pingTime] \in Rule
      BY <1>2, <3>1 DEF Rule
    <3>3. [r EXCEPT !["Ping"].intValue = packet.pingTime] \in Rules
      BY <3>1, <3>2 DEF Rules
    <3>4. QED
      BY <2>2, <3>3 DEF Server
  <2>4. IsList(gameServerList')
    BY <1>4, <2>2, <2>3 DEF HandlePong, TypeOK, IsList, Listed
  <2>5. sent' \in Seq(Notification) /\ UNCHANGED <<pc, games, nextID, time, sinceExport, banned>>
    BY DEF HandlePong
  <2>6. QED
    BY <1>1, <2>4, <2>5 DEF TypeOK, IsList, Listed
<1>5. QED
  BY <1>3, <1>4

LEMMA HandleRelayedType ==
  ASSUME TypeOK, HandleRelayedConnectionNotification
  PROVE  TypeOK'
<1> DEFINE packet == Head(incoming)
<1>1. /\ packet \in Packet
      /\ incoming' \in Seq(NetworkPacket)
      /\ packet.type = "RELAYED"
  BY HeadType DEF HandleRelayedConnectionNotification, Receives
<1>2. ASSUME packet.target \in Listed
      PROVE  [to     |-> gameServerList[packet.target].originationId,
              client |-> [ip |-> packet.from.ip, port |-> packet.port]] \in Notification
  <2>1. gameServerList[packet.target].originationId \in PlayerID
    BY <1>2 DEF TypeOK, Server
  <2>2. [ip |-> packet.from.ip, port |-> packet.port] \in PlayerID
    BY <1>1, NamedServerType
  <2>3. QED
    BY <2>1, <2>2 DEF Notification
<1>3. sent' \in Seq(Notification)
  BY <1>2 DEF HandleRelayedConnectionNotification
<1>4. QED
  BY <1>1, <1>3 DEF HandleRelayedConnectionNotification, TypeOK, Listed

LEMMA PingSweepType ==
  ASSUME TypeOK, PingSweep
  PROVE  TypeOK'
<1>1. IsTable(games')
  BY TableType DEF PingSweep, TypeOK, IsTable
<1>2. PICK lastPing \in [PingDue \ Unanswered -> PingTime] :
        gameServerList' = [s \in Listed \ Unanswered |->
                             IF s \in PingDue
                             THEN Pinged(gameServerList[s], lastPing[s])
                             ELSE gameServerList[s]]
  BY DEF PingSweep
<1>3. ASSUME NEW s \in PingDue \ Unanswered
      PROVE  Pinged(gameServerList[s], lastPing[s]) \in Server
  <2>1. gameServerList[s] \in Server /\ lastPing[s] \in PingTime
    BY DEF TypeOK, PingDue
  <2>2. gameServerList[s].failedPingResponses < NUMBER_OF_MISSED_PINGS_TO_DROP
    BY <2>1, ConstantsAssumption DEF Unanswered, Server
  <2>3. QED
    BY <2>1, <2>2, PingedType DEF TypeOK
<1>4. IsList(gameServerList')
  BY <1>2, <1>3 DEF IsList, TypeOK, Listed
<1>5. QED
  BY <1>1, <1>4 DEF PingSweep, TypeOK, IsTable, IsList, Listed

LEMMA DatabaseFailsType ==
  ASSUME TypeOK, DatabaseFails
  PROVE  TypeOK'
<1>1. IsTable(games) /\ IsTable(Empty) /\ nextID \in Nat /\ nextID + 1 \in Nat
  BY TableType DEF TypeOK, IsTable
<1>2. ASSUME NEW table, IsTable(table), StatementFails(table), nextID' \in Nat
      PROVE  TypeOK'
  BY <1>1, <1>2, StopType DEF StatementFails
<1>3. CASE ExportFails
  <2>1. PICK s \in ExportedBeforeNull :
          \E table \in GamesAfterExportOf({t \in Listed :
              gameServerList[t].mySQLListID < gameServerList[s].mySQLListID}) :
            StatementFails(table)
    BY <1>3 DEF ExportFails
  <2> DEFINE before == {t \in Listed :
                 gameServerList[t].mySQLListID < gameServerList[s].mySQLListID}
  <2>2. before \in SUBSET (Listed \ Unexportable)
    <3>1. ASSUME NEW t \in before, t \in Unexportable
          PROVE  FALSE
      <4>1. gameServerList[s].mySQLListID < gameServerList[t].mySQLListID
        BY <2>1, <3>1 DEF ExportedBeforeNull
      <4>2. /\ gameServerList[s].mySQLListID \in Nat
            /\ gameServerList[t].mySQLListID \in Nat
        BY <2>1, <3>1 DEF ExportedBeforeNull, TypeOK, Server
      <4>3. QED
        BY <3>1, <4>1, <4>2
    <3>2. QED
      BY <3>1
  <2>3. QED
    BY <1>1, <1>2, <1>3, <2>1, <2>2, GamesAfterExportType DEF ExportFails
<1>4. CASE HandlerFails
  BY <1>1, <1>2, <1>4 DEF HandlerFails
<1>5. CASE FirstExportFails
  <2>1. Head(incoming).from.ip \in IP
    BY <1>5, HeadType, SenderType DEF FirstExportFails
  <2>2. IsTable(WithNewRow(Head(incoming).from.ip))
    BY <1>1, <2>1, TableType
  <2>3. QED
    BY <1>1, <1>2, <1>5, <2>2 DEF FirstExportFails
<1>6. CASE SweepFails
  <2>1. \A hosts : IsTable(GamesWithoutHosts(hosts))
    BY <1>1, TableType
  <2>2. QED
    BY <1>1, <1>2, <1>6, <2>1 DEF SweepFails
<1>7. QED
  BY <1>3, <1>4, <1>5, <1>6 DEF DatabaseFails

LEMMA TypeOKNext ==
  ASSUME TypeOK, [Next]_vars
  PROVE  TypeOK'
<1>1. CASE Start
  BY <1>1, TableType DEF Start, TypeOK, IsTable, Listed
<1>2. ASSUME NEW delay \in 0 .. MaxDelay, LoopStart(delay)
      PROVE  TypeOK'
  BY <1>2, LoopStartType
<1>3. CASE HandleDelistServer
  BY <1>3, HandleDelistServerType
<1>4. CASE HandleUpdateServer
  BY <1>4, HandleUpdateServerType
<1>5. CASE HandlePong
  BY <1>5, HandlePongType
<1>6. CASE HandleRelayedConnectionNotification
  BY <1>6, HandleRelayedType
<1>7. CASE HandleOtherPacket
  BY <1>7, HeadType DEF HandleOtherPacket, Receives, TypeOK, Listed
<1>8. CASE BanFlooder
  BY <1>8, BanFlooderType
<1>9. CASE PacketsDone
  BY <1>9 DEF PacketsDone, TypeOK, Listed
<1>10. CASE PingSweep
  BY <1>10, PingSweepType
<1>11. CASE DatabaseFails
  BY <1>11, DatabaseFailsType
<1>12. ASSUME NEW packet \in NetworkPacket, NetworkDelivers(packet)
       PROVE  TypeOK'
  <2>1. Append(incoming, packet) \in Seq(NetworkPacket)
    BY DEF TypeOK
  <2>2. QED
    BY <1>12, <2>1 DEF NetworkDelivers, TypeOK, Listed
<1>13. CASE UNCHANGED vars
  BY <1>13 DEF vars, TypeOK, Listed
<1>14. QED
  BY <1>1, <1>2, <1>3, <1>4, <1>5, <1>6, <1>7, <1>8, <1>9, <1>10, <1>11, <1>12, <1>13
     DEF Next, Loop, HandlePacket

LEMMA TypeOKInit == Init => TypeOK
<1>1. DOMAIN Empty = {} /\ 0 \in 0 .. TimeRange - 1
  BY ConstantsAssumption DEF Empty
<1>2. QED
  BY <1>1 DEF Init, TypeOK, Listed

\* Every variable of the master server keeps to the types of the program.
THEOREM TypeCorrect == Spec => []TypeOK
<1>1. Init => TypeOK
  BY TypeOKInit
<1>2. TypeOK /\ [Next]_vars => TypeOK'
  BY TypeOKNext
<1>3. QED
  BY <1>1, <1>2, PTL DEF Spec
-----------------------------------------------------------------------------
(* The table and the list.  RowsBelongToListedServers is inductive as it    *)
(* stands: what leaves the list takes every row of its host, so a row that  *)
(* stays has an owner on another host.                                     *)

\* An export changes neither the rows there are nor whose they are.
LEMMA ExportKeepsHosts ==
  ASSUME NEW rules, NEW t
  PROVE  LET new == ExportRulesToMySQL(t, rules)
         IN DOMAIN new = DOMAIN t /\ \A id \in DOMAIN t : new[id].host = t[id].host
BY DEF ExportRulesToMySQL

LEMMA GamesAfterExportKeepsHosts ==
  ASSUME NEW servers, NEW table \in GamesAfterExportOf(servers)
  PROVE  DOMAIN table = DOMAIN games /\ \A id \in DOMAIN games : table[id].host = games[id].host
<1>1. CASE servers = {}
  BY <1>1 DEF GamesAfterExportOf
<1>2. CASE servers # {}
  BY <1>2, ExportKeepsHosts DEF GamesAfterExportOf
<1>3. QED
  BY <1>1, <1>2

LEMMA GamesWithoutHostsRows ==
  ASSUME NEW hosts
  PROVE  /\ DOMAIN GamesWithoutHosts(hosts) = {id \in DOMAIN games : games[id].host \notin hosts}
         /\ \A id \in DOMAIN GamesWithoutHosts(hosts) : GamesWithoutHosts(hosts)[id] = games[id]
BY DEF GamesWithoutHosts, RowsOf, Restrict

\* Rows go with all the servers of their hosts, or not at all.
LEMMA RowsOfOtherHosts ==
  ASSUME RowsBelongToListedServers, Running, NEW hosts,
         games' = GamesWithoutHosts(hosts),
         \A s \in Listed : s.ip \notin hosts =>
           s \in Listed' /\ gameServerList'[s].mySQLListID = gameServerList[s].mySQLListID
  PROVE  RowsBelongToListedServers'
<1> SUFFICES ASSUME NEW id \in DOMAIN games'
             PROVE  \E s \in Listed' : /\ gameServerList'[s].mySQLListID = id
                                       /\ games'[id].host = s.ip
  BY DEF RowsBelongToListedServers
<1>1. id \in DOMAIN games /\ games[id].host \notin hosts /\ games'[id] = games[id]
  BY GamesWithoutHostsRows
<1>2. PICK s \in Listed : gameServerList[s].mySQLListID = id /\ games[id].host = s.ip
  BY <1>1 DEF RowsBelongToListedServers
<1>3. QED
  BY <1>1, <1>2

\* The list keeps its servers and their rows, the table its rows.
LEMMA RowsAndServersStay ==
  ASSUME RowsBelongToListedServers, Running,
         DOMAIN games' = DOMAIN games,
         \A id \in DOMAIN games : games'[id].host = games[id].host,
         \A s \in Listed :
           s \in Listed' /\ gameServerList'[s].mySQLListID = gameServerList[s].mySQLListID
  PROVE  RowsBelongToListedServers'
BY DEF RowsBelongToListedServers

LEMMA StopRows ==
  ASSUME Stop
  PROVE  RowsBelongToListedServers'
BY DEF Stop, RowsBelongToListedServers, Running

LEMMA AddServerRows ==
  ASSUME RowsBelongToListedServers, Running, NEW s, s \notin Listed, NEW origin, NEW rules,
         AddServer(s, origin, rules)
  PROVE  RowsBelongToListedServers'
<1> DEFINE server == NewServer(s, origin, rules)
<1>1. CASE ExportsNull(server.serverRules)
  BY <1>1, StopRows DEF AddServer
<1>2. CASE ~ ExportsNull(server.serverRules)
  <2>1. /\ games' = ExportRulesToMySQL(WithNewRow(s.ip), server.serverRules)
        /\ ListServer(s, server)
    BY <1>2 DEF AddServer
  <2>2. server.mySQLListID = nextID
    BY DEF NewServer
  <2>3. /\ Listed' = Listed \cup {s}
        /\ gameServerList'[s].mySQLListID = nextID
        /\ \A t \in Listed : gameServerList'[t] = gameServerList[t]
    BY <2>1, <2>2 DEF ListServer, Listed
  <2>4. /\ DOMAIN games' = DOMAIN games \cup {nextID}
        /\ games'[nextID].host = s.ip
        /\ \A id \in DOMAIN games \ {nextID} : games'[id].host = games[id].host
    BY <2>1, ExportKeepsHosts DEF WithNewRow
  <2>5. ASSUME NEW id \in DOMAIN games'
        PROVE  \E t \in Listed' : /\ gameServerList'[t].mySQLListID = id
                                  /\ games'[id].host = t.ip
    <3>1. CASE id = nextID
      BY <2>3, <2>4, <3>1
    <3>2. CASE id # nextID
      <4>1. PICK t \in Listed : gameServerList[t].mySQLListID = id /\ games[id].host = t.ip
        BY <2>4, <2>5, <3>2 DEF RowsBelongToListedServers
      <4>2. QED
        BY <2>3, <2>4, <2>5, <3>2, <4>1
    <3>3. QED
      BY <3>1, <3>2
  <2>6. QED
    BY <2>5 DEF RowsBelongToListedServers
<1>3. QED
  BY <1>1, <1>2

LEMMA LoopStartRows ==
  ASSUME RowsBelongToListedServers, NEW delay, LoopStart(delay)
  PROVE  RowsBelongToListedServers'
<1> DEFINE due == sinceExport + delay >= ExportPeriod
<1>1. CASE due /\ Unexportable # {}
  BY <1>1, StopRows DEF LoopStart
<1>2. CASE ~ (due /\ Unexportable # {})
  <2>1. /\ games' \in IF due THEN GamesAfterExportOf(Listed) ELSE {games}
        /\ UNCHANGED gameServerList
    BY <1>2 DEF LoopStart
  <2>2. DOMAIN games' = DOMAIN games /\ \A id \in DOMAIN games : games'[id].host = games[id].host
    <3>1. CASE due
      BY <2>1, <3>1, GamesAfterExportKeepsHosts
    <3>2. CASE ~ due
      BY <2>1, <3>2
    <3>3. QED
      BY <3>1, <3>2
  <2>3. Running
    BY DEF LoopStart, Running
  <2>4. QED
    BY <2>1, <2>2, <2>3, RowsAndServersStay DEF Listed
<1>3. QED
  BY <1>1, <1>2

LEMMA PingSweepRows ==
  ASSUME TypeOK, RowsBelongToListedServers, PingSweep
  PROVE  RowsBelongToListedServers'
<1> DEFINE hosts == {s.ip : s \in Unanswered}
<1>1. PICK lastPing \in [PingDue \ Unanswered -> PingTime] :
        gameServerList' = [s \in Listed \ Unanswered |->
                             IF s \in PingDue
                             THEN Pinged(gameServerList[s], lastPing[s])
                             ELSE gameServerList[s]]
  BY DEF PingSweep
<1>2. \A server \in Server : \A ping : Pinged(server, ping).mySQLListID = server.mySQLListID
  BY DEF Pinged, Server
<1>3. ASSUME NEW s \in Listed, s.ip \notin hosts
      PROVE  s \in Listed' /\ gameServerList'[s].mySQLListID = gameServerList[s].mySQLListID
  <2>1. s \in Listed \ Unanswered
    BY <1>3
  <2>2. Listed' = Listed \ Unanswered
    BY <1>1 DEF Listed
  <2>3. gameServerList[s] \in Server
    BY DEF TypeOK
  <2>4. CASE s \in PingDue
    BY <1>1, <1>2, <2>1, <2>2, <2>3, <2>4
  <2>5. CASE s \notin PingDue
    BY <1>1, <2>1, <2>2, <2>5
  <2>6. QED
    BY <2>4, <2>5
<1>4. games' = GamesWithoutHosts(hosts) /\ Running
  BY DEF PingSweep, Running
<1>5. QED
  BY <1>3, <1>4, RowsOfOtherHosts

\* Every row of the database belongs to a listed server.
THEOREM RowsBelong == Spec => []RowsBelongToListedServers
<1>1. Init => RowsBelongToListedServers
  BY DEF Init, RowsBelongToListedServers, Running
<1>2. TypeOK /\ RowsBelongToListedServers /\ [Next]_vars => RowsBelongToListedServers'
  <2> SUFFICES ASSUME TypeOK, RowsBelongToListedServers, [Next]_vars
               PROVE  RowsBelongToListedServers'
    OBVIOUS
  <2>1. CASE Start
    BY <2>1 DEF Start, RowsBelongToListedServers, Empty
  <2>2. ASSUME NEW delay \in 0 .. MaxDelay, LoopStart(delay)
        PROVE  RowsBelongToListedServers'
    BY <2>2, LoopStartRows
  <2>3. CASE HandleDelistServer
    <3> DEFINE s == [ip |-> Head(incoming).from.ip, port |-> Head(incoming).port]
    <3>1. Running
      BY <2>3 DEF HandleDelistServer, Receives, Running
    <3>2. CASE s \in Listed
      <4>1. /\ games' = GamesWithoutHosts({s.ip})
            /\ gameServerList' = Restrict(gameServerList, Listed \ {s})
        BY <2>3, <3>2 DEF HandleDelistServer
      <4>2. ASSUME NEW t \in Listed, t.ip \notin {s.ip}
            PROVE  t \in Listed' /\ gameServerList'[t] = gameServerList[t]
        BY <4>1, <4>2 DEF Restrict, Listed
      <4>3. QED
        BY <3>1, <4>1, <4>2, RowsOfOtherHosts
    <3>3. CASE s \notin Listed
      BY <2>3, <3>1, <3>3, RowsAndServersStay DEF HandleDelistServer, Listed
    <3>4. QED
      BY <3>2, <3>3
  <2>4. CASE HandleUpdateServer
    <3> DEFINE packet == Head(incoming)
               s      == [ip |-> packet.from.ip, port |-> packet.port]
               rules  == DeserializeServer(packet.rules)
    <3>1. Running
      BY <2>4 DEF HandleUpdateServer, Running
    <3>2. CASE ~ Deserializes(packet.rules)
      BY <2>4, <3>2, StopRows DEF HandleUpdateServer
    <3>3. CASE Deserializes(packet.rules) /\ s \in Listed
      <4>1. RefreshServer(s, rules)
        BY <2>4, <3>3 DEF HandleUpdateServer
      <4>2. /\ Listed' = Listed /\ UNCHANGED games
            /\ \A t \in Listed : gameServerList'[t].mySQLListID = gameServerList[t].mySQLListID
        <5>1. \A t \in Listed : gameServerList[t] \in Server
          BY DEF TypeOK
        <5>2. QED
          BY <4>1, <5>1 DEF RefreshServer, Listed, Server
      <4>3. QED
        BY <3>1, <4>2, RowsAndServersStay
    <3>4. CASE Deserializes(packet.rules) /\ s \notin Listed
      BY <2>4, <3>1, <3>4, AddServerRows DEF HandleUpdateServer
    <3>5. QED
      BY <3>2, <3>3, <3>4
  <2>5. CASE HandlePong
    <3>1. /\ Listed' = Listed /\ UNCHANGED games
          /\ \A t \in Listed : gameServerList'[t].mySQLListID = gameServerList[t].mySQLListID
      <4>1. \A t \in Listed : gameServerList[t] \in Server
        BY DEF TypeOK
      <4>2. QED
        BY <2>5, <4>1 DEF HandlePong, Listed, Server
    <3>2. QED
      BY <2>5, <3>1, RowsAndServersStay DEF HandlePong, Receives, Running
  <2>6. CASE \/ HandleRelayedConnectionNotification
             \/ HandleOtherPacket
             \/ PacketsDone
             \/ \E packet \in NetworkPacket : NetworkDelivers(packet)
    <3>1. Running /\ UNCHANGED <<gameServerList, games>>
      BY <2>6 DEF HandleRelayedConnectionNotification, HandleOtherPacket, PacketsDone,
                  NetworkDelivers, Receives, Running
    <3>2. QED
      BY <3>1, RowsAndServersStay DEF Listed
  <2>7. CASE BanFlooder
    <3> DEFINE host == Head(incoming).from.ip
    <3>1. /\ Running
          /\ games' = GamesWithoutHosts({host})
          /\ gameServerList' = Restrict(gameServerList, {s \in Listed : s.ip # host})
      BY <2>7 DEF BanFlooder, Running
    <3>2. ASSUME NEW t \in Listed, t.ip \notin {host}
          PROVE  t \in Listed' /\ gameServerList'[t] = gameServerList[t]
      BY <3>1, <3>2 DEF Restrict, Listed
    <3>3. QED
      BY <3>1, <3>2, RowsOfOtherHosts
  <2>8. CASE PingSweep
    BY <2>8, PingSweepRows
  <2>9. CASE DatabaseFails
    BY <2>9, StopRows DEF DatabaseFails, ExportFails, HandlerFails, FirstExportFails,
                          SweepFails, StatementFails
  <2>10. CASE UNCHANGED vars
    BY <2>10 DEF vars, RowsBelongToListedServers, Running, Listed
  <2>11. QED
    BY <2>1, <2>2, <2>3, <2>4, <2>5, <2>6, <2>7, <2>8, <2>9, <2>10 DEF Next, Loop, HandlePacket
<1>3. QED
  BY <1>1, <1>2, TypeCorrect, PTL DEF Spec

RowsGoWithServersStep ==
  Running /\ pc' # "down" =>
    \A id \in DOMAIN games \ DOMAIN games' :
      \E s \in Listed \ Listed' : s.ip = games[id].host

\* A row of the database is lost only with a server of its host.
THEOREM RowsGo == Spec => RowsGoWithServers
<1>1. TypeOK /\ RowsBelongToListedServers /\ [Next]_vars => [RowsGoWithServersStep]_vars
  <2> SUFFICES ASSUME TypeOK, RowsBelongToListedServers, Next, Running, pc' # "down",
                      NEW id \in DOMAIN games, id \notin DOMAIN games'
               PROVE  \E s \in Listed \ Listed' : s.ip = games[id].host
    BY DEF RowsGoWithServersStep
  <2>1. CASE \E delay \in 0 .. MaxDelay : LoopStart(delay)
    <3>1. DOMAIN games' = DOMAIN games
      BY <2>1, GamesAfterExportKeepsHosts DEF LoopStart, Stop
    <3>2. QED
      BY <3>1
  <2>2. CASE HandleDelistServer
    <3> DEFINE s == [ip |-> Head(incoming).from.ip, port |-> Head(incoming).port]
    <3>1. /\ s \in Listed
          /\ games' = GamesWithoutHosts({s.ip})
          /\ gameServerList' = Restrict(gameServerList, Listed \ {s})
      BY <2>2 DEF HandleDelistServer
    <3>2. s \notin Listed'
      BY <3>1 DEF Restrict, Listed
    <3>3. games[id].host = s.ip
      BY <3>1, GamesWithoutHostsRows
    <3>4. QED
      BY <3>1, <3>2, <3>3
  <2>3. CASE HandleUpdateServer
    <3>1. id \in DOMAIN games'
      BY <2>3 DEF HandleUpdateServer, Stop, RefreshServer, AddServer, ExportRulesToMySQL,
                  WithNewRow
    <3>2. QED
      BY <3>1
  <2>4. CASE BanFlooder
    <3> DEFINE host == Head(incoming).from.ip
    <3>1. /\ games' = GamesWithoutHosts({host})
          /\ gameServerList' = Restrict(gameServerList, {s \in Listed : s.ip # host})
      BY <2>4 DEF BanFlooder
    <3>2. PICK s \in Listed : games[id].host = s.ip
      BY DEF RowsBelongToListedServers
    <3>3. s.ip = host
      BY <3>1, <3>2, GamesWithoutHostsRows
    <3>4. s \notin Listed'
      BY <3>1, <3>3 DEF Restrict, Listed
    <3>5. QED
      BY <3>2, <3>4
  <2>5. CASE PingSweep
    <3> DEFINE hosts == {s.ip : s \in Unanswered}
    <3>0. games' = GamesWithoutHosts(hosts)
      BY <2>5 DEF PingSweep
    <3>1. PICK s \in Unanswered : games[id].host = s.ip
      <4>1. games[id].host \in hosts
        <5> HIDE DEF hosts
        <5>1. QED
          BY <3>0, GamesWithoutHostsRows
      <4>2. QED
        BY <4>1
    <3>2. s \in Listed /\ s \notin Listed'
      BY <2>5, <3>1 DEF PingSweep, Unanswered, PingDue, Listed
    <3>3. QED
      BY <3>1, <3>2
  <2>6. CASE DatabaseFails
    BY <2>6 DEF DatabaseFails, ExportFails, HandlerFails, FirstExportFails, SweepFails,
                StatementFails, Stop
  <2>7. CASE \/ Start
             \/ HandlePong
             \/ HandleRelayedConnectionNotification
             \/ HandleOtherPacket
             \/ PacketsDone
             \/ \E packet \in NetworkPacket : NetworkDelivers(packet)
    BY <2>7 DEF Start, Running, HandlePong, HandleRelayedConnectionNotification,
                HandleOtherPacket, PacketsDone, NetworkDelivers
  <2>8. QED
    BY <2>1, <2>2, <2>3, <2>4, <2>5, <2>6, <2>7 DEF Next, Loop, HandlePacket
<1>2. [][RowsGoWithServersStep]_vars => RowsGoWithServers
  BY DEF RowsGoWithServers, RowsGoWithServersStep
<1>3. QED
  BY <1>1, <1>2, TypeCorrect, RowsBelong, PTL DEF Spec
-----------------------------------------------------------------------------
(* The rules.  None of the three invariants is inductive alone: a pong sets *)
(* the integer of the default rule `Ping`, which must not be a string, and *)
(* an upload keeps the integer that stands beside a string.                *)

SoundRules(rules) ==
  /\ \A k \in Keys(rules) : rules[k].stringValue # NULL => rules[k].intValue = -1
  /\ ReservedKey \subseteq Keys(rules)
  /\ rules["Ping"].stringValue = NULL

SoundServer(s, server) ==
  /\ SoundRules(server.serverRules)
  /\ server.serverRules["IP"].stringValue = s.ip
  /\ server.serverRules["Port"].intValue = s.port

RulesInv == \A s \in Listed : SoundServer(s, gameServerList[s])

\* An update of one rule keeps it a string or an integer.
LEMMA UpdatedRuleSound ==
  ASSUME NEW old \in Rule \cup {NULL}, NEW string \in Text \cup {NULL}, NEW int \in Int,
         old # NULL /\ old.stringValue # NULL => old.intValue = -1
  PROVE  LET new == UpdatedRule(old, string, int)
         IN new # NULL /\ (new.stringValue # NULL => new.intValue = -1)
<1>1. UpdatedRule(old, string, int) # NULL
  BY UpdatedRuleType, NullAssumption
<1>2. CASE string = NULL
  BY <1>1, <1>2 DEF UpdatedRule
<1>3. CASE string # NULL
  <2>1. CASE old # NULL /\ old.stringValue # NULL
    BY <1>1, <1>3, <2>1 DEF UpdatedRule
  <2>2. CASE ~ (old # NULL /\ old.stringValue # NULL)
    BY <1>1, <1>3, <2>2 DEF UpdatedRule
  <2>3. QED
    BY <2>1, <2>2
<1>4. QED
  BY <1>2, <1>3

\* A ping updates SPing alone.
LEMMA PingedSound ==
  ASSUME NEW server \in Server, SoundRules(server.serverRules), NEW lastPing \in PingTime
  PROVE  LET rules == Pinged(server, lastPing).serverRules
         IN /\ SoundRules(rules)
            /\ \A k \in ReservedKey : rules[k] = server.serverRules[k]
<1> DEFINE old == server.serverRules
           new == Pinged(server, lastPing).serverRules
<1>1. old \in Rules /\ lastPing \in Int
  BY ConstantsAssumption DEF Server
<1>2. new = [old EXCEPT !["SPing"] = UpdatedRule(old["SPing"], NULL, lastPing)]
  BY DEF Pinged, Server, UpdateServerRule
<1>3. /\ UpdatedRule(old["SPing"], NULL, lastPing) # NULL
      /\ UpdatedRule(old["SPing"], NULL, lastPing).stringValue = NULL
  <2>1. old["SPing"] \in Rule \cup {NULL}
    BY <1>1 DEF Rules, RuleKey, UserKey
  <2>2. UpdatedRule(old["SPing"], NULL, lastPing) \in Rule
    BY <1>1, <2>1, UpdatedRuleType
  <2>3. QED
    BY <2>2, NullAssumption DEF UpdatedRule
<1>4. /\ \A k \in RuleKey \ {"SPing"} : new[k] = old[k]
      /\ new["SPing"] = UpdatedRule(old["SPing"], NULL, lastPing)
  BY <1>1, <1>2 DEF Rules, RuleKey, UserKey
<1>5. "SPing" \notin ReservedKey /\ "Ping" \in ReservedKey /\ ReservedKey \subseteq RuleKey
  BY DEF ReservedKey, RuleKey
<1> HIDE DEF old, new
<1>6. \A k \in ReservedKey : new[k] = old[k]
  BY <1>4, <1>5
<1>7. SoundRules(new)
  BY <1>3, <1>4, <1>5, <1>6 DEF SoundRules, Keys, old
<1>8. QED
  BY <1>6, <1>7 DEF old, new

\* The rules of an upload, as they come off the wire.
LEMMA UploadSound ==
  ASSUME NEW packet \in NetworkPacket, packet.type = "SET_SERVER"
  PROVE  LET rules == DeserializeServer(packet.rules)
         IN \A k \in Keys(rules) : rules[k].stringValue # NULL => rules[k].intValue = -1
<1>1. \A k \in Keys(packet.rules) :
        packet.rules[k].stringValue # NULL => packet.rules[k].intValue = -1
  BY NetworkAssumption
<1>2. QED
  BY <1>1 DEF DeserializeServer, Keys

\* A new server gets its default rules.
LEMMA NewServerSound ==
  ASSUME NEW s \in PlayerID, NEW origin \in PlayerID, origin.ip = s.ip, NEW rules \in Rules,
         \A k \in Keys(rules) : rules[k].stringValue # NULL => rules[k].intValue = -1
  PROVE  SoundServer(s, NewServer(s, origin, rules))
<1> DEFINE server == NewServer(s, origin, rules)
           new    == server.serverRules
           ip     == [NewRule EXCEPT !.stringValue = s.ip]
           port   == [NewRule EXCEPT !.intValue = s.port]
           ping   == [NewRule EXCEPT !.intValue = 9999]
<1>1. /\ new = AddDefaultRulesToServer(rules, s)
      /\ server.originationId = origin
  BY DEF NewServer
<1>2. /\ ip.stringValue = s.ip /\ ip.intValue = -1
      /\ port.stringValue = NULL /\ port.intValue = s.port
      /\ ping.stringValue = NULL
  BY DEF NewRule
<1>3. new = [rules EXCEPT !["IP"] = ip, !["Port"] = port, !["Ping"] = ping]
  BY <1>1 DEF AddDefaultRulesToServer
<1>4. new["IP"] = ip /\ new["Port"] = port /\ new["Ping"] = ping
  <2> HIDE DEF ip, port, ping, new
  <2>1. QED
    BY <1>3 DEF Rules, RuleKey, ReservedKey
<1>5. \A k \in UserKey : new[k] = rules[k]
  BY <1>1, DefaultRulesType
<1>6. new \in Rules
  BY <1>1, DefaultRulesType
<1> HIDE DEF ip, port, ping, new
<1>7. ReservedKey \subseteq Keys(new)
  <2>1. ip # NULL /\ port # NULL /\ ping # NULL
    <3>1. ip \in Rule /\ port \in Rule /\ ping \in Rule
      BY DefaultRuleType DEF ip, port, ping
    <3>2. QED
      BY <3>1, NullAssumption
  <2>2. QED
    BY <1>4, <2>1 DEF Keys, RuleKey, ReservedKey
<1>8. SoundRules(new)
  <2>1. \A k \in ReservedKey : new[k].stringValue # NULL => new[k].intValue = -1
    BY <1>2, <1>4 DEF ReservedKey
  <2>2. \A k \in Keys(new) \ ReservedKey : new[k].stringValue # NULL => new[k].intValue = -1
    BY <1>5 DEF Keys, RuleKey
  <2>3. QED
    BY <1>2, <1>4, <1>7, <2>1, <2>2 DEF SoundRules
<1>9. QED
  BY <1>1, <1>2, <1>4, <1>8 DEF SoundServer, new

\* A refresh leaves the default rules alone.
LEMMA RefreshedSound ==
  ASSUME NEW server \in Server, SoundRules(server.serverRules), NEW source \in Rules,
         \A k \in Keys(source) : source[k].stringValue # NULL => source[k].intValue = -1
  PROVE  LET rules == UpdateServer(server.serverRules, source)
         IN /\ SoundRules(rules)
            /\ \A k \in ReservedKey : rules[k] = server.serverRules[k]
<1> DEFINE old == server.serverRules
           new == UpdateServer(old, source)
<1>1. old \in Rules
  BY DEF Server
<1>2. \A k \in ReservedKey : new[k] = old[k]
  BY DEF UpdateServer, RuleKey
<1>3. ASSUME NEW k \in Keys(new), k \notin ReservedKey, new[k].stringValue # NULL
      PROVE  new[k].intValue = -1
  <2>1. /\ source[k] # NULL
        /\ new[k] = UpdatedRule(old[k], source[k].stringValue, source[k].intValue)
    BY <1>3 DEF UpdateServer, Keys
  <2>2. source[k] \in Rule /\ old[k] \in Rule \cup {NULL}
    BY <1>1, <1>3, <2>1 DEF Rules, Keys
  <2>3. source[k].stringValue \in Text \cup {NULL} /\ source[k].intValue \in Int
    BY <2>2 DEF Rule
  <2>4. old[k] # NULL /\ old[k].stringValue # NULL => old[k].intValue = -1
    BY <1>3 DEF SoundRules, Keys
  <2>5. QED
    BY <1>3, <2>1, <2>2, <2>3, <2>4, UpdatedRuleSound
<1> HIDE DEF new
<1>4. SoundRules(new)
  BY <1>2, <1>3 DEF SoundRules, Keys, ReservedKey
<1>5. QED
  BY <1>2, <1>4 DEF new

\* A pong sets the integer of the rule Ping, whose string is null.
LEMMA HandlePongRules ==
  ASSUME TypeOK, RulesInv, HandlePong
  PROVE  RulesInv'
<1> DEFINE packet == Head(incoming)
           s      == packet.from
           server == gameServerList[s]
           old    == server.serverRules
<1>1. CASE s \notin Listed
  BY <1>1 DEF HandlePong, RulesInv, Listed
<1>2. CASE s \in Listed
  <2>1. server \in Server /\ old \in Rules /\ SoundServer(s, server)
    BY <1>2 DEF TypeOK, Server, RulesInv
  <2>2. old["Ping"] \in Rule /\ old["Ping"].stringValue = NULL /\ old["Ping"] # NULL
    BY <2>1 DEF SoundServer, SoundRules, Keys, ReservedKey, Rules
  <2> DEFINE ping == [old["Ping"] EXCEPT !.intValue = packet.pingTime]
             new  == [[server EXCEPT !.failedPingResponses = 0]
                        EXCEPT !.serverRules["Ping"].intValue = packet.pingTime]
  <2>3. gameServerList' = [gameServerList EXCEPT ![s] = new]
    BY <1>2, <2>2 DEF HandlePong
  <2>4. /\ new.serverRules = [old EXCEPT !["Ping"] = ping]
        /\ new.originationId = server.originationId
    BY <2>1, <2>2 DEF Server, Rules, RuleKey, ReservedKey
  <2>5. ping.stringValue = NULL
    BY <2>2 DEF Rule
  <2>6. ping # NULL
    <3>1. packet.pingTime \in Int
      BY HeadType DEF HandlePong, Receives, Packet
    <3>2. ping \in Rule
      BY <2>2, <3>1 DEF Rule
    <3>3. QED
      BY <3>2, NullAssumption
  <2> HIDE DEF ping, new
  <2>7. /\ \A k \in RuleKey \ {"Ping"} : new.serverRules[k] = old[k]
        /\ new.serverRules["Ping"] = ping
    BY <2>1, <2>4 DEF Rules, RuleKey, ReservedKey
  <2>8. /\ SoundRules(new.serverRules)
        /\ new.serverRules["IP"] = old["IP"]
        /\ new.serverRules["Port"] = old["Port"]
    BY <2>1, <2>5, <2>6, <2>7 DEF SoundServer, SoundRules, Keys, RuleKey, ReservedKey
  <2>9. SoundServer(s, new)
    BY <2>1, <2>4, <2>8 DEF SoundServer
  <2>10. QED
    BY <2>3, <2>9 DEF RulesInv, Listed
<1>3. QED
  BY <1>1, <1>2

LEMMA PingSweepRules ==
  ASSUME TypeOK, RulesInv, PingSweep
  PROVE  RulesInv'
<1>1. PICK lastPing \in [PingDue \ Unanswered -> PingTime] :
        gameServerList' = [s \in Listed \ Unanswered |->
                             IF s \in PingDue
                             THEN Pinged(gameServerList[s], lastPing[s])
                             ELSE gameServerList[s]]
  BY DEF PingSweep
<1>2. ASSUME NEW s \in PingDue \ Unanswered
      PROVE  SoundServer(s, Pinged(gameServerList[s], lastPing[s]))
  <2> DEFINE server == gameServerList[s]
  <2>1. server \in Server /\ SoundServer(s, server) /\ lastPing[s] \in PingTime
    BY DEF PingDue, TypeOK, RulesInv
  <2>2. /\ SoundRules(Pinged(server, lastPing[s]).serverRules)
        /\ \A k \in ReservedKey :
             Pinged(server, lastPing[s]).serverRules[k] = server.serverRules[k]
    BY <2>1, PingedSound DEF SoundServer
  <2>3. Pinged(server, lastPing[s]).originationId = server.originationId
    BY <2>1 DEF Pinged, Server
  <2>4. QED
    BY <2>1, <2>2, <2>3 DEF SoundServer, ReservedKey
<1>3. QED
  BY <1>1, <1>2 DEF RulesInv, Listed

LEMMA HandleUpdateServerRules ==
  ASSUME TypeOK, RulesInv, HandleUpdateServer
  PROVE  RulesInv'
<1> DEFINE packet == Head(incoming)
           s      == [ip |-> packet.from.ip, port |-> packet.port]
           rules  == DeserializeServer(packet.rules)
<1>1. packet \in NetworkPacket /\ packet \in Packet /\ packet.type = "SET_SERVER"
  BY HeadType DEF HandleUpdateServer, TypeOK
<1>2. /\ s \in PlayerID /\ packet.from \in PlayerID /\ packet.from.ip = s.ip
      /\ rules \in Rules
  BY <1>1, NamedServerType, SenderType, UploadType
<1>3. \A k \in Keys(rules) : rules[k].stringValue # NULL => rules[k].intValue = -1
  BY <1>1, UploadSound
<1>4. CASE Stop
  BY <1>4 DEF Stop, RulesInv, Listed, Empty
<1>5. CASE s \in Listed /\ RefreshServer(s, rules)
  <2> DEFINE server == gameServerList[s]
             new    == UpdateServer(server.serverRules, rules)
  <2>1. server \in Server /\ SoundServer(s, server)
    BY <1>5 DEF TypeOK, RulesInv
  <2>2. SoundRules(new) /\ \A k \in ReservedKey : new[k] = server.serverRules[k]
    BY <1>2, <1>3, <2>1, RefreshedSound DEF SoundServer
  <2>3. gameServerList' = [gameServerList EXCEPT ![s] = [server EXCEPT !.serverRules = new]]
    BY <1>5 DEF RefreshServer
  <2>4. SoundServer(s, [server EXCEPT !.serverRules = new])
    BY <2>1, <2>2 DEF SoundServer, Server, ReservedKey
  <2>5. QED
    BY <2>3, <2>4 DEF RulesInv, Listed
<1>6. CASE s \notin Listed /\ ListServer(s, NewServer(s, packet.from, rules))
  <2>1. SoundServer(s, NewServer(s, packet.from, rules))
    BY <1>2, <1>3, NewServerSound
  <2>2. QED
    BY <1>6, <2>1 DEF ListServer, RulesInv, Listed
<1>7. QED
  BY <1>4, <1>5, <1>6 DEF HandleUpdateServer, AddServer

LEMMA RulesInvInit == Init => RulesInv
BY DEF Init, RulesInv, Listed, Empty

LEMMA RulesInvNext ==
  ASSUME TypeOK, RulesInv, [Next]_vars
  PROVE  RulesInv'
<1>1. CASE UNCHANGED gameServerList
  BY <1>1 DEF RulesInv, Listed
<1>2. CASE Stop
  BY <1>2 DEF Stop, RulesInv, Listed, Empty
<1>3. CASE HandleDelistServer
  BY <1>3 DEF HandleDelistServer, Restrict, RulesInv, Listed
<1>4. CASE BanFlooder
  BY <1>4 DEF BanFlooder, Restrict, RulesInv, Listed
<1>5. CASE HandleUpdateServer
  BY <1>5, HandleUpdateServerRules
<1>6. CASE HandlePong
  BY <1>6, HandlePongRules
<1>7. CASE PingSweep
  BY <1>7, PingSweepRules
<1>8. QED
  <2>1. CASE \/ Start \/ PacketsDone \/ UNCHANGED vars
             \/ HandleRelayedConnectionNotification \/ HandleOtherPacket
             \/ \E packet \in NetworkPacket : NetworkDelivers(packet)
    BY <1>1, <2>1 DEF Start, PacketsDone, vars, HandleRelayedConnectionNotification,
                      HandleOtherPacket, NetworkDelivers
  <2>2. CASE \E delay \in 0 .. MaxDelay : LoopStart(delay)
    BY <1>1, <1>2, <2>2 DEF LoopStart
  <2>3. CASE DatabaseFails
    BY <1>2, <2>3 DEF DatabaseFails, ExportFails, HandlerFails, FirstExportFails,
                      SweepFails, StatementFails
  <2>4. QED
    BY <1>3, <1>4, <1>5, <1>6, <1>7, <2>1, <2>2, <2>3 DEF Next, Loop, HandlePacket

\* A rule of a listed server is a string or an integer, and its default rules
\* are never lost.
THEOREM RulesCorrect == Spec => [](StringXorInt /\ DefaultRulesAreKept)
<1>1. Init => RulesInv
  BY RulesInvInit
<1>2. TypeOK /\ RulesInv /\ [Next]_vars => RulesInv'
  BY RulesInvNext
<1>3. RulesInv => StringXorInt /\ DefaultRulesAreKept
  BY DEF RulesInv, SoundServer, SoundRules, StringXorInt, DefaultRulesAreKept
<1>4. QED
  BY <1>1, <1>2, <1>3, TypeCorrect, PTL DEF Spec

\* The default rules of a listed server are never lost: HandlePong and the sort
\* find them.
THEOREM DefaultRulesStay == Spec => []DefaultRulesAreKept
<1>1. StringXorInt /\ DefaultRulesAreKept => DefaultRulesAreKept
  OBVIOUS
<1>2. QED
  BY <1>1, RulesCorrect, PTL

-----------------------------------------------------------------------------
(* MasterServer implements ServerListing                                    *)
(*                                                                          *)
(* The table knows hosts, the list knows servers; that a row goes with its  *)
(* own server and no other needs the two keys that meet in mySQLListID:     *)
(* no two listed servers have the same one, and none is that of a row to    *)
(* come (IDsInv).  With RowsBelongToListedServers, the row of a server is   *)
(* then a row of its host, and deleteByIP takes it along.                   *)

IDsInv ==
  /\ \A s \in Listed : gameServerList[s].mySQLListID < nextID
  /\ \A s, t \in Listed :
       gameServerList[s].mySQLListID = gameServerList[t].mySQLListID => s = t
  /\ \A id \in DOMAIN games : id < nextID
  /\ ~ Running => Listed = {}

ListingInv == TypeOK /\ RowsBelongToListedServers /\ IDsInv

\* s stays in the list under the ID of its row; so do its missed pings.
Kept(s) ==
  s \in Listed' /\ gameServerList'[s].mySQLListID = gameServerList[s].mySQLListID

SamePings(s) ==
  gameServerList'[s].failedPingResponses = gameServerList[s].failedPingResponses

LEMMA ListedTypes ==
  ASSUME ListingInv
  PROVE  /\ Listed \subseteq PlayerID /\ nextID \in Nat /\ DOMAIN games \subseteq Nat
         /\ \A s \in Listed : /\ gameServerList[s] \in Server
                              /\ gameServerList[s].mySQLListID \in Nat
                              /\ gameServerList[s].failedPingResponses
                                   \in 0 .. NUMBER_OF_MISSED_PINGS_TO_DROP
<1>1. \A server \in Server :
        /\ server.mySQLListID \in Nat
        /\ server.failedPingResponses \in 0 .. NUMBER_OF_MISSED_PINGS_TO_DROP
  BY DEF Server
<1>2. QED
  BY <1>1 DEF ListingInv, TypeOK
-----------------------------------------------------------------------------
(* What may happen to the list and the table, and what it does to the rows *)

\* Neither the list nor the table gains or loses anything.
LEMMA NothingMoves ==
  ASSUME ListingInv, Listed' = Listed, \A s \in Listed : Kept(s),
         DOMAIN games' = DOMAIN games, nextID' = nextID, Running' \/ Listed = {}
  PROVE  IDsInv' /\ ServersWithARow' = ServersWithARow
<1>1. IDsInv'
  BY DEF ListingInv, IDsInv, Kept
<1>2. QED
  BY <1>1 DEF ServersWithARow, Kept

\* Rows go by host, servers one by one or by host.
LEMMA SomeLeave ==
  ASSUME ListingInv, Running, Running', NEW hosts,
         Listed' \subseteq Listed, \A s \in Listed' : Kept(s),
         \A s \in Listed : s.ip \notin hosts => s \in Listed',
         games' = GamesWithoutHosts(hosts), nextID' = nextID
  PROVE  /\ IDsInv'
         /\ ServersWithARow' = ServersWithARow \ {s \in PlayerID : s.ip \in hosts}
<1>1. DOMAIN games' = {id \in DOMAIN games : games[id].host \notin hosts}
  BY GamesWithoutHostsRows
<1>2. IDsInv'
  BY <1>1 DEF ListingInv, IDsInv, Kept
<1>3. ASSUME NEW s \in Listed, gameServerList[s].mySQLListID \in DOMAIN games
      PROVE  games[gameServerList[s].mySQLListID].host = s.ip
  <2>1. PICK t \in Listed : /\ gameServerList[t].mySQLListID = gameServerList[s].mySQLListID
                            /\ games[gameServerList[s].mySQLListID].host = t.ip
    BY <1>3 DEF ListingInv, RowsBelongToListedServers
  <2>2. t = s
    BY <2>1 DEF ListingInv, IDsInv
  <2>3. QED
    BY <2>1, <2>2
<1>4. ASSUME NEW s
      PROVE  s \in ServersWithARow' <=> s \in ServersWithARow /\ s.ip \notin hosts
  <2>1. s \in ServersWithARow' <=>
          s \in Listed' /\ gameServerList[s].mySQLListID \in DOMAIN games'
    BY DEF ServersWithARow, Kept
  <2>2. s \in ServersWithARow <=>
          s \in Listed /\ gameServerList[s].mySQLListID \in DOMAIN games
    BY DEF ServersWithARow
  <2>3. QED
    BY <1>1, <1>3, <2>1, <2>2
<1>5. ServersWithARow \subseteq PlayerID
  BY ListedTypes DEF ServersWithARow
<1>6. QED
  BY <1>2, <1>4, <1>5

\* A new server and its row have the next ID, which no other has.
LEMMA OneComes ==
  ASSUME ListingInv, Running', NEW s \in PlayerID, s \notin Listed,
         Listed' = Listed \cup {s}, \A t \in Listed : Kept(t),
         gameServerList'[s].mySQLListID = nextID,
         DOMAIN games' = DOMAIN games \cup {nextID}, nextID' = nextID + 1
  PROVE  IDsInv' /\ ServersWithARow' = ServersWithARow \cup {s}
<1>1. /\ nextID \in Nat /\ DOMAIN games \subseteq Nat
      /\ \A t \in Listed : gameServerList[t].mySQLListID \in Nat
      /\ \A t \in Listed : gameServerList[t].mySQLListID < nextID
      /\ \A id \in DOMAIN games : id < nextID
  BY ListedTypes DEF ListingInv, IDsInv
<1>2. \A t \in Listed : /\ gameServerList[t].mySQLListID < nextID'
                        /\ gameServerList[t].mySQLListID # nextID
  BY <1>1
<1>3. \A id \in DOMAIN games' : id < nextID'
  BY <1>1
<1>4. ASSUME NEW t \in Listed', NEW u \in Listed',
             gameServerList'[t].mySQLListID = gameServerList'[u].mySQLListID
      PROVE  t = u
  BY <1>2, <1>4 DEF ListingInv, IDsInv, Kept
<1>5. \A t \in Listed' : gameServerList'[t].mySQLListID < nextID'
  BY <1>1, <1>2 DEF Kept
<1>6. IDsInv'
  BY <1>3, <1>4, <1>5 DEF IDsInv
<1>7. QED
  BY <1>2, <1>6 DEF ServersWithARow, Kept

\* The process ends; the rows that it leaves are from before.
LEMMA AllGo ==
  ASSUME ListingInv, Stop, nextID' \in Nat, \A id \in DOMAIN games' : id < nextID'
  PROVE  IDsInv' /\ Listing!StartOver
<1>1. Listed' = {}
  BY DEF Stop, Listed, Empty
<1>2. ServersWithARow' = {} /\ MissedPings' = [s \in PlayerID |-> 0]
  BY <1>1 DEF ServersWithARow, MissedPings
<1>3. QED
  BY <1>1, <1>2 DEF IDsInv, Listing!StartOver, Listing!Id, PlayerID
-----------------------------------------------------------------------------
(* The actions *)

\* A step of the program keeps IDsInv and is a step of the listing, or none.
Implements == IDsInv' /\ (Listing!Next \/ UNCHANGED Listing!vars)

LEMMA Stutters ==
  ASSUME ListingInv, Listed' = Listed, \A s \in Listed : Kept(s) /\ SamePings(s),
         DOMAIN games' = DOMAIN games, nextID' = nextID, Running' \/ Listed = {}
  PROVE  Implements
<1>1. IDsInv' /\ ServersWithARow' = ServersWithARow
  BY NothingMoves
<1>2. MissedPings' = MissedPings
  BY DEF MissedPings, SamePings
<1>3. QED
  BY <1>1, <1>2 DEF Implements, Listing!vars

LEMMA LoopStartImplements ==
  ASSUME ListingInv, NEW delay \in 0 .. MaxDelay, LoopStart(delay)
  PROVE  Implements
<1> DEFINE due == sinceExport + delay >= ExportPeriod
<1>1. CASE due /\ Unexportable # {}
  <2>1. Stop /\ nextID' = nextID /\ games' \in GamesAfterExportOf(ExportedBeforeNull)
    BY <1>1 DEF LoopStart
  <2>2. DOMAIN games' = DOMAIN games
    BY <2>1, GamesAfterExportKeepsHosts
  <2>3. nextID' \in Nat /\ \A id \in DOMAIN games' : id < nextID'
    BY <2>1, <2>2, ListedTypes DEF ListingInv, IDsInv
  <2>4. QED
    BY <2>1, <2>3, AllGo DEF Implements, Listing!Next
<1>2. CASE ~ (due /\ Unexportable # {})
  <2>1. /\ games' \in IF due THEN GamesAfterExportOf(Listed) ELSE {games}
        /\ gameServerList' = gameServerList /\ nextID' = nextID /\ Running'
    BY <1>2 DEF LoopStart, Running
  <2>2. DOMAIN games' = DOMAIN games
    <3>1. CASE due
      BY <2>1, <3>1, GamesAfterExportKeepsHosts
    <3>2. CASE ~ due
      BY <2>1, <3>2
    <3>3. QED
      BY <3>1, <3>2
  <2>3. Listed' = Listed /\ \A s \in Listed : Kept(s) /\ SamePings(s)
    BY <2>1 DEF Listed, Kept, SamePings
  <2>4. QED
    BY <2>1, <2>2, <2>3, Stutters
<1>3. QED
  BY <1>1, <1>2

LEMMA DelistImplements ==
  ASSUME ListingInv, HandleDelistServer
  PROVE  Implements
<1> DEFINE s == [ip |-> Head(incoming).from.ip, port |-> Head(incoming).port]
<1>1. Running /\ Running' /\ nextID' = nextID
  BY DEF HandleDelistServer, Receives, Running
<1>2. CASE s \in Listed
  <2>1. /\ games' = GamesWithoutHosts({s.ip})
        /\ gameServerList' = Restrict(gameServerList, Listed \ {s})
    BY <1>2 DEF HandleDelistServer
  <2> HIDE DEF s
  <2>2. Listed' = Listed \ {s} /\ \A t \in Listed' : Kept(t) /\ SamePings(t)
    BY <2>1 DEF Restrict, Listed, Kept, SamePings
  <2>3. \A t \in Listed : t.ip \notin {s.ip} => t \in Listed'
    BY <2>2
  <2>4. /\ IDsInv'
        /\ ServersWithARow' = ServersWithARow \ {t \in PlayerID : t.ip \in {s.ip}}
    BY <1>1, <2>1, <2>2, <2>3, SomeLeave
  <2>5. MissedPings' = [t \in PlayerID |-> IF t \in {s} THEN 0 ELSE MissedPings[t]]
    BY <2>2 DEF MissedPings, SamePings
  <2>6. s \in PlayerID
    BY <1>2, ListedTypes
  <2>7. Listing!Delist(s)
    BY <1>2, <2>2, <2>4, <2>5 DEF Listing!Delist, Listing!Leave, Listing!OnHosts, Listing!Id,
                                  PlayerID
  <2>8. QED
    BY <2>4, <2>6, <2>7 DEF Implements, Listing!Next, Listing!Id, PlayerID
<1>3. CASE s \notin Listed
  <2>1. games' = games /\ gameServerList' = gameServerList
    BY <1>3 DEF HandleDelistServer
  <2>2. Listed' = Listed /\ \A t \in Listed : Kept(t) /\ SamePings(t)
    BY <2>1 DEF Listed, Kept, SamePings
  <2>3. QED
    BY <1>1, <2>1, <2>2, Stutters
<1>4. QED
  BY <1>2, <1>3

LEMMA BanImplements ==
  ASSUME ListingInv, BanFlooder
  PROVE  Implements
<1> DEFINE host == Head(incoming).from.ip
<1>1. /\ Running /\ Running' /\ nextID' = nextID
      /\ games' = GamesWithoutHosts({host})
      /\ gameServerList' = Restrict(gameServerList, {s \in Listed : s.ip # host})
  BY DEF BanFlooder, Running
<1>2. host \in IP
  BY HeadType, SenderType DEF BanFlooder, ListingInv
<1> HIDE DEF host
<1>3. /\ Listed' = {s \in Listed : s.ip # host}
      /\ \A t \in Listed' : Kept(t) /\ SamePings(t)
  BY <1>1 DEF Restrict, Listed, Kept, SamePings
<1>4. /\ IDsInv'
      /\ ServersWithARow' = ServersWithARow \ {t \in PlayerID : t.ip \in {host}}
  BY <1>1, <1>3, SomeLeave
<1>5. Listed' = Listed \ {t \in PlayerID : t.ip \in {host}}
  BY <1>3, ListedTypes
<1>6. MissedPings' = [t \in PlayerID |-> IF t \in {u \in PlayerID : u.ip \in {host}}
                                         THEN 0 ELSE MissedPings[t]]
  BY <1>3 DEF MissedPings, SamePings
<1>7. Listing!ExpelHost(host)
  BY <1>4, <1>5, <1>6 DEF Listing!ExpelHost, Listing!Leave, Listing!OnHosts, Listing!Id, PlayerID
<1>8. QED
  BY <1>2, <1>4, <1>7 DEF Implements, Listing!Next

LEMMA UploadImplements ==
  ASSUME ListingInv, HandleUpdateServer
  PROVE  Implements
<1> DEFINE packet == Head(incoming)
           s      == [ip |-> packet.from.ip, port |-> packet.port]
           rules  == DeserializeServer(packet.rules)
           server == NewServer(s, packet.from, rules)
<1>1. Running
  BY DEF HandleUpdateServer, Running
<1>2. s \in PlayerID
  BY HeadType, NamedServerType DEF HandleUpdateServer, ListingInv
<1>3. CASE ~ Deserializes(packet.rules)
  <2>1. Stop /\ games' = games /\ nextID' = nextID
    BY <1>3 DEF HandleUpdateServer
  <2>2. QED
    BY <2>1, ListedTypes, AllGo DEF ListingInv, IDsInv, Implements, Listing!Next
<1>4. CASE Deserializes(packet.rules) /\ s \in Listed
  <2>1. RefreshServer(s, rules)
    BY <1>4 DEF HandleUpdateServer
  <2>2. Running' /\ DOMAIN games' = DOMAIN games /\ nextID' = nextID
    BY <1>1, <2>1 DEF RefreshServer, Running
  <2>3. Listed' = Listed /\ \A t \in Listed : Kept(t) /\ SamePings(t)
    BY <2>1, ListedTypes DEF RefreshServer, Listed, Server, Kept, SamePings
  <2>4. QED
    BY <2>2, <2>3, Stutters
<1>5. CASE Deserializes(packet.rules) /\ s \notin Listed
  <2> HIDE DEF rules
  <2>1. AddServer(s, packet.from, rules)
    BY <1>5 DEF HandleUpdateServer, rules
  <2>2. nextID' = nextID + 1
    BY <2>1 DEF AddServer
  <2> HIDE DEF s, packet
  <2>3. DOMAIN WithNewRow(s.ip) = DOMAIN games \cup {nextID}
    BY DEF WithNewRow
  <2>4. CASE ExportsNull(server.serverRules)
    <3>1. Stop /\ games' = WithNewRow(s.ip)
      BY <2>1, <2>4 DEF AddServer
    <3>2. nextID' \in Nat /\ \A id \in DOMAIN games' : id < nextID'
      BY <2>2, <2>3, <3>1, ListedTypes DEF ListingInv, IDsInv
    <3>3. QED
      BY <3>1, <3>2, AllGo DEF Implements, Listing!Next
  <2>5. CASE ~ ExportsNull(server.serverRules)
    <3>1. /\ games' = ExportRulesToMySQL(WithNewRow(s.ip), server.serverRules)
          /\ ListServer(s, server)
          /\ pc' = pc
      BY <2>1, <2>5 DEF AddServer
    <3>2. server.mySQLListID = nextID /\ server.failedPingResponses = 0
      BY DEF NewServer
    <3> HIDE DEF server
    <3>3. /\ Listed' = Listed \cup {s} /\ gameServerList'[s] = server
          /\ \A t \in Listed : Kept(t) /\ SamePings(t)
      BY <1>5, <3>1 DEF ListServer, Listed, Kept, SamePings
    <3>4. DOMAIN games' = DOMAIN games \cup {nextID} /\ Running'
      BY <1>1, <2>3, <3>1, ExportKeepsHosts DEF Running
    <3>5. IDsInv' /\ ServersWithARow' = ServersWithARow \cup {s}
      BY <1>2, <1>5, <2>2, <3>2, <3>3, <3>4, OneComes
    <3>6. MissedPings' = MissedPings
      BY <1>5, <3>2, <3>3 DEF MissedPings, SamePings
    <3>7. Listing!Enlist(s)
      BY <1>5, <3>3, <3>5, <3>6 DEF Listing!Enlist
    <3>8. QED
      BY <1>2, <3>5, <3>7 DEF Implements, Listing!Next, Listing!Id, PlayerID
  <2>6. QED
    BY <2>4, <2>5
<1>6. QED
  BY <1>3, <1>4, <1>5

LEMMA PongImplements ==
  ASSUME ListingInv, HandlePong
  PROVE  Implements
<1> DEFINE s == Head(incoming).from
<1>1. Running' /\ DOMAIN games' = DOMAIN games /\ nextID' = nextID
  BY DEF HandlePong, Receives, Running
<1>2. /\ Listed' = Listed
      /\ \A t \in Listed : Kept(t) /\ (t # s => SamePings(t))
      /\ s \in Listed => gameServerList'[s].failedPingResponses = 0
  BY ListedTypes DEF HandlePong, Listed, Server, Kept, SamePings
<1>3. CASE s \in Listed
  <2> HIDE DEF s
  <2>1. IDsInv' /\ ServersWithARow' = ServersWithARow
    BY <1>1, <1>2, NothingMoves
  <2>2. s \in PlayerID
    BY <1>3, ListedTypes
  <2>3. MissedPings' = [MissedPings EXCEPT ![s] = 0]
    BY <1>2, <1>3, <2>2 DEF MissedPings, SamePings
  <2>4. Listing!Answer(s)
    BY <1>2, <1>3, <2>1, <2>3 DEF Listing!Answer
  <2>5. QED
    BY <2>1, <2>2, <2>4 DEF Implements, Listing!Next, Listing!Id, PlayerID
<1>4. CASE s \notin Listed
  BY <1>1, <1>2, <1>4, Stutters
<1>5. QED
  BY <1>3, <1>4

LEMMA SweepImplements ==
  ASSUME ListingInv, PingSweep
  PROVE  Implements
<1> DEFINE hosts   == {s.ip : s \in Unanswered}
           checked == PingDue \ Unanswered
<1>1. PICK lastPing \in [checked -> PingTime] :
        gameServerList' = [s \in Listed \ Unanswered |->
                             IF s \in PingDue
                             THEN Pinged(gameServerList[s], lastPing[s])
                             ELSE gameServerList[s]]
  BY DEF PingSweep
<1>2. games' = GamesWithoutHosts(hosts) /\ Running /\ Running' /\ nextID' = nextID
  BY DEF PingSweep, Running
<1>3. PingDue \subseteq Listed /\ Unanswered \subseteq PingDue
  BY DEF PingDue, Unanswered
<1>4. \A server \in Server : \A ping :
        /\ Pinged(server, ping).mySQLListID = server.mySQLListID
        /\ Pinged(server, ping).failedPingResponses = server.failedPingResponses + 1
  BY DEF Pinged, Server
<1>5. Listed' = Listed \ Unanswered
  BY <1>1 DEF Listed
<1>6. ASSUME NEW s \in Listed'
      PROVE  /\ Kept(s)
             /\ gameServerList'[s].failedPingResponses =
                  IF s \in checked THEN gameServerList[s].failedPingResponses + 1
                  ELSE gameServerList[s].failedPingResponses
  <2>1. s \in Listed \ Unanswered /\ gameServerList[s] \in Server
    BY <1>5, ListedTypes
  <2>2. CASE s \in PingDue
    BY <1>1, <1>4, <1>5, <2>1, <2>2 DEF Kept
  <2>3. CASE s \notin PingDue
    BY <1>1, <1>5, <2>1, <2>3 DEF Kept
  <2>4. QED
    BY <2>2, <2>3
<1>7. \A s \in Listed : s.ip \notin hosts => s \in Listed'
  BY <1>5
<1>8. /\ IDsInv'
      /\ ServersWithARow' = ServersWithARow \ {s \in PlayerID : s.ip \in hosts}
  <2> HIDE DEF hosts
  <2>1. QED
    BY <1>2, <1>5, <1>6, <1>7, SomeLeave
<1>9. \A s \in PlayerID : MissedPings[s] = IF s \in Listed
                            THEN gameServerList[s].failedPingResponses ELSE 0
  BY DEF MissedPings
<1>10. /\ checked \subseteq {s \in Listed : MissedPings[s] < NUMBER_OF_MISSED_PINGS_TO_DROP}
       /\ Unanswered \subseteq {s \in Listed : MissedPings[s] = NUMBER_OF_MISSED_PINGS_TO_DROP}
  <2>1. NUMBER_OF_MISSED_PINGS_TO_DROP \in Nat
    BY ConstantsAssumption
  <2>2. \A s \in PingDue :
          s \in Unanswered <=> gameServerList[s].failedPingResponses >= NUMBER_OF_MISSED_PINGS_TO_DROP
    BY DEF Unanswered
  <2>3. QED
    BY <1>3, <1>9, <2>1, <2>2, ListedTypes
<1> HIDE DEF checked
<1>11. MissedPings' = [s \in PlayerID |-> IF s \in Unanswered THEN 0
                                          ELSE IF s \in checked THEN MissedPings[s] + 1
                                          ELSE MissedPings[s]]
  <2>1. MissedPings' = [s \in PlayerID |-> IF s \in Listed'
                          THEN gameServerList'[s].failedPingResponses ELSE 0]
    BY DEF MissedPings
  <2>2. checked \subseteq Listed
    BY <1>3 DEF checked
  <2>3. QED
    BY <1>3, <1>5, <1>6, <1>9, <2>1, <2>2
<1>12. Listing!Check(checked, Unanswered)
  BY <1>5, <1>8, <1>10, <1>11 DEF Listing!Check, Listing!OnHosts, Listing!Id, PlayerID
<1>13. checked \in SUBSET Listed /\ Unanswered \in SUBSET Listed
  BY <1>3 DEF checked
<1>14. QED
  BY <1>8, <1>12, <1>13 DEF Implements, Listing!Next

LEMMA FailureImplements ==
  ASSUME ListingInv, DatabaseFails
  PROVE  Implements
<1>1. /\ nextID \in Nat /\ DOMAIN games \subseteq Nat
      /\ \A id \in DOMAIN games : id < nextID
  BY ListedTypes DEF ListingInv, IDsInv
<1>2. ASSUME NEW table, StatementFails(table), nextID' \in Nat,
             \A id \in DOMAIN table : id < nextID'
      PROVE  Implements
  <2>1. Stop /\ \A id \in DOMAIN games' : id < nextID'
    BY <1>2 DEF StatementFails, Empty
  <2>2. QED
    BY <1>2, <2>1, AllGo DEF Implements, Listing!Next
<1>3. CASE ExportFails
  <2>1. PICK s \in ExportedBeforeNull :
          \E table \in GamesAfterExportOf({t \in Listed :
              gameServerList[t].mySQLListID < gameServerList[s].mySQLListID}) :
            StatementFails(table)
    BY <1>3 DEF ExportFails
  <2>2. PICK table \in GamesAfterExportOf({t \in Listed :
              gameServerList[t].mySQLListID < gameServerList[s].mySQLListID}) :
            StatementFails(table)
    BY <2>1
  <2>3. DOMAIN table = DOMAIN games
    BY <2>2, GamesAfterExportKeepsHosts
  <2>4. nextID' = nextID
    BY <1>3 DEF ExportFails
  <2>5. QED
    BY <1>1, <1>2, <2>2, <2>3, <2>4
<1>4. CASE HandlerFails
  BY <1>1, <1>2, <1>4 DEF HandlerFails
<1>5. CASE FirstExportFails
  <2>1. /\ StatementFails(WithNewRow(Head(incoming).from.ip))
        /\ nextID' = nextID + 1
    BY <1>5 DEF FirstExportFails
  <2>2. DOMAIN WithNewRow(Head(incoming).from.ip) = DOMAIN games \cup {nextID}
    BY DEF WithNewRow
  <2>3. nextID' \in Nat /\ \A id \in DOMAIN games \cup {nextID} : id < nextID'
    BY <1>1, <2>1
  <2>4. QED
    BY <1>2, <2>1, <2>2, <2>3
<1>6. CASE SweepFails
  <2>1. nextID' = nextID /\ \E hosts : StatementFails(GamesWithoutHosts(hosts))
    BY <1>6 DEF SweepFails
  <2>2. PICK hosts : StatementFails(GamesWithoutHosts(hosts))
    BY <2>1
  <2>3. DOMAIN GamesWithoutHosts(hosts) \subseteq DOMAIN games
    BY GamesWithoutHostsRows
  <2>4. QED
    BY <1>1, <1>2, <2>1, <2>2, <2>3
<1>7. QED
  BY <1>3, <1>4, <1>5, <1>6 DEF DatabaseFails

\* Each step of the program is a step of the listing, or none.
LEMMA StepImplements ==
  ASSUME ListingInv, [Next]_vars
  PROVE  Implements
<1>1. CASE Start
  <2>1. Listed = {} /\ gameServerList' = gameServerList /\ nextID' = nextID /\ games' = Empty
    BY <1>1 DEF Start, ListingInv, IDsInv, Running
  <2>2. Listed' = {} /\ DOMAIN games' = {}
    BY <2>1 DEF Listed, Empty
  <2>3. IDsInv'
    BY <2>2 DEF IDsInv
  <2>4. ServersWithARow = {} /\ ServersWithARow' = {} /\ MissedPings' = MissedPings
    BY <2>1, <2>2 DEF ServersWithARow, MissedPings
  <2>5. QED
    BY <2>1, <2>2, <2>3, <2>4 DEF Implements, Listing!vars
<1>2. CASE \/ HandleRelayedConnectionNotification
           \/ HandleOtherPacket
           \/ PacketsDone
           \/ \E packet \in NetworkPacket : NetworkDelivers(packet)
  <2>1. Running' /\ gameServerList' = gameServerList /\ games' = games /\ nextID' = nextID
    BY <1>2 DEF HandleRelayedConnectionNotification, HandleOtherPacket, PacketsDone,
                NetworkDelivers, Receives, Running
  <2>2. QED
    BY <2>1, Stutters DEF Listed, Kept, SamePings
<1>3. CASE UNCHANGED vars
  <2>1. /\ Running' = Running /\ gameServerList' = gameServerList /\ games' = games
        /\ nextID' = nextID
    BY <1>3 DEF vars, Running
  <2>2. Running' \/ Listed = {}
    BY <2>1 DEF ListingInv, IDsInv
  <2>3. QED
    BY <2>1, <2>2, Stutters DEF Listed, Kept, SamePings
<1>4. QED
  BY <1>1, <1>2, <1>3, LoopStartImplements, DelistImplements, BanImplements, UploadImplements,
     PongImplements, SweepImplements, FailureImplements DEF Next, Loop, HandlePacket

\* The master server implements the abstract listing: no server leaves it but by its
\* own request, with its host, after all its pings were missed or with the process, and
\* its row never outlives it.
THEOREM TheListingIsImplemented == Spec => ImplementsListing
<1>1. Init => IDsInv /\ Listing!Init
  BY DEF Init, IDsInv, Listed, Empty, Listing!Init, Listing!Id, ServersWithARow, MissedPings,
         PlayerID
<1>2. TypeOK /\ RowsBelongToListedServers /\ IDsInv /\ [Next]_vars =>
        IDsInv' /\ [Listing!Next]_Listing!vars
  BY StepImplements DEF ListingInv, Implements
<1>3. QED
  BY <1>1, <1>2, TypeCorrect, RowsBelong, PTL DEF Spec, ImplementsListing, Listing!Spec

-----------------------------------------------------------------------------
(* Timing.                                                                  *)
(*                                                                         *)
(* A sweep looks at nextPingTime and counts; the stopwatches are where the  *)
(* time has gone.  What ties them together is that nextPingTime lies no     *)
(* further ahead of `time` than sincePing has to go to a whole period, and  *)
(* that all pings but the last of those that were missed since the server  *)
(* was heard of are whole periods apart.                                   *)

\* RakNet::GetTime() stays ahead of every nextPingTime that is computed from it.
ClockDoesNotWrap == Horizon + KEEP_ALIVE_PING_FREQUENCY < TimeRange

-----------------------------------------------------------------------------
(* Timing: the inductive invariant *)

StopwatchesInv ==
  /\ sinceHeard \in [PlayerID -> 0 .. Patience]
  /\ sincePing \in [PlayerID -> 0 .. KEEP_ALIVE_PING_FREQUENCY]
  /\ time <= Horizon

\* A server whose nextPingTime has come was pinged a whole period ago.
PeriodInv ==
  \A s \in Listed :
    \/ sincePing[s] >= KEEP_ALIVE_PING_FREQUENCY
    \/ sincePing[s] + gameServerList[s].nextPingTime >= KEEP_ALIVE_PING_FREQUENCY + time

\* The pings that s has missed fit into its silence.
SilenceInv ==
  \A s \in Listed : LET missed == gameServerList[s].failedPingResponses IN
    missed # 0 =>
      sinceHeard[s] >= (missed - 1) * KEEP_ALIVE_PING_FREQUENCY + sincePing[s]

TimingInv == StopwatchesInv /\ PeriodInv /\ SilenceInv
-----------------------------------------------------------------------------
(* Timing: arithmetic *)

Period == KEEP_ALIVE_PING_FREQUENCY
MaxMissed == NUMBER_OF_MISSED_PINGS_TO_DROP

LEMMA Periods ==
  ASSUME NEW n \in Nat, NEW k \in Nat
  PROVE  n * k \in Nat /\ (n + 1) * k = n * k + k
OBVIOUS

LEMMA MorePeriods ==
  ASSUME NEW n \in Nat, NEW m \in Nat, NEW k \in Nat, n <= m
  PROVE  n * k <= m * k
<1>1. PICK d \in Nat : m = n + d
  <2>1. m - n \in Nat /\ m = n + (m - n)
    OBVIOUS
  <2>2. QED
    BY <2>1
<1>2. m * k = n * k + d * k /\ d * k \in Nat /\ n * k \in Nat
  BY <1>1
<1>3. QED
  BY <1>2

LEMMA TimingConstants ==
  /\ Period \in Nat /\ MaxMissed \in Nat \ {0} /\ Patience \in Nat /\ Patience = MaxMissed * Period
  /\ Patience = (MaxMissed - 1) * Period + Period /\ (MaxMissed - 1) * Period \in Nat
<1>1. Period \in Nat /\ MaxMissed \in Nat \ {0}
  BY ConstantsAssumption DEF Period, MaxMissed
<1>2. MaxMissed - 1 \in Nat /\ (MaxMissed - 1) + 1 = MaxMissed
  BY <1>1
<1>3. Patience = MaxMissed * Period
  BY DEF Patience, MaxMissed, Period
<1>4. (MaxMissed - 1) * Period \in Nat /\ ((MaxMissed - 1) + 1) * Period = (MaxMissed - 1) * Period + Period
  BY <1>1, <1>2, Periods
<1> HIDE DEF Period, MaxMissed
<1>5. QED
  BY <1>1, <1>2, <1>3, <1>4

\* The stopwatches of one server and the two fields that they stand for.
LEMMA TimingTypes ==
  ASSUME TypeOK, TimingInv, NEW s \in Listed
  PROVE  /\ s \in PlayerID /\ gameServerList[s] \in Server
         /\ sinceHeard[s] \in 0 .. Patience /\ sincePing[s] \in 0 .. Period
         /\ gameServerList[s].nextPingTime \in Nat
         /\ gameServerList[s].failedPingResponses \in 0 .. MaxMissed
         /\ time \in Nat
<1>1. s \in PlayerID /\ gameServerList[s] \in Server /\ time \in Nat
  BY ConstantsAssumption DEF TypeOK
<1>2. /\ gameServerList[s].nextPingTime \in 0 .. TimeRange - 1
      /\ gameServerList[s].failedPingResponses \in 0 .. MaxMissed
  BY <1>1 DEF Server, MaxMissed
<1>3. QED
  BY <1>1, <1>2, ConstantsAssumption DEF TimingInv, StopwatchesInv, Period
-----------------------------------------------------------------------------
(* Timing: a turn of the loop, where the clock advances, and both stopwatches with it *)

LEMMA TurnKeepsInv ==
  ASSUME ClockDoesNotWrap, TypeOK, TimingInv, NEW delay \in 0 .. MaxDelay,
         LoopStart(delay), Ticks(delay)
  PROVE  TimingInv'
<1>1. delay \in Nat /\ time \in Nat /\ Horizon \in Nat /\ TimeRange \in Nat /\ Period \in Nat
  BY ConstantsAssumption DEF TypeOK, Period
<1>2. /\ sinceHeard' = [s \in PlayerID |-> AtMost(sinceHeard[s] + delay, Patience)]
      /\ sincePing'  = [s \in PlayerID |-> AtMost(sincePing[s] + delay, Period)]
      /\ \A s \in PlayerID : sinceHeard[s] \in 0 .. Patience /\ sincePing[s] \in 0 .. Period
      /\ Patience \in Nat /\ Period \in Nat
  BY TimingConstants DEF Ticks, TimingInv, StopwatchesInv, Period
<1>3. /\ sinceHeard' \in [PlayerID -> 0 .. Patience]
      /\ sincePing' \in [PlayerID -> 0 .. Period]
  <2>1. \A n \in Nat, m \in Nat : AtMost(n, m) \in 0 .. m
    BY DEF AtMost
  <2>2. \A s \in PlayerID : sinceHeard[s] + delay \in Nat /\ sincePing[s] + delay \in Nat
    BY <1>1, <1>2
  <2>3. QED
    BY <1>2, <2>1, <2>2
<1>4. CASE Stop
  <2>1. Listed' = {} /\ time' = 0
    BY <1>4 DEF Stop, Listed, Empty
  <2>2. QED
    BY <1>1, <1>3, <2>1 DEF TimingInv, StopwatchesInv, PeriodInv, SilenceInv, Period
<1>5. CASE ~ Stop
  <2>1. /\ time + delay <= Horizon /\ time' = (time + delay) % TimeRange
        /\ gameServerList' = gameServerList
    BY <1>5 DEF LoopStart
  <2>2. time' = time + delay
    BY <1>1, <2>1 DEF ClockDoesNotWrap, Period
  <2>3. ASSUME NEW s \in Listed
        PROVE  /\ \/ sincePing'[s] >= Period
                  \/ sincePing'[s] + gameServerList'[s].nextPingTime >= Period + time'
               /\ gameServerList'[s].failedPingResponses # 0 =>
                    sinceHeard'[s] >=
                      (gameServerList'[s].failedPingResponses - 1) * Period + sincePing'[s]
    <3> DEFINE next   == gameServerList[s].nextPingTime
               missed == gameServerList[s].failedPingResponses
               heard  == sinceHeard[s]
               ping   == sincePing[s]
               length == (missed - 1) * Period
    <3>1. /\ s \in PlayerID /\ next \in Nat /\ missed \in 0 .. MaxMissed /\ MaxMissed \in Nat \ {0}
          /\ heard \in 0 .. Patience /\ ping \in 0 .. Period
          /\ \/ ping >= Period
             \/ ping + next >= Period + time
          /\ missed # 0 => heard >= length + ping
      BY TimingTypes, TimingConstants DEF TimingInv, PeriodInv, SilenceInv, Period
    <3>2. missed # 0 => length \in Nat /\ length + Period <= Patience
      <4>1. SUFFICES ASSUME missed # 0
                     PROVE  length \in Nat /\ length + Period <= Patience
        OBVIOUS
      <4>2. missed - 1 \in Nat /\ MaxMissed - 1 \in Nat /\ missed - 1 <= MaxMissed - 1
        BY <3>1, <4>1
      <4>3. length \in Nat /\ length <= (MaxMissed - 1) * Period
        BY <1>1, <4>2, Periods, MorePeriods
      <4> HIDE DEF length
      <4>4. QED
        BY <1>1, <4>3, TimingConstants
    <3>3. sinceHeard'[s] = AtMost(heard + delay, Patience) /\ sincePing'[s] = AtMost(ping + delay, Period)
      BY <1>2, <3>1
    <3>4. gameServerList'[s].nextPingTime = next /\ gameServerList'[s].failedPingResponses = missed
      BY <2>1
    <3> HIDE DEF next, missed, heard, ping, length
    <3>5. \/ sincePing'[s] >= Period
          \/ sincePing'[s] + next >= Period + time'
      BY <1>1, <2>2, <3>1, <3>3 DEF AtMost
    <3>6. missed # 0 => sinceHeard'[s] >= length + sincePing'[s]
      BY <1>1, <1>2, <3>1, <3>2, <3>3 DEF AtMost
    <3>7. QED
      BY <3>4, <3>5, <3>6 DEF length
  <2>4. time' <= Horizon /\ Listed' = Listed
    BY <2>1, <2>2 DEF Listed
  <2>5. QED
    BY <1>3, <2>3, <2>4 DEF TimingInv, StopwatchesInv, PeriodInv, SilenceInv, Period
<1>6. QED
  BY <1>4, <1>5
-----------------------------------------------------------------------------
(* Timing: packets *)

\* What a packet does to a server's pings: a pong forgives those that were
\* missed, no packet moves the next one.
LEMMA PacketKeepsPings ==
  ASSUME TypeOK, HandlePacket, NEW s \in Listed', s \in Listed
  PROVE  /\ gameServerList'[s].nextPingTime = gameServerList[s].nextPingTime
         /\ \/ gameServerList'[s].failedPingResponses = 0
            \/ /\ gameServerList'[s].failedPingResponses = gameServerList[s].failedPingResponses
               /\ s \notin PongedServers
<1> DEFINE packet == Head(incoming)
           named  == [ip |-> packet.from.ip, port |-> packet.port]
<1>1. gameServerList[s] \in Server
  BY DEF TypeOK
<1>2. ~ Stop
  BY DEF Stop, Listed, Empty
<1>3. CASE HandleDelistServer
  <2>1. gameServerList'[s] = gameServerList[s]
    <3> HIDE DEF named
    <3>1. QED
      BY <1>3 DEF HandleDelistServer, Restrict, Listed
  <2>2. PongedServers = {}
    BY <1>3 DEF HandleDelistServer, Receives, PongedServers
  <2>3. QED
    BY <2>1, <2>2
<1>4. CASE HandleUpdateServer
  <2>1. PongedServers = {}
    BY <1>4 DEF HandleUpdateServer, PongedServers
  <2>2. \/ RefreshServer(named, DeserializeServer(packet.rules))
        \/ /\ named \notin Listed
           /\ ListServer(named, NewServer(named, packet.from, DeserializeServer(packet.rules)))
    BY <1>2, <1>4 DEF HandleUpdateServer, AddServer
  <2> HIDE DEF named
  <2>3. /\ gameServerList'[s].nextPingTime = gameServerList[s].nextPingTime
        /\ gameServerList'[s].failedPingResponses = gameServerList[s].failedPingResponses
    BY <1>1, <2>2 DEF RefreshServer, ListServer, Listed, Server
  <2>4. QED
    BY <2>1, <2>3
<1>5. CASE HandlePong
  <2>1. PongedServers = {packet.from}
    BY <1>5 DEF HandlePong, Receives, PongedServers
  <2>2. CASE s = packet.from
    <3> DEFINE ponged == [gameServerList[s] EXCEPT !.failedPingResponses = 0]
    <3>1. /\ ponged.nextPingTime = gameServerList[s].nextPingTime
          /\ ponged.failedPingResponses = 0 /\ ponged \in Server
      BY <1>1, ConstantsAssumption DEF Server
    <3>2. \/ gameServerList' = [gameServerList EXCEPT ![s] = ponged]
          \/ gameServerList' = [gameServerList EXCEPT ![s] =
               [ponged EXCEPT !.serverRules["Ping"].intValue = packet.pingTime]]
      BY <1>5, <2>2 DEF HandlePong
    <3> HIDE DEF ponged
    <3>3. QED
      BY <3>1, <3>2 DEF Listed, Server
  <2>3. CASE s # packet.from
    <3>1. gameServerList'[s] = gameServerList[s]
      BY <1>5, <2>3 DEF HandlePong
    <3>2. QED
      BY <2>1, <2>3, <3>1
  <2>4. QED
    BY <2>2, <2>3
<1>6. CASE HandleRelayedConnectionNotification \/ HandleOtherPacket
  BY <1>6 DEF HandleRelayedConnectionNotification, HandleOtherPacket, Receives, PongedServers
<1>7. CASE BanFlooder
  <2>1. gameServerList'[s] = gameServerList[s]
    BY <1>7 DEF BanFlooder, Restrict, Listed
  <2>2. PongedServers = {}
    BY <1>7 DEF BanFlooder, PongedServers
  <2>3. QED
    BY <2>1, <2>2
<1>8. QED
  BY <1>3, <1>4, <1>5, <1>6, <1>7 DEF HandlePacket

\* A server that a packet puts on the list has missed no ping.
LEMMA PacketListsFresh ==
  ASSUME TypeOK, HandlePacket, NEW s \in Listed', s \notin Listed
  PROVE  gameServerList'[s].failedPingResponses = 0
<1> DEFINE packet == Head(incoming)
           named  == [ip |-> packet.from.ip, port |-> packet.port]
           rules  == DeserializeServer(packet.rules)
<1>1. ~ Stop
  BY DEF Stop, Listed, Empty
<1>2. CASE HandleUpdateServer
  <2>1. \/ named \in Listed /\ RefreshServer(named, rules)
        \/ ListServer(named, NewServer(named, packet.from, rules))
    BY <1>1, <1>2 DEF HandleUpdateServer, AddServer
  <2>2. NewServer(named, packet.from, rules).failedPingResponses = 0
    BY DEF NewServer
  <2> HIDE DEF named, rules
  <2>3. QED
    BY <2>1, <2>2 DEF RefreshServer, ListServer, Listed
<1>3. CASE HandleDelistServer \/ BanFlooder
  BY <1>3 DEF HandleDelistServer, BanFlooder, Restrict, Listed
<1>4. CASE HandlePong \/ HandleRelayedConnectionNotification \/ HandleOtherPacket
  BY <1>4 DEF HandlePong, HandleRelayedConnectionNotification, HandleOtherPacket, Listed
<1>5. QED
  BY <1>2, <1>3, <1>4 DEF HandlePacket

LEMMA PacketKeepsClock ==
  ASSUME HandlePacket
  PROVE  time' = time \/ time' = 0
BY DEF HandlePacket, HandleDelistServer, HandleUpdateServer, RefreshServer, AddServer, Stop,
       HandlePong, HandleRelayedConnectionNotification, HandleOtherPacket, BanFlooder

LEMMA PacketKeepsInv ==
  ASSUME TypeOK, TimingInv, HandlePacket, HearsFrom((Listed' \ Listed) \cup PongedServers)
  PROVE  TimingInv'
<1> DEFINE heard == (Listed' \ Listed) \cup PongedServers
<1>1. Period \in Nat /\ Patience \in Nat /\ time \in Nat /\ Horizon \in Nat
  BY TimingConstants, ConstantsAssumption DEF TypeOK
<1>2. /\ sinceHeard' = [s \in PlayerID |-> IF s \in heard THEN 0 ELSE sinceHeard[s]]
      /\ sincePing'  = [s \in PlayerID |-> IF s \in Listed' \ Listed THEN Period ELSE sincePing[s]]
  BY DEF HearsFrom, Period
<1>3. StopwatchesInv'
  <2>1. time' <= Horizon
    BY <1>1, PacketKeepsClock DEF TimingInv, StopwatchesInv
  <2>2. sinceHeard' \in [PlayerID -> 0 .. Patience]
    <3> HIDE DEF heard
    <3>1. QED
      BY <1>1, <1>2 DEF TimingInv, StopwatchesInv
  <2>3. sincePing' \in [PlayerID -> 0 .. Period]
    BY <1>1, <1>2 DEF TimingInv, StopwatchesInv, Period
  <2>4. QED
    BY <2>1, <2>2, <2>3 DEF StopwatchesInv, Period
<1>4. Listed' \subseteq PlayerID
  <2>1. [Next]_vars
    BY DEF Next, Loop
  <2>2. QED
    BY <2>1, TypeOKNext DEF TypeOK
<1>5. ASSUME NEW s \in Listed'
      PROVE  /\ \/ sincePing'[s] >= Period
                \/ sincePing'[s] + gameServerList'[s].nextPingTime >= Period + time'
             /\ gameServerList'[s].failedPingResponses # 0 =>
                  sinceHeard'[s] >=
                    (gameServerList'[s].failedPingResponses - 1) * Period + sincePing'[s]
  <2>1. CASE s \notin Listed
    BY <1>1, <1>2, <1>4, <1>5, <2>1, PacketListsFresh
  <2>2. CASE s \in Listed
    <3>1. /\ gameServerList'[s].nextPingTime = gameServerList[s].nextPingTime
          /\ \/ gameServerList'[s].failedPingResponses = 0
             \/ /\ gameServerList'[s].failedPingResponses = gameServerList[s].failedPingResponses
                /\ s \notin PongedServers
      BY <1>5, <2>2, PacketKeepsPings
    <3>2. /\ sincePing'[s] = sincePing[s]
          /\ s \notin PongedServers => sinceHeard'[s] = sinceHeard[s]
      BY <1>2, <1>4, <1>5, <2>2
    <3>3. \/ sincePing[s] >= Period
          \/ sincePing[s] + gameServerList[s].nextPingTime >= Period + time
      BY <2>2 DEF TimingInv, PeriodInv, Period
    <3>4. gameServerList[s].failedPingResponses # 0 =>
            sinceHeard[s] >=
              (gameServerList[s].failedPingResponses - 1) * Period + sincePing[s]
      BY <2>2 DEF TimingInv, SilenceInv, Period
    <3>5. \/ sincePing[s] >= Period
          \/ sincePing[s] + gameServerList[s].nextPingTime >= Period + time'
      BY <1>1, <2>2, <3>3, PacketKeepsClock, TimingTypes
    <3>6. QED
      BY <3>1, <3>2, <3>4, <3>5
  <2>3. QED
    BY <2>1, <2>2
<1>6. QED
  BY <1>3, <1>5 DEF TimingInv, PeriodInv, SilenceInv, Period
-----------------------------------------------------------------------------
(* Timing: the sweep *)

\* What is due was pinged a whole period ago.
LEMMA DueAfterPeriod ==
  ASSUME TypeOK, TimingInv, NEW s \in PingDue
  PROVE  s \in Listed /\ sincePing[s] = Period
<1>1. s \in Listed /\ time >= gameServerList[s].nextPingTime
  BY DEF PingDue
<1>2. \/ sincePing[s] >= Period
      \/ sincePing[s] + gameServerList[s].nextPingTime >= Period + time
  BY <1>1 DEF TimingInv, PeriodInv, Period
<1>3. Period \in Nat
  BY TimingConstants
<1>4. QED
  BY <1>1, <1>2, <1>3, TimingTypes

\* A ping moves nextPingTime a period ahead and counts as missed.
LEMMA SweepPings ==
  ASSUME ClockDoesNotWrap, TypeOK, TimingInv, PingSweep
  PROVE  /\ Listed' = Listed \ Unanswered /\ time' = time
         /\ \A s \in Listed' :
              IF s \in PingDue
              THEN /\ gameServerList'[s].nextPingTime = time + Period
                   /\ gameServerList'[s].failedPingResponses
                        = gameServerList[s].failedPingResponses + 1
              ELSE gameServerList'[s] = gameServerList[s]
<1>1. PICK lastPing \in [PingDue \ Unanswered -> PingTime] :
        gameServerList' = [s \in Listed \ Unanswered |->
                             IF s \in PingDue
                             THEN Pinged(gameServerList[s], lastPing[s])
                             ELSE gameServerList[s]]
  BY DEF PingSweep
<1>2. (time + Period) % TimeRange = time + Period
  <2>1. /\ time \in Nat /\ Period \in Nat /\ Horizon \in Nat /\ TimeRange \in Nat \ {0}
        /\ time <= Horizon /\ Horizon + Period < TimeRange
    BY ConstantsAssumption, TimingConstants
       DEF TypeOK, TimingInv, StopwatchesInv, ClockDoesNotWrap, Period
  <2>2. QED
    BY <2>1
<1>3. ASSUME NEW s \in Listed, NEW ping
      PROVE  /\ Pinged(gameServerList[s], ping).nextPingTime = time + Period
             /\ Pinged(gameServerList[s], ping).failedPingResponses
                  = gameServerList[s].failedPingResponses + 1
  BY <1>2 DEF TypeOK, Pinged, Server, Period
<1>4. QED
  BY <1>1, <1>3 DEF PingSweep, Listed

LEMMA SweepKeepsInv ==
  ASSUME ClockDoesNotWrap, TypeOK, TimingInv, PingSweep, UNCHANGED sinceHeard,
         sincePing' = [s \in PlayerID |-> IF s \in PingDue \ Unanswered THEN 0 ELSE sincePing[s]]
  PROVE  TimingInv'
<1>1. Period \in Nat /\ Patience \in Nat
  BY TimingConstants
<1>2. StopwatchesInv'
  BY <1>1, SweepPings DEF TimingInv, StopwatchesInv, Period
<1>3. ASSUME NEW s \in Listed'
      PROVE  /\ \/ sincePing'[s] >= Period
                \/ sincePing'[s] + gameServerList'[s].nextPingTime >= Period + time'
             /\ gameServerList'[s].failedPingResponses # 0 =>
                  sinceHeard'[s] >=
                    (gameServerList'[s].failedPingResponses - 1) * Period + sincePing'[s]
  <2> DEFINE missed == gameServerList[s].failedPingResponses
             length == (missed - 1) * Period
  <2>1. s \in Listed /\ s \notin Unanswered /\ s \in PlayerID /\ time \in Nat
    BY SweepPings, TimingTypes
  <2>2. /\ missed \in Nat /\ sinceHeard[s] \in Nat /\ sincePing[s] \in Nat
        /\ missed # 0 => sinceHeard[s] >= length + sincePing[s]
        /\ \/ sincePing[s] >= Period
           \/ sincePing[s] + gameServerList[s].nextPingTime >= Period + time
    BY <1>1, <2>1, TimingTypes, TimingConstants DEF TimingInv, SilenceInv, PeriodInv, Period
  <2>3. CASE s \in PingDue
    <3>1. /\ sincePing'[s] = 0 /\ sinceHeard'[s] = sinceHeard[s] /\ time' = time
          /\ gameServerList'[s].nextPingTime = time + Period
          /\ gameServerList'[s].failedPingResponses = missed + 1
      BY <1>3, <2>1, <2>3, SweepPings
    <3>2. sincePing[s] = Period
      BY <2>3, DueAfterPeriod
    <3>3. sinceHeard[s] >= missed * Period
      <4>1. CASE missed = 0
        BY <1>1, <2>2, <4>1
      <4>2. CASE missed # 0
        <5>1. missed - 1 \in Nat /\ (missed - 1) + 1 = missed
          BY <2>2, <4>2
        <5>2. length \in Nat /\ missed * Period = length + Period
          BY <1>1, <5>1, Periods
        <5> HIDE DEF length
        <5>3. QED
          BY <1>1, <2>2, <3>2, <4>2, <5>2
      <4>3. QED
        BY <4>1, <4>2
    <3>4. (missed + 1) - 1 = missed /\ missed * Period \in Nat
      BY <1>1, <2>2, Periods
    <3> HIDE DEF missed
    <3>5. sincePing'[s] + gameServerList'[s].nextPingTime >= Period + time'
      BY <1>1, <2>1, <3>1
    <3>6. (gameServerList'[s].failedPingResponses - 1) * Period = missed * Period
      BY <3>1, <3>4
    <3>7. sinceHeard'[s] >= missed * Period + 0
      BY <3>1, <3>3, <3>4
    <3>8. QED
      BY <3>1, <3>5, <3>6, <3>7
  <2>4. CASE s \notin PingDue
    <3>1. /\ sincePing'[s] = sincePing[s] /\ sinceHeard'[s] = sinceHeard[s] /\ time' = time
          /\ gameServerList'[s] = gameServerList[s]
      BY <1>3, <2>1, <2>4, SweepPings
    <3>2. QED
      BY <2>2, <3>1
  <2>5. QED
    BY <2>3, <2>4
<1>4. QED
  BY <1>2, <1>3 DEF TimingInv, PeriodInv, SilenceInv, Period
-----------------------------------------------------------------------------
(* Timing: all steps *)

\* The steps that move neither stopwatch.
LEMMA OtherStepKeepsInv ==
  ASSUME TypeOK, TimingInv, UNCHANGED timingVars,
         \/ Start \/ PacketsDone \/ DatabaseFails
         \/ \E packet \in NetworkPacket : NetworkDelivers(packet)
         \/ UNCHANGED vars
  PROVE  TimingInv'
<1>1. \/ Listed' = {} /\ time' = 0
      \/ UNCHANGED <<gameServerList, time>>
  BY DEF Start, PacketsDone, DatabaseFails, ExportFails, HandlerFails, FirstExportFails,
         SweepFails, StatementFails, Stop, NetworkDelivers, vars, Listed, Empty
<1>2. Horizon \in Nat
  BY ConstantsAssumption
<1>3. QED
  BY <1>1, <1>2
     DEF TimingInv, StopwatchesInv, PeriodInv, SilenceInv, timingVars, Listed

LEMMA TimingStepIsServerStep ==
  ASSUME [TimingNext]_timedVars
  PROVE  [Next]_vars
BY DEF TimingNext, Next, Loop, timedVars

LEMMA TimingInvNext ==
  ASSUME ClockDoesNotWrap, TypeOK, TimingInv, [TimingNext]_timedVars
  PROVE  TimingInv'
<1>1. ASSUME NEW delay \in 0 .. MaxDelay, LoopStart(delay), Ticks(delay)
      PROVE  TimingInv'
  BY <1>1, TurnKeepsInv
<1>2. CASE HandlePacket /\ HearsFrom((Listed' \ Listed) \cup PongedServers)
  BY <1>2, PacketKeepsInv
<1>3. CASE /\ PingSweep
           /\ sincePing' = [s \in PlayerID |-> IF s \in PingDue \ Unanswered THEN 0 ELSE sincePing[s]]
           /\ UNCHANGED sinceHeard
  BY <1>3, SweepKeepsInv
<1>4. CASE /\ \/ Start \/ PacketsDone \/ DatabaseFails
              \/ \E packet \in NetworkPacket : NetworkDelivers(packet)
           /\ UNCHANGED timingVars
  BY <1>4, OtherStepKeepsInv
<1>5. CASE UNCHANGED timedVars
  BY <1>5, OtherStepKeepsInv DEF timedVars
<1>6. QED
  BY <1>1, <1>2, <1>3, <1>4, <1>5 DEF TimingNext

LEMMA TimingInvariant ==
  ASSUME ClockDoesNotWrap
  PROVE  TimingSpec => [](TypeOK /\ TimingInv)
<1>1. TimingInit => TypeOK /\ TimingInv
  <2> SUFFICES ASSUME TimingInit
               PROVE  TypeOK /\ TimingInv
    OBVIOUS
  <2>1. TypeOK
    BY TypeOKInit DEF TimingInit
  <2>2. Listed = {} /\ time = 0
    BY DEF TimingInit, Init, Listed, Empty
  <2>3. Horizon \in Nat /\ Patience \in Nat /\ Period \in Nat
    BY ConstantsAssumption, TimingConstants
  <2>4. QED
    BY <2>1, <2>2, <2>3
       DEF TimingInit, TimingInv, StopwatchesInv, PeriodInv, SilenceInv, Period
<1>2. TypeOK /\ TimingInv /\ [TimingNext]_timedVars => (TypeOK /\ TimingInv)'
  BY TypeOKNext, TimingStepIsServerStep, TimingInvNext
<1>3. QED
  BY <1>1, <1>2, PTL DEF TimingSpec
-----------------------------------------------------------------------------
(* Timing: the theorems *)

\* No step but a sweep counts a ping as missed.
LEMMA OnlySweepsCount ==
  ASSUME TypeOK, [Next]_vars, ~ PingSweep, NEW s \in Listed \cap Listed'
  PROVE  gameServerList'[s].failedPingResponses <= gameServerList[s].failedPingResponses
<1>1. gameServerList[s].failedPingResponses \in Nat
  <2>1. gameServerList[s] \in Server
    BY DEF TypeOK
  <2>2. QED
    BY <2>1 DEF Server
<1>2. ~ Stop
  BY DEF Stop, Listed, Empty
<1>3. CASE HandlePacket
  BY <1>1, <1>3, PacketKeepsPings
<1>4. CASE UNCHANGED gameServerList
  BY <1>1, <1>4
<1>5. CASE \/ Start \/ PacketsDone \/ UNCHANGED vars
           \/ \E delay \in 0 .. MaxDelay : LoopStart(delay)
           \/ \E packet \in NetworkPacket : NetworkDelivers(packet)
  BY <1>2, <1>4, <1>5 DEF Start, PacketsDone, vars, LoopStart, NetworkDelivers
<1>6. CASE DatabaseFails
  BY <1>2, <1>6 DEF DatabaseFails, ExportFails, HandlerFails, FirstExportFails, SweepFails,
                    StatementFails
<1>7. QED
  BY <1>3, <1>5, <1>6 DEF Next, Loop

\* Two pings of a server are a whole period apart, however late the loop runs.
THEOREM PingsArePeriodsApart ==
  ASSUME ClockDoesNotWrap
  PROVE  TimingSpec => PingedOncePerPeriod
<1> DEFINE Step == \A s \in Listed \cap Listed' :
          gameServerList'[s].failedPingResponses > gameServerList[s].failedPingResponses
            => sincePing[s] >= KEEP_ALIVE_PING_FREQUENCY
<1>1. TypeOK /\ TimingInv /\ TypeOK' /\ TimingInv' /\ [TimingNext]_timedVars => [Step]_timedVars
  <2> SUFFICES ASSUME TypeOK, TimingInv, TypeOK', TimingInv', [TimingNext]_timedVars,
                      NEW s \in Listed \cap Listed',
                      gameServerList'[s].failedPingResponses
                        > gameServerList[s].failedPingResponses
               PROVE  sincePing[s] >= KEEP_ALIVE_PING_FREQUENCY
    OBVIOUS
  <2>1. /\ gameServerList[s].failedPingResponses \in Nat
        /\ gameServerList'[s].failedPingResponses \in Nat
    <3>1. gameServerList[s] \in Server /\ gameServerList'[s] \in Server
      BY DEF TypeOK
    <3>2. QED
      BY <3>1 DEF Server
  <2>2. PingSweep
    BY <2>1, OnlySweepsCount, TimingStepIsServerStep
  <2>3. s \in PingDue
    BY <2>1, <2>2, SweepPings
  <2>4. QED
    BY <2>3, TimingConstants, DueAfterPeriod DEF Period
<1>2. [][Step]_timedVars => PingedOncePerPeriod
  BY DEF PingedOncePerPeriod
<1> HIDE DEF Step
<1>3. QED
  BY <1>1, <1>2, TimingInvariant, PTL DEF TimingSpec

\* A sweep drops a server that has been silent for as long as it takes to miss
\* NUMBER_OF_MISSED_PINGS_TO_DROP pings, and none before.
THEOREM NobodyIsDroppedEarly ==
  ASSUME ClockDoesNotWrap
  PROVE  TimingSpec => DroppedOnlyAfterPatience
<1> DEFINE Step == pc = "sweep" /\ pc' = "loop" =>
                     \A s \in Listed \ Listed' : sinceHeard[s] >= Patience
<1>1. TypeOK /\ TimingInv /\ [TimingNext]_timedVars => [Step]_timedVars
  <2> SUFFICES ASSUME TypeOK, TimingInv, [TimingNext]_timedVars, pc = "sweep", pc' = "loop",
                      NEW s \in Listed \ Listed'
               PROVE  sinceHeard[s] >= Patience
    OBVIOUS
  <2>1. [Next]_vars
    BY TimingStepIsServerStep
  <2>2. PingSweep
    BY <2>1 DEF Next, Loop, Start, LoopStart, HandlePacket, HandleDelistServer,
       HandleUpdateServer, HandlePong, HandleRelayedConnectionNotification, HandleOtherPacket,
       BanFlooder, Receives, PacketsDone, DatabaseFails, ExportFails, HandlerFails,
       FirstExportFails, SweepFails, StatementFails, Stop, NetworkDelivers, vars
  <2>3. s \in Unanswered /\ s \in PingDue
    BY <2>2, SweepPings DEF Unanswered
  <2> DEFINE missed == gameServerList[s].failedPingResponses
  <2>4. missed = MaxMissed
    <3>1. missed \in 0 .. MaxMissed /\ missed >= MaxMissed
      BY <2>3, TimingTypes DEF Unanswered, MaxMissed
    <3>2. MaxMissed \in Nat
      BY TimingConstants
    <3> HIDE DEF missed
    <3>3. QED
      BY <3>1, <3>2
  <2>5. sincePing[s] = Period
    BY <2>3, DueAfterPeriod
  <2>6. sinceHeard[s] >= (MaxMissed - 1) * Period + sincePing[s]
    BY <2>4, TimingConstants DEF TimingInv, SilenceInv, Period
  <2>7. QED
    BY <2>5, <2>6, TimingConstants
<1>2. [][Step]_timedVars => DroppedOnlyAfterPatience
  BY DEF DroppedOnlyAfterPatience
<1> HIDE DEF Step
<1>3. QED
  BY <1>1, <1>2, TimingInvariant, PTL DEF TimingSpec

-----------------------------------------------------------------------------
(***************************************************************************)
(* The server with its clients, for every set of hosts, ports and names.   *)
(*                                                                         *)
(* UploadsArrive says that an upload is somewhere; that it is not enough to*)
(* go on with, since a delisting may be somewhere behind it.  Inductive is *)
(* what becomes of the last thing that a client has said (Believed): what  *)
(* is under way from a host is one sequence, first what the server's       *)
(* RakPeer holds, then the channel, and of a client that thinks it is      *)
(* listed the last packet of that sequence is an upload; when nothing is   *)
(* left of it, the list says so.                                           *)
(***************************************************************************)

-----------------------------------------------------------------------------
(* Registry: the inductive invariant *)

\* A port is known, and nothing is listed, while a connection is requested.
ClientsInv ==
  /\ client \in [Host -> Client]
  /\ \A h \in Host : client[h].connection # "none" => client[h].port \in ClientPort
  /\ \A h \in Host : client[h].connection = "requested" =>
                       ~ client[h].listServer /\ ~ client[h].serverListed

\* What is under way was sent by a master client from its own address.
PacketsInv ==
  /\ channel \in [Host -> Seq(ClientPackets)]
  /\ \A h \in Host : \A i \in DOMAIN channel[h] : channel[h][i].from.ip = h
  /\ incoming \in Seq(NetworkPacket)
  /\ \A i \in DOMAIN incoming : incoming[i] \in ClientPackets \/ incoming[i].type = "RELAYED"

SessionsInv == session \subseteq Host /\ (pc = "down" => session = {})

\* Where in the queue the requests of h are.
Pending(h) ==
  {i \in DOMAIN incoming : incoming[i].from.ip = h /\ incoming[i].type # "RELAYED"}

\* An upload that says what the client would say now.
IsUploadOf(h, packet) ==
  /\ packet.type = "SET_SERVER"
  /\ ~ client[h].localServerModified => packet.rules = NameRule(client[h].name)

\* The list says what the client would say now.
IsHandled(h) ==
  /\ GameServer(h) \in Listed \/ h \in swept
  /\ GameServer(h) \in Listed /\ ~ client[h].localServerModified =>
       gameServerList[GameServer(h)].serverRules["Game name"]
         = NameRule(client[h].name)["Game name"]

\* The last thing that h has said is an upload, or nothing it said is left.
Believed(h) ==
  /\ channel[h] # <<>> => IsUploadOf(h, channel[h][Len(channel[h])])
  /\ channel[h] = <<>> /\ Pending(h) # {} =>
       \E i \in Pending(h) : /\ \A j \in Pending(h) : j <= i
                             /\ IsUploadOf(h, incoming[i])
  /\ channel[h] = <<>> /\ Pending(h) = {} => IsHandled(h)

BeliefsInv ==
  \A h \in session : IsConnected(h) /\ client[h].serverListed => Believed(h)

RegistryInv == ClientsInv /\ PacketsInv /\ SessionsInv /\ BeliefsInv
-----------------------------------------------------------------------------
(* Registry: packets and sequences of them *)

LEMMA UploadIsPacket ==
  ASSUME NEW h \in Host, NEW port \in ClientPort, NEW name \in Name \cup {NULL}
  PROVE  /\ Upload([ip |-> h, port |-> port], name) \in ClientPackets
         /\ DelistRequest([ip |-> h, port |-> port]) \in ClientPackets
BY DEF ClientPackets

\* A client's request: one of two types, for its own server.
LEMMA ClientPacketType ==
  ASSUME NEW packet \in ClientPackets
  PROVE  /\ packet \in NetworkPacket
         /\ packet.type \in {"SET_SERVER", "DELIST_SERVER"}
         /\ packet.port = GamePort /\ packet.from.ip \in Host
         /\ [ip |-> packet.from.ip, port |-> packet.port] = GameServer(packet.from.ip)
         /\ packet.type = "SET_SERVER" =>
              \E name \in Name \cup {NULL} : packet.rules = NameRule(name)
<1>1. packet \in NetworkPacket
  BY ClientPacketsAssumption
<1> DEFINE IDs == [ip : Host, port : ClientPort]
<1>2. CASE \E id \in IDs, name \in Name \cup {NULL} : packet = Upload(id, name)
  BY <1>1, <1>2 DEF Upload, GameServer
<1>3. CASE \E id \in IDs : packet = DelistRequest(id)
  BY <1>1, <1>3 DEF DelistRequest, GameServer
<1>4. QED
  BY <1>2, <1>3 DEF ClientPackets

LEMMA TailFacts ==
  ASSUME NEW S, NEW seq \in Seq(S), seq # <<>>
  PROVE  /\ Tail(seq) \in Seq(S) /\ Head(seq) \in S /\ Head(seq) = seq[1]
         /\ Len(Tail(seq)) = Len(seq) - 1 /\ Len(seq) \in Nat \ {0}
         /\ DOMAIN seq = 1 .. Len(seq)
         /\ DOMAIN Tail(seq) = 1 .. Len(seq) - 1
         /\ \A i \in 1 .. Len(seq) - 1 : Tail(seq)[i] = seq[i + 1]
OBVIOUS

LEMMA EmptyFacts ==
  ASSUME NEW S, NEW seq \in Seq(S)
  PROVE  Len(seq) = 0 <=> seq = <<>>
OBVIOUS

LEMMA AppendFacts ==
  ASSUME NEW S, NEW seq \in Seq(S), NEW e \in S
  PROVE  /\ Append(seq, e) \in Seq(S) /\ Append(seq, e) # <<>>
         /\ Len(seq) \in Nat /\ Len(Append(seq, e)) = Len(seq) + 1
         /\ DOMAIN seq = 1 .. Len(seq)
         /\ DOMAIN Append(seq, e) = 1 .. Len(seq) + 1
         /\ \A i \in 1 .. Len(seq) : Append(seq, e)[i] = seq[i]
         /\ Append(seq, e)[Len(seq) + 1] = e
OBVIOUS

\* Tails and longer sequences consist of the same elements.
LEMMA DeliveryKeepsPackets ==
  ASSUME PacketsInv, NEW h \in Host, channel[h] # <<>>,
         channel' = [channel EXCEPT ![h] = Tail(@)],
         incoming' = Append(incoming, Head(channel[h]))
  PROVE  PacketsInv'
<1>1. channel[h] \in Seq(ClientPackets)
  BY DEF PacketsInv
<1>2. /\ Tail(channel[h]) \in Seq(ClientPackets) /\ Head(channel[h]) \in ClientPackets
      /\ \A i \in DOMAIN Tail(channel[h]) : Tail(channel[h])[i].from.ip = h
  <2>1. \A i \in DOMAIN Tail(channel[h]) :
          i + 1 \in DOMAIN channel[h] /\ Tail(channel[h])[i] = channel[h][i + 1]
    BY <1>1, TailFacts
  <2>2. QED
    BY <1>1, <2>1, TailFacts DEF PacketsInv
<1>3. /\ channel' \in [Host -> Seq(ClientPackets)]
      /\ \A g \in Host : \A i \in DOMAIN channel'[g] : channel'[g][i].from.ip = g
  BY <1>2 DEF PacketsInv
<1>4. Head(channel[h]) \in NetworkPacket
  BY <1>2, ClientPacketType
<1>5. incoming' \in Seq(NetworkPacket)
  BY <1>4, AppendFacts DEF PacketsInv
<1>6. ASSUME NEW i \in DOMAIN incoming'
      PROVE  incoming'[i] \in ClientPackets \/ incoming'[i].type = "RELAYED"
  <2>1. incoming \in Seq(NetworkPacket) /\ i \in 1 .. Len(incoming) + 1 /\ Len(incoming) \in Nat
    BY <1>4, AppendFacts DEF PacketsInv
  <2>2. CASE i \in 1 .. Len(incoming)
    BY <1>4, <2>1, <2>2, AppendFacts DEF PacketsInv
  <2>3. CASE i = Len(incoming) + 1
    BY <1>2, <1>4, <2>1, <2>3, AppendFacts
  <2>4. QED
    BY <2>1, <2>2, <2>3
<1>7. QED
  BY <1>3, <1>5, <1>6 DEF PacketsInv
-----------------------------------------------------------------------------
(* Registry: client, packets and sessions: one lemma for each group of actions *)

\* A new packet of h at the end of its channel.
LEMMA SendKeepsPackets ==
  ASSUME PacketsInv, NEW h \in Host, NEW packet \in ClientPackets, packet.from.ip = h,
         Sends(h, packet), UNCHANGED incoming
  PROVE  PacketsInv'
<1>1. channel[h] \in Seq(ClientPackets)
  BY DEF PacketsInv
<1> DEFINE reaches == IsConnected(h) /\ h \in session
           new     == IF reaches THEN Append(channel[h], packet) ELSE channel[h]
<1>2. channel' = [channel EXCEPT ![h] = new]
  BY DEF Sends
<1>3. new \in Seq(ClientPackets) /\ \A i \in DOMAIN new : new[i].from.ip = h
  <2>1. \A i \in 1 .. Len(channel[h]) : channel[h][i].from.ip = h
    BY <1>1 DEF PacketsInv
  <2>2. CASE reaches
    <3>1. new = Append(channel[h], packet)
      BY <2>2
    <3>2. /\ new \in Seq(ClientPackets) /\ DOMAIN new = 1 .. Len(channel[h]) + 1
          /\ \A i \in 1 .. Len(channel[h]) : new[i] = channel[h][i]
          /\ new[Len(channel[h]) + 1] = packet /\ Len(channel[h]) \in Nat
      BY <1>1, <3>1, AppendFacts
    <3> HIDE DEF new
    <3>3. QED
      BY <2>1, <3>2
  <2>3. CASE ~ reaches
    BY <1>1, <2>1, <2>3
  <2>4. QED
    BY <2>2, <2>3
<1> HIDE DEF new
<1>4. QED
  BY <1>2, <1>3 DEF PacketsInv

\* What is lost is the end of a channel, or all of it.
LEMMA LossKeepsPackets ==
  ASSUME PacketsInv, NEW h \in Host, NEW seq \in Seq(ClientPackets), NEW n \in 0 .. Len(seq),
         \A i \in DOMAIN seq : seq[i].from.ip = h,
         channel' = [channel EXCEPT ![h] = SubSeq(seq, 1, n)], UNCHANGED incoming
  PROVE  PacketsInv'
<1> DEFINE new == SubSeq(seq, 1, n)
<1>1. /\ Len(seq) \in Nat /\ n \in Nat /\ DOMAIN seq = 1 .. Len(seq)
      /\ \A i \in 1 .. n : i \in DOMAIN seq /\ seq[i] \in ClientPackets
  OBVIOUS
<1>2. /\ new \in Seq(ClientPackets) /\ DOMAIN new = 1 .. n
      /\ \A i \in 1 .. n : new[i] = seq[i]
  BY <1>1
<1> HIDE DEF new
<1>3. \A i \in DOMAIN new : new[i].from.ip = h
  BY <1>1, <1>2
<1>4. QED
  BY <1>2, <1>3 DEF PacketsInv, new

LEMMA EmptyChannelKeepsPackets ==
  ASSUME PacketsInv, NEW h \in Host, channel' = [channel EXCEPT ![h] = <<>>],
         UNCHANGED incoming
  PROVE  PacketsInv'
<1>1. <<>> \in Seq(ClientPackets) /\ DOMAIN <<>> = {}
  OBVIOUS
<1>2. QED
  BY <1>1 DEF PacketsInv

\* The queue loses its head, or everything, and channels what is in them.
LEMMA QueueKeepsPackets ==
  ASSUME PacketsInv, NEW lost \in SUBSET Host,
         channel' = [h \in Host |-> IF h \in lost THEN <<>> ELSE channel[h]],
         \/ incoming' = incoming
         \/ incoming' = <<>>
         \/ incoming # <<>> /\ incoming' = Tail(incoming)
  PROVE  PacketsInv'
<1>1. /\ channel' \in [Host -> Seq(ClientPackets)]
      /\ \A h \in Host : \A i \in DOMAIN channel'[h] : channel'[h][i].from.ip = h
  <2>1. <<>> \in Seq(ClientPackets) /\ DOMAIN <<>> = {}
    OBVIOUS
  <2>2. QED
    BY <2>1 DEF PacketsInv
<1>2. /\ incoming' \in Seq(NetworkPacket)
      /\ \A i \in DOMAIN incoming' :
           incoming'[i] \in ClientPackets \/ incoming'[i].type = "RELAYED"
  <2>1. CASE incoming' = incoming
    BY <2>1 DEF PacketsInv
  <2>2. CASE incoming' = <<>>
    <3>1. <<>> \in Seq(NetworkPacket) /\ DOMAIN <<>> = {}
      OBVIOUS
    <3>2. QED
      BY <2>2, <3>1
  <2>3. CASE incoming # <<>> /\ incoming' = Tail(incoming)
    <3>1. incoming \in Seq(NetworkPacket)
      BY DEF PacketsInv
    <3>2. \A i \in DOMAIN Tail(incoming) :
            i + 1 \in DOMAIN incoming /\ Tail(incoming)[i] = incoming[i + 1]
      BY <2>3, <3>1, TailFacts
    <3>3. QED
      BY <2>3, <3>1, <3>2, TailFacts DEF PacketsInv
  <2>4. QED
    BY <2>1, <2>2, <2>3
<1>3. QED
  BY <1>1, <1>2 DEF PacketsInv

\* Every step of the server's thread takes packets from the queue, if anything.
LEMMA ServerStepQueue ==
  ASSUME ServerStep
  PROVE  \/ incoming' = incoming
         \/ incoming' = <<>> /\ pc' = "down"
         \/ incoming # <<>> /\ incoming' = Tail(incoming)
<1>1. Stop => incoming' = <<>> /\ pc' = "down"
  BY DEF Stop
<1>2. CASE Start \/ PacketsDone \/ PingSweep
  BY <1>2 DEF Start, PacketsDone, PingSweep
<1>3. CASE \E delay \in 0 .. MaxDelay : LoopStart(delay)
  BY <1>1, <1>3 DEF LoopStart
<1>4. CASE HandlePacket
  BY <1>1, <1>4 DEF HandlePacket, HandleDelistServer, HandleUpdateServer, RefreshServer,
                    AddServer, HandlePong, HandleRelayedConnectionNotification,
                    HandleOtherPacket, BanFlooder, Receives
<1>5. CASE DatabaseFails
  BY <1>1, <1>5 DEF DatabaseFails, ExportFails, HandlerFails, FirstExportFails, SweepFails,
                    StatementFails
<1>6. QED
  BY <1>2, <1>3, <1>4, <1>5 DEF ServerStep, Loop
-----------------------------------------------------------------------------
(* Registry: clients: one lemma for each call, for the client that makes it *)

LEMMA ClientIntro ==
  ASSUME ClientsInv, NEW h \in Host, NEW new \in Client, client' = [client EXCEPT ![h] = new],
         new.connection # "none" => new.port \in ClientPort,
         new.connection = "requested" => ~ new.listServer /\ ~ new.serverListed
  PROVE  ClientsInv' /\ client'[h] = new /\ \A g \in Host \ {h} : client'[g] = client[g]
BY DEF ClientsInv

\* A client goes on believing as long as it has not been told a new rule.
LEMMA StillBelieves ==
  ASSUME NEW g \in Host, Believed(g),
         ~ client'[g].localServerModified =>
            ~ client[g].localServerModified /\ client'[g].name = client[g].name,
         channel'[g] = channel[g], UNCHANGED <<incoming, gameServerList>>,
         g \in swept => g \in swept'
  PROVE  Believed(g)'
<1>1. /\ Pending(g)' = Pending(g) /\ Listed' = Listed /\ GameServer(g)' = GameServer(g)
      /\ incoming' = incoming /\ gameServerList' = gameServerList
  BY DEF Pending, Listed, GameServer
<1>2. IsHandled(g) => IsHandled(g)'
  BY <1>1 DEF IsHandled, NameRule
<1>3. \A i : IsUploadOf(g, incoming[i]) => IsUploadOf(g, incoming[i])'
  BY <1>1 DEF IsUploadOf, NameRule
<1>4. IsUploadOf(g, channel[g][Len(channel[g])]) => IsUploadOf(g, channel[g][Len(channel[g])])'
  BY DEF IsUploadOf, NameRule
<1>5. QED
  BY <1>1, <1>2, <1>3, <1>4 DEF Believed

\* After a call, only its client has to be looked at.
LEMMA CallBeliefs ==
  ASSUME BeliefsInv, SessionsInv, NEW h \in Host, session' \subseteq session \cup {h},
         \A g \in Host \ {h} : /\ client'[g] = client[g] /\ channel'[g] = channel[g]
                               /\ g \in swept => g \in swept',
         UNCHANGED <<incoming, gameServerList>>,
         h \in session' /\ IsConnected(h)' /\ client'[h].serverListed => Believed(h)'
  PROVE  BeliefsInv'
<1> SUFFICES ASSUME NEW g \in session', IsConnected(g)', client'[g].serverListed
             PROVE  Believed(g)'
  BY DEF BeliefsInv, IsConnected
<1>1. CASE g = h
  BY <1>1
<1>2. CASE g # h
  <2>1. g \in session /\ g \in Host
    BY <1>2 DEF SessionsInv
  <2>2. Believed(g)
    BY <1>2, <2>1 DEF BeliefsInv, IsConnected
  <2>3. QED
    BY <1>2, <2>1, <2>2, StillBelieves
<1>3. QED
  BY <1>1, <1>2

LEMMA ConnectKeepsInv ==
  ASSUME RegistryInv, NEW h \in Host, NEW port \in ClientPort, Connect(h, port)
  PROVE  RegistryInv'
<1> DEFINE new == [port                |-> IF client[h].port = 0 THEN port ELSE client[h].port,
                   connection          |-> IF client[h].connection = "none" THEN "requested"
                                           ELSE client[h].connection,
                   listServer          |-> FALSE,
                   serverListed        |-> FALSE,
                   localServerModified |-> FALSE,
                   name                |-> NULL]
<1>1. client' = [client EXCEPT ![h] = new] /\ UNCHANGED <<vars, channel, session, swept>>
  BY DEF Connect
<1>2. client[h] \in Client
  BY DEF RegistryInv, ClientsInv
<1>3. new \in Client /\ new.port \in ClientPort /\ ~ new.listServer /\ ~ new.serverListed
  <2>1. new.port \in ClientPort
    BY <1>2 DEF Client
  <2>2. new.connection \in {"none", "requested", "connected"}
    BY <1>2 DEF Client
  <2>3. QED
    BY <2>1, <2>2 DEF Client
<1> HIDE DEF new
<1>4. ClientsInv' /\ client'[h] = new
  BY <1>1, <1>3, ClientIntro DEF RegistryInv
<1>5. BeliefsInv'
  BY <1>1, <1>3, <1>4, CallBeliefs DEF RegistryInv, ClientsInv, vars
<1>6. PacketsInv' /\ SessionsInv'
  BY <1>1 DEF RegistryInv, PacketsInv, SessionsInv, vars
<1>7. QED
  BY <1>4, <1>5, <1>6 DEF RegistryInv

LEMMA RequestListingKeepsInv ==
  ASSUME RegistryInv, NEW h \in Host, RequestListing(h)
  PROVE  RegistryInv'
<1> DEFINE new == [client[h] EXCEPT !.listServer = TRUE]
<1>1. client' = [client EXCEPT ![h] = new] /\ UNCHANGED <<vars, channel, session, swept>>
  BY DEF RequestListing
<1>2. client[h] \in Client /\ IsConnected(h)
  BY DEF RegistryInv, ClientsInv, RequestListing
<1>3. /\ new \in Client /\ new.connection = "connected" /\ new.port = client[h].port
      /\ new.serverListed = client[h].serverListed /\ new.name = client[h].name
      /\ new.localServerModified = client[h].localServerModified
  BY <1>2 DEF Client, IsConnected
<1> HIDE DEF new
<1>4. ClientsInv' /\ client'[h] = new /\ \A g \in Host \ {h} : client'[g] = client[g]
  <2>1. new.port \in ClientPort
    BY <1>2, <1>3 DEF RegistryInv, ClientsInv, IsConnected
  <2>2. QED
    BY <1>1, <1>3, <2>1, ClientIntro DEF RegistryInv
<1>5. h \in session /\ client'[h].serverListed => Believed(h)'
  <2>1. h \in session /\ client[h].serverListed => Believed(h)
    BY <1>2 DEF RegistryInv, BeliefsInv
  <2>2. QED
    BY <1>1, <1>3, <1>4, <2>1, StillBelieves DEF vars
<1>6. BeliefsInv'
  BY <1>1, <1>4, <1>5, CallBeliefs DEF RegistryInv, vars
<1>7. PacketsInv' /\ SessionsInv'
  BY <1>1 DEF RegistryInv, PacketsInv, SessionsInv, vars
<1>8. QED
  BY <1>4, <1>6, <1>7 DEF RegistryInv

LEMMA PostRuleKeepsInv ==
  ASSUME RegistryInv, NEW h \in Host, NEW name \in Name \cup {NULL}, PostRule(h, name)
  PROVE  RegistryInv'
<1> DEFINE new == [client[h] EXCEPT !.name = name,
                     !.localServerModified = @ \/ client[h].name # name]
<1>1. client[h] \in Client /\ IsConnected(h)
  BY DEF RegistryInv, ClientsInv, PostRule
<1>2. client' = [client EXCEPT ![h] = new] /\ UNCHANGED <<vars, channel, session, swept>>
  BY <1>1 DEF PostRule, RegistryInv, ClientsInv
<1>3. /\ new \in Client /\ new.connection = "connected" /\ new.port = client[h].port
      /\ new.serverListed = client[h].serverListed
      /\ ~ new.localServerModified =>
           ~ client[h].localServerModified /\ new.name = client[h].name
  BY <1>1 DEF Client, IsConnected
<1> HIDE DEF new
<1>4. ClientsInv' /\ client'[h] = new /\ \A g \in Host \ {h} : client'[g] = client[g]
  <2>1. new.port \in ClientPort
    BY <1>1, <1>3 DEF RegistryInv, ClientsInv, IsConnected
  <2>2. QED
    BY <1>2, <1>3, <2>1, ClientIntro DEF RegistryInv
<1>5. h \in session /\ client'[h].serverListed => Believed(h)'
  <2>1. h \in session /\ client[h].serverListed => Believed(h)
    BY <1>1 DEF RegistryInv, BeliefsInv
  <2>2. QED
    BY <1>2, <1>3, <1>4, <2>1, StillBelieves DEF vars
<1>6. BeliefsInv'
  BY <1>2, <1>4, <1>5, CallBeliefs DEF RegistryInv, vars
<1>7. PacketsInv' /\ SessionsInv'
  BY <1>2 DEF RegistryInv, PacketsInv, SessionsInv, vars
<1>8. QED
  BY <1>4, <1>6, <1>7 DEF RegistryInv

LEMMA DelistServerKeepsInv ==
  ASSUME RegistryInv, NEW h \in Host, DelistServer(h)
  PROVE  RegistryInv'
<1> DEFINE new == Delisted(h)
<1>1. client[h] \in Client /\ IsConnected(h) /\ client[h].port \in ClientPort
  BY DEF RegistryInv, ClientsInv, DelistServer, IsConnected
<1>2. client' = [client EXCEPT ![h] = new] /\ UNCHANGED <<vars, session, swept>>
  BY DEF DelistServer
<1>3. /\ new \in Client /\ new.connection = "connected" /\ new.port = client[h].port
      /\ ~ new.serverListed
  BY <1>1 DEF Delisted, Client, IsConnected
<1> HIDE DEF new
<1>4. ClientsInv' /\ client'[h] = new /\ \A g \in Host \ {h} : client'[g] = client[g]
  BY <1>1, <1>2, <1>3, ClientIntro DEF RegistryInv
<1>5. PacketsInv' /\ \A g \in Host \ {h} : channel'[g] = channel[g]
  <2>1. CASE client[h].serverListed
    <3>1. DelistRequest(ClientID(h)) \in ClientPackets
      BY <1>1, UploadIsPacket DEF ClientID
    <3>2. DelistRequest(ClientID(h)).from.ip = h
      BY DEF DelistRequest, ClientID
    <3>3. Sends(h, DelistRequest(ClientID(h)))
      BY <2>1 DEF DelistServer
    <3>4. QED
      BY <1>2, <3>1, <3>2, <3>3, SendKeepsPackets DEF RegistryInv, PacketsInv, Sends, vars
  <2>2. CASE ~ client[h].serverListed
    BY <1>2, <2>2 DEF DelistServer, RegistryInv, PacketsInv, vars
  <2>3. QED
    BY <2>1, <2>2
<1>6. BeliefsInv'
  BY <1>2, <1>3, <1>4, <1>5, CallBeliefs DEF RegistryInv, vars
<1>7. SessionsInv'
  BY <1>2 DEF RegistryInv, SessionsInv, vars
<1>8. QED
  BY <1>4, <1>5, <1>6, <1>7 DEF RegistryInv

\* The upload is the last packet of the channel, with the rule that was posted.
LEMMA UpdateKeepsInv ==
  ASSUME RegistryInv, NEW h \in Host, Update(h)
  PROVE  RegistryInv'
<1> DEFINE new    == [client[h] EXCEPT !.serverListed = TRUE, !.localServerModified = FALSE]
           packet == Upload(ClientID(h), client[h].name)
<1>1. client[h] \in Client /\ client[h].listServer
  BY DEF RegistryInv, ClientsInv, Update
<1>2. /\ client' = [client EXCEPT ![h] = new] /\ UNCHANGED <<vars, session>>
      /\ Sends(h, packet) /\ swept' = swept \ {h}
  BY <1>1 DEF Update, RegistryInv, ClientsInv
<1>3. /\ new \in Client /\ new.connection = client[h].connection /\ new.port = client[h].port
      /\ new.name = client[h].name /\ ~ new.localServerModified
  BY <1>1 DEF Client
<1>4. new.connection # "requested" /\ (new.connection # "none" => new.port \in ClientPort)
  BY <1>1, <1>3 DEF RegistryInv, ClientsInv
<1> HIDE DEF new
<1>5. ClientsInv' /\ client'[h] = new /\ \A g \in Host \ {h} : client'[g] = client[g]
  BY <1>1, <1>2, <1>3, <1>4, ClientIntro DEF RegistryInv
<1>6. /\ packet.from.ip = h /\ packet.type = "SET_SERVER"
      /\ packet.rules = NameRule(client[h].name)
  BY DEF Upload, ClientID
<1> HIDE DEF packet
<1> DEFINE reaches == IsConnected(h) /\ h \in session
<1>7. /\ PacketsInv' /\ \A g \in Host \ {h} : channel'[g] = channel[g]
      /\ reaches => channel'[h] # <<>> /\ channel'[h][Len(channel'[h])] = packet
  <2>1. channel[h] \in Seq(ClientPackets)
    BY DEF RegistryInv, PacketsInv
  <2>2. CASE reaches
    <3>1. packet \in ClientPackets
      <4>1. client[h].port \in ClientPort /\ client[h].name \in Name \cup {NULL}
        BY <1>1, <2>2 DEF IsConnected, RegistryInv, ClientsInv, Client
      <4>2. QED
        BY <4>1, UploadIsPacket DEF ClientID, packet
    <3>2. channel' = [channel EXCEPT ![h] = Append(channel[h], packet)]
      BY <1>2, <2>2 DEF Sends
    <3>3. PacketsInv'
      BY <1>2, <1>6, <3>1, SendKeepsPackets DEF RegistryInv, vars
    <3>4. channel'[h] = Append(channel[h], packet)
      BY <3>2 DEF RegistryInv, PacketsInv
    <3>5. Len(channel'[h]) = Len(channel[h]) + 1
      BY <2>1, <3>1, <3>4, AppendFacts
    <3>6. channel'[h] # <<>> /\ channel'[h][Len(channel'[h])] = packet
      BY <2>1, <3>1, <3>4, <3>5, AppendFacts
    <3>7. QED
      BY <3>2, <3>3, <3>6 DEF RegistryInv, PacketsInv
  <2>3. CASE ~ reaches
    <3>1. channel' = channel
      BY <1>2, <2>3 DEF Sends, RegistryInv, PacketsInv
    <3>2. QED
      BY <1>2, <2>3, <3>1 DEF RegistryInv, PacketsInv, vars
  <2>4. QED
    BY <2>2, <2>3
<1>8. h \in session' /\ IsConnected(h)' => Believed(h)'
  <2>1. h \in session' /\ IsConnected(h)' <=> reaches
    BY <1>2, <1>3, <1>5 DEF IsConnected
  <2>2. packet.rules = NameRule(client'[h].name)
    BY <1>3, <1>5, <1>6
  <2>3. reaches => IsUploadOf(h, channel[h][Len(channel[h])])'
    BY <1>6, <1>7, <2>2 DEF IsUploadOf, NameRule
  <2>4. QED
    BY <1>7, <2>1, <2>3 DEF Believed
<1>9. BeliefsInv'
  BY <1>2, <1>5, <1>7, <1>8, CallBeliefs DEF RegistryInv, vars
<1>10. SessionsInv'
  BY <1>2 DEF RegistryInv, SessionsInv, vars
<1>11. QED
  BY <1>5, <1>7, <1>9, <1>10 DEF RegistryInv

LEMMA DisconnectKeepsInv ==
  ASSUME RegistryInv, NEW h \in Host, Disconnect(h)
  PROVE  RegistryInv'
<1> DEFINE new    == [(IF IsConnected(h) THEN Delisted(h) ELSE client[h])
                        EXCEPT !.port = 0, !.connection = "none"]
           delists == IsConnected(h) /\ h \in session /\ client[h].serverListed
           delist == IF delists THEN <<DelistRequest(ClientID(h))>> ELSE <<>>
           out    == channel[h] \o delist
<1>1. client[h] \in Client
  BY DEF RegistryInv, ClientsInv
<1>2. client' = [client EXCEPT ![h] = new] /\ UNCHANGED <<vars, session, swept>>
  BY DEF Disconnect, RegistryInv, ClientsInv
<1>3. new \in Client /\ new.connection = "none"
  BY <1>1 DEF Client, Delisted
<1>4. PICK n \in 0 .. Len(out) : channel' = [channel EXCEPT ![h] = SubSeq(out, 1, n)]
  BY DEF Disconnect
<1> HIDE DEF new
<1>5. ClientsInv' /\ client'[h] = new /\ \A g \in Host \ {h} : client'[g] = client[g]
  BY <1>2, <1>3, ClientIntro DEF RegistryInv
<1>6. out \in Seq(ClientPackets) /\ \A i \in DOMAIN out : out[i].from.ip = h
  <2>1. delist \in Seq(ClientPackets) /\ \A i \in DOMAIN delist : delist[i].from.ip = h
    <3>1. CASE delists
      <4> DEFINE packet == DelistRequest(ClientID(h))
      <4>1. client[h].port \in ClientPort
        BY <3>1 DEF IsConnected, RegistryInv, ClientsInv
      <4>2. packet \in ClientPackets /\ packet.from.ip = h
        BY <4>1, UploadIsPacket DEF ClientID, DelistRequest
      <4>3. delist = <<packet>>
        BY <3>1
      <4> HIDE DEF packet, delist
      <4>4. QED
        BY <4>2, <4>3
    <3>2. CASE ~ delists
      <4>1. delist = <<>>
        BY <3>2
      <4> HIDE DEF delist
      <4>2. QED
        BY <4>1
    <3>3. QED
      BY <3>1, <3>2
  <2>2. /\ channel[h] \in Seq(ClientPackets)
        /\ \A i \in DOMAIN channel[h] : channel[h][i].from.ip = h
    BY DEF RegistryInv, PacketsInv
  <2> HIDE DEF delist
  <2>3. QED
    BY <2>1, <2>2
<1> HIDE DEF out, delist
<1>7. PacketsInv'
  BY <1>2, <1>4, <1>6, LossKeepsPackets DEF RegistryInv, vars
<1>8. \A g \in Host \ {h} : channel'[g] = channel[g]
  BY <1>4 DEF RegistryInv, PacketsInv
<1>9. BeliefsInv'
  BY <1>2, <1>3, <1>5, <1>8, CallBeliefs DEF RegistryInv, vars, IsConnected
<1>10. SessionsInv'
  BY <1>2 DEF RegistryInv, SessionsInv, vars
<1>11. QED
  BY <1>5, <1>7, <1>9, <1>10 DEF RegistryInv
-----------------------------------------------------------------------------
(* Registry: connections *)

LEMMA AcceptKeepsInv ==
  ASSUME RegistryInv, NEW h \in Host, Accept(h)
  PROVE  RegistryInv'
<1> DEFINE new == [client[h] EXCEPT !.connection = "connected"]
<1>1. client[h] \in Client /\ client[h].connection = "requested" /\ pc # "down"
  BY DEF RegistryInv, ClientsInv, Accept
<1>2. /\ client' = [client EXCEPT ![h] = new] /\ session' = session \cup {h}
      /\ UNCHANGED <<vars, channel, swept>>
  BY DEF Accept
<1>3. /\ new \in Client /\ new.connection = "connected" /\ new.port = client[h].port
      /\ new.serverListed = client[h].serverListed
  BY <1>1 DEF Client
<1>4. ~ client[h].serverListed /\ client[h].port \in ClientPort
  BY <1>1 DEF RegistryInv, ClientsInv
<1> HIDE DEF new
<1>5. ClientsInv' /\ client'[h] = new /\ \A g \in Host \ {h} : client'[g] = client[g]
  BY <1>2, <1>3, <1>4, ClientIntro DEF RegistryInv
<1>6. BeliefsInv'
  BY <1>2, <1>3, <1>4, <1>5, CallBeliefs DEF RegistryInv, vars
<1>7. PacketsInv' /\ SessionsInv'
  BY <1>1, <1>2 DEF RegistryInv, PacketsInv, SessionsInv, vars
<1>8. QED
  BY <1>5, <1>6, <1>7 DEF RegistryInv

LEMMA ClientLosesKeepsInv ==
  ASSUME RegistryInv, NEW h \in Host, ClientLoses(h)
  PROVE  RegistryInv'
<1> DEFINE new == [client[h] EXCEPT !.connection = "none"]
<1>1. client[h] \in Client
  BY DEF RegistryInv, ClientsInv
<1>2. /\ client' = [client EXCEPT ![h] = new] /\ channel' = [channel EXCEPT ![h] = <<>>]
      /\ UNCHANGED <<vars, session, swept>>
  BY DEF ClientLoses
<1>3. new \in Client /\ new.connection = "none"
  BY <1>1 DEF Client
<1> HIDE DEF new
<1>4. ClientsInv' /\ client'[h] = new /\ \A g \in Host \ {h} : client'[g] = client[g]
  BY <1>2, <1>3, ClientIntro DEF RegistryInv
<1>5. PacketsInv' /\ \A g \in Host \ {h} : channel'[g] = channel[g]
  BY <1>2, EmptyChannelKeepsPackets DEF RegistryInv, PacketsInv, vars
<1>6. BeliefsInv'
  BY <1>2, <1>3, <1>4, <1>5, CallBeliefs DEF RegistryInv, vars, IsConnected
<1>7. SessionsInv'
  BY <1>2 DEF RegistryInv, SessionsInv, vars
<1>8. QED
  BY <1>4, <1>5, <1>6, <1>7 DEF RegistryInv

LEMMA ServerLosesKeepsInv ==
  ASSUME RegistryInv, NEW h \in Host, ServerLoses(h)
  PROVE  RegistryInv'
<1>1. /\ session' = session \ {h} /\ channel' = [channel EXCEPT ![h] = <<>>]
      /\ UNCHANGED <<vars, client, swept>>
  BY DEF ServerLoses
<1>2. PacketsInv' /\ \A g \in Host \ {h} : channel'[g] = channel[g]
  BY <1>1, EmptyChannelKeepsPackets DEF RegistryInv, PacketsInv, vars
<1>3. BeliefsInv'
  BY <1>1, <1>2, CallBeliefs DEF RegistryInv, vars
<1>4. QED
  BY <1>1, <1>2, <1>3 DEF RegistryInv, ClientsInv, SessionsInv, vars

\* A packet that is queued and is not a request of g leaves what g has said.
LEMMA QueueingOthers ==
  ASSUME incoming \in Seq(NetworkPacket), NEW packet \in NetworkPacket,
         incoming' = Append(incoming, packet), NEW g,
         packet.type = "RELAYED" \/ packet.from.ip # g
  PROVE  /\ Pending(g)' = Pending(g)
         /\ \A i \in Pending(g) : incoming'[i] = incoming[i]
<1>1. /\ DOMAIN incoming = 1 .. Len(incoming) /\ Len(incoming) \in Nat
      /\ DOMAIN incoming' = 1 .. Len(incoming) + 1
      /\ \A i \in 1 .. Len(incoming) : incoming'[i] = incoming[i]
      /\ incoming'[Len(incoming) + 1] = packet
  BY AppendFacts
<1>2. QED
  BY <1>1 DEF Pending

LEMMA QueueingOthersBelieve ==
  ASSUME incoming \in Seq(NetworkPacket), NEW packet \in NetworkPacket,
         incoming' = Append(incoming, packet), NEW g \in Host,
         packet.type = "RELAYED" \/ packet.from.ip # g,
         channel'[g] = channel[g], UNCHANGED <<client, gameServerList, swept>>, Believed(g)
  PROVE  Believed(g)'
<1>1. /\ Pending(g)' = Pending(g)
      /\ \A i \in Pending(g) : incoming'[i] = incoming[i]
  BY QueueingOthers
<1>2. /\ IsHandled(g) => IsHandled(g)'
      /\ \A i \in Pending(g) : IsUploadOf(g, incoming[i]) => IsUploadOf(g, incoming[i])'
      /\ IsUploadOf(g, channel[g][Len(channel[g])])
           => IsUploadOf(g, channel[g][Len(channel[g])])'
  BY <1>1 DEF IsHandled, Listed, GameServer, NameRule, IsUploadOf
<1>3. QED
  BY <1>1, <1>2 DEF Believed

\* The head of a channel goes to the end of the queue: nothing is overtaken.
LEMMA ArrivesKeepsInv ==
  ASSUME RegistryInv, NEW h \in Host, Arrives(h)
  PROVE  RegistryInv'
<1> DEFINE packet == Head(channel[h])
<1>1. /\ channel' = [channel EXCEPT ![h] = Tail(@)] /\ channel[h] # <<>>
      /\ incoming' = Append(incoming, packet) /\ pc' = pc
      /\ UNCHANGED <<client, session, swept, gameServerList>>
  BY DEF Arrives, NetworkDelivers
<1>2. channel[h] \in Seq(ClientPackets) /\ incoming \in Seq(NetworkPacket)
  BY DEF RegistryInv, PacketsInv
<1>3. /\ packet = channel[h][1] /\ packet.from.ip = h /\ packet \in NetworkPacket
      /\ packet.type # "RELAYED" /\ Len(channel[h]) \in Nat \ {0}
  <2>1. packet = channel[h][1] /\ 1 \in DOMAIN channel[h] /\ Len(channel[h]) \in Nat \ {0}
    BY <1>1, <1>2, TailFacts
  <2>2. packet \in ClientPackets
    BY <1>1, <1>2, TailFacts
  <2>3. packet.type # "RELAYED" /\ packet \in NetworkPacket
    BY <2>2, ClientPacketType
  <2>4. packet.from.ip = h
    BY <2>1 DEF RegistryInv, PacketsInv
  <2>5. QED
    BY <2>1, <2>3, <2>4
<1>4. PacketsInv'
  BY <1>1, DeliveryKeepsPackets DEF RegistryInv
<1> HIDE DEF packet
<1>5. ASSUME NEW g \in session, IsConnected(g), client[g].serverListed
      PROVE  Believed(g)'
  <2>1. Believed(g) /\ g \in Host
    BY <1>5 DEF RegistryInv, BeliefsInv, SessionsInv
  <2>2. CASE g # h
    <3>1. channel'[g] = channel[g]
      BY <1>1, <2>1, <2>2 DEF RegistryInv, PacketsInv
    <3>2. QED
      BY <1>1, <1>2, <1>3, <2>1, <2>2, <3>1, QueueingOthersBelieve
  <2>3. CASE g = h
    <3>1. channel'[h] = Tail(channel[h])
      BY <1>1 DEF RegistryInv, PacketsInv
    <3>2. IsUploadOf(h, channel[h][Len(channel[h])])
      BY <1>1, <2>1, <2>3 DEF Believed
    <3>3. CASE Len(channel[h]) = 1
      <4>1. channel'[h] = <<>>
        <5>1. Tail(channel[h]) \in Seq(ClientPackets) /\ Len(Tail(channel[h])) = 0
          BY <1>1, <1>2, <3>3, TailFacts
        <5>2. QED
          BY <3>1, <5>1, EmptyFacts
      <4>2. IsUploadOf(h, packet)
        BY <1>3, <3>2, <3>3
      <4>3. PICK last \in DOMAIN incoming' :
              incoming'[last] = packet /\ \A j \in DOMAIN incoming' : j <= last
        BY <1>1, <1>2, <1>3, AppendFacts
      <4>4. last \in Pending(h)' /\ \A j \in Pending(h)' : j <= last
        BY <1>3, <4>3 DEF Pending
      <4>5. IsUploadOf(h, incoming[last])'
        BY <1>1, <4>2, <4>3 DEF IsUploadOf, NameRule
      <4>6. QED
        BY <2>3, <4>1, <4>4, <4>5 DEF Believed
    <3>4. CASE Len(channel[h]) # 1
      <4>1. /\ Len(channel'[h]) = Len(channel[h]) - 1 /\ channel'[h] # <<>>
            /\ channel'[h][Len(channel'[h])] = channel[h][Len(channel[h])]
        <5> DEFINE n == Len(channel[h])
        <5>1. n \in Nat \ {0, 1}
          BY <1>3, <3>4
        <5>2. /\ Tail(channel[h]) \in Seq(ClientPackets) /\ Len(Tail(channel[h])) = n - 1
              /\ \A i \in 1 .. n - 1 : Tail(channel[h])[i] = channel[h][i + 1]
          BY <1>1, <1>2, TailFacts
        <5> HIDE DEF n
        <5>3. Tail(channel[h])[n - 1] = channel[h][n] /\ Len(Tail(channel[h])) # 0
          BY <5>1, <5>2
        <5>4. Tail(channel[h]) # <<>>
          BY <5>2, <5>3, EmptyFacts
        <5>5. QED
          BY <3>1, <5>2, <5>3, <5>4 DEF n
      <4>2. IsUploadOf(h, channel[h][Len(channel[h])])'
        BY <1>1, <3>2, <4>1 DEF IsUploadOf, NameRule
      <4>3. QED
        BY <2>3, <4>1, <4>2 DEF Believed
    <3>5. QED
      BY <3>3, <3>4
  <2>4. QED
    BY <2>2, <2>3
<1>6. BeliefsInv'
  BY <1>1, <1>5 DEF BeliefsInv, IsConnected
<1>7. QED
  BY <1>1, <1>4, <1>6 DEF RegistryInv, ClientsInv, SessionsInv
-----------------------------------------------------------------------------
(* Registry: the server's thread *)

\* The head of the queue has been handled.  When it was a request of g, only
\* an upload that is the last of them has to leave its mark.
LEMMA PopBelieves ==
  ASSUME PacketsInv, incoming # <<>>, incoming' = Tail(incoming), UNCHANGED client,
         NEW g \in Host, channel'[g] = channel[g], Believed(g),
         1 \notin Pending(g) /\ IsHandled(g) => IsHandled(g)',
         1 \in Pending(g) /\ IsUploadOf(g, Head(incoming)) => IsHandled(g)'
  PROVE  Believed(g)'
<1>1. /\ incoming \in Seq(NetworkPacket) /\ Head(incoming) = incoming[1]
      /\ DOMAIN incoming = 1 .. Len(incoming) /\ Len(incoming) \in Nat \ {0}
      /\ DOMAIN incoming' = 1 .. Len(incoming) - 1
      /\ \A i \in 1 .. Len(incoming) - 1 : incoming'[i] = incoming[i + 1]
  BY TailFacts DEF PacketsInv
<1>2. /\ Pending(g) \subseteq Nat \ {0}
      /\ \A i \in Pending(g)' : i \in Nat \ {0} /\ i + 1 \in Pending(g)
      /\ \A i \in Pending(g) : i # 1 => i - 1 \in Pending(g)' /\ incoming'[i - 1] = incoming[i]
  BY <1>1 DEF Pending
<1>3. CASE channel[g] # <<>>
  <2>1. IsUploadOf(g, channel[g][Len(channel[g])])'
    BY <1>3 DEF Believed, IsUploadOf, NameRule
  <2>2. QED
    BY <1>3, <2>1 DEF Believed
<1>4. CASE channel[g] = <<>> /\ Pending(g)' # {}
  <2>1. PICK i \in Pending(g) :
          (\A j \in Pending(g) : j <= i) /\ IsUploadOf(g, incoming[i])
    BY <1>2, <1>4 DEF Believed
  <2>2. i # 1
    BY <1>2, <1>4, <2>1
  <2>3. i - 1 \in Pending(g)' /\ \A j \in Pending(g)' : j <= i - 1
    BY <1>2, <2>1, <2>2
  <2>4. IsUploadOf(g, incoming'[i - 1])
    BY <1>2, <2>1, <2>2
  <2>5. IsUploadOf(g, incoming[i - 1])'
    BY <2>4 DEF IsUploadOf, NameRule
  <2>6. QED
    BY <1>4, <2>3, <2>5 DEF Believed
<1>5. CASE channel[g] = <<>> /\ Pending(g)' = {}
  <2>1. \A i \in Pending(g) : i = 1
    BY <1>2, <1>5
  <2>2. IsHandled(g)'
    <3>1. CASE Pending(g) = {}
      BY <1>5, <3>1 DEF Believed
    <3>2. CASE Pending(g) # {}
      <4>1. 1 \in Pending(g) /\ IsUploadOf(g, incoming[1])
        BY <1>5, <2>1, <3>2 DEF Believed
      <4>2. QED
        BY <1>1, <4>1
    <3>3. QED
      BY <3>1, <3>2
  <2>3. QED
    BY <1>5, <2>2 DEF Believed
<1>6. QED
  BY <1>3, <1>4, <1>5

\* Whether the head of the queue is a request of g.
LEMMA HeadRequest ==
  ASSUME PacketsInv, incoming # <<>>, NEW g
  PROVE  /\ Head(incoming) \in ClientPackets \/ Head(incoming).type = "RELAYED"
         /\ 1 \in Pending(g) <=> /\ Head(incoming).from.ip = g
                                 /\ Head(incoming).type # "RELAYED"
<1>1. Head(incoming) = incoming[1] /\ 1 \in DOMAIN incoming
  BY TailFacts DEF PacketsInv
<1>2. QED
  BY <1>1 DEF PacketsInv, Pending

\* An upload leaves the rule that the client posted.
LEMMA UploadedName ==
  ASSUME NEW name \in Name \cup {NULL}
  PROVE  DeserializeServer(NameRule(name))["Game name"] = NameRule(name)["Game name"]
BY DEF DeserializeServer, RuleKey, ReservedKey, UserKey

LEMMA NoIntegerIsInteger == -1 \in Int
OBVIOUS

LEMMA RefreshedName ==
  ASSUME NEW name \in Name \cup {NULL}, NEW old \in Rules,
         old["Game name"] # NULL =>
           (old["Game name"].stringValue # NULL => old["Game name"].intValue = -1)
  PROVE  UpdateServer(old, DeserializeServer(NameRule(name)))["Game name"]
           = NameRule(name)["Game name"]
<1>1. -1 \in Int
  BY NoIntegerIsInteger
<1> DEFINE source == DeserializeServer(NameRule(name))
           rule   == [stringValue |-> name, intValue |-> -1]
<1>2. /\ NameRule(name)["Game name"] = IF name # NULL THEN rule ELSE NULL
      /\ source["Game name"] = NameRule(name)["Game name"]
  BY UploadedName DEF NameRule, RuleKey, UserKey
<1>3. UpdateServer(old, source)["Game name"] =
        IF source["Game name"] = NULL THEN NULL
        ELSE UpdatedRule(old["Game name"], source["Game name"].stringValue,
                         source["Game name"].intValue)
  BY DEF UpdateServer, RuleKey, ReservedKey, UserKey
<1> HIDE DEF source
<1>4. CASE name = NULL
  BY <1>2, <1>3, <1>4 DEF source
<1>5. CASE name # NULL
  <2>1. name \in Text \cup {NULL}
    BY RegistryAssumption, Zenon DEF Text
  <2>2. rule # NULL
    BY <1>1, <2>1, RuleIntro, NullAssumption
  <2>3. source["Game name"] = rule /\ rule.stringValue = name /\ rule.intValue = -1
    BY <1>2, <1>5
  <2>4. UpdatedRule(old["Game name"], name, -1) = rule
    BY <1>5 DEF UpdatedRule
  <2>5. QED
    BY <1>2, <1>3, <1>5, <2>2, <2>3, <2>4 DEF source
<1>6. QED
  BY <1>4, <1>5

LEMMA GameServerType ==
  ASSUME NEW g \in Host
  PROVE  GameServer(g) \in PlayerID /\ GameServer(g).ip = g
BY RegistryAssumption DEF GameServer, PlayerID

\* After the upload of g, the list says what the client says.
LEMMA UploadHandles ==
  ASSUME TypeOK, StringXorInt, ClientsInv, NEW g \in Host, UNCHANGED client,
         NEW packet \in ClientPackets, packet.from.ip = g, IsUploadOf(g, packet),
         \/ GameServer(g) \in Listed /\ RefreshServer(GameServer(g), DeserializeServer(packet.rules))
         \/ /\ GameServer(g) \notin Listed
            /\ ListServer(GameServer(g), NewServer(GameServer(g), packet.from,
                                                   DeserializeServer(packet.rules)))
  PROVE  IsHandled(g)'
<1> DEFINE s     == GameServer(g)
           rules == DeserializeServer(packet.rules)
<1>1. GameServer(g)' = s
  BY DEF GameServer
<1>2. PICK name \in Name \cup {NULL} : packet.rules = NameRule(name)
  BY ClientPacketType DEF IsUploadOf
<1>3. ~ client[g].localServerModified => NameRule(name) = NameRule(client[g].name)
  BY <1>2 DEF IsUploadOf
<1>4. packet \in Packet /\ packet.type = "SET_SERVER"
  BY ClientPacketType, NetworkAssumption DEF IsUploadOf
<1>5. rules \in Rules /\ "Game name" \in UserKey /\ "Game name" \in RuleKey
  BY <1>4, UploadType DEF RuleKey, UserKey
<1>6. s \in Listed' /\ gameServerList'[s].serverRules["Game name"] = NameRule(name)["Game name"]
  <2>1. CASE s \in Listed /\ RefreshServer(s, rules)
    <3> DEFINE old == gameServerList[s].serverRules
    <3>1. gameServerList[s] \in Server /\ old \in Rules
      BY <2>1 DEF TypeOK, Server
    <3>2. old["Game name"] # NULL =>
            (old["Game name"].stringValue # NULL => old["Game name"].intValue = -1)
      BY <1>5, <2>1 DEF StringXorInt, Keys
    <3>3. /\ s \in Listed'
          /\ gameServerList'[s].serverRules = UpdateServer(old, rules)
      BY <2>1, <3>1 DEF RefreshServer, Listed, Server
    <3> HIDE DEF old
    <3>4. QED
      BY <1>2, <3>1, <3>2, <3>3, RefreshedName
  <2>2. CASE s \notin Listed /\ ListServer(s, NewServer(s, packet.from, rules))
    <3>1. /\ s \in Listed'
          /\ gameServerList'[s].serverRules = AddDefaultRulesToServer(rules, s)
      BY <2>2 DEF ListServer, NewServer, Listed
    <3>2. AddDefaultRulesToServer(rules, s)["Game name"] = rules["Game name"]
      BY <1>5, DefaultRulesType, GameServerType
    <3>3. rules["Game name"] = NameRule(name)["Game name"]
      BY <1>2, UploadedName
    <3>4. QED
      BY <3>1, <3>2, <3>3
  <2>3. QED
    BY <2>1, <2>2
<1> HIDE DEF s, rules
<1>7. QED
  BY <1>1, <1>3, <1>6 DEF IsHandled, NameRule

\* A packet that is handled while the process and the session of g live on.
LEMMA HandlePacketBelieves ==
  ASSUME TypeOK, StringXorInt, RegistryInv, HandlePacket, NEW g \in Host, Believed(g),
         UNCHANGED client, channel'[g] = channel[g], pc' # "down", g \notin banned', swept \subseteq swept'
  PROVE  Believed(g)'
<1> DEFINE packet == Head(incoming)
           s      == [ip |-> packet.from.ip, port |-> packet.port]
           asked  == packet.from.ip = g /\ packet.type # "RELAYED"
<1>1. incoming # <<>>
  BY DEF HandlePacket, HandleDelistServer, HandleUpdateServer, HandlePong,
         HandleRelayedConnectionNotification, HandleOtherPacket, BanFlooder, Receives
<1>2. incoming' = Tail(incoming)
  BY DEF HandlePacket, HandleDelistServer, HandleUpdateServer, RefreshServer, AddServer, Stop,
         HandlePong, HandleRelayedConnectionNotification, HandleOtherPacket, BanFlooder, Receives
<1>3. /\ packet \in ClientPackets \/ packet.type = "RELAYED"
      /\ 1 \in Pending(g) <=> asked
  BY <1>1, HeadRequest DEF RegistryInv
<1>4. packet \in ClientPackets => s = GameServer(packet.from.ip)
  BY ClientPacketType
<1>5. GameServer(g).ip = g /\ GameServer(g)' = GameServer(g)
  BY GameServerType DEF GameServer
<1> HIDE DEF packet
<1>6. /\ ~ asked /\ IsHandled(g) => IsHandled(g)'
      /\ asked /\ IsUploadOf(g, packet) => IsHandled(g)'
  <2>1. ASSUME \/ UNCHANGED gameServerList
               \/ /\ GameServer(g) \in Listed' <=> GameServer(g) \in Listed
                  /\ GameServer(g) \in Listed =>
                       gameServerList'[GameServer(g)] = gameServerList[GameServer(g)],
               IsHandled(g)
        PROVE  IsHandled(g)'
    BY <1>5, <2>1 DEF IsHandled, Listed, NameRule
  <2>2. CASE HandleDelistServer
    <3>1. packet.type = "DELIST_SERVER" /\ packet \in ClientPackets
      BY <1>3, <2>2 DEF HandleDelistServer, Receives, packet
    <3>2. \/ UNCHANGED gameServerList
          \/ gameServerList' = Restrict(gameServerList, Listed \ {s})
      BY <2>2 DEF HandleDelistServer, packet
    <3>3. ~ asked => s # GameServer(g)
      BY <1>4, <1>5, <3>1
    <3> HIDE DEF s
    <3>4. ~ asked /\ IsHandled(g) => IsHandled(g)'
      BY <2>1, <3>2, <3>3 DEF Restrict, Listed
    <3>5. QED
      BY <3>1, <3>4 DEF IsUploadOf
  <2>3. CASE HandleUpdateServer
    <3> DEFINE rules == DeserializeServer(packet.rules)
    <3>1. packet.type = "SET_SERVER" /\ packet \in ClientPackets
      BY <1>3, <2>3 DEF HandleUpdateServer, packet
    <3>2. \/ s \in Listed /\ RefreshServer(s, rules)
          \/ s \notin Listed /\ ListServer(s, NewServer(s, packet.from, rules))
      BY <2>3 DEF HandleUpdateServer, AddServer, Stop, packet
    <3>3. ~ asked => s # GameServer(g)
      BY <1>4, <1>5, <3>1
    <3>4. asked /\ IsUploadOf(g, packet) => IsHandled(g)'
      BY <1>4, <3>1, <3>2, UploadHandles DEF RegistryInv
    <3> HIDE DEF s, rules
    <3>5. ~ asked /\ IsHandled(g) => IsHandled(g)'
      BY <2>1, <3>2, <3>3 DEF RefreshServer, ListServer, Listed
    <3>6. QED
      BY <3>4, <3>5
  <2>4. CASE HandlePong
    BY <1>3, <2>4, ClientPacketType DEF HandlePong, Receives, packet
  <2>5. CASE HandleRelayedConnectionNotification
    BY <2>1, <2>5 DEF HandleRelayedConnectionNotification, Receives, packet
  <2>6. CASE HandleOtherPacket
    BY <1>3, <2>6, ClientPacketType DEF HandleOtherPacket, Receives, packet
  <2>7. CASE BanFlooder
    <3>1. /\ packet.from.ip # g
          /\ gameServerList' = Restrict(gameServerList, {t \in Listed : t.ip # packet.from.ip})
      BY <2>7 DEF BanFlooder, packet
    <3>2. ~ asked /\ IsHandled(g) => IsHandled(g)'
      BY <1>5, <2>1, <3>1 DEF Restrict, Listed
    <3>3. QED
      BY <3>1, <3>2
  <2>8. QED
    BY <2>2, <2>3, <2>4, <2>5, <2>6, <2>7 DEF HandlePacket
<1>7. QED
  BY <1>1, <1>2, <1>3, <1>6, PopBelieves DEF RegistryInv, packet

\* A sweep touches the rule SPing of the servers it leaves.
LEMMA PingedName ==
  ASSUME NEW server \in Server, NEW lastPing
  PROVE  Pinged(server, lastPing).serverRules["Game name"] = server.serverRules["Game name"]
<1>1. server.serverRules \in Rules
  BY DEF Server
<1>2. Pinged(server, lastPing).serverRules = UpdateServerRule(server.serverRules, "SPing", NULL, lastPing)
  BY DEF Pinged, Server
<1>3. QED
  BY <1>1, <1>2 DEF UpdateServerRule, Rules, RuleKey, UserKey

LEMMA SweepBelieves ==
  ASSUME TypeOK, PingSweep, NEW g \in Host, Believed(g), UNCHANGED client,
         channel'[g] = channel[g],
         swept' = swept \cup {h \in Host : pc = "sweep" /\ GameServer(h) \in Listed \ Listed'}
  PROVE  Believed(g)'
<1> DEFINE s == GameServer(g)
<1>1. PICK lastPing \in [PingDue \ Unanswered -> PingTime] :
        gameServerList' = [t \in Listed \ Unanswered |->
                             IF t \in PingDue
                             THEN Pinged(gameServerList[t], lastPing[t])
                             ELSE gameServerList[t]]
  BY DEF PingSweep
<1>2. /\ Listed' = Listed \ Unanswered /\ incoming' = incoming /\ pc = "sweep"
      /\ GameServer(g)' = s
  BY <1>1 DEF PingSweep, Listed, GameServer
<1>3. s \in Listed' => gameServerList'[s].serverRules["Game name"]
                         = gameServerList[s].serverRules["Game name"]
  <2>1. s \in Listed => gameServerList[s] \in Server
    BY DEF TypeOK
  <2>2. QED
    BY <1>1, <1>2, <2>1, PingedName
<1> HIDE DEF s
<1>4. IsHandled(g) => IsHandled(g)'
  BY <1>2, <1>3 DEF IsHandled, NameRule, s
<1>5. /\ Pending(g)' = Pending(g)
      /\ \A i : IsUploadOf(g, incoming[i]) => IsUploadOf(g, incoming[i])'
      /\ IsUploadOf(g, channel[g][Len(channel[g])])
           => IsUploadOf(g, channel[g][Len(channel[g])])'
  BY <1>2 DEF Pending, IsUploadOf, NameRule
<1>6. QED
  BY <1>4, <1>5 DEF Believed

LEMMA ServerStepKeepsInv ==
  ASSUME TypeOK, StringXorInt, RegistryInv, ServerStep
  PROVE  RegistryInv'
<1>1. /\ UNCHANGED client
      /\ channel' = [h \in Host |-> IF h \in session \ session' THEN <<>> ELSE channel[h]]
      /\ session' = IF pc' = "down" THEN {} ELSE session \ banned'
      /\ swept' = swept \cup {h \in Host : pc = "sweep" /\ GameServer(h) \in Listed \ Listed'}
  BY DEF ServerStep
<1>2. ClientsInv' /\ PacketsInv' /\ SessionsInv'
  <2>1. session \ session' \in SUBSET Host
    BY DEF RegistryInv, SessionsInv
  <2>2. PacketsInv'
    BY <1>1, <2>1, ServerStepQueue, QueueKeepsPackets DEF RegistryInv
  <2>3. QED
    BY <1>1, <2>2 DEF RegistryInv, ClientsInv, SessionsInv
<1>3. ASSUME NEW g \in session', IsConnected(g)', client'[g].serverListed
      PROVE  Believed(g)'
  <2>1. /\ g \in session /\ g \in Host /\ g \notin banned' /\ pc' # "down" /\ pc # "down"
        /\ Believed(g) /\ IsConnected(g) /\ channel'[g] = channel[g]
    BY <1>1, <1>3 DEF RegistryInv, SessionsInv, BeliefsInv, IsConnected
  <2>2. ~ Stop
    BY <2>1 DEF Stop
  <2>3. CASE HandlePacket
    BY <1>1, <2>1, <2>3, HandlePacketBelieves
  <2>4. CASE PingSweep
    BY <1>1, <2>1, <2>4, SweepBelieves
  <2>5. CASE UNCHANGED <<incoming, gameServerList>>
    BY <1>1, <2>1, <2>5, StillBelieves
  <2>6. CASE Start \/ PacketsDone \/ \E delay \in 0 .. MaxDelay : LoopStart(delay)
    BY <2>2, <2>5, <2>6 DEF Start, PacketsDone, LoopStart
  <2>7. CASE DatabaseFails
    BY <2>2, <2>7 DEF DatabaseFails, ExportFails, HandlerFails, FirstExportFails, SweepFails,
                      StatementFails
  <2>8. QED
    BY <2>3, <2>4, <2>6, <2>7 DEF ServerStep, Loop
<1>4. QED
  BY <1>2, <1>3 DEF RegistryInv, BeliefsInv, IsConnected

LEMMA PlayerAsksKeepsInv ==
  ASSUME RegistryInv, PlayerAsks
  PROVE  RegistryInv'
<1>1. PICK packet \in NetworkPacket : packet.type = "RELAYED" /\ NetworkDelivers(packet)
  BY DEF PlayerAsks
<1>2. /\ incoming' = Append(incoming, packet) /\ incoming \in Seq(NetworkPacket)
      /\ UNCHANGED <<pc, gameServerList, client, channel, session, swept>>
  BY <1>1 DEF PlayerAsks, clientVars, NetworkDelivers, RegistryInv, PacketsInv
<1>3. PacketsInv'
  <2>1. /\ DOMAIN incoming = 1 .. Len(incoming) /\ Len(incoming) \in Nat
        /\ DOMAIN incoming' = 1 .. Len(incoming) + 1 /\ incoming' \in Seq(NetworkPacket)
        /\ \A i \in 1 .. Len(incoming) : incoming'[i] = incoming[i]
        /\ incoming'[Len(incoming) + 1] = packet
    BY <1>2, AppendFacts
  <2>2. QED
    BY <1>1, <1>2, <2>1 DEF RegistryInv, PacketsInv
<1>4. ASSUME NEW g \in session, IsConnected(g), client[g].serverListed
      PROVE  Believed(g)'
  <2>1. Believed(g) /\ g \in Host
    BY <1>4 DEF RegistryInv, BeliefsInv, SessionsInv
  <2>2. QED
    BY <1>1, <1>2, <2>1, QueueingOthersBelieve
<1>5. QED
  BY <1>2, <1>3, <1>4 DEF RegistryInv, ClientsInv, SessionsInv, BeliefsInv, IsConnected
-----------------------------------------------------------------------------
(* Registry: theorems *)

LEMMA RegistryInvInit == RegistryInit => RegistryInv
<1> SUFFICES ASSUME RegistryInit
             PROVE  RegistryInv
  OBVIOUS
<1>1. /\ client = [h \in Host |-> [port |-> 0, connection |-> "none", listServer |-> FALSE,
                                  serverListed |-> FALSE, localServerModified |-> FALSE,
                                  name |-> NULL]]
      /\ channel = [h \in Host |-> <<>>] /\ session = {} /\ incoming = <<>>
  BY DEF RegistryInit, Init
<1>2. ClientsInv
  BY <1>1 DEF ClientsInv, Client
<1>3. PacketsInv
  <2>1. <<>> \in Seq(ClientPackets) /\ <<>> \in Seq(NetworkPacket) /\ DOMAIN <<>> = {}
    OBVIOUS
  <2>2. QED
    BY <1>1, <2>1 DEF PacketsInv
<1>4. SessionsInv /\ BeliefsInv
  BY <1>1 DEF SessionsInv, BeliefsInv
<1>5. QED
  BY <1>2, <1>3, <1>4 DEF RegistryInv

LEMMA RegistryInvNext ==
  ASSUME TypeOK, StringXorInt, RegistryInv, [RegistryNext]_allVars
  PROVE  RegistryInv'
<1>1. ASSUME NEW h \in Host, ClientStep(h)
      PROVE  RegistryInv'
  BY <1>1, ConnectKeepsInv, RequestListingKeepsInv, DelistServerKeepsInv, PostRuleKeepsInv,
     UpdateKeepsInv, DisconnectKeepsInv DEF ClientStep
<1>2. ASSUME NEW h \in Host, Connection(h)
      PROVE  RegistryInv'
  BY <1>2, AcceptKeepsInv, ClientLosesKeepsInv, ServerLosesKeepsInv, ArrivesKeepsInv
     DEF Connection
<1>3. CASE UNCHANGED allVars
  <2>1. ClientsInv' /\ PacketsInv' /\ SessionsInv'
    BY <1>3 DEF RegistryInv, ClientsInv, PacketsInv, SessionsInv, allVars, clientVars, vars
  <2>2. ASSUME NEW g \in session, IsConnected(g), client[g].serverListed
        PROVE  Believed(g)'
    BY <1>3, <2>2, StillBelieves
       DEF RegistryInv, BeliefsInv, SessionsInv, allVars, clientVars, vars
  <2>3. QED
    BY <1>3, <2>1, <2>2 DEF RegistryInv, BeliefsInv, IsConnected, allVars, clientVars
<1>4. QED
  BY <1>1, <1>2, <1>3, ServerStepKeepsInv, PlayerAsksKeepsInv DEF RegistryNext

\* In the registry the master server does nothing that it does not do alone:
\* all that arrives from its clients is a packet that hosts send.
LEMMA RegistryStepIsServerStep ==
  ASSUME RegistryInv, [RegistryNext]_allVars
  PROVE  [Next]_vars
<1>1. ASSUME NEW h \in Host, ClientStep(h)
      PROVE  UNCHANGED vars
  BY <1>1 DEF ClientStep, Connect, RequestListing, DelistServer, PostRule, Update, Disconnect
<1>2. ASSUME NEW h \in Host, Connection(h)
      PROVE  [Next]_vars
  <2>1. CASE Accept(h) \/ ClientLoses(h) \/ ServerLoses(h)
    BY <2>1 DEF Accept, ClientLoses, ServerLoses
  <2>2. CASE Arrives(h)
    <3>1. channel[h] \in Seq(ClientPackets) /\ channel[h] # <<>>
      BY <2>2 DEF Arrives, RegistryInv, PacketsInv
    <3>2. Head(channel[h]) \in NetworkPacket
      BY <3>1, TailFacts, ClientPacketType
    <3>3. QED
      BY <2>2, <3>2 DEF Arrives, Next
  <2>3. QED
    BY <1>2, <2>1, <2>2 DEF Connection
<1>3. CASE ServerStep
  BY <1>3 DEF ServerStep, Next
<1>4. CASE PlayerAsks
  BY <1>4 DEF PlayerAsks, Next
<1>5. CASE UNCHANGED allVars
  BY <1>5 DEF allVars
<1>6. QED
  BY <1>1, <1>2, <1>3, <1>4, <1>5 DEF RegistryNext

\* What holds of the registry in every state: its own invariant, and those of
\* the master server on which it rests.
LEMMA RegistryInvariant == RegistrySpec => [](TypeOK /\ RulesInv /\ RegistryInv)
<1>1. RegistryInit => TypeOK /\ RulesInv /\ RegistryInv
  BY TypeOKInit, RulesInvInit, RegistryInvInit DEF RegistryInit
<1>2. TypeOK /\ RulesInv /\ RegistryInv /\ [RegistryNext]_allVars
        => (TypeOK /\ RulesInv /\ RegistryInv)'
  <2>1. RulesInv => StringXorInt
    BY DEF RulesInv, SoundServer, SoundRules, StringXorInt
  <2>2. QED
    BY <2>1, RegistryInvNext, RegistryStepIsServerStep, TypeOKNext, RulesInvNext
<1>3. QED
  BY <1>1, <1>2, PTL DEF RegistrySpec

\* In the registry the master server does nothing that it does not do alone, so
\* whatever is proved of Spec holds there: clients reach it through its queue.
THEOREM RegistryRunsTheServer == RegistrySpec => Spec
<1>1. RegistryInit => Init
  BY DEF RegistryInit
<1>2. RegistryInv /\ [RegistryNext]_allVars => [Next]_vars
  BY RegistryStepIsServerStep
<1>3. QED
  BY <1>1, <1>2, RegistryInvariant, PTL DEF RegistrySpec, Spec

\* The upload that a client sent last is on its way to the list, has reached
\* it, or was dropped by a sweep: whatever was lost, delisted, banned or started
\* again before.
THEOREM UploadsDoArrive == RegistrySpec => []UploadsArrive
<1>1. RegistryInv => UploadsArrive
  <2> SUFFICES ASSUME RegistryInv, NEW h \in session, IsConnected(h), client[h].serverListed,
                      GameServer(h) \notin Listed, h \notin swept
               PROVE  \E p \in Waiting(h) \cup InTransit(h) : p.type = "SET_SERVER"
    BY DEF UploadsArrive
  <2>1. Believed(h) /\ h \in Host
    BY DEF RegistryInv, BeliefsInv, SessionsInv
  <2>2. CASE channel[h] # <<>>
    <3>1. Len(channel[h]) \in DOMAIN channel[h]
      <4>1. channel[h] \in Seq(ClientPackets)
        BY <2>1 DEF RegistryInv, PacketsInv
      <4>2. QED
        BY <2>2, <4>1, TailFacts
    <3>2. QED
      BY <2>1, <2>2, <3>1 DEF Believed, IsUploadOf, InTransit
  <2>3. CASE channel[h] = <<>>
    <3>1. PICK i \in Pending(h) : IsUploadOf(h, incoming[i])
      BY <2>1, <2>3 DEF Believed, IsHandled
    <3>2. QED
      BY <3>1 DEF Pending, IsUploadOf, Waiting
  <2>4. QED
    BY <2>2, <2>3
<1>2. QED
  BY <1>1, RegistryInvariant, PTL

\* When nothing of a client is under way any more, the list has the rule that
\* the client posted last.
THEOREM TheListingIsUpToDate == RegistrySpec => []ListingIsUpToDate
<1>1. RegistryInv => ListingIsUpToDate
  <2> SUFFICES ASSUME RegistryInv, NEW h \in session, IsConnected(h), client[h].serverListed,
                      ~ client[h].localServerModified, Waiting(h) \cup InTransit(h) = {},
                      GameServer(h) \in Listed
               PROVE  gameServerList[GameServer(h)].serverRules["Game name"]
                        = NameRule(client[h].name)["Game name"]
    BY DEF ListingIsUpToDate
  <2>1. Believed(h) /\ h \in Host
    BY DEF RegistryInv, BeliefsInv, SessionsInv
  <2>2. Pending(h) = {}
    BY DEF Pending, Waiting
  <2>3. channel[h] = <<>>
    <3> SUFFICES ASSUME channel[h] # <<>>
                 PROVE  FALSE
      OBVIOUS
    <3>1. channel[h] \in Seq(ClientPackets)
      BY <2>1 DEF RegistryInv, PacketsInv
    <3>2. 1 \in DOMAIN channel[h]
      BY <3>1, TailFacts
    <3>3. channel[h][1] \in InTransit(h)
      BY <3>2 DEF InTransit
    <3>4. QED
      BY <3>3
  <2>4. QED
    BY <2>1, <2>2, <2>3 DEF Believed, IsHandled
<1>2. QED
  BY <1>1, RegistryInvariant, PTL
=============================================================================
