# OpenAnno 0.1 in TLA+

Specifications of the OpenAnno sources under `src/CPP_0_1`: the master server
that lists running games, its client, the connection between them, and the game's own
interface, map and settings. TLC checks the specifications on small instances. TLAPS proves
for every instance the safety of the master server, with its clock and with its clients, and
that it implements its abstract specification; that RakNet's ordered channel is one; and what
connections, the browser, the sort, dialogs and game states, the map and the settings promise.

## 1. The system

OpenAnno is two programs.

* **The master server** (`master-server/masterserver.cpp`, `mysqldb.cpp`,
  `main.cpp`). One thread runs `oaMasterServer::run`. It keeps `gameServerList`,
  answers the packets that RakNet's `RakPeer` queues, pings the listed servers
  every 20 s, and mirrors the list into the MySQL table `games`, which the web
  page `index.pl` prints. RakNet's own thread fills the queue.
* **The game** (`src/`). One thread runs `OpenAnno::run`: poll SDL events, hand
  them to the widget manager or the game state, draw. Dialogs, widgets, the map,
  resources and configuration are objects that call each other directly.
* Between them stands **the master client** (`MasterClient.cpp`,
  `MasterCommon.cpp`): a game server uses it to upload and withdraw its listing,
  a player uses it to query, sort and ping the listed servers.
* Below both is **RakNet** (`lib/raknet`, vendored): a peer per program, with a thread of
  its own that executes what the user's calls have queued, opens and ends connections,
  and runs a reliability layer for each.

| Component | State | Operations | Talks to | What is hard |
|---|---|---|---|---|
| Master server | `gameServerList`, table `games`, ban list, queue | `HandleUpdateServer`, `HandleDelistServer`, `HandlePong`, `HandleQuery`, `HandleRelayedConnectionNotification`, `HandleRegisterUser`, ping sweep, export | clients (packets), MySQL (statements) | two copies of the list under different keys, exceptions out of any statement, clock wrap, a busy queue |
| Master client | `listServer`, `serverListed`, `localServerModified`, `localServer`, `gameServerList` | `Connect`, `Disconnect`, `ListServer`, `DelistServer`, `PostRule`, `Update`, `HandleServerListResponse` | master server (packets) | lost connections, a master server that restarts or drops the listing |
| Server browser | `gameServerList`, `keyIndex` | `SortOnKey`, `PingServers` | user | a quicksort over servers that lack the key |
| RakNet peer | slots for remote systems, requests, queued commands, ban list | `Connect`, `CloseConnection`, `Send`, `RunUpdateCycle` | the user, other peers (datagrams) | connections that both ends see differently; slots given away and assigned again while commands and packets for them are under way |
| Reliability layer | resend queue, received numbers, ordering list, window | `Send`, `Update`, `HandleSocketReceiveFromConnectedPlayer` | its other end (datagrams) | lost, late and reordered datagrams; numbers that wrap; a window that throttles |
| Widget manager | widgets, focus, mouse owner, listeners | `registerWidget`, `handleSDLInput`, `updateFrametime` | widgets (callbacks) | listeners added and removed while an event is dispatched |
| Dialogs and game states | dialog stack, game state stack | `pushDialog`, `popDialog`, `pushGameState`, `requestExit` | widget manager, user | a command that arrives after its dialog was popped |
| Map and mini map | scroll position, zoom, direction, two drags | `scroll`, `jump`, `zoom`, `rotate`, clicks | mouse | offsets that must survive zooming and turning, division that truncates, which tile is where |
| Configuration, its dialog, audio, jukebox | options as text and in caches, widgets, volumes, song | `load`, `set`, `get`, `save`, `show`, Ok, Cancel, `update` | files, SDL_mixer | four copies of an option, previews that Cancel must take back, torn files |
| Resource manager | resources by name, reference counts | `get`, `freeResource`, `RefPtr` | everything that draws or plays | errors while a resource is loading |
| Entity manager | prototypes and instances | `getEntityByName` | scripts | |
| Scripting, video, sprites | Lua bindings, surfaces | registration, drawing | Lua, SDL, OpenGL | pure I/O |

What makes each one correct:

* *Master server*: the table never shows a server that is not listed; a server
  leaves only by its own request, with its host, after its missed pings or with
  the process; a silent server does leave; rules are a string or an integer; the
  default rules are never lost.
* *Master client*: while a game server wants to be listed, it is; what the
  client believes (`serverListed`) agrees with what the master server has;
  notifications reach the client that is connected now.
* *Browser*: sorting terminates and sorts.
* *Connections*: a user is told of each connection and of its end, every `Connect` is
  answered, no connection stays half open; ordered messages arrive once and in order.
* *Map*: the view stays on the map, what is drawn is the map, zooming and turning keep
  what they promise.
* *Settings*: what is heard is what the dialog shows, Ok keeps it, Cancel takes it back.
* *Widgets, dialogs*: an event reaches each listener registered before it once,
  no callback reaches a deleted object, the stack is never popped empty.

`PROJECT.json` lists every component with its status, and every hazard with its
line and the properties that cover it.

## 2. Modules

| Module | Models | Instance |
|---|---|---|
| `MasterServer` | `oaMasterServer::run`, its handlers and the table `games` | `MCMasterServer` |
| `ServerListing` | abstract: what the master server promises of its listing | |
| `MasterServerTiming` | extends `MasterServer` with two stopwatches per server | `MCMasterServerTiming` |
| `MasterRegistry` | extends `MasterServer` with the master clients and their connections | `MCMasterRegistry` |
| `ServerBrowser` | queries, replies, and the client that applies them | `MCServerBrowser` |
| `ServerListSort` | the quicksort over the browser's list | `MCServerListSort` |
| `ReliabilityLayer` | both ends of a connection's reliability layer and the datagrams between them | `MCReliabilityLayer` |
| `OrderedChannel` | abstract: what RELIABLE_ORDERED promises | |
| `Connection` | how RakNet peers make, keep and end connections | `MCConnection` |
| `Interface` | events, widgets, the stacks of dialogs and of game states | `MCInterface` |
| `MapView` | the view of the map and every input that changes it | |
| `MapDrawing` | extends `MapView` with what `Map::draw` puts where | `MCMapDrawing` |
| `Settings` | configuration, its dialog, the audio system and the jukebox over several processes | `MCSettings` |
| `MasterServerProofs` | theorems about `MasterServer`, `MasterServerTiming` and `MasterRegistry`, and that the first implements `ServerListing` | |
| `ReliabilityLayerProofs` | that `ReliabilityLayer` implements `OrderedChannel` | |
| `MapViewProofs` | theorems about `MapView` and `MapDrawing` | |
| `ServerBrowserProofs`, `ServerListSortProofs`, `ConnectionProofs`, `InterfaceProofs`, `SettingsProofs` | theorems about the modules they are named after | |

Operators preceded by a comment "Mutant" are plausible mistakes in the definition
that follows them; no specification uses them. With one of them in the place of its
definition, TLC reports a property violated that holds of the code: every property of a
passing run has such a mistake.

### MasterServer

State and code:

| Variable | Code |
|---|---|
| `pc` | the point of `run()` reached: `loop` (line 80), `packets` (104), `sweep` (180); `down` when no process runs |
| `gameServerList` | the list of the same name, keyed by `connectionIdentifier`, which the code searches before each insertion; `mySQLListID` grows with insertion, so it also says who comes first |
| `games`, `nextID` | the table and its auto-increment column |
| `time` | the local `time`, `RakNet::GetTime()` modulo `TimeRange` |
| `sinceExport` | ticks since `lastUpdate` |
| `banned`, `incoming` | RakPeer's ban list and packet queue |
| `sent` | the packet the last step gave to `Send` |

`LoopStart` is lines 80-102: the export of every listed server when the period is
over, and the new time. The packet loop takes one packet per step
(`HandleDelistServer`, `HandleUpdateServer`, `HandlePong`,
`HandleRelayedConnectionNotification`, `HandleOtherPacket`, or `BanFlooder` for a
sender over the flood limit, which may be any); `NetworkDelivers`, RakNet's thread,
interleaves with every step. `PingSweep` is lines 180-209.

The process ends in three ways, and each is part of the action in which it
happens: an upload that does not deserialize (a null pointer is dereferenced at
376), a string column that was posted as an integer (a null pointer assigned to a
`std::string` at 1011 or 1013), and a statement that fails (`DatabaseFails`: the
exception leaves `run`, the destructor clears the table unless that fails too).
After each, `Start` runs the next process over the table that was left.

Left out: what `HandleQuery` writes, `HandleRegisterUser` (a table of its own), the
bit stream (a packet is a record; what fails to deserialize is modelled), the byte
counts behind the flood check (any packet may be the one too many), and rule keys
other than the reserved and the exported ones.

Abstractions to know of: the ping value of a sweep is any member of `PingTime`; rule
strings are a few model values; addresses stand for their dotted form.

### ServerListing

`listed`, `shown` and `missed` with the six things that may happen to a server.
`MasterServer!Listing` instantiates it with `shown` as the listed servers whose row
exists and `missed` as `failedPingResponses`. `ImplementsListing` says that every
step of the loop is one of these or a stutter.

### MasterServerTiming

History variables: `sinceHeard` (ticks since the server was listed or its pong was
handled) and `sincePing`. They run with `time` but never wrap.

### MasterRegistry

Every step of `MasterServer` with the packets of the network replaced by a `channel`
per host: in order while the connection stands, lost with it. `client[h]` holds the
flags of `MasterClient`; the actions are its calls (`Connect`, `RequestListing`,
`DelistServer`, `PostRule`, `Update`, `Disconnect`) and what RakNet does to the
connection (`Accept`, `ClientLoses`, `ServerLoses`, `Arrives`). Either end may notice a
loss first (`ClientLoses`, `ServerLoses`), and what is under way is lost with the
session that ends. The history variable `swept` holds the servers that the sweep has dropped
since their last upload.

The callers obey the class's contract: `MasterClient.h:23` says when a connection must be
there. A new connection is accepted when the packets of the old one have been received
or lost.

### ServerBrowser

`HandleQuery` on the server, `HandleServerListResponse`, `UpdateServerList` and
`UpdateServer` on the client. The master server's list changes at any time (when it does
is the question of `MasterServer`). Replies are sent reliably but not in order. The bit
stream is abstracted to whether a server in it is complete: `HandleQuery` writes the
number of rules of every server, but the rules of the first only, because the query's
read pointer is reset once. With two servers the second then deserializes to a null
pointer, since nothing follows it. With three or more the client looks for the second's
rules in the bits of the third's address, and what it reads from there on is left open:
a null pointer, or any rules, and behind the second any address (`ReadAs`). The history
variable `misread` marks what the client shows of such a reply, and `NoRuleIsInvented`
says nothing of it until a reply to a query for everything has replaced it.
`lastUpdateTime` is abstracted to "in this millisecond or before".

### ServerListSort

`SortOnKey`, `QuickSort`, `Partition` and the comparisons. A step is a pass of
`Partition`'s loop; the recursion is a stack of intervals. `Sort` is weakly fair: it is
straight code of one thread. Left out: one server that holds a string where another
holds a number.

### ReliabilityLayer

`layer[p]` is p's `ReliabilityLayer` object, a record whose fields have the names of its
members; `network` holds the frames under way. `Send` is the call; `Update` is the whole
`Update` of a peer in a tick (acknowledgements, resends, new packets, window, dead
connection); `HandleSocketReceive` is `HandleSocketReceiveFromConnectedPlayer` with the insertion into
the holes of `receivedPackets` and the release of the ordering list; a frame may be lost,
may wait up to `FrameLife` ticks and overtakes others. Ages of packets and of the last
acknowledgement stand for times. `uptime` is the clock, which starts with the process:
the code compares with it where it subtracts `TIMEOUT_TIME`.

`OrderedChannel` is the promise. `ReliabilityLayer!Channel` instantiates it with `sent` as
the ordered messages given to `Send` and `delivered` as those that the user got, and
`ImplementsOrderedChannel` says that every step is one of its steps or a stutter.

Left out: split and sequenced packets, which this program's messages are not, and
statistics.

### Connection

| Variable | Code |
|---|---|
| `remoteSystem[p][q]` | p's `RemoteSystemStruct` for q: `connectMode`, `weInitiatedTheConnection`, and of its reliability layer the next number, what is unacknowledged and which numbers were taken |
| `late` | packets of a slot that was given away since, still under way |
| `offline` | OPEN_CONNECTION_REQUESTs and REPLYs |
| `requests`, `calling` | `requestedConnectionList`; the calls of `Connect` that have looked for a connection and not yet added a request |
| `commands` | `bufferedCommands` |
| `allowed`, `banned` | `maximumIncomingConnections`, `banList` |
| `known[p][q]` | history: what p's user was told last (or caused last) of its connection with q |

The user's calls run against the network thread at every point where they give up what
they have read: `Connect` looks for a connection (2225) and adds the request later (2238);
`CloseConnection` and `Send` queue a command. One pass of `RunUpdateCycle` is split at its
parts, which do not depend on each other's order: `Execute` (a command),
`SendRequest`, `SendKeepAlive` and `Fail` (a slot), and a `Handle...` action per kind of
packet, which is taken with everything that it does to the slot and to the user's queue.
A packet comes in any order, any number of times, and its acknowledgement may be lost.

The users keep to a contract: `CloseConnection` is called for a peer that the user was told
to be connected, as `masterserver.cpp:116` does with the sender of a packet, and `Connect`
for a peer with which nothing is under way. Calls of `Connect` go one way (`Targets`), as in
this program.

Left out: encryption, pings, static data, RPC, peers of another protocol.

### Interface

The record `ui` is the state that nested calls share; each method of the code that
changes it is an operator from record to record, and an event of SDL is one action:

| In the record | Code |
|---|---|
| `dialogStack`, `enabled` | `StartScreen::m_dialogStack`, `m_isEnabled` |
| `gameStates`, `keepRunning` | `OpenAnno::m_gameStateStack`, `keepRunning` |
| `live`, `visible`, `items` | the games that exist, whose `m_isVisible` is set, which menu items are enabled |
| `keyListeners` | the listeners of `EventKey`, with their `remove` marks |
| `mouse`, `hovered`, `captured` | `m_mouseX/Y`, `m_hoveredWidget`, `m_mouseCaper` |
| `crashed` | a deleted object was called, or an empty stack popped |

`EscapeUp` applies `KeyPress` to the listeners from the first to the last, as `sendEvent`
walks its list: a mark that one handler sets counts for the next. `Frame` erases the marked ones; any number of
events comes before it. `MouseButtonUp` gives the command to the focused button under
the mouse, shown or not, as `EventMouseClick::shouldBeSendTo` does.

Left out: what dialogs show and edit, drawing, tooltips, typing, the game's own widgets,
a resize (places do not move), and an empty list of missions.

### MapView and MapDrawing

`view` is the record of `m_direction`, `m_zoom` and the two scroll offsets; `shifting`,
`dragging`, `mouse`, `pressed` and `focused` are what decides which widget gets the next
mouse event. Each method of `Map` that changes the view is an operator from view to view
(`Scroll`, `Jump`, `Zoomed`, `TurnedRight`, ...), with the truncating division of the
language. An input of SDL and a frame of `Ingame::update` are an action each. A frame
scrolls by `scrollSpeed` times the distance that the mouse has come into the `Tolerance`
(25 pixels) along an edge, where the mini map and the buttons may be too. Its early return,
for a completed mission, is never taken: `Mission::objectCompleted` returns false. The speed
is an integer here, a float in the code.

`MapDrawing` gives the first tile of each line and where it is put, as `Map::draw` computes
them, and `PictureIsTheMap` compares every tile on the screen with the definition of the
projection. What a tile looks like, animation and islands are left out.

### Settings

An option is text in `doc` (the document) and in `file`, a value per type in `cache`, and
what a widget says in `shown`; `volume`, `active`, `video` and `music` are what it controls.
`Start` is the startup of `openanno.cpp` over the file that is there; `Open`, the changes of
each widget, `Ok`, `Cancel`, `Escape` are the dialog; `Update` is the jukebox's turn with one
song of its directory; the process may end between any two steps. A save that is broken
off leaves the elements up to some place, or less than the root's tag. TinyXML keeps the text
of an element that is cut, so that a process may start with the resolution 64 by 0, or with one
and no depth, with half a name or a volume of 0.5 for 0.53: each member of `Tears` is such a
place, with the options that are whole there and what is read of those that are cut
(resolution and depth, which stand apart in the file, are cut apart). Rounding is modelled by
what the float expressions give: `Rounded` holds the percentages that lose one.

A save that the disk has no room for leaves such a file too; the process goes on and does not
look at the file again, so that its end may as well come at once (`OkIsTorn`). A save that
cannot open the file hands a null pointer to `PHYSFS_write`: the process ends with the file as
it was, as in `Stop`.

Left out: player names but one, a part of it and the empty one; a video mode that SDL refuses.

## 3. Runs

| Run | Configuration | Question | Result |
|---|---|---|---|
| `list` | three servers on two hosts, one uploaded with rules of every kind, no wrap, 2 missed pings | does a row ever outlive its server, or go without one? Do rules stay a string or an integer, do default rules survive? Does the loop implement the abstract listing? | holds |
| `silent` | two servers, clock wraps after 3 ticks, fairness | does a silent server leave the list? | holds, 29 k states |
| `patience` | two servers, no wrap, period 2 | is a server dropped only after its whole patience, pinged once per period? | holds, 0.56 M states |
| `uploads` | one host with a client, a player that asks for it, the whole loop | is what the client believes to be listed listed, with the rules it posted? | holds, 1.14 M states |
| `sort` | all lists of 4 servers, values 1..4 or none | does sorting lose nothing, stay in the array and, where no rule is missing, sort? | holds, 93 k states |
| `browser` | three servers, one rule, three changes, two replies under way | does a full reply make the list what it says, and is no rule invented but in what may be misread? | holds, 0.31 M states |
| `delivery` | three messages of both priorities, two of them ordered, frames lost, late and reordered | do ordered messages arrive as the channel promises; is a packet acknowledged only if it was taken; is everything acknowledged or the connection given up? | holds, 0.35 M states |
| `connection` | the master server and a client, three calls or restarts | is a user told of every connection and of its end; is every `Connect` answered; does a half-open connection end? | holds, 0.12 M states |
| `dialogs` | seven dialogs with overlapping buttons, two addresses for games | see the properties of `Interface` | holds, 34 k states |
| `map` | 4 by 7 tiles, every offset, two zooms, four directions, all inputs | does the view stay on the map, is what is drawn the map, do drags end, is turning undone by turning back, does zooming keep the centre? | holds, 0.30 M states |
| `settings` | three processes, two changes, a user's file without one option, saves cut in four places | does the dialog show what is heard; do Ok, Cancel and escape do what they say; do caches follow the document; does music play, and only when it should? | holds, 0.29 M states |
| `active` | as `uploads` | is the server of a connected client kept? | **violated** |

Bounds. Two hosts and three servers are what it takes for a row, its owner, another
server of the same host and one of another host. Two missed pings separate the first,
the last and the one too many. `Horizon` lets several export periods and a complete
drop happen; where the clock must wrap it does not bound anything, because it is
larger than `TimeRange`. `MaxQueue` is the packets waiting at once: one is enough
where handlers are independent, two where a packet queued before a ban matters.
`MaxID` bounds the uploads of unlisted servers, in `NetworkDelivers`, so that the
server's own steps are never disabled by a bound. `MaxChannel = 2` has an upload and the
delisting that follows it under way together. Four servers give `Partition` intervals of
every length down to one on both sides. `MaxReplies = 2` is what it takes to overtake;
`MaxQuery`, `MaxQueries` bound the query and the queries under way; the servers are
symmetric there. Its `MaxChanges = 3` lists three servers, the number from which the
client may misread a reply, or lists, changes and delists fewer. `MaxListeners = 4` has two deleted games whose listeners are still in
the list beside that of a third, which uses the address of one of them.

`delivery`: three messages fill two frames, so that a frame can be full, an ordered message
can overtake another of lower priority, and a resend can meet a first transmission. The
window (3, at most 4) is met but never widened; with a window of 2 it is, and the run
passes too, in 153 k states. A packet is due again after 1 tick, a connection dies after 2.
Numbers do not wrap: their range only has to exceed what can be under way.

`connection`: three calls or restarts are a `Connect`, what ends the connection, and a
second `Connect`, with `MaxLate = 2` packets of the first one under way. A request is sent
once (`MaxRequests = 1`; the others are the same datagram). `ListSize = 2` leaves room.

`map`: a map of other width than height, a screen of about half of it; offsets are in units
of 16 pixels, so that all of them are reached. Six points are one in each widget and a second
in the mini map, of which one is also near an edge, one at an edge and one in a corner; the two
scroll speeds give frames that scroll by 0, 1 and 2. `ShippedMapsAreRotatable` evaluates the assumption about divisors for the
maps in `xml/missions` on the usual screens.

`settings`: two changes are one before and one after a Cancel or an escape; three processes
are the one that saves, one over a torn file, and one after that. The four places where a save
is cut are in the width, in the name, in a volume and in the renderer: the first leaves no
resolution, the next two leave one without a depth. Of the volumes one is
rounded and one is not.

`dialogs` does not check deadlock: the program stops when `keepRunning` is false.
`connection` does not: when the users make no more calls nothing need happen. `settings`
does not: after the last process nothing happens.

Fairness (`FairSpec`). The loop's steps are weakly fair, because the thread sleeps
50 us and goes on; `Start` is, because the service is started again; `LoopStart` with
a positive delay is strongly fair, because time advances though not on every turn.
`PacketsDone` is strongly fair, which is an assumption about the network: `while
(packet)` has no other end than an empty queue. No packet is fair.

In `ReliabilityLayer` time goes on and the `Update` of a living peer runs in every tick,
because its thread sleeps a little and goes on; nothing need arrive. In `Connection` the network thread's
turn is weakly fair for each peer, and its work on each slot; again nothing need arrive, and
that is why `AcknowledgedOrDead`, `ConnectsAreAnswered` and `HalfOpenEnds` are about timeouts.
In `Settings` each song is strongly fair in the jukebox's turn: `rand()` picks every song
again and again.

Disagreement between code and documentation:

* `active`: the sweep pings the game port with a call that reaches connected peers only,
  and the connected peer is the master client on another port. No pong ever comes, and
  every server is dropped.
* `patience`, by what it shows to hold: a server is dropped after
  `NUMBER_OF_MISSED_PINGS_TO_DROP` pings that were truly missed, each for a whole period
  (`DroppedOnlyAfterPatience`), because the sweep drops it only when the ping after the last
  is due (`masterserver.cpp:183-185`). `masterserver.h:22` and `MasterCommon.h:15` say "This
  includes the last ping, so actually NUMBER_OF_MISSED_PINGS_TO_DROP-1 would be truly
  missed", which would be one period less. The first half of that comment (`:21`) is right.
* `settings`, in the same way: with `<sound>1</sound>` the audio system is on and music plays
  (`MusicPlays`; `openanno.cpp:223`, `:264`, and the box "Enable Sound" at
  `configdialog.cpp:73`). The shipped file says below that line "set this to 1 to deactivate the
  sound" (`data/xml/config.xml:13`), which is the reverse.

Met while modelling, with no run of their own. Master server and client:

* `HandleDelistServer` deletes all rows of the address, so another server on that host
  stays listed and vanishes from the web page.
* Near the wrap of the millisecond clock `nextPingTime` is small, the sweep pings on
  every turn and drops the server within turns (`PingedOncePerPeriod` with
  `TimeRange = 8`).
* A second `Connect` clears `serverListed`, so a `DelistServer` after it sends nothing.
* A server's `originationId` keeps the port of its first upload after the client has
  connected again from another one.
* Sorting down, the right scan is bounded by 0 and not by the interval; with servers that
  lack the rule `QuickSort` calls itself with the same interval for ever.
* The reply to a query for a rule lacks the rules of all servers but the first, and the
  client dereferences a null pointer; with three servers that have the rule it may take the
  bits of the next server's address for rules.
* Two replies within a millisecond: a server that the second lacks stays in the list.

RakNet:

* Holes at the head of a throttled resend queue are not removed, so a connection whose
  packets are all acknowledged can die (`ReliabilityLayer.cpp:1202`).
* With no hole before it, a packet that was received already is taken again (`:415`); an
  ordered one stays in the list and is delivered when its index comes round.
* In the first `TIMEOUT_TIME` of a process `IsExpiredTime` wraps, and a packet that comes
  late is acknowledged and dropped (`:2726`). The same happens later to a packet that waits for
  `TIMEOUT_TIME` behind later ones of a higher priority (`:472`).
* A `CloseConnection` whose connection fails before it is executed makes a slot that answers
  an earlier request a second time; the peer drops its connection and does not tell its user
  (`RakPeer.cpp:4386`; `EndsAreTold` names the case).
* Two peers that call `Connect` at once, and two overlapping calls for one peer, swallow
  replies that are then never given (the comment at `:4020` says otherwise).
* The ten seconds of `DISCONNECT_ASAP` count from the assignment of the slot (`:3843`): on an
  older connection the notification is sent at most once.
* `AllowIncomingConnections` counts connected slots only, so that two requests handled
  together may exceed the maximum.
* A late packet of an earlier connection at a new slot bans its host (`:4010`).

Interface, map and settings:

* Escape between press and release of "Back" closes the dialog, and the release closes
  the menu under it: nothing is shown then.
* The buttons of the login and the register dialog reach no handler.
* With a negative horizontal offset the picture is displaced by one tile; zooming sets
  negative offsets to 0; turning a view that had to be clamped is not undone by turning back;
  maps of some other sizes divide by zero.
* Escape keeps what was tried. The name and gamma widgets survive Cancel and are saved by a
  later Ok. The box for the frame rate starts checked whatever the option says
  (`configdialog.cpp:56`). The float of `scroll_speed` is stale until the next start
  (`ingame.cpp:86`), and the shipped 15 becomes 10 by the slider's maximum. Volumes of 53 and
  59 lose one at every start and Ok.
* A saved empty player name makes `getString` dereference a null pointer at the next starts
  (`configuration.cpp:68`). Options that a torn save has lost are never written again; a
  file without a root ends the process at the next `set` (`:123`). The result of `reinit` is
  not looked at (`configdialog.cpp:202`).

## 4. Proofs

The theorems hold for all constants that satisfy the named assumptions of the modules; TLC
evaluates each assumption for the instances of section 3. Where a property is not inductive,
the strengthening is in the proof module, under "The inductive invariant".

`MasterServerProofs` assumes `ConstantsAssumption`, `NetworkAssumption` (a rule off the wire
is a string or an integer, as `DeserializeRule` builds it) and `NullAssumption`:

* `TypeCorrect`: `Spec => []TypeOK`. It is more than typing: a row's columns are
  never null because an export ends at the first server that would put one there.
* `RowsBelong`: `RowsBelongToListedServers`, inductive given `TypeOK`. The argument is
  `RowsOfOtherHosts`: whatever leaves the list takes all rows of its host, so the
  owner of a row that stays is on another host and stays too.
* `RowsGo`: the action property `RowsGoWithServers`, from both invariants.
* `RulesCorrect`: `StringXorInt` and `DefaultRulesAreKept`, by `RulesInv`. Neither is
  inductive alone: `HandlePong` sets the integer of the rule `Ping`, so that rule
  must be there and hold no string, and `UpdateServerRule` keeps the integer beside
  a replaced string, so that integer must be -1.
* `DefaultRulesStay`: the second of them by itself.
* `TheListingIsImplemented`: the refinement `ImplementsListing`. Each step of the program, with
  failing statements and restarts, is a step of `ServerListing` or a stutter. The table is
  keyed by host and the list by address and port; what the proof needs is that the two meet in
  `mySQLListID`. `IDsInv` says that no two listed servers have the same one, that none is that
  of a row to come, and that nothing is listed while no process runs. With
  `RowsBelongToListedServers` the row of a server is then a row of its host, so that
  `deleteByIP` takes it along.

Of `MasterServerTiming` it proves `PingsArePeriodsApart` (`PingedOncePerPeriod`) and
`NobodyIsDroppedEarly` (`DroppedOnlyAfterPatience`). Both have the hypothesis
`ClockDoesNotWrap`: within the horizon the clock is more than a period below its range, as it
is for 49 days after a start; without it the first is false (section 3). `TimingInv` relates
each stopwatch to what the server keeps in its place: `PeriodInv`, the time since the last ping
to `nextPingTime`; `SilenceInv`, the time since a pong to the number of missed pings, each of
which is a period of silence, less what is left of the present one.

Of `MasterRegistry` it proves, under `ClientPacketsAssumption`
(what a client sends is among the packets that the server is specified for),
`RegistryRunsTheServer`: `RegistrySpec => Spec`, so that all theorems above hold of it; then
`UploadsDoArrive` (`UploadsArrive`) and `TheListingIsUpToDate` (`ListingIsUpToDate`). The
invariant behind both is `Believed`, for a host that both ends think connected and whose client
thinks it is listed: with packets of it under way, in its channel or in the server's queue, the
last is an upload that says what the client says; with none, the list says it, or the sweep has
dropped the server. It holds only of sessions that both ends have, because what a lost
connection takes along is whatever was last.

`ServerBrowserProofs` proves, under `BrowserAssumption`, `BrowserIsSound`, `NothingIsInvented`
(`NoRuleIsInvented`) and `FullQueriesShowTheList` (`FullQueryShowsTheList`), for any servers, rules,
queries and replies; where three or more servers have a rule that is asked for, also for
whatever the client may read behind the first of them. Neither property says anything of what is still under way, so `BrowserInv`
does: every reply has only rules that its servers were listed with, where the client does not
misread it, and a reply to a query for
everything has whole servers, each once (`IsFull`), because the master server's list has each once. The
second property is then an argument about the loop over such a reply (`FilledTo`): no server in it is
null, so that the client does not crash; after the n-th the client has the first n as the reply
has them and the others as before; in the end the outdated servers are those that the reply
lacks. That no server is of the present millisecond beforehand is a hypothesis of the
property, since the code keeps what an earlier reply of the same millisecond has brought.

`ServerListSortProofs` proves, under `SortAssumption` (the list is finite, values are
integers), `EveryServerStays` (`NoServerIsLost`) and `SortStaysInBounds` (`IndicesInBounds`),
both by `SortInv`. Nothing in it is about order, because with servers that lack the rule
the comparisons are no order: a scan is in the array because it carries a bound of its own.
QuickSort's arguments may be one place beyond either end, where it does nothing.
`TheSortSorts` (`Sorted`) is about lists in which no server lacks the rule. `KeyInv` says that
two servers are in order unless both are in one interval that is on the stack, that those
intervals do not overlap, and on which side of the pivot each place is that a scan has passed.
An interval whose two ends have met has one server, and with an empty stack all are in order.

`ConnectionProofs` proves, under `ConnectionConstants` (`Targets` goes one way),
`ConnectionsAreKnown` (`UserKnowsConnections`) and `EveryEndIsTold` (`EndsAreTold`), for any
number of peers, calls, restarts and late packets. The first is not inductive: that a user
was told of its connection says nothing of what may still come. `ConnectionInv` adds that a
request is the first packet of its connection, and that a peer which has handled a
connection that it did not make has taken that packet, so that no second copy of the
request can take the connection away silently. `CallsInv` adds that requests are made along
`Targets` only and by users who know of no connection: a request that fails is reported
unconditionally, and reaches only a user who waits for it.

`InterfaceProofs` proves, for any dialogs, buttons, places and games under
`InterfaceConstants` and `NamesAssumption` (dialogs, games, buttons and the start screen are
different things), `NothingEverCrashes`, `GameStatesStaySound`, `TheTopDialogIsShown`,
`TheHoveredButtonIsShown` and the action property `EscapeClosesOne`. The five go by one
invariant, since each needs the others: a button pops its dialog without asking
whether there is one, which is right only while the focus that a click took cannot outlive the last
dialog (`FocusInv`); it took it from what the mouse was over, which is shown (`HoverInv`), and
is in the top dialog (`DialogsInv`). A key reaches the listeners of deleted games, which are
marked but still there, so `ListenersInv` says that the one unmarked listener of a game is
that of the game which lives. A walk over the listeners and the closing of all dialogs
are recursive functions of the state; `Upwards`, an induction by the least counterexample,
gives what they keep for a list of any length.

`MapViewProofs` proves, under `ViewConstants`, `RotatableMap` (no division by zero, which
`ShippedMapsAreRotatable` evaluates for the maps in the repository) and `ImageAssumption`, for
maps, screens and tiles of every size:

* `TheViewStays` (`ViewStaysOnMap`) and `EveryDragEnds` (`DragsEnd`), by `ViewInv`.
* `ZoomingIsCentred` (`ZoomKeepsCentre`): two quotients that truncate, of doubled and halved
  sizes, differ by less than a pixel.
* `RotatingBackUndoes` (`RotationIsUndone`), where the property's `Slack` is what a scaling to a
  shorter range cannot tell apart; also for ranges that are negative because the
  map is smaller than the screen.
* `TheMapIsDrawn` (`PictureIsTheMap`). The four cases that `Map::draw` tells apart for its first
  line each put a tile beyond the corner of the screen (`Corner`), and lines alternate between
  two kinds of columns; from there the k-th line and column are where the projection has them.

There is one lemma per method of `Map`; those about products and quotients carry the arithmetic.

`ReliabilityLayerProofs` proves `ThePromiseIsKept` (`ImplementsOrderedChannel`) under
`LayerConstants`, `TwoEnds` and `MessagesAssumption`, for any messages, frame size, window and
delays, with the hypothesis `FewMessages`: each peer sends fewer ordered messages than there are
ordering indices (256). Without it the code does not keep the promise: a packet that is
taken twice (section 3) is delivered when its index comes round. With it an index stands for one
message, and the invariant `DeliveryInv` (`LayersAreSound`) says that every packet, in the
sender's queues, in a frame or in the receiver's ordering list, is made of a message that was
sent and carries its place in the order (`MadeOf`), and that what was delivered is as long a
beginning of the ordered messages as `orderedReadIndex` says (`Reads`). So nothing depends on
what the log of received packets takes for a duplicate, nor on ages, windows and holes, which need no
more than their types. The loops of `Update`, `GenerateFrame` and
`HandleSocketReceiveFromConnectedPlayer` are recursive functions; `StepByStep` and `EndsIn` say of
any such function that it has what its first value has and no step loses.

`SettingsProofs` proves, under `SettingsConstants`, `FilesAssumption` (no text means "none", and
every file gives an option a value of its type or none) and for any values, songs and files,
`TheDialogTellsWhatIsHeard` (`DialogShowsTheAudio`), `TheCachesAreTrue`
(`CachesFollowDocument`), `OffIsSilent` (`SilentWhenOff`), `OkWritesWhatIsShown` (`OkIsKept`) and
`CancelTakesAllBack` (`CancelRestores`). `SettingsInv` adds to the invariants what each
copy of an option is at which time (`AudioInv`, `ModeInv`): what `show()` noted is the option's
value only as long as the dialog is there, and the box for the frame rate is the one widget
that sets its option before Ok. The last theorem needs `OpenedInv`, about the values the
dialog was opened with.

Only model-checked:

* liveness (`ConnectsAreAnswered`, `HalfOpenEnds`, `AcknowledgedOrDead`, that a silent server
  leaves, that sorting ends, that music plays), which is outside of what the prover does;
* `ReliableUntilTimeout` of `ReliabilityLayer`, which is not a theorem: besides the wrap in
  `IsExpiredTime` (section 3) it fails where a packet of medium priority waits in its queue while
  later ones of high priority are sent for `TIMEOUT_TIME`, because then the hole that stands
  for it expires before it is sent, and it is acknowledged and dropped. With a window and a frame of one
  packet, a timeout of one tick and two messages of high priority behind the first TLC finds it; the
  run's three messages all fit into the window.

## 5. Plan

Each module is parameterised by constants with named assumptions, and free of RECURSIVE
where theorems are planned. Done: the master server with its listing and timing, the master
client, the connection and the reliability layer below it, events, dialogs and game states,
the map, and the settings; the theorems of section 4. Next, in this order:

1. `ReliableUntilTimeout` for messages of one priority, whose numbers are in the order they
   are sent in: by what the two ends' numbers and holes say of each other.
2. The run of `PingedOncePerPeriod` over a clock that wraps.

### Not modelled

* *Vendored code*: of the 99 500 lines under `src/`, most are RakNet's other plugins
  (replication, RPC, file transfer, big integers, cryptography), Lua and TinyXML. The
  program uses of them a connection, a script at start and a document, and the models say
  what they do to it. To translate more of their lines would say nothing about OpenAnno.
* *Resource manager*: one thread; a count that `RefPtr` raises and lowers by itself. A model
  would restate it. Its error paths do go wrong: a resource whose `load` throws is
  never deleted, and the destructor erases from the map that it walks
  (`resourceManager.cpp:109`).
* *Entity manager*: no entity is ever created; the one look-up, for a script, finds nothing.
* *Value widgets* outside the configuration dialog: positions of text and scroll bars, whose
  correctness is what is seen.
* *Scripting, video, fonts, sprites, the web page*: registration tables and drawing.
* *The master server's table of users*: one statement, whose failure is that of any other.
