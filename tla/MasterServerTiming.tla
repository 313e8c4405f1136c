------------------------- MODULE MasterServerTiming -------------------------
(***************************************************************************)
(* MasterServer with two stopwatches per server, which the code does not   *)
(* have: the ticks since the server was last heard of (it was listed, or   *)
(* its pong was handled), and since it was last pinged.  They run on the   *)
(* same clock as `time` but never wrap; they stop at their bounds.         *)
(***************************************************************************)
EXTENDS MasterServer

VARIABLES sinceHeard, sincePing

timingVars == <<sinceHeard, sincePing>>
timedVars  == <<vars, timingVars>>

\* "If we ping NUMBER_OF_MISSED_PINGS_TO_DROP without ever a response, that server is
\* dropped" (masterserver.h:21): how long that takes at KEEP_ALIVE_PING_FREQUENCY.  The
\* comment goes on: "This includes the last ping, so actually
\* NUMBER_OF_MISSED_PINGS_TO_DROP-1 would be truly missed" (:22, also MasterCommon.h:15).
\* That is not what the code does: the sweep drops a server when its next ping is due, a
\* whole period after the last one, which has then been missed like the others.
Patience == NUMBER_OF_MISSED_PINGS_TO_DROP * KEEP_ALIVE_PING_FREQUENCY

AtMost(n, bound) == IF n < bound THEN n ELSE bound

TimingInit ==
  /\ Init
  /\ sinceHeard = [s \in PlayerID |-> Patience]
  /\ sincePing  = [s \in PlayerID |-> KEEP_ALIVE_PING_FREQUENCY]

Ticks(delay) ==
  /\ sinceHeard' = [s \in PlayerID |-> AtMost(sinceHeard[s] + delay, Patience)]
  /\ sincePing'  = [s \in PlayerID |->
                      AtMost(sincePing[s] + delay, KEEP_ALIVE_PING_FREQUENCY)]

\* A server that has just been listed has not been pinged yet.
HearsFrom(servers) ==
  /\ sinceHeard' = [s \in PlayerID |-> IF s \in servers THEN 0 ELSE sinceHeard[s]]
  /\ sincePing'  = [s \in PlayerID |-> IF s \in Listed' \ Listed
                                       THEN KEEP_ALIVE_PING_FREQUENCY
                                       ELSE sincePing[s]]

PongedServers ==
  IF incoming # <<>> /\ Head(incoming).type = "PONG" /\ ~ pc' = "sweep"
  THEN {Head(incoming).from}
  ELSE {}

TimingNext ==
  \/ \E delay \in 0 .. MaxDelay : LoopStart(delay) /\ Ticks(delay)
  \/ HandlePacket /\ HearsFrom((Listed' \ Listed) \cup PongedServers)
  \/ /\ PingSweep
     /\ sincePing' = [s \in PlayerID |-> IF s \in PingDue \ Unanswered THEN 0 ELSE sincePing[s]]
     /\ UNCHANGED sinceHeard
  \/ /\ \/ Start \/ PacketsDone \/ DatabaseFails
        \/ \E packet \in NetworkPacket : NetworkDelivers(packet)
     /\ UNCHANGED timingVars

TimingSpec == TimingInit /\ [][TimingNext]_timedVars

\* A server that the sweep drops has been silent for NUMBER_OF_MISSED_PINGS_TO_DROP
\* whole ping periods, however late the loop runs and whenever its last pong came
\* (masterserver.cpp:183-203).  So as many pings were truly missed, and not one less, as
\* masterserver.h:22 has it.
DroppedOnlyAfterPatience ==
  [][ pc = "sweep" /\ pc' = "loop" =>
        \A s \in Listed \ Listed' : sinceHeard[s] >= Patience ]_timedVars

\* "KEEP_ALIVE_PING_FREQUENCY is how often to ping servers" (masterserver.h:24):
\* two pings of a server are a whole period apart.
PingedOncePerPeriod ==
  [][ \A s \in Listed \cap Listed' :
        gameServerList'[s].failedPingResponses > gameServerList[s].failedPingResponses
          => sincePing[s] >= KEEP_ALIVE_PING_FREQUENCY ]_timedVars
=============================================================================
