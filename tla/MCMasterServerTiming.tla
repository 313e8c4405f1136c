------------------------ MODULE MCMasterServerTiming ------------------------
(* Instances of MasterServerTiming for TLC. *)
EXTENDS MasterServerTiming

CONSTANTS a, b

NotConnected == {-1}
Id(host, number) == [ip |-> host, port |-> number]

\* Two servers on two hosts that are listed, delisted and answer pings.
TwoServers ==
  UNION {{[type |-> "SET_SERVER", from |-> Id(h, 9), port |-> 1,
           rules |-> [k \in RuleKey |-> NULL]],
          [type |-> "DELIST_SERVER", from |-> Id(h, 9), port |-> 1],
          [type |-> "PONG", from |-> Id(h, 1), pingTime |-> 50]} : h \in {a, b}}
=============================================================================
