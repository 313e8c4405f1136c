--------------------------- MODULE MCMasterServer ---------------------------
(* Instances of MasterServer for TLC: what the hosts of the runs send. *)
EXTENDS MasterServer

CONSTANTS a, b, named

Id(host, number) == [ip |-> host, port |-> number]

NotConnected == {-1}

NoRules  == [k \in RuleKey |-> NULL]
OneName  == [NoRules EXCEPT !["Game name"] = [stringValue |-> named, intValue |-> -1]]
IntName  == [NoRules EXCEPT !["Game name"] = [stringValue |-> NULL, intValue |-> 7]]
NoName   == [NoRules EXCEPT !["Game name"] = [stringValue |-> "", intValue |-> -1]]
PingRule == [NoRules EXCEPT !["SPing"] = [stringValue |-> named, intValue |-> -1],
                            !["Ping"]  = [stringValue |-> NULL, intValue |-> 1]]

Set(host, number, rules) ==
  [type |-> "SET_SERVER", from |-> Id(host, 9), port |-> number, rules |-> rules]
Delist(host, number) ==
  [type |-> "DELIST_SERVER", from |-> Id(host, 9), port |-> number]
Pong(host, number) == [type |-> "PONG", from |-> Id(host, number), pingTime |-> 50]
Relayed(host, target) ==
  [type |-> "RELAYED", from |-> Id(host, 9), port |-> 1, target |-> target]
Other(host) == [type |-> "OTHER", from |-> Id(host, 9)]

\* Two servers on one host and one on another, that come, go and answer; one of them
\* is uploaded with every kind of rule.
ThreeServers ==
  {Set(a, 1, OneName), Set(a, 1, IntName), Set(a, 1, NoName), Set(a, 1, PingRule),
   Set(a, 1, NoRules), Set(a, 2, NoRules), Set(b, 1, NoRules),
   Delist(a, 1), Delist(b, 1), Pong(a, 1), Relayed(b, Id(a, 1)), Other(b)}

\* Two servers on two hosts, one of which answers pings.
TwoServers == {Set(a, 1, NoRules), Set(b, 1, NoRules), Pong(b, 1)}
=============================================================================
