---------------------------- MODULE ServerListing ----------------------------
(***************************************************************************)
(* What the master server promises its users, with the clock, the packets, *)
(* the rules and the loop left out: which game servers are listed, which   *)
(* of them the database shows, and how often each has been checked without *)
(* an answer.  A server comes in by its own upload, and leaves by its own  *)
(* request, with its whole host, after MaxMissed unanswered checks, or     *)
(* when the master server starts over.  The database never shows a server  *)
(* that is not listed; it may show fewer, because rows go by host.         *)
(***************************************************************************)
EXTENDS Naturals

CONSTANTS Host, Number, MaxMissed

Id == [ip : Host, port : Number]

VARIABLES
  listed,  \* the servers a query returns
  shown,   \* the servers with a row in the database
  missed   \* unanswered checks of each server, 0 for those not listed

vars == <<listed, shown, missed>>

OnHosts(hosts) == {s \in Id : s.ip \in hosts}

Init == listed = {} /\ shown = {} /\ missed = [s \in Id |-> 0]

Leave(leaving, hosts) ==
  /\ listed' = listed \ leaving
  /\ shown'  = shown \ OnHosts(hosts)
  /\ missed' = [s \in Id |-> IF s \in leaving THEN 0 ELSE missed[s]]

Enlist(s) ==
  /\ s \notin listed
  /\ listed' = listed \cup {s}
  /\ shown'  = shown \cup {s}
  /\ UNCHANGED missed

Delist(s) ==
  /\ s \in listed
  /\ Leave({s}, {s.ip})

ExpelHost(host) == Leave(OnHosts({host}), {host})

Answer(s) ==
  /\ s \in listed
  /\ missed' = [missed EXCEPT ![s] = 0]
  /\ UNCHANGED <<listed, shown>>

\* One round of checks: some are checked once more, of those that have missed
\* MaxMissed checks some are dropped.
Check(checked, dropped) ==
  /\ checked \subseteq {s \in listed : missed[s] < MaxMissed}
  /\ dropped \subseteq {s \in listed : missed[s] = MaxMissed}
  /\ listed' = listed \ dropped
  /\ shown'  = shown \ OnHosts({s.ip : s \in dropped})
  /\ missed' = [s \in Id |-> IF s \in dropped THEN 0
                             ELSE IF s \in checked THEN missed[s] + 1
                             ELSE missed[s]]

StartOver ==
  /\ listed' = {}
  /\ shown'  = {}
  /\ missed' = [s \in Id |-> 0]

Next ==
  \/ \E s \in Id : Enlist(s) \/ Delist(s) \/ Answer(s)
  \/ \E host \in Host : ExpelHost(host)
  \/ \E checked, dropped \in SUBSET listed : Check(checked, dropped)
  \/ StartOver

Spec == Init /\ [][Next]_vars
=============================================================================
