---------------------------- MODULE ServerBrowser ----------------------------
(***************************************************************************)
(* The browser of a master client: queries, the master server's replies    *)
(* (oaMasterServer::HandleQuery) and what the client makes of them         *)
(* (MasterClient::HandleServerListResponse).                               *)
(*                                                                         *)
(* The master server's list is a sequence here that changes at any time;   *)
(* MasterServer says when.  Queries are sent RELIABLE_ORDERED, replies     *)
(* RELIABLE only: they may overtake each other.                            *)
(*                                                                         *)
(* A reply is a stream of bits.  Of a server it holds the address, the     *)
(* number of rules and the rules; a server is complete when that number of *)
(* rules has been written.  Behind one that is not the client looks for    *)
(* its rules all the same.  At the end of the stream it finds none, and    *)
(* DeserializeServer returns a null pointer; otherwise it reads what was   *)
(* written for the servers behind, and from there on may read anything:    *)
(* which rules and addresses those bits make is not modelled.              *)
(***************************************************************************)
EXTENDS Integers, Sequences, SequencesExt

CONSTANTS
  ServerID,    \* the addresses of game servers
  Key,         \* the identifiers of rules that are not reserved
  Value,       \* what a rule may hold
  NULL,        \* no such rule
  MaxChanges,  \* bound on the changes of the master server's list
  MaxQuery,    \* bound on the rules of a query
  MaxQueries,  \* bound on the queries that are under way
  MaxReplies   \* bound on the replies that are under way

ASSUME BrowserAssumption ==
  /\ NULL \notin Value
  /\ {MaxChanges, MaxQuery, MaxQueries, MaxReplies} \subseteq Nat

VARIABLES
  serverList,          \* the master server's gameServerList
  ruleIdentifierList,  \* the client's query rules
  queries,             \* queries under way, in order
  replies,             \* replies under way, in any order
  gameServerList,      \* the client's list, by connectionIdentifier: the rules,
                       \* whether lastUpdateTime is the current millisecond, and
                       \* (history) whether any of the rules may have been misread
  changes,             \* how often the master server's list has changed
  crashed,             \* the client has dereferenced a null pointer
  listed               \* history: all rules that servers were listed with

vars == <<serverList, ruleIdentifierList, queries, replies, gameServerList,
          changes, crashed, listed>>

Rules    == [Key -> Value \cup {NULL}]
RulesOf(id, rules) == {<<id, k, rules[k]>> : k \in {j \in Key : rules[j] # NULL}}
IDs(servers) == {s.id : s \in Range(servers)}
Shown == DOMAIN gameServerList

Init ==
  /\ serverList = <<>>
  /\ ruleIdentifierList = <<>>
  /\ queries = <<>>
  /\ replies = <<>>
  /\ gameServerList = [id \in {} |-> NULL]
  /\ changes = 0
  /\ crashed = FALSE
  /\ listed = {}
-----------------------------------------------------------------------------
(* The master server's list *)

Upload(id, rules) ==
  /\ changes < MaxChanges /\ changes' = changes + 1
  /\ serverList' = IF id \in IDs(serverList)
                   THEN [i \in DOMAIN serverList |->
                           IF serverList[i].id = id
                           THEN [id |-> id, rules |-> rules]
                           ELSE serverList[i]]
                   ELSE Append(serverList, [id |-> id, rules |-> rules])
  /\ listed' = listed \cup RulesOf(id, rules)
  /\ UNCHANGED <<ruleIdentifierList, queries, replies, gameServerList, crashed>>

Delist(id) ==
  /\ changes < MaxChanges /\ changes' = changes + 1
  /\ \E i \in DOMAIN serverList :
       serverList[i].id = id /\ serverList' = RemoveAt(serverList, i)
  /\ UNCHANGED <<ruleIdentifierList, queries, replies, gameServerList,
                 crashed, listed>>
-----------------------------------------------------------------------------
(* Queries *)

AddQueryRule(key) ==
  /\ ~crashed
  /\ Len(ruleIdentifierList) < MaxQuery
  /\ ruleIdentifierList' = Append(ruleIdentifierList, key)
  /\ UNCHANGED <<serverList, queries, replies, gameServerList, changes, crashed, listed>>

ClearQueryRules ==
  /\ ~crashed
  /\ ruleIdentifierList' = <<>>
  /\ UNCHANGED <<serverList, queries, replies, gameServerList, changes, crashed, listed>>

QueryMasterServer ==
  /\ ~crashed
  /\ Len(queries) < MaxQueries
  /\ queries' = Append(queries, ruleIdentifierList)
  /\ UNCHANGED <<serverList, ruleIdentifierList, replies, gameServerList,
                 changes, crashed, listed>>

\* The servers that are found already and those that have the rule besides.
ServersWithKey(found, key) ==
  LET with[i \in 0 .. Len(serverList)] ==
        IF i = 0 THEN found
        ELSE IF serverList[i].rules[key] # NULL /\ serverList[i] \notin Range(with[i - 1])
        THEN Append(with[i - 1], serverList[i])
        ELSE with[i - 1]
  IN  with[Len(serverList)]

\* The servers that have one of the rules, as the loop over the rules meets them.
ServersWithKeys(rules) ==
  LET found[n \in 0 .. Len(rules)] ==
        IF n = 0 THEN <<>> ELSE ServersWithKey(found[n - 1], rules[n])
  IN  found[Len(rules)]

RequestedRules(rules, s) ==
  [k \in Key |-> IF k \in Range(rules) THEN s.rules[k] ELSE NULL]

NoRules == [k \in Key |-> NULL]

\* A null pointer in place of s.
Unread(s) == [id |-> s.id, rules |-> NoRules, complete |-> FALSE, misread |-> TRUE]

\* What the client may read as the i-th of the servers that were found.  The query is read
\* again from its start for the first server only; for the others nothing is left to
\* read and no rule is written.  The address of the second is still where it should be.
ReadAs(rules, found, i) ==
  IF i = 1
  THEN {[id |-> found[1].id, rules |-> RequestedRules(rules, found[1]),
         complete |-> TRUE, misread |-> FALSE]}
  ELSE IF Len(found) = 2
  THEN {Unread(found[2])}
  ELSE {Unread(found[i])}
         \cup [id : IF i = 2 THEN {found[2].id} ELSE ServerID, rules : Rules,
               complete : {TRUE}, misread : {TRUE}]

ServerInReply == [id : ServerID, rules : Rules, complete : BOOLEAN, misread : BOOLEAN]

UpdateReplies(rules) ==
  LET found == ServersWithKeys(rules)
  IN {[overwrite |-> FALSE, servers |-> servers] :
        servers \in {s \in [DOMAIN found -> UNION {ReadAs(rules, found, i) : i \in DOMAIN found}] :
                      \A i \in DOMAIN found : s[i] \in ReadAs(rules, found, i)}}

\* Mutant: the loop writes the rules of the first server for each.
SetReplyOfFirst ==
  [overwrite |-> TRUE,
   servers   |-> [i \in DOMAIN serverList |->
                    [id       |-> serverList[i].id,
                     rules    |-> serverList[1].rules,
                     complete |-> TRUE, misread |-> FALSE]]]

SetReply ==
  [overwrite |-> TRUE,
   servers   |-> [i \in DOMAIN serverList |->
                    [id       |-> serverList[i].id,
                     rules    |-> serverList[i].rules,
                     complete |-> TRUE, misread |-> FALSE]]]

HandleQuery ==
  /\ queries # <<>>
  /\ Len(replies) < MaxReplies
  /\ queries' = Tail(queries)
  /\ \E reply \in IF Head(queries) = <<>> THEN {SetReply} ELSE UpdateReplies(Head(queries)) :
       replies' = Append(replies, reply)
  /\ UNCHANGED <<serverList, ruleIdentifierList, gameServerList, changes, crashed, listed>>
-----------------------------------------------------------------------------
(* Replies *)

\* Mutant: rules that the reply lacks are always kept.
UpdateServerKeepsRules(rules, source, deleteSingleRules) ==
  [k \in Key |-> IF source[k] # NULL THEN source[k] ELSE rules[k]]

UpdateServer(rules, source, deleteSingleRules) ==
  [k \in Key |-> IF source[k] # NULL THEN source[k]
                 ELSE IF deleteSingleRules THEN NULL
                 ELSE rules[k]]

\* UpdateServerList leaves newServerAdded alone when there is no server: a null
\* pointer is then taken for a new server if the one before it was new.
UpdateServerList(client, s, overwrite) ==
  LET old == client.servers
      new == [rules |-> IF s.id \in DOMAIN old
                        THEN UpdateServer(old[s.id].rules, s.rules, overwrite)
                        ELSE s.rules,
              updated |-> TRUE,
              misread |-> \/ s.misread
                          \/ ~overwrite /\ s.id \in DOMAIN old /\ old[s.id].misread]
  IN IF client.crashed
     THEN client
     ELSE IF ~s.complete
     THEN [client EXCEPT !.crashed = client.newServerAdded]
     ELSE [client EXCEPT
             !.servers = [id \in DOMAIN old \cup {s.id} |->
                            IF id = s.id THEN new ELSE old[id]],
             !.newServerAdded = s.id \notin DOMAIN old]

Outdated(servers) == {id \in DOMAIN servers : ~ servers[id].updated}

\* The loop over the servers of a reply.
AllUpdated(reply, uninitialized) ==
  LET client[n \in 0 .. Len(reply.servers)] ==
        IF n = 0
        THEN [servers |-> gameServerList, newServerAdded |-> uninitialized, crashed |-> FALSE]
        ELSE UpdateServerList(client[n - 1], reply.servers[n], reply.overwrite)
  IN  client[Len(reply.servers)]

\* Any reply under way may come next.
HandleServerListResponse(i) ==
  /\ ~crashed
  /\ i \in DOMAIN replies
  /\ \E uninitialized \in BOOLEAN :
       LET client == AllUpdated(replies[i], uninitialized)
       IN /\ crashed' = client.crashed
          /\ gameServerList' = IF client.crashed
                               THEN client.servers
                               ELSE Restrict(client.servers,
                                      DOMAIN client.servers \ Outdated(client.servers))
  /\ replies' = RemoveAt(replies, i)
  /\ UNCHANGED <<serverList, ruleIdentifierList, queries, changes, listed>>

\* The next millisecond.
Tick ==
  /\ gameServerList' = [id \in Shown |-> [gameServerList[id] EXCEPT !.updated = FALSE]]
  /\ UNCHANGED <<serverList, ruleIdentifierList, queries, replies, changes, crashed, listed>>

Next ==
  \/ \E id \in ServerID : Delist(id) \/ \E rules \in Rules : Upload(id, rules)
  \/ \E key \in Key : AddQueryRule(key)
  \/ ClearQueryRules
  \/ QueryMasterServer
  \/ HandleQuery
  \/ \E i \in 1 .. MaxReplies : HandleServerListResponse(i)
  \/ Tick

Spec == Init /\ [][Next]_vars
-----------------------------------------------------------------------------
(* Properties *)

RulesShown == {[id |-> id, rules |-> gameServerList[id].rules] : id \in Shown}

\* A reply to a query for everything makes the client's list what the reply says,
\* whatever queries, replies and changes came before and whatever was misread,
\* provided that the clock has advanced since the last reply.
FullQueryShowsTheList ==
  [][ \A i \in DOMAIN replies :
        /\ HandleServerListResponse(i)
        /\ replies[i].overwrite
        /\ \A id \in Shown : ~ gameServerList[id].updated
        => /\ RulesShown' = {[id |-> s.id, rules |-> s.rules] : s \in Range(replies[i].servers)}
           /\ \A id \in Shown' : ~ gameServerList'[id].misread ]_vars

\* No rule is shown that its server was never listed with, however replies for
\* everything and for some rules follow and overtake each other; but for servers that
\* the client has read behind an incomplete one, in the reply to a query for rules that
\* three servers or more have.
NoRuleIsInvented ==
  \A id \in Shown : \/ gameServerList[id].misread
                    \/ RulesOf(id, gameServerList[id].rules) \subseteq listed
===========================================================================
