------------------------- MODULE ServerBrowserProofs -------------------------
(***************************************************************************)
(* Proofs about ServerBrowser, for any servers, rules, queries and replies, *)
(* in whatever order these arrive.                                         *)
(*                                                                         *)
(* What the client shows of a server it has out of replies, and what is in  *)
(* a reply was in the master server's list when the reply was made.  A      *)
(* reply to a query for everything has each server once and complete, so    *)
(* that nothing but its own servers are of the millisecond in which it is   *)
(* handled, when no other reply was handled before in it.                   *)
(***************************************************************************)
EXTENDS ServerBrowser, SequenceTheorems, NaturalsInduction, WellFoundedInduction, TLAPS

-----------------------------------------------------------------------------
(* Recursion *)

\* A set of natural numbers has a least element.
LEMMA Least ==
  ASSUME NEW T \in SUBSET Nat, T # {}
  PROVE  \E x \in T : \A y \in T : x <= y
<1> DEFINE Below == {p \in Nat \X Nat : p[1] < p[2]}
<1>1. IsWellFoundedOn(Below, Nat)
  BY NatLessThanWellFounded DEF OpToRel
<1>2. PICK x \in T : \A y \in T : <<y, x>> \notin Below
  <2> HIDE DEF Below
  <2>1. QED
    BY <1>1, WFMin
<1>3. ASSUME NEW y \in T PROVE x <= y
  <2>1. x \in Nat /\ y \in Nat /\ ~(y < x)
    BY <1>2
  <2>2. QED
    BY <2>1
<1>4. QED
  BY <1>3

\* Induction up to N, for a set of numbers.
LEMMA Upwards ==
  ASSUME NEW N \in Nat, NEW T, 0 \in T, \A n \in 1 .. N : n - 1 \in T => n \in T
  PROVE  \A n \in 0 .. N : n \in T
<1> DEFINE F == {n \in 0 .. N : n \notin T}
<1> SUFFICES ASSUME F # {} PROVE FALSE
  OBVIOUS
<1>1. F \in SUBSET Nat
  OBVIOUS
<1>2. PICK n \in F : \A m \in F : n <= m
  BY <1>1, Least
<1>3. n \in 1 .. N /\ n - 1 \in 0 .. N /\ n - 1 \notin F
  BY <1>2
<1>4. QED
  BY <1>2, <1>3

\* A function may be defined by its value at 0 and by steps.
Unrolls(f, b, N, step) == f = [n \in 0 .. N |-> IF n = 0 THEN b ELSE step[<<n, f[n - 1]>>]]

\* A recursive function of which every step stays in U exists, and has its values in U.
LEMMA StepByStep ==
  ASSUME NEW U, NEW b \in U, NEW N \in Nat, NEW step \in [(1 .. N) \X U -> U]
  PROVE  \E f \in [0 .. N -> U] : Unrolls(f, b, N, step)
<1> DEFINE Reaches(n) == \E f \in [0 .. N -> U] :
                            f[0] = b /\ \A m \in 1 .. n : f[m] = step[<<m, f[m - 1]>>]
           T == {n \in 0 .. N : Reaches(n)}
<1>1. 0 \in T
  <2> DEFINE f == [n \in 0 .. N |-> b]
  <2>1. f \in [0 .. N -> U] /\ f[0] = b
    OBVIOUS
  <2> HIDE DEF f
  <2>2. \A m \in 1 .. 0 : f[m] = step[<<m, f[m - 1]>>]
    OBVIOUS
  <2>3. QED
    BY <2>1, <2>2
<1>2. ASSUME NEW n \in 1 .. N, n - 1 \in T
      PROVE  n \in T
  <2>1. PICK f \in [0 .. N -> U] :
          f[0] = b /\ \A m \in 1 .. n - 1 : f[m] = step[<<m, f[m - 1]>>]
    BY <1>2
  <2> DEFINE next == step[<<n, f[n - 1]>>]
             g == [f EXCEPT ![n] = next]
  <2>2. n - 1 \in 0 .. N /\ next \in U
    BY <2>1
  <2> HIDE DEF next
  <2>3. g \in [0 .. N -> U] /\ g[n] = next /\ \A m \in 0 .. N \ {n} : g[m] = f[m]
    BY <2>1, <2>2
  <2> HIDE DEF g
  <2>4. ASSUME NEW m \in 1 .. n
        PROVE  g[m] = step[<<m, g[m - 1]>>]
    <3>1. m - 1 \in 0 .. N \ {n} /\ g[m - 1] = f[m - 1]
      BY <2>3
    <3>2. CASE m = n
      BY <2>3, <3>1, <3>2 DEF next
    <3>3. CASE m # n
      <4>1. m \in 1 .. n - 1 /\ m \in 0 .. N \ {n}
        BY <3>3
      <4>2. QED
        BY <2>1, <2>3, <3>1, <4>1
    <3>4. QED
      BY <3>2, <3>3
  <2>5. g[0] = b
    BY <2>1, <2>3
  <2>6. QED
    BY <2>3, <2>4, <2>5
<1>3. N \in T
  <2> HIDE DEF T
  <2>1. N \in 0 .. N
    OBVIOUS
  <2>2. QED
    BY <1>1, <1>2, <2>1, Upwards
<1>4. PICK f \in [0 .. N -> U] : f[0] = b /\ \A m \in 1 .. N : f[m] = step[<<m, f[m - 1]>>]
  BY <1>3
<1>5. f = [n \in 0 .. N |-> IF n = 0 THEN b ELSE step[<<n, f[n - 1]>>]]
  BY <1>4
<1>6. QED
  BY <1>5 DEF Unrolls

-----------------------------------------------------------------------------
(* The inductive invariant *)

Server == [id : ServerID, rules : Rules]
Reply == [overwrite : BOOLEAN, servers : Seq(ServerInReply)]
ServerShown == [rules : Rules, updated : BOOLEAN, misread : BOOLEAN]
Lists == UNION {[ids -> ServerShown] : ids \in SUBSET ServerID}

\* The rules of s are among those that it was listed with.
IsTrue(s, rules) == RulesOf(s.id, s.rules) \subseteq rules

\* So they are, or they may have been misread.
IsBelievable(s, rules) == s.misread \/ IsTrue(s, rules)

Distinct(servers) == \A i, j \in DOMAIN servers : servers[i].id = servers[j].id => i = j

\* The master server's list has each server once, with rules that it was listed with.
ServerListInv ==
  /\ serverList \in Seq(Server) /\ Distinct(serverList)
  /\ \A i \in DOMAIN serverList : IsTrue(serverList[i], listed)

QueriesInv == ruleIdentifierList \in Seq(Key) /\ queries \in Seq(Seq(Key))

\* A reply to a query for everything has whole servers, each once.
IsFull(reply) ==
  /\ Distinct(reply.servers)
  /\ \A i \in DOMAIN reply.servers : reply.servers[i].complete /\ ~reply.servers[i].misread

RepliesInv ==
  /\ replies \in Seq(Reply)
  /\ \A i \in DOMAIN replies :
       /\ \A j \in DOMAIN replies[i].servers : IsBelievable(replies[i].servers[j], listed)
       /\ replies[i].overwrite => IsFull(replies[i])

ShownInv ==
  /\ gameServerList \in Lists /\ crashed \in BOOLEAN
  /\ NoRuleIsInvented

BrowserInv == ServerListInv /\ QueriesInv /\ RepliesInv /\ ShownInv

-----------------------------------------------------------------------------
(* Queries *)

\* The loop over the servers finds servers.
LEMMA WithKeyAre ==
  ASSUME ServerListInv, NEW found \in Seq(Range(serverList)), NEW key \in Key
  PROVE  ServersWithKey(found, key) \in Seq(Range(serverList))
<1> DEFINE N == Len(serverList)
           U == Seq(Range(serverList))
           next(s, i) == IF serverList[i].rules[key] # NULL /\ serverList[i] \notin Range(s)
                         THEN Append(s, serverList[i]) ELSE s
           step == [x \in (1 .. N) \X U |-> next(x[2], x[1])]
           h == CHOOSE h : h = [i \in 0 .. N |-> IF i = 0 THEN found ELSE next(h[i - 1], i)]
<1>1. N \in Nat /\ DOMAIN serverList = 1 .. N
  BY DEF ServerListInv
<1>2. ASSUME NEW s \in U, NEW i \in 1 .. N PROVE next(s, i) \in U
  <2>1. serverList[i] \in Range(serverList)
    BY <1>1 DEF Range
  <2>2. QED
    BY <2>1
<1>3. ServersWithKey(found, key) = h[N]
  BY DEF ServersWithKey
<1> HIDE DEF N, next, U
<1>4. step \in [(1 .. N) \X U -> U]
  BY <1>2
<1>5. found \in U
  BY DEF U
<1>6. PICK f \in [0 .. N -> U] : Unrolls(f, found, N, step)
  <2> HIDE DEF step
  <2>1. QED
    BY <1>1, <1>4, <1>5, StepByStep
<1>7. f = [i \in 0 .. N |-> IF i = 0 THEN found ELSE next(f[i - 1], i)]
  <2>1. \A i \in 1 .. N : i - 1 \in 0 .. N
    BY <1>1
  <2>2. \A i \in 1 .. N : step[<<i, f[i - 1]>>] = next(f[i - 1], i)
    BY <2>1
  <2> HIDE DEF step
  <2>3. \A i \in 0 .. N : i = 0 \/ i \in 1 .. N
    BY <1>1
  <2>4. f = [i \in 0 .. N |-> IF i = 0 THEN found ELSE step[<<i, f[i - 1]>>]]
    BY <1>6 DEF Unrolls
  <2>5. QED
    BY <2>2, <2>3, <2>4
<1>8. h = [i \in 0 .. N |-> IF i = 0 THEN found ELSE next(h[i - 1], i)]
  BY <1>7
<1> HIDE DEF h
<1>9. h[N] \in U
  <2> DEFINE T == { i \in 0 .. N : h[i] \in U }
  <2>1. 0 \in T
    BY <1>1, <1>5, <1>8
  <2>2. ASSUME NEW i \in 1 .. N, i - 1 \in T PROVE i \in T
    <3>1. i \in 0 .. N /\ i # 0 /\ h[i - 1] \in U
      BY <1>1, <2>2
    <3>2. h[i] = next(h[i - 1], i)
      BY <1>8, <3>1
    <3>3. QED
      BY <1>2, <3>1, <3>2
  <2>3. N \in 0 .. N
    BY <1>1
  <2> HIDE DEF T
  <2>4. N \in T
    BY <1>1, <2>1, <2>2, <2>3, Upwards
  <2>5. QED
    BY <2>4 DEF T
<1>10. QED
  BY <1>3, <1>9 DEF U

\* So does the loop over the rules of a query.
LEMMA WithKeysAre ==
  ASSUME ServerListInv, NEW rules \in Seq(Key)
  PROVE  ServersWithKeys(rules) \in Seq(Range(serverList))
<1> DEFINE N == Len(rules)
           U == Seq(Range(serverList))
           step == [x \in (1 .. N) \X U |-> ServersWithKey(x[2], rules[x[1]])]
           h == CHOOSE h : h = [n \in 0 .. N |-> IF n = 0 THEN <<>>
                                                 ELSE ServersWithKey(h[n - 1], rules[n])]
<1>1. N \in Nat /\ \A n \in 1 .. N : rules[n] \in Key
  OBVIOUS
<1>2. ASSUME NEW s \in U, NEW n \in 1 .. N PROVE ServersWithKey(s, rules[n]) \in U
  BY <1>1, WithKeyAre
<1>3. ServersWithKeys(rules) = h[N]
  BY DEF ServersWithKeys
<1>4. <<>> \in U
  OBVIOUS
<1> HIDE DEF N, U
<1>5. step \in [(1 .. N) \X U -> U]
  BY <1>2
<1>6. PICK f \in [0 .. N -> U] : Unrolls(f, <<>>, N, step)
  <2> HIDE DEF step
  <2>1. QED
    BY <1>1, <1>4, <1>5, StepByStep
<1>7. f = [n \in 0 .. N |-> IF n = 0 THEN <<>> ELSE ServersWithKey(f[n - 1], rules[n])]
  <2>1. \A n \in 1 .. N : n - 1 \in 0 .. N
    BY <1>1
  <2>2. \A n \in 1 .. N : step[<<n, f[n - 1]>>] = ServersWithKey(f[n - 1], rules[n])
    BY <2>1
  <2> HIDE DEF step
  <2>3. \A n \in 0 .. N : n = 0 \/ n \in 1 .. N
    BY <1>1
  <2>4. f = [n \in 0 .. N |-> IF n = 0 THEN <<>> ELSE step[<<n, f[n - 1]>>]]
    BY <1>6 DEF Unrolls
  <2>5. QED
    BY <2>2, <2>3, <2>4
<1>8. h = [n \in 0 .. N |-> IF n = 0 THEN <<>> ELSE ServersWithKey(h[n - 1], rules[n])]
  BY <1>7
<1> HIDE DEF h
<1>9. h[N] \in U
  <2> DEFINE T == { n \in 0 .. N : h[n] \in U }
  <2>1. 0 \in T
    BY <1>1, <1>4, <1>8
  <2>2. ASSUME NEW n \in 1 .. N, n - 1 \in T PROVE n \in T
    <3>1. n \in 0 .. N /\ n # 0 /\ h[n - 1] \in U
      BY <1>1, <2>2
    <3>2. h[n] = ServersWithKey(h[n - 1], rules[n])
      BY <1>8, <3>1
    <3>3. QED
      BY <1>2, <3>1, <3>2
  <2>3. N \in 0 .. N
    BY <1>1
  <2> HIDE DEF T
  <2>4. N \in T
    BY <1>1, <2>1, <2>2, <2>3, Upwards
  <2>5. QED
    BY <2>4 DEF T
<1>10. QED
  BY <1>3, <1>9 DEF U

\* A reply to a query for everything is the list.
LEMMA SetReplyIs ==
  ASSUME ServerListInv
  PROVE  /\ SetReply \in Reply /\ IsFull(SetReply)
         /\ \A i \in DOMAIN SetReply.servers : IsBelievable(SetReply.servers[i], listed)
<1> DEFINE N == Len(serverList)
           told == [i \in DOMAIN serverList |->
                      [id |-> serverList[i].id, rules |-> serverList[i].rules,
                       complete |-> TRUE, misread |-> FALSE]]
<1>1. /\ N \in Nat /\ DOMAIN serverList = 1 .. N
      /\ \A i \in 1 .. N : serverList[i] \in Server
  BY DEF ServerListInv
<1>2. \A i \in 1 .. N : told[i] \in ServerInReply
  BY <1>1 DEF Server, ServerInReply
<1>3. told \in Seq(ServerInReply) /\ DOMAIN told = 1 .. N
  BY <1>1, <1>2
<1>4. \A i \in 1 .. N : told[i].id = serverList[i].id /\ told[i].rules = serverList[i].rules
                        /\ told[i].complete /\ ~told[i].misread
  BY <1>1
<1>5. SetReply = [overwrite |-> TRUE, servers |-> told]
  BY DEF SetReply
<1> HIDE DEF told
<1>6. SetReply \in Reply /\ SetReply.servers = told
  BY <1>3, <1>5 DEF Reply
<1>7. \A i \in 1 .. N : IsBelievable(told[i], listed)
  BY <1>1, <1>4 DEF ServerListInv, IsTrue, IsBelievable
<1>8. IsFull(SetReply)
  BY <1>1, <1>3, <1>4, <1>6 DEF ServerListInv, Distinct, IsFull
<1>9. QED
  BY <1>3, <1>6, <1>7, <1>8

\* A reply to any other query holds rules of servers that are listed.
LEMMA UpdateReplyIs ==
  ASSUME ServerListInv, NEW rules \in Seq(Key), NEW reply \in UpdateReplies(rules)
  PROVE  /\ reply \in Reply /\ ~reply.overwrite
         /\ \A i \in DOMAIN reply.servers : IsBelievable(reply.servers[i], listed)
<1> DEFINE found == ServersWithKeys(rules)
           N == Len(found)
<1>1. found \in Seq(Range(serverList))
  BY WithKeysAre
<1>2. PICK told \in [DOMAIN found -> UNION {ReadAs(rules, found, i) : i \in DOMAIN found}] :
        /\ \A i \in DOMAIN found : told[i] \in ReadAs(rules, found, i)
        /\ reply = [overwrite |-> FALSE, servers |-> told]
  BY DEF UpdateReplies
<1> HIDE DEF found
<1>3. N \in Nat /\ DOMAIN found = 1 .. N /\ \A i \in 1 .. N : found[i] \in Range(serverList)
  BY <1>1
<1>4. ASSUME NEW i \in 1 .. N
      PROVE  told[i] \in ServerInReply /\ IsBelievable(told[i], listed)
  <2> DEFINE s == found[i]
             r == RequestedRules(rules, s)
  <2>1. s \in Server /\ IsTrue(s, listed)
    BY <1>3 DEF ServerListInv, Range
  <2>2. s.id \in ServerID /\ s.rules \in Rules
    BY <2>1 DEF Server
  <2>3. told[i] \in ReadAs(rules, found, i)
    BY <1>2, <1>3
  <2>4. CASE i = 1
    <3>1. told[i] = [id |-> s.id, rules |-> r, complete |-> TRUE, misread |-> FALSE]
      BY <2>3, <2>4 DEF ReadAs
    <3> HIDE DEF s
    <3>2. r \in Rules /\ \A k \in Key : r[k] = NULL \/ r[k] = s.rules[k]
      BY <2>2 DEF Rules, RequestedRules
    <3> HIDE DEF r
    <3>3. told[i] \in ServerInReply /\ told[i].id = s.id /\ told[i].rules = r
      BY <2>2, <3>1, <3>2 DEF ServerInReply
    <3>4. RulesOf(s.id, r) \subseteq RulesOf(s.id, s.rules)
      BY <3>2 DEF RulesOf
    <3>5. QED
      BY <2>1, <3>3, <3>4 DEF IsTrue, IsBelievable
  <2>5. CASE i # 1
    <3> DEFINE unread == Unread(s)
    <3>1. NoRules \in Rules
      BY DEF NoRules, Rules
    <3>2. unread \in ServerInReply /\ unread.misread
      BY <2>2, <3>1 DEF Unread, ServerInReply
    <3>3. \/ told[i] = unread
          \/ told[i] \in [id : IF i = 2 THEN {found[2].id} ELSE ServerID, rules : Rules,
                          complete : {TRUE}, misread : {TRUE}]
      <4>1. CASE Len(found) = 2
        <5>1. i = 2
          BY <1>3, <2>5, <4>1
        <5>2. told[i] \in {Unread(found[2])}
          BY <2>3, <4>1, <5>1 DEF ReadAs
        <5>3. QED
          BY <5>1, <5>2
      <4>2. CASE Len(found) # 2
        BY <2>3, <2>5, <4>2 DEF ReadAs
      <4>3. QED
        BY <4>1, <4>2
    <3>4. IF i = 2 THEN found[2].id \in ServerID ELSE TRUE
      BY <2>2
    <3>5. CASE told[i] = unread
      BY <3>2, <3>5 DEF IsBelievable
    <3>6. CASE told[i] \in [id : IF i = 2 THEN {found[2].id} ELSE ServerID, rules : Rules,
                           complete : {TRUE}, misread : {TRUE}]
      BY <3>4, <3>6 DEF ServerInReply, IsBelievable
    <3>7. QED
      BY <3>3, <3>5, <3>6
  <2>6. QED
    BY <2>4, <2>5
<1>5. told \in Seq(ServerInReply) /\ DOMAIN told = 1 .. N
  BY <1>2, <1>3, <1>4
<1>6. reply \in Reply /\ reply.servers = told /\ ~reply.overwrite
  BY <1>2, <1>5 DEF Reply
<1>7. QED
  BY <1>4, <1>5, <1>6

-----------------------------------------------------------------------------
(* Replies *)

\* What the loop over the servers of a reply makes of the client.
Clients ==
  { c \in [servers : Lists, newServerAdded : BOOLEAN, crashed : BOOLEAN] :
      \A id \in DOMAIN c.servers :
        c.servers[id].misread \/ RulesOf(id, c.servers[id].rules) \subseteq listed }

\* UpdateServerList makes a client of a client, of rules that the server was listed with.
LEMMA UpdatedIs ==
  ASSUME NEW c \in Clients, NEW s \in ServerInReply, IsBelievable(s, listed), NEW overwrite \in BOOLEAN
  PROVE  UpdateServerList(c, s, overwrite) \in Clients
<1> DEFINE old == c.servers
           rules == IF s.id \in DOMAIN old
                    THEN UpdateServer(old[s.id].rules, s.rules, overwrite) ELSE s.rules
           misread == s.misread \/ (~overwrite /\ s.id \in DOMAIN old /\ old[s.id].misread)
           new == [rules |-> rules, updated |-> TRUE, misread |-> misread]
           list == [id \in DOMAIN old \cup {s.id} |-> IF id = s.id THEN new ELSE old[id]]
           added == [c EXCEPT !.servers = list, !.newServerAdded = s.id \notin DOMAIN old]
           gone == [c EXCEPT !.crashed = c.newServerAdded]
<1>1. UpdateServerList(c, s, overwrite) \in {c, added, gone}
  BY DEF UpdateServerList
<1>2. /\ c \in [servers : Lists, newServerAdded : BOOLEAN, crashed : BOOLEAN]
      /\ \A id \in DOMAIN old : old[id].misread \/ RulesOf(id, old[id].rules) \subseteq listed
  BY DEF Clients
<1>3. gone \in Clients
  BY <1>2 DEF Clients
<1>4. /\ s.id \in ServerID /\ s.rules \in Rules /\ s.misread \in BOOLEAN /\ old \in Lists
      /\ s.misread \/ RulesOf(s.id, s.rules) \subseteq listed
  BY <1>2 DEF ServerInReply, IsTrue, IsBelievable
<1>5. PICK ids \in SUBSET ServerID : old \in [ids -> ServerShown]
  BY <1>4 DEF Lists
<1>6. /\ rules \in Rules
      /\ misread \in BOOLEAN
      /\ misread \/ RulesOf(s.id, rules) \subseteq listed
  <2>1. CASE s.id \notin DOMAIN old
    BY <1>4, <2>1
  <2>2. CASE s.id \in DOMAIN old
    <3> DEFINE before == old[s.id].rules
    <3>1. /\ before \in Rules /\ old[s.id].misread \in BOOLEAN
          /\ old[s.id].misread \/ RulesOf(s.id, before) \subseteq listed
      BY <1>2, <1>5, <2>2 DEF ServerShown
    <3>2. rules = UpdateServer(before, s.rules, overwrite)
      BY <2>2
    <3>3. /\ misread \in BOOLEAN
          /\ s.misread => misread
          /\ old[s.id].misread => misread \/ overwrite
      BY <1>4, <2>2, <3>1
    <3> HIDE DEF before, rules, misread
    <3>4. rules \in Rules /\ \A k \in Key :
            \/ rules[k] \in {s.rules[k], NULL}
            \/ rules[k] = before[k] /\ ~overwrite
      BY <1>4, <3>1, <3>2 DEF UpdateServer, Rules
    <3>5. CASE overwrite
      <4>1. RulesOf(s.id, rules) \subseteq RulesOf(s.id, s.rules)
        BY <3>4, <3>5 DEF RulesOf
      <4>2. misread \/ RulesOf(s.id, rules) \subseteq listed
        BY <1>4, <3>3, <4>1
      <4>3. QED
        BY <3>3, <3>4, <4>2
    <3>6. CASE ~overwrite
      <4>1. RulesOf(s.id, rules) \subseteq RulesOf(s.id, s.rules) \cup RulesOf(s.id, before)
        BY <3>4 DEF RulesOf
      <4>2. misread \/ RulesOf(s.id, before) \subseteq listed
        BY <3>1, <3>3, <3>6
      <4>3. misread \/ RulesOf(s.id, rules) \subseteq listed
        BY <1>4, <3>3, <4>1, <4>2
      <4>4. QED
        BY <3>3, <3>4, <4>3
    <3>7. QED
      BY <3>5, <3>6
  <2>3. QED
    BY <2>1, <2>2
<1> HIDE DEF rules, misread
<1>7. new \in ServerShown /\ new.rules = rules /\ new.misread = misread
  <2>1. rules \in Rules /\ misread \in BOOLEAN
    BY <1>6
  <2>2. QED
    BY <2>1 DEF ServerShown
<1> HIDE DEF new
<1>8. list \in [ids \cup {s.id} -> ServerShown]
  BY <1>5, <1>7
<1>9. list \in Lists
  BY <1>4, <1>8 DEF Lists
<1>10. \A id \in DOMAIN list : list[id].misread \/ RulesOf(id, list[id].rules) \subseteq listed
  BY <1>2, <1>6, <1>7
<1> HIDE DEF list
<1>11. added \in Clients
  BY <1>2, <1>9, <1>10 DEF Clients
<1>12. QED
  BY <1>1, <1>3, <1>11

\* The client after each server of a reply.
LEMMA AllUpdatedIs ==
  ASSUME ShownInv, NEW reply \in Reply,
         \A i \in DOMAIN reply.servers : IsBelievable(reply.servers[i], listed),
         NEW uninitialized \in BOOLEAN
  PROVE  \E h \in [0 .. Len(reply.servers) -> Clients] :
           /\ AllUpdated(reply, uninitialized) = h[Len(reply.servers)]
           /\ h[0] = [servers |-> gameServerList, newServerAdded |-> uninitialized,
                      crashed |-> FALSE]
           /\ \A n \in 1 .. Len(reply.servers) :
                h[n] = UpdateServerList(h[n - 1], reply.servers[n], reply.overwrite)
<1> DEFINE s == reply.servers
           overwrite == reply.overwrite
           N == Len(s)
           b == [servers |-> gameServerList, newServerAdded |-> uninitialized, crashed |-> FALSE]
           step == [x \in (1 .. N) \X Clients |-> UpdateServerList(x[2], s[x[1]], overwrite)]
           h == CHOOSE h : h = [n \in 0 .. N |-> IF n = 0 THEN b
                                     ELSE UpdateServerList(h[n - 1], s[n], overwrite)]
<1>1. /\ N \in Nat /\ DOMAIN s = 1 .. N /\ \A n \in 1 .. N : s[n] \in ServerInReply
      /\ overwrite \in BOOLEAN
  BY DEF Reply
<1>2. AllUpdated(reply, uninitialized) = h[N]
  BY DEF AllUpdated
<1>3. ASSUME NEW c \in Clients, NEW n \in 1 .. N
      PROVE  UpdateServerList(c, s[n], overwrite) \in Clients
  <2>1. s[n] \in ServerInReply /\ IsBelievable(s[n], listed)
    BY <1>1
  <2>2. QED
    BY <1>1, <2>1, UpdatedIs
<1>4. b \in Clients
  BY DEF Clients, ShownInv, NoRuleIsInvented, Shown
<1> HIDE DEF N, b, s, overwrite
<1>5. step \in [(1 .. N) \X Clients -> Clients]
  BY <1>3
<1>6. PICK f \in [0 .. N -> Clients] : Unrolls(f, b, N, step)
  <2> HIDE DEF step
  <2>1. QED
    BY <1>1, <1>4, <1>5, StepByStep
<1>7. f = [n \in 0 .. N |-> IF n = 0 THEN b ELSE UpdateServerList(f[n - 1], s[n], overwrite)]
  <2>1. \A n \in 1 .. N : n - 1 \in 0 .. N
    BY <1>1
  <2>2. \A n \in 1 .. N : step[<<n, f[n - 1]>>] = UpdateServerList(f[n - 1], s[n], overwrite)
    BY <2>1
  <2> HIDE DEF step
  <2>3. \A n \in 0 .. N : n = 0 \/ n \in 1 .. N
    BY <1>1
  <2>4. f = [n \in 0 .. N |-> IF n = 0 THEN b ELSE step[<<n, f[n - 1]>>]]
    BY <1>6 DEF Unrolls
  <2>5. QED
    BY <2>2, <2>3, <2>4
<1>8. h = [n \in 0 .. N |-> IF n = 0 THEN b ELSE UpdateServerList(h[n - 1], s[n], overwrite)]
  BY <1>7
<1> HIDE DEF h
<1>9. \A n \in 0 .. N : h[n] \in Clients
  <2> DEFINE T == { n \in 0 .. N : h[n] \in Clients }
  <2>1. 0 \in T
    BY <1>1, <1>4, <1>8
  <2>2. ASSUME NEW n \in 1 .. N, n - 1 \in T PROVE n \in T
    <3>1. n \in 0 .. N /\ n # 0 /\ h[n - 1] \in Clients
      BY <1>1, <2>2
    <3>2. h[n] = UpdateServerList(h[n - 1], s[n], overwrite)
      BY <1>8, <3>1
    <3>3. QED
      BY <1>3, <3>1, <3>2
  <2> HIDE DEF T
  <2>3. \A n \in 0 .. N : n \in T
    BY <1>1, <2>1, <2>2, Upwards
  <2>4. QED
    BY <2>3 DEF T
<1>10. /\ h \in [0 .. N -> Clients] /\ h[0] = b
       /\ \A n \in 1 .. N : h[n] = UpdateServerList(h[n - 1], s[n], overwrite)
  BY <1>1, <1>8, <1>9
<1>11. QED
  BY <1>2, <1>10 DEF N, b, s, overwrite

\* A sequence without one of its elements.
LEMMA RemovedAt ==
  ASSUME NEW S, NEW s \in Seq(S), NEW i \in DOMAIN s
  PROVE  /\ RemoveAt(s, i) \in Seq(S) /\ Len(RemoveAt(s, i)) = Len(s) - 1
         /\ \A j \in 1 .. Len(s) - 1 : RemoveAt(s, i)[j] = s[IF j < i THEN j ELSE j + 1]
<1> DEFINE N == Len(s)
           a == SubSeq(s, 1, i - 1)
           c == SubSeq(s, i + 1, N)
<1>1. N \in Nat /\ i \in 1 .. N /\ \A j \in 1 .. N : s[j] \in S
  OBVIOUS
<1>2. a \in Seq(S) /\ Len(a) = i - 1 /\ \A j \in 1 .. i - 1 : a[j] = s[j]
  <2>1. \A j \in 1 .. i - 1 : s[j] \in S
    BY <1>1
  <2>2. QED
    BY <1>1, <2>1, SubSeqProperties
<1>3. c \in Seq(S) /\ Len(c) = N - i /\ \A j \in 1 .. N - i : c[j] = s[i + j]
  <2>1. \A j \in i + 1 .. N : s[j] \in S
    BY <1>1
  <2>2. QED
    BY <1>1, <2>1, SubSeqProperties
<1>4. RemoveAt(s, i) = a \o c
  BY DEF RemoveAt
<1> HIDE DEF a, c, N
<1>5. /\ a \o c \in Seq(S) /\ Len(a \o c) = Len(a) + Len(c)
      /\ \A j \in 1 .. Len(a) + Len(c) :
           (a \o c)[j] = IF j <= Len(a) THEN a[j] ELSE c[j - Len(a)]
  BY <1>2, <1>3, ConcatProperties
<1>6. ASSUME NEW j \in 1 .. N - 1
      PROVE  (a \o c)[j] = s[IF j < i THEN j ELSE j + 1]
  <2>1. j \in 1 .. Len(a) + Len(c) /\ Len(a) = i - 1
    BY <1>1, <1>2, <1>3
  <2>2. (a \o c)[j] = IF j <= i - 1 THEN a[j] ELSE c[j - (i - 1)]
    BY <1>5, <2>1
  <2>3. CASE j < i
    <3>1. j <= i - 1 /\ j \in 1 .. i - 1
      BY <1>1, <2>3
    <3>2. QED
      BY <1>2, <2>2, <2>3, <3>1
  <2>4. CASE ~(j < i)
    <3>1. ~(j <= i - 1) /\ j - (i - 1) \in 1 .. N - i /\ i + (j - (i - 1)) = j + 1
      BY <1>1, <2>4
    <3>2. QED
      BY <1>3, <2>2, <2>4, <3>1
  <2>5. QED
    BY <2>3, <2>4
<1>7. Len(a) + Len(c) = N - 1
  BY <1>1, <1>2, <1>3
<1>8. QED
  BY <1>4, <1>5, <1>6, <1>7 DEF N

-----------------------------------------------------------------------------
(* The actions *)

\* An upload replaces the server's rules in its place, or adds the server.
LEMMA UploadKeeps ==
  ASSUME BrowserInv, NEW id \in ServerID, NEW rules \in Rules, Upload(id, rules)
  PROVE  BrowserInv'
<1> DEFINE s == [id |-> id, rules |-> rules]
           N == Len(serverList)
           changed == [i \in DOMAIN serverList |->
                         IF serverList[i].id = id THEN s ELSE serverList[i]]
<1>1. /\ serverList \in Seq(Server) /\ N \in Nat /\ DOMAIN serverList = 1 .. N
      /\ \A i \in 1 .. N : serverList[i] \in Server /\ IsTrue(serverList[i], listed)
      /\ Distinct(serverList)
  BY DEF BrowserInv, ServerListInv
<1>2. s \in Server /\ s.id = id /\ s.rules = rules
  BY DEF Server
<1>3. listed' = listed \cup RulesOf(id, rules)
  BY DEF Upload
<1>4. \A t : IsTrue(t, listed) => IsTrue(t, listed')
  BY <1>3 DEF IsTrue
<1> HIDE DEF s
<1>5. IsTrue(s, listed')
  BY <1>2, <1>3 DEF IsTrue
<1>6. ServerListInv'
  <2>1. CASE id \in IDs(serverList)
    <3>1. serverList' = changed
      BY <2>1 DEF Upload, s
    <3>2. /\ changed \in Seq(Server) /\ DOMAIN changed = 1 .. N
          /\ \A i \in 1 .. N : changed[i] \in {s, serverList[i]}
                               /\ changed[i].id = serverList[i].id
      BY <1>1, <1>2
    <3> HIDE DEF changed
    <3>3. Distinct(changed)
      BY <1>1, <3>2 DEF Distinct
    <3>4. \A i \in 1 .. N : IsTrue(changed[i], listed')
      BY <1>1, <1>4, <1>5, <3>2
    <3>5. QED
      BY <3>1, <3>2, <3>3, <3>4 DEF ServerListInv
  <2>2. CASE id \notin IDs(serverList)
    <3> DEFINE added == Append(serverList, s)
    <3>1. serverList' = added
      BY <2>2 DEF Upload, s
    <3>2. /\ added \in Seq(Server) /\ DOMAIN added = 1 .. N + 1
          /\ added[N + 1] = s /\ \A i \in 1 .. N : added[i] = serverList[i]
          /\ \A i \in 1 .. N + 1 : i = N + 1 \/ i \in 1 .. N
      BY <1>1, <1>2
    <3> HIDE DEF added, N
    <3>3. \A i \in 1 .. N : serverList[i].id # id
      BY <1>1, <2>2 DEF IDs, Range
    <3>4. Distinct(added)
      BY <1>1, <1>2, <3>2, <3>3 DEF Distinct
    <3>5. \A i \in 1 .. N + 1 : IsTrue(added[i], listed')
      BY <1>1, <1>4, <1>5, <3>2
    <3>6. QED
      BY <3>1, <3>2, <3>4, <3>5 DEF ServerListInv
  <2>3. QED
    BY <2>1, <2>2
<1>7. UNCHANGED <<ruleIdentifierList, queries, replies, gameServerList, crashed>>
  BY DEF Upload
<1>8. RepliesInv'
  BY <1>4, <1>7 DEF BrowserInv, RepliesInv, IsBelievable
<1>9. ShownInv'
  BY <1>3, <1>7 DEF BrowserInv, ShownInv, NoRuleIsInvented, Shown
<1>10. QueriesInv'
  BY <1>7 DEF BrowserInv, QueriesInv
<1>11. QED
  BY <1>6, <1>8, <1>9, <1>10 DEF BrowserInv

\* A list without one server is still a list of distinct servers.
LEMMA DelistKeeps ==
  ASSUME BrowserInv, NEW id \in ServerID, Delist(id)
  PROVE  BrowserInv'
<1>1. PICK i \in DOMAIN serverList : serverList' = RemoveAt(serverList, i)
  BY DEF Delist
<1>2. /\ serverList \in Seq(Server) /\ Distinct(serverList)
      /\ \A j \in DOMAIN serverList : IsTrue(serverList[j], listed)
  BY DEF BrowserInv, ServerListInv
<1> DEFINE old == serverList
           new == RemoveAt(serverList, i)
           at(j) == IF j < i THEN j ELSE j + 1
<1>3. /\ new \in Seq(Server) /\ Len(new) = Len(old) - 1
      /\ \A j \in 1 .. Len(old) - 1 : new[j] = old[at(j)]
  BY <1>2, RemovedAt
<1> HIDE DEF new
<1>4. /\ DOMAIN new = 1 .. Len(old) - 1 /\ DOMAIN old = 1 .. Len(old) /\ Len(old) \in Nat
      /\ i \in 1 .. Len(old)
  BY <1>2, <1>3
<1>5. \A j \in 1 .. Len(old) - 1 : at(j) \in 1 .. Len(old) /\ new[j] = old[at(j)]
  BY <1>3, <1>4
<1>6. \A j, k \in 1 .. Len(old) - 1 : at(j) = at(k) => j = k
  BY <1>4
<1> HIDE DEF at
<1>7. Distinct(new)
  BY <1>2, <1>4, <1>5, <1>6 DEF Distinct
<1>8. UNCHANGED <<ruleIdentifierList, queries, replies, gameServerList, crashed, listed>>
  BY DEF Delist
<1>9. \A j \in DOMAIN new : IsTrue(new[j], listed')
  BY <1>2, <1>4, <1>5, <1>8 DEF IsTrue
<1>10. ServerListInv'
  BY <1>1, <1>3, <1>7, <1>9 DEF ServerListInv, new
<1>11. RepliesInv' /\ ShownInv' /\ QueriesInv'
  BY <1>8 DEF BrowserInv, RepliesInv, ShownInv, QueriesInv, IsTrue, IsBelievable, NoRuleIsInvented, Shown
<1>12. QED
  BY <1>10, <1>11 DEF BrowserInv

\* The client's calls change the query, or send it.
LEMMA QueryKeeps ==
  ASSUME BrowserInv,
         \/ \E key \in Key : AddQueryRule(key)
         \/ ClearQueryRules \/ QueryMasterServer
  PROVE  BrowserInv'
<1>1. UNCHANGED <<serverList, replies, gameServerList, crashed, listed>>
  BY DEF AddQueryRule, ClearQueryRules, QueryMasterServer
<1>2. ServerListInv' /\ RepliesInv' /\ ShownInv'
  BY <1>1
  DEF BrowserInv, ServerListInv, RepliesInv, ShownInv, IsTrue, IsBelievable, NoRuleIsInvented, Shown
<1>3. QueriesInv'
  <2>1. ruleIdentifierList \in Seq(Key) /\ queries \in Seq(Seq(Key))
    BY DEF BrowserInv, QueriesInv
  <2>2. CASE \E key \in Key : AddQueryRule(key)
    BY <2>1, <2>2 DEF AddQueryRule, QueriesInv
  <2>3. CASE ClearQueryRules
    BY <2>1, <2>3 DEF ClearQueryRules, QueriesInv
  <2>4. CASE QueryMasterServer
    <3>1. queries' = Append(queries, ruleIdentifierList) /\ UNCHANGED ruleIdentifierList
      BY <2>4 DEF QueryMasterServer
    <3> DEFINE Query == Seq(Key)
    <3> HIDE DEF Query
    <3>2. queries \in Seq(Query) /\ ruleIdentifierList \in Query
      BY <2>1 DEF Query
    <3>3. queries' \in Seq(Query)
      BY <3>1, <3>2
    <3>4. QED
      BY <2>1, <3>1, <3>3 DEF Query, QueriesInv
  <2>5. QED
    BY <2>2, <2>3, <2>4
<1>4. QED
  BY <1>2, <1>3 DEF BrowserInv

\* The reply to a query for everything is full, and every reply is true.
LEMMA HandleQueryKeeps ==
  ASSUME BrowserInv, HandleQuery
  PROVE  BrowserInv'
<1> DEFINE N == Len(replies)
<1>0. PICK reply \in IF Head(queries) = <<>> THEN {SetReply} ELSE UpdateReplies(Head(queries)) :
        replies' = Append(replies, reply)
  BY DEF HandleQuery
<1>1. /\ queries' = Tail(queries) /\ queries # <<>> /\ replies' = Append(replies, reply)
      /\ UNCHANGED <<serverList, ruleIdentifierList, gameServerList, crashed, listed>>
  BY <1>0 DEF HandleQuery
<1>2. Head(queries) \in Seq(Key) /\ queries' \in Seq(Seq(Key))
  BY <1>1 DEF BrowserInv, QueriesInv
<1>3. /\ reply \in Reply /\ (reply.overwrite => IsFull(reply))
      /\ \A j \in DOMAIN reply.servers : IsBelievable(reply.servers[j], listed)
  <2>1. ServerListInv
    BY DEF BrowserInv
  <2>2. CASE Head(queries) = <<>>
    <3>1. reply = SetReply
      BY <1>0, <2>2
    <3>2. QED
      BY <2>1, <3>1, SetReplyIs
  <2>3. CASE Head(queries) # <<>>
    <3>1. reply \in UpdateReplies(Head(queries))
      BY <1>0, <2>3
    <3>2. QED
      BY <1>2, <2>1, <3>1, UpdateReplyIs
  <2>4. QED
    BY <2>2, <2>3
<1>4. /\ replies \in Seq(Reply) /\ N \in Nat /\ DOMAIN replies = 1 .. N
      /\ \A i \in 1 .. N :
           /\ \A j \in DOMAIN replies[i].servers : IsBelievable(replies[i].servers[j], listed)
           /\ replies[i].overwrite => IsFull(replies[i])
  BY DEF BrowserInv, RepliesInv
<1> DEFINE new == Append(replies, reply)
<1>5. /\ new \in Seq(Reply) /\ DOMAIN new = 1 .. N + 1 /\ new[N + 1] = reply
      /\ \A i \in 1 .. N : new[i] = replies[i]
      /\ \A i \in 1 .. N + 1 : i = N + 1 \/ i \in 1 .. N
  BY <1>3, <1>4
<1> HIDE DEF new, N
<1>6. \A i \in DOMAIN new :
        /\ \A j \in DOMAIN new[i].servers : IsBelievable(new[i].servers[j], listed)
        /\ new[i].overwrite => IsFull(new[i])
  BY <1>3, <1>4, <1>5
<1>7. replies' = new /\ listed' = listed
  BY <1>1 DEF new
<1>8. RepliesInv'
  BY <1>5, <1>6, <1>7 DEF RepliesInv, IsBelievable, IsTrue
<1>9. ServerListInv' /\ ShownInv'
  BY <1>1 DEF BrowserInv, ServerListInv, ShownInv, IsTrue, IsBelievable, NoRuleIsInvented, Shown
<1>10. QueriesInv'
  BY <1>1, <1>2 DEF BrowserInv, QueriesInv
<1>11. QED
  BY <1>8, <1>9, <1>10 DEF BrowserInv

\* The list that a reply leaves, whichever servers are thrown out of it.
LEMMA ResponseKeeps ==
  ASSUME BrowserInv, NEW i \in 1 .. MaxReplies, HandleServerListResponse(i)
  PROVE  BrowserInv'
<1> DEFINE reply == replies[i]
           N == Len(reply.servers)
<1>1. i \in DOMAIN replies /\ replies' = RemoveAt(replies, i)
      /\ UNCHANGED <<serverList, ruleIdentifierList, queries, listed>>
  BY DEF HandleServerListResponse
<1>2. /\ reply \in Reply /\ \A j \in DOMAIN reply.servers : IsBelievable(reply.servers[j], listed)
      /\ replies \in Seq(Reply) /\ ShownInv
  BY <1>1 DEF BrowserInv, RepliesInv
<1>3. PICK uninitialized \in BOOLEAN :
        LET client == AllUpdated(reply, uninitialized)
        IN /\ crashed' = client.crashed
           /\ gameServerList' = IF client.crashed
                                THEN client.servers
                                ELSE Restrict(client.servers,
                                       DOMAIN client.servers \ Outdated(client.servers))
  BY DEF HandleServerListResponse
<1> DEFINE client == AllUpdated(reply, uninitialized)
<1> HIDE DEF reply
<1>4. client \in Clients
  <2>1. PICK h \in [0 .. N -> Clients] : client = h[N]
    BY <1>2, AllUpdatedIs
  <2>2. N \in 0 .. N
    BY <1>2 DEF Reply
  <2>3. QED
    BY <2>1, <2>2
<1> HIDE DEF client
<1> DEFINE kept == DOMAIN client.servers \ Outdated(client.servers)
<1>5. crashed' = client.crashed /\ gameServerList' \in {client.servers,
                                                       [id \in kept |-> client.servers[id]]}
  BY <1>3 DEF client, Restrict
<1>6. /\ client.crashed \in BOOLEAN /\ client.servers \in Lists
      /\ \A id \in DOMAIN client.servers :
           client.servers[id].misread \/ RulesOf(id, client.servers[id].rules) \subseteq listed
  BY <1>4 DEF Clients
<1>7. PICK ids \in SUBSET ServerID : client.servers \in [ids -> ServerShown]
  BY <1>6 DEF Lists
<1>8. kept \in SUBSET ids /\ ids = DOMAIN client.servers
  BY <1>7
<1> HIDE DEF kept
<1>9. [id \in kept |-> client.servers[id]] \in [kept -> ServerShown] /\ kept \in SUBSET ServerID
  BY <1>7, <1>8
<1>10. gameServerList' \in Lists
  BY <1>5, <1>6, <1>9 DEF Lists
<1>11. \A id \in DOMAIN gameServerList' :
         gameServerList'[id].misread \/ RulesOf(id, gameServerList'[id].rules) \subseteq listed
  BY <1>5, <1>6, <1>8
<1>12. ShownInv'
  BY <1>1, <1>5, <1>6, <1>10, <1>11 DEF ShownInv, NoRuleIsInvented, Shown
<1>13. RepliesInv'
  <2> DEFINE new == RemoveAt(replies, i)
  <2>1. /\ new \in Seq(Reply) /\ Len(new) = Len(replies) - 1
        /\ \A j \in 1 .. Len(replies) - 1 : new[j] = replies[IF j < i THEN j ELSE j + 1]
    BY <1>1, <1>2, RemovedAt
  <2> HIDE DEF new
  <2>2. /\ DOMAIN new = 1 .. Len(replies) - 1 /\ DOMAIN replies = 1 .. Len(replies)
        /\ Len(replies) \in Nat
    BY <1>2, <2>1
  <2>3. \A j \in DOMAIN new : \E k \in DOMAIN replies : new[j] = replies[k]
    BY <2>1, <2>2
  <2>4. \A j \in DOMAIN new :
          /\ \A k \in DOMAIN new[j].servers : IsBelievable(new[j].servers[k], listed)
          /\ new[j].overwrite => IsFull(new[j])
    BY <2>3 DEF BrowserInv, RepliesInv
  <2>5. replies' = new /\ listed' = listed
    BY <1>1 DEF new
  <2>6. QED
    BY <2>1, <2>4, <2>5 DEF RepliesInv
<1>14. ServerListInv' /\ QueriesInv'
  BY <1>1 DEF BrowserInv, ServerListInv, QueriesInv
<1>15. QED
  BY <1>12, <1>13, <1>14 DEF BrowserInv

\* A new millisecond changes no rules.
LEMMA TickKeeps ==
  ASSUME BrowserInv, Tick
  PROVE  BrowserInv'
<1>1. /\ gameServerList' = [id \in Shown |-> [gameServerList[id] EXCEPT !.updated = FALSE]]
      /\ UNCHANGED <<serverList, ruleIdentifierList, queries, replies, crashed, listed>>
  BY DEF Tick
<1>2. PICK ids \in SUBSET ServerID : gameServerList \in [ids -> ServerShown]
  BY DEF BrowserInv, ShownInv, Lists
<1>3. ids = Shown /\ \A id \in ids : gameServerList[id] \in ServerShown
  BY <1>2 DEF Shown
<1>4. \A id \in ids : LET new == [gameServerList[id] EXCEPT !.updated = FALSE]
                      IN  new \in ServerShown /\ new.rules = gameServerList[id].rules
                           /\ new.misread = gameServerList[id].misread
  BY <1>3 DEF ServerShown
<1>5. gameServerList' \in [ids -> ServerShown] /\ Shown' = Shown
      /\ \A id \in ids : /\ gameServerList'[id].rules = gameServerList[id].rules
                         /\ gameServerList'[id].misread = gameServerList[id].misread
  BY <1>1, <1>3, <1>4 DEF Shown
<1>6. gameServerList' \in Lists
  BY <1>2, <1>5 DEF Lists
<1>7. ShownInv'
  BY <1>1, <1>3, <1>5, <1>6 DEF BrowserInv, ShownInv, NoRuleIsInvented
<1>8. ServerListInv' /\ QueriesInv' /\ RepliesInv'
  BY <1>1 DEF BrowserInv, ServerListInv, QueriesInv, RepliesInv
<1>9. QED
  BY <1>7, <1>8 DEF BrowserInv

\* Nothing is listed, under way or shown at the start.
LEMMA InitialInv ==
  ASSUME Init
  PROVE  BrowserInv
<1>1. ServerListInv /\ QueriesInv /\ RepliesInv
  BY DEF Init, ServerListInv, QueriesInv, RepliesInv, Distinct
<1>2. gameServerList \in [{} -> ServerShown] /\ {} \in SUBSET ServerID
  BY DEF Init
<1>3. gameServerList \in Lists
  BY <1>2 DEF Lists
<1>4. ShownInv
  BY <1>2, <1>3 DEF Init, ShownInv, NoRuleIsInvented, Shown
<1>5. QED
  BY <1>1, <1>4 DEF BrowserInv

\* Every step keeps the invariant.
LEMMA StepKeeps ==
  ASSUME BrowserInv, [Next]_vars
  PROVE  BrowserInv'
<1>1. CASE \E id \in ServerID : Delist(id) \/ \E rules \in Rules : Upload(id, rules)
  BY <1>1, DelistKeeps, UploadKeeps
<1>2. CASE (\E key \in Key : AddQueryRule(key)) \/ ClearQueryRules \/ QueryMasterServer
  BY <1>2, QueryKeeps
<1>3. CASE HandleQuery
  BY <1>3, HandleQueryKeeps
<1>4. CASE \E i \in 1 .. MaxReplies : HandleServerListResponse(i)
  BY <1>4, ResponseKeeps
<1>5. CASE Tick
  BY <1>5, TickKeeps
<1>6. CASE UNCHANGED vars
  BY <1>6
  DEF vars, BrowserInv, ServerListInv, QueriesInv, RepliesInv, ShownInv, NoRuleIsInvented,
      Shown
<1>7. QED
  BY <1>1, <1>2, <1>3, <1>4, <1>5, <1>6 DEF Next

\* Lists, queries and replies have their types; the master server's list has each server
\* once; replies and what is shown have only rules that the server was listed with; and a
\* reply to a query for everything is full.
THEOREM BrowserIsSound == Spec => []BrowserInv
<1>1. Init => BrowserInv
  BY InitialInv
<1>2. BrowserInv /\ [Next]_vars => BrowserInv'
  BY StepKeeps
<1>3. QED
  BY <1>1, <1>2, PTL DEF Spec

\* The client shows no rule that the server was never listed with.
THEOREM NothingIsInvented == Spec => []NoRuleIsInvented
<1>1. BrowserInv => NoRuleIsInvented
  BY DEF BrowserInv, ShownInv
<1>2. QED
  BY <1>1, BrowserIsSound, PTL

-----------------------------------------------------------------------------
(* Queries for everything *)

\* The client after the first n servers of a full reply.
FilledTo(c, reply, n) ==
  LET first == {reply.servers[m].id : m \in 1 .. n}
  IN  /\ ~c.crashed
      /\ DOMAIN c.servers = Shown \cup first
      /\ \A m \in 1 .. n :
           c.servers[reply.servers[m].id]
             = [rules |-> reply.servers[m].rules, updated |-> TRUE, misread |-> FALSE]
      /\ \A id \in Shown \ first : c.servers[id] = gameServerList[id]

\* UpdateServerList adds the next server of a full reply, which is none of those before.
LEMMA OneMoreFilled ==
  ASSUME NEW c \in Clients, NEW reply \in Reply, reply.overwrite, IsFull(reply),
         NEW n \in 1 .. Len(reply.servers), FilledTo(c, reply, n - 1)
  PROVE  FilledTo(UpdateServerList(c, reply.servers[n], reply.overwrite), reply, n)
<1> DEFINE servers == reply.servers
           s == servers[n]
           old == c.servers
           rules == IF s.id \in DOMAIN old
                    THEN UpdateServer(old[s.id].rules, s.rules, TRUE) ELSE s.rules
           misread == s.misread \/ (FALSE /\ s.id \in DOMAIN old /\ old[s.id].misread)
           new == [rules |-> rules, updated |-> TRUE, misread |-> misread]
           list == [id \in DOMAIN old \cup {s.id} |-> IF id = s.id THEN new ELSE old[id]]
           next == UpdateServerList(c, s, reply.overwrite)
<1>1. /\ Len(servers) \in Nat /\ DOMAIN servers = 1 .. Len(servers)
      /\ \A m \in 1 .. Len(servers) : servers[m] \in ServerInReply
      /\ reply.overwrite = TRUE
  BY DEF Reply
<1>2. s.complete /\ s.misread = FALSE /\ s.rules \in Rules /\ \A m \in 1 .. n - 1 : servers[m].id # s.id
  BY <1>1 DEF IsFull, Distinct, ServerInReply
<1>3. next = [c EXCEPT !.servers = list, !.newServerAdded = s.id \notin DOMAIN old]
  BY <1>1, <1>2 DEF UpdateServerList, FilledTo
<1>4. c \in [servers : Lists, newServerAdded : BOOLEAN, crashed : BOOLEAN]
  BY DEF Clients
<1>5. rules = s.rules /\ misread = FALSE
  BY <1>2 DEF UpdateServer, Rules
<1> HIDE DEF servers, s, rules, misread
<1>6. next.servers = list /\ next.crashed = c.crashed
  BY <1>3, <1>4
<1> HIDE DEF next, old
<1>7. /\ DOMAIN list = DOMAIN old \cup {s.id}
      /\ list[s.id] = [rules |-> s.rules, updated |-> TRUE, misread |-> FALSE]
      /\ \A id \in DOMAIN old \ {s.id} : list[id] = old[id]
  BY <1>5
<1> HIDE DEF list
<1> DEFINE before == {servers[m].id : m \in 1 .. n - 1}
           first == {servers[m].id : m \in 1 .. n}
<1>8. first = before \cup {s.id}
  <2>1. 1 .. n = (1 .. n - 1) \cup {n}
    BY <1>1
  <2>2. QED
    BY <2>1 DEF s
<1>9. /\ ~c.crashed /\ DOMAIN old = Shown \cup before
      /\ \A m \in 1 .. n - 1 :
           old[servers[m].id] = [rules |-> servers[m].rules, updated |-> TRUE, misread |-> FALSE]
      /\ \A id \in Shown \ before : old[id] = gameServerList[id]
  BY DEF FilledTo, servers, old
<1>10. ASSUME NEW m \in 1 .. n
       PROVE  list[servers[m].id] = [rules |-> servers[m].rules, updated |-> TRUE, misread |-> FALSE]
  <2>1. CASE m = n
    BY <1>7, <2>1 DEF s
  <2>2. CASE m # n
    <3>1. m \in 1 .. n - 1
      BY <1>1, <2>2
    <3>2. QED
      BY <1>2, <1>7, <1>9, <3>1
  <2>3. QED
    BY <2>1, <2>2
<1>11. DOMAIN list = Shown \cup first /\ \A id \in Shown \ first : list[id] = gameServerList[id]
  BY <1>7, <1>8, <1>9
<1>12. FilledTo(next, reply, n)
  BY <1>6, <1>9, <1>10, <1>11 DEF FilledTo, servers
<1>13. QED
  BY <1>12 DEF next, s, servers

\* The loop leaves the servers of a full reply with its rules, and the others as they were.
LEMMA AllFilled ==
  ASSUME ShownInv, NEW reply \in Reply, reply.overwrite, IsFull(reply),
         \A i \in DOMAIN reply.servers : IsBelievable(reply.servers[i], listed),
         NEW uninitialized \in BOOLEAN
  PROVE  FilledTo(AllUpdated(reply, uninitialized), reply, Len(reply.servers))
<1> DEFINE N == Len(reply.servers)
<1>1. N \in Nat
  BY DEF Reply
<1>2. PICK h \in [0 .. N -> Clients] :
        /\ AllUpdated(reply, uninitialized) = h[N]
        /\ h[0] = [servers |-> gameServerList, newServerAdded |-> uninitialized,
                   crashed |-> FALSE]
        /\ \A n \in 1 .. N :
             h[n] = UpdateServerList(h[n - 1], reply.servers[n], reply.overwrite)
  BY AllUpdatedIs
<1> DEFINE T == {n \in 0 .. N : FilledTo(h[n], reply, n)}
<1>3. 0 \in T
  <2>1. 1 .. 0 = {}
    OBVIOUS
  <2>2. {reply.servers[m].id : m \in 1 .. 0} = {}
    BY <2>1
  <2>3. h[0].servers = gameServerList /\ h[0].crashed = FALSE
    BY <1>2
  <2>4. FilledTo(h[0], reply, 0)
    BY <2>1, <2>2, <2>3 DEF FilledTo, Shown
  <2>5. QED
    BY <1>1, <2>4
<1>4. ASSUME NEW n \in 1 .. N, n - 1 \in T PROVE n \in T
  <2>1. n - 1 \in 0 .. N /\ n \in 0 .. N /\ h[n - 1] \in Clients /\ FilledTo(h[n - 1], reply, n - 1)
    BY <1>1, <1>2, <1>4
  <2>2. FilledTo(UpdateServerList(h[n - 1], reply.servers[n], reply.overwrite), reply, n)
    BY <2>1, OneMoreFilled
  <2>3. QED
    BY <1>2, <2>1, <2>2
<1> HIDE DEF T
<1>5. N \in 0 .. N
  BY <1>1
<1>6. N \in T
  BY <1>1, <1>3, <1>4, <1>5, Upwards
<1>7. QED
  BY <1>2, <1>6 DEF T

\* The servers that a full reply lacks are the outdated ones; they are thrown out.
LEMMA FullReplyIsShown ==
  ASSUME BrowserInv, NEW i \in DOMAIN replies, HandleServerListResponse(i),
         replies[i].overwrite, \A id \in Shown : ~gameServerList[id].updated
  PROVE  /\ RulesShown' = {[id |-> s.id, rules |-> s.rules] : s \in Range(replies[i].servers)}
         /\ \A id \in Shown' : ~gameServerList'[id].misread
<1> DEFINE reply == replies[i]
           servers == reply.servers
           N == Len(servers)
<1>1. /\ reply \in Reply /\ \A j \in DOMAIN servers : IsBelievable(servers[j], listed)
      /\ ShownInv /\ IsFull(reply)
  BY DEF BrowserInv, RepliesInv
<1>2. PICK uninitialized \in BOOLEAN :
        LET client == AllUpdated(reply, uninitialized)
        IN  gameServerList' = IF client.crashed
                              THEN client.servers
                              ELSE Restrict(client.servers,
                                     DOMAIN client.servers \ Outdated(client.servers))
  BY DEF HandleServerListResponse
<1> DEFINE client == AllUpdated(reply, uninitialized)
           ids == {servers[m].id : m \in 1 .. N}
<1>3. /\ ~client.crashed /\ DOMAIN client.servers = Shown \cup ids
      /\ \A m \in 1 .. N :
           client.servers[servers[m].id] = [rules |-> servers[m].rules, updated |-> TRUE, misread |-> FALSE]
      /\ \A id \in Shown \ ids : client.servers[id] = gameServerList[id]
  BY <1>1, AllFilled DEF FilledTo
<1> HIDE DEF client
<1>4. Outdated(client.servers) = Shown \ ids
  <2>1. ASSUME NEW id \in ids PROVE client.servers[id].updated
    <3>1. PICK m \in 1 .. N : id = servers[m].id
      OBVIOUS
    <3>2. client.servers[id] = [rules |-> servers[m].rules, updated |-> TRUE, misread |-> FALSE]
      BY <1>3, <3>1
    <3>3. QED
      BY <3>2
  <2>2. ASSUME NEW id \in Shown \ ids PROVE ~client.servers[id].updated
    <3>1. client.servers[id] = gameServerList[id]
      BY <1>3
    <3>2. QED
      BY <3>1
  <2>3. DOMAIN client.servers = Shown \cup ids
    BY <1>3
  <2> HIDE DEF ids
  <2>4. QED
    BY <2>1, <2>2, <2>3 DEF Outdated
<1>5. DOMAIN client.servers \ Outdated(client.servers) = ids
  BY <1>3, <1>4
<1>6. gameServerList' = [id \in ids |-> client.servers[id]]
  BY <1>2, <1>3, <1>5 DEF Restrict, client
<1>7. /\ Shown' = ids
      /\ \A m \in 1 .. N : gameServerList'[servers[m].id].rules = servers[m].rules
                           /\ ~gameServerList'[servers[m].id].misread
  <2>1. Shown' = ids
    BY <1>6 DEF Shown
  <2>2. ASSUME NEW m \in 1 .. N
        PROVE  /\ gameServerList'[servers[m].id].rules = servers[m].rules
               /\ ~gameServerList'[servers[m].id].misread
    <3>1. servers[m].id \in ids
      OBVIOUS
    <3>2. client.servers[servers[m].id] = [rules |-> servers[m].rules, updated |-> TRUE, misread |-> FALSE]
      BY <1>3
    <3> HIDE DEF ids, servers
    <3>3. gameServerList'[servers[m].id] = client.servers[servers[m].id]
      BY <1>6, <3>1
    <3>4. QED
      BY <3>2, <3>3
  <2>3. QED
    BY <2>1, <2>2
<1>8. DOMAIN servers = 1 .. N
  BY <1>1 DEF Reply
<1> HIDE DEF servers
<1>9. RulesShown' = {[id |-> servers[m].id, rules |-> servers[m].rules] : m \in 1 .. N}
  BY <1>7 DEF RulesShown
<1>10. \A id \in Shown' : ~gameServerList'[id].misread
  BY <1>7
<1>11. QED
  BY <1>8, <1>9, <1>10 DEF Range, servers

\* A reply to a query for everything is what the client shows after it, whatever it showed
\* before, if no other reply was handled in the same millisecond.
THEOREM FullQueriesShowTheList == Spec => FullQueryShowsTheList
<1> DEFINE Full(i) == /\ HandleServerListResponse(i)
                      /\ replies[i].overwrite
                      /\ \A id \in Shown : ~gameServerList[id].updated
           Step == \A i \in DOMAIN replies : Full(i) =>
                     /\ RulesShown' = {[id |-> s.id, rules |-> s.rules] :
                                         s \in Range(replies[i].servers)}
                     /\ \A id \in Shown' : ~gameServerList'[id].misread
<1>1. BrowserInv => Step
  BY FullReplyIsShown
<1>2. BrowserInv /\ [Next]_vars => [Step]_vars
  BY <1>1
<1>3. [][Step]_vars => FullQueryShowsTheList
  BY PTL DEF FullQueryShowsTheList
<1>4. QED
  BY <1>2, <1>3, BrowserIsSound, PTL DEF Spec
=============================================================================
