------------------------ MODULE ServerListSortProofs ------------------------
(***************************************************************************)
(* Of ServerListSort, for every list of servers and whatever rules they     *)
(* lack: the sort stays in the array, and no server is lost.  And if they   *)
(* lack none, the list that it leaves is sorted.                            *)
(*                                                                         *)
(* What keeps the scans in the array is not the order of the servers but    *)
(* the bounds that each scan carries: `left` stays below the high end of    *)
(* the interval, `right` only above 0.  So an interval that QuickSort is    *)
(* called with may reach one place beyond either end of the array, and      *)
(* Partition is never called with that one.                                 *)
(***************************************************************************)
EXTENDS ServerListSort, FunctionTheorems, FiniteSetTheorems, SequenceTheorems, TLAPS

Index == 0 .. LastIndex

LEMMA Indices == LastIndex \in Int /\ LastIndex >= -1 /\ Index \subseteq Nat
<1>1. Cardinality(Server) \in Nat
  BY SortAssumption, FS_CardinalityType
<1>2. QED
  BY <1>1 DEF LastIndex, Index

\* The servers from index 0, as Init puts them there, are all of them.
LEMMA InitialList ==
  LET list == [i \in Index |-> SetToSeq(Server)[i + 1]]
  IN list \in [Index -> Server] /\ Range(list) = Server
<1> DEFINE places == 1 .. Cardinality(Server)
           list == [i \in Index |-> SetToSeq(Server)[i + 1]]
<1>1. Cardinality(Server) \in Nat /\ ExistsBijection(places, Server)
  BY SortAssumption, FS_CardinalityType
<1>2. PICK g \in Bijection(places, Server) : TRUE
  BY <1>1 DEF ExistsBijection
<1>3. g \in [places -> Server] /\ IsInjective(g)
  BY <1>2 DEF Bijection, Injection
<1>4. SetToSeq(Server) \in [places -> Server] /\ IsInjective(SetToSeq(Server))
  BY <1>3 DEF SetToSeq
<1>5. SetToSeq(Server) \in Injection(places, Server)
  BY <1>4 DEF Injection
<1>6. Cardinality(places) = Cardinality(Server) /\ IsFiniteSet(places)
  BY <1>1, FS_Interval
<1>7. SetToSeq(Server) \in Surjection(places, Server)
  BY <1>5, <1>6, SortAssumption, FS_Injection
<1>8. \A s \in Server : \E n \in places : SetToSeq(Server)[n] = s
  BY <1>7 DEF Surjection
<1> HIDE DEF places
<1>9. \A i \in Index : i + 1 \in places
  BY <1>1 DEF places, Index, LastIndex
<1>10. \A n \in places : n - 1 \in Index /\ (n - 1) + 1 = n
  BY <1>1 DEF places, Index, LastIndex
<1>11. list \in [Index -> Server]
  BY <1>4, <1>9
<1>12. \A s \in Server : \E i \in Index : list[i] = s
  <2> SUFFICES ASSUME NEW s \in Server PROVE \E i \in Index : list[i] = s
    OBVIOUS
  <2>1. PICK n \in places : SetToSeq(Server)[n] = s
    BY <1>8
  <2>2. list[n - 1] = s
    BY <2>1, <1>10
  <2>3. QED
    BY <2>2, <1>10
<1>13. QED
  BY <1>11, <1>12, Fun_IsSurj, Fun_SurjectionProperties
-----------------------------------------------------------------------------
(* The scans *)

\* A set of natural numbers has a least element.
LEMMA Least ==
  ASSUME NEW T \in SUBSET Nat, T # {}
  PROVE  \E x \in T : \A y \in T : x <= y
<1> DEFINE Below == {p \in Nat \X Nat : p[1] < p[2]}
<1>1. IsWellFoundedOn(Below, Nat)
  BY NatLessThanWellFounded DEF OpToRel
<1>2. PICK x \in T : \A y \in T : <<y, x>> \notin Below
  <2> HIDE DEF Below
  <2>1. QED
    BY <1>1, WFMin
<1>3. ASSUME NEW y \in T PROVE x <= y
  <2>1. x \in Nat /\ y \in Nat /\ ~(y < x)
    BY <1>2
  <2>2. QED
    BY <2>1
<1>4. QED
  BY <1>3

\* Each scan stops within its bounds, wherever it starts and whatever it passes over:
\* at the first server that it may not pass over, or at the bound.
LEMMA LeftStops ==
  ASSUME scan.left \in Nat, scan.high \in Nat, scan.left <= scan.high, NEW pivot
  PROVE  LET i == LeftStop(pivot) IN
         /\ i \in scan.left .. scan.high
         /\ i = scan.high \/ ~ BelongsLeft(serverList[i], pivot)
         /\ \A j \in scan.left .. i - 1 : BelongsLeft(serverList[j], pivot)
<1> DEFINE Stops(i) == i = scan.high \/ ~ BelongsLeft(serverList[i], pivot)
           T == {i \in scan.left .. scan.high : Stops(i)}
<1>1. T \subseteq Nat /\ scan.high \in T
  OBVIOUS
<1>2. PICK i \in T : \A j \in T : i <= j
  BY <1>1, Least
<1>3. i \in scan.left .. scan.high /\ Stops(i)
  OBVIOUS
<1>4. ASSUME NEW j \in scan.left .. i - 1
      PROVE  BelongsLeft(serverList[j], pivot)
  <2>1. j \in scan.left .. scan.high /\ ~(i <= j)
    BY <1>3
  <2>2. j \notin T
    BY <2>1, <1>2
  <2>3. QED
    BY <2>1, <2>2
<1>5. QED
  BY <1>3, <1>4 DEF LeftStop

LEMMA RightStops ==
  ASSUME scan.right \in Nat, NEW pivot
  PROVE  LET i == RightStop(pivot) IN
         /\ i \in 0 .. scan.right
         /\ i = 0 \/ ~ BelongsRight(serverList[i], pivot)
         /\ \A j \in i + 1 .. scan.right : BelongsRight(serverList[j], pivot)
<1> DEFINE Stops(i) == i = 0 \/ ~ BelongsRight(serverList[i], pivot)
           T == {n \in 0 .. scan.right : Stops(scan.right - n)}
<1>1. T \subseteq Nat /\ scan.right \in T
  OBVIOUS
<1>2. PICK n \in T : \A m \in T : n <= m
  BY <1>1, Least
<1> DEFINE i == scan.right - n
<1>3. n \in 0 .. scan.right /\ i \in 0 .. scan.right /\ Stops(i)
  OBVIOUS
<1>4. ASSUME NEW j \in i + 1 .. scan.right
      PROVE  BelongsRight(serverList[j], pivot)
  <2>1. /\ scan.right - j \in 0 .. scan.right /\ ~(n <= scan.right - j)
        /\ scan.right - (scan.right - j) = j
    BY <1>3
  <2>2. scan.right - j \notin T
    BY <2>1, <1>2
  <2>3. QED
    BY <2>1, <2>2
<1> HIDE DEF i
<1>5. QED
  BY <1>3, <1>4 DEF RightStop
-----------------------------------------------------------------------------
(* The invariant *)

Interval == (0 .. LastIndex + 1) \X (-1 .. LastIndex)

Bounds ==
  {b \in [low : Index, high : Index, left : Index, right : Index] :
     b.left <= b.high /\ b.right <= b.high}

SortInv ==
  /\ serverList \in [Index -> Server] /\ Range(serverList) = Server
  /\ calls \in Seq(Interval)
  /\ scan # NULL => scan \in Bounds

\* Two servers change places: the list holds the same ones.
LEMMA SwappedKeeps ==
  ASSUME SortInv, NEW i \in Index, NEW j \in Index
  PROVE  Swapped(i, j) \in [Index -> Server] /\ Range(Swapped(i, j)) = Server
<1> DEFINE list == Swapped(i, j)
<1>1. serverList \in [Index -> Server]
  BY DEF SortInv
<1>2. list \in [Index -> Server]
  BY <1>1 DEF Swapped
<1>3. \A k \in Index : list[k] = IF k = j THEN serverList[i]
                                 ELSE IF k = i THEN serverList[j] ELSE serverList[k]
  BY <1>1 DEF Swapped
<1>4. \A s \in Server : \E k \in Index : serverList[k] = s
  BY <1>1 DEF SortInv, Range
<1> HIDE DEF list
<1>5. \A s \in Server : \E k \in Index : list[k] = s
  BY <1>3, <1>4
<1>6. Range(list) = Server
  BY <1>2, <1>5, Fun_IsSurj, Fun_SurjectionProperties
<1>7. QED
  BY <1>2, <1>6 DEF list

LEMMA SortOnKeyKeeps ==
  ASSUME SortInv, NEW up \in BOOLEAN, SortOnKey(up)
  PROVE  SortInv'
<1>1. <<0, LastIndex>> \in Interval
  BY Indices DEF Interval
<1>2. calls' \in Seq(Interval)
  BY <1>1 DEF SortOnKey
<1>3. QED
  BY <1>2 DEF SortOnKey, SortInv

LEMMA QuickSortKeeps ==
  ASSUME SortInv, QuickSort
  PROVE  SortInv'
<1>1. Head(calls) \in Interval /\ calls' \in Seq(Interval)
  BY DEF QuickSort, SortInv
<1>2. PICK low \in 0 .. LastIndex + 1, high \in -1 .. LastIndex : Head(calls) = <<low, high>>
  BY <1>1 DEF Interval
<1>3. scan' # NULL =>
        high > low /\ scan' = [low |-> low, high |-> high, left |-> low, right |-> high]
  BY <1>2 DEF QuickSort
<1>4. high > low => low \in Index /\ high \in Index /\ low <= high /\ high <= high
  BY <1>2, Indices DEF Index
<1>5. scan' # NULL => scan' \in Bounds
  BY <1>3, <1>4 DEF Bounds
<1>6. serverList' = serverList
  BY DEF QuickSort
<1>7. QED
  BY <1>1, <1>5, <1>6 DEF SortInv

LEMMA ScanKeeps ==
  ASSUME SortInv, Scan
  PROVE  SortInv'
<1> DEFINE pivot == serverList[scan.low]
           left  == LeftStop(pivot)
           right == RightStop(pivot)
<1>1. scan \in Bounds
  BY DEF SortInv, Scan
<1>2. /\ scan \in [low : Index, high : Index, left : Index, right : Index]
      /\ scan.left <= scan.high /\ scan.right <= scan.high
      /\ {scan.left, scan.high, scan.right} \subseteq Nat
  BY <1>1, Indices DEF Bounds
<1>3. left \in scan.left .. scan.high /\ right \in 0 .. scan.right
  BY <1>2, LeftStops, RightStops
<1>4. /\ scan' = [scan EXCEPT !.left = left, !.right = right]
      /\ serverList' = IF left < right THEN Swapped(left, right) ELSE serverList
      /\ calls' = calls
  BY DEF Scan
<1> HIDE DEF left, right
<1>5. left \in Index /\ right \in Index /\ left <= scan.high /\ right <= scan.high
  BY <1>2, <1>3, Indices DEF Index
<1>6. scan' \in Bounds
  BY <1>2, <1>4, <1>5 DEF Bounds
<1>7. serverList' \in [Index -> Server] /\ Range(serverList') = Server
  BY <1>4, <1>5, SwappedKeeps DEF SortInv
<1>8. QED
  BY <1>4, <1>6, <1>7 DEF SortInv

LEMMA PlaceKeeps ==
  ASSUME SortInv, Place
  PROVE  SortInv'
<1>1. scan \in Bounds
  BY DEF SortInv, Place
<1>2. scan.low \in Index /\ scan.right \in Index /\ scan.high \in Index
  BY <1>1 DEF Bounds
<1>3. /\ <<scan.low, scan.right - 1>> \in Interval
      /\ <<scan.right + 1, scan.high>> \in Interval
  BY <1>2, Indices DEF Interval, Index
<1>4. calls' \in Seq(Interval)
  BY <1>3 DEF Place, SortInv
<1>5. serverList' \in [Index -> Server] /\ Range(serverList') = Server
  BY <1>2, SwappedKeeps DEF Place
<1>6. QED
  BY <1>4, <1>5 DEF Place, SortInv

LEMMA SortInvHolds == Spec => []SortInv
<1>1. Init => SortInv
  BY InitialList DEF Init, SortInv, Index
<1>2. SortInv /\ [Next]_vars => SortInv'
  <2> SUFFICES ASSUME SortInv, [Next]_vars PROVE SortInv'
    OBVIOUS
  <2>1. CASE UNCHANGED vars
    BY <2>1 DEF vars, SortInv
  <2>2. QED
    BY <2>1, SortOnKeyKeeps, QuickSortKeeps, ScanKeeps, PlaceKeeps DEF Next, Sort
<1>3. QED
  BY <1>1, <1>2, PTL DEF Spec
-----------------------------------------------------------------------------
(* What a sort has done *)

\* The order asked for.
Before(s, t) == IF ascending THEN rule[s] <= rule[t] ELSE rule[s] >= rule[t]

\* Two places are together as long as an interval that is still to be sorted has both.
Together(i, j) ==
  \/ \E n \in DOMAIN calls : calls[n][1] <= i /\ j <= calls[n][2]
  \/ scan # NULL /\ scan.low <= i /\ j <= scan.high

\* Servers that are not together any more are in order.
OrderInv ==
  \A i, j \in Index : i < j => Before(serverList[i], serverList[j]) \/ Together(i, j)

\* The calls on the stack go on where the one before ends.
CallsInv ==
  /\ \A m, n \in DOMAIN calls : m < n => calls[m][2] < calls[n][1]
  /\ scan # NULL => \A n \in DOMAIN calls : scan.high < calls[n][1]

\* What the scans have passed belongs where it is, and the pivot is still at low.
ScanInv ==
  scan # NULL =>
    LET pivot == serverList[scan.low] IN
    /\ scan.low <= scan.left /\ scan.low <= scan.right /\ scan.low < scan.high
    /\ \A k \in scan.low .. scan.left - 1 : Before(serverList[k], pivot)
    /\ \A k \in scan.right + 1 .. scan.high : ~ Before(serverList[k], pivot)
    /\ scan.right <= scan.left => Before(serverList[scan.right], pivot)

Keyed == EveryServerHasTheRule /\ ~Idle

KeyInv ==
  /\ rule \in [Server -> Value \cup {NULL}] /\ ascending \in BOOLEAN
  /\ Keyed => OrderInv /\ CallsInv /\ ScanInv

LEMMA Orders ==
  ASSUME rule \in [Server -> Value \cup {NULL}], EveryServerHasTheRule,
         NEW s \in Server, NEW t \in Server
  PROVE  /\ Before(s, s)
         /\ ~ Before(s, t) => Before(t, s)
         /\ \A u \in Server : Before(s, t) /\ Before(t, u) => Before(s, u)
         /\ BelongsLeft(s, t) <=> Before(s, t)
         /\ BelongsRight(s, t) <=> ~ Before(s, t)
<1>1. \A u \in Server : rule[u] \in Int /\ rule[u] # NULL
  BY SortAssumption DEF EveryServerHasTheRule
<1>2. /\ EQ(s, t) <=> rule[s] = rule[t]
      /\ LT(s, t) <=> rule[s] < rule[t]
      /\ GT(s, t) <=> rule[s] > rule[t]
  BY <1>1 DEF LT, GT, EQ
<1>3. (LTEQ(s, t) <=> rule[s] <= rule[t]) /\ (GTEQ(s, t) <=> rule[s] >= rule[t])
  BY <1>1, <1>2 DEF LTEQ, GTEQ
<1>4. (BelongsLeft(s, t) <=> Before(s, t)) /\ (BelongsRight(s, t) <=> ~ Before(s, t))
  BY <1>1, <1>2, <1>3 DEF Before, BelongsLeft, BelongsRight
<1>5. Before(s, s) /\ (~ Before(s, t) => Before(t, s))
  BY <1>1 DEF Before
<1>6. \A u \in Server : Before(s, t) /\ Before(t, u) => Before(s, u)
  BY <1>1 DEF Before
<1>7. QED
  BY <1>4, <1>5, <1>6

\* The intervals on the stack are pairs of numbers.
LEMMA Calls ==
  ASSUME SortInv
  PROVE  /\ Len(calls) \in Nat /\ DOMAIN calls = 1 .. Len(calls)
         /\ \A n \in DOMAIN calls : calls[n] = <<calls[n][1], calls[n][2]>>
                                  /\ calls[n][1] \in Int /\ calls[n][2] \in Int
<1>1. calls \in Seq(Interval)
  BY DEF SortInv
<1>2. \A c \in Interval : c = <<c[1], c[2]>> /\ c[1] \in Int /\ c[2] \in Int
  BY Indices DEF Interval
<1>3. QED
  BY <1>1, <1>2

\* While two places of the interval that is scanned change places, the servers that are
\* not together stay in order.
LEMMA SwapOrders ==
  ASSUME SortInv, OrderInv, CallsInv, scan # NULL,
         NEW a \in scan.low .. scan.high, NEW b \in scan.low .. scan.high
  PROVE  \A i, j \in Index : i < j => Before(Swapped(a, b)[i], Swapped(a, b)[j]) \/ Together(i, j)
<1> DEFINE list == Swapped(a, b)
           In == scan.low .. scan.high
<1>1. scan.low \in Index /\ scan.high \in Index /\ Index \subseteq Nat
  BY Indices DEF SortInv, Bounds
<1>2. a \in Index /\ b \in Index /\ In \subseteq Index
  BY <1>1, Indices DEF Index
<1>3. \A k \in Index : list[k] = IF k = b THEN serverList[a]
                                 ELSE IF k = a THEN serverList[b] ELSE serverList[k]
  BY <1>2 DEF Swapped, SortInv
<1> HIDE DEF list
<1>4. ASSUME NEW k \in Index
      PROVE  \E m \in Index : /\ list[k] = serverList[m]
                             /\ IF k \in In THEN m \in In ELSE m = k
  <2>1. CASE k = b
    BY <1>2, <1>3, <2>1
  <2>2. CASE k # b /\ k = a
    BY <1>2, <1>3, <2>2
  <2>3. CASE k # b /\ k # a
    BY <1>3, <2>3
  <2>4. QED
    BY <2>1, <2>2, <2>3
<1>5. ASSUME NEW i \in Index, NEW j \in Index, i < j, ~Together(i, j)
      PROVE  Before(list[i], list[j])
  <2>1. PICK m \in Index : list[i] = serverList[m] /\ IF i \in In THEN m \in In ELSE m = i
    BY <1>4
  <2>2. PICK n \in Index : list[j] = serverList[n] /\ IF j \in In THEN n \in In ELSE n = j
    BY <1>4
  <2>3. ~(scan.low <= i /\ j <= scan.high)
    BY <1>5 DEF Together
  <2>4. i \in Nat /\ j \in Nat /\ m \in Nat /\ n \in Nat
    BY <1>1
  <2>5. scan.low \in Nat /\ scan.high \in Nat
    BY <1>1
  <2>6. m < n /\ ~(scan.low <= m /\ n <= scan.high)
    <3>1. /\ IF scan.low <= i /\ i <= scan.high
             THEN scan.low <= m /\ m <= scan.high ELSE m = i
          /\ IF scan.low <= j /\ j <= scan.high
             THEN scan.low <= n /\ n <= scan.high ELSE n = j
      BY <2>1, <2>2, <2>4, <2>5
    <3>2. \A l, h, i_, j_, m_, n_ \in Nat :
            /\ i_ < j_ /\ ~(l <= i_ /\ j_ <= h)
            /\ IF l <= i_ /\ i_ <= h THEN l <= m_ /\ m_ <= h ELSE m_ = i_
            /\ IF l <= j_ /\ j_ <= h THEN l <= n_ /\ n_ <= h ELSE n_ = j_
            => m_ < n_ /\ ~(l <= m_ /\ n_ <= h)
      OBVIOUS
    <3>3. QED
      BY <1>5, <2>3, <2>4, <2>5, <3>1, <3>2
  <2>7. ASSUME NEW q \in DOMAIN calls, calls[q][1] <= m, n <= calls[q][2]
        PROVE  FALSE
    <3>1. scan.high < calls[q][1] /\ calls[q][1] \in Int /\ calls[q][2] \in Int
      BY Calls DEF CallsInv
    <3>2. i = m /\ j = n
      <4>1. scan.high < m
        BY <2>4, <2>7, <2>5, <3>1
      <4>2. m \notin In /\ n \notin In
        BY <2>4, <2>6, <2>5, <4>1
      <4>3. QED
        BY <2>1, <2>2, <4>2
    <3>3. QED
      BY <1>5, <2>7, <3>2 DEF Together
  <2>8. ~Together(m, n)
    BY <2>6, <2>7 DEF Together
  <2>9. QED
    BY <2>1, <2>2, <2>6, <2>8 DEF OrderInv
<1>6. QED
  BY <1>5 DEF list
\* A sort begins with one interval, which has all servers.
LEMMA SortOnKeyOrders ==
  ASSUME NEW up \in BOOLEAN, SortOnKey(up)
  PROVE  OrderInv' /\ CallsInv' /\ ScanInv'
<1>1. scan' = NULL /\ calls' = << <<0, LastIndex>> >>
  BY DEF SortOnKey, Idle
<1>2. /\ DOMAIN calls' = {1} /\ calls'[1][1] = 0 /\ calls'[1][2] = LastIndex
  BY <1>1
<1>3. \A i, j \in Index : Together(i, j)'
  BY <1>2, Indices DEF Together, Index
<1>4. \A m, n \in DOMAIN calls' : ~(m < n)
  BY <1>2
<1>5. QED
  BY <1>1, <1>3, <1>4 DEF OrderInv, CallsInv, ScanInv

\* A call that does nothing has no two servers that are together; another is scanned.
LEMMA QuickSortOrders ==
  ASSUME SortInv, OrderInv, CallsInv, QuickSort
  PROVE  OrderInv' /\ CallsInv' /\ ScanInv'
<1> DEFINE low == calls[1][1]
           high == calls[1][2]
           N == Len(calls)
<1>1. /\ scan = NULL /\ calls \in Seq(Interval) /\ calls # <<>>
      /\ scan' = IF high > low THEN [low |-> low, high |-> high, left |-> low, right |-> high]
                 ELSE NULL
      /\ calls' = Tail(calls)
      /\ serverList' = serverList /\ rule' = rule /\ ascending' = ascending
  BY DEF QuickSort, SortInv
<1>2. /\ N \in Nat \ {0} /\ DOMAIN calls = 1 .. N
      /\ DOMAIN calls' = 1 .. N - 1 /\ \A n \in 1 .. N - 1 : calls'[n] = calls[n + 1]
  BY <1>1
<1>3. low \in Int /\ high \in Int /\ \A n \in 1 .. N : calls[n][1] \in Int /\ calls[n][2] \in Int
  BY <1>2, Calls
<1> HIDE DEF N, low, high
<1>4. scan' # NULL <=> high > low
  <2>1. low \in Int /\ high \in Int =>
          [low |-> low, high |-> high, left |-> low, right |-> high]
            \in [low : Int, high : Int, left : Int, right : Int]
    OBVIOUS
  <2>2. QED
    BY <1>1, <1>3, <2>1, SortAssumption
<1>5. scan' # NULL => /\ scan'.low = low /\ scan'.high = high
                      /\ scan'.left = low /\ scan'.right = high
  BY <1>1, <1>4
<1>6. ASSUME NEW i \in Index, NEW j \in Index, i < j, Together(i, j)
      PROVE  Together(i, j)'
  <2>1. PICK n \in 1 .. N : calls[n][1] <= i /\ j <= calls[n][2]
    BY <1>1, <1>2, <1>6 DEF Together
  <2>2. CASE n = 1
    <3>1. low <= i /\ j <= high
      BY <2>1, <2>2 DEF low, high
    <3>2. i \in Int /\ j \in Int /\ high > low
      BY <1>3, <1>6, <3>1, Indices
    <3>3. QED
      BY <1>4, <1>5, <3>1, <3>2 DEF Together
  <2>3. CASE n # 1
    <3>1. n - 1 \in 1 .. N - 1 /\ (n - 1) + 1 = n
      BY <1>2, <2>3
    <3>2. n - 1 \in DOMAIN calls' /\ calls'[n - 1] = calls[n]
      BY <1>2, <3>1
    <3>3. QED
      BY <2>1, <3>2 DEF Together
  <2>4. QED
    BY <2>2, <2>3
<1>7. OrderInv'
  <2>1. ASSUME NEW i \in Index, NEW j \in Index, i < j
        PROVE  Before(serverList[i], serverList[j])' \/ Together(i, j)'
    <3>1. Before(serverList[i], serverList[j])' <=> Before(serverList[i], serverList[j])
      BY <1>1 DEF Before
    <3>2. QED
      BY <1>6, <2>1, <3>1 DEF OrderInv
  <2>2. QED
    BY <2>1 DEF OrderInv, Index, LastIndex
<1>8. CallsInv'
  <2>1. \A m, n \in 1 .. N : m < n => calls[m][2] < calls[n][1]
    BY <1>2 DEF CallsInv
  <2>2. ASSUME NEW m \in 1 .. N - 1, NEW n \in 1 .. N - 1, m < n
        PROVE  calls'[m][2] < calls'[n][1]
    <3>1. m + 1 \in 1 .. N /\ n + 1 \in 1 .. N /\ m + 1 < n + 1
      BY <1>2, <2>2
    <3>2. QED
      BY <1>2, <2>1, <3>1
  <2>3. ASSUME NEW n \in 1 .. N - 1
        PROVE  high < calls'[n][1]
    <3>1. 1 \in 1 .. N /\ n + 1 \in 1 .. N /\ 1 < n + 1
      BY <1>2
    <3>2. QED
      BY <1>2, <2>1, <3>1 DEF high
  <2>4. QED
    BY <1>2, <1>5, <2>2, <2>3 DEF CallsInv
<1>9. ScanInv'
  <2>1. ASSUME scan' # NULL
        PROVE  /\ scan'.low <= scan'.left /\ scan'.low <= scan'.right /\ scan'.low < scan'.high
               /\ scan'.low .. scan'.left - 1 = {} /\ scan'.right + 1 .. scan'.high = {}
               /\ ~(scan'.right <= scan'.left)
    BY <1>3, <1>4, <1>5, <2>1
  <2>2. QED
    BY <2>1 DEF ScanInv
<1>10. QED
  BY <1>7, <1>8, <1>9

\* The scans pass over what belongs where it is, and put right the two they stop at.
LEMMA ScanOrders ==
  ASSUME SortInv, rule \in [Server -> Value \cup {NULL}], EveryServerHasTheRule,
         OrderInv, CallsInv, ScanInv, Scan
  PROVE  OrderInv' /\ CallsInv' /\ ScanInv'
<1> DEFINE low == scan.low
           high == scan.high
           pivot == serverList[low]
           left  == LeftStop(pivot)
           right == RightStop(pivot)
           In == low .. high
<1>1. /\ scan # NULL /\ scan \in Bounds /\ scan.left < scan.right
      /\ scan' = [scan EXCEPT !.left = left, !.right = right]
      /\ serverList' = IF left < right THEN Swapped(left, right) ELSE serverList
      /\ calls' = calls /\ rule' = rule /\ ascending' = ascending
      /\ serverList \in [Index -> Server]
  BY DEF SortInv, Scan
<1>2. /\ low \in Nat /\ high \in Nat /\ scan.left \in Nat /\ scan.right \in Nat
      /\ low \in Index /\ high \in Index
      /\ scan.left <= high /\ scan.right <= high
      /\ low <= scan.left /\ low <= scan.right /\ low < high
  BY <1>1, Indices DEF Bounds, ScanInv
<1>3. /\ left \in scan.left .. high
      /\ left = high \/ ~ BelongsLeft(serverList[left], pivot)
      /\ \A k \in scan.left .. left - 1 : BelongsLeft(serverList[k], pivot)
  BY <1>2, LeftStops
<1>4. /\ right \in 0 .. scan.right
      /\ right = 0 \/ ~ BelongsRight(serverList[right], pivot)
      /\ \A k \in right + 1 .. scan.right : BelongsRight(serverList[k], pivot)
  BY <1>2, RightStops
<1> HIDE DEF left, right, low, high
<1>5. In \subseteq Index
  BY <1>2, Indices DEF Index
<1>6. pivot \in Server /\ \A k \in In : serverList[k] \in Server
  BY <1>1, <1>2, <1>5
<1>7. Before(pivot, pivot)
  BY <1>6, Orders
<1>8. \A k \in In : /\ BelongsLeft(serverList[k], pivot) <=> Before(serverList[k], pivot)
                    /\ BelongsRight(serverList[k], pivot) <=> ~ Before(serverList[k], pivot)
  BY <1>6, Orders
<1>9. low <= right
  <2> SUFFICES ASSUME right < low PROVE FALSE
    BY <1>2, <1>4
  <2>1. low \in right + 1 .. scan.right /\ low \in In
    BY <1>2, <1>4
  <2>2. QED
    BY <1>4, <1>7, <1>8, <2>1
<1>10. right \in In /\ Before(serverList[right], pivot)
  <2>1. right \in In
    BY <1>2, <1>4, <1>9
  <2>2. CASE right = 0
    <3>1. right = low
      BY <1>2, <1>9, <2>2
    <3>2. QED
      BY <1>7, <2>1, <3>1
  <2>3. CASE right # 0
    BY <1>4, <1>8, <2>1, <2>3
  <2>4. QED
    BY <2>1, <2>2, <2>3
<1>11. left \in In /\ low < left
  <2>1. left \in In /\ low <= left
    BY <1>2, <1>3
  <2>2. left # low
    <3> SUFFICES ASSUME left = low PROVE FALSE
      OBVIOUS
    <3>1. left # high
      BY <1>2
    <3>2. QED
      BY <1>3, <1>7, <1>8, <2>1, <3>1
  <2>3. QED
    BY <1>2, <2>1, <2>2
<1>12. \A k \in low .. left - 1 : Before(serverList[k], pivot)
  <2>1. \A k \in low .. scan.left - 1 : Before(serverList[k], pivot)
    BY <1>1 DEF ScanInv, low
  <2>2. \A k \in scan.left .. left - 1 : k \in In
    BY <1>2, <1>11
  <2>3. \A k \in low .. left - 1 : k \in low .. scan.left - 1 \/ k \in scan.left .. left - 1
    BY <1>2, <1>3
  <2>4. QED
    BY <1>3, <1>8, <2>1, <2>2, <2>3
<1>13. \A k \in right + 1 .. high : ~ Before(serverList[k], pivot)
  <2>1. \A k \in scan.right + 1 .. high : ~ Before(serverList[k], pivot)
    BY <1>1 DEF ScanInv, low, high
  <2>2. \A k \in right + 1 .. scan.right : k \in In
    BY <1>2, <1>4, <1>9
  <2>3. \A k \in right + 1 .. high : k \in scan.right + 1 .. high \/ k \in right + 1 .. scan.right
    BY <1>2, <1>4
  <2>4. QED
    BY <1>4, <1>8, <2>1, <2>2, <2>3
<1>14. \A i, j \in Index : i < j => Before(serverList'[i], serverList'[j]) \/ Together(i, j)
  <2>1. CASE left < right
    BY <1>1, <1>10, <1>11, <2>1, SwapOrders DEF low, high
  <2>2. CASE ~(left < right)
    BY <1>1, <2>2 DEF OrderInv
  <2>3. QED
    BY <2>1, <2>2
<1>15. /\ scan'.low = low /\ scan'.high = high /\ scan'.left = left /\ scan'.right = right
  BY <1>1 DEF Bounds, low, high
<1>16. scan' # NULL
  <2>1. scan' \in [low : Int, high : Int, left : Int, right : Int]
    <3>1. Index \subseteq Int /\ left \in Int /\ right \in Int
      BY <1>2, <1>10, <1>11, Indices
    <3>2. scan \in [low : Index, high : Index, left : Index, right : Index]
      BY <1>1 DEF Bounds
    <3>3. QED
      BY <1>1, <3>1, <3>2
  <2>2. QED
    BY <2>1, SortAssumption
<1>17. OrderInv'
  <2>1. ASSUME NEW i \in Index, NEW j \in Index
        PROVE  /\ Before(serverList[i], serverList[j])' <=> Before(serverList'[i], serverList'[j])
               /\ Together(i, j) => Together(i, j)'
    <3>1. Before(serverList[i], serverList[j])' <=> Before(serverList'[i], serverList'[j])
      BY <1>1 DEF Before
    <3>2. QED
      BY <1>1, <1>15, <1>16, <3>1 DEF Together, low, high
  <2>2. QED
    BY <1>14, <2>1 DEF OrderInv, Index, LastIndex
<1>18. CallsInv'
  BY <1>1, <1>15 DEF CallsInv, high
<1>19. /\ serverList'[low] = pivot
       /\ \A k \in low .. left - 1 : Before(serverList'[k], pivot)
       /\ \A k \in right + 1 .. high : ~ Before(serverList'[k], pivot)
       /\ right <= left => Before(serverList'[right], pivot)
  <2>1. CASE left < right
    <3>1. \A k \in Index : k # left /\ k # right => serverList'[k] = serverList[k]
      BY <1>1, <2>1 DEF Swapped
    <3>2. low # left /\ low # right
      BY <1>2, <1>10, <1>11, <2>1
    <3>3. \A k \in low .. left - 1 : k \in In /\ k # left /\ k # right
      BY <1>2, <1>11, <2>1, <1>10
    <3>4. \A k \in right + 1 .. high : k \in In /\ k # left /\ k # right
      BY <1>2, <1>10, <1>11, <2>1
    <3>5. ~(right <= left)
      BY <1>2, <1>10, <1>11, <2>1
    <3>6. QED
      BY <1>2, <1>5, <1>12, <1>13, <3>1, <3>2, <3>3, <3>4, <3>5
  <2>2. CASE ~(left < right)
    BY <1>1, <1>10, <1>12, <1>13, <2>2
  <2>3. QED
    BY <2>1, <2>2
<1>20. ScanInv'
  <2>1. ScanInv' <=>
          (scan' # NULL =>
             /\ scan'.low <= scan'.left /\ scan'.low <= scan'.right /\ scan'.low < scan'.high
             /\ \A k \in scan'.low .. scan'.left - 1 :
                  Before(serverList'[k], serverList'[scan'.low])
             /\ \A k \in scan'.right + 1 .. scan'.high :
                  ~ Before(serverList'[k], serverList'[scan'.low])
             /\ scan'.right <= scan'.left =>
                  Before(serverList'[scan'.right], serverList'[scan'.low]))
    BY <1>1 DEF ScanInv, Before
  <2>2. low <= left /\ low <= right /\ low < high
    BY <1>2, <1>10, <1>11
  <2> HIDE DEF pivot
  <2>3. QED
    BY <1>15, <1>19, <2>1, <2>2
<1>21. QED
  BY <1>17, <1>18, <1>20

\* The pivot comes between those that belong to its left and those that belong to its
\* right: only of these are two still together.
LEMMA PlaceOrders ==
  ASSUME SortInv, rule \in [Server -> Value \cup {NULL}], EveryServerHasTheRule,
         OrderInv, CallsInv, ScanInv, Place
  PROVE  OrderInv' /\ CallsInv' /\ ScanInv'
<1> DEFINE low == scan.low
           high == scan.high
           right == scan.right
           pivot == serverList[low]
           new == << <<low, right - 1>>, <<right + 1, high>> >>
           In == low .. high
           N == Len(calls)
<1>1. /\ scan # NULL /\ scan \in Bounds /\ scan.left >= right /\ scan' = NULL
      /\ serverList' = Swapped(low, right) /\ calls' = new \o calls
      /\ rule' = rule /\ ascending' = ascending /\ serverList \in [Index -> Server]
      /\ calls \in Seq(Interval)
  BY DEF SortInv, Place
<1>2. /\ low \in Nat /\ high \in Nat /\ scan.left \in Nat /\ right \in Nat
      /\ low \in Index /\ high \in Index /\ right \in Index
      /\ scan.left <= high /\ right <= high /\ low <= right /\ low < high
  BY <1>1, Indices DEF Bounds, ScanInv
<1>3. /\ \A k \in low .. scan.left - 1 : Before(serverList[k], pivot)
      /\ \A k \in right + 1 .. high : ~ Before(serverList[k], pivot)
      /\ Before(serverList[right], pivot)
  BY <1>1, <1>2 DEF ScanInv
<1>4. /\ N \in Nat /\ DOMAIN calls = 1 .. N /\ DOMAIN calls' = 1 .. N + 2
      /\ calls'[1] = <<low, right - 1>> /\ calls'[2] = <<right + 1, high>>
      /\ \A n \in 1 .. N : calls'[n + 2] = calls[n]
  <2>1. new \in Seq(Int \X Int) /\ Len(new) = 2 /\ calls \in Seq(Int \X Int)
    BY <1>1, <1>2, Indices DEF Interval
  <2> HIDE DEF new
  <2>2. /\ N \in Nat /\ DOMAIN calls = 1 .. N /\ DOMAIN calls' = 1 .. N + 2
        /\ calls'[1] = new[1] /\ calls'[2] = new[2]
        /\ \A n \in 1 .. N : calls'[n + 2] = calls[n]
    <3>1. /\ N \in Nat /\ DOMAIN calls = 1 .. N
          /\ calls' \in Seq(Int \X Int) /\ Len(calls') = 2 + N
          /\ \A i \in 1 .. 2 + N : calls'[i] = IF i <= 2 THEN new[i] ELSE calls[i - 2]
      <4>1. N \in Nat /\ DOMAIN calls = 1 .. N
        BY <1>1
      <4>2. /\ new \o calls \in Seq(Int \X Int) /\ Len(new \o calls) = Len(new) + N
            /\ \A i \in 1 .. Len(new) + N :
                 (new \o calls)[i] = IF i <= Len(new) THEN new[i] ELSE calls[i - Len(new)]
        BY <2>1, ConcatProperties
      <4>3. QED
        BY <1>1, <2>1, <4>1, <4>2
    <3>2. calls'[1] = new[1] /\ calls'[2] = new[2]
      BY <3>1
    <3>3. ASSUME NEW n \in 1 .. N
          PROVE  calls'[n + 2] = calls[n]
      <4>1. n + 2 \in 1 .. 2 + N /\ ~(n + 2 <= 2) /\ (n + 2) - 2 = n
        BY <3>1
      <4>2. QED
        BY <3>1, <4>1
    <3>4. DOMAIN calls' = 1 .. N + 2
      <4>1. 2 + N = N + 2
        BY <3>1
      <4>2. QED
        BY <3>1, <4>1
    <3>5. QED
      BY <3>1, <3>2, <3>3, <3>4
  <2>3. QED
    BY <2>2 DEF new
<1> HIDE DEF low, high, right, N, new
<1>5. In \subseteq Index /\ right \in In /\ low \in In
  BY <1>2, Indices DEF Index
<1>6. pivot \in Server /\ \A k \in In : serverList[k] \in Server
  BY <1>1, <1>2, <1>5
<1>7. \A k \in Index : serverList'[k] = IF k = right THEN pivot
                                        ELSE IF k = low THEN serverList[right] ELSE serverList[k]
  BY <1>1, <1>2 DEF Swapped
<1>8. ASSUME NEW k \in In
      PROVE  /\ k <= right => Before(serverList'[k], pivot)
             /\ right <= k => Before(pivot, serverList'[k])
             /\ serverList'[k] \in Server
  <2>1. k \in Int /\ k \in Index /\ low <= k /\ k <= high
    BY <1>2, <1>5
  <2>2. CASE k = right
    BY <1>6, <1>7, <2>1, <2>2, Orders
  <2>3. CASE k # right /\ k = low
    <3>1. serverList'[k] = serverList[right] /\ ~(right <= k)
      BY <1>2, <1>7, <2>1, <2>3
    <3>2. QED
      BY <1>3, <1>5, <1>6, <3>1
  <2>4. CASE k # right /\ k # low /\ k < right
    <3>1. serverList'[k] = serverList[k] /\ ~(right <= k) /\ k \in low .. scan.left - 1
      BY <1>1, <1>2, <1>7, <2>1, <2>4 DEF right
    <3>2. QED
      BY <1>3, <1>6, <3>1
  <2>5. CASE k # right /\ k # low /\ k > right
    <3>1. serverList'[k] = serverList[k] /\ ~(k <= right) /\ k \in right + 1 .. high
      BY <1>2, <1>7, <2>1, <2>5
    <3>2. QED
      BY <1>3, <1>6, <3>1, Orders
  <2>6. QED
    BY <1>2, <2>1, <2>2, <2>3, <2>4, <2>5
<1>9. \A i, j \in Index : i < j => Before(serverList'[i], serverList'[j]) \/ Together(i, j)
  BY <1>1, <1>5, SwapOrders DEF low, high, right
<1>10. ASSUME NEW i \in Index, NEW j \in Index, i < j
       PROVE  Before(serverList'[i], serverList'[j]) \/ Together(i, j)'
  <2>1. CASE \E n \in 1 .. N : calls[n][1] <= i /\ j <= calls[n][2]
    <3>1. PICK n \in 1 .. N : calls[n][1] <= i /\ j <= calls[n][2]
      BY <2>1
    <3>2. n + 2 \in DOMAIN calls' /\ calls'[n + 2] = calls[n]
      BY <1>4
    <3>3. QED
      BY <3>1, <3>2 DEF Together
  <2>2. CASE low <= i /\ j <= high
    <3>1. i \in In /\ j \in In /\ i \in Int /\ j \in Int
      BY <1>2, <1>10, <2>2, Indices
    <3>2. CASE j < right
      <4>1. 1 \in DOMAIN calls' /\ calls'[1][1] <= i /\ j <= calls'[1][2]
        BY <1>2, <1>4, <2>2, <3>1, <3>2
      <4>2. QED
        BY <4>1 DEF Together
    <3>3. CASE right < i
      <4>1. 2 \in DOMAIN calls' /\ calls'[2][1] <= i /\ j <= calls'[2][2]
        BY <1>2, <1>4, <2>2, <3>1, <3>3
      <4>2. QED
        BY <4>1 DEF Together
    <3>4. CASE i <= right /\ right <= j
      <4>1. Before(serverList'[i], pivot) /\ Before(pivot, serverList'[j])
        BY <1>8, <3>1, <3>4
      <4>2. QED
        BY <1>6, <1>8, <3>1, <4>1, Orders
    <3>5. QED
      BY <1>2, <3>1, <3>2, <3>3, <3>4
  <2>3. QED
    BY <1>4, <1>9, <1>10, <2>1, <2>2 DEF Together, low, high
<1>11. OrderInv'
  <2>1. OrderInv' <=> \A i, j \in Index : i < j =>
                        Before(serverList'[i], serverList'[j]) \/ Together(i, j)'
    BY <1>1 DEF OrderInv, Before, Index, LastIndex
  <2>2. QED
    BY <1>10, <2>1
<1>12. CallsInv'
  <2>1. ASSUME NEW m \in 1 .. N + 2, NEW n \in 1 .. N + 2, m < n
        PROVE  calls'[m][2] < calls'[n][1]
    <3>1. CASE n = 2
      <4>1. m = 1
        BY <2>1, <3>1
      <4>2. QED
        BY <1>2, <1>4, <3>1, <4>1
    <3>2. CASE n # 2
      <4>1. n - 2 \in 1 .. N /\ calls'[n] = calls[n - 2]
        <5>1. n - 2 \in 1 .. N /\ (n - 2) + 2 = n
          BY <1>4, <2>1, <3>2
        <5>2. QED
          BY <1>4, <5>1
      <4>2. high < calls[n - 2][1] /\ calls[n - 2][1] \in Int
        BY <1>1, <1>4, <4>1, Calls DEF CallsInv, high
      <4>3. CASE m = 1
        <5>1. calls'[m][2] = right - 1
          BY <1>4, <4>3
        <5>2. QED
          BY <1>2, <4>1, <4>2, <5>1
      <4>4. CASE m = 2
        BY <1>4, <4>1, <4>2, <4>4
      <4>5. CASE m # 1 /\ m # 2
        <5>1. m - 2 \in 1 .. N /\ calls'[m] = calls[m - 2] /\ m - 2 < n - 2
          <6>1. m - 2 \in 1 .. N /\ (m - 2) + 2 = m /\ m - 2 < n - 2
            BY <1>4, <2>1, <4>5
          <6>2. QED
            BY <1>4, <6>1
        <5>2. QED
          BY <1>4, <4>1, <5>1 DEF CallsInv
      <4>6. QED
        BY <4>3, <4>4, <4>5
    <3>3. QED
      BY <3>1, <3>2
  <2>2. QED
    BY <1>1, <1>4, <2>1 DEF CallsInv
<1>13. ScanInv'
  BY <1>1 DEF ScanInv
<1>14. QED
  BY <1>11, <1>12, <1>13

LEMMA StepOrders ==
  ASSUME SortInv, KeyInv, Keyed, Sort
  PROVE  OrderInv' /\ CallsInv' /\ ScanInv'
BY QuickSortOrders, ScanOrders, PlaceOrders DEF KeyInv, Keyed, Sort

\* Only the call of the user begins a sort, and only when none is running.
LEMMA KeyStep ==
  ASSUME SortInv, KeyInv, [Next]_vars
  PROVE  KeyInv'
<1>1. rule' = rule /\ ascending' \in BOOLEAN /\ (EveryServerHasTheRule' <=> EveryServerHasTheRule)
  <2>1. rule' = rule
    BY DEF Next, Sort, SortOnKey, QuickSort, Scan, Place, vars
  <2>2. ascending' \in BOOLEAN
    BY DEF Next, Sort, SortOnKey, QuickSort, Scan, Place, vars, KeyInv
  <2>3. QED
    BY <2>1, <2>2 DEF EveryServerHasTheRule
<1>2. ASSUME NEW up \in BOOLEAN, SortOnKey(up)
      PROVE  OrderInv' /\ CallsInv' /\ ScanInv'
  BY <1>2, SortOnKeyOrders
<1>3. CASE Sort
  <2>1. ~Idle
    BY <1>3 DEF Sort, QuickSort, Scan, Place, Idle
  <2>2. EveryServerHasTheRule => OrderInv' /\ CallsInv' /\ ScanInv'
    BY <1>3, <2>1, StepOrders DEF Keyed
  <2>3. QED
    BY <1>1, <2>2 DEF KeyInv, Keyed
<1>4. CASE UNCHANGED vars
  <2>1. /\ OrderInv' <=> OrderInv
        /\ CallsInv' <=> CallsInv
        /\ ScanInv' <=> ScanInv
        /\ Keyed' <=> Keyed
    BY <1>4 DEF vars, OrderInv, CallsInv, ScanInv, Keyed, Idle, EveryServerHasTheRule,
                Before, Together, Index, LastIndex
  <2>2. QED
    BY <1>1, <2>1 DEF KeyInv
<1>5. QED
  BY <1>1, <1>2, <1>3, <1>4 DEF Next, KeyInv

LEMMA KeyInvHolds == Spec => [](SortInv /\ KeyInv)
<1>1. Init => KeyInv
  BY DEF Init, KeyInv, Keyed, Idle
<1>2. SortInv /\ KeyInv /\ [Next]_vars => KeyInv'
  BY KeyStep
<1>3. QED
  BY <1>1, <1>2, SortInvHolds, PTL DEF Spec
-----------------------------------------------------------------------------
(* Theorems *)

\* The list holds each server that is listed after every step of every sort,
\* whatever rules are missing.
THEOREM EveryServerStays == Spec => []NoServerIsLost
<1>1. SortInv => NoServerIsLost
  BY DEF SortInv, NoServerIsLost
<1>2. QED
  BY <1>1, SortInvHolds, PTL

\* No index that Partition uses is outside of the array, although its right scan
\* may leave the interval.
THEOREM SortStaysInBounds == Spec => []IndicesInBounds
<1>1. SortInv => IndicesInBounds
  BY DEF SortInv, Bounds, Index, IndicesInBounds
<1>2. QED
  BY <1>1, SortInvHolds, PTL

\* The list that a sort leaves is in the order asked for, whatever the list was before, as
\* long as every server has the rule with the key: so "sort from low to high" and "from
\* high to low" are what SortOnKey, QuickSort and Partition do.
THEOREM TheSortSorts == Spec => Sorted
<1> DEFINE InOrder ==
        \A i, j \in 0 .. LastIndex :
          LET x == rule[serverList'[i]]
              y == rule[serverList'[j]]
          IN i < j => IF ascending THEN x <= y ELSE x >= y
<1>1. ASSUME SortInv, KeyInv, Next, EveryServerHasTheRule, ~Idle, Idle'
      PROVE  InOrder
  <2>1. Sort
    BY <1>1 DEF Next, SortOnKey
  <2>2. OrderInv'
    BY <1>1, <2>1, StepOrders DEF Keyed
  <2>3. \A i, j \in Index : ~Together(i, j)'
    <3>1. calls' = <<>> /\ scan' = NULL
      BY <1>1 DEF Idle
    <3>2. DOMAIN calls' = {}
      BY <3>1
    <3>3. QED
      BY <3>1, <3>2 DEF Together
  <2>4. rule' = rule /\ ascending' = ascending
    BY <2>1 DEF Sort, QuickSort, Scan, Place
  <2>5. \A i, j \in Index : i < j => Before(serverList[i], serverList[j])'
    BY <2>2, <2>3 DEF OrderInv, Index, LastIndex
  <2>6. QED
    BY <2>4, <2>5 DEF Before, Index
<1>2. SortInv /\ KeyInv /\ [Next]_vars =>
        [EveryServerHasTheRule /\ ~Idle /\ Idle' => InOrder]_vars
  BY <1>1
<1>3. QED
  BY <1>2, KeyInvHolds, PTL DEF Spec, Sorted
=============================================================================
