--------------------------- MODULE ServerListSort ---------------------------
(***************************************************************************)
(* Sorting the browser's server list: GameServerList::SortOnKey, QuickSort *)
(* and Partition (MasterCommon.cpp; masterserver.cpp has the same code).   *)
(*                                                                         *)
(* A server is compared by its rule with the key of the sort.  It may have *)
(* no such rule: the comparisons then answer without looking at the other  *)
(* server.  Values are numbers here; the strings of a rule are ordered by  *)
(* strcmp as well.  That one server may hold a string and another a number *)
(* under one key is left out: strcmp is then given a null pointer.         *)
(*                                                                         *)
(* Indices count from 0, as in the code.  QuickSort's two recursive calls  *)
(* are intervals on a stack.                                               *)
(***************************************************************************)
EXTENDS Integers, Sequences, SequencesExt

CONSTANTS
  Server,  \* the servers that are listed
  Value,   \* the values of their rules with the key
  NULL     \* no rule with the key

ASSUME SortAssumption ==
  /\ IsFiniteSet(Server) /\ Value \subseteq Int /\ NULL \notin Value
  /\ NULL \notin [low : Int, high : Int, left : Int, right : Int]

VARIABLES
  rule,        \* the rule each server has with the key; never changes
  serverList,  \* the servers, from index 0
  ascending,   \* the direction asked for
  calls,       \* the calls of QuickSort that are still to be made, first first
  scan         \* the locals of Partition while it runs, NULL otherwise

vars == <<rule, serverList, ascending, calls, scan>>

LastIndex == Cardinality(Server) - 1
Idle == calls = <<>> /\ scan = NULL

EQ(left, right) == NULL \in {rule[left], rule[right]} \/ rule[left] = rule[right]

LT(left, right) ==
  \/ rule[left] = NULL
  \/ NULL \notin {rule[left], rule[right]} /\ rule[left] < rule[right]

GT(left, right) ==
  /\ rule[left] # NULL
  /\ rule[right] = NULL \/ rule[left] > rule[right]

LTEQ(left, right) == LT(left, right) \/ EQ(left, right)
GTEQ(left, right) == GT(left, right) \/ EQ(left, right)

\* What Partition's left scan passes over, and what its right scan does.
BelongsLeft(server, pivot) ==
  IF ascending THEN LTEQ(server, pivot) ELSE GTEQ(server, pivot)

BelongsRight(server, pivot) ==
  IF ascending THEN GT(server, pivot) ELSE LT(server, pivot)

Swapped(i, j) ==
  [serverList EXCEPT ![i] = serverList[j], ![j] = serverList[i]]
-----------------------------------------------------------------------------
Init ==
  /\ rule \in [Server -> Value \cup {NULL}]
  /\ serverList = [i \in 0 .. LastIndex |-> SetToSeq(Server)[i + 1]]
  /\ ascending = TRUE
  /\ calls = <<>>
  /\ scan = NULL

\* Mutant: the size of the list for its last index.
SortOnKeyBeyond(up) ==
  /\ Idle
  /\ ascending' = up
  /\ calls' = << <<0, LastIndex + 1>> >>
  /\ UNCHANGED <<rule, serverList, scan>>

SortOnKey(up) ==
  /\ Idle
  /\ ascending' = up
  /\ calls' = << <<0, LastIndex>> >>
  /\ UNCHANGED <<rule, serverList, scan>>

\* A call of QuickSort does nothing for less than two servers.
QuickSort ==
  /\ scan = NULL
  /\ calls # <<>>
  /\ LET low  == Head(calls)[1]
         high == Head(calls)[2]
     IN scan' = IF high > low
                THEN [low |-> low, high |-> high, left |-> low, right |-> high]
                ELSE NULL
  /\ calls' = Tail(calls)
  /\ UNCHANGED <<rule, serverList, ascending>>

\* Where the scans stop.  The left one is bounded by high, the right one by 0.
LeftStop(pivot) ==
  CHOOSE i \in scan.left .. scan.high :
    /\ i = scan.high \/ ~ BelongsLeft(serverList[i], pivot)
    /\ \A j \in scan.left .. i - 1 : BelongsLeft(serverList[j], pivot)

RightStop(pivot) ==
  CHOOSE i \in 0 .. scan.right :
    /\ i = 0 \/ ~ BelongsRight(serverList[i], pivot)
    /\ \A j \in i + 1 .. scan.right : BelongsRight(serverList[j], pivot)

\* One turn of Partition's outer loop.  The pivot stays at low meanwhile, since
\* the left scan always passes over it.
Scan ==
  /\ scan # NULL
  /\ scan.left < scan.right
  /\ LET pivot == serverList[scan.low]
         left  == LeftStop(pivot)
         right == RightStop(pivot)
     IN /\ scan' = [scan EXCEPT !.left = left, !.right = right]
        /\ serverList' = IF left < right THEN Swapped(left, right) ELSE serverList
  /\ UNCHANGED <<rule, ascending, calls>>

\* Mutant: the pivot overwrites the server that was found in its place.
PlaceOverwrites ==
  /\ scan # NULL
  /\ scan.left >= scan.right
  /\ serverList' = [serverList EXCEPT ![scan.right] = serverList[scan.low]]
  /\ calls' = << <<scan.low, scan.right - 1>>, <<scan.right + 1, scan.high>> >> \o calls
  /\ scan' = NULL
  /\ UNCHANGED <<rule, ascending>>

\* Mutant: the upper part is not sorted.
PlaceForgetsHalf ==
  /\ scan # NULL
  /\ scan.left >= scan.right
  /\ serverList' = Swapped(scan.low, scan.right)
  /\ calls' = << <<scan.low, scan.right - 1>> >> \o calls
  /\ scan' = NULL
  /\ UNCHANGED <<rule, ascending>>

\* Mutant: the pivot is sorted again with the upper part.
PlaceRepeatsPivot ==
  /\ scan # NULL
  /\ scan.left >= scan.right
  /\ serverList' = Swapped(scan.low, scan.right)
  /\ calls' = << <<scan.low, scan.right - 1>>, <<scan.right, scan.high>> >> \o calls
  /\ scan' = NULL
  /\ UNCHANGED <<rule, ascending>>

\* The end of Partition: the pivot goes to `right`, and QuickSort goes on
\* below and above it.
Place ==
  /\ scan # NULL
  /\ scan.left >= scan.right
  /\ serverList' = Swapped(scan.low, scan.right)
  /\ calls' = << <<scan.low, scan.right - 1>>, <<scan.right + 1, scan.high>> >> \o calls
  /\ scan' = NULL
  /\ UNCHANGED <<rule, ascending>>

Sort == QuickSort \/ Scan \/ Place

Next == Sort \/ \E up \in BOOLEAN : SortOnKey(up)

\* The thread that sorts goes on sorting.
Spec == Init /\ [][Next]_vars /\ WF_vars(Sort)
-----------------------------------------------------------------------------
(* Properties *)

\* Whatever rules are missing, the sort drops and duplicates no server: the list
\* holds pointers that are deleted one by one.
NoServerIsLost == Range(serverList) = Server

\* Whatever rules are missing, the sort never leaves the array, although a scan
\* may leave its interval.
IndicesInBounds ==
  scan # NULL => {scan.low, scan.high, scan.left, scan.right} \subseteq 0 .. LastIndex

EveryServerHasTheRule == \A s \in Server : rule[s] # NULL

\* "Set ascending to true to sort from low to high.  Otherwise sorts from high to
\* low." (MasterCommon.h:54): so does each sort of a list in which no rule is
\* missing, whatever order the sorts before have left.
Sorted ==
  [][ EveryServerHasTheRule /\ ~Idle /\ Idle' =>
        \A i, j \in 0 .. LastIndex :
          LET x == rule[serverList'[i]]
              y == rule[serverList'[j]]
          IN i < j => IF ascending THEN x <= y ELSE x >= y ]_vars

\* Such a sort returns: each call of QuickSort gets fewer servers than its caller.
KeyedSortReturns == (EveryServerHasTheRule /\ ~Idle) ~> Idle
===========================================================================
