----------------------- MODULE ReliabilityLayerProofs -----------------------
(***************************************************************************)
(* Proofs about ReliabilityLayer, for every list of messages, frame size,   *)
(* window and delay, and a network that does what it likes, as long as a    *)
(* peer sends fewer ordered messages than there are ordering indices.       *)
(*                                                                          *)
(* Then an index stands for one message: the packets of a sender are made   *)
(* of its messages, wherever they are (MadeOf), in its queues, in frames    *)
(* or in the receiver's ordering list, and each has for its index how many  *)
(* ordered messages come before its own. A packet with the index that is    *)
(* waited for holds the next message, so that what was delivered is, at     *)
(* every step, as long a beginning of what was sent as orderedReadIndex     *)
(* says (Reads). Nothing is assumed of the log of received packets: an      *)
(* ordered packet that is accepted twice waits in the list for good.        *)
(***************************************************************************)
EXTENDS ReliabilityLayer, SequenceTheorems, FiniteSetTheorems, NaturalsInduction, TLAPS

-----------------------------------------------------------------------------
(* Recursion *)

\* A set of natural numbers has a least element.
LEMMA Least ==
  ASSUME NEW T \in SUBSET Nat, T # {}
  PROVE  \E x \in T : \A y \in T : x <= y
<1> DEFINE Below == {p \in Nat \X Nat : p[1] < p[2]}
<1>1. IsWellFoundedOn(Below, Nat)
  BY NatLessThanWellFounded DEF OpToRel
<1>2. PICK x \in T : \A y \in T : <<y, x>> \notin Below
  <2> HIDE DEF Below
  <2>1. QED
    BY <1>1, WFMin
<1>3. ASSUME NEW y \in T PROVE x <= y
  <2>1. x \in Nat /\ y \in Nat /\ ~(y < x)
    BY <1>2
  <2>2. QED
    BY <2>1
<1>4. QED
  BY <1>3

\* Induction up to N, for a set of numbers.
LEMMA Upwards ==
  ASSUME NEW N \in Nat, NEW T, 0 \in T, \A n \in 1 .. N : n - 1 \in T => n \in T
  PROVE  \A n \in 0 .. N : n \in T
<1> DEFINE F == {n \in 0 .. N : n \notin T}
<1> SUFFICES ASSUME F # {} PROVE FALSE
  OBVIOUS
<1>1. F \in SUBSET Nat
  OBVIOUS
<1>2. PICK n \in F : \A m \in F : n <= m
  BY <1>1, Least
<1>3. n \in 1 .. N /\ n - 1 \in 0 .. N /\ n - 1 \notin F
  BY <1>2
<1>4. QED
  BY <1>2, <1>3

\* A function may be defined by its value at 0 and by steps.
Unrolls(f, b, N, step) == f = [n \in 0 .. N |-> IF n = 0 THEN b ELSE step[<<n, f[n - 1]>>]]

\* A recursive function of which every step stays in U exists, and has its values in U.
LEMMA StepByStep ==
  ASSUME NEW U, NEW b \in U, NEW N \in Nat, NEW step \in [(1 .. N) \X U -> U]
  PROVE  \E f \in [0 .. N -> U] : Unrolls(f, b, N, step)
<1> DEFINE Reaches(n) == \E f \in [0 .. N -> U] :
                            f[0] = b /\ \A m \in 1 .. n : f[m] = step[<<m, f[m - 1]>>]
           T == {n \in 0 .. N : Reaches(n)}
<1>1. 0 \in T
  <2> DEFINE f == [n \in 0 .. N |-> b]
  <2>1. f \in [0 .. N -> U] /\ f[0] = b
    OBVIOUS
  <2> HIDE DEF f
  <2>2. \A m \in 1 .. 0 : f[m] = step[<<m, f[m - 1]>>]
    OBVIOUS
  <2>3. QED
    BY <2>1, <2>2
<1>2. ASSUME NEW n \in 1 .. N, n - 1 \in T
      PROVE  n \in T
  <2>1. PICK f \in [0 .. N -> U] :
          f[0] = b /\ \A m \in 1 .. n - 1 : f[m] = step[<<m, f[m - 1]>>]
    BY <1>2
  <2> DEFINE next == step[<<n, f[n - 1]>>]
             g == [f EXCEPT ![n] = next]
  <2>2. n - 1 \in 0 .. N /\ next \in U
    BY <2>1
  <2> HIDE DEF next
  <2>3. g \in [0 .. N -> U] /\ g[n] = next /\ \A m \in 0 .. N \ {n} : g[m] = f[m]
    BY <2>1, <2>2
  <2> HIDE DEF g
  <2>4. ASSUME NEW m \in 1 .. n
        PROVE  g[m] = step[<<m, g[m - 1]>>]
    <3>1. m - 1 \in 0 .. N \ {n} /\ g[m - 1] = f[m - 1]
      BY <2>3
    <3>2. CASE m = n
      BY <2>3, <3>1, <3>2 DEF next
    <3>3. CASE m # n
      <4>1. m \in 1 .. n - 1 /\ m \in 0 .. N \ {n}
        BY <3>3
      <4>2. QED
        BY <2>1, <2>3, <3>1, <4>1
    <3>4. QED
      BY <3>2, <3>3
  <2>5. g[0] = b
    BY <2>1, <2>3
  <2>6. QED
    BY <2>3, <2>4, <2>5
<1>3. N \in T
  <2> HIDE DEF T
  <2>1. N \in 0 .. N
    OBVIOUS
  <2>2. QED
    BY <1>1, <1>2, <2>1, Upwards
<1>4. PICK f \in [0 .. N -> U] : f[0] = b /\ \A m \in 1 .. N : f[m] = step[<<m, f[m - 1]>>]
  BY <1>3
<1>5. f = [n \in 0 .. N |-> IF n = 0 THEN b ELSE step[<<n, f[n - 1]>>]]
  BY <1>4
<1>6. QED
  BY <1>5 DEF Unrolls

\* What recursion ends with is in a set that has the first value and that no step leaves.
LEMMA EndsIn ==
  ASSUME NEW U, NEW b \in U, NEW N \in Nat, NEW step \in [(1 .. N) \X U -> U],
         NEW h, Unrolls(h, b, N, step)
  PROVE  h[N] \in U
<1> DEFINE T == {n \in 0 .. N : h[n] \in U}
<1>1. h = [n \in 0 .. N |-> IF n = 0 THEN b ELSE step[<<n, h[n - 1]>>]]
  BY DEF Unrolls
<1>2. 0 \in T
  BY <1>1
<1>3. ASSUME NEW n \in 1 .. N, n - 1 \in T PROVE n \in T
  <2>1. n \in 0 .. N /\ n # 0 /\ h[n - 1] \in U
    BY <1>3
  <2>2. h[n] = step[<<n, h[n - 1]>>]
    BY <1>1, <2>1
  <2>3. QED
    BY <2>1, <2>2
<1>4. N \in T
  <2> HIDE DEF T
  <2>1. QED
    BY <1>2, <1>3, Upwards
<1>5. QED
  BY <1>4

-----------------------------------------------------------------------------
(* Selecting from a sequence *)

\* What is selected of the first n of s.
Picked(s, S, N) ==
  CHOOSE selected : selected = [n \in 0 .. N |->
    IF n = 0 THEN <<>>
    ELSE IF s[n] \in S THEN Append(selected[n - 1], s[n]) ELSE selected[n - 1]]

Picks(f, s, S, N) ==
  /\ f[0] = <<>>
  /\ \A n \in 1 .. N : /\ s[n] \in S => f[n] = Append(f[n - 1], s[n])
                       /\ s[n] \notin S => f[n] = f[n - 1]

\* Selected picks the members of S, and only those.
LEMMA PickedIs ==
  ASSUME NEW E, NEW s \in Seq(E), NEW S, NEW N \in 0 .. Len(s)
  PROVE  Picked(s, S, N)[N] \in Seq(E \cap S) /\ Picks(Picked(s, S, N), s, S, N)
<1> DEFINE U == Seq(E \cap S)
           step == [x \in (1 .. N) \X U |->
                      IF s[x[1]] \in S THEN Append(x[2], s[x[1]]) ELSE x[2]]
           h == Picked(s, S, N)
<1>1. <<>> \in U /\ N \in Nat /\ \A n \in 1 .. N : s[n] \in E
  OBVIOUS
<1>2. step \in [(1 .. N) \X U -> U]
  BY <1>1
<1>3. PICK f \in [0 .. N -> U] : Unrolls(f, <<>>, N, step)
  <2> HIDE DEF step, U
  <2>1. QED
    BY <1>1, <1>2, StepByStep
<1>4. \A n \in 1 .. N : step[<<n, f[n - 1]>>] =
        IF s[n] \in S THEN Append(f[n - 1], s[n]) ELSE f[n - 1]
  <2>1. \A n \in 1 .. N : n - 1 \in 0 .. N
    BY <1>1
  <2>2. QED
    BY <2>1
<1>5. f = [n \in 0 .. N |-> IF n = 0 THEN <<>>
             ELSE IF s[n] \in S THEN Append(f[n - 1], s[n]) ELSE f[n - 1]]
  <2> HIDE DEF step
  <2>1. QED
    BY <1>3, <1>4 DEF Unrolls
<1>6. h = [n \in 0 .. N |-> IF n = 0 THEN <<>>
             ELSE IF s[n] \in S THEN Append(h[n - 1], s[n]) ELSE h[n - 1]]
  BY <1>5 DEF Picked
<1> HIDE DEF h
<1>7. Unrolls(h, <<>>, N, step)
  <2>1. h \in [0 .. N -> U]
    <3> DEFINE T == {n \in 0 .. N : h[n] \in U}
    <3>1. 0 \in T
      BY <1>1, <1>6
    <3>2. ASSUME NEW n \in 1 .. N, n - 1 \in T PROVE n \in T
      <4>1. n \in 0 .. N /\ n # 0 /\ h[n - 1] \in U /\ s[n] \in E
        BY <1>1, <3>2
      <4>2. h[n] = IF s[n] \in S THEN Append(h[n - 1], s[n]) ELSE h[n - 1]
        BY <1>6, <4>1
      <4>3. \A x \in U, e \in E : e \in S => Append(x, e) \in U
        OBVIOUS
      <4> HIDE DEF U
      <4>4. h[n] \in U
        BY <4>1, <4>2, <4>3
      <4>5. QED
        BY <4>1, <4>4
    <3>3. \A n \in 0 .. N : n \in T
      <4> HIDE DEF T
      <4>1. QED
        BY <1>1, <3>1, <3>2, Upwards
    <3> HIDE DEF U
    <3>4. QED
      BY <1>6, <3>3
  <2>2. \A n \in 1 .. N : step[<<n, h[n - 1]>>] =
          IF s[n] \in S THEN Append(h[n - 1], s[n]) ELSE h[n - 1]
    <3>1. \A n \in 1 .. N : n - 1 \in 0 .. N
      BY <1>1
    <3>2. QED
      BY <2>1, <3>1
  <2> HIDE DEF step, U
  <2>3. \A n \in 0 .. N : n = 0 \/ n \in 1 .. N
    BY <1>1
  <2>4. \A n \in 0 .. N : h[n] = IF n = 0 THEN <<>> ELSE step[<<n, h[n - 1]>>]
    BY <1>6, <2>2, <2>3
  <2>5. h = [n \in 0 .. N |-> h[n]]
    BY <1>6
  <2>6. h = [n \in 0 .. N |-> IF n = 0 THEN <<>> ELSE step[<<n, h[n - 1]>>]]
    BY <2>4, <2>5
  <2>7. QED
    BY <2>6 DEF Unrolls
<1>8. h[N] \in U
  <2> HIDE DEF step, U
  <2>1. QED
    BY <1>1, <1>2, <1>7, EndsIn
<1>9. Picks(h, s, S, N)
  <2>1. h[0] = <<>>
    BY <1>1, <1>6
  <2>2. ASSUME NEW n \in 1 .. N
        PROVE  h[n] = IF s[n] \in S THEN Append(h[n - 1], s[n]) ELSE h[n - 1]
    <3>1. n \in 0 .. N /\ n # 0
      BY <1>1
    <3>2. QED
      BY <1>6, <3>1
  <2>3. QED
    BY <2>1, <2>2 DEF Picks
<1>10. QED
  BY <1>8, <1>9 DEF h

\* What is selected is of the sequence and of the set.
LEMMA SelectedIs ==
  ASSUME NEW E, NEW s \in Seq(E), NEW S
  PROVE  Selected(s, S) = Picked(s, S, Len(s))[Len(s)] /\ Selected(s, S) \in Seq(E \cap S)
<1>1. Selected(s, S) = Picked(s, S, Len(s))[Len(s)]
  BY DEF Selected, Picked
<1>2. Len(s) \in 0 .. Len(s)
  OBVIOUS
<1>3. QED
  BY <1>1, <1>2, PickedIs

\* Selecting goes element by element.
LEMMA SelectedAppend ==
  ASSUME NEW E, NEW s \in Seq(E), NEW e \in E, NEW S
  PROVE  /\ e \in S => Selected(Append(s, e), S) = Append(Selected(s, S), e)
         /\ e \notin S => Selected(Append(s, e), S) = Selected(s, S)
<1> DEFINE t == Append(s, e)
           N == Len(s)
           g == Picked(t, S, N + 1)
           f == Picked(s, S, N)
           T == {n \in 0 .. N : g[n] = f[n]}
<1>1. /\ N \in Nat /\ t \in Seq(E) /\ Len(t) = N + 1 /\ t[N + 1] = e
      /\ \A n \in 1 .. N : t[n] = s[n]
  OBVIOUS
<1>2. Picks(g, t, S, N + 1)
  <2>1. N + 1 \in 0 .. Len(t)
    BY <1>1
  <2> HIDE DEF t, N
  <2>2. QED
    BY <1>1, <2>1, PickedIs
<1>3. Picks(f, s, S, N)
  <2>1. N \in 0 .. Len(s)
    BY <1>1
  <2> HIDE DEF N
  <2>2. QED
    BY <2>1, PickedIs
<1>4. Selected(t, S) = g[N + 1] /\ Selected(s, S) = f[N]
  BY <1>1, SelectedIs
<1> HIDE DEF g, f, t, N
<1>5. 0 \in T
  BY <1>1, <1>2, <1>3 DEF Picks
<1>6. ASSUME NEW n \in 1 .. N, n - 1 \in T PROVE n \in T
  <2>1. n \in 0 .. N /\ n \in 1 .. N + 1 /\ g[n - 1] = f[n - 1] /\ t[n] = s[n]
    BY <1>1, <1>6
  <2>2. g[n] = f[n]
    BY <1>2, <1>3, <2>1 DEF Picks
  <2>3. QED
    BY <2>1, <2>2
<1>7. N \in T
  <2> HIDE DEF T
  <2>1. N \in 0 .. N
    BY <1>1
  <2>2. QED
    BY <1>1, <1>5, <1>6, <2>1, Upwards
<1>8. g[N] = f[N] /\ N + 1 \in 1 .. N + 1 /\ (N + 1) - 1 = N
  BY <1>1, <1>7
<1>9. /\ t[N + 1] \in S => g[N + 1] = Append(g[N], t[N + 1])
      /\ t[N + 1] \notin S => g[N + 1] = g[N]
  BY <1>2, <1>8 DEF Picks
<1>10. QED
  BY <1>1, <1>4, <1>8, <1>9 DEF t

\* Nothing is selected from nothing.
LEMMA SelectedNone ==
  ASSUME NEW S
  PROVE  Selected(<<>>, S) = <<>>
<1>1. <<>> \in Seq({}) /\ Len(<<>>) = 0 /\ 0 \in 0 .. Len(<<>>)
  OBVIOUS
<1>2. Picks(Picked(<<>>, S, 0), <<>>, S, 0)
  BY <1>1, PickedIs
<1>3. Selected(<<>>, S) = Picked(<<>>, S, 0)[0]
  BY <1>1, SelectedIs
<1>4. QED
  BY <1>2, <1>3 DEF Picks

-----------------------------------------------------------------------------
(* Messages *)

\* The ordered ones among the first n messages of p.
Firsts(p, n) == Selected([i \in 1 .. n |-> i], InOrder[p])

\* How many ordered messages come before message i.
Place(p, i) == Len(Firsts(p, i - 1))

\* The ordering index does not wrap.
FewMessages == \A p \in Peer : Len(Firsts(p, Len(Messages[p]))) < OrderingIndexRange

\* There are two peers.
LEMMA Ends ==
  ASSUME NEW p \in Peer
  PROVE  Other(p) \in Peer /\ Other(p) # p /\ Other(Other(p)) = p
<1>1. PICK a, b : a # b /\ Peer = {a, b}
  BY TwoEnds
<1>2. \A q \in Peer : (\E r \in Peer : r # q) /\ (\A r, s \in Peer : r # q /\ s # q => r = s)
  BY <1>1
<1>3. \A q \in Peer : Other(q) \in Peer /\ Other(q) # q
  BY <1>2 DEF Other
<1>4. QED
  BY <1>2, <1>3

\* Messages have numbers and a reliability.
LEMMA MessageTypes ==
  ASSUME NEW p \in Peer
  PROVE  /\ Len(Messages[p]) \in Nat /\ DOMAIN Messages[p] = 1 .. Len(Messages[p])
         /\ \A i \in DOMAIN Messages[p] :
              /\ Messages[p][i].reliability \in {RELIABLE, RELIABLE_ORDERED, UNRELIABLE}
              /\ Messages[p][i].priority \in {HIGH_PRIORITY, MEDIUM_PRIORITY}
              /\ i \in InOrder[p] <=> Messages[p][i].reliability = RELIABLE_ORDERED
<1>1. Messages[p] \in Seq([reliability : {RELIABLE, RELIABLE_ORDERED, UNRELIABLE},
                           priority : {HIGH_PRIORITY, MEDIUM_PRIORITY}])
  BY MessagesAssumption
<1>2. InOrder[p] = { i \in DOMAIN Messages[p] : Ordered(p, i) }
  BY DEF InOrder
<1>3. Len(Messages[p]) \in Nat /\ DOMAIN Messages[p] = 1 .. Len(Messages[p])
  BY <1>1
<1>4. ASSUME NEW i \in DOMAIN Messages[p]
      PROVE  /\ Messages[p][i].reliability \in {RELIABLE, RELIABLE_ORDERED, UNRELIABLE}
             /\ Messages[p][i].priority \in {HIGH_PRIORITY, MEDIUM_PRIORITY}
  <2>1. Messages[p][i] \in [reliability : {RELIABLE, RELIABLE_ORDERED, UNRELIABLE},
                            priority : {HIGH_PRIORITY, MEDIUM_PRIORITY}]
    <3> DEFINE s == Messages[p]
               M == [reliability : {RELIABLE, RELIABLE_ORDERED, UNRELIABLE},
                     priority : {HIGH_PRIORITY, MEDIUM_PRIORITY}]
    <3>1. s \in Seq(M) /\ i \in 1 .. Len(s)
      BY <1>1, <1>3
    <3> HIDE DEF s, M
    <3>2. s[i] \in M
      BY <3>1
    <3>3. QED
      BY <3>2 DEF s, M
  <2>2. QED
    BY <2>1
<1>5. \A i \in DOMAIN Messages[p] :
        i \in InOrder[p] <=> Messages[p][i].reliability = RELIABLE_ORDERED
  BY <1>2 DEF Ordered
<1>6. QED
  BY <1>3, <1>4, <1>5

\* The ordered messages grow one by one.
LEMMA FirstsNext ==
  ASSUME NEW p \in Peer, NEW n \in Nat
  PROVE  /\ Firsts(p, n) \in Seq(Nat) /\ Firsts(p, 0) = <<>>
         /\ n + 1 \in InOrder[p] => Firsts(p, n + 1) = Append(Firsts(p, n), n + 1)
         /\ n + 1 \notin InOrder[p] => Firsts(p, n + 1) = Firsts(p, n)
<1> DEFINE s == [i \in 1 .. n |-> i]
           t == [i \in 1 .. n + 1 |-> i]
           none == [i \in 1 .. 0 |-> i]
<1>1. s \in Seq(Nat) /\ n + 1 \in Nat /\ t = Append(s, n + 1) /\ none = <<>>
  <2>1. s \in Seq(Nat) /\ Len(s) = n /\ t \in Seq(Nat) /\ Len(t) = n + 1
    OBVIOUS
  <2>2. Append(s, n + 1) \in Seq(Nat) /\ Len(Append(s, n + 1)) = n + 1
    BY <2>1
  <2>3. \A i \in 1 .. n + 1 : Append(s, n + 1)[i] = t[i]
    BY <2>1
  <2>4. t = Append(s, n + 1)
    <3> HIDE DEF s, t
    <3>1. QED
      BY <2>1, <2>2, <2>3, SeqEqual
  <2>5. QED
    BY <2>1, <2>4
<1>2. Selected(s, InOrder[p]) \in Seq(Nat)
  <2>1. Selected(s, InOrder[p]) \in Seq(Nat \cap InOrder[p])
    <3> HIDE DEF s
    <3>1. QED
      BY <1>1, SelectedIs
  <2>2. QED
    BY <2>1
<1>3. Selected(none, InOrder[p]) = <<>>
  BY <1>1, SelectedNone
<1>4. /\ n + 1 \in InOrder[p] =>
           Selected(t, InOrder[p]) = Append(Selected(s, InOrder[p]), n + 1)
      /\ n + 1 \notin InOrder[p] => Selected(t, InOrder[p]) = Selected(s, InOrder[p])
  <2> DEFINE S == InOrder[p]
  <2> HIDE DEF s, t, S
  <2>1. s \in Seq(Nat) /\ n + 1 \in Nat
    BY <1>1
  <2>2. /\ n + 1 \in S => Selected(Append(s, n + 1), S) = Append(Selected(s, S), n + 1)
        /\ n + 1 \notin S => Selected(Append(s, n + 1), S) = Selected(s, S)
    BY <2>1, SelectedAppend
  <2>3. t = Append(s, n + 1)
    BY <1>1
  <2>4. QED
    BY <2>2, <2>3 DEF S
<1>5. QED
  BY <1>2, <1>3, <1>4 DEF Firsts

\* How long they are.
LEMMA FirstsGrow ==
  ASSUME NEW p \in Peer, NEW n \in Nat, NEW i \in 0 .. n
  PROVE  Len(Firsts(p, i)) \in Nat /\ Len(Firsts(p, i)) <= Len(Firsts(p, n))
<1> DEFINE length == [k \in Nat |-> Len(Firsts(p, k))]
           T == {k \in 0 .. n : \A j \in 0 .. k : length[j] <= length[k]}
<1>1. \A k \in Nat : length[k] \in Nat
  BY FirstsNext
<1>2. ASSUME NEW k \in Nat PROVE length[k] <= length[k + 1]
  <2>1. k + 1 \in Nat
    OBVIOUS
  <2>2. /\ Firsts(p, k + 1) \in {Firsts(p, k), Append(Firsts(p, k), k + 1)}
        /\ Firsts(p, k) \in Seq(Nat)
    BY FirstsNext
  <2>3. QED
    BY <2>1, <2>2
<1> HIDE DEF length
<1>3. 0 \in T
  BY <1>1
<1>4. ASSUME NEW k \in 1 .. n, k - 1 \in T PROVE k \in T
  <2>1. k - 1 \in Nat /\ k \in Nat /\ (k - 1) + 1 = k
    OBVIOUS
  <2>2. length[k - 1] <= length[k]
    BY <1>2, <2>1
  <2>3. ASSUME NEW j \in 0 .. k PROVE length[j] <= length[k]
    <3>1. CASE j = k
      BY <1>1, <2>1, <3>1
    <3>2. CASE j # k
      <4>1. j \in 0 .. k - 1 /\ j \in Nat
        BY <3>2
      <4>2. QED
        BY <1>1, <1>4, <2>1, <2>2, <4>1
    <3>3. QED
      BY <3>1, <3>2
  <2>4. QED
    BY <2>3
<1>5. n \in T
  <2> HIDE DEF T
  <2>1. n \in 0 .. n
    OBVIOUS
  <2>2. QED
    BY <1>3, <1>4, <2>1, Upwards
<1>6. length[i] = Len(Firsts(p, i)) /\ length[n] = Len(Firsts(p, n)) /\ i \in Nat
  BY DEF length
<1>7. QED
  BY <1>1, <1>5, <1>6

\* An ordered message is at its place.
LEMMA AtItsPlace ==
  ASSUME NEW p \in Peer, NEW n \in Nat, NEW i \in 1 .. n, i \in InOrder[p]
  PROVE  /\ Place(p, i) \in Nat /\ Place(p, i) < Len(Firsts(p, n))
         /\ Firsts(p, n)[Place(p, i) + 1] = i
<1> DEFINE k == i - 1
           There(m) == Len(Firsts(p, k)) < Len(Firsts(p, m)) /\ Firsts(p, m)[Len(Firsts(p, k)) + 1] = i
           T == {d \in 0 .. n - i : There(i + d)}
<1>1. k \in Nat /\ k + 1 = i /\ Firsts(p, k) \in Seq(Nat)
  BY FirstsNext
<1>2. Firsts(p, i) = Append(Firsts(p, k), i)
  BY <1>1, FirstsNext
<1>3. There(i)
  <2> HIDE DEF k
  <2>1. QED
    BY <1>1, <1>2
<1>4. 0 \in T
  <2>1. i + 0 = i /\ 0 \in 0 .. n - i
    OBVIOUS
  <2>2. QED
    BY <1>3, <2>1
<1>5. ASSUME NEW d \in 1 .. n - i, d - 1 \in T PROVE d \in T
  <2> DEFINE m == i + (d - 1)
  <2>1. m \in Nat /\ m + 1 = i + d /\ d \in 0 .. n - i /\ There(m)
    BY <1>5
  <2> HIDE DEF m
  <2>2. /\ Firsts(p, m + 1) \in {Firsts(p, m), Append(Firsts(p, m), m + 1)}
        /\ Firsts(p, m) \in Seq(Nat)
    BY <2>1, FirstsNext
  <2>3. There(m + 1)
    <3> HIDE DEF k
    <3>1. Len(Firsts(p, k)) \in Nat
      BY <1>1
    <3>2. CASE Firsts(p, m + 1) = Firsts(p, m)
      BY <2>1, <3>2
    <3>3. CASE Firsts(p, m + 1) = Append(Firsts(p, m), m + 1)
      <4> DEFINE s == Firsts(p, m)
                 r == Len(Firsts(p, k))
      <4>1. s \in Seq(Nat) /\ r \in Nat /\ r < Len(s) /\ s[r + 1] = i
        BY <2>1, <2>2, <3>1
      <4> HIDE DEF s, r
      <4>2. Len(Append(s, m + 1)) = Len(s) + 1 /\ Append(s, m + 1)[r + 1] = s[r + 1]
        BY <2>1, <4>1
      <4>3. Len(s) \in Nat
        BY <4>1
      <4>4. r < Len(s) + 1 /\ Append(s, m + 1)[r + 1] = i
        BY <4>1, <4>2, <4>3
      <4>5. QED
        BY <3>3, <4>2, <4>4 DEF s, r
    <3>4. QED
      BY <2>2, <3>2, <3>3
  <2>4. QED
    BY <2>1, <2>3
<1>6. n - i \in T
  <2> HIDE DEF T
  <2>1. n - i \in Nat /\ n - i \in 0 .. n - i
    OBVIOUS
  <2>2. QED
    BY <1>4, <1>5, <2>1, Upwards
<1>7. There(n)
  <2>1. i + (n - i) = n
    OBVIOUS
  <2>2. QED
    BY <1>6, <2>1
<1>8. QED
  BY <1>1, <1>7 DEF Place

\* What comes later does not change what came first.
LEMMA SamePrefix ==
  ASSUME NEW p \in Peer, NEW n \in Nat, NEW r \in 0 .. Len(Firsts(p, n))
  PROVE  SubSeq(Firsts(p, n + 1), 1, r) = SubSeq(Firsts(p, n), 1, r)
<1>1. Firsts(p, n) \in Seq(Nat) /\ n + 1 \in Nat
  BY FirstsNext
<1>2. CASE Firsts(p, n + 1) = Firsts(p, n)
  BY <1>2
<1>3. CASE Firsts(p, n + 1) = Append(Firsts(p, n), n + 1)
  <2> DEFINE s == Firsts(p, n)
  <2>1. s \in Seq(Nat) /\ r \in 0 .. Len(s)
    BY <1>1
  <2> HIDE DEF s
  <2>2. SubSeq(Append(s, n + 1), 1, r) = SubSeq(s, 1, r)
    <3>1. /\ SubSeq(s, 1, r) \in Seq(Nat) /\ Len(SubSeq(s, 1, r)) = r
          /\ \A i \in 1 .. r : SubSeq(s, 1, r)[i] = s[i]
      BY <2>1, SubSeqProperties
    <3>2. Append(s, n + 1) \in Seq(Nat) /\ Len(Append(s, n + 1)) = Len(s) + 1
      BY <1>1, <2>1
    <3>3. /\ SubSeq(Append(s, n + 1), 1, r) \in Seq(Nat)
          /\ Len(SubSeq(Append(s, n + 1), 1, r)) = r
          /\ \A i \in 1 .. r : SubSeq(Append(s, n + 1), 1, r)[i] = Append(s, n + 1)[i]
      BY <2>1, <3>2, SubSeqProperties
    <3>4. \A i \in 1 .. r : Append(s, n + 1)[i] = s[i]
      BY <1>1, <2>1
    <3>5. QED
      BY <3>1, <3>3, <3>4, SeqEqual
  <2>3. QED
    BY <1>3, <2>2 DEF s
<1>4. QED
  BY <1>2, <1>3, FirstsNext

-----------------------------------------------------------------------------
(* The inductive invariant *)

Packet == [number : Nat, reliability : {RELIABLE, RELIABLE_ORDERED, UNRELIABLE},
           index : Nat, message : Nat]

\* The packets that the first n messages of p can be in: an ordered one has its
\* message's place among the ordered messages for its index.
MadeOf(p, n) ==
  { packet \in Packet :
      /\ packet.message \in 1 .. n
      /\ packet.reliability = RELIABLE_ORDERED <=> packet.message \in InOrder[p]
      /\ packet.reliability = RELIABLE_ORDERED => packet.index = Place(p, packet.message) }

Entries(P) == {Hole} \cup [packet : P, age : Int, outstanding : Int]
InOrderOnly(Q) == { packet \in Q : packet.reliability = RELIABLE_ORDERED }
Priorities == {HIGH_PRIORITY, MEDIUM_PRIORITY}

\* A layer that sends packets of P and receives packets of Q.
Layers(P, Q) ==
  [packetNumber : Nat, orderedWriteIndex : Nat, orderedReadIndex : Nat,
   sendPacketSet : [Priorities -> Seq(P)], resendQueue : Seq(Entries(P)),
   lastAck : Int, deadConnection : BOOLEAN,
   windowSize : Int, lossyWindowSize : Int, lastIncrease : Int,
   receivedPackets : Seq([age : Int, hole : BOOLEAN]), receivedPacketsBaseIndex : Nat,
   acknowledgementQueue : Seq([number : Nat, age : Int]),
   orderingList : Seq(InOrderOnly(Q)), outputQueue : Seq(Nat)]

\* What has been delivered of the first n messages of q.
Reads(l, q, n) ==
  /\ l.orderedReadIndex <= Len(Firsts(q, n))
  /\ Selected(l.outputQueue, InOrder[q]) = SubSeq(Firsts(q, n), 1, l.orderedReadIndex)

SentBy(p) == MadeOf(p, sentCount[p])

LayerInv(p) ==
  /\ layer[p] \in Layers(SentBy(p), SentBy(Other(p)))
  /\ layer[p].orderedWriteIndex = Len(Firsts(p, sentCount[p]))
  /\ Reads(layer[p], Other(p), sentCount[Other(p)])

FramesInv ==
  \A frame \in network :
    /\ frame.to \in Peer /\ frame.packets \in Seq(SentBy(Other(frame.to)))
    /\ frame.acks \in Seq(Nat)
    /\ frame = [to |-> frame.to, packets |-> frame.packets, acks |-> frame.acks,
                life |-> frame.life]

DeliveryInv ==
  /\ layer = [p \in Peer |-> layer[p]]
  /\ sentCount \in [Peer -> Nat] /\ \A p \in Peer : sentCount[p] <= Len(Messages[p])
  /\ \A p \in Peer : LayerInv(p)
  /\ FramesInv

-----------------------------------------------------------------------------
(* Helpers *)

\* The lesser of two numbers.
LEMMA Smaller ==
  ASSUME NEW a \in Int, NEW b \in Int
  PROVE  /\ Min({a, b}) \in {a, b} /\ Min({a, b}) <= a /\ Min({a, b}) <= b
<1>1. \E x \in {a, b} : \A y \in {a, b} : x <= y
  OBVIOUS
<1>2. Min({a, b}) \in {a, b} /\ \A y \in {a, b} : Min({a, b}) <= y
  BY <1>1 DEF Min
<1>3. QED
  BY <1>2

\* The greater of two numbers.
LEMMA Larger ==
  ASSUME NEW a \in Int, NEW b \in Int
  PROVE  /\ Max({a, b}) \in {a, b} /\ Max({a, b}) >= a /\ Max({a, b}) >= b
<1>1. \E x \in {a, b} : \A y \in {a, b} : x >= y
  OBVIOUS
<1>2. Max({a, b}) \in {a, b} /\ \A y \in {a, b} : Max({a, b}) >= y
  BY <1>1 DEF Max
<1>3. QED
  BY <1>2

\* The least of a set of numbers.
LEMMA FirstOf ==
  ASSUME NEW T \in SUBSET Nat, T # {}
  PROVE  Min(T) \in T /\ \A y \in T : Min(T) <= y
<1>1. \E x \in T : \A y \in T : x <= y
  BY Least
<1>2. QED
  BY <1>1 DEF Min

\* What is known of the constants, one by one.
LEMMA Constants ==
  /\ PacketNumberRange \in Nat \ {0, 1} /\ OrderingIndexRange \in Nat \ {0, 1}
  /\ FrameSize \in Nat \ {0} /\ MINIMUM_WINDOW_SIZE \in Nat \ {0}
  /\ MAXIMUM_WINDOW_SIZE \in Nat /\ LostPacketResendDelay \in Nat \ {0}
  /\ TIMEOUT_TIME \in Nat /\ StartTime \in Nat /\ FrameLife \in Nat
BY LayerConstants

\* What is less than the modulus is its own remainder.
LEMMA Remainder ==
  ASSUME NEW m \in Nat \ {0}, NEW k \in Nat
  PROVE  k % m \in Nat /\ (k < m => k % m = k)
OBVIOUS

\* A part of a sequence has its elements.
LEMMA PartOf ==
  ASSUME NEW S, NEW s \in Seq(S), NEW m \in Nat \ {0}, NEW n \in Nat, n <= Len(s)
  PROVE  SubSeq(s, m, n) \in Seq(S) /\ Len(SubSeq(s, m, n)) <= n
                                    /\ Len(SubSeq(s, m, n)) <= Len(s)
<1>1. \A i \in m .. n : s[i] \in S
  OBVIOUS
<1>2. /\ SubSeq(s, m, n) \in Seq(S)
      /\ Len(SubSeq(s, m, n)) = IF m <= n THEN n - m + 1 ELSE 0
  BY <1>1, SubSeqProperties
<1>3. QED
  BY <1>2

\* More messages make more packets.
LEMMA MoreMade ==
  ASSUME NEW p \in Peer, NEW n \in Nat
  PROVE  MadeOf(p, n) \subseteq MadeOf(p, n + 1) /\ MadeOf(p, n) \subseteq Packet
<1>1. 1 .. n \subseteq 1 .. n + 1
  OBVIOUS
<1>2. QED
  BY <1>1 DEF MadeOf

\* A layer of few packets is a layer of more.
LEMMA MoreLayers ==
  ASSUME NEW P, NEW Q, NEW P2, NEW Q2, P \subseteq P2, Q \subseteq Q2
  PROVE  Layers(P, Q) \subseteq Layers(P2, Q2)
<1>1. \A s : s \in Seq(P) => s \in Seq(P2)
  OBVIOUS
<1>2. \A s : s \in Seq(InOrderOnly(Q)) => s \in Seq(InOrderOnly(Q2))
  BY DEF InOrderOnly
<1>3. Entries(P) \subseteq Entries(P2)
  BY DEF Entries
<1>4. \A s : s \in Seq(Entries(P)) => s \in Seq(Entries(P2))
  BY <1>3
<1>5. [Priorities -> Seq(P)] \subseteq [Priorities -> Seq(P2)]
  BY <1>1
<1>6. ASSUME NEW l \in Layers(P, Q)
      PROVE  l \in Layers(P2, Q2)
  <2>1. /\ l.sendPacketSet \in [Priorities -> Seq(P2)]
        /\ l.resendQueue \in Seq(Entries(P2))
        /\ l.orderingList \in Seq(InOrderOnly(Q2))
    BY <1>2, <1>4, <1>5 DEF Layers
  <2>2. QED
    BY <2>1 DEF Layers
<1>7. QED
  BY <1>6

-----------------------------------------------------------------------------
(* Sending *)

\* Nothing is numbered for the order, or delivered.
Same(new, l) ==
  /\ new.orderedWriteIndex = l.orderedWriteIndex
  /\ new.orderedReadIndex = l.orderedReadIndex
  /\ new.outputQueue = l.outputQueue

\* Send gives an ordered packet the place of its message.
LEMMA SentIs ==
  ASSUME FewMessages, NEW p \in Peer, NEW n \in Nat, n < Len(Messages[p]), NEW Q,
         NEW l \in Layers(MadeOf(p, n), Q), l.orderedWriteIndex = Len(Firsts(p, n)),
         NEW new, new = Sent(l, p, n + 1)
  PROVE  /\ new \in Layers(MadeOf(p, n + 1), Q)
         /\ new.orderedWriteIndex = Len(Firsts(p, n + 1))
         /\ new.orderedReadIndex = l.orderedReadIndex /\ new.outputQueue = l.outputQueue
<1> DEFINE message == Messages[p][n + 1]
           ordered == message.reliability = RELIABLE_ORDERED
           packet == [number |-> l.packetNumber, reliability |-> message.reliability,
                      index |-> IF ordered THEN l.orderedWriteIndex ELSE 0, message |-> n + 1]
           number == (l.packetNumber + 1) % PacketNumberRange
           index == IF ordered THEN (l.orderedWriteIndex + 1) % OrderingIndexRange
                    ELSE l.orderedWriteIndex
           queue == Append(l.sendPacketSet[message.priority], packet)
           P == MadeOf(p, n + 1)
<1>1. /\ message.reliability \in {RELIABLE, RELIABLE_ORDERED, UNRELIABLE}
      /\ message.priority \in Priorities
      /\ n + 1 \in InOrder[p] <=> ordered
  BY MessageTypes DEF Priorities
<1>2. l \in Layers(P, Q)
  BY MoreMade, MoreLayers
<1>3. packet \in P
  <2>1. l.packetNumber \in Nat /\ l.orderedWriteIndex \in Nat
    BY DEF Layers
  <2>2. packet \in Packet
    BY <1>1, <2>1 DEF Packet
  <2>3. (n + 1) - 1 = n /\ n + 1 \in 1 .. n + 1
    OBVIOUS
  <2>4. ordered => packet.index = Place(p, n + 1)
    BY <2>3 DEF Place
  <2>5. QED
    BY <1>1, <2>2, <2>3, <2>4 DEF MadeOf
<1>4. number \in Nat
  <2>1. l.packetNumber + 1 \in Nat
    BY DEF Layers
  <2>2. QED
    BY <2>1, Remainder, Constants
<1>5. index \in Nat /\ index = Len(Firsts(p, n + 1))
  <2>1. Firsts(p, n) \in Seq(Nat) /\ Len(Firsts(p, n)) \in Nat
    BY FirstsNext
  <2>2. CASE ordered
    <3>1. Len(Firsts(p, n + 1)) = Len(Firsts(p, n)) + 1
      BY <1>1, <2>1, <2>2, FirstsNext
    <3>2. Len(Firsts(p, n + 1)) < OrderingIndexRange
      <4>1. n + 1 \in 0 .. Len(Messages[p]) /\ Len(Messages[p]) \in Nat
        BY MessageTypes
      <4>2. /\ Len(Firsts(p, n + 1)) <= Len(Firsts(p, Len(Messages[p])))
            /\ Len(Firsts(p, Len(Messages[p]))) \in Nat
        BY <4>1, FirstsGrow
      <4>3. QED
        BY <2>1, <3>1, <4>2, Constants DEF FewMessages
    <3>3. \A i \in Nat : i < OrderingIndexRange => i % OrderingIndexRange = i
      BY Constants, Remainder
    <3>4. index = (Len(Firsts(p, n)) + 1) % OrderingIndexRange
      BY <2>2
    <3>5. QED
      BY <2>1, <3>1, <3>2, <3>3, <3>4
  <2>3. CASE ~ordered
    BY <1>1, <2>1, <2>3, FirstsNext
  <2>4. QED
    BY <2>2, <2>3
<1>6. queue \in Seq(P)
  <2>1. l.sendPacketSet \in [Priorities -> Seq(P)]
    BY <1>2 DEF Layers
  <2>2. l.sendPacketSet[message.priority] \in Seq(P)
    BY <1>1, <2>1
  <2> HIDE DEF packet, P, message
  <2>3. QED
    BY <1>3, <2>2
<1>7. new = [l EXCEPT !.packetNumber = number, !.orderedWriteIndex = index,
                      !.sendPacketSet = [@ EXCEPT ![message.priority] = queue]]
  BY DEF Sent
<1> HIDE DEF number, index, queue, message, P
<1>8. [l.sendPacketSet EXCEPT ![message.priority] = queue] \in [Priorities -> Seq(P)]
  BY <1>1, <1>2, <1>6 DEF Layers
<1>9. QED
  BY <1>2, <1>4, <1>5, <1>7, <1>8 DEF Layers, P

\* Of a sequence of entries, what is selected before the frame is full.
LEMMA FitsIntoFrame ==
  ASSUME NEW P, NEW queue \in Seq(Entries(P)), NEW N \in 0 .. Len(queue), NEW S,
         \A k \in 1 .. N : queue[k] \in S =>
           /\ Due(queue[k])
           /\ Cardinality({ j \in 1 .. k - 1 : Due(queue[j]) }) < FrameSize,
         \A k \in 1 .. N : Due(queue[k]) => queue[k] \in S
  PROVE  Len(Picked(queue, S, N)[N]) <= FrameSize
<1> DEFINE due(k) == { j \in 1 .. k : Due(queue[j]) }
           picked == Picked(queue, S, N)
           T == { k \in 0 .. N : /\ picked[k] \in Seq(Entries(P) \cap S)
                                 /\ Len(picked[k]) = Cardinality(due(k))
                                 /\ Len(picked[k]) <= FrameSize }
<1>0. N \in Nat
  OBVIOUS
<1>1. Picks(picked, queue, S, N)
  <2> DEFINE E == Entries(P)
  <2>1. queue \in Seq(E) /\ N \in 0 .. Len(queue)
    OBVIOUS
  <2> HIDE DEF E
  <2>2. QED
    BY <2>1, PickedIs
<1> HIDE DEF picked
<1>2. 0 \in T
  <2>1. picked[0] = <<>> /\ due(0) = {}
    BY <1>1 DEF Picks
  <2>2. Cardinality(due(0)) = 0 /\ 0 \in 0 .. N /\ 0 <= FrameSize
    BY <1>0, <2>1, FS_EmptySet, Constants
  <2>3. <<>> \in Seq(Entries(P) \cap S) /\ Len(<<>>) = 0
    OBVIOUS
  <2> HIDE DEF due
  <2>4. QED
    BY <2>1, <2>2, <2>3 DEF due
<1>3. ASSUME NEW k \in 1 .. N, k - 1 \in T
      PROVE  k \in T
  <2>1. /\ picked[k - 1] \in Seq(Entries(P) \cap S)
        /\ Len(picked[k - 1]) = Cardinality(due(k - 1))
        /\ Len(picked[k - 1]) <= FrameSize
    BY <1>3
  <2>2. k \in 0 .. N /\ k \in 1 .. Len(queue) /\ k - 1 \in Nat /\ queue[k] \in Entries(P)
    OBVIOUS
  <2>3. IsFiniteSet(due(k - 1))
    <3>1. IsFiniteSet(1 .. k - 1)
      BY <2>2, FS_Interval
    <3>2. due(k - 1) \in SUBSET (1 .. k - 1)
      OBVIOUS
    <3>3. QED
      BY <3>1, <3>2, FS_Subset
  <2>4. CASE queue[k] \in S
    <3>1. Due(queue[k]) /\ Cardinality(due(k - 1)) < FrameSize
      BY <2>4
    <3>2. due(k) = due(k - 1) \cup {k} /\ k \notin due(k - 1)
      BY <2>2, <3>1
    <3>3. Cardinality(due(k)) = Cardinality(due(k - 1)) + 1 /\ Cardinality(due(k - 1)) \in Nat
      <4> HIDE DEF due
      <4>1. QED
        BY <2>3, <3>2, FS_AddElement, FS_CardinalityType
    <3>4. picked[k] = Append(picked[k - 1], queue[k])
      BY <1>1, <2>4 DEF Picks
    <3>5. queue[k] \in Entries(P) \cap S
      BY <2>2, <2>4
    <3> HIDE DEF due
    <3>6. /\ picked[k] \in Seq(Entries(P) \cap S)
          /\ Len(picked[k]) = Len(picked[k - 1]) + 1
      BY <2>1, <3>4, <3>5
    <3>7. Len(picked[k]) = Cardinality(due(k)) /\ Len(picked[k]) <= FrameSize
      BY <2>1, <3>1, <3>3, <3>6, Constants
    <3>8. QED
      BY <2>2, <3>6, <3>7 DEF due
  <2>5. CASE queue[k] \notin S
    <3>1. ~Due(queue[k])
      BY <2>5
    <3>2. due(k) = due(k - 1)
      BY <2>2, <3>1
    <3>3. picked[k] = picked[k - 1]
      BY <1>1, <2>5 DEF Picks
    <3> HIDE DEF due
    <3>4. QED
      BY <2>1, <2>2, <3>2, <3>3 DEF due
  <2>6. QED
    BY <2>4, <2>5
<1>4. N \in T
  <2> HIDE DEF T
  <2>1. N \in 0 .. N
    BY <1>0
  <2>2. QED
    BY <1>0, <1>2, <1>3, <2>1, Upwards
<1>5. QED
  BY <1>4 DEF picked

\* A layer stays one when a time or a size of it changes.
LEMMA NumberChanged ==
  ASSUME NEW P, NEW Q, NEW l \in Layers(P, Q), NEW n \in Int
  PROVE  /\ [l EXCEPT !.windowSize = n] \in Layers(P, Q)
         /\ Same([l EXCEPT !.windowSize = n], l)
         /\ [l EXCEPT !.lossyWindowSize = n] \in Layers(P, Q)
         /\ Same([l EXCEPT !.lossyWindowSize = n], l)
         /\ [l EXCEPT !.lastIncrease = n] \in Layers(P, Q)
         /\ Same([l EXCEPT !.lastIncrease = n], l)
         /\ [l EXCEPT !.lastAck = n] \in Layers(P, Q)
         /\ Same([l EXCEPT !.lastAck = n], l)
<1>1. [l EXCEPT !.windowSize = n] \in Layers(P, Q) /\ Same([l EXCEPT !.windowSize = n], l)
  BY DEF Layers, Same
<1>2. /\ [l EXCEPT !.lossyWindowSize = n] \in Layers(P, Q)
      /\ Same([l EXCEPT !.lossyWindowSize = n], l)
  BY DEF Layers, Same
<1>3. [l EXCEPT !.lastIncrease = n] \in Layers(P, Q) /\ Same([l EXCEPT !.lastIncrease = n], l)
  BY DEF Layers, Same
<1>4. [l EXCEPT !.lastAck = n] \in Layers(P, Q) /\ Same([l EXCEPT !.lastAck = n], l)
  BY DEF Layers, Same
<1>5. QED
  BY <1>1, <1>2, <1>3, <1>4

\* Packet loss narrows the window and touches nothing else.
LEMMA Narrowed ==
  ASSUME NEW P, NEW Q, NEW l \in Layers(P, Q)
  PROVE  UpdatePacketloss(l) \in Layers(P, Q) /\ Same(UpdatePacketloss(l), l)
<1> DEFINE size == Max({l.windowSize - 1, MINIMUM_WINDOW_SIZE})
           l1 == [l EXCEPT !.windowSize = size]
           l2 == [l1 EXCEPT !.lossyWindowSize = size]
           l3 == [l2 EXCEPT !.lastIncrease = 0]
<1>1. size \in Int
  <2>1. l.windowSize - 1 \in Int /\ MINIMUM_WINDOW_SIZE \in Int
    BY Constants DEF Layers
  <2>2. size \in {l.windowSize - 1, MINIMUM_WINDOW_SIZE}
    BY <2>1, Larger
  <2>3. QED
    BY <2>1, <2>2
<1>2. UpdatePacketloss(l) = l3
  BY DEF UpdatePacketloss
<1> HIDE DEF size
<1>3. l1 \in Layers(P, Q) /\ Same(l1, l)
  BY <1>1, NumberChanged
<1> HIDE DEF l1
<1>4. l2 \in Layers(P, Q) /\ Same(l2, l1)
  BY <1>1, <1>3, NumberChanged
<1> HIDE DEF l2
<1>5. l3 \in Layers(P, Q) /\ Same(l3, l2)
  <2>1. PICK zero \in Int : zero = 0
    OBVIOUS
  <2>2. [l2 EXCEPT !.lastIncrease = zero] \in Layers(P, Q)
        /\ Same([l2 EXCEPT !.lastIncrease = zero], l2)
    BY <1>4, NumberChanged
  <2>3. QED
    BY <2>1, <2>2
<1> HIDE DEF l3
<1>6. QED
  BY <1>2, <1>3, <1>4, <1>5 DEF Same

\* What goes out again is in the resend queue, which keeps packets of the same kind.
LEMMA ResentIs ==
  ASSUME NEW P, NEW Q, NEW l \in Layers(P, Q), NEW r, r = Resent(l)
  PROVE  /\ r.layer \in Layers(P, Q) /\ Same(r.layer, l)
         /\ r.packets \in Seq(P) /\ Len(r.packets) <= FrameSize
<1> DEFINE queue == l.resendQueue
           stops == { k \in DOMAIN queue :
                        /\ queue[k] # Hole
                        /\ \/ ~Due(queue[k])
                           \/ Cardinality({ j \in 1 .. k - 1 : Due(queue[j]) }) >= FrameSize }
           stop == IF stops = {} THEN Len(queue) + 1 ELSE Min(stops)
           head == SubSeq(queue, 1, stop - 1)
           S == ToSet(queue) \ {Hole}
           again == Selected(head, S)
           rest == SubSeq(queue, stop, Len(queue))
           restarted == [k \in DOMAIN again |-> [again[k] EXCEPT !.age = 0]]
           ack == IF again # <<>> /\ l.lastAck = NoAck THEN 0 ELSE l.lastAck
           l1 == [l EXCEPT !.resendQueue = rest \o restarted, !.lastAck = ack]
           E == Entries(P)
           packets == [k \in DOMAIN again |-> again[k].packet]
<1>1. queue \in Seq(E) /\ Len(queue) \in Nat /\ DOMAIN queue = 1 .. Len(queue)
  BY DEF Layers
<1>2. stop \in 1 .. Len(queue) + 1 /\ \A k \in 1 .. stop - 1 : k \notin stops
  <2>1. stops \in SUBSET (1 .. Len(queue)) /\ stops \in SUBSET Nat
    BY <1>1
  <2> HIDE DEF stops, queue
  <2>2. CASE stops = {}
    BY <1>1, <2>2
  <2>3. CASE stops # {}
    <3>1. Min(stops) \in stops /\ \A k \in stops : Min(stops) <= k
      BY <2>1, <2>3, FirstOf
    <3>2. stop \in stops /\ \A k \in stops : stop <= k
      BY <2>3, <3>1
    <3> HIDE DEF stop
    <3>3. stop \in Nat /\ stop >= 1 /\ stop <= Len(queue)
      BY <1>1, <2>1, <3>2
    <3>4. \A k \in 1 .. stop - 1 : k \notin stops
      BY <2>1, <3>2, <3>3
    <3>5. QED
      BY <1>1, <3>3, <3>4
  <2>4. QED
    BY <2>2, <2>3
<1>3. /\ head \in Seq(E) /\ Len(head) = stop - 1
      /\ \A k \in 1 .. stop - 1 : head[k] = queue[k]
      /\ rest \in Seq(E)
  <2> HIDE DEF queue, stop, E
  <2>1. stop - 1 \in Nat /\ stop \in Nat \ {0} /\ 1 \in Nat \ {0} /\ stop - 1 <= Len(queue)
    BY <1>1, <1>2
  <2>2. rest \in Seq(E)
    BY <1>1, <2>1, PartOf
  <2>3. \A i \in 1 .. stop - 1 : queue[i] \in E
    BY <1>1, <1>2
  <2>4. /\ head \in Seq(E)
        /\ Len(head) = IF 1 <= stop - 1 THEN (stop - 1) - 1 + 1 ELSE 0
        /\ \A k \in 1 .. (stop - 1) - 1 + 1 : head[k] = queue[1 + k - 1]
    BY <1>1, <2>1, <2>3, SubSeqProperties
  <2> HIDE DEF head
  <2>5. \A k \in 1 .. stop - 1 : k \in 1 .. (stop - 1) - 1 + 1 /\ 1 + k - 1 = k
    BY <2>1
  <2>6. QED
    BY <2>1, <2>2, <2>4, <2>5
<1>4. again \in Seq(E \cap S) /\ Len(again) <= FrameSize
  <2> DEFINE N == stop - 1
             before(k) == { j \in 1 .. k - 1 : Due(queue[j]) }
  <2>0. \A k \in DOMAIN queue : k \notin stops /\ queue[k] # Hole =>
          Due(queue[k]) /\ ~(Cardinality(before(k)) >= FrameSize)
    OBVIOUS
  <2>00. \A k \in DOMAIN queue : queue[k] \in S <=> queue[k] # Hole
    BY DEF ToSet
  <2>1. /\ N \in Nat /\ N \in 0 .. Len(head) /\ Len(head) = N
        /\ \A k \in 1 .. N : /\ k \in DOMAIN queue /\ k \notin stops /\ head[k] = queue[k]
                            /\ \A j \in 1 .. k - 1 : head[j] = queue[j]
    <3> HIDE DEF queue, stops, stop, head
    <3>1. N \in Nat /\ N <= Len(queue) /\ Len(head) = N
      BY <1>1, <1>2, <1>3
    <3>2. \A k \in 1 .. N : k \in DOMAIN queue /\ k \notin stops /\ head[k] = queue[k]
      BY <1>1, <1>2, <1>3, <3>1
    <3> HIDE DEF N
    <3>3. \A k \in 1 .. N : \A j \in 1 .. k - 1 : j \in 1 .. N
      BY <3>1
    <3>4. QED
      BY <3>1, <3>2, <3>3
  <2> HIDE DEF queue, stops, stop, head, N, S
  <2>2. \A k \in 1 .. N : { j \in 1 .. k - 1 : Due(head[j]) } = before(k)
    BY <2>1
  <2>3. ASSUME NEW k \in 1 .. N, head[k] \in S
        PROVE  /\ Due(head[k])
               /\ Cardinality({ j \in 1 .. k - 1 : Due(head[j]) }) < FrameSize
    <3>1. head[k] = queue[k] /\ queue[k] # Hole /\ k \notin stops /\ k \in DOMAIN queue
      BY <2>00, <2>1, <2>3
    <3>2. Due(queue[k]) /\ ~(Cardinality(before(k)) >= FrameSize)
      BY <2>0, <3>1
    <3>3. Cardinality(before(k)) \in Nat
      <4>1. IsFiniteSet(1 .. k - 1)
        BY FS_Interval
      <4>2. before(k) \in SUBSET (1 .. k - 1)
        OBVIOUS
      <4>3. QED
        BY <4>1, <4>2, FS_Subset, FS_CardinalityType
    <3>4. { j \in 1 .. k - 1 : Due(head[j]) } = before(k)
      BY <2>2
    <3> HIDE DEF before
    <3>5. Cardinality(before(k)) < FrameSize
      BY <3>2, <3>3, Constants
    <3>6. QED
      BY <3>1, <3>2, <3>4, <3>5
  <2>4. ASSUME NEW k \in 1 .. N, Due(head[k])
        PROVE  head[k] \in S
    <3>1. head[k] = queue[k] /\ k \in DOMAIN queue /\ head[k] # Hole
      BY <2>1, <2>4 DEF Due
    <3>2. QED
      BY <2>00, <3>1
  <2>5. again = Picked(head, S, N)[N] /\ again \in Seq(E \cap S)
    <3> HIDE DEF head, S, N, E
    <3>1. QED
      BY <1>3, <2>1, SelectedIs
  <2>6. Len(Picked(head, S, N)[N]) <= FrameSize
    <3> HIDE DEF head, S, N
    <3>1. head \in Seq(Entries(P)) /\ N \in 0 .. Len(head)
      BY <1>3, <2>1
    <3>2. QED
      BY <2>3, <2>4, <3>1, FitsIntoFrame
  <2>7. QED
    BY <2>5, <2>6
<1>5. /\ Len(again) \in Nat /\ DOMAIN again = 1 .. Len(again)
      /\ \A k \in 1 .. Len(again) : again[k] \in [packet : P, age : Int, outstanding : Int]
  <2> HIDE DEF again
  <2>1. Len(again) \in Nat /\ DOMAIN again = 1 .. Len(again)
    BY <1>4
  <2>2. \A k \in 1 .. Len(again) : again[k] \in E \cap S
    BY <1>4
  <2>3. E \cap S \subseteq [packet : P, age : Int, outstanding : Int]
    BY DEF Entries
  <2>4. QED
    BY <2>1, <2>2, <2>3
<1> HIDE DEF again
<1>6. restarted \in Seq(E)
  <2>1. \A k \in 1 .. Len(again) :
          [again[k] EXCEPT !.age = 0] \in [packet : P, age : Int, outstanding : Int]
    BY <1>5
  <2>2. \A k \in 1 .. Len(again) : [again[k] EXCEPT !.age = 0] \in E
    BY <2>1 DEF Entries
  <2>3. QED
    BY <1>5, <2>2
<1>7. packets \in Seq(P) /\ Len(packets) <= FrameSize
  <2>1. \A k \in 1 .. Len(again) : again[k].packet \in P
    BY <1>5
  <2>2. packets \in Seq(P) /\ Len(packets) = Len(again)
    BY <1>5, <2>1
  <2>3. QED
    BY <1>4, <2>2
<1>8. r = [layer |-> IF again = <<>> THEN l1 ELSE UpdatePacketloss(l1),
           packets |-> packets, full |-> stops # {} /\ Due(queue[stop])]
  BY DEF Resent, again
<1> HIDE DEF packets, restarted, stops, stop
<1>9. l1 \in Layers(P, Q) /\ Same(l1, l)
  <2>1. rest \o restarted \in Seq(E)
    <3> HIDE DEF rest, E
    <3>1. QED
      BY <1>3, <1>6
  <2>2. ack \in Int
    BY DEF Layers
  <2> HIDE DEF rest, ack
  <2>3. QED
    BY <2>1, <2>2 DEF Layers, Same
<1> HIDE DEF l1
<1>10. UpdatePacketloss(l1) \in Layers(P, Q) /\ Same(UpdatePacketloss(l1), l)
  <2>1. UpdatePacketloss(l1) \in Layers(P, Q) /\ Same(UpdatePacketloss(l1), l1)
    BY <1>9, Narrowed
  <2>2. QED
    BY <1>9, <2>1 DEF Same
<1>11. r.layer \in {l1, UpdatePacketloss(l1)} /\ r.packets = packets
  BY <1>8
<1>12. QED
  BY <1>7, <1>9, <1>10, <1>11

\* What goes out for the first time was waiting, and is in the resend queue from now on.
LEMMA FirstSentIs ==
  ASSUME NEW P, NEW Q, NEW l \in Layers(P, Q), NEW room \in Nat,
         NEW s, s = FirstSent(l, room)
  PROVE  s.layer \in Layers(P, Q) /\ Same(s.layer, l) /\ s.packets \in Seq(P)
<1> DEFINE highQueue == l.sendPacketSet[HIGH_PRIORITY]
           mediumQueue == l.sendPacketSet[MEDIUM_PRIORITY]
           waiting == highQueue \o mediumQueue
           size == Min({room, Len(waiting)})
           new == SubSeq(waiting, 1, size)
           high == Len(highQueue)
           R == { packet \in ToSet(new) : IsReliable(packet) }
           reliable == Selected(new, R)
           skip == Max({room - high, 0})
           sets == [priority \in DOMAIN l.sendPacketSet |->
                      IF priority = HIGH_PRIORITY
                      THEN SubSeq(l.sendPacketSet[priority], room + 1, high)
                      ELSE SubSeq(l.sendPacketSet[priority], skip + 1,
                                  Len(l.sendPacketSet[priority]))]
           entries == [k \in DOMAIN reliable |->
                         [packet |-> reliable[k], age |-> 0, outstanding |-> 0]]
           queue == l.resendQueue \o entries
           ack == IF reliable # <<>> THEN 0 ELSE l.lastAck
           l1 == [l EXCEPT !.sendPacketSet = sets]
           l2 == [l1 EXCEPT !.resendQueue = queue]
           l3 == [l2 EXCEPT !.lastAck = ack]
<1>1. /\ l.sendPacketSet \in [Priorities -> Seq(P)] /\ DOMAIN l.sendPacketSet = Priorities
      /\ highQueue \in Seq(P) /\ mediumQueue \in Seq(P) /\ high \in Nat
      /\ l.resendQueue \in Seq(Entries(P)) /\ l.lastAck \in Int
  BY DEF Layers, Priorities
<1>2. waiting \in Seq(P) /\ Len(waiting) \in Nat
  <2> HIDE DEF highQueue, mediumQueue
  <2>1. waiting \in Seq(P)
    BY <1>1
  <2>2. QED
    BY <2>1
<1>3. new \in Seq(P)
  <2> HIDE DEF waiting
  <2>1. size \in {room, Len(waiting)} /\ size <= Len(waiting)
    <3>1. room \in Int /\ Len(waiting) \in Int
      BY <1>2
    <3>2. QED
      BY <3>1, Smaller
  <2>2. size \in Nat
    BY <1>2, <2>1
  <2> HIDE DEF size
  <2>3. QED
    BY <1>2, <2>1, <2>2, PartOf
<1> HIDE DEF new
<1>4. reliable \in Seq(P \cap R)
  BY <1>3, SelectedIs
<1> HIDE DEF R, reliable
<1>5. entries \in Seq(Entries(P))
  <2>1. DOMAIN reliable = 1 .. Len(reliable) /\ Len(reliable) \in Nat
        /\ \A k \in 1 .. Len(reliable) : reliable[k] \in P
    BY <1>4
  <2>2. \A k \in 1 .. Len(reliable) :
          [packet |-> reliable[k], age |-> 0, outstanding |-> 0] \in Entries(P)
    BY <2>1 DEF Entries
  <2>3. QED
    BY <2>1, <2>2
<1>6. queue \in Seq(Entries(P))
  <2> HIDE DEF entries
  <2>1. QED
    BY <1>1, <1>5
<1>7. sets \in [Priorities -> Seq(P)]
  <2>1. skip \in Nat
    <3>1. room - high \in Int /\ skip \in {room - high, 0} /\ skip >= 0
      <4>1. room - high \in Int /\ 0 \in Int
        BY <1>1
      <4>2. QED
        BY <4>1, Larger
    <3>2. QED
      BY <3>1
  <2> HIDE DEF skip
  <2>2. SubSeq(highQueue, room + 1, high) \in Seq(P)
    <3>1. room + 1 \in Nat \ {0} /\ high <= Len(highQueue)
      BY <1>1
    <3> HIDE DEF highQueue
    <3>2. QED
      BY <1>1, <3>1, PartOf
  <2>3. ASSUME NEW priority \in Priorities
        PROVE  SubSeq(l.sendPacketSet[priority], skip + 1, Len(l.sendPacketSet[priority]))
                 \in Seq(P)
    <3> DEFINE q == l.sendPacketSet[priority]
    <3>1. q \in Seq(P) /\ Len(q) \in Nat /\ Len(q) <= Len(q) /\ skip + 1 \in Nat \ {0}
      BY <1>1, <2>1
    <3> HIDE DEF q
    <3>2. SubSeq(q, skip + 1, Len(q)) \in Seq(P)
      BY <3>1, PartOf
    <3>3. QED
      BY <3>2 DEF q
  <2> HIDE DEF high
  <2>4. QED
    BY <1>1, <2>2, <2>3
<1>8. ack \in Int
  BY <1>1
<1>9. s = [layer |-> l3, packets |-> new]
  BY DEF FirstSent, new, R, reliable
<1> HIDE DEF sets, queue, ack
<1>10. l1 \in Layers(P, Q) /\ Same(l1, l)
  BY <1>7 DEF Layers, Same
<1> HIDE DEF l1
<1>11. l2 \in Layers(P, Q) /\ Same(l2, l1)
  BY <1>6, <1>10 DEF Layers, Same
<1> HIDE DEF l2
<1>12. l3 \in Layers(P, Q) /\ Same(l3, l2)
  BY <1>8, <1>11, NumberChanged
<1> HIDE DEF l3
<1>13. QED
  BY <1>3, <1>9, <1>10, <1>11, <1>12 DEF Same

\* A frame holds packets of the sender, and numbers of packets that it got.
LEMMA GenerateFrameIs ==
  ASSUME NEW P, NEW Q, NEW l \in Layers(P, Q), NEW g, g = GenerateFrame(l)
  PROVE  /\ g.layer \in Layers(P, Q) /\ Same(g.layer, l)
         /\ g.packets \in Seq(P) /\ g.acks \in Seq(Nat)
<1> DEFINE pending == l.acknowledgementQueue
           flush == /\ pending # <<>>
                    /\ \/ Len(pending) >= MINIMUM_WINDOW_SIZE
                       \/ Head(pending).age > LostPacketResendDelay \div 4
           r == Resent(l)
           shut == r.full \/ IsSendThrottled(r.layer)
           s == IF shut THEN [layer |-> r.layer, packets |-> <<>>]
                ELSE FirstSent(r.layer, FrameSize - Len(r.packets))
           packets == r.packets \o s.packets
           acks == flush \/ (~shut /\ packets # <<>>)
           numbers == [k \in DOMAIN pending |-> pending[k].number]
           empty == [s.layer EXCEPT !.acknowledgementQueue = <<>>]
<1>1. /\ r.layer \in Layers(P, Q) /\ Same(r.layer, l)
      /\ r.packets \in Seq(P) /\ Len(r.packets) <= FrameSize
  BY ResentIs
<1>2. g = [layer |-> IF acks THEN empty ELSE s.layer, packets |-> packets,
           acks |-> IF acks THEN numbers ELSE <<>>]
  BY DEF GenerateFrame
<1> HIDE DEF r
<1>3. s.layer \in Layers(P, Q) /\ Same(s.layer, l) /\ s.packets \in Seq(P)
  <2>1. CASE shut
    BY <1>1, <2>1
  <2>2. CASE ~shut
    <3>1. FrameSize - Len(r.packets) \in Nat
      BY <1>1, Constants
    <3> DEFINE f == FirstSent(r.layer, FrameSize - Len(r.packets))
    <3>2. f.layer \in Layers(P, Q) /\ Same(f.layer, r.layer) /\ f.packets \in Seq(P)
      BY <1>1, <3>1, FirstSentIs
    <3>3. s = f
      BY <2>2
    <3> HIDE DEF f
    <3>4. QED
      BY <1>1, <3>2, <3>3 DEF Same
  <2>3. QED
    BY <2>1, <2>2
<1> HIDE DEF s
<1>4. packets \in Seq(P)
  BY <1>1, <1>3
<1>5. numbers \in Seq(Nat)
  <2>1. pending \in Seq([number : Nat, age : Int])
    BY DEF Layers
  <2> HIDE DEF pending
  <2>2. /\ DOMAIN pending = 1 .. Len(pending) /\ Len(pending) \in Nat
        /\ \A k \in 1 .. Len(pending) : pending[k] \in [number : Nat, age : Int]
    <3> DEFINE A == [number : Nat, age : Int]
    <3>1. pending \in Seq(A)
      BY <2>1
    <3> HIDE DEF A
    <3>2. /\ DOMAIN pending = 1 .. Len(pending) /\ Len(pending) \in Nat
          /\ \A k \in 1 .. Len(pending) : pending[k] \in A
      BY <3>1
    <3>3. QED
      BY <3>2 DEF A
  <2>3. \A k \in 1 .. Len(pending) : pending[k].number \in Nat
    BY <2>2
  <2>4. QED
    BY <2>2, <2>3
<1>6. empty \in Layers(P, Q) /\ Same(empty, l)
  <2>1. <<>> \in Seq([number : Nat, age : Int])
    OBVIOUS
  <2>2. empty \in Layers(P, Q)
    BY <1>3, <2>1 DEF Layers
  <2>3. Same(empty, s.layer)
    BY <1>3 DEF Layers, Same
  <2>4. QED
    BY <1>3, <2>2, <2>3 DEF Same
<1> HIDE DEF packets, numbers, empty, flush, shut, acks
<1>7. /\ g.layer \in {empty, s.layer} /\ g.packets = packets
      /\ g.acks \in {numbers, <<>>}
  BY <1>2
<1>8. <<>> \in Seq(Nat)
  OBVIOUS
<1>9. QED
  BY <1>3, <1>4, <1>5, <1>6, <1>7, <1>8

\* The frames that p makes of packets of P.
FramesOf(p, P) == [to : {Other(p)}, packets : Seq(P), acks : Seq(Nat), life : {FrameLife}]

\* So do all frames of an Update.
LEMMA FramesAre ==
  ASSUME NEW P, NEW Q, NEW p, layer[p] \in Layers(P, Q), NEW sent, sent = Frames(p)
  PROVE  /\ sent.layer \in Layers(P, Q) /\ Same(sent.layer, layer[p])
         /\ sent.frames \subseteq FramesOf(p, P)
<1> DEFINE l == layer[p]
           N == 1 + Len(l.resendQueue) + Len(l.acknowledgementQueue)
                + Len(l.sendPacketSet[HIGH_PRIORITY]) + Len(l.sendPacketSet[MEDIUM_PRIORITY])
           b == [layer |-> l, frames |-> {}]
           U == { acc \in [layer : Layers(P, Q), frames : SUBSET FramesOf(p, P)] :
                    Same(acc.layer, l) }
           step == [x \in (1 .. N) \X U |-> NextFrame(p, x[2])]
           h == CHOOSE h : h = [n \in 0 .. N |-> IF n = 0 THEN b ELSE NextFrame(p, h[n - 1])]
<1>1. N \in Nat
  <2>1. /\ l.resendQueue \in Seq(Entries(P))
        /\ l.acknowledgementQueue \in Seq([number : Nat, age : Int])
        /\ l.sendPacketSet[HIGH_PRIORITY] \in Seq(P)
        /\ l.sendPacketSet[MEDIUM_PRIORITY] \in Seq(P)
    BY DEF Layers, Priorities
  <2> DEFINE a == Len(l.resendQueue)
             c == Len(l.acknowledgementQueue)
             d == Len(l.sendPacketSet[HIGH_PRIORITY])
             e == Len(l.sendPacketSet[MEDIUM_PRIORITY])
  <2>2. a \in Nat /\ c \in Nat
    BY <2>1
  <2>3. d \in Nat /\ e \in Nat
    BY <2>1
  <2> HIDE DEF a, c, d, e
  <2>4. 1 + a + c + d + e \in Nat
    BY <2>2, <2>3
  <2>5. QED
    BY <2>4 DEF a, c, d, e
<1>2. b \in U
  BY DEF Same
<1>3. ASSUME NEW acc \in U PROVE NextFrame(p, acc) \in U
  <2> DEFINE g == GenerateFrame(acc.layer)
             frame == [to |-> Other(p), packets |-> g.packets, acks |-> g.acks,
                       life |-> FrameLife]
             frames == IF g.packets = <<>> /\ g.acks = <<>> THEN acc.frames
                       ELSE acc.frames \cup {frame}
  <2>1. acc.layer \in Layers(P, Q) /\ Same(acc.layer, l) /\ acc.frames \subseteq FramesOf(p, P)
    OBVIOUS
  <2>2. /\ g.layer \in Layers(P, Q) /\ Same(g.layer, acc.layer)
        /\ g.packets \in Seq(P) /\ g.acks \in Seq(Nat)
    BY <2>1, GenerateFrameIs
  <2>3. NextFrame(p, acc) \in {acc, [layer |-> g.layer, frames |-> frames]}
    BY DEF NextFrame
  <2> HIDE DEF g
  <2>4. frame \in FramesOf(p, P)
    BY <2>2 DEF FramesOf
  <2> HIDE DEF frame
  <2>5. frames \subseteq FramesOf(p, P)
    BY <2>1, <2>4
  <2>6. Same(g.layer, l)
    BY <2>1, <2>2 DEF Same
  <2> HIDE DEF frames
  <2>7. [layer |-> g.layer, frames |-> frames] \in U
    BY <2>2, <2>5, <2>6
  <2>8. QED
    BY <2>3, <2>7
<1>4. Frames(p) = h[N]
  BY DEF Frames
<1> HIDE DEF N, b, U
<1>5. step \in [(1 .. N) \X U -> U]
  BY <1>3
<1>6. PICK f \in [0 .. N -> U] : Unrolls(f, b, N, step)
  <2> HIDE DEF step
  <2>1. QED
    BY <1>1, <1>2, <1>5, StepByStep
<1>7. f = [n \in 0 .. N |-> IF n = 0 THEN b ELSE NextFrame(p, f[n - 1])]
  <2>1. \A n \in 1 .. N : n - 1 \in 0 .. N
    BY <1>1
  <2>2. \A n \in 1 .. N : step[<<n, f[n - 1]>>] = NextFrame(p, f[n - 1])
    BY <2>1
  <2> HIDE DEF step
  <2>3. \A n \in 0 .. N : n = 0 \/ n \in 1 .. N
    BY <1>1
  <2>4. f = [n \in 0 .. N |-> IF n = 0 THEN b ELSE step[<<n, f[n - 1]>>]]
    BY <1>6 DEF Unrolls
  <2>5. QED
    BY <2>2, <2>3, <2>4
<1>8. h = [n \in 0 .. N |-> IF n = 0 THEN b ELSE NextFrame(p, h[n - 1])]
  BY <1>7
<1> HIDE DEF h
<1>9. h[N] \in U
  <2> DEFINE T == { n \in 0 .. N : h[n] \in U }
  <2>1. 0 \in T
    BY <1>1, <1>2, <1>8
  <2>2. ASSUME NEW n \in 1 .. N, n - 1 \in T PROVE n \in T
    <3>1. n \in 0 .. N /\ n # 0 /\ h[n - 1] \in U
      BY <1>1, <2>2
    <3>2. h[n] = NextFrame(p, h[n - 1])
      BY <1>8, <3>1
    <3>3. h[n] \in U
      BY <1>3, <3>1, <3>2
    <3>4. QED
      BY <3>1, <3>3
  <2>3. N \in 0 .. N
    BY <1>1
  <2>4. N \in T
    <3> HIDE DEF T
    <3>1. QED
      BY <1>1, <2>1, <2>2, <2>3, Upwards
  <2>5. QED
    BY <2>4
<1>10. sent \in U
  BY <1>4, <1>9
<1>11. QED
  BY <1>10 DEF U

-----------------------------------------------------------------------------
(* Receiving *)

\* An acknowledgement takes something from the resend queue.
LEMMA AcknowledgedIs ==
  ASSUME NEW P, NEW Q, NEW l \in Layers(P, Q), NEW number, NEW new, new = Acknowledged(l, number)
  PROVE  new \in Layers(P, Q) /\ Same(new, l)
<1> DEFINE queue == l.resendQueue
           E == Entries(P)
           acked == { k \in DOMAIN queue : queue[k] # Hole /\ queue[k].packet.number = number }
           ack == IF queue = <<>> THEN NoAck ELSE 0
           timed == [l EXCEPT !.lastAck = ack]
           holed == [queue EXCEPT ![Min(acked)] = Hole]
           popped == [timed EXCEPT !.resendQueue = Tail(queue)]
           marked == [timed EXCEPT !.resendQueue = holed]
<1>1. queue \in Seq(E) /\ Hole \in E
  BY DEF Layers, Entries
<1>2. timed \in Layers(P, Q) /\ Same(timed, l) /\ timed.resendQueue = queue
  <2>1. ack \in Int
    BY DEF NoAck
  <2> HIDE DEF ack
  <2>2. timed.resendQueue = queue
    BY DEF Layers
  <2>3. QED
    BY <2>1, <2>2, NumberChanged
<1>3. \/ acked = {} /\ new = timed
      \/ acked # {} /\ Min(acked) = 1 /\ new = popped
      \/ acked # {} /\ Min(acked) # 1 /\ new = [timed EXCEPT !.resendQueue[Min(acked)] = Hole]
  BY DEF Acknowledged
<1>4. acked # {} => Min(acked) \in 1 .. Len(queue)
  <2>1. acked \in SUBSET (1 .. Len(queue)) /\ acked \in SUBSET Nat
    BY <1>1
  <2>2. acked # {} => Min(acked) \in acked
    BY <2>1, FirstOf
  <2>3. QED
    BY <2>1, <2>2
<1> HIDE DEF timed, queue, acked, E
<1>5. [timed EXCEPT !.resendQueue[Min(acked)] = Hole] = marked
  BY <1>2
<1>6. CASE acked = {}
  BY <1>2, <1>3, <1>6
<1>7. CASE acked # {} /\ Min(acked) = 1
  <2>1. Tail(queue) \in Seq(E)
    BY <1>1, <1>4, <1>7
  <2>2. popped \in Layers(P, Q)
    BY <1>2, <2>1 DEF Layers, E
  <2>3. Same(popped, timed)
    BY <1>2 DEF Layers, Same
  <2>4. QED
    BY <1>2, <1>3, <1>7, <2>2, <2>3 DEF Same
<1>8. CASE acked # {} /\ Min(acked) # 1
  <2>1. holed \in Seq(E)
    <3> DEFINE k == Min(acked)
    <3>1. k \in 1 .. Len(queue)
      BY <1>4, <1>8
    <3> HIDE DEF k
    <3>2. [queue EXCEPT ![k] = Hole] \in Seq(E)
      BY <1>1, <3>1
    <3>3. QED
      BY <3>2 DEF k
  <2> HIDE DEF holed
  <2>2. marked \in Layers(P, Q)
    BY <1>2, <2>1 DEF Layers, E
  <2>3. Same(marked, timed)
    BY <1>2 DEF Layers, Same
  <2>4. QED
    BY <1>2, <1>3, <1>5, <1>8, <2>2, <2>3 DEF Same
<1>9. QED
  BY <1>6, <1>7, <1>8

\* An entry of the log of received packets.
LogEntry == [age : Int, hole : BOOLEAN]

\* A layer stays one when its log changes.
LEMMA LogChanged ==
  ASSUME NEW P, NEW Q, NEW l \in Layers(P, Q), NEW log \in Seq(LogEntry)
  PROVE  /\ [l EXCEPT !.receivedPackets = log] \in Layers(P, Q)
         /\ Same([l EXCEPT !.receivedPackets = log], l)
<1>1. [l EXCEPT !.receivedPackets = log] \in Layers(P, Q)
  BY DEF Layers, LogEntry
<1>2. Same([l EXCEPT !.receivedPackets = log], l)
  BY DEF Layers, Same
<1>3. QED
  BY <1>1, <1>2

\* A layer stays one when its log moves on.
LEMMA BaseChanged ==
  ASSUME NEW P, NEW Q, NEW l \in Layers(P, Q), NEW n \in Nat
  PROVE  /\ [l EXCEPT !.receivedPacketsBaseIndex = n] \in Layers(P, Q)
         /\ Same([l EXCEPT !.receivedPacketsBaseIndex = n], l)
<1>1. [l EXCEPT !.receivedPacketsBaseIndex = n] \in Layers(P, Q)
  BY DEF Layers
<1>2. Same([l EXCEPT !.receivedPacketsBaseIndex = n], l)
  BY DEF Layers, Same
<1>3. QED
  BY <1>1, <1>2

\* Expired entries leave the log, and nothing else changes.
LEMMA ExpiredIs ==
  ASSUME NEW P, NEW Q, NEW l \in Layers(P, Q), NEW new, new = Expired(l)
  PROVE  new \in Layers(P, Q) /\ Same(new, l)
<1> DEFINE received == l.receivedPackets
           kept == { k \in DOMAIN received : ~IsExpiredTime(received[k]) }
           gone == IF kept = {} THEN Len(received) ELSE Min(kept) - 1
           log == SubSeq(received, gone + 1, Len(received))
           n == (l.receivedPacketsBaseIndex + gone) % PacketNumberRange
<1>1. received \in Seq(LogEntry) /\ l.receivedPacketsBaseIndex \in Nat
  BY DEF Layers, LogEntry
<1>2. Len(received) \in Nat /\ DOMAIN received = 1 .. Len(received)
  BY <1>1
<1>3. gone \in Nat
  <2>1. kept \in SUBSET (1 .. Len(received)) /\ kept \in SUBSET Nat
    BY <1>2
  <2>2. kept # {} => Min(kept) \in kept
    BY <2>1, FirstOf
  <2> HIDE DEF kept
  <2>3. kept # {} => Min(kept) \in 1 .. Len(received)
    BY <2>1, <2>2
  <2>4. QED
    BY <1>2, <2>3
<1> HIDE DEF gone, received
<1>4. log \in Seq(LogEntry)
  <2>1. gone + 1 \in Nat \ {0} /\ Len(received) <= Len(received)
    BY <1>2, <1>3
  <2>2. QED
    BY <1>1, <1>2, <2>1, PartOf
<1>5. n \in Nat
  BY <1>1, <1>3, Remainder, Constants
<1>6. new = [l EXCEPT !.receivedPackets = log, !.receivedPacketsBaseIndex = n]
  BY DEF Expired, gone, received
<1> DEFINE l1 == [l EXCEPT !.receivedPackets = log]
<1>7. new = [l1 EXCEPT !.receivedPacketsBaseIndex = n]
  BY <1>6
<1> HIDE DEF log, n
<1>8. l1 \in Layers(P, Q) /\ Same(l1, l)
  BY <1>4, LogChanged
<1> HIDE DEF l1
<1>9. new \in Layers(P, Q) /\ Same(new, l1)
  BY <1>5, <1>7, <1>8, BaseChanged
<1>10. QED
  BY <1>8, <1>9 DEF Same

\* A packet enters the log, and nothing else changes.
LEMMA LoggedIs ==
  ASSUME NEW P, NEW Q, NEW l \in Layers(P, Q), NEW packet \in Packet,
         NEW new, new = Logged(l, packet)
  PROVE  new \in Layers(P, Q) /\ Same(new, l)
<1> DEFINE received == l.receivedPackets
           holeCount == HoleCount(l, packet)
           holes == [k \in 1 .. holeCount - Len(received) |-> [age |-> 0, hole |-> TRUE]]
           now == [age |-> 0, hole |-> FALSE]
           rest == IF received = <<>> THEN received ELSE Tail(received)
           n == (l.receivedPacketsBaseIndex + 1) % PacketNumberRange
           filled == [received EXCEPT ![holeCount + 1] = now]
           longer == Append(received \o holes, now)
<1>1. /\ received \in Seq(LogEntry) /\ l.receivedPacketsBaseIndex \in Nat
      /\ now \in LogEntry /\ Len(received) \in Nat
  BY DEF Layers, LogEntry
<1>2. holeCount \in Nat
  BY <1>1, Constants DEF HoleCount, Packet
<1>3. rest \in Seq(LogEntry)
  <2> HIDE DEF received
  <2>1. received # <<>> => Tail(received) \in Seq(LogEntry)
    BY <1>1
  <2>2. QED
    BY <1>1, <2>1
<1>4. n \in Nat
  BY <1>1, Remainder, Constants
<1>5. \/ new = [l EXCEPT !.receivedPackets = rest, !.receivedPacketsBaseIndex = n]
      \/ holeCount < Len(received) /\ new = [l EXCEPT !.receivedPackets[holeCount + 1] = now]
      \/ ~(holeCount < Len(received)) /\ new = [l EXCEPT !.receivedPackets = longer]
  BY DEF Logged
<1>6. [l EXCEPT !.receivedPackets[holeCount + 1] = now] = [l EXCEPT !.receivedPackets = filled]
  OBVIOUS
<1> HIDE DEF holeCount, received, now
<1>7. holeCount < Len(received) => filled \in Seq(LogEntry)
  <2> SUFFICES ASSUME holeCount < Len(received) PROVE filled \in Seq(LogEntry)
    OBVIOUS
  <2>1. holeCount + 1 \in 1 .. Len(received)
    BY <1>1, <1>2
  <2>2. QED
    BY <1>1, <2>1
<1>8. ~(holeCount < Len(received)) => longer \in Seq(LogEntry)
  <2> SUFFICES ASSUME ~(holeCount < Len(received)) PROVE longer \in Seq(LogEntry)
    OBVIOUS
  <2>1. [age |-> 0, hole |-> TRUE] \in LogEntry
    BY DEF LogEntry
  <2>2. holes \in Seq(LogEntry)
    <3>1. holeCount - Len(received) \in Nat
      BY <1>1, <1>2
    <3>2. PICK k \in Nat : k = holeCount - Len(received)
      BY <3>1
    <3>3. holes = [i \in 1 .. k |-> [age |-> 0, hole |-> TRUE]]
      BY <3>2
    <3>4. PICK hole \in LogEntry : hole = [age |-> 0, hole |-> TRUE]
      BY <2>1
    <3>5. holes = [i \in 1 .. k |-> hole]
      BY <3>3, <3>4
    <3>6. [i \in 1 .. k |-> hole] \in Seq(LogEntry)
      OBVIOUS
    <3>7. QED
      BY <3>5, <3>6
  <2> HIDE DEF holes
  <2>3. received \o holes \in Seq(LogEntry)
    BY <1>1, <2>2
  <2>4. QED
    BY <1>1, <2>3
<1> HIDE DEF rest, n, filled, longer
<1>9. CASE new = [l EXCEPT !.receivedPackets = rest, !.receivedPacketsBaseIndex = n]
  <2> DEFINE l1 == [l EXCEPT !.receivedPackets = rest]
  <2>1. new = [l1 EXCEPT !.receivedPacketsBaseIndex = n]
    BY <1>9
  <2>2. l1 \in Layers(P, Q) /\ Same(l1, l)
    BY <1>3, LogChanged
  <2> HIDE DEF l1
  <2>3. new \in Layers(P, Q) /\ Same(new, l1)
    BY <1>4, <2>1, <2>2, BaseChanged
  <2>4. QED
    BY <2>2, <2>3 DEF Same
<1>10. CASE holeCount < Len(received) /\ new = [l EXCEPT !.receivedPackets[holeCount + 1] = now]
  <2>1. filled \in Seq(LogEntry) /\ new = [l EXCEPT !.receivedPackets = filled]
    BY <1>6, <1>7, <1>10
  <2>2. QED
    BY <2>1, LogChanged
<1>11. CASE ~(holeCount < Len(received)) /\ new = [l EXCEPT !.receivedPackets = longer]
  <2>1. longer \in Seq(LogEntry)
    BY <1>8, <1>11
  <2>2. QED
    BY <1>11, <2>1, LogChanged
<1>12. QED
  BY <1>5, <1>9, <1>10, <1>11

\* The layer has gone on reading the first n messages of q.
Forward(new, l, P, q, n) ==
  /\ new \in Layers(P, MadeOf(q, n)) /\ Reads(new, q, n)
  /\ new.orderedWriteIndex = l.orderedWriteIndex
  /\ new.orderedReadIndex >= l.orderedReadIndex

\* A beginning and the next element are a beginning.
LEMMA LongerPrefix ==
  ASSUME NEW S, NEW s \in Seq(S), NEW r \in Nat, r < Len(s)
  PROVE  SubSeq(s, 1, r + 1) = Append(SubSeq(s, 1, r), s[r + 1])
<1>1. \A i \in 1 .. r + 1 : s[i] \in S
  OBVIOUS
<1>2. /\ SubSeq(s, 1, r) \in Seq(S) /\ Len(SubSeq(s, 1, r)) = r
      /\ \A i \in 1 .. r : SubSeq(s, 1, r)[i] = s[i]
  BY <1>1, SubSeqProperties
<1>3. /\ SubSeq(s, 1, r + 1) \in Seq(S) /\ Len(SubSeq(s, 1, r + 1)) = r + 1
      /\ \A i \in 1 .. r + 1 : SubSeq(s, 1, r + 1)[i] = s[i]
  BY <1>1, SubSeqProperties
<1> DEFINE a == SubSeq(s, 1, r)
           b == SubSeq(s, 1, r + 1)
<1>4. s[r + 1] \in S
  BY <1>1
<1> HIDE DEF a, b
<1>5. a \in Seq(S) /\ Len(a) = r /\ \A i \in 1 .. r : a[i] = s[i]
  BY <1>2 DEF a
<1>6. b \in Seq(S) /\ Len(b) = r + 1 /\ \A i \in 1 .. r + 1 : b[i] = s[i]
  BY <1>3 DEF b
<1>7. Append(a, s[r + 1]) \in Seq(S) /\ Len(Append(a, s[r + 1])) = r + 1
  BY <1>4, <1>5
<1>8. \A i \in 1 .. r + 1 : Append(a, s[r + 1])[i] = b[i]
  <2> TAKE i \in 1 .. r + 1
  <2>1. CASE i = r + 1
    BY <1>4, <1>5, <1>6, <2>1
  <2>2. CASE i # r + 1
    <3>1. i \in 1 .. r
      BY <2>2
    <3>2. QED
      BY <1>4, <1>5, <1>6, <3>1
  <2>3. QED
    BY <2>1, <2>2
<1>9. b = Append(a, s[r + 1])
  BY <1>6, <1>7, <1>8, SeqEqual
<1>10. QED
  BY <1>9 DEF a, b

\* The packet with the index that is waited for is the next message in order.
LEMMA NextInOrder ==
  ASSUME FewMessages, NEW P, NEW q \in Peer, NEW n \in 0 .. Len(Messages[q]),
         NEW l \in Layers(P, MadeOf(q, n)), Reads(l, q, n),
         NEW packet \in MadeOf(q, n), packet.reliability = RELIABLE_ORDERED,
         packet.index = l.orderedReadIndex,
         NEW new, new = [l EXCEPT !.outputQueue = Append(@, packet.message),
                                  !.orderedReadIndex = (@ + 1) % OrderingIndexRange]
  PROVE  Forward(new, l, P, q, n)
<1> DEFINE r == l.orderedReadIndex
           F == Firsts(q, n)
           S == InOrder[q]
           i == packet.message
           output == l.outputQueue
           next == (r + 1) % OrderingIndexRange
<1>1. /\ r \in Nat /\ output \in Seq(Nat) /\ n \in Nat /\ Len(Messages[q]) \in Nat
      /\ F \in Seq(Nat)
  BY FirstsNext, MessageTypes DEF Layers
<1>2. i \in 1 .. n /\ i \in S /\ i \in Nat /\ Place(q, i) = r
  BY DEF MadeOf
<1>3. r < Len(F) /\ F[r + 1] = i
  <2>1. Place(q, i) < Len(F) /\ F[Place(q, i) + 1] = i
    BY <1>1, <1>2, AtItsPlace
  <2>2. QED
    BY <1>2, <2>1
<1>4. next = r + 1
  <2>1. Len(F) <= Len(Firsts(q, Len(Messages[q]))) /\ Len(Firsts(q, Len(Messages[q]))) \in Nat
    BY <1>1, FirstsGrow, FirstsNext
  <2>2. Len(Firsts(q, Len(Messages[q]))) < OrderingIndexRange
    BY DEF FewMessages
  <2>3. Len(F) \in Nat
    BY <1>1
  <2> HIDE DEF F, r
  <2>4. r + 1 \in Nat /\ r + 1 < OrderingIndexRange
    <3>1. PICK t \in Nat : Len(F) <= t /\ t < OrderingIndexRange
      BY <2>1, <2>2
    <3>2. PICK length \in Nat : length = Len(F)
      BY <2>3
    <3>3. r \in Nat /\ r < length /\ length <= t /\ OrderingIndexRange \in Nat
      BY <1>1, <1>3, <3>1, <3>2, Constants
    <3>4. QED
      BY <3>1, <3>3
  <2>5. \A k \in Nat : k < OrderingIndexRange => k % OrderingIndexRange = k
    BY Constants, Remainder
  <2>6. QED
    BY <2>4, <2>5
<1>5. Selected(Append(output, i), S) = SubSeq(F, 1, r + 1)
  <2>1. Selected(output, S) = SubSeq(F, 1, r)
    BY DEF Reads
  <2> HIDE DEF F, r, output, S, i
  <2>2. Selected(Append(output, i), S) = Append(Selected(output, S), i)
    BY <1>1, <1>2, SelectedAppend
  <2>3. SubSeq(F, 1, r + 1) = Append(SubSeq(F, 1, r), F[r + 1])
    BY <1>1, <1>3, LongerPrefix
  <2>4. QED
    BY <1>3, <2>1, <2>2, <2>3
<1> DEFINE longer == Append(output, i)
           l1 == [l EXCEPT !.outputQueue = longer]
<1>6. longer \in Seq(Nat)
  BY <1>1, <1>2
<1>7. new = [l1 EXCEPT !.orderedReadIndex = next]
  <2>1. l1.orderedReadIndex = r
    BY DEF Layers
  <2>2. QED
    BY <2>1
<1> HIDE DEF longer, next
<1>8. /\ l1 \in Layers(P, MadeOf(q, n)) /\ l1.outputQueue = longer
      /\ l1.orderedWriteIndex = l.orderedWriteIndex
  BY <1>6 DEF Layers
<1>9. next \in Nat
  BY <1>1, <1>4
<1> HIDE DEF l1
<1>10. new \in Layers(P, MadeOf(q, n))
  BY <1>7, <1>8, <1>9 DEF Layers
<1>11. /\ new.outputQueue = longer /\ new.orderedReadIndex = next
       /\ new.orderedWriteIndex = l.orderedWriteIndex
  BY <1>7, <1>8, <1>9 DEF Layers
<1>12. next <= Len(F) /\ next >= r
  <2>1. Len(F) \in Nat
    BY <1>1
  <2> HIDE DEF F, r
  <2>2. QED
    BY <1>1, <1>3, <1>4, <2>1
<1>13. Reads(new, q, n)
  BY <1>4, <1>5, <1>11, <1>12 DEF Reads, longer
<1>14. QED
  BY <1>10, <1>11, <1>12, <1>13 DEF Forward

\* A packet of the ordering list goes out in its turn or stays in the list.
LEMMA ReleasedIs ==
  ASSUME FewMessages, NEW P, NEW q \in Peer, NEW n \in 0 .. Len(Messages[q]),
         NEW l \in Layers(P, MadeOf(q, n)), Reads(l, q, n),
         NEW packet \in InOrderOnly(MadeOf(q, n)), NEW new, new = Released(l, packet)
  PROVE  Forward(new, l, P, q, n)
<1>1. packet \in MadeOf(q, n) /\ packet.reliability = RELIABLE_ORDERED
  BY DEF InOrderOnly
<1>2. CASE packet.index = l.orderedReadIndex
  <2>1. new = [l EXCEPT !.outputQueue = Append(@, packet.message),
                        !.orderedReadIndex = (@ + 1) % OrderingIndexRange]
    BY <1>2 DEF Released
  <2>2. QED
    BY <1>1, <1>2, <2>1, NextInOrder
<1>3. CASE packet.index # l.orderedReadIndex
  <2> DEFINE list == Append(l.orderingList, packet)
  <2>1. new = [l EXCEPT !.orderingList = list]
    BY <1>3 DEF Released
  <2>2. list \in Seq(InOrderOnly(MadeOf(q, n)))
    <3>1. l.orderingList \in Seq(InOrderOnly(MadeOf(q, n)))
      BY DEF Layers
    <3>2. QED
      BY <3>1
  <2> HIDE DEF list
  <2>3. new \in Layers(P, MadeOf(q, n))
    BY <2>1, <2>2 DEF Layers
  <2>4. /\ new.outputQueue = l.outputQueue /\ new.orderedReadIndex = l.orderedReadIndex
        /\ new.orderedWriteIndex = l.orderedWriteIndex /\ l.orderedReadIndex \in Nat
    BY <2>1 DEF Layers
  <2>5. QED
    BY <2>3, <2>4 DEF Forward, Reads
<1>4. QED
  BY <1>2, <1>3

\* What l may have come to.
Onward(l, P, q, n) == { k \in Layers(P, MadeOf(q, n)) : Forward(k, l, P, q, n) }

\* A layer that has gone nowhere has gone on.
LEMMA OnwardStays ==
  ASSUME NEW P, NEW q, NEW n, NEW l \in Layers(P, MadeOf(q, n)),
         NEW k \in Onward(l, P, q, n), NEW new, Forward(new, k, P, q, n)
  PROVE  new \in Onward(l, P, q, n)
<1>1. /\ l.orderedReadIndex \in Nat /\ k.orderedReadIndex \in Nat
      /\ new.orderedReadIndex \in Nat
  BY DEF Onward, Forward, Layers
<1>2. QED
  BY <1>1 DEF Onward, Forward

\* What leaves the ordering alone leaves the reading alone.
LEMMA SameIsForward ==
  ASSUME NEW P, NEW q, NEW n, NEW l \in Layers(P, MadeOf(q, n)), Reads(l, q, n),
         NEW new \in Layers(P, MadeOf(q, n)), Same(new, l)
  PROVE  Forward(new, l, P, q, n)
<1>1. l.orderedReadIndex \in Nat
  BY DEF Layers
<1>2. QED
  BY <1>1 DEF Forward, Same, Reads

\* A pass over the ordering list goes on reading.
LEMMA PassIs ==
  ASSUME FewMessages, NEW P, NEW q \in Peer, NEW n \in 0 .. Len(Messages[q]),
         NEW l \in Layers(P, MadeOf(q, n)), Reads(l, q, n)
  PROVE  Forward(Pass(l), l, P, q, n)
<1> DEFINE list == l.orderingList
           N == Len(list)
           b == [l EXCEPT !.orderingList = <<>>]
           U == Onward(l, P, q, n)
           step == [x \in (1 .. N) \X U |-> Released(x[2], list[x[1]])]
           h == CHOOSE h : h = [k \in 0 .. N |->
                  IF k = 0 THEN b ELSE Released(h[k - 1], list[k])]
           O == InOrderOnly(MadeOf(q, n))
<1>1. list \in Seq(O)
  BY DEF Layers
<1>2. Pass(l) = h[N]
  BY DEF Pass
<1>3. b \in U
  <2>1. <<>> \in Seq(O)
    OBVIOUS
  <2>2. b \in Layers(P, MadeOf(q, n))
    BY <2>1 DEF Layers
  <2>3. Same(b, l)
    BY DEF Layers, Same
  <2>4. Forward(b, l, P, q, n)
    BY <2>2, <2>3, SameIsForward
  <2>5. QED
    BY <2>2, <2>4 DEF Onward
<1> HIDE DEF list, O, b
<1>4. N \in Nat /\ \A k \in 1 .. N : list[k] \in O
  BY <1>1
<1>5. ASSUME NEW u \in U, NEW k \in 1 .. N
      PROVE  Released(u, list[k]) \in U
  <2>1. u \in Layers(P, MadeOf(q, n)) /\ Reads(u, q, n)
    BY DEF Onward, Forward
  <2>2. Forward(Released(u, list[k]), u, P, q, n)
    BY <1>4, <2>1, ReleasedIs DEF O
  <2>3. QED
    BY <2>2, OnwardStays
<1> HIDE DEF N, U
<1>6. step \in [(1 .. N) \X U -> U]
  BY <1>5
<1>7. PICK f \in [0 .. N -> U] : Unrolls(f, b, N, step)
  <2> HIDE DEF step
  <2>1. QED
    BY <1>3, <1>4, <1>6, StepByStep
<1>8. f = [k \in 0 .. N |-> IF k = 0 THEN b ELSE Released(f[k - 1], list[k])]
  <2>1. \A k \in 1 .. N : k - 1 \in 0 .. N
    BY <1>4
  <2>2. \A k \in 1 .. N : step[<<k, f[k - 1]>>] = Released(f[k - 1], list[k])
    BY <2>1
  <2> HIDE DEF step
  <2>3. \A k \in 0 .. N : k = 0 \/ k \in 1 .. N
    BY <1>4
  <2>4. f = [k \in 0 .. N |-> IF k = 0 THEN b ELSE step[<<k, f[k - 1]>>]]
    BY <1>7 DEF Unrolls
  <2>5. QED
    BY <2>2, <2>3, <2>4
<1>9. h = [k \in 0 .. N |-> IF k = 0 THEN b ELSE Released(h[k - 1], list[k])]
  BY <1>8
<1> HIDE DEF h
<1>10. h[N] \in U
  <2> DEFINE T == { k \in 0 .. N : h[k] \in U }
  <2>1. 0 \in T
    BY <1>3, <1>4, <1>9
  <2>2. ASSUME NEW k \in 1 .. N, k - 1 \in T PROVE k \in T
    <3>1. k \in 0 .. N /\ k # 0 /\ h[k - 1] \in U
      BY <1>4, <2>2
    <3>2. h[k] = Released(h[k - 1], list[k])
      BY <1>9, <3>1
    <3>3. h[k] \in U
      BY <1>5, <3>1, <3>2
    <3>4. QED
      BY <3>1, <3>3
  <2>3. N \in 0 .. N
    BY <1>4
  <2>4. N \in T
    <3> HIDE DEF T
    <3>1. QED
      BY <1>4, <2>1, <2>2, <2>3, Upwards
  <2>5. QED
    BY <2>4
<1>11. QED
  BY <1>2, <1>10 DEF U, Onward

\* So do all passes.
LEMMA DrainedIs ==
  ASSUME FewMessages, NEW P, NEW q \in Peer, NEW n \in 0 .. Len(Messages[q]),
         NEW l \in Layers(P, MadeOf(q, n)), Reads(l, q, n)
  PROVE  Forward(Drained(l), l, P, q, n)
<1> DEFINE N == Len(l.orderingList)
           U == Onward(l, P, q, n)
           step == [x \in (1 .. N) \X U |-> Pass(x[2])]
           h == CHOOSE h : h = [k \in 0 .. N |-> IF k = 0 THEN l ELSE Pass(h[k - 1])]
<1>1. N \in Nat
  <2>1. l.orderingList \in Seq(InOrderOnly(MadeOf(q, n)))
    BY DEF Layers
  <2>2. QED
    BY <2>1
<1>2. Drained(l) = h[N]
  BY DEF Drained
<1>3. l \in U
  <2>1. Same(l, l)
    BY DEF Same
  <2>2. QED
    BY <2>1, SameIsForward DEF Onward
<1>4. ASSUME NEW u \in U
      PROVE  Pass(u) \in U
  <2>1. u \in Layers(P, MadeOf(q, n)) /\ Reads(u, q, n)
    BY DEF Onward, Forward
  <2>2. Forward(Pass(u), u, P, q, n)
    BY <2>1, PassIs
  <2>3. QED
    BY <2>2, OnwardStays
<1> HIDE DEF N, U
<1>5. step \in [(1 .. N) \X U -> U]
  BY <1>4
<1>6. PICK f \in [0 .. N -> U] : Unrolls(f, l, N, step)
  <2> HIDE DEF step
  <2>1. QED
    BY <1>1, <1>3, <1>5, StepByStep
<1>7. f = [k \in 0 .. N |-> IF k = 0 THEN l ELSE Pass(f[k - 1])]
  <2>1. \A k \in 1 .. N : k - 1 \in 0 .. N
    BY <1>1
  <2>2. \A k \in 1 .. N : step[<<k, f[k - 1]>>] = Pass(f[k - 1])
    BY <2>1
  <2> HIDE DEF step
  <2>3. \A k \in 0 .. N : k = 0 \/ k \in 1 .. N
    BY <1>1
  <2>4. f = [k \in 0 .. N |-> IF k = 0 THEN l ELSE step[<<k, f[k - 1]>>]]
    BY <1>6 DEF Unrolls
  <2>5. QED
    BY <2>2, <2>3, <2>4
<1>8. h = [k \in 0 .. N |-> IF k = 0 THEN l ELSE Pass(h[k - 1])]
  BY <1>7
<1> HIDE DEF h
<1>9. h[N] \in U
  <2> DEFINE T == { k \in 0 .. N : h[k] \in U }
  <2>1. 0 \in T
    BY <1>1, <1>3, <1>8
  <2>2. ASSUME NEW k \in 1 .. N, k - 1 \in T PROVE k \in T
    <3>1. k \in 0 .. N /\ k # 0 /\ h[k - 1] \in U
      BY <1>1, <2>2
    <3>2. h[k] = Pass(h[k - 1])
      BY <1>8, <3>1
    <3>3. h[k] \in U
      BY <1>4, <3>1, <3>2
    <3>4. QED
      BY <3>1, <3>3
  <2>3. N \in 0 .. N
    BY <1>1
  <2>4. N \in T
    <3> HIDE DEF T
    <3>1. QED
      BY <1>1, <2>1, <2>2, <2>3, Upwards
  <2>5. QED
    BY <2>4
<1>10. QED
  BY <1>2, <1>9 DEF U, Onward

\* An accepted packet goes on reading.
LEMMA AcceptedIs ==
  ASSUME FewMessages, NEW P, NEW q \in Peer, NEW n \in 0 .. Len(Messages[q]),
         NEW l \in Layers(P, MadeOf(q, n)), Reads(l, q, n),
         NEW packet \in MadeOf(q, n)
  PROVE  Forward(Accepted(l, packet), l, P, q, n)
<1> DEFINE Q == MadeOf(q, n)
<1>1. CASE packet.reliability # RELIABLE_ORDERED
  <2> DEFINE i == packet.message
             output == l.outputQueue
             longer == Append(output, i)
             new == [l EXCEPT !.outputQueue = longer]
             S == InOrder[q]
  <2>1. Accepted(l, packet) = new
    BY <1>1 DEF Accepted
  <2>2. output \in Seq(Nat) /\ i \in Nat /\ i \notin S /\ longer \in Seq(Nat)
    <3>1. output \in Seq(Nat) /\ i \in Nat /\ i \notin S
      BY <1>1 DEF Layers, MadeOf
    <3> HIDE DEF output, i
    <3>2. QED
      BY <3>1
  <2>3. Selected(longer, S) = Selected(output, S)
    <3> HIDE DEF output, i, S
    <3>1. QED
      BY <2>2, SelectedAppend
  <2> HIDE DEF longer
  <2>4. new \in Layers(P, Q)
    BY <2>2 DEF Layers
  <2>5. /\ new.outputQueue = longer /\ new.orderedReadIndex = l.orderedReadIndex
        /\ new.orderedWriteIndex = l.orderedWriteIndex /\ l.orderedReadIndex \in Nat
    BY <2>2 DEF Layers
  <2>6. Reads(new, q, n)
    BY <2>3, <2>5 DEF Reads
  <2>7. QED
    BY <2>1, <2>4, <2>5, <2>6 DEF Forward
<1>2. CASE packet.reliability = RELIABLE_ORDERED /\ packet.index # l.orderedReadIndex
  <2> DEFINE list == Append(l.orderingList, packet)
             new == [l EXCEPT !.orderingList = list]
  <2>1. Accepted(l, packet) = new
    BY <1>2 DEF Accepted
  <2>2. list \in Seq(InOrderOnly(Q))
    <3>1. l.orderingList \in Seq(InOrderOnly(Q))
      BY DEF Layers
    <3>2. packet \in InOrderOnly(Q)
      BY <1>2 DEF InOrderOnly
    <3>3. QED
      BY <3>1, <3>2
  <2> HIDE DEF list
  <2>3. new \in Layers(P, Q)
    BY <2>2 DEF Layers
  <2>4. Same(new, l)
    BY DEF Layers, Same
  <2>5. QED
    BY <2>1, <2>3, <2>4, SameIsForward
<1>3. CASE packet.reliability = RELIABLE_ORDERED /\ packet.index = l.orderedReadIndex
  <2> DEFINE new == [l EXCEPT !.outputQueue = Append(@, packet.message),
                              !.orderedReadIndex = (@ + 1) % OrderingIndexRange]
  <2>1. Accepted(l, packet) = Drained(new)
    BY <1>3 DEF Accepted
  <2>2. PICK k : k = new
    OBVIOUS
  <2> HIDE DEF new
  <2>3. Forward(k, l, P, q, n)
    BY <1>3, <2>2, NextInOrder DEF new
  <2>4. k \in Layers(P, Q) /\ Reads(k, q, n)
    BY <2>3 DEF Forward
  <2>5. Forward(Drained(k), k, P, q, n)
    BY <2>4, DrainedIs
  <2>6. k \in Onward(l, P, q, n)
    BY <2>3, <2>4 DEF Onward
  <2>7. Drained(k) \in Onward(l, P, q, n)
    BY <2>5, <2>6, OnwardStays
  <2>8. QED
    BY <2>1, <2>2, <2>7 DEF Onward
<1>4. QED
  BY <1>1, <1>2, <1>3

\* A received packet, duplicate or not, goes on reading.
LEMMA ReceivedIs ==
  ASSUME FewMessages, NEW P, NEW q \in Peer, NEW n \in 0 .. Len(Messages[q]),
         NEW l \in Layers(P, MadeOf(q, n)), Reads(l, q, n),
         NEW packet \in MadeOf(q, n)
  PROVE  Forward(Received(l, packet), l, P, q, n)
<1> DEFINE Q == MadeOf(q, n)
           queue == Append(l.acknowledgementQueue, [number |-> packet.number, age |-> 0])
           acked == IF IsReliable(packet) THEN [l EXCEPT !.acknowledgementQueue = queue] ELSE l
           logged == Logged(acked, packet)
           expired == Expired(logged)
<1>1. packet \in Packet
  BY DEF MadeOf
<1>2. queue \in Seq([number : Nat, age : Int])
  <2>1. l.acknowledgementQueue \in Seq([number : Nat, age : Int])
    BY DEF Layers
  <2>2. [number |-> packet.number, age |-> 0] \in [number : Nat, age : Int]
    BY <1>1 DEF Packet
  <2>3. QED
    BY <2>1, <2>2
<1>3. Received(l, packet) \in {acked, Accepted(expired, packet)}
  BY DEF Received
<1> HIDE DEF queue
<1>4. acked \in Layers(P, Q) /\ Same(acked, l)
  <2>1. [l EXCEPT !.acknowledgementQueue = queue] \in Layers(P, Q)
    BY <1>2 DEF Layers
  <2>2. Same([l EXCEPT !.acknowledgementQueue = queue], l) /\ Same(l, l)
    BY DEF Layers, Same
  <2>3. QED
    BY <2>1, <2>2
<1> HIDE DEF acked
<1>5. logged \in Layers(P, Q) /\ Same(logged, acked)
  BY <1>1, <1>4, LoggedIs
<1> HIDE DEF logged
<1>6. expired \in Layers(P, Q) /\ Same(expired, logged)
  BY <1>5, ExpiredIs
<1> HIDE DEF expired
<1>7. Same(expired, l)
  BY <1>4, <1>5, <1>6 DEF Same
<1>8. Forward(acked, l, P, q, n) /\ Forward(expired, l, P, q, n)
  BY <1>4, <1>6, <1>7, SameIsForward
<1>9. Reads(expired, q, n) /\ expired \in Onward(l, P, q, n)
  BY <1>6, <1>8 DEF Forward, Onward
<1>10. Forward(Accepted(expired, packet), expired, P, q, n)
  BY <1>6, <1>9, AcceptedIs
<1>11. Accepted(expired, packet) \in Onward(l, P, q, n)
  BY <1>9, <1>10, OnwardStays
<1>12. QED
  BY <1>3, <1>8, <1>11 DEF Onward

\* A wider window touches nothing else.
LEMMA WidenedIs ==
  ASSUME NEW P, NEW Q, NEW l \in Layers(P, Q), NEW acks
  PROVE  Widened(l, acks) \in Layers(P, Q) /\ Same(Widened(l, acks), l)
<1> DEFINE rested == l.lastIncrease > 2 * LostPacketResendDelay
           size == Min({l.windowSize + 1, MAXIMUM_WINDOW_SIZE})
           increase == IF rested THEN 0 ELSE l.lastIncrease
           lossy == IF size = MAXIMUM_WINDOW_SIZE \/ size - l.lossyWindowSize > 5
                    THEN l.lossyWindowSize + 1 ELSE l.lossyWindowSize
           l1 == [l EXCEPT !.windowSize = size]
           l2 == [l1 EXCEPT !.lastIncrease = increase]
           l3 == [l2 EXCEPT !.lossyWindowSize = lossy]
<1>1. l.windowSize \in Int /\ l.lossyWindowSize \in Int /\ l.lastIncrease \in Int
  BY DEF Layers
<1>2. size \in Int
  <2>1. l.windowSize + 1 \in Int /\ MAXIMUM_WINDOW_SIZE \in Int
    BY <1>1, Constants
  <2>2. size \in {l.windowSize + 1, MAXIMUM_WINDOW_SIZE}
    BY <2>1, Smaller
  <2>3. QED
    BY <2>1, <2>2
<1>3. increase \in Int /\ lossy \in Int
  BY <1>1
<1>4. Widened(l, acks) \in {l, l3}
  <2>1. l1.lastIncrease = l.lastIncrease /\ l2.lossyWindowSize = l.lossyWindowSize
    BY DEF Layers
  <2>2. QED
    BY <2>1 DEF Widened
<1> HIDE DEF size, increase, lossy
<1>5. l1 \in Layers(P, Q) /\ Same(l1, l)
  BY <1>2, NumberChanged
<1> HIDE DEF l1
<1>6. l2 \in Layers(P, Q) /\ Same(l2, l1)
  BY <1>3, <1>5, NumberChanged
<1> HIDE DEF l2
<1>7. l3 \in Layers(P, Q) /\ Same(l3, l2)
  BY <1>3, <1>6, NumberChanged
<1> HIDE DEF l3
<1>8. Same(l, l) /\ Same(l3, l)
  BY <1>5, <1>6, <1>7 DEF Same
<1>9. QED
  BY <1>4, <1>7, <1>8

\* All acknowledgements of a frame.
LEMMA AllAcknowledged ==
  ASSUME NEW P, NEW Q, NEW l \in Layers(P, Q), NEW acks \in Seq(Nat), NEW h,
         h = CHOOSE f : f = [k \in 0 .. Len(acks) |->
               IF k = 0 THEN l ELSE Acknowledged(f[k - 1], acks[k])]
  PROVE  h[Len(acks)] \in Layers(P, Q) /\ Same(h[Len(acks)], l)
<1> DEFINE N == Len(acks)
           U == { k \in Layers(P, Q) : Same(k, l) }
           step == [x \in (1 .. N) \X U |-> Acknowledged(x[2], acks[x[1]])]
<1>1. N \in Nat
  OBVIOUS
<1>2. l \in U
  BY DEF Same
<1>3. ASSUME NEW u \in U, NEW number PROVE Acknowledged(u, number) \in U
  <2>1. Acknowledged(u, number) \in Layers(P, Q) /\ Same(Acknowledged(u, number), u)
    BY AcknowledgedIs
  <2>2. QED
    BY <2>1 DEF Same
<1> HIDE DEF N, U
<1>4. step \in [(1 .. N) \X U -> U]
  BY <1>3
<1>5. PICK f \in [0 .. N -> U] : Unrolls(f, l, N, step)
  <2> HIDE DEF step
  <2>1. QED
    BY <1>1, <1>2, <1>4, StepByStep
<1>6. f = [k \in 0 .. N |-> IF k = 0 THEN l ELSE Acknowledged(f[k - 1], acks[k])]
  <2>1. \A k \in 1 .. N : k - 1 \in 0 .. N
    BY <1>1
  <2>2. \A k \in 1 .. N : step[<<k, f[k - 1]>>] = Acknowledged(f[k - 1], acks[k])
    BY <2>1
  <2> HIDE DEF step
  <2>3. \A k \in 0 .. N : k = 0 \/ k \in 1 .. N
    BY <1>1
  <2>4. f = [k \in 0 .. N |-> IF k = 0 THEN l ELSE step[<<k, f[k - 1]>>]]
    BY <1>5 DEF Unrolls
  <2>5. QED
    BY <2>2, <2>3, <2>4
<1>7. h = [k \in 0 .. N |-> IF k = 0 THEN l ELSE Acknowledged(h[k - 1], acks[k])]
  BY <1>6 DEF N
<1>8. h[N] \in U
  <2> DEFINE T == { k \in 0 .. N : h[k] \in U }
  <2>1. 0 \in T
    <3>1. 0 \in 0 .. N
      BY <1>1
    <3>2. h[0] = l
      BY <1>7, <3>1
    <3>3. QED
      BY <1>2, <3>1, <3>2
  <2>2. ASSUME NEW k \in 1 .. N, k - 1 \in T PROVE k \in T
    <3>1. k \in 0 .. N /\ k # 0 /\ h[k - 1] \in U
      BY <1>1, <2>2
    <3>2. h[k] = Acknowledged(h[k - 1], acks[k])
      BY <1>7, <3>1
    <3>3. h[k] \in U
      BY <1>3, <3>1, <3>2
    <3>4. QED
      BY <3>1, <3>3
  <2>3. N \in 0 .. N
    BY <1>1
  <2>4. N \in T
    <3> HIDE DEF T
    <3>1. QED
      BY <1>1, <2>1, <2>2, <2>3, Upwards
  <2>5. QED
    BY <2>4
<1>9. QED
  BY <1>8 DEF U, N

\* All packets of a frame.
LEMMA AllReceived ==
  ASSUME FewMessages, NEW P, NEW q \in Peer, NEW n \in 0 .. Len(Messages[q]),
         NEW l \in Layers(P, MadeOf(q, n)), Reads(l, q, n),
         NEW packets \in Seq(MadeOf(q, n)), NEW h,
         h = CHOOSE f : f = [k \in 0 .. Len(packets) |->
               IF k = 0 THEN l ELSE Received(f[k - 1], packets[k])]
  PROVE  h[Len(packets)] \in Onward(l, P, q, n)
<1> DEFINE N == Len(packets)
           U == Onward(l, P, q, n)
           step == [x \in (1 .. N) \X U |-> Received(x[2], packets[x[1]])]
<1>1. N \in Nat /\ \A k \in 1 .. N : packets[k] \in MadeOf(q, n)
  OBVIOUS
<1>2. l \in U
  <2>1. Same(l, l)
    BY DEF Same
  <2>2. QED
    BY <2>1, SameIsForward DEF Onward
<1>3. ASSUME NEW u \in U, NEW k \in 1 .. N PROVE Received(u, packets[k]) \in U
  <2>1. u \in Layers(P, MadeOf(q, n)) /\ Reads(u, q, n)
    BY DEF Onward, Forward
  <2>2. Forward(Received(u, packets[k]), u, P, q, n)
    BY <1>1, <2>1, ReceivedIs
  <2>3. QED
    BY <2>2, OnwardStays
<1> HIDE DEF N, U
<1>4. step \in [(1 .. N) \X U -> U]
  BY <1>3
<1>5. PICK f \in [0 .. N -> U] : Unrolls(f, l, N, step)
  <2> HIDE DEF step
  <2>1. QED
    BY <1>1, <1>2, <1>4, StepByStep
<1>6. f = [k \in 0 .. N |-> IF k = 0 THEN l ELSE Received(f[k - 1], packets[k])]
  <2>1. \A k \in 1 .. N : k - 1 \in 0 .. N
    BY <1>1
  <2>2. \A k \in 1 .. N : step[<<k, f[k - 1]>>] = Received(f[k - 1], packets[k])
    BY <2>1
  <2> HIDE DEF step
  <2>3. \A k \in 0 .. N : k = 0 \/ k \in 1 .. N
    BY <1>1
  <2>4. f = [k \in 0 .. N |-> IF k = 0 THEN l ELSE step[<<k, f[k - 1]>>]]
    BY <1>5 DEF Unrolls
  <2>5. QED
    BY <2>2, <2>3, <2>4
<1>7. h = [k \in 0 .. N |-> IF k = 0 THEN l ELSE Received(h[k - 1], packets[k])]
  BY <1>6 DEF N
<1>8. h[N] \in U
  <2> DEFINE T == { k \in 0 .. N : h[k] \in U }
  <2>1. 0 \in T
    <3>1. 0 \in 0 .. N
      BY <1>1
    <3>2. h[0] = l
      BY <1>7, <3>1
    <3>3. QED
      BY <1>2, <3>1, <3>2
  <2>2. ASSUME NEW k \in 1 .. N, k - 1 \in T PROVE k \in T
    <3>1. k \in 0 .. N /\ k # 0 /\ h[k - 1] \in U
      BY <1>1, <2>2
    <3>2. h[k] = Received(h[k - 1], packets[k])
      BY <1>7, <3>1
    <3>3. h[k] \in U
      BY <1>3, <3>1, <3>2
    <3>4. QED
      BY <3>1, <3>3
  <2>3. N \in 0 .. N
    BY <1>1
  <2>4. N \in T
    <3> HIDE DEF T
    <3>1. QED
      BY <1>1, <2>1, <2>2, <2>3, Upwards
  <2>5. QED
    BY <2>4
<1>9. QED
  BY <1>8 DEF U, N

\* HandleSocketReceiveFromConnectedPlayer goes on reading, whatever the frame holds.
LEMMA HandleFrameIs ==
  ASSUME FewMessages, NEW P, NEW q \in Peer, NEW n \in 0 .. Len(Messages[q]),
         NEW l \in Layers(P, MadeOf(q, n)), Reads(l, q, n),
         NEW frame, frame.packets \in Seq(MadeOf(q, n)), frame.acks \in Seq(Nat)
  PROVE  Forward(HandleFrame(l, frame), l, P, q, n)
<1> DEFINE acks == frame.acks
           packets == frame.packets
           a == CHOOSE a : a = [k \in 0 .. Len(acks) |->
                  IF k = 0 THEN l ELSE Acknowledged(a[k - 1], acks[k])]
           l1 == a[Len(acks)]
           r == CHOOSE r : r = [k \in 0 .. Len(packets) |->
                  IF k = 0 THEN l1 ELSE Received(r[k - 1], packets[k])]
           l2 == r[Len(packets)]
<1>1. HandleFrame(l, frame) = Widened(l2, Len(acks))
  BY DEF HandleFrame
<1>2. l1 \in Layers(P, MadeOf(q, n)) /\ Same(l1, l)
  <2> HIDE DEF acks
  <2>1. acks \in Seq(Nat)
    BY DEF acks
  <2>2. QED
    BY <2>1, AllAcknowledged
<1> HIDE DEF l1
<1>3. Forward(l1, l, P, q, n)
  BY <1>2, SameIsForward
<1>4. Reads(l1, q, n)
  BY <1>3 DEF Forward
<1>5. l2 \in Onward(l1, P, q, n)
  <2> HIDE DEF packets
  <2>1. packets \in Seq(MadeOf(q, n))
    BY DEF packets
  <2>2. QED
    BY <1>2, <1>4, <2>1, AllReceived
<1> HIDE DEF l2
<1>6. l2 \in Layers(P, MadeOf(q, n)) /\ Forward(l2, l1, P, q, n) /\ Reads(l2, q, n)
  BY <1>5 DEF Onward, Forward
<1>7. l1 \in Onward(l, P, q, n)
  BY <1>2, <1>3 DEF Onward
<1>8. l2 \in Onward(l, P, q, n)
  BY <1>6, <1>7, OnwardStays
<1> DEFINE w == Widened(l2, Len(acks))
<1>9. w \in Layers(P, MadeOf(q, n)) /\ Same(w, l2)
  BY <1>6, WidenedIs
<1> HIDE DEF w
<1>10. Forward(w, l2, P, q, n)
  BY <1>6, <1>9, SameIsForward
<1>11. w \in Onward(l, P, q, n)
  BY <1>8, <1>10, OnwardStays
<1>12. QED
  BY <1>1, <1>11 DEF Onward, w

-----------------------------------------------------------------------------
(* The invariant *)

\* UpTo is a number.
LEMMA Capped ==
  ASSUME NEW n \in Int, NEW bound \in Int
  PROVE  UpTo(n, bound) \in Int
<1>1. UpTo(n, bound) \in {n, bound}
  BY Smaller DEF UpTo
<1>2. QED
  BY <1>1

\* What waits or was received stays what it is when it ages.
LEMMA AgedIs ==
  ASSUME NEW bound \in Int
  PROVE  /\ \A e \in [number : Nat, age : Int] : Aged(e, bound) \in [number : Nat, age : Int]
         /\ \A e \in LogEntry : Aged(e, bound) \in LogEntry
<1>1. ASSUME NEW e \in [number : Nat, age : Int]
      PROVE  Aged(e, bound) \in [number : Nat, age : Int]
  <2>1. e.age + 1 \in Int
    OBVIOUS
  <2>2. UpTo(e.age + 1, bound) \in Int
    BY <2>1, Capped
  <2>3. QED
    BY <2>2 DEF Aged
<1>2. ASSUME NEW e \in LogEntry
      PROVE  Aged(e, bound) \in LogEntry
  <2>1. e.age + 1 \in Int
    BY DEF LogEntry
  <2>2. UpTo(e.age + 1, bound) \in Int
    BY <2>1, Capped
  <2>3. QED
    BY <2>2 DEF Aged, LogEntry
<1>3. QED
  BY <1>1, <1>2

\* So does a packet in the resend queue.
LEMMA AgedPacketIs ==
  ASSUME NEW P, NEW e \in [packet : P, age : Int, outstanding : Int]
  PROVE  AgedPacket(e) \in [packet : P, age : Int, outstanding : Int]
<1>1. LostPacketResendDelay + 1 \in Int /\ TIMEOUT_TIME + 1 \in Int
  BY Constants
<1>2. e.age + 1 \in Int /\ e.outstanding + 1 \in Int
  OBVIOUS
<1>3. /\ UpTo(e.age + 1, LostPacketResendDelay + 1) \in Int
      /\ UpTo(e.outstanding + 1, TIMEOUT_TIME + 1) \in Int
  BY <1>1, <1>2, Capped
<1>4. QED
  BY <1>3 DEF AgedPacket

\* A tick changes nothing that the promise is about.
LEMMA OlderIs ==
  ASSUME NEW P, NEW Q, NEW l \in Layers(P, Q)
  PROVE  Older(l) \in Layers(P, Q) /\ Same(Older(l), l)
<1> DEFINE q == l.resendQueue
           a == l.acknowledgementQueue
           g == l.receivedPackets
           queue == [k \in DOMAIN q |-> IF q[k] = Hole THEN Hole ELSE AgedPacket(q[k])]
           acks == [k \in DOMAIN a |-> Aged(a[k], LostPacketResendDelay \div 4 + 1)]
           log == [k \in DOMAIN g |-> Aged(g[k], TIMEOUT_TIME + 1)]
           ack == IF l.lastAck = NoAck THEN NoAck ELSE UpTo(l.lastAck + 1, TIMEOUT_TIME + 1)
           increase == UpTo(l.lastIncrease + 1, 2 * LostPacketResendDelay + 1)
           l1 == [l EXCEPT !.resendQueue = queue]
           l2 == [l1 EXCEPT !.acknowledgementQueue = acks]
           l3 == [l2 EXCEPT !.receivedPackets = log]
           l4 == [l3 EXCEPT !.lastAck = ack]
           l5 == [l4 EXCEPT !.lastIncrease = increase]
<1>1. Older(l) = l5
  BY DEF Older
<1>2. /\ LostPacketResendDelay \div 4 + 1 \in Int /\ TIMEOUT_TIME + 1 \in Int
      /\ 2 * LostPacketResendDelay + 1 \in Int
  BY Constants
<1>3. /\ q \in Seq(Entries(P)) /\ a \in Seq([number : Nat, age : Int]) /\ g \in Seq(LogEntry)
      /\ l.lastAck \in Int /\ l.lastIncrease \in Int
  BY DEF Layers, LogEntry
<1>4. queue \in Seq(Entries(P))
  <2> DEFINE Entry == [packet : P, age : Int, outstanding : Int]
  <2>1. Entries(P) = {Hole} \cup Entry /\ \A e \in Entry : AgedPacket(e) \in Entry
    BY AgedPacketIs DEF Entries
  <2> HIDE DEF Entry, q
  <2>2. QED
    BY <1>3, <2>1
<1>5. acks \in Seq([number : Nat, age : Int])
  <2> DEFINE Ack == [number : Nat, age : Int]
             bound == LostPacketResendDelay \div 4 + 1
  <2>1. \A e \in Ack : Aged(e, bound) \in Ack
    BY <1>2, AgedIs
  <2> HIDE DEF Ack, bound, a
  <2>2. a \in Seq(Ack)
    BY <1>3 DEF Ack
  <2>3. [k \in DOMAIN a |-> Aged(a[k], bound)] \in Seq(Ack)
    BY <2>1, <2>2
  <2>4. QED
    BY <2>3 DEF Ack, bound
<1>6. log \in Seq(LogEntry)
  <2> DEFINE bound == TIMEOUT_TIME + 1
  <2>1. \A e \in LogEntry : Aged(e, bound) \in LogEntry
    BY <1>2, AgedIs
  <2> HIDE DEF bound, g
  <2>2. [k \in DOMAIN g |-> Aged(g[k], bound)] \in Seq(LogEntry)
    BY <1>3, <2>1
  <2>3. QED
    BY <2>2 DEF bound
<1>7. ack \in Int /\ increase \in Int
  <2>1. l.lastAck + 1 \in Int /\ l.lastIncrease + 1 \in Int
    BY <1>3
  <2>2. UpTo(l.lastAck + 1, TIMEOUT_TIME + 1) \in Int /\ increase \in Int
    BY <1>2, <2>1, Capped
  <2>3. QED
    BY <2>2 DEF NoAck
<1> HIDE DEF q, a, g, queue, acks, log, ack, increase
<1>8. l1 \in Layers(P, Q) /\ Same(l1, l)
  BY <1>4 DEF Layers, Same
<1> HIDE DEF l1
<1>9. l2 \in Layers(P, Q) /\ Same(l2, l1)
  BY <1>5, <1>8 DEF Layers, Same
<1> HIDE DEF l2
<1>10. l3 \in Layers(P, Q) /\ Same(l3, l2)
  BY <1>6, <1>9, LogChanged
<1> HIDE DEF l3
<1>11. l4 \in Layers(P, Q) /\ Same(l4, l3)
  BY <1>7, <1>10, NumberChanged
<1> HIDE DEF l4
<1>12. l5 \in Layers(P, Q) /\ Same(l5, l4)
  BY <1>7, <1>11, NumberChanged
<1> HIDE DEF l5
<1>13. QED
  BY <1>1, <1>8, <1>9, <1>10, <1>11, <1>12 DEF Same

\* InitializeVariables makes a layer.
LEMMA InitialLayer ==
  ASSUME NEW P, NEW Q
  PROVE  /\ InitLayer \in Layers(P, Q) /\ InitLayer.orderedWriteIndex = 0
         /\ InitLayer.orderedReadIndex = 0 /\ InitLayer.outputQueue = <<>>
<1>1. /\ MINIMUM_WINDOW_SIZE \in Int /\ MAXIMUM_WINDOW_SIZE + 1 \in Int
      /\ 2 * LostPacketResendDelay + 1 \in Int /\ NoAck \in Int
  BY Constants DEF NoAck
<1>2. [priority \in {HIGH_PRIORITY, MEDIUM_PRIORITY} |-> <<>>] \in [Priorities -> Seq(P)]
  BY DEF Priorities
<1>3. QED
  BY <1>1, <1>2 DEF InitLayer, Layers

\* The invariant holds at first.
LEMMA InitialInv ==
  ASSUME Init
  PROVE  DeliveryInv
<1>1. layer = [p \in Peer |-> layer[p]] /\ sentCount \in [Peer -> Nat] /\ network = {}
  BY DEF Init
<1>2. ASSUME NEW p \in Peer PROVE sentCount[p] <= Len(Messages[p]) /\ LayerInv(p)
  <2>1. /\ layer[p] = InitLayer /\ sentCount[p] = 0
        /\ Other(p) \in Peer /\ sentCount[Other(p)] = 0
    BY Ends DEF Init
  <2>2. Firsts(p, 0) = <<>> /\ Firsts(Other(p), 0) = <<>>
    BY <2>1, FirstsNext
  <2>3. Len(Messages[p]) \in Nat
    BY MessageTypes
  <2>4. layer[p] \in Layers(SentBy(p), SentBy(Other(p))) /\ layer[p].orderedWriteIndex = 0
        /\ layer[p].orderedReadIndex = 0 /\ layer[p].outputQueue = <<>>
    BY <2>1, InitialLayer
  <2>5. SubSeq(<<>>, 1, 0) = <<>>
    OBVIOUS
  <2>6. Selected(<<>>, InOrder[Other(p)]) = <<>>
    BY SelectedNone
  <2>7. Reads(layer[p], Other(p), sentCount[Other(p)])
    <3>1. Firsts(Other(p), sentCount[Other(p)]) = <<>> /\ Len(<<>>) = 0
      BY <2>1, <2>2
    <3> DEFINE l == layer[p]
               q == Other(p)
    <3>2. Selected(l.outputQueue, InOrder[q]) = <<>>
      BY <2>4, <2>6
    <3>3. SubSeq(<<>>, 1, l.orderedReadIndex) = <<>>
      BY <2>4, <2>5
    <3>4. l.orderedReadIndex <= Len(<<>>)
      BY <2>4
    <3> HIDE DEF l, q
    <3>5. Reads(l, q, sentCount[q])
      BY <3>1, <3>2, <3>3, <3>4 DEF Reads, q
    <3>6. QED
      BY <3>5 DEF l, q
  <2>8. QED
    BY <2>1, <2>2, <2>3, <2>4, <2>7 DEF LayerInv
<1>3. QED
  BY <1>1, <1>2 DEF DeliveryInv, FramesInv

\* The others keep what they have as long as messages are only added.
LEMMA OthersKeep ==
  ASSUME DeliveryInv, NEW q \in Peer, layer'[q] = layer[q], sentCount'[q] = sentCount[q],
         sentCount'[Other(q)] \in {sentCount[Other(q)], sentCount[Other(q)] + 1}
  PROVE  LayerInv(q)'
<1> DEFINE o == Other(q)
           n == sentCount[o]
<1>1. o \in Peer /\ n \in Nat /\ sentCount[q] \in Nat
  BY Ends DEF DeliveryInv
<1>2. LayerInv(q)
  BY DEF DeliveryInv
<1>3. CASE sentCount'[o] = n
  BY <1>2, <1>3 DEF LayerInv, SentBy, Reads
<1>4. CASE sentCount'[o] = n + 1
  <2> DEFINE r == layer[q].orderedReadIndex
  <2>1. /\ layer[q] \in Layers(SentBy(q), MadeOf(o, n))
        /\ layer[q].orderedWriteIndex = Len(Firsts(q, sentCount[q]))
        /\ r <= Len(Firsts(o, n)) /\ r \in Nat
        /\ Selected(layer[q].outputQueue, InOrder[o]) = SubSeq(Firsts(o, n), 1, r)
    BY <1>2 DEF LayerInv, SentBy, Reads, Layers
  <2>2. SentBy(q)' = SentBy(q) /\ SentBy(o)' = MadeOf(o, n + 1)
    BY <1>4 DEF SentBy
  <2> HIDE DEF o, n, r
  <2>3. layer[q] \in Layers(SentBy(q), MadeOf(o, n + 1))
    BY <1>1, <2>1, MoreMade, MoreLayers
  <2>4. Len(Firsts(o, n)) \in Nat /\ Len(Firsts(o, n + 1)) \in Nat
        /\ Len(Firsts(o, n)) <= Len(Firsts(o, n + 1))
    <3>1. n + 1 \in Nat /\ n \in 0 .. n + 1
      BY <1>1
    <3>2. QED
      BY <1>1, <3>1, FirstsGrow, FirstsNext
  <2>5. r <= Len(Firsts(o, n + 1)) /\ r \in 0 .. Len(Firsts(o, n))
    BY <2>1, <2>4
  <2>6. SubSeq(Firsts(o, n + 1), 1, r) = SubSeq(Firsts(o, n), 1, r)
    BY <1>1, <2>5, SamePrefix
  <2>7. Reads(layer[q], o, n + 1)
    BY <2>1, <2>5, <2>6 DEF Reads, r
  <2>8. QED
    BY <1>4, <2>1, <2>2, <2>3, <2>7 DEF LayerInv, Reads, o, n
<1>5. QED
  BY <1>3, <1>4

\* Frames stay made of the sender's messages as these grow.
LEMMA FramesKeep ==
  ASSUME DeliveryInv, UNCHANGED network,
         \A p \in Peer : sentCount'[p] \in {sentCount[p], sentCount[p] + 1}
  PROVE  FramesInv'
<1>1. ASSUME NEW p \in Peer PROVE SentBy(p) \subseteq SentBy(p)'
  <2>1. sentCount[p] \in Nat
    BY DEF DeliveryInv
  <2>2. SentBy(p)' \in {MadeOf(p, sentCount[p]), MadeOf(p, sentCount[p] + 1)}
    BY DEF SentBy
  <2>3. QED
    BY <2>1, <2>2, MoreMade DEF SentBy
<1>2. ASSUME NEW frame \in network
      PROVE  /\ frame.to \in Peer /\ frame.packets \in Seq(SentBy(Other(frame.to))')
             /\ frame.acks \in Seq(Nat)
             /\ frame = [to |-> frame.to, packets |-> frame.packets, acks |-> frame.acks,
                         life |-> frame.life]
  <2>1. /\ frame.to \in Peer /\ frame.packets \in Seq(SentBy(Other(frame.to)))
        /\ frame.acks \in Seq(Nat)
        /\ frame = [to |-> frame.to, packets |-> frame.packets, acks |-> frame.acks,
                    life |-> frame.life]
    BY DEF DeliveryInv, FramesInv
  <2>2. SentBy(Other(frame.to)) \subseteq SentBy(Other(frame.to))'
    BY <1>1, <2>1, Ends
  <2>3. \A s : s \in Seq(SentBy(Other(frame.to))) => s \in Seq(SentBy(Other(frame.to))')
    BY <2>2
  <2>4. QED
    BY <2>1, <2>3
<1>3. QED
  BY <1>2 DEF FramesInv

-----------------------------------------------------------------------------
(* The steps *)

\* What a step does to the layers: nothing is sent or read but what the action says.
LEMMA SendNextKeeps ==
  ASSUME FewMessages, DeliveryInv, NEW p \in Peer, SendNext(p)
  PROVE  /\ DeliveryInv'
         /\ \A q \in Peer : layer'[q].outputQueue = layer[q].outputQueue
                            /\ layer'[q].orderedReadIndex = layer[q].orderedReadIndex
<1> DEFINE n == sentCount[p]
           new == Sent(layer[p], p, n + 1)
           o == Other(p)
<1>1. /\ n \in Nat /\ Len(Messages[p]) \in Nat /\ n < Len(Messages[p])
      /\ o \in Peer /\ o # p /\ Other(o) = p
  BY Ends, MessageTypes DEF DeliveryInv, SendNext
<1>2. layer = [q \in Peer |-> layer[q]] /\ sentCount \in [Peer -> Nat]
  BY DEF DeliveryInv
<1>3. /\ layer' = [layer EXCEPT ![p] = new] /\ sentCount' = [sentCount EXCEPT ![p] = n + 1]
      /\ UNCHANGED network
  BY DEF SendNext
<1>4. /\ layer[p] \in Layers(MadeOf(p, n), SentBy(o))
      /\ layer[p].orderedWriteIndex = Len(Firsts(p, n))
      /\ Reads(layer[p], o, sentCount[o])
  BY <1>1 DEF DeliveryInv, LayerInv, SentBy
<1> DEFINE Q == SentBy(o)
<1> HIDE DEF new, Q
<1>5. /\ new \in Layers(MadeOf(p, n + 1), Q)
      /\ new.orderedWriteIndex = Len(Firsts(p, n + 1))
      /\ new.orderedReadIndex = layer[p].orderedReadIndex
      /\ new.outputQueue = layer[p].outputQueue
  BY <1>1, <1>4, SentIs DEF new, Q
<1> HIDE DEF n, o
<1>6. /\ layer'[p] = new /\ \A q \in Peer \ {p} : layer'[q] = layer[q]
      /\ layer' = [q \in Peer |-> layer'[q]]
      /\ sentCount'[p] = n + 1 /\ \A q \in Peer \ {p} : sentCount'[q] = sentCount[q]
      /\ sentCount' \in [Peer -> Nat]
  <2>1. layer'[p] = new /\ \A q \in Peer \ {p} : layer'[q] = layer[q]
    BY <1>2, <1>3
  <2>2. layer' = [q \in Peer |-> layer'[q]]
    BY <1>2, <1>3
  <2>3. n + 1 \in Nat
    BY <1>1
  <2>4. /\ sentCount'[p] = n + 1 /\ \A q \in Peer \ {p} : sentCount'[q] = sentCount[q]
        /\ sentCount' \in [Peer -> Nat]
    BY <1>2, <1>3, <2>3
  <2>5. QED
    BY <2>1, <2>2, <2>4
<1>7. ASSUME NEW q \in Peer PROVE LayerInv(q)'
  <2>1. CASE q = p
    <3>1. SentBy(p)' = MadeOf(p, n + 1) /\ SentBy(o)' = Q /\ sentCount'[o] = sentCount[o]
      BY <1>1, <1>6 DEF SentBy, Q
    <3>2. Reads(layer'[p], o, sentCount'[o])
      BY <1>4, <1>5, <1>6, <3>1 DEF Reads
    <3>3. QED
      BY <1>5, <1>6, <2>1, <3>1, <3>2 DEF LayerInv, Reads, o
  <2>2. CASE q # p
    <3>1. q = o /\ Other(q) = p
      BY <1>1, <2>2, TwoEnds
    <3>2. sentCount'[Other(q)] = sentCount[Other(q)] + 1
      BY <1>6, <3>1 DEF n
    <3>3. layer'[q] = layer[q] /\ sentCount'[q] = sentCount[q]
      BY <1>6, <2>2
    <3>4. QED
      BY <3>2, <3>3, OthersKeep
  <2>3. QED
    BY <2>1, <2>2
<1>8. FramesInv'
  <2>1. \A q \in Peer : sentCount'[q] \in {sentCount[q], sentCount[q] + 1}
    BY <1>6 DEF n
  <2>2. QED
    BY <1>3, <2>1, FramesKeep
<1>9. \A q \in Peer : sentCount'[q] <= Len(Messages[q])
  BY <1>1, <1>6 DEF DeliveryInv
<1>10. QED
  BY <1>5, <1>6, <1>7, <1>8, <1>9 DEF DeliveryInv

\* A layer that changes only in what the promise is not about stays as it should be.
LEMMA SameKeeps ==
  ASSUME DeliveryInv, UNCHANGED sentCount, NEW p \in Peer, Same(layer'[p], layer[p]),
         layer'[p] \in Layers(SentBy(p), SentBy(Other(p)))
  PROVE  LayerInv(p)'
<1>1. LayerInv(p)
  BY DEF DeliveryInv
<1>2. SentBy(p)' = SentBy(p) /\ SentBy(Other(p))' = SentBy(Other(p))
  BY DEF SentBy
<1>3. QED
  BY <1>1, <1>2 DEF LayerInv, Reads, Same

\* Update sends packets that are there, or gives up the connection.
LEMMA UpdateKeeps ==
  ASSUME DeliveryInv, NEW p \in Peer, Update(p)
  PROVE  DeliveryInv' /\ \A q \in Peer : Same(layer'[q], layer[q])
<1> DEFINE P == SentBy(p)
           Q == SentBy(Other(p))
<1>1. /\ layer = [q \in Peer |-> layer[q]] /\ layer[p] \in Layers(P, Q) /\ UNCHANGED sentCount
      /\ Other(p) \in Peer /\ Other(Other(p)) = p
  BY Ends DEF DeliveryInv, LayerInv, Update
<1>2. /\ layer'[p] \in Layers(P, Q) /\ Same(layer'[p], layer[p])
      /\ \A q \in Peer \ {p} : layer'[q] = layer[q]
      /\ layer' = [q \in Peer |-> layer'[q]]
      /\ network' \subseteq network \cup FramesOf(p, P)
  <2> HIDE DEF P, Q
  <2>1. CASE Lost(layer[p])
    <3> DEFINE dead == [layer[p] EXCEPT !.deadConnection = TRUE]
    <3>1. layer' = [layer EXCEPT ![p] = dead] /\ network' = network
      BY <2>1 DEF Update
    <3>2. dead \in Layers(P, Q) /\ Same(dead, layer[p])
      BY <1>1 DEF Layers, Same
    <3> HIDE DEF dead
    <3>3. QED
      BY <1>1, <3>1, <3>2
  <2>2. CASE ~Lost(layer[p])
    <3>1. PICK sent : /\ sent = Frames(p) /\ layer' = [layer EXCEPT ![p] = sent.layer]
                      /\ network' = network \cup sent.frames
      BY <2>2 DEF Update
    <3>2. /\ sent.layer \in Layers(P, Q) /\ Same(sent.layer, layer[p])
          /\ sent.frames \subseteq FramesOf(p, P)
      BY <1>1, <3>1, FramesAre
    <3>3. QED
      BY <1>1, <3>1, <3>2
  <2>3. QED
    BY <2>1, <2>2
<1>3. \A q \in Peer : Same(layer'[q], layer[q])
  BY <1>2 DEF Same
<1>4. ASSUME NEW q \in Peer PROVE LayerInv(q)'
  <2>1. layer'[q] \in Layers(SentBy(q), SentBy(Other(q)))
    BY <1>1, <1>2 DEF DeliveryInv, LayerInv
  <2>2. QED
    BY <1>1, <1>3, <2>1, SameKeeps
<1>5. FramesInv'
  <2>1. SentBy(p)' = P
    BY <1>1 DEF SentBy
  <2>2. ASSUME NEW frame \in FramesOf(p, P)
        PROVE  /\ frame.to \in Peer /\ frame.packets \in Seq(SentBy(Other(frame.to))')
               /\ frame.acks \in Seq(Nat)
               /\ frame = [to |-> frame.to, packets |-> frame.packets, acks |-> frame.acks,
                           life |-> frame.life]
    <3> HIDE DEF P
    <3>1. /\ frame.to = Other(p) /\ frame.packets \in Seq(P) /\ frame.acks \in Seq(Nat)
          /\ frame = [to |-> frame.to, packets |-> frame.packets, acks |-> frame.acks,
                      life |-> frame.life]
      BY DEF FramesOf
    <3>2. QED
      BY <1>1, <2>1, <3>1
  <2>3. ASSUME NEW frame \in network
        PROVE  /\ frame.to \in Peer /\ frame.packets \in Seq(SentBy(Other(frame.to))')
               /\ frame.acks \in Seq(Nat)
               /\ frame = [to |-> frame.to, packets |-> frame.packets, acks |-> frame.acks,
                           life |-> frame.life]
    BY <1>1 DEF DeliveryInv, FramesInv, SentBy
  <2>4. QED
    BY <1>2, <2>2, <2>3 DEF FramesInv
<1>6. QED
  BY <1>1, <1>2, <1>3, <1>4, <1>5 DEF DeliveryInv

\* Time loses frames, and changes nothing else that the promise is about.
LEMMA TickKeeps ==
  ASSUME DeliveryInv, Tick
  PROVE  DeliveryInv' /\ \A q \in Peer : Same(layer'[q], layer[q])
<1>1. /\ UNCHANGED sentCount /\ layer' = [q \in Peer |-> layer'[q]]
      /\ \A q \in Peer : layer'[q] \in {Older(layer[q]), layer[q]}
      /\ network' = { [frame EXCEPT !.life = @ - 1] : frame \in { f \in network : f.life > 0 } }
  BY DEF Tick
<1>2. ASSUME NEW q \in Peer
      PROVE  /\ layer'[q] \in Layers(SentBy(q), SentBy(Other(q)))
             /\ Same(layer'[q], layer[q])
  <2>1. layer[q] \in Layers(SentBy(q), SentBy(Other(q)))
    BY DEF DeliveryInv, LayerInv
  <2>2. /\ Older(layer[q]) \in Layers(SentBy(q), SentBy(Other(q)))
        /\ Same(Older(layer[q]), layer[q])
    BY <2>1, OlderIs
  <2>3. QED
    BY <1>1, <2>1, <2>2 DEF Same
<1>3. \A q \in Peer : LayerInv(q)'
  BY <1>1, <1>2, SameKeeps
<1>4. FramesInv'
  <2>1. ASSUME NEW new \in network'
        PROVE  /\ new.to \in Peer /\ new.packets \in Seq(SentBy(Other(new.to))')
               /\ new.acks \in Seq(Nat)
               /\ new = [to |-> new.to, packets |-> new.packets, acks |-> new.acks,
                         life |-> new.life]
    <3>1. PICK frame \in network : new = [frame EXCEPT !.life = @ - 1]
      BY <1>1
    <3>2. /\ frame.to \in Peer /\ frame.packets \in Seq(SentBy(Other(frame.to)))
          /\ frame.acks \in Seq(Nat)
          /\ frame = [to |-> frame.to, packets |-> frame.packets, acks |-> frame.acks,
                      life |-> frame.life]
      BY DEF DeliveryInv, FramesInv
    <3>3. new = [to |-> frame.to, packets |-> frame.packets, acks |-> frame.acks,
                 life |-> frame.life - 1]
      BY <3>1, <3>2
    <3>4. SentBy(Other(frame.to))' = SentBy(Other(frame.to))
      BY <1>1 DEF SentBy
    <3>5. QED
      BY <3>2, <3>3, <3>4
  <2>2. QED
    BY <2>1 DEF FramesInv
<1>5. QED
  BY <1>1, <1>2, <1>3, <1>4 DEF DeliveryInv

\* A frame moves the layer that gets it forward, and leaves the other alone.
LEMMA HandleKeeps ==
  ASSUME FewMessages, DeliveryInv, NEW p \in Peer, HandleSocketReceive(p)
  PROVE  /\ DeliveryInv' /\ layer[p].orderedReadIndex <= layer'[p].orderedReadIndex
         /\ \A q \in Peer \ {p} : layer'[q] = layer[q]
<1> DEFINE o == Other(p)
           n == sentCount[o]
           P == SentBy(p)
<1>1. /\ layer = [q \in Peer |-> layer[q]] /\ UNCHANGED sentCount
      /\ layer[p] \in Layers(P, MadeOf(o, n)) /\ Reads(layer[p], o, n)
      /\ layer[p].orderedWriteIndex = Len(Firsts(p, sentCount[p]))
      /\ o \in Peer /\ n \in 0 .. Len(Messages[o])
  BY Ends, MessageTypes DEF DeliveryInv, LayerInv, SentBy, HandleSocketReceive
<1>2. PICK frame \in network : /\ frame.to = p /\ network' = network \ {frame}
                               /\ layer' = [layer EXCEPT ![p] = HandleFrame(layer[p], frame)]
  BY DEF HandleSocketReceive
<1>3. frame.packets \in Seq(MadeOf(o, n)) /\ frame.acks \in Seq(Nat)
  BY <1>2 DEF DeliveryInv, FramesInv, SentBy
<1> DEFINE new == HandleFrame(layer[p], frame)
<1> HIDE DEF P, o, n
<1>4. Forward(new, layer[p], P, o, n)
  BY <1>1, <1>3, HandleFrameIs
<1> HIDE DEF new
<1>5. /\ layer'[p] = new /\ \A q \in Peer \ {p} : layer'[q] = layer[q]
      /\ layer' = [q \in Peer |-> layer'[q]]
  BY <1>1, <1>2 DEF new
<1>6. /\ new \in Layers(P, MadeOf(o, n)) /\ Reads(new, o, n)
      /\ new.orderedWriteIndex = layer[p].orderedWriteIndex
      /\ layer[p].orderedReadIndex <= new.orderedReadIndex
  BY <1>4 DEF Forward
<1>7. ASSUME NEW q \in Peer PROVE LayerInv(q)'
  <2>1. CASE q = p
    <3>1. SentBy(p)' = P /\ SentBy(o)' = MadeOf(o, n) /\ sentCount'[o] = n
      BY <1>1 DEF SentBy, P, n
    <3>2. QED
      BY <1>1, <1>5, <1>6, <2>1, <3>1 DEF LayerInv, Reads, o
  <2>2. CASE q # p
    <3>1. layer'[q] = layer[q] /\ sentCount' = sentCount
      BY <1>1, <1>5, <2>2
    <3>2. QED
      BY <3>1, OthersKeep
  <2>3. QED
    BY <2>1, <2>2
<1>8. FramesInv'
  BY <1>1, <1>2 DEF DeliveryInv, FramesInv, SentBy
<1>9. QED
  BY <1>1, <1>5, <1>6, <1>7, <1>8 DEF DeliveryInv

-----------------------------------------------------------------------------
(* The promise *)

\* What of the sender's ordered messages has been delivered.
LEMMA Delivered ==
  ASSUME DeliveryInv, NEW p \in Peer
  PROVE  LET r == layer[Other(p)].orderedReadIndex
         IN  /\ r \in 0 .. Len(OrderedSent(p)) /\ OrderedSent(p) \in Seq(Nat)
             /\ OrderedDelivered(p) = SubSeq(OrderedSent(p), 1, r)
             /\ Len(OrderedDelivered(p)) = r
<1> DEFINE o == Other(p)
           r == layer[o].orderedReadIndex
           s == Firsts(p, sentCount[p])
<1>1. o \in Peer /\ Other(o) = p /\ sentCount[p] \in Nat
  BY Ends DEF DeliveryInv
<1>2. /\ r \in Nat /\ r <= Len(s)
      /\ Selected(layer[o].outputQueue, InOrder[p]) = SubSeq(s, 1, r)
  BY <1>1 DEF DeliveryInv, LayerInv, Reads, Layers
<1>3. s \in Seq(Nat) /\ s = OrderedSent(p)
  BY <1>1, FirstsNext DEF OrderedSent, Firsts
<1> HIDE DEF o, r, s
<1>4. r \in 0 .. Len(s) /\ Len(SubSeq(s, 1, r)) = r
  BY <1>2, <1>3
<1>5. OrderedDelivered(p) = SubSeq(s, 1, r)
  BY <1>2 DEF OrderedDelivered, o
<1>6. QED
  BY <1>3, <1>4, <1>5 DEF r, o

\* What is not read or sent does not show in the channel.
LEMMA ChannelStutters ==
  ASSUME UNCHANGED sentCount, \A q \in Peer : layer'[q].outputQueue = layer[q].outputQueue
  PROVE  UNCHANGED Channel!channelVars
<1>1. ASSUME NEW p \in Peer
      PROVE  OrderedSent(p)' = OrderedSent(p) /\ OrderedDelivered(p)' = OrderedDelivered(p)
  BY Ends DEF OrderedSent, OrderedDelivered
<1>2. QED
  BY <1>1 DEF Channel!channelVars

\* Send adds to the channel what is ordered.
LEMMA SendImplements ==
  ASSUME FewMessages, DeliveryInv, NEW p \in Peer, SendNext(p)
  PROVE  [Channel!ChannelNext]_(Channel!channelVars)
<1> DEFINE n == sentCount[p]
<1>1. /\ n \in Nat /\ Len(Messages[p]) \in Nat /\ DOMAIN Messages[p] = 1 .. Len(Messages[p])
      /\ n < Len(Messages[p]) /\ sentCount' = [sentCount EXCEPT ![p] = n + 1]
      /\ sentCount \in [Peer -> Nat]
  BY MessageTypes DEF DeliveryInv, SendNext
<1> HIDE DEF n
<1>2. OrderedSent(p) = Firsts(p, n) /\ OrderedSent(p)' = Firsts(p, n + 1)
  <2>1. sentCount'[p] = n + 1 /\ sentCount[p] = n
    BY <1>1 DEF n
  <2>2. QED
    BY <2>1 DEF OrderedSent, Firsts
<1>3. \A q \in Peer \ {p} : OrderedSent(q)' = OrderedSent(q)
  BY <1>1 DEF OrderedSent
<1>4. \A q \in Peer : OrderedDelivered(q)' = OrderedDelivered(q)
  <2>1. \A q \in Peer : layer'[q].outputQueue = layer[q].outputQueue
    BY SendNextKeeps
  <2>2. QED
    BY <2>1, Ends DEF OrderedDelivered
<1>5. CASE n + 1 \in InOrder[p]
  <2>1. OrderedSent(p)' = Append(OrderedSent(p), n + 1)
    BY <1>1, <1>2, <1>5, FirstsNext
  <2>2. n + 1 \in UNION { DOMAIN Messages[q] : q \in Peer }
    BY <1>1
  <2>3. Channel!Send(p, n + 1)
    BY <1>3, <1>4, <2>1 DEF Channel!Send
  <2>4. QED
    BY <2>2, <2>3 DEF Channel!ChannelNext
<1>6. CASE n + 1 \notin InOrder[p]
  <2>1. OrderedSent(p)' = OrderedSent(p)
    BY <1>1, <1>2, <1>6, FirstsNext
  <2>2. QED
    BY <1>3, <1>4, <2>1 DEF Channel!channelVars
<1>7. QED
  BY <1>5, <1>6

\* A frame delivers on the channel what can be read, if anything.
LEMMA ReceiveImplements ==
  ASSUME FewMessages, DeliveryInv, NEW p \in Peer, HandleSocketReceive(p)
  PROVE  [Channel!ChannelNext]_(Channel!channelVars)
<1> DEFINE o == Other(p)
           s == OrderedSent(o)
           r == layer[p].orderedReadIndex
           r2 == layer'[p].orderedReadIndex
<1>1. o \in Peer /\ Other(o) = p /\ UNCHANGED sentCount
  BY Ends DEF HandleSocketReceive
<1>2. DeliveryInv' /\ r <= r2 /\ \A q \in Peer \ {p} : layer'[q] = layer[q]
  BY HandleKeeps
<1>3. \A q \in Peer : OrderedSent(q)' = OrderedSent(q)
  BY <1>1 DEF OrderedSent
<1>4. \A q \in Peer \ {o} : OrderedDelivered(q)' = OrderedDelivered(q)
  <2>1. \A q \in Peer \ {o} : Other(q) \in Peer \ {p}
    BY <1>1, Ends
  <2>2. QED
    BY <1>2, <2>1 DEF OrderedDelivered
<1>5. /\ r \in 0 .. Len(s) /\ s \in Seq(Nat) /\ OrderedDelivered(o) = SubSeq(s, 1, r)
      /\ Len(OrderedDelivered(o)) = r
  BY <1>1, Delivered
<1>6. r2 \in 0 .. Len(s) /\ OrderedDelivered(o)' = SubSeq(s, 1, r2)
  <2>1. s = Firsts(o, sentCount[o])
    BY DEF OrderedSent, Firsts
  <2>2. Reads(layer'[p], o, sentCount[o]) /\ layer'[p].orderedReadIndex \in Nat
    BY <1>1, <1>2 DEF DeliveryInv, LayerInv, Layers, Reads
  <2>3. r2 <= Len(s) /\ Selected(layer'[p].outputQueue, InOrder[o]) = SubSeq(s, 1, r2)
    BY <2>1, <2>2 DEF Reads
  <2> HIDE DEF s
  <2>4. OrderedDelivered(o)' = Selected(layer'[p].outputQueue, InOrder[o])
    BY <1>1 DEF OrderedDelivered
  <2>5. QED
    BY <1>5, <2>2, <2>3, <2>4
<1> HIDE DEF o, s, r, r2
<1>7. CASE r2 = r
  <2>1. OrderedDelivered(o)' = OrderedDelivered(o)
    BY <1>5, <1>6, <1>7
  <2>2. QED
    BY <1>3, <1>4, <2>1 DEF Channel!channelVars
<1>8. CASE r2 # r
  <2>1. r2 \in Len(OrderedDelivered(o)) + 1 .. Len(OrderedSent(o))
    <3>1. r < r2 \/ r2 < r
      BY <1>5, <1>6, <1>8
    <3>2. QED
      BY <1>2, <1>5, <1>6, <3>1 DEF s
  <2>2. Channel!Deliver(o)
    BY <1>1, <1>3, <1>4, <1>6, <2>1 DEF Channel!Deliver, s
  <2>3. QED
    BY <1>1, <2>2 DEF Channel!ChannelNext
<1>9. QED
  BY <1>7, <1>8

\* At first the channel is empty.
LEMMA InitImplements ==
  ASSUME Init
  PROVE  Channel!ChannelInit
<1>1. ASSUME NEW p \in Peer PROVE OrderedSent(p) = <<>> /\ OrderedDelivered(p) = <<>>
  <2>1. Other(p) \in Peer
    BY Ends
  <2>2. sentCount[p] = 0 /\ layer[Other(p)].outputQueue = <<>>
    BY <2>1, InitialLayer DEF Init
  <2>3. OrderedSent(p) = Firsts(p, 0) /\ Firsts(p, 0) = <<>>
    BY <2>2, FirstsNext DEF OrderedSent, Firsts
  <2>4. QED
    BY <2>2, <2>3, SelectedNone DEF OrderedDelivered
<1>2. QED
  BY <1>1 DEF Channel!ChannelInit

\* Every step keeps the invariant and is a step of the channel.
LEMMA StepKeeps ==
  ASSUME FewMessages, DeliveryInv, [Next]_vars
  PROVE  DeliveryInv' /\ [Channel!ChannelNext]_(Channel!channelVars)
<1>1. CASE Tick
  <2>1. DeliveryInv' /\ \A q \in Peer : layer'[q].outputQueue = layer[q].outputQueue
    BY <1>1, TickKeeps DEF Same
  <2>2. UNCHANGED sentCount
    BY <1>1 DEF Tick
  <2>3. QED
    BY <2>1, <2>2, ChannelStutters
<1>2. ASSUME NEW p \in Peer, SendNext(p)
      PROVE  DeliveryInv' /\ [Channel!ChannelNext]_(Channel!channelVars)
  BY <1>2, SendNextKeeps, SendImplements
<1>3. ASSUME NEW p \in Peer, Update(p)
      PROVE  DeliveryInv' /\ [Channel!ChannelNext]_(Channel!channelVars)
  <2>1. DeliveryInv' /\ \A q \in Peer : layer'[q].outputQueue = layer[q].outputQueue
    BY <1>3, UpdateKeeps DEF Same
  <2>2. UNCHANGED sentCount
    BY <1>3 DEF Update
  <2>3. QED
    BY <2>1, <2>2, ChannelStutters
<1>4. ASSUME NEW p \in Peer, HandleSocketReceive(p)
      PROVE  DeliveryInv' /\ [Channel!ChannelNext]_(Channel!channelVars)
  BY <1>4, HandleKeeps, ReceiveImplements
<1>5. CASE UNCHANGED vars
  <2>1. UNCHANGED <<layer, sentCount, network>>
    BY <1>5 DEF vars
  <2>2. DeliveryInv'
    BY <2>1 DEF DeliveryInv, LayerInv, FramesInv, SentBy, Reads
  <2>3. QED
    BY <2>1, <2>2, ChannelStutters
<1>6. QED
  BY <1>1, <1>2, <1>3, <1>4, <1>5 DEF Next

\* Wherever a packet of a peer is, in a queue, a frame or the other's ordering list, it is
\* made of a message that was sent, with the index that belongs to it; and what was
\* delivered of a peer's ordered messages is what orderedReadIndex says (Send, GenerateFrame,
\* HandleSocketReceiveFromConnectedPlayer). The hypothesis is that the ordering index does
\* not wrap.
THEOREM LayersAreSound ==
  ASSUME FewMessages
  PROVE  Spec => []DeliveryInv
<1>1. Init => DeliveryInv
  BY InitialInv
<1>2. DeliveryInv /\ [Next]_vars => DeliveryInv'
  BY StepKeeps
<1>3. QED
  BY <1>1, <1>2, PTL DEF Spec

\* RELIABLE_ORDERED (PacketPriority.h): through losses, late frames, resends, two
\* priorities and expired logs the other peer gets, of the ordered messages that were sent,
\* a beginning, each once and in order. With as many messages as there are ordering indices
\* a packet that was accepted twice would be delivered in place of a later one.
THEOREM ThePromiseIsKept ==
  ASSUME FewMessages
  PROVE  Spec => ImplementsOrderedChannel
<1>1. Init => Channel!ChannelInit
  BY InitImplements
<1>2. DeliveryInv /\ [Next]_vars => [Channel!ChannelNext]_(Channel!channelVars)
  BY StepKeeps
<1>3. QED
  BY <1>1, <1>2, LayersAreSound, PTL DEF Spec, ImplementsOrderedChannel, Channel!ChannelSpec
=============================================================================
