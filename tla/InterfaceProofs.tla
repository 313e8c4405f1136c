--------------------------- MODULE InterfaceProofs ---------------------------
(***************************************************************************)
(* Proofs about Interface, for all dialogs, buttons and places, however     *)
(* they overlap, and any number of games and listeners.                     *)
(***************************************************************************)
EXTENDS Interface, FiniteSetTheorems, SequenceTheorems, TLAPS

-----------------------------------------------------------------------------
(* The inductive invariant *)

State == Game \cup {StartScreen}
Listener == [widget : State, remove : BOOLEAN]

\* The states of the interface, sound or not.
Ui == [dialogStack  : Seq(Dialog),
       gameStates   : Seq(State),
       live         : SUBSET Game,
       visible      : SUBSET (Dialog \cup State),
       enabled      : BOOLEAN,
       items        : SUBSET Button,
       keyListeners : Seq(Listener),
       mouse        : Place,
       hovered      : Button \cup {Other, NULL},
       captured     : BOOLEAN,
       keepRunning  : BOOLEAN,
       crashed      : BOOLEAN]

Top(stack) == {stack[i] : i \in {Len(stack)} \ {0}}

\* Only the start screen, and then only what it lives for, or a game on top of it.
StatesInv(u) ==
  \/ /\ u.gameStates = <<StartScreen>> /\ u.live = {} /\ u.enabled
     /\ u.visible \ Dialog = {StartScreen}
  \/ \E g \in Game : /\ u.gameStates = <<StartScreen, g>> /\ u.live = {g} /\ ~u.enabled
                     /\ u.visible \ Dialog = {g}

DialogsInv(u) == u.visible \cap Dialog = Top(u.dialogStack)

\* Something that covers the screen is shown.
Covered(u) == (StartScreen \in u.visible /\ u.enabled) \/ u.visible \cap u.live # {}

\* Unless a slider has it, the mouse is over what can be seen.
HoverInv(u) ==
  ~u.captured =>
    /\ u.hovered \in Button =>
         StartScreen \in u.visible /\ u.enabled /\ Parent[u.hovered] \in u.visible
    /\ Covered(u) => u.hovered # NULL

\* The first listener is the start screen's; of the others only those of games that
\* live are not marked, and every game has one.
ListenersInv(u) ==
  LET list == u.keyListeners IN
  /\ list # <<>> /\ list[1] = [widget |-> StartScreen, remove |-> FALSE]
  /\ \A i \in DOMAIN list \ {1} : ~list[i].remove => list[i].widget \in u.live
  /\ \A g \in u.live : \E i \in DOMAIN list \ {1} : list[i] = [widget |-> g, remove |-> FALSE]
  /\ \A i, j \in DOMAIN list \ {1} : ~list[i].remove /\ ~list[j].remove => i = j

\* While no dialog is open no button can be clicked: none was under the mouse when the
\* mouse button that is down came down.
FocusInv ==
  /\ ui.hovered # NULL
  /\ ui.captured => ui.enabled /\ pressed
  /\ ui.dialogStack = <<>> => ui.hovered \notin Button /\ (pressed => focused \notin Button)

InterfaceInv ==
  /\ ui \in Ui /\ pressed \in BOOLEAN /\ ~ui.crashed
  /\ StatesInv(ui) /\ DialogsInv(ui) /\ HoverInv(ui) /\ ListenersInv(ui) /\ FocusInv

-----------------------------------------------------------------------------
(* Widgets *)

\* What showing and hiding widgets, and opening and closing dialogs, leaves alone; while
\* a slider has the mouse that is also the widget the mouse was over.
Rest(u) ==
  <<u.gameStates, u.live, u.enabled, u.items, u.keyListeners, u.mouse, u.captured,
    u.keepRunning, u.crashed, IF u.captured THEN u.hovered ELSE NULL>>

LEMMA UnderMouse ==
  ASSUME NEW u \in Ui
  PROVE  /\ WidgetUnderMouse(u) \in Button \cup {Other, NULL}
         /\ WidgetUnderMouse(u) \in Button =>
              /\ StartScreen \in u.visible /\ u.enabled
              /\ Parent[WidgetUnderMouse(u)] \in u.visible
         /\ (StartScreen \in u.visible /\ u.enabled) \/ u.visible \cap u.live # {} =>
              WidgetUnderMouse(u) # NULL
<1> DEFINE found == {b \in At[u.mouse] : Parent[b] \in u.visible
                                         /\ b \in u.items \cup (Button \ MenuItem)}
<1>1. found \subseteq Button
  BY InterfaceAssumption DEF Ui
<1>2. found # {} => (CHOOSE b \in found : TRUE) \in found
  OBVIOUS
<1>3. \A b \in found : Parent[b] \in u.visible
  OBVIOUS
<1>4. WidgetUnderMouse(u) =
        IF StartScreen \in u.visible /\ u.enabled
        THEN IF found = {} THEN Other ELSE CHOOSE b \in found : TRUE
        ELSE IF u.visible \cap u.live # {} THEN Other ELSE NULL
  BY DEF WidgetUnderMouse
<1> HIDE DEF found
<1>5. CASE StartScreen \in u.visible /\ u.enabled /\ found # {}
  BY <1>1, <1>2, <1>3, <1>4, <1>5, NamesAssumption
<1>6. CASE ~(StartScreen \in u.visible /\ u.enabled /\ found # {})
  BY <1>4, <1>6, NamesAssumption
<1>7. QED
  BY <1>5, <1>6

LEMMA UpdateSets ==
  ASSUME NEW u \in Ui
  PROVE  LET v == UpdateWidgetUnderMouse(u) IN
         /\ v \in Ui /\ Rest(v) = Rest(u)
         /\ v.dialogStack = u.dialogStack /\ v.visible = u.visible
         /\ v.hovered = IF u.captured THEN u.hovered ELSE WidgetUnderMouse(u)
         /\ HoverInv(v)
<1> DEFINE v == UpdateWidgetUnderMouse(u)
<1>1. v = IF u.captured THEN u ELSE [u EXCEPT !.hovered = WidgetUnderMouse(u)]
  BY DEF UpdateWidgetUnderMouse
<1>2. WidgetUnderMouse(u) \in Button \cup {Other, NULL}
  BY UnderMouse
<1>3. v \in Ui
  BY <1>1, <1>2 DEF Ui
<1>4. /\ Rest(v) = Rest(u) /\ v.dialogStack = u.dialogStack /\ v.visible = u.visible
      /\ v.enabled = u.enabled /\ v.captured = u.captured
      /\ v.hovered = IF u.captured THEN u.hovered ELSE WidgetUnderMouse(u)
  BY <1>1 DEF Ui, Rest
<1> HIDE DEF v
<1>5. HoverInv(v)
  BY <1>4, UnderMouse DEF HoverInv, Covered, Rest
<1>6. QED
  BY <1>3, <1>4, <1>5 DEF v

\* Showing and hiding a widget.
LEMMA ShowSets ==
  ASSUME NEW u \in Ui, NEW w \in Dialog \cup State
  PROVE  LET v == Show(u, w) IN
         /\ v \in Ui /\ Rest(v) = Rest(u)
         /\ v.dialogStack = u.dialogStack /\ v.visible = u.visible \cup {w}
         /\ HoverInv(v)
<1> DEFINE a == [u EXCEPT !.visible = @ \cup {w}]
<1>1. /\ a \in Ui /\ Rest(a) = Rest(u)
      /\ a.dialogStack = u.dialogStack /\ a.visible = u.visible \cup {w}
  BY DEF Ui, Rest
<1>2. Show(u, w) = UpdateWidgetUnderMouse(a)
  BY DEF Show
<1> HIDE DEF a
<1>3. QED
  BY <1>1, <1>2, UpdateSets

LEMMA HideSets ==
  ASSUME NEW u \in Ui, NEW w
  PROVE  LET v == Hide(u, w) IN
         /\ v \in Ui /\ Rest(v) = Rest(u)
         /\ v.dialogStack = u.dialogStack /\ v.visible = u.visible \ {w}
         /\ HoverInv(v)
<1> DEFINE a == [u EXCEPT !.visible = @ \ {w}]
<1>1. /\ a \in Ui /\ Rest(a) = Rest(u)
      /\ a.dialogStack = u.dialogStack /\ a.visible = u.visible \ {w}
  BY DEF Ui, Rest
<1>2. Hide(u, w) = UpdateWidgetUnderMouse(a)
  BY DEF Hide
<1> HIDE DEF a
<1>3. QED
  BY <1>1, <1>2, UpdateSets

-----------------------------------------------------------------------------
(* Dialogs *)

\* The stacks that there may be, and what is on top of them.
LEMMA Stacks ==
  ASSUME NEW stack \in Seq(Dialog)
  PROVE  /\ Top(stack) \in SUBSET Dialog
         /\ stack = <<>> => Top(stack) = {}
         /\ stack # <<>> => /\ Last(stack) \in Dialog /\ Top(stack) = {Last(stack)}
                            /\ Front(stack) \in Seq(Dialog)
                            /\ Len(Front(stack)) = Len(stack) - 1
         /\ \A d \in Dialog : /\ Append(stack, d) \in Seq(Dialog)
                              /\ Top(Append(stack, d)) = {d} /\ Append(stack, d) # <<>>
<1>1. Len(stack) \in Nat /\ (stack = <<>> <=> Len(stack) = 0)
  OBVIOUS
<1>2. ASSUME NEW d \in Dialog
      PROVE  /\ Append(stack, d) \in Seq(Dialog)
             /\ Top(Append(stack, d)) = {d} /\ Append(stack, d) # <<>>
  <2>1. /\ Append(stack, d) \in Seq(Dialog) /\ Len(Append(stack, d)) = Len(stack) + 1
        /\ Append(stack, d)[Len(stack) + 1] = d
    BY <1>1
  <2>2. QED
    BY <1>1, <2>1 DEF Top
<1>3. stack = <<>> => Top(stack) = {}
  BY DEF Top
<1>4. ASSUME stack # <<>>
      PROVE  /\ Last(stack) \in Dialog /\ Top(stack) = {Last(stack)}
             /\ Front(stack) \in Seq(Dialog) /\ Len(Front(stack)) = Len(stack) - 1
  <2>1. Len(stack) \in 1 .. Len(stack) /\ stack[Len(stack)] \in Dialog
    BY <1>1, <1>4
  <2>2. Top(stack) = {stack[Len(stack)]}
    BY <1>1, <2>1 DEF Top
  <2>3. \A i \in 1 .. Len(stack) - 1 : stack[i] \in Dialog
    BY <1>1
  <2>4. 1 \in Int /\ Len(stack) - 1 \in Nat
    BY <1>1, <1>4
  <2>5. /\ Front(stack) \in Seq(Dialog)
        /\ Len(Front(stack)) = IF 1 <= Len(stack) - 1 THEN Len(stack) - 1 - 1 + 1 ELSE 0
    BY <2>3, <2>4, SubSeqProperties DEF Front
  <2>6. Len(Front(stack)) = Len(stack) - 1
    <3>1. \A n \in Nat : n - 1 \in Nat =>
            (IF 1 <= n - 1 THEN n - 1 - 1 + 1 ELSE 0) = n - 1
      OBVIOUS
    <3>2. QED
      BY <1>1, <2>4, <2>5, <3>1
  <2>7. QED
    BY <2>1, <2>2, <2>5, <2>6 DEF Last
<1>5. Top(stack) \in SUBSET Dialog
  BY <1>3, <1>4
<1>6. QED
  BY <1>2, <1>3, <1>4, <1>5

\* Dialogs come and go, and the one on top is shown.
LEMMA PushDialogSets ==
  ASSUME NEW u \in Ui, NEW d \in Dialog
  PROVE  LET v == PushDialog(u, d) IN
         /\ v \in Ui /\ Rest(v) = Rest(u) /\ HoverInv(v)
         /\ v.dialogStack = Append(u.dialogStack, d)
         /\ v.visible \ Dialog = u.visible \ Dialog
         /\ DialogsInv(u) => DialogsInv(v)
<1> DEFINE below == IF u.dialogStack = <<>> THEN u ELSE Hide(u, Last(u.dialogStack))
           a == [below EXCEPT !.dialogStack = Append(@, d)]
<1>1. u.dialogStack \in Seq(Dialog)
  BY DEF Ui
<1>2. /\ below \in Ui /\ Rest(below) = Rest(u) /\ below.dialogStack = u.dialogStack
      /\ below.visible \ Dialog = u.visible \ Dialog
      /\ DialogsInv(u) => below.visible \cap Dialog = {}
  <2>1. CASE u.dialogStack = <<>>
    BY <1>1, <2>1, Stacks DEF DialogsInv
  <2>2. CASE u.dialogStack # <<>>
    BY <1>1, <2>2, Stacks, HideSets DEF DialogsInv
  <2>3. QED
    BY <2>1, <2>2
<1> HIDE DEF below
<1>3. /\ a \in Ui /\ Rest(a) = Rest(u) /\ a.visible = below.visible
      /\ a.dialogStack = Append(u.dialogStack, d)
  BY <1>1, <1>2, Stacks DEF Ui, Rest
<1>4. PushDialog(u, d) = Show(a, d)
  BY DEF PushDialog, below
<1> HIDE DEF a
<1>5. /\ Show(a, d) \in Ui /\ Rest(Show(a, d)) = Rest(u) /\ HoverInv(Show(a, d))
      /\ Show(a, d).dialogStack = Append(u.dialogStack, d)
      /\ Show(a, d).visible = below.visible \cup {d}
  BY <1>3, ShowSets
<1>6. DialogsInv(u) => DialogsInv(Show(a, d))
  BY <1>1, <1>2, <1>5, Stacks DEF DialogsInv
<1>7. QED
  BY <1>2, <1>4, <1>5, <1>6

LEMMA PopDialogSets ==
  ASSUME NEW u \in Ui, u.dialogStack # <<>>
  PROVE  LET v == PopDialog(u) IN
         /\ v \in Ui /\ Rest(v) = Rest(u) /\ HoverInv(v)
         /\ v.dialogStack = Front(u.dialogStack)
         /\ v.visible \ Dialog = u.visible \ Dialog
         /\ DialogsInv(u) => DialogsInv(v)
<1> DEFINE h == Hide(u, Last(u.dialogStack))
           left == [h EXCEPT !.dialogStack = Front(@)]
<1>1. u.dialogStack \in Seq(Dialog)
  BY DEF Ui
<1>2. /\ h \in Ui /\ Rest(h) = Rest(u) /\ h.dialogStack = u.dialogStack
      /\ h.visible \ Dialog = u.visible \ Dialog /\ HoverInv(h)
      /\ DialogsInv(u) => h.visible \cap Dialog = {}
  BY <1>1, Stacks, HideSets DEF DialogsInv
<1> HIDE DEF h
<1>3. /\ left \in Ui /\ Rest(left) = Rest(u) /\ left.visible = h.visible
      /\ left.dialogStack = Front(u.dialogStack) /\ HoverInv(left)
  <2>1. Front(u.dialogStack) \in Seq(Dialog)
    BY <1>1, Stacks
  <2>2. /\ left \in Ui /\ Rest(left) = Rest(h) /\ left.visible = h.visible
        /\ left.dialogStack = Front(u.dialogStack) /\ left.hovered = h.hovered
        /\ left.captured = h.captured /\ left.enabled = h.enabled
    BY <1>2, <2>1 DEF Ui, Rest
  <2>3. QED
    BY <1>2, <2>2 DEF HoverInv, Covered, Rest
<1>4. PopDialog(u) = IF left.dialogStack = <<>> THEN left
                     ELSE Show(left, Last(left.dialogStack))
  BY DEF PopDialog, h
<1> HIDE DEF left
<1>5. CASE left.dialogStack = <<>>
  <2>1. DialogsInv(u) => DialogsInv(left)
    BY <1>1, <1>2, <1>3, <1>5, Stacks DEF DialogsInv
  <2>2. QED
    BY <1>2, <1>3, <1>4, <1>5, <2>1
<1>6. CASE left.dialogStack # <<>>
  <2> DEFINE d == Last(left.dialogStack)
  <2>1. d \in Dialog /\ Top(left.dialogStack) = {d}
    BY <1>1, <1>3, <1>6, Stacks
  <2> HIDE DEF d
  <2>2. /\ Show(left, d) \in Ui /\ Rest(Show(left, d)) = Rest(u) /\ HoverInv(Show(left, d))
        /\ Show(left, d).dialogStack = left.dialogStack
        /\ Show(left, d).visible = h.visible \cup {d}
    BY <1>3, <2>1, ShowSets
  <2>3. DialogsInv(u) => DialogsInv(Show(left, d))
    BY <1>2, <2>1, <2>2 DEF DialogsInv
  <2>4. QED
    BY <1>2, <1>3, <1>4, <1>6, <2>1, <2>2, <2>3 DEF d
<1>7. QED
  BY <1>5, <1>6

-----------------------------------------------------------------------------
(* Recursion *)

\* A set of natural numbers has a least element.
LEMMA Least ==
  ASSUME NEW T \in SUBSET Nat, T # {}
  PROVE  \E x \in T : \A y \in T : x <= y
<1> DEFINE Below == {p \in Nat \X Nat : p[1] < p[2]}
<1>1. IsWellFoundedOn(Below, Nat)
  BY NatLessThanWellFounded DEF OpToRel
<1>2. PICK x \in T : \A y \in T : <<y, x>> \notin Below
  <2> HIDE DEF Below
  <2>1. QED
    BY <1>1, WFMin
<1>3. ASSUME NEW y \in T PROVE x <= y
  <2>1. x \in Nat /\ y \in Nat /\ ~(y < x)
    BY <1>2
  <2>2. QED
    BY <2>1
<1>4. QED
  BY <1>3

\* Induction up to N, for a set of numbers.
LEMMA UpTo ==
  ASSUME NEW N \in Nat, NEW T, 0 \in T, \A n \in 1 .. N : n - 1 \in T => n \in T
  PROVE  \A n \in 0 .. N : n \in T
<1> DEFINE F == {n \in 0 .. N : n \notin T}
<1> SUFFICES ASSUME F # {} PROVE FALSE
  OBVIOUS
<1>1. F \in SUBSET Nat
  OBVIOUS
<1>2. PICK n \in F : \A m \in F : n <= m
  BY <1>1, Least
<1>3. n \in 1 .. N /\ n - 1 \in 0 .. N /\ n - 1 \notin F
  BY <1>2
<1>4. QED
  BY <1>2, <1>3

\* A function may be defined by its value at 0 and by steps.
Unrolls(f, b, N, step) == f[0] = b /\ \A n \in 1 .. N : f[n] = step[f[n - 1]]

LEMMA StepByStep ==
  ASSUME NEW U, NEW b \in U, NEW N \in Nat, NEW step \in [U -> U]
  PROVE  \E f \in [0 .. N -> U] : Unrolls(f, b, N, step)
<1> DEFINE Reaches(n) == \E f \in [0 .. N -> U] :
                            f[0] = b /\ \A m \in 1 .. n : f[m] = step[f[m - 1]]
           T == {n \in 0 .. N : Reaches(n)}
<1>1. 0 \in T
  <2> DEFINE f == [n \in 0 .. N |-> b]
  <2>1. f \in [0 .. N -> U] /\ f[0] = b
    OBVIOUS
  <2> HIDE DEF f
  <2>2. \A m \in 1 .. 0 : f[m] = step[f[m - 1]]
    OBVIOUS
  <2>3. QED
    BY <2>1, <2>2
<1>2. ASSUME NEW n \in 1 .. N, n - 1 \in T
      PROVE  n \in T
  <2>1. PICK f \in [0 .. N -> U] : f[0] = b /\ \A m \in 1 .. n - 1 : f[m] = step[f[m - 1]]
    BY <1>2
  <2> DEFINE g == [f EXCEPT ![n] = step[f[n - 1]]]
  <2>2. n - 1 \in 0 .. N /\ step[f[n - 1]] \in U
    BY <2>1
  <2>3. g \in [0 .. N -> U] /\ g[n] = step[f[n - 1]] /\ \A m \in 0 .. N \ {n} : g[m] = f[m]
    BY <2>1, <2>2
  <2> HIDE DEF g
  <2>4. ASSUME NEW m \in 1 .. n
        PROVE  g[m] = step[g[m - 1]]
    <3>1. m - 1 \in 0 .. N \ {n} /\ g[m - 1] = f[m - 1]
      BY <2>3
    <3>2. CASE m = n
      BY <2>3, <3>1, <3>2
    <3>3. CASE m # n
      <4>1. m \in 1 .. n - 1 /\ m \in 0 .. N \ {n}
        BY <3>3
      <4>2. QED
        BY <2>1, <2>3, <3>1, <4>1
    <3>4. QED
      BY <3>2, <3>3
  <2>5. g[0] = b
    BY <2>1, <2>3
  <2>6. QED
    BY <2>3, <2>4, <2>5
<1>3. N \in T
  <2> HIDE DEF T
  <2>1. N \in 0 .. N
    OBVIOUS
  <2>2. QED
    BY <1>1, <1>2, <2>1, UpTo
<1>4. QED
  BY <1>3 DEF Unrolls

\* Dialogs are closed until one is left.
LEMMA CloseDialogsSets ==
  ASSUME NEW u \in Ui, DialogsInv(u), HoverInv(u)
  PROVE  LET v == CloseDialogs(u) IN
         /\ v \in Ui /\ Rest(v) = Rest(u) /\ HoverInv(v) /\ DialogsInv(v)
         /\ Len(v.dialogStack) <= 1 /\ (v.dialogStack = <<>> <=> u.dialogStack = <<>>)
         /\ v.visible \ Dialog = u.visible \ Dialog
<1> DEFINE N == Len(u.dialogStack)
           Closer(v) == IF Len(v.dialogStack) > 1 THEN PopDialog(v) ELSE v
           step == [v \in Ui |-> Closer(v)]
           closed == CHOOSE closed : closed = [n \in 0 .. N |->
                       IF n = 0 THEN u
                       ELSE IF Len(closed[n - 1].dialogStack) > 1 THEN PopDialog(closed[n - 1])
                       ELSE closed[n - 1]]
           Good(v) == /\ v \in Ui /\ Rest(v) = Rest(u) /\ HoverInv(v) /\ DialogsInv(v)
                      /\ (v.dialogStack = <<>> <=> u.dialogStack = <<>>)
                      /\ v.visible \ Dialog = u.visible \ Dialog
           T == {n \in 0 .. N : Good(closed[n]) /\ (Len(closed[n].dialogStack) <= 1
                                                    \/ Len(closed[n].dialogStack) = N - n)}
<1>1. N \in Nat /\ u.dialogStack \in Seq(Dialog) /\ (u.dialogStack = <<>> <=> N = 0)
  BY DEF Ui
<1>2. ASSUME NEW v \in Ui
      PROVE  /\ Len(v.dialogStack) \in Nat /\ (v.dialogStack = <<>> <=> Len(v.dialogStack) = 0)
             /\ v.dialogStack \in Seq(Dialog)
  BY DEF Ui
<1>3. \A v \in Ui : Closer(v) \in Ui
  BY <1>2, PopDialogSets
<1>4. step \in [Ui -> Ui]
  BY <1>3
<1>5. closed = [n \in 0 .. N |-> IF n = 0 THEN u ELSE Closer(closed[n - 1])]
  <2>1. PICK f \in [0 .. N -> Ui] : Unrolls(f, u, N, step)
    <3> HIDE DEF step, N
    <3>1. QED
      BY <1>1, <1>4, StepByStep
  <2>2. \A n \in 1 .. N : n - 1 \in 0 .. N /\ step[f[n - 1]] = Closer(f[n - 1])
    BY <1>1
  <2>3. f = [n \in 0 .. N |-> IF n = 0 THEN u ELSE Closer(f[n - 1])]
    <3> HIDE DEF step, N, Closer
    <3>1. QED
      BY <1>1, <2>1, <2>2 DEF Unrolls
  <2>4. QED
    BY <2>3
<1>6. CloseDialogs(u) = closed[N]
  BY DEF CloseDialogs
<1> HIDE DEF closed, step, N
<1>7. 0 \in T
  <2>1. closed[0] = u /\ 0 \in 0 .. N /\ N - 0 = Len(u.dialogStack)
    BY <1>1, <1>5 DEF N
  <2>2. QED
    BY <2>1
<1>8. ASSUME NEW n \in 1 .. N, n - 1 \in T
      PROVE  n \in T
  <2> DEFINE v == closed[n - 1]
  <2>1. Good(v) /\ (Len(v.dialogStack) <= 1 \/ Len(v.dialogStack) = N - (n - 1))
    BY <1>8
  <2>2. closed[n] = Closer(v)
    BY <1>1, <1>5
  <2> HIDE DEF v
  <2>3. CASE Len(v.dialogStack) > 1
    <3>1. closed[n] = PopDialog(v) /\ v.dialogStack # <<>>
      BY <1>2, <2>1, <2>2, <2>3
    <3>2. /\ PopDialog(v).dialogStack = Front(v.dialogStack)
          /\ Len(Front(v.dialogStack)) = Len(v.dialogStack) - 1
      BY <1>2, <2>1, <3>1, PopDialogSets, Stacks
    <3>3. Good(PopDialog(v))
      <4>1. PopDialog(v) \in Ui /\ PopDialog(v).dialogStack # <<>>
        BY <1>2, <2>1, <2>3, <3>1, <3>2, PopDialogSets
      <4>2. QED
        BY <1>2, <2>1, <2>3, <3>1, <4>1, PopDialogSets
    <3>4. Len(Front(v.dialogStack)) = N - n
      BY <1>1, <1>2, <2>1, <2>3, <3>2
    <3>5. QED
      BY <3>1, <3>2, <3>3, <3>4
  <2>4. CASE ~(Len(v.dialogStack) > 1)
    <3>1. closed[n] = v /\ Len(v.dialogStack) <= 1
      BY <1>2, <2>1, <2>2, <2>4
    <3>2. QED
      BY <2>1, <3>1
  <2>5. QED
    BY <2>3, <2>4
<1>9. N \in T
  <2> HIDE DEF T
  <2>1. N \in 0 .. N
    BY <1>1
  <2>2. QED
    BY <1>1, <1>7, <1>8, <2>1, UpTo
<1>10. Good(closed[N]) /\ Len(closed[N].dialogStack) <= 1
  <2>1. N - N = 0
    BY <1>1
  <2>2. QED
    BY <1>9, <2>1
<1>11. QED
  BY <1>6, <1>10

-----------------------------------------------------------------------------
(* Game states *)

LEMMA TwoStates ==
  ASSUME NEW s \in State, NEW t \in State
  PROVE  /\ <<s>> \in Seq(State) /\ Last(<<s>>) = s /\ Append(<<s>>, t) = <<s, t>>
         /\ <<s, t>> \in Seq(State) /\ Last(<<s, t>>) = t /\ Front(<<s, t>>) = <<s>>
<1>1. /\ <<s>> \in Seq(State) /\ Len(<<s>>) = 1
      /\ <<s, t>> \in Seq(State) /\ Len(<<s, t>>) = 2
  OBVIOUS
<1>2. Append(<<s>>, t) = <<s, t>>
  <2>1. /\ Append(<<s>>, t) \in Seq(State) /\ Len(Append(<<s>>, t)) = 2
        /\ Append(<<s>>, t)[1] = s /\ Append(<<s>>, t)[2] = t
    BY <1>1
  <2>2. \A i \in 1 .. 2 : Append(<<s>>, t)[i] = <<s, t>>[i]
    BY <2>1
  <2>3. QED
    BY <1>1, <2>1, <2>2, SeqEqual
<1>3. Front(<<s, t>>) = <<s>>
  <2>1. Front(<<s, t>>) = SubSeq(<<s, t>>, 1, 1)
    BY <1>1 DEF Front
  <2>2. /\ SubSeq(<<s, t>>, 1, 1) \in Seq(State) /\ Len(SubSeq(<<s, t>>, 1, 1)) = 1
        /\ SubSeq(<<s, t>>, 1, 1)[1] = s
    BY <1>1
  <2>3. \A i \in 1 .. 1 : SubSeq(<<s, t>>, 1, 1)[i] = <<s>>[i]
    BY <2>2
  <2>4. QED
    BY <1>1, <2>1, <2>2, <2>3, SeqEqual
<1>4. QED
  BY <1>1, <1>2, <1>3 DEF Last

LEMMA Names ==
  /\ StartScreen \in State /\ StartScreen \notin Dialog /\ Game \subseteq State
  /\ \A g \in Game : g # StartScreen /\ g \notin Dialog
BY NamesAssumption DEF State

\* A game starts on top of the start screen, which it disables.
LEMMA StartGameSets ==
  ASSUME NEW u \in Ui, NEW g \in Game, StatesInv(u), u.enabled, ~u.captured
  PROVE  LET v == StartGame(u, g) IN
         /\ v \in Ui /\ HoverInv(v) /\ v.hovered # NULL
         /\ v.gameStates = <<StartScreen, g>> /\ v.live = {g} /\ ~v.enabled
         /\ v.visible \cap Dialog = u.visible \cap Dialog /\ v.visible \ Dialog = {g}
         /\ v.keyListeners = Append(u.keyListeners, [widget |-> g, remove |-> FALSE])
         /\ v.dialogStack = u.dialogStack /\ v.captured = u.captured
         /\ v.keepRunning = u.keepRunning /\ v.crashed = u.crashed
<1> DEFINE listener == [widget |-> g, remove |-> FALSE]
           a == [u EXCEPT !.live = @ \cup {g}, !.visible = @ \cup {g},
                          !.keyListeners = Append(@, listener)]
           h == Hide(a, StartScreen)
           below == [h EXCEPT !.enabled = FALSE]
           c == [below EXCEPT !.gameStates = Append(@, g)]
<1>1. /\ u.gameStates = <<StartScreen>> /\ u.live = {} /\ u.visible \ Dialog = {StartScreen}
  BY DEF StatesInv
<1>2. listener \in Listener
  BY Names DEF Listener
<1> HIDE DEF listener
<1>3. Append(u.keyListeners, listener) \in Seq(Listener)
  BY <1>2 DEF Ui
<1>4. /\ a \in Ui /\ a.gameStates = <<StartScreen>> /\ a.live = {g}
      /\ a.visible = u.visible \cup {g} /\ a.keyListeners = Append(u.keyListeners, listener)
      /\ a.dialogStack = u.dialogStack /\ a.captured = u.captured
      /\ a.keepRunning = u.keepRunning /\ a.crashed = u.crashed
  BY <1>1, <1>3, Names DEF Ui
<1>5. StartGame(u, g) = PushGameState(a, g)
  BY DEF StartGame, listener
<1>6. PushGameState(a, g) = Activate(c, g)
  <2>1. a.gameStates # <<>> /\ Last(a.gameStates) = StartScreen
    <3>1. <<StartScreen>> # <<>>
      OBVIOUS
    <3>2. QED
      BY <1>4, <3>1, Names, TwoStates
  <2> HIDE DEF a
  <2>2. Deactivate(a, StartScreen) = below
    BY DEF Deactivate
  <2> HIDE DEF h, below
  <2>3. QED
    BY <2>1, <2>2 DEF PushGameState
<1>7. Activate(c, g) = Show(c, g)
  BY Names DEF Activate
<1> HIDE DEF a
<1>8. /\ h \in Ui /\ Rest(h) = Rest(a) /\ h.dialogStack = u.dialogStack
      /\ h.visible = (u.visible \cup {g}) \ {StartScreen}
  BY <1>4, HideSets
<1> HIDE DEF h
<1>9. /\ h.gameStates = <<StartScreen>> /\ h.live = {g}
      /\ h.keyListeners = Append(u.keyListeners, listener)
      /\ h.captured = u.captured /\ h.keepRunning = u.keepRunning /\ h.crashed = u.crashed
  BY <1>4, <1>8 DEF Rest
<1>10. Append(<<StartScreen>>, g) = <<StartScreen, g>> /\ <<StartScreen, g>> \in Seq(State)
  BY Names, TwoStates
<1>11. /\ c \in Ui /\ c.gameStates = <<StartScreen, g>> /\ c.live = {g} /\ ~c.enabled
       /\ c.keyListeners = Append(u.keyListeners, listener)
       /\ c.visible = h.visible /\ c.dialogStack = u.dialogStack
       /\ c.captured = u.captured /\ c.keepRunning = u.keepRunning /\ c.crashed = u.crashed
  BY <1>8, <1>9, <1>10 DEF Ui
<1> HIDE DEF c
<1>12. /\ Show(c, g) \in Ui /\ Rest(Show(c, g)) = Rest(c) /\ HoverInv(Show(c, g))
       /\ Show(c, g).visible = h.visible \cup {g} /\ Show(c, g).dialogStack = u.dialogStack
  BY <1>11, Names, ShowSets
<1>13. Show(c, g).hovered # NULL
  BY <1>11, <1>12 DEF HoverInv, Covered, Rest
<1>14. /\ Show(c, g).visible \cap Dialog = u.visible \cap Dialog
       /\ Show(c, g).visible \ Dialog = {g}
  BY <1>1, <1>8, <1>12, Names
<1>15. QED
  BY <1>5, <1>6, <1>7, <1>11, <1>12, <1>13, <1>14 DEF Rest, listener

\* The key handler of a game takes it off the start screen, closes all dialogs but one
\* and takes the game's listener with it.
LEMMA GameEndSets ==
  ASSUME NEW u \in Ui, NEW g \in Game, StatesInv(u), u.gameStates = <<StartScreen, g>>,
         DialogsInv(u), ~u.captured
  PROVE  LET v == UnregisterWidget(PopGameState(u), g) IN
         /\ v \in Ui /\ HoverInv(v) /\ DialogsInv(v) /\ v.hovered # NULL
         /\ v.gameStates = <<StartScreen>> /\ v.live = {} /\ v.enabled
         /\ v.visible \ Dialog = {StartScreen}
         /\ Len(v.dialogStack) <= 1 /\ (v.dialogStack = <<>> <=> u.dialogStack = <<>>)
         /\ v.keyListeners = [i \in DOMAIN u.keyListeners |->
                                IF u.keyListeners[i].widget = g
                                THEN [u.keyListeners[i] EXCEPT !.remove = TRUE]
                                ELSE u.keyListeners[i]]
         /\ v.captured = u.captured /\ v.keepRunning = u.keepRunning /\ v.crashed = u.crashed
<1> DEFINE a == [u EXCEPT !.gameStates = Front(@)]
           left == Hide(a, g)
           closed == CloseDialogs(left)
           s == Show(closed, StartScreen)
           p == [s EXCEPT !.enabled = TRUE]
           marked(list) == [i \in DOMAIN list |->
                              IF list[i].widget = g THEN [list[i] EXCEPT !.remove = TRUE]
                              ELSE list[i]]
           r == [p EXCEPT !.live = @ \ {g}, !.visible = @ \ {g},
                          !.keyListeners = [i \in DOMAIN @ |->
                             IF @[i].widget = g THEN [@[i] EXCEPT !.remove = TRUE]
                             ELSE @[i]]]
<1>1. Front(u.gameStates) = <<StartScreen>> /\ Last(u.gameStates) = g
      /\ <<StartScreen>> \in Seq(State) /\ Last(<<StartScreen>>) = StartScreen
  BY Names, TwoStates
<1>2. /\ u.live = {g} /\ ~u.enabled /\ u.visible \ Dialog = {g}
  <2>1. <<StartScreen, g>> # <<StartScreen>>
    OBVIOUS
  <2>2. PICK k \in Game : /\ u.gameStates = <<StartScreen, k>> /\ u.live = {k} /\ ~u.enabled
                          /\ u.visible \ Dialog = {k}
    BY <2>1 DEF StatesInv
  <2>3. k = g
    BY <2>2
  <2>4. QED
    BY <2>2, <2>3
<1>3. /\ a \in Ui /\ a.gameStates = <<StartScreen>> /\ a.live = {g} /\ ~a.enabled
      /\ a.visible = u.visible /\ a.keyListeners = u.keyListeners
      /\ a.dialogStack = u.dialogStack /\ a.captured = u.captured
      /\ a.keepRunning = u.keepRunning /\ a.crashed = u.crashed
  BY <1>1, <1>2 DEF Ui
<1>4. PopGameState(u) = p
  <2>1. Deactivate(a, g) = left
    BY Names DEF Deactivate
  <2>2. left.gameStates = <<StartScreen>>
    <3> HIDE DEF a
    <3>1. QED
      BY <1>3, HideSets DEF Rest
  <2>3. Activate(left, StartScreen) = p
    BY DEF Activate
  <2> HIDE DEF left, p
  <2>4. PopGameState(u) = IF left.gameStates = <<>> THEN left
                          ELSE Activate(left, Last(left.gameStates))
    BY <1>1, <2>1 DEF PopGameState
  <2>5. <<StartScreen>> # <<>>
    OBVIOUS
  <2>6. QED
    BY <1>1, <2>2, <2>3, <2>4, <2>5
<1> HIDE DEF a
<1>5. /\ left \in Ui /\ Rest(left) = Rest(a) /\ left.dialogStack = u.dialogStack
      /\ left.visible = u.visible \ {g} /\ HoverInv(left) /\ DialogsInv(left)
  <2>1. /\ left \in Ui /\ Rest(left) = Rest(a) /\ left.dialogStack = u.dialogStack
        /\ left.visible = u.visible \ {g} /\ HoverInv(left)
    BY <1>3, HideSets
  <2>2. DialogsInv(left)
    BY <2>1, Names DEF DialogsInv
  <2>3. QED
    BY <2>1, <2>2
<1> HIDE DEF left
<1>6. /\ closed \in Ui /\ Rest(closed) = Rest(a) /\ DialogsInv(closed)
      /\ Len(closed.dialogStack) <= 1
      /\ (closed.dialogStack = <<>> <=> u.dialogStack = <<>>)
      /\ closed.visible \ Dialog = (u.visible \ {g}) \ Dialog
  BY <1>5, CloseDialogsSets
<1> HIDE DEF closed
<1>7. /\ s \in Ui /\ Rest(s) = Rest(a) /\ s.dialogStack = closed.dialogStack
      /\ s.visible = closed.visible \cup {StartScreen}
  BY <1>6, Names, ShowSets
<1> HIDE DEF s
<1>8. /\ s.gameStates = <<StartScreen>> /\ s.live = {g} /\ s.keyListeners = u.keyListeners
      /\ s.captured = u.captured /\ s.keepRunning = u.keepRunning /\ s.crashed = u.crashed
  BY <1>3, <1>7 DEF Rest
<1>9. /\ p \in Ui /\ p.enabled /\ p.visible = s.visible /\ p.dialogStack = s.dialogStack
      /\ p.gameStates = <<StartScreen>> /\ p.live = {g} /\ p.keyListeners = u.keyListeners
      /\ p.captured = u.captured /\ p.keepRunning = u.keepRunning /\ p.crashed = u.crashed
  BY <1>7, <1>8 DEF Ui
<1> HIDE DEF p
<1>10. marked(u.keyListeners) \in Seq(Listener)
  <2>1. /\ u.keyListeners \in [1 .. Len(u.keyListeners) -> Listener]
        /\ Len(u.keyListeners) \in Nat /\ DOMAIN u.keyListeners = 1 .. Len(u.keyListeners)
    BY DEF Ui
  <2>2. \A l \in Listener : [l EXCEPT !.remove = TRUE] \in Listener
    BY DEF Listener
  <2>3. marked(u.keyListeners) \in [1 .. Len(u.keyListeners) -> Listener]
    BY <2>1, <2>2
  <2> HIDE DEF marked
  <2>4. QED
    BY <2>1, <2>3, SeqDef
<1>11. r = [p EXCEPT !.live = @ \ {g}, !.visible = @ \ {g}, !.keyListeners = marked(@)]
  OBVIOUS
<1>12. /\ r \in Ui /\ r.enabled /\ r.visible = s.visible \ {g} /\ r.dialogStack = s.dialogStack
       /\ r.gameStates = <<StartScreen>> /\ r.live = {}
       /\ r.keyListeners = marked(u.keyListeners)
       /\ r.captured = u.captured /\ r.keepRunning = u.keepRunning /\ r.crashed = u.crashed
  <2> HIDE DEF marked, r
  <2>1. QED
    BY <1>9, <1>10, <1>11 DEF Ui
<1>13. UnregisterWidget(PopGameState(u), g) = UpdateWidgetUnderMouse(r)
  BY <1>4 DEF UnregisterWidget
<1> HIDE DEF r, marked
<1> DEFINE v == UpdateWidgetUnderMouse(r)
<1>14. /\ v \in Ui /\ Rest(v) = Rest(r) /\ v.dialogStack = s.dialogStack
       /\ v.visible = s.visible \ {g} /\ HoverInv(v)
       /\ v.hovered = IF r.captured THEN r.hovered ELSE WidgetUnderMouse(r)
  BY <1>12, UpdateSets
<1> HIDE DEF v
<1>15. v.visible \ Dialog = {StartScreen} /\ v.visible \cap Dialog = closed.visible \cap Dialog
  BY <1>2, <1>6, <1>7, <1>14, Names
<1>16. v.hovered # NULL
  BY <1>12, <1>14, <1>15, UnderMouse
<1>17. DialogsInv(v)
  BY <1>6, <1>7, <1>14, <1>15 DEF DialogsInv
<1>18. v.keyListeners = marked(u.keyListeners) /\ Len(v.dialogStack) <= 1
       /\ (v.dialogStack = <<>> <=> u.dialogStack = <<>>)
  BY <1>6, <1>7, <1>12, <1>14 DEF Rest
<1>19. /\ v.gameStates = <<StartScreen>> /\ v.live = {} /\ v.enabled
       /\ v.captured = u.captured /\ v.keepRunning = u.keepRunning /\ v.crashed = u.crashed
  BY <1>12, <1>14 DEF Rest
<1>20. QED
  BY <1>13, <1>14, <1>15, <1>16, <1>17, <1>18, <1>19 DEF v, marked

-----------------------------------------------------------------------------
(* The escape key *)

\* What the listeners make of u, one after the other.
Heard(u, N) ==
  CHOOSE heard : heard = [n \in 0 .. N |->
    IF n = 0 THEN u ELSE KeyPress(heard[n - 1], heard[n - 1].keyListeners[n])]

LEMMA HeardIs ==
  ASSUME NEW u, NEW N \in Nat, NEW f,
         f = [n \in 0 .. N |-> IF n = 0 THEN u ELSE KeyPress(f[n - 1], f[n - 1].keyListeners[n])]
  PROVE  Heard(u, N) = f
<1> DEFINE h == Heard(u, N)
           T == {n \in 0 .. N : h[n] = f[n]}
<1>1. h = [n \in 0 .. N |-> IF n = 0 THEN u ELSE KeyPress(h[n - 1], h[n - 1].keyListeners[n])]
  BY DEF Heard
<1> HIDE DEF h
<1>2. 0 \in T
  <2>1. 0 \in 0 .. N
    OBVIOUS
  <2>2. h[0] = u /\ f[0] = u
    BY <1>1, <2>1
  <2>3. QED
    BY <2>1, <2>2
<1>3. ASSUME NEW n \in 1 .. N, n - 1 \in T
      PROVE  n \in T
  <2>1. n \in 0 .. N /\ n # 0 /\ h[n - 1] = f[n - 1]
    BY <1>3
  <2>2. h[n] = KeyPress(h[n - 1], h[n - 1].keyListeners[n])
    BY <1>1, <2>1
  <2>3. f[n] = KeyPress(f[n - 1], f[n - 1].keyListeners[n])
    BY <2>1
  <2>4. QED
    BY <2>1, <2>2, <2>3
<1>4. \A n \in 0 .. N : n \in T
  <2> HIDE DEF T
  <2>1. QED
    BY <1>2, <1>3, UpTo
<1>5. \A n \in 0 .. N : h[n] = f[n]
  BY <1>4
<1>6. h = [n \in 0 .. N |-> h[n]] /\ f = [n \in 0 .. N |-> f[n]]
  BY <1>1
<1>7. h = f
  <2> HIDE DEF h
  <2>1. QED
    BY <1>5, <1>6
<1>8. QED
  BY <1>7 DEF h

LEMMA EscapeIsHeard ==
  ASSUME EscapeUp
  PROVE  ui' = Heard(ui, Len(ui.keyListeners))[Len(ui.keyListeners)]
BY DEF EscapeUp, Heard

\* The listeners as the invariant has them.
LEMMA ListenersUse ==
  ASSUME NEW u \in Ui, ListenersInv(u)
  PROVE  LET list == u.keyListeners IN
         /\ Len(list) \in Nat \ {0} /\ DOMAIN list = 1 .. Len(list)
         /\ \A i \in 1 .. Len(list) : list[i] \in Listener
         /\ list[1].widget = StartScreen /\ ~list[1].remove
         /\ \A i \in 2 .. Len(list) : ~list[i].remove => list[i].widget \in u.live
<1>1. /\ u.keyListeners \in Seq(Listener) /\ u.keyListeners # <<>>
      /\ u.keyListeners[1] = [widget |-> StartScreen, remove |-> FALSE]
      /\ \A i \in DOMAIN u.keyListeners \ {1} :
           ~u.keyListeners[i].remove => u.keyListeners[i].widget \in u.live
  BY DEF Ui, ListenersInv
<1>2. /\ Len(u.keyListeners) \in Nat \ {0}
      /\ DOMAIN u.keyListeners = 1 .. Len(u.keyListeners)
      /\ \A i \in 1 .. Len(u.keyListeners) : u.keyListeners[i] \in Listener
  BY <1>1
<1>3. QED
  BY <1>1, <1>2

\* Without a game the start screen alone acts.
LEMMA EscapeAlone ==
  ASSUME ui \in Ui, ListenersInv(ui), EscapeUp, ui.live = {}, ui.enabled
  PROVE  ui' = IF Len(ui.dialogStack) > 1 THEN PopDialog(ui) ELSE RequestExit(ui)
<1> DEFINE list == ui.keyListeners
           N == Len(list)
           v == IF Len(ui.dialogStack) > 1 THEN PopDialog(ui) ELSE RequestExit(ui)
           f == [n \in 0 .. N |-> IF n = 0 THEN ui ELSE v]
<1>1. /\ N \in Nat \ {0} /\ list[1].widget = StartScreen /\ ~list[1].remove
      /\ \A i \in 2 .. N : list[i].remove
  BY ListenersUse
<1>2. KeyPress(ui, list[1]) = v
  BY <1>1 DEF KeyPress
<1>3. v.keyListeners = list
  <2>1. CASE Len(ui.dialogStack) > 1
    <3>1. ui.dialogStack # <<>>
      BY <2>1
    <3>2. Rest(PopDialog(ui)) = Rest(ui)
      BY <3>1, PopDialogSets
    <3>3. QED
      BY <2>1, <3>2 DEF Rest
  <2>2. CASE ~(Len(ui.dialogStack) > 1)
    BY <2>2 DEF RequestExit, Ui
  <2>3. QED
    BY <2>1, <2>2
<1> HIDE DEF v, N, list
<1>4. ASSUME NEW n \in 1 .. N
      PROVE  v = KeyPress(f[n - 1], f[n - 1].keyListeners[n])
  <2>1. CASE n = 1
    <3>1. f[n - 1] = ui
      BY <1>1, <2>1
    <3>2. QED
      BY <1>2, <2>1, <3>1 DEF list
  <2>2. CASE n # 1
    <3>1. f[n - 1] = v /\ n \in 2 .. N
      BY <1>1, <2>2
    <3>2. KeyPress(v, list[n]) = v
      BY <1>1, <3>1 DEF KeyPress
    <3>3. QED
      BY <1>3, <3>1, <3>2
  <2>3. QED
    BY <2>1, <2>2
<1>5. f = [n \in 0 .. N |-> IF n = 0 THEN ui ELSE KeyPress(f[n - 1], f[n - 1].keyListeners[n])]
  <2>1. \A n \in 0 .. N : f[n] = IF n = 0 THEN ui
                                 ELSE KeyPress(f[n - 1], f[n - 1].keyListeners[n])
    BY <1>1, <1>4
  <2>2. f = [n \in 0 .. N |-> f[n]]
    OBVIOUS
  <2> HIDE DEF f
  <2>3. QED
    BY <2>1, <2>2
<1>6. f[N] = v
  BY <1>1
<1> HIDE DEF f
<1>7. Heard(ui, N) = f
  BY <1>1, <1>5, HeardIs
<1>8. QED
  BY <1>6, <1>7, EscapeIsHeard DEF v, N, list

\* In a game its own listener acts, and marks the others of the game that come after it.
LEMMA EscapeInGame ==
  ASSUME ui \in Ui, ListenersInv(ui), EscapeUp, ~ui.enabled, ~ui.captured, StatesInv(ui),
         DialogsInv(ui), NEW g \in Game, ui.gameStates = <<StartScreen, g>>, ui.live = {g}
  PROVE  ui' = UnregisterWidget(PopGameState(ui), g)
<1> DEFINE list == ui.keyListeners
           N == Len(list)
           v == UnregisterWidget(PopGameState(ui), g)
<1>1. /\ N \in Nat \ {0} /\ list[1].widget = StartScreen /\ ~list[1].remove
      /\ DOMAIN list = 1 .. N /\ \A i \in 1 .. N : list[i] \in Listener
  BY ListenersUse
<1>2. PICK j \in 2 .. N : list[j] = [widget |-> g, remove |-> FALSE]
  <2>1. \E i \in DOMAIN list \ {1} : list[i] = [widget |-> g, remove |-> FALSE]
    BY DEF ListenersInv
  <2> HIDE DEF list, N
  <2>2. \A i \in DOMAIN list \ {1} : i \in 2 .. N
    BY <1>1
  <2>3. QED
    BY <2>1, <2>2
<1>3. \A i \in 2 .. N \ {j} : list[i].remove
  <2>1. \A i, k \in DOMAIN list \ {1} : ~list[i].remove /\ ~list[k].remove => i = k
    BY DEF ListenersInv
  <2> HIDE DEF list, N
  <2>2. \A i \in 2 .. N : i \in DOMAIN list \ {1}
    BY <1>1
  <2>3. QED
    BY <1>2, <2>1, <2>2
<1>4. \A i \in 2 .. N \ {j} : v.keyListeners[i].remove
  <2>1. v.keyListeners = [i \in DOMAIN list |-> IF list[i].widget = g
                                                THEN [list[i] EXCEPT !.remove = TRUE]
                                                ELSE list[i]]
    BY GameEndSets
  <2>2. \A l \in Listener : [l EXCEPT !.remove = TRUE].remove = TRUE
    BY DEF Listener
  <2> HIDE DEF v, list, N
  <2>3. QED
    BY <1>1, <1>3, <2>1, <2>2
<1> DEFINE f == [n \in 0 .. N |-> IF n < j THEN ui ELSE v]
<1>5. KeyPress(ui, list[j]) = v
  <2>1. g \in State
    BY Names
  <2>2. Last(<<StartScreen, g>>) = g
    BY <2>1, Names, TwoStates
  <2>3. QED
    BY <1>2, <2>2, Names DEF KeyPress
<1> HIDE DEF v, N
<1>6. \A i \in 1 .. N : i < j => KeyPress(ui, list[i]) = ui
  BY <1>1, <1>2, <1>3 DEF KeyPress
<1> HIDE DEF list
<1>7. ASSUME NEW n \in 1 .. N
      PROVE  f[n] = KeyPress(f[n - 1], f[n - 1].keyListeners[n])
  <2>1. CASE n < j
    <3>1. f[n - 1] = ui /\ f[n] = ui
      BY <1>1, <2>1
    <3>2. QED
      BY <1>6, <2>1, <3>1 DEF list
  <2>2. CASE n = j
    <3>1. f[n - 1] = ui /\ f[n] = v
      BY <1>1, <2>2
    <3>2. QED
      BY <1>5, <2>2, <3>1 DEF list
  <2>3. CASE n > j
    <3>1. f[n - 1] = v /\ f[n] = v /\ n \in 2 .. N \ {j}
      BY <1>1, <2>3
    <3>2. KeyPress(v, v.keyListeners[n]) = v
      BY <1>4, <3>1 DEF KeyPress
    <3>3. QED
      BY <3>1, <3>2
  <2>4. QED
    BY <2>1, <2>2, <2>3
<1>8. f = [n \in 0 .. N |-> IF n = 0 THEN ui ELSE KeyPress(f[n - 1], f[n - 1].keyListeners[n])]
  <2>1. \A n \in 0 .. N : f[n] = IF n = 0 THEN ui
                                 ELSE KeyPress(f[n - 1], f[n - 1].keyListeners[n])
    <3>1. f[0] = ui
      BY <1>1
    <3> HIDE DEF f
    <3>2. QED
      BY <1>7, <3>1
  <2>2. f = [n \in 0 .. N |-> f[n]]
    OBVIOUS
  <2> HIDE DEF f
  <2>3. QED
    BY <2>1, <2>2
<1>9. f[N] = v
  BY <1>1
<1> HIDE DEF f
<1>10. Heard(ui, N) = f
  BY <1>1, <1>8, HeardIs
<1>11. QED
  BY <1>9, <1>10, EscapeIsHeard DEF v, N, list

-----------------------------------------------------------------------------
(* The end of a frame *)

\* What is left of a list of N listeners.
Kept(list, N) ==
  CHOOSE kept : kept = [n \in 0 .. N |->
    IF n = 0 THEN <<>>
    ELSE IF list[n].remove THEN kept[n - 1]
    ELSE Append(kept[n - 1], list[n])]

Keeps(f, list, N) ==
  f = [n \in 0 .. N |-> IF n = 0 THEN <<>>
                        ELSE IF list[n].remove THEN f[n - 1]
                        ELSE Append(f[n - 1], list[n])]

LEMMA KeptIs ==
  ASSUME NEW list, NEW N \in Nat, NEW f, Keeps(f, list, N)
  PROVE  Kept(list, N) = f
<1> DEFINE h == Kept(list, N)
           T == {n \in 0 .. N : h[n] = f[n]}
<1>0. f = [n \in 0 .. N |-> IF n = 0 THEN <<>>
                            ELSE IF list[n].remove THEN f[n - 1]
                            ELSE Append(f[n - 1], list[n])]
  BY DEF Keeps
<1>1. h = [n \in 0 .. N |-> IF n = 0 THEN <<>>
                            ELSE IF list[n].remove THEN h[n - 1]
                            ELSE Append(h[n - 1], list[n])]
  BY <1>0 DEF Kept
<1> HIDE DEF h
<1>2. 0 \in T
  <2>1. 0 \in 0 .. N
    OBVIOUS
  <2>2. h[0] = <<>> /\ f[0] = <<>>
    BY <1>0, <1>1, <2>1
  <2>3. QED
    BY <2>1, <2>2
<1>3. ASSUME NEW n \in 1 .. N, n - 1 \in T
      PROVE  n \in T
  <2>1. n \in 0 .. N /\ n # 0 /\ h[n - 1] = f[n - 1]
    BY <1>3
  <2>2. h[n] = IF list[n].remove THEN h[n - 1] ELSE Append(h[n - 1], list[n])
    BY <1>1, <2>1
  <2>3. f[n] = IF list[n].remove THEN f[n - 1] ELSE Append(f[n - 1], list[n])
    BY <1>0, <2>1
  <2>4. QED
    BY <2>1, <2>2, <2>3
<1>4. \A n \in 0 .. N : n \in T
  <2> HIDE DEF T
  <2>1. QED
    BY <1>2, <1>3, UpTo
<1>5. \A n \in 0 .. N : h[n] = f[n]
  BY <1>4
<1>6. h = [n \in 0 .. N |-> h[n]] /\ f = [n \in 0 .. N |-> f[n]]
  BY <1>0, <1>1
<1>7. h = f
  <2> HIDE DEF h
  <2>1. QED
    BY <1>5, <1>6
<1>8. QED
  BY <1>7 DEF h

\* Of a list with one listener behind the first that is not marked, both are left.
LEMMA UnmarkedIs ==
  ASSUME NEW list \in Seq(Listener), list # <<>>, ~list[1].remove,
         \A i, j \in DOMAIN list \ {1} : ~list[i].remove /\ ~list[j].remove => i = j
  PROVE  \/ /\ Unmarked(list) = <<list[1]>>
            /\ \A i \in DOMAIN list \ {1} : list[i].remove
         \/ \E j \in DOMAIN list \ {1} :
              ~list[j].remove /\ Unmarked(list) = Append(<<list[1]>>, list[j])
<1> DEFINE N == Len(list)
<1>1. N \in Nat \ {0} /\ DOMAIN list = 1 .. N
  OBVIOUS
<1>2. Unmarked(list) = Kept(list, N)[N]
  BY DEF Unmarked, Kept
<1>3. Append(<<>>, list[1]) = <<list[1]>>
  <2>1. list[1] \in Listener
    BY <1>1
  <2>2. QED
    BY <2>1
<1> HIDE DEF N
<1>4. CASE \A i \in 2 .. N : list[i].remove
  <2> DEFINE f == [n \in 0 .. N |-> IF n = 0 THEN <<>> ELSE <<list[1]>>]
  <2>1. ASSUME NEW n \in 1 .. N
        PROVE  f[n] = IF list[n].remove THEN f[n - 1] ELSE Append(f[n - 1], list[n])
    <3>1. CASE n = 1
      <4>1. f[n - 1] = <<>> /\ f[n] = <<list[1]>>
        BY <1>1, <3>1
      <4>2. QED
        BY <1>3, <3>1, <4>1
    <3>2. CASE n # 1
      <4>1. f[n - 1] = f[n] /\ n \in 2 .. N
        BY <1>1, <3>2
      <4>2. QED
        BY <1>4, <4>1
    <3>3. QED
      BY <3>1, <3>2
  <2>2. f[0] = <<>> /\ f[N] = <<list[1]>> /\ f = [n \in 0 .. N |-> f[n]]
    BY <1>1
  <2> HIDE DEF f
  <2>3. \A n \in 0 .. N : f[n] = IF n = 0 THEN <<>>
                                 ELSE IF list[n].remove THEN f[n - 1]
                                 ELSE Append(f[n - 1], list[n])
    BY <1>1, <2>1, <2>2
  <2>4. Keeps(f, list, N)
    BY <2>2, <2>3 DEF Keeps
  <2>5. Kept(list, N) = f
    BY <1>1, <2>4, KeptIs
  <2>6. \A i \in DOMAIN list \ {1} : i \in 2 .. N
    BY <1>1
  <2>7. QED
    BY <1>2, <1>4, <2>2, <2>5, <2>6
<1>5. CASE \E j \in 2 .. N : ~list[j].remove
  <2>1. PICK j \in 2 .. N : ~list[j].remove
    BY <1>5
  <2>2. \A i \in 2 .. N : i # j => list[i].remove
    <3>1. \A i \in 2 .. N : i \in DOMAIN list \ {1}
      BY <1>1
    <3>2. QED
      BY <2>1, <3>1
  <2> DEFINE both == Append(<<list[1]>>, list[j])
             f == [n \in 0 .. N |-> IF n = 0 THEN <<>>
                                    ELSE IF n < j THEN <<list[1]>> ELSE both]
  <2> HIDE DEF both
  <2>3. ASSUME NEW n \in 1 .. N
        PROVE  f[n] = IF list[n].remove THEN f[n - 1] ELSE Append(f[n - 1], list[n])
    <3>1. CASE n = 1
      <4>1. f[n - 1] = <<>> /\ f[n] = <<list[1]>>
        BY <1>1, <3>1
      <4>2. QED
        BY <1>3, <3>1, <4>1
    <3>2. CASE n = j
      <4>1. f[n - 1] = <<list[1]>> /\ f[n] = both
        BY <1>1, <3>2
      <4>2. QED
        BY <2>1, <3>2, <4>1 DEF both
    <3>3. CASE n # 1 /\ n # j
      <4>1. f[n - 1] = f[n] /\ n \in 2 .. N
        BY <1>1, <3>3
      <4>2. QED
        BY <2>2, <3>3, <4>1
    <3>4. QED
      BY <3>1, <3>2, <3>3
  <2>4. f[0] = <<>> /\ f[N] = both /\ f = [n \in 0 .. N |-> f[n]]
    BY <1>1
  <2> HIDE DEF f
  <2>5. \A n \in 0 .. N : f[n] = IF n = 0 THEN <<>>
                                 ELSE IF list[n].remove THEN f[n - 1]
                                 ELSE Append(f[n - 1], list[n])
    <3>1. \A n \in 0 .. N : n = 0 \/ n \in 1 .. N
      BY <1>1
    <3>2. QED
      BY <2>3, <2>4, <3>1
  <2>6. Keeps(f, list, N)
    BY <2>4, <2>5 DEF Keeps
  <2>7. Kept(list, N) = f
    BY <1>1, <2>6, KeptIs
  <2>8. j \in DOMAIN list \ {1}
    BY <1>1
  <2>9. QED
    BY <1>2, <2>1, <2>4, <2>7, <2>8 DEF both
<1>6. QED
  BY <1>4, <1>5

\* The frame keeps the listeners that count.
LEMMA FrameListeners ==
  ASSUME NEW u \in Ui, ListenersInv(u)
  PROVE  LET v == [u EXCEPT !.keyListeners = Unmarked(@)] IN
         v \in Ui /\ ListenersInv(v)
<1> DEFINE list == u.keyListeners
           new == Unmarked(list)
           v == [u EXCEPT !.keyListeners = new]
<1>1. /\ list \in Seq(Listener) /\ list # <<>>
      /\ list[1] = [widget |-> StartScreen, remove |-> FALSE]
      /\ \A i \in DOMAIN list \ {1} : ~list[i].remove => list[i].widget \in u.live
      /\ \A g \in u.live : \E i \in DOMAIN list \ {1} :
                             list[i] = [widget |-> g, remove |-> FALSE]
      /\ \A i, j \in DOMAIN list \ {1} : ~list[i].remove /\ ~list[j].remove => i = j
  BY DEF Ui, ListenersInv
<1> HIDE DEF list
<1>2. list[1] \in Listener /\ ~list[1].remove
  BY <1>1
<1>3. \/ /\ new = <<list[1]>>
         /\ \A i \in DOMAIN list \ {1} : list[i].remove
      \/ \E j \in DOMAIN list \ {1} :
           ~list[j].remove /\ new = Append(<<list[1]>>, list[j])
  BY <1>1, <1>2, UnmarkedIs
<1> HIDE DEF new
<1>4. ASSUME new \in Seq(Listener)
      PROVE  v \in Ui /\ v.keyListeners = new /\ v.live = u.live
  BY <1>4 DEF Ui
<1> HIDE DEF v
<1>5. CASE new = <<list[1]>> /\ \A i \in DOMAIN list \ {1} : list[i].remove
  <2>1. u.live = {}
    BY <1>1, <1>5
  <2>2. /\ new \in Seq(Listener) /\ new # <<>> /\ new[1] = list[1]
        /\ DOMAIN new \ {1} = {}
    BY <1>2, <1>5
  <2>3. QED
    BY <1>1, <1>4, <2>1, <2>2 DEF ListenersInv, v, new, list
<1>6. ASSUME NEW j \in DOMAIN list \ {1}, ~list[j].remove,
             new = Append(<<list[1]>>, list[j])
      PROVE  v \in Ui /\ ListenersInv(v)
  <2>1. list[j] \in Listener /\ list[j].widget \in u.live
    BY <1>1, <1>6
  <2>2. /\ new \in Seq(Listener) /\ new # <<>> /\ new[1] = list[1] /\ new[2] = list[j]
        /\ DOMAIN new \ {1} = {2}
    BY <1>2, <1>6, <2>1
  <2>3. \A g \in u.live : list[j] = [widget |-> g, remove |-> FALSE]
    <3>1. ASSUME NEW g \in u.live
          PROVE  list[j] = [widget |-> g, remove |-> FALSE]
      <4>1. PICK i \in DOMAIN list \ {1} : list[i] = [widget |-> g, remove |-> FALSE]
        BY <1>1
      <4>2. i = j
        BY <1>1, <1>6, <4>1
      <4>3. QED
        BY <4>1, <4>2
    <3>2. QED
      BY <3>1
  <2>4. QED
    BY <1>1, <1>4, <2>1, <2>2, <2>3 DEF ListenersInv
<1>7. QED
  BY <1>3, <1>5, <1>6 DEF v, new, list

-----------------------------------------------------------------------------
(* The invariant *)

\* All of the invariant that is about u alone.
Sound(u) ==
  /\ u \in Ui /\ ~u.crashed /\ u.hovered # NULL /\ (u.captured => u.enabled)
  /\ StatesInv(u) /\ DialogsInv(u) /\ HoverInv(u) /\ ListenersInv(u)

\* All that may be on top is something that covers the screen.
LEMMA StatesCover ==
  ASSUME NEW u \in Ui, StatesInv(u)
  PROVE  Covered(u)
BY DEF StatesInv, Covered

LEMMA EmptyStack ==
  ASSUME NEW u \in Ui, DialogsInv(u), HoverInv(u), ~u.captured, u.dialogStack = <<>>
  PROVE  u.hovered \notin Button
<1>1. u.visible \cap Dialog = {}
  BY DEF DialogsInv, Top
<1>2. u.hovered \in Button => Parent[u.hovered] \in Dialog
  BY InterfaceAssumption
<1>3. QED
  BY <1>1, <1>2 DEF HoverInv

\* What leaves the rest alone leaves it sound.
LEMMA RestIsSound ==
  ASSUME NEW u, NEW v \in Ui, Sound(u), Rest(v) = Rest(u),
         v.visible \ Dialog = u.visible \ Dialog, DialogsInv(v), HoverInv(v)
  PROVE  Sound(v)
<1>1. /\ v.gameStates = u.gameStates /\ v.live = u.live /\ v.enabled = u.enabled
      /\ v.keyListeners = u.keyListeners /\ v.captured = u.captured /\ v.crashed = u.crashed
      /\ v.captured => v.hovered = u.hovered
  BY DEF Rest
<1>2. StatesInv(v)
  BY <1>1 DEF Sound, StatesInv
<1>3. ListenersInv(v)
  BY <1>1 DEF Sound, ListenersInv
<1>4. ~v.captured => v.hovered # NULL
  BY <1>2, StatesCover DEF HoverInv
<1>5. QED
  BY <1>1, <1>2, <1>3, <1>4 DEF Sound

\* Moving the mouse, enabling menu items, capturing and asking for the end.
LEMMA MotionSound ==
  ASSUME NEW u, Sound(u), NEW p \in Place
  PROVE  Sound(UpdateWidgetUnderMouse([u EXCEPT !.mouse = p]))
<1> DEFINE a == [u EXCEPT !.mouse = p]
<1>1. /\ a \in Ui /\ a.gameStates = u.gameStates /\ a.live = u.live /\ a.enabled = u.enabled
      /\ a.keyListeners = u.keyListeners /\ a.captured = u.captured /\ a.crashed = u.crashed
      /\ a.visible = u.visible /\ a.dialogStack = u.dialogStack /\ a.hovered = u.hovered
  BY DEF Sound, Ui
<1> HIDE DEF a
<1> DEFINE v == UpdateWidgetUnderMouse(a)
<1>2. /\ v \in Ui /\ Rest(v) = Rest(a) /\ v.dialogStack = a.dialogStack
      /\ v.visible = a.visible /\ HoverInv(v)
  BY <1>1, UpdateSets
<1> HIDE DEF v
<1>3. /\ v.gameStates = u.gameStates /\ v.live = u.live /\ v.enabled = u.enabled
      /\ v.keyListeners = u.keyListeners /\ v.captured = u.captured /\ v.crashed = u.crashed
      /\ v.captured => v.hovered = u.hovered
  BY <1>1, <1>2 DEF Rest
<1>4. StatesInv(v) /\ DialogsInv(v)
  BY <1>1, <1>2, <1>3 DEF Sound, StatesInv, DialogsInv
<1>5. ListenersInv(v)
  BY <1>3 DEF Sound, ListenersInv
<1>6. ~v.captured => v.hovered # NULL
  BY <1>2, <1>4, StatesCover DEF HoverInv
<1>7. Sound(v)
  BY <1>2, <1>3, <1>4, <1>5, <1>6 DEF Sound
<1>8. QED
  BY <1>7 DEF v, a

LEMMA ItemsSound ==
  ASSUME NEW u, Sound(u), NEW items \in SUBSET Button
  PROVE  Sound([u EXCEPT !.items = items])
<1> DEFINE v == [u EXCEPT !.items = items]
<1>1. /\ v \in Ui /\ v.gameStates = u.gameStates /\ v.live = u.live /\ v.enabled = u.enabled
      /\ v.keyListeners = u.keyListeners /\ v.captured = u.captured /\ v.crashed = u.crashed
      /\ v.visible = u.visible /\ v.dialogStack = u.dialogStack /\ v.hovered = u.hovered
  BY DEF Sound, Ui
<1> HIDE DEF v
<1>2. QED
  BY <1>1 DEF Sound, StatesInv, DialogsInv, HoverInv, Covered, ListenersInv, v

LEMMA ExitSound ==
  ASSUME NEW u, Sound(u)
  PROVE  /\ Sound(RequestExit(u)) /\ ~RequestExit(u).keepRunning
         /\ RequestExit(u).dialogStack = u.dialogStack
         /\ RequestExit(u).gameStates = u.gameStates
         /\ RequestExit(u).hovered = u.hovered /\ RequestExit(u).captured = u.captured
<1> DEFINE v == RequestExit(u)
<1>1. /\ v \in Ui /\ v.gameStates = u.gameStates /\ v.live = u.live /\ v.enabled = u.enabled
      /\ v.keyListeners = u.keyListeners /\ v.captured = u.captured /\ v.crashed = u.crashed
      /\ v.visible = u.visible /\ v.dialogStack = u.dialogStack /\ v.hovered = u.hovered
      /\ ~v.keepRunning
  BY DEF Sound, Ui, RequestExit
<1> HIDE DEF v
<1>2. Sound(v)
  BY <1>1 DEF Sound, StatesInv, DialogsInv, HoverInv, Covered, ListenersInv
<1>3. QED
  BY <1>1, <1>2 DEF v

LEMMA CaptureSound ==
  ASSUME NEW u, Sound(u), u.enabled
  PROVE  LET v == [u EXCEPT !.captured = TRUE] IN
         Sound(v) /\ v.hovered = u.hovered /\ v.dialogStack = u.dialogStack /\ v.enabled
<1> DEFINE v == [u EXCEPT !.captured = TRUE]
<1>1. /\ v \in Ui /\ v.gameStates = u.gameStates /\ v.live = u.live /\ v.enabled = u.enabled
      /\ v.keyListeners = u.keyListeners /\ v.captured /\ v.crashed = u.crashed
      /\ v.visible = u.visible /\ v.dialogStack = u.dialogStack /\ v.hovered = u.hovered
  BY DEF Sound, Ui
<1> HIDE DEF v
<1>2. Sound(v)
  BY <1>1 DEF Sound, StatesInv, DialogsInv, HoverInv, ListenersInv
<1>3. QED
  BY <1>1, <1>2 DEF v

LEMMA ReleasedSound ==
  ASSUME NEW u, Sound(u)
  PROVE  LET v == Released(u) IN
         /\ Sound(v) /\ ~v.captured /\ v.dialogStack = u.dialogStack /\ v.enabled = u.enabled
         /\ v.live = u.live
<1> DEFINE a == [u EXCEPT !.captured = FALSE]
<1>1. /\ a \in Ui /\ a.gameStates = u.gameStates /\ a.live = u.live /\ a.enabled = u.enabled
      /\ a.keyListeners = u.keyListeners /\ ~a.captured /\ a.crashed = u.crashed
      /\ a.visible = u.visible /\ a.dialogStack = u.dialogStack
  BY DEF Sound, Ui
<1> HIDE DEF a
<1> DEFINE v == UpdateWidgetUnderMouse(a)
<1>2. /\ v \in Ui /\ Rest(v) = Rest(a) /\ v.dialogStack = a.dialogStack
      /\ v.visible = a.visible /\ HoverInv(v)
  BY <1>1, UpdateSets
<1> HIDE DEF v
<1>3. /\ v.gameStates = u.gameStates /\ v.live = u.live /\ v.enabled = u.enabled
      /\ v.keyListeners = u.keyListeners /\ ~v.captured /\ v.crashed = u.crashed
  BY <1>1, <1>2 DEF Rest
<1>4. StatesInv(v) /\ DialogsInv(v)
  BY <1>1, <1>2, <1>3 DEF Sound, StatesInv, DialogsInv
<1>5. ListenersInv(v)
  BY <1>3 DEF Sound, ListenersInv
<1>6. v.hovered # NULL
  BY <1>2, <1>3, <1>4, StatesCover DEF HoverInv
<1>7. Sound(v)
  BY <1>2, <1>3, <1>4, <1>5, <1>6 DEF Sound
<1>8. QED
  BY <1>1, <1>2, <1>3, <1>7 DEF v, a, Released

\* Opening and closing dialogs.
LEMMA PushSound ==
  ASSUME NEW u, Sound(u), NEW d \in Dialog
  PROVE  Sound(PushDialog(u, d)) /\ PushDialog(u, d).captured = u.captured
<1>1. u \in Ui /\ DialogsInv(u)
  BY DEF Sound
<1>2. LET v == PushDialog(u, d) IN
      /\ v \in Ui /\ Rest(v) = Rest(u) /\ HoverInv(v) /\ DialogsInv(v)
      /\ v.visible \ Dialog = u.visible \ Dialog
  BY <1>1, PushDialogSets
<1>3. QED
  BY <1>2, RestIsSound DEF Rest

LEMMA PopSound ==
  ASSUME NEW u, Sound(u), u.dialogStack # <<>>
  PROVE  /\ Sound(PopDialog(u)) /\ PopDialog(u).captured = u.captured
         /\ PopDialog(u).dialogStack = Front(u.dialogStack)
         /\ PopDialog(u).keepRunning = u.keepRunning
         /\ PopDialog(u).gameStates = u.gameStates
<1>1. u \in Ui /\ DialogsInv(u)
  BY DEF Sound
<1>2. LET v == PopDialog(u) IN
      /\ v \in Ui /\ Rest(v) = Rest(u) /\ HoverInv(v) /\ DialogsInv(v)
      /\ v.visible \ Dialog = u.visible \ Dialog
      /\ v.dialogStack = Front(u.dialogStack)
  BY <1>1, PopDialogSets
<1>3. QED
  BY <1>2, RestIsSound DEF Rest

\* A game begins.
LEMMA StartSound ==
  ASSUME NEW u, Sound(u), u.enabled, ~u.captured, NEW g \in Game
  PROVE  /\ Sound(StartGame(u, g)) /\ ~StartGame(u, g).captured
<1> DEFINE v == StartGame(u, g)
           list == u.keyListeners
           N == Len(list)
<1>1. /\ u \in Ui /\ StatesInv(u) /\ DialogsInv(u) /\ ListenersInv(u) /\ ~u.crashed
  BY DEF Sound
<1>2. /\ v \in Ui /\ HoverInv(v) /\ v.hovered # NULL
      /\ v.gameStates = <<StartScreen, g>> /\ v.live = {g} /\ ~v.enabled
      /\ v.visible \cap Dialog = u.visible \cap Dialog /\ v.visible \ Dialog = {g}
      /\ v.keyListeners = Append(list, [widget |-> g, remove |-> FALSE])
      /\ v.dialogStack = u.dialogStack /\ ~v.captured /\ ~v.crashed
  BY <1>1, StartGameSets
<1> HIDE DEF v
<1>3. StatesInv(v) /\ DialogsInv(v)
  BY <1>1, <1>2 DEF StatesInv, DialogsInv
<1>4. u.live = {}
  BY <1>1 DEF StatesInv
<1>5. /\ list \in Seq(Listener) /\ N \in Nat \ {0} /\ DOMAIN list = 1 .. N
      /\ list[1] = [widget |-> StartScreen, remove |-> FALSE]
      /\ \A i \in 2 .. N : list[i].remove
  <2>1. list \in Seq(Listener) /\ list[1] = [widget |-> StartScreen, remove |-> FALSE]
    BY <1>1 DEF Ui, ListenersInv
  <2>2. QED
    BY <1>1, <1>4, <2>1, ListenersUse
<1> DEFINE l == [widget |-> g, remove |-> FALSE]
<1>6. l \in Listener /\ l.widget = g /\ ~l.remove
  BY Names DEF Listener
<1> HIDE DEF l, list, N
<1>7. /\ Append(list, l) \in Seq(Listener) /\ DOMAIN Append(list, l) = 1 .. N + 1
      /\ Append(list, l) # <<>> /\ Append(list, l)[N + 1] = l
      /\ \A i \in 1 .. N : Append(list, l)[i] = list[i]
  BY <1>5, <1>6 DEF N
<1>8. v.keyListeners = Append(list, l)
  BY <1>2 DEF l
<1>9. \A i \in DOMAIN v.keyListeners \ {1} : ~v.keyListeners[i].remove => i = N + 1
  BY <1>5, <1>7, <1>8
<1>10. N + 1 \in DOMAIN v.keyListeners \ {1} /\ v.keyListeners[N + 1] = l
       /\ v.keyListeners[1] = list[1] /\ v.keyListeners # <<>>
  BY <1>5, <1>7, <1>8
<1>11. ListenersInv(v)
  <2>1. \A i \in DOMAIN v.keyListeners \ {1} :
          ~v.keyListeners[i].remove => v.keyListeners[i].widget \in v.live
    BY <1>2, <1>6, <1>9, <1>10
  <2>2. \A k \in v.live : v.keyListeners[N + 1] = [widget |-> k, remove |-> FALSE]
    BY <1>2, <1>10 DEF l
  <2>3. QED
    BY <1>5, <1>9, <1>10, <2>1, <2>2 DEF ListenersInv
<1>12. QED
  BY <1>2, <1>3, <1>11 DEF Sound, v

\* A game ends.
LEMMA EndSound ==
  ASSUME NEW u, Sound(u), NEW g \in Game, u.gameStates = <<StartScreen, g>>, ~u.captured
  PROVE  LET v == UnregisterWidget(PopGameState(u), g) IN
         /\ Sound(v) /\ ~v.captured /\ v.gameStates = <<StartScreen>>
         /\ Len(v.dialogStack) <= 1 /\ (v.dialogStack = <<>> <=> u.dialogStack = <<>>)
         /\ v.keepRunning = u.keepRunning
<1> DEFINE v == UnregisterWidget(PopGameState(u), g)
           list == u.keyListeners
           new == [i \in DOMAIN list |->
                    IF list[i].widget = g THEN [list[i] EXCEPT !.remove = TRUE] ELSE list[i]]
<1>1. /\ u \in Ui /\ StatesInv(u) /\ DialogsInv(u) /\ ListenersInv(u) /\ ~u.crashed
  BY DEF Sound
<1>2. /\ v \in Ui /\ HoverInv(v) /\ DialogsInv(v) /\ v.hovered # NULL
      /\ v.gameStates = <<StartScreen>> /\ v.live = {} /\ v.enabled
      /\ v.visible \ Dialog = {StartScreen}
      /\ Len(v.dialogStack) <= 1 /\ (v.dialogStack = <<>> <=> u.dialogStack = <<>>)
      /\ v.keyListeners = new
      /\ ~v.captured /\ v.keepRunning = u.keepRunning /\ ~v.crashed
  <2>1. v.keyListeners = new
    BY <1>1, GameEndSets
  <2> HIDE DEF new
  <2>2. /\ v \in Ui /\ HoverInv(v) /\ DialogsInv(v) /\ v.hovered # NULL
        /\ v.gameStates = <<StartScreen>> /\ v.live = {} /\ v.enabled
        /\ v.visible \ Dialog = {StartScreen}
        /\ Len(v.dialogStack) <= 1 /\ (v.dialogStack = <<>> <=> u.dialogStack = <<>>)
        /\ v.captured = u.captured /\ v.keepRunning = u.keepRunning
        /\ v.crashed = u.crashed
    BY <1>1, GameEndSets
  <2> HIDE DEF v
  <2>3. QED
    BY <1>1, <2>1, <2>2
<1> HIDE DEF v
<1>3. u.live = {g}
  <2>1. <<StartScreen, g>> # <<StartScreen>>
    OBVIOUS
  <2>2. PICK k \in Game : u.gameStates = <<StartScreen, k>> /\ u.live = {k}
    BY <1>1, <2>1 DEF StatesInv
  <2>3. QED
    BY <2>2
<1>4. /\ list # <<>> /\ 1 \in DOMAIN list /\ list[1] = [widget |-> StartScreen, remove |-> FALSE]
      /\ \A i \in DOMAIN list : list[i] \in Listener
      /\ \A i \in DOMAIN list \ {1} : ~list[i].remove => list[i].widget = g
  <2>1. /\ list # <<>> /\ list[1] = [widget |-> StartScreen, remove |-> FALSE]
        /\ \A i \in DOMAIN list \ {1} : ~list[i].remove => list[i].widget \in {g}
    BY <1>1, <1>3 DEF ListenersInv
  <2>2. 1 \in DOMAIN list /\ \A i \in DOMAIN list : list[i] \in Listener
    BY <1>1, ListenersUse
  <2> HIDE DEF list
  <2>3. QED
    BY <2>1, <2>2
<1> HIDE DEF list
<1>5. \A l \in Listener : [l EXCEPT !.remove = TRUE].remove
  BY DEF Listener
<1>6. DOMAIN new = DOMAIN list /\ new[1] = list[1] /\ \A i \in DOMAIN list \ {1} : new[i].remove
  <2>1. DOMAIN new = DOMAIN list
    OBVIOUS
  <2>2. new[1] = list[1]
    <3>1. list[1].widget # g
      <4>1. list[1].widget = StartScreen
        BY <1>4
      <4>2. QED
        BY <4>1, Names
    <3>2. QED
      BY <1>4, <3>1
  <2>3. ASSUME NEW i \in DOMAIN list \ {1}
        PROVE  new[i].remove
    <3>1. CASE list[i].widget = g
      BY <1>4, <1>5, <3>1
    <3>2. CASE list[i].widget # g
      BY <1>4, <3>2
    <3>3. QED
      BY <3>1, <3>2
  <2>4. QED
    BY <2>1, <2>2, <2>3
<1> HIDE DEF new
<1>7. v.keyListeners # <<>>
  <2>1. DOMAIN <<>> = {}
    OBVIOUS
  <2>2. QED
    BY <1>2, <1>4, <1>6, <2>1
<1>8. ListenersInv(v)
  BY <1>2, <1>4, <1>6, <1>7 DEF ListenersInv
<1>9. StatesInv(v)
  BY <1>2 DEF StatesInv
<1>10. QED
  BY <1>2, <1>8, <1>9 DEF Sound, v

-----------------------------------------------------------------------------
(* The events *)

LEMMA InvIsSound ==
  InterfaceInv <=> Sound(ui) /\ FocusInv /\ pressed \in BOOLEAN
BY DEF InterfaceInv, Sound, FocusInv

LEMMA InitInv ==
  ASSUME Init
  PROVE  InterfaceInv
<1> DEFINE l == [widget |-> StartScreen, remove |-> FALSE]
<1>1. /\ ui.dialogStack = <<Menu>> /\ ui.gameStates = <<StartScreen>> /\ ui.live = {}
      /\ ui.visible = {StartScreen, Menu} /\ ui.enabled /\ ui.keyListeners = <<l>>
      /\ ui.hovered = Other /\ ~ui.captured /\ ~ui.crashed /\ pressed = FALSE
  BY DEF Init
<1>2. Menu \in Dialog /\ Corner \in Place /\ StartScreen \in State /\ l \in Listener
  BY InterfaceAssumption, Names DEF Listener
<1> HIDE DEF l
<1>3. ui \in Ui
  <2>1. /\ <<Menu>> \in Seq(Dialog) /\ <<StartScreen>> \in Seq(State)
        /\ <<l>> \in Seq(Listener) /\ {StartScreen, Menu} \subseteq Dialog \cup State
    BY <1>2
  <2>2. QED
    BY <1>2, <2>1 DEF Init, Ui, l
<1>4. StatesInv(ui)
  BY <1>1, <1>2, Names DEF StatesInv
<1>5. DialogsInv(ui)
  <2>1. Top(<<Menu>>) = {Menu}
    BY <1>2 DEF Top
  <2>2. QED
    BY <1>1, <1>2, <2>1, Names DEF DialogsInv
<1>6. ListenersInv(ui)
  <2>1. /\ ui.keyListeners # <<>> /\ ui.keyListeners[1] = l
        /\ DOMAIN ui.keyListeners \ {1} = {}
    BY <1>1
  <2>2. QED
    BY <1>1, <2>1 DEF ListenersInv, l
<1>7. HoverInv(ui) /\ FocusInv /\ ui.hovered # NULL
  <2>1. <<Menu>> # <<>>
    OBVIOUS
  <2>2. QED
    BY <1>1, <2>1, NamesAssumption DEF HoverInv, FocusInv
<1>8. QED
  BY <1>1, <1>3, <1>4, <1>5, <1>6, <1>7 DEF InterfaceInv

LEMMA MouseMotionInv ==
  ASSUME InterfaceInv, NEW p \in Place, MouseMotion(p)
  PROVE  InterfaceInv'
<1> DEFINE u == UpdateWidgetUnderMouse([ui EXCEPT !.mouse = p])
<1>1. Sound(ui) /\ FocusInv /\ pressed \in BOOLEAN
  BY InvIsSound
<1>2. /\ Sound(u) /\ u.dialogStack = ui.dialogStack /\ u.captured = ui.captured
      /\ u.enabled = ui.enabled /\ u.captured => u.hovered = ui.hovered
  <2> DEFINE a == [ui EXCEPT !.mouse = p]
  <2>1. /\ a \in Ui /\ a.enabled = ui.enabled /\ a.captured = ui.captured
        /\ a.dialogStack = ui.dialogStack /\ a.hovered = ui.hovered
    BY <1>1 DEF Sound, Ui
  <2>2. Sound(UpdateWidgetUnderMouse(a))
    BY <1>1, MotionSound
  <2> HIDE DEF a
  <2>3. QED
    BY <2>1, <2>2, UpdateSets DEF Rest, a
<1>3. ui' = IF u.enabled /\ ~u.captured /\ p # Corner
            THEN [u EXCEPT !.items = At[p] \cap MenuItem]
            ELSE u
  BY DEF MouseMotion
<1> HIDE DEF u
<1>4. /\ Sound(ui') /\ ui'.dialogStack = ui.dialogStack /\ ui'.captured = ui.captured
      /\ ui'.enabled = ui.enabled /\ ui'.captured => ui'.hovered = ui.hovered
  <2>1. At[p] \cap MenuItem \in SUBSET Button
    BY DEF MenuItem
  <2>2. CASE u.enabled /\ ~u.captured /\ p # Corner
    BY <1>2, <1>3, <2>1, <2>2, ItemsSound DEF Sound, Ui
  <2>3. CASE ~(u.enabled /\ ~u.captured /\ p # Corner)
    BY <1>2, <1>3, <2>3
  <2>4. QED
    BY <2>2, <2>3
<1>5. ui'.dialogStack = <<>> => ui'.hovered \notin Button
  BY <1>1, <1>4, EmptyStack DEF FocusInv, Sound
<1>6. FocusInv' /\ pressed' \in BOOLEAN
  BY <1>1, <1>4, <1>5 DEF FocusInv, MouseMotion, Sound
<1>7. QED
  BY <1>4, <1>6 DEF InterfaceInv, Sound

LEMMA MouseButtonDownInv ==
  ASSUME InterfaceInv, NEW left \in BOOLEAN, MouseButtonDown(left)
  PROVE  InterfaceInv'
<1>1. Sound(ui) /\ FocusInv /\ pressed \in BOOLEAN
  BY InvIsSound
<1>2. focused' = ui.hovered /\ pressed' = (pressed \/ left) /\ pressed' \in BOOLEAN
  BY <1>1 DEF MouseButtonDown, Sound
<1>3. CASE left /\ ui.enabled /\ ui.mouse \in SliderAt
  <2>1. ui' = [ui EXCEPT !.captured = TRUE]
    BY <1>3 DEF MouseButtonDown
  <2>2. /\ Sound(ui') /\ ui'.hovered = ui.hovered /\ ui'.dialogStack = ui.dialogStack
        /\ ui'.enabled
    BY <1>1, <1>3, <2>1, CaptureSound
  <2>3. FocusInv'
    BY <1>1, <1>2, <1>3, <2>2 DEF FocusInv, Sound
  <2>4. QED
    BY <1>2, <2>2, <2>3 DEF InterfaceInv, Sound
<1>4. CASE ~(left /\ ui.enabled /\ ui.mouse \in SliderAt)
  <2>1. ui' = ui
    BY <1>4 DEF MouseButtonDown
  <2>2. FocusInv'
    BY <1>1, <1>2, <2>1 DEF FocusInv, Sound
  <2>3. QED
    BY <1>1, <1>2, <2>1, <2>2 DEF InterfaceInv, Sound
<1>5. QED
  BY <1>3, <1>4

LEMMA MouseButtonUpInv ==
  ASSUME InterfaceInv, MouseButtonUp
  PROVE  InterfaceInv'
<1> DEFINE r == Released(ui)
<1>1. Sound(ui) /\ FocusInv /\ pressed
  BY InvIsSound DEF MouseButtonUp
<1>2. /\ Sound(r) /\ ~r.captured /\ r.dialogStack = ui.dialogStack /\ r.enabled = ui.enabled
      /\ r.live = ui.live
  BY <1>1, ReleasedSound
<1>3. PICK g \in Game \ ui.live :
        ui' = IF focused \in At[ui.mouse] /\ ui.enabled THEN Commanded(r, focused, g) ELSE r
  BY DEF MouseButtonUp
<1> HIDE DEF r
<1>4. Sound(ui') /\ ~ui'.captured
  <2>1. CASE focused \in At[ui.mouse] /\ ui.enabled
    <3>1. focused \in Button /\ r.dialogStack # <<>> /\ r.enabled
      BY <1>1, <1>2, <2>1, InterfaceAssumption DEF FocusInv, Sound, Ui
    <3>2. Command[focused] \in Dialog \cup {Back, NewGame, Exit}
      BY <3>1, InterfaceAssumption
    <3>3. ui' = CASE Command[focused] \in Dialog -> PushDialog(r, Command[focused])
                  [] Command[focused] = Back     -> PopDialog(r)
                  [] Command[focused] = NewGame  -> StartGame(r, g)
                  [] Command[focused] = Exit     -> RequestExit(r)
      BY <1>3, <2>1 DEF Commanded
    <3>4. \/ Command[focused] \in Dialog /\ ui' = PushDialog(r, Command[focused])
          \/ ui' = PopDialog(r) \/ ui' = StartGame(r, g) \/ ui' = RequestExit(r)
      BY <3>2, <3>3
    <3>5. QED
      BY <1>2, <3>1, <3>4, PushSound, PopSound, StartSound, ExitSound
  <2>2. CASE ~(focused \in At[ui.mouse] /\ ui.enabled)
    BY <1>2, <1>3, <2>2
  <2>3. QED
    BY <2>1, <2>2
<1>5. pressed' = FALSE
  BY DEF MouseButtonUp
<1>6. FocusInv'
  BY <1>4, <1>5, EmptyStack DEF FocusInv, Sound
<1>7. QED
  BY <1>4, <1>5, <1>6 DEF InterfaceInv, Sound

\* What the escape key does.
LEMMA Escapes ==
  ASSUME InterfaceInv, EscapeUp
  PROVE  \/ /\ ui.gameStates = <<StartScreen>>
            /\ ui' = IF Len(ui.dialogStack) > 1 THEN PopDialog(ui) ELSE RequestExit(ui)
         \/ \E g \in Game : /\ ui.gameStates = <<StartScreen, g>> /\ ~ui.captured
                            /\ ui' = UnregisterWidget(PopGameState(ui), g)
<1>1. Sound(ui)
  BY InvIsSound
<1>2. CASE ui.gameStates = <<StartScreen>> /\ ui.live = {} /\ ui.enabled
  BY <1>1, <1>2, EscapeAlone DEF Sound
<1>3. CASE \E g \in Game : ui.gameStates = <<StartScreen, g>> /\ ui.live = {g} /\ ~ui.enabled
  <2>1. PICK g \in Game : ui.gameStates = <<StartScreen, g>> /\ ui.live = {g} /\ ~ui.enabled
    BY <1>3
  <2>2. ~ui.captured
    BY <1>1, <2>1 DEF Sound
  <2>3. ui' = UnregisterWidget(PopGameState(ui), g)
    BY <1>1, <2>1, <2>2, EscapeInGame DEF Sound
  <2>4. QED
    BY <2>1, <2>2, <2>3
<1>4. QED
  BY <1>1, <1>2, <1>3 DEF Sound, StatesInv

LEMMA EscapeUpInv ==
  ASSUME InterfaceInv, EscapeUp
  PROVE  InterfaceInv'
<1>1. Sound(ui) /\ FocusInv /\ pressed \in BOOLEAN
  BY InvIsSound
<1>2. focused' = focused /\ pressed' = pressed
  BY DEF EscapeUp
<1>3. CASE ui' = RequestExit(ui)
  <2>1. /\ Sound(ui') /\ ui'.dialogStack = ui.dialogStack /\ ui'.hovered = ui.hovered
        /\ ui'.captured = ui.captured
    BY <1>1, <1>3, ExitSound
  <2>2. FocusInv'
    BY <1>1, <1>2, <2>1 DEF FocusInv, Sound
  <2>3. QED
    BY <1>1, <1>2, <2>1, <2>2 DEF InterfaceInv, Sound
<1>4. CASE Len(ui.dialogStack) > 1 /\ ui' = PopDialog(ui)
  <2>1. ui.dialogStack # <<>> /\ ui.dialogStack \in Seq(Dialog)
    BY <1>1, <1>4 DEF Sound, Ui
  <2>2. /\ Sound(ui') /\ ui'.captured = ui.captured
        /\ ui'.dialogStack = Front(ui.dialogStack)
    BY <1>1, <1>4, <2>1, PopSound
  <2>3. Front(ui.dialogStack) # <<>>
    <3>1. Len(Front(ui.dialogStack)) = Len(ui.dialogStack) - 1 /\ Len(ui.dialogStack) \in Nat
      BY <2>1, Stacks
    <3>2. Len(Front(ui.dialogStack)) # 0
      <4>1. \A n \in Nat : n > 1 => n - 1 # 0
        OBVIOUS
      <4>2. QED
        BY <1>4, <3>1, <4>1
    <3>3. QED
      BY <3>2
  <2>4. FocusInv'
    BY <1>1, <1>2, <2>2, <2>3 DEF FocusInv, Sound
  <2>5. QED
    BY <1>1, <1>2, <2>2, <2>4 DEF InterfaceInv, Sound
<1>5. ASSUME NEW g \in Game, ui.gameStates = <<StartScreen, g>>, ~ui.captured,
             ui' = UnregisterWidget(PopGameState(ui), g)
      PROVE  InterfaceInv'
  <2>1. /\ Sound(ui') /\ ~ui'.captured /\ (ui'.dialogStack = <<>> <=> ui.dialogStack = <<>>)
    BY <1>1, <1>5, EndSound
  <2>2. FocusInv'
    BY <1>1, <1>2, <2>1, EmptyStack DEF FocusInv, Sound
  <2>3. QED
    BY <1>1, <1>2, <2>1, <2>2 DEF InterfaceInv, Sound
<1>6. QED
  BY <1>3, <1>4, <1>5, Escapes

LEMMA QuitInv ==
  ASSUME InterfaceInv, Quit
  PROVE  InterfaceInv'
<1>1. Sound(ui) /\ FocusInv /\ pressed \in BOOLEAN
  BY InvIsSound
<1>2. ui' = RequestExit(ui) /\ focused' = focused /\ pressed' = pressed
  BY DEF Quit
<1>3. /\ Sound(ui') /\ ui'.dialogStack = ui.dialogStack /\ ui'.hovered = ui.hovered
      /\ ui'.captured = ui.captured
  BY <1>1, <1>2, ExitSound
<1>4. FocusInv'
  BY <1>1, <1>2, <1>3 DEF FocusInv, Sound
<1>5. QED
  BY <1>1, <1>2, <1>3, <1>4 DEF InterfaceInv, Sound

LEMMA FrameInv ==
  ASSUME InterfaceInv, Frame
  PROVE  InterfaceInv'
<1> DEFINE v == [ui EXCEPT !.keyListeners = Unmarked(@)]
<1>1. Sound(ui) /\ FocusInv /\ pressed \in BOOLEAN
  BY InvIsSound
<1>2. ui' = v /\ focused' = focused /\ pressed' = pressed
  BY DEF Frame
<1>3. v \in Ui /\ ListenersInv(v)
  BY <1>1, FrameListeners DEF Sound
<1>4. /\ v.gameStates = ui.gameStates /\ v.live = ui.live /\ v.enabled = ui.enabled
      /\ v.captured = ui.captured /\ v.crashed = ui.crashed /\ v.visible = ui.visible
      /\ v.dialogStack = ui.dialogStack /\ v.hovered = ui.hovered
  BY <1>1 DEF Sound, Ui
<1> HIDE DEF v
<1>5. Sound(v)
  BY <1>1, <1>3, <1>4 DEF Sound, StatesInv, DialogsInv, HoverInv, Covered
<1>6. FocusInv'
  BY <1>1, <1>2, <1>4 DEF FocusInv, Sound
<1>7. QED
  BY <1>1, <1>2, <1>5, <1>6 DEF InterfaceInv, Sound

LEMMA StepInv ==
  ASSUME InterfaceInv, [Next]_vars
  PROVE  InterfaceInv'
<1>1. ASSUME NEW p \in Place, MouseMotion(p) PROVE InterfaceInv'
  BY <1>1, MouseMotionInv
<1>2. ASSUME NEW left \in BOOLEAN, MouseButtonDown(left) PROVE InterfaceInv'
  BY <1>2, MouseButtonDownInv
<1>3. CASE UNCHANGED vars
  BY <1>3 DEF vars, InterfaceInv, FocusInv
<1>4. QED
  BY <1>1, <1>2, <1>3, MouseButtonUpInv, EscapeUpInv, QuitInv, FrameInv DEF Next

LEMMA TypesAndInv == Spec => []InterfaceInv
<1>1. Init => InterfaceInv
  BY InitInv
<1>2. InterfaceInv /\ [Next]_vars => InterfaceInv'
  BY StepInv
<1>3. QED
  BY <1>1, <1>2, PTL DEF Spec

-----------------------------------------------------------------------------
(* The theorems *)

\* No event reaches a game that is deleted and no dialog is taken off an empty stack: the
\* key handlers of StartScreen and Ingame, the commands of the dialogs and the erasing of
\* listeners in sendEvent may follow each other in any order, at any place of the mouse.
THEOREM NothingEverCrashes == Spec => []NothingCrashes
<1>1. InterfaceInv => NothingCrashes
  BY DEF InterfaceInv, NothingCrashes
<1>2. QED
  BY <1>1, TypesAndInv, PTL

\* The stack of game states is the start screen, or it and a game, whatever is pressed
\* while a game is on top: the pushes and pops of m_gameStates match the handlers.
THEOREM GameStatesStaySound == Spec => []GameStatesAreSound
<1>1. ASSUME InterfaceInv PROVE GameStatesAreSound
  <2>1. StatesInv(ui)
    BY <1>1 DEF InterfaceInv
  <2>2. CASE /\ ui.gameStates = <<StartScreen>> /\ ui.live = {} /\ ui.enabled
             /\ ui.visible \ Dialog = {StartScreen}
    <3>1. Last(<<StartScreen>>) = StartScreen /\ Len(<<StartScreen>>) = 1
      BY Names, TwoStates
    <3>2. Cardinality({}) = 0
      BY FS_EmptySet
    <3>3. ui.enabled = ~InGame
      BY <1>1, <2>2, <3>1 DEF InGame, InterfaceInv, Ui
    <3>4. Cardinality(ui.live) = Len(ui.gameStates) - 1
      BY <2>2, <3>1, <3>2
    <3>5. ui.visible \ Dialog = {Last(ui.gameStates)}
      BY <2>2, <3>1
    <3>6. QED
      BY <2>2, <3>3, <3>4, <3>5 DEF GameStatesAreSound
  <2>3. ASSUME NEW g \in Game, ui.gameStates = <<StartScreen, g>>, ui.live = {g},
               ~ui.enabled, ui.visible \ Dialog = {g}
        PROVE  GameStatesAreSound
    <3>1. g \in State /\ Len(<<StartScreen, g>>) = 2
      BY Names
    <3>2. Last(<<StartScreen, g>>) = g
      BY <3>1, Names, TwoStates
    <3>3. Cardinality({g}) = 1
      BY FS_Singleton
    <3>4. ui.enabled = FALSE
      BY <1>1, <2>3 DEF InterfaceInv, Ui
    <3>5. ui.enabled = ~InGame
      BY <2>3, <3>2, <3>4, Names DEF InGame
    <3>6. QED
      BY <2>3, <3>1, <3>2, <3>3, <3>5 DEF GameStatesAreSound
  <2>4. QED
    BY <2>1, <2>2, <2>3 DEF StatesInv
<1>2. QED
  BY <1>1, TypesAndInv, PTL

\* Of all dialogs the one on top of m_dialogStack is visible and no other.
THEOREM TheTopDialogIsShown == Spec => []TopDialogIsShown
<1>1. InterfaceInv => TopDialogIsShown
  BY DEF InterfaceInv, DialogsInv, Top, TopDialogIsShown
<1>2. QED
  BY <1>1, TypesAndInv, PTL

\* m_hoveredWidget, which the next click gives the focus to, is a button that can be seen.
THEOREM TheHoveredButtonIsShown == Spec => []HoveredButtonIsShown
<1>1. ASSUME InterfaceInv PROVE HoveredButtonIsShown
  <2>1. StatesInv(ui) /\ HoverInv(ui)
    BY <1>1 DEF InterfaceInv
  <2>2. ui.enabled => Last(ui.gameStates) = StartScreen
    BY <2>1, Names, TwoStates DEF StatesInv
  <2>3. QED
    BY <2>1, <2>2 DEF HoverInv, HoveredButtonIsShown, InGame
<1>2. QED
  BY <1>1, TypesAndInv, PTL

\* The escape key closes the game, or else the dialog on top, or else the program: never
\* two of them, though the listeners of the start screen and of the game both hear it.
THEOREM EscapeClosesOne == Spec => EscapeClosesOneThing
<1> DEFINE Closes ==
        IF InGame
        THEN /\ ui'.gameStates = <<StartScreen>>
             /\ Len(ui'.dialogStack) <= 1
             /\ ui'.keepRunning = ui.keepRunning
        ELSE /\ ui'.gameStates = ui.gameStates
             /\ IF Len(ui.dialogStack) > 1
                THEN /\ ui'.dialogStack = Front(ui.dialogStack)
                     /\ ui'.keepRunning = ui.keepRunning
                ELSE ~ui'.keepRunning /\ ui'.dialogStack = ui.dialogStack
<1>1. ASSUME InterfaceInv, EscapeUp PROVE Closes
  <2>1. Sound(ui)
    BY <1>1, InvIsSound
  <2>2. CASE /\ ui.gameStates = <<StartScreen>>
             /\ ui' = IF Len(ui.dialogStack) > 1 THEN PopDialog(ui) ELSE RequestExit(ui)
    <3>1. ~InGame
      BY <2>2, Names, TwoStates DEF InGame
    <3>2. CASE Len(ui.dialogStack) > 1
      <4>1. ui.dialogStack # <<>>
        BY <3>2
      <4>2. QED
        BY <2>1, <2>2, <3>1, <3>2, <4>1, PopSound
    <3>3. CASE ~(Len(ui.dialogStack) > 1)
      BY <2>1, <2>2, <3>1, <3>3, ExitSound
    <3>4. QED
      BY <3>2, <3>3
  <2>3. ASSUME NEW g \in Game, ui.gameStates = <<StartScreen, g>>, ~ui.captured,
               ui' = UnregisterWidget(PopGameState(ui), g)
        PROVE  Closes
    <3>1. g \in State /\ g # StartScreen
      BY Names
    <3>2. Last(<<StartScreen, g>>) = g
      BY <3>1, Names, TwoStates
    <3>3. InGame
      BY <2>3, <3>1, <3>2 DEF InGame
    <3>4. QED
      BY <2>1, <2>3, <3>3, EndSound
  <2>4. QED
    BY <1>1, <2>2, <2>3, Escapes
<1>2. InterfaceInv /\ [Next]_vars => [EscapeUp => Closes]_vars
  BY <1>1
<1>3. QED
  BY <1>2, TypesAndInv, PTL DEF Spec, EscapeClosesOneThing
=============================================================================
