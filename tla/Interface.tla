------------------------------ MODULE Interface ------------------------------
(***************************************************************************)
(* The interface of the game: SDL's events, the widget manager that hands  *)
(* them to widgets, the start screen's stack of dialogs and the game       *)
(* states of OpenAnno::run.                                                *)
(*                                                                         *)
(* One thread runs it all, and a handler runs to its end, with all that it *)
(* calls: an event is one action.  What handlers call is written as        *)
(* operators on the record `ui`, so that calls nest as they do in the      *)
(* code.  Removed listeners stay in their list until the next frame, and   *)
(* any number of events may come before it.                                *)
(*                                                                         *)
(* Dialogs are never deleted, but a game is, by its own key handler.  A    *)
(* hidden dialog still gets clicks: only its place, being enabled and the  *)
(* focus count.  Widgets that open, close and start nothing are one model  *)
(* value, except the sliders, which capture the mouse.                     *)
(***************************************************************************)
EXTENDS Integers, Sequences, SequencesExt, FiniteSets

CONSTANTS
  StartScreen,  \* the first game state
  Game,         \* addresses of Ingame objects
  Dialog,       \* the dialogs of the start screen, its menu included
  Menu,         \* m_startMenu
  Button,       \* menu items and image buttons
  Parent,       \* the dialog of a button
  Command,      \* what it asks for: a dialog to open, or one of the next three
  Back, NewGame, Exit,
  Place,        \* points of the screen
  At,           \* the buttons at a place, of all dialogs
  SliderAt,     \* the places where some dialog has the drag button of a slider
  Corner,       \* the place (0, 0)
  Other,        \* any other widget
  MaxListeners, \* bound: key listeners, the marked ones included
  NULL

ASSUME InterfaceAssumption ==
  /\ Menu \in Dialog
  /\ Parent \in [Button -> Dialog]
  /\ Command \in [Button -> Dialog \cup {Back, NewGame, Exit}]
  /\ At \in [Place -> SUBSET Button]
  /\ \A p \in Place : \A b, c \in At[p] : Parent[b] = Parent[c] => b = c
  /\ SliderAt \subseteq Place
  /\ Corner \in Place /\ At[Corner] = {} /\ Corner \notin SliderAt

\* What is not the same thing has not the same name.
ASSUME NamesAssumption ==
  /\ StartScreen \notin Dialog \cup Game /\ Game \cap Dialog = {}
  /\ Other \notin Button \cup {NULL} /\ NULL \notin Button

VARIABLES
  ui,        \* the state that handlers share, see Init
  focused,   \* m_focusedWidget
  pressed,   \* whether the left button is down
  running    \* inside of run()

vars == <<ui, focused, pressed, running>>

MenuItem == {b \in Button : Parent[b] = Menu}

Init ==
  /\ ui = [dialogStack  |-> <<Menu>>,
           gameStates   |-> <<StartScreen>>,
           live         |-> {},                    \* the games that are not deleted
           visible      |-> {StartScreen, Menu},   \* whose m_isVisible is set
           enabled      |-> TRUE,                  \* m_isEnabled of the start screen
           items        |-> {},                    \* the menu items that are enabled
           keyListeners |-> <<[widget |-> StartScreen, remove |-> FALSE]>>,
           mouse        |-> Corner,
           hovered      |-> Other,
           captured     |-> FALSE,                 \* some slider is m_mouseCaper
           keepRunning  |-> TRUE,
           crashed      |-> FALSE]                 \* undefined behaviour has been met
  /\ focused = NULL
  /\ pressed = FALSE
  /\ running = TRUE
-----------------------------------------------------------------------------
(* Widgets *)

\* The deepest visible and enabled widget at the mouse.  StartScreen and games
\* cover the screen.
WidgetUnderMouse(u) ==
  LET found == {b \in At[u.mouse] : Parent[b] \in u.visible /\ b \in u.items \cup (Button \ MenuItem)}
  IN IF StartScreen \in u.visible /\ u.enabled
     THEN IF found = {} THEN Other ELSE CHOOSE b \in found : TRUE
     ELSE IF u.visible \cap u.live # {} THEN Other ELSE NULL

UpdateWidgetUnderMouse(u) ==
  IF u.captured THEN u ELSE [u EXCEPT !.hovered = WidgetUnderMouse(u)]

Show(u, w) == UpdateWidgetUnderMouse([u EXCEPT !.visible = @ \cup {w}])
Hide(u, w) == UpdateWidgetUnderMouse([u EXCEPT !.visible = @ \ {w}])

\* The end of a widget: its listeners are marked, not erased.
UnregisterWidget(u, w) ==
  UpdateWidgetUnderMouse(
    [u EXCEPT !.live = @ \ {w},
              !.visible = @ \ {w},
              !.keyListeners =
                 [i \in DOMAIN @ |-> IF @[i].widget = w THEN [@[i] EXCEPT !.remove = TRUE]
                                     ELSE @[i]]])
-----------------------------------------------------------------------------
(* Dialogs *)

\* Mutant: the dialog below is left as it is.
PushDialogOnly(u, d) == Show([u EXCEPT !.dialogStack = Append(@, d)], d)

PushDialog(u, d) ==
  LET below == IF u.dialogStack = <<>> THEN u ELSE Hide(u, Last(u.dialogStack))
  IN Show([below EXCEPT !.dialogStack = Append(@, d)], d)

\* Mutant: the mouse is not looked at again.
PopDialogHoverStays(u) ==
  IF u.dialogStack = <<>>
  THEN [u EXCEPT !.crashed = TRUE]
  ELSE LET left == Front(u.dialogStack)
       IN [u EXCEPT !.dialogStack = left,
                    !.visible = (@ \ {Last(u.dialogStack)})
                                  \cup {left[i] : i \in {Len(left)} \ {0}}]

PopDialog(u) ==
  IF u.dialogStack = <<>>
  THEN [u EXCEPT !.crashed = TRUE]
  ELSE LET left == [Hide(u, Last(u.dialogStack)) EXCEPT !.dialogStack = Front(@)]
       IN IF left.dialogStack = <<>> THEN left ELSE Show(left, Last(left.dialogStack))

\* Pops while there is more than one, at most as often as there are dialogs.
CloseDialogs(u) ==
  LET closed[n \in 0 .. Len(u.dialogStack)] ==
        IF n = 0 THEN u
        ELSE IF Len(closed[n - 1].dialogStack) > 1 THEN PopDialog(closed[n - 1])
        ELSE closed[n - 1]
  IN closed[Len(u.dialogStack)]
-----------------------------------------------------------------------------
(* Game states *)

Activate(u, state) ==
  IF state = StartScreen
  THEN [Show(CloseDialogs(u), StartScreen) EXCEPT !.enabled = TRUE]
  ELSE Show(u, state)

\* Mutant: the start screen is hidden, not disabled.
DeactivateOnlyHides(u, state) == Hide(u, state)

Deactivate(u, state) ==
  IF state = StartScreen
  THEN [Hide(u, StartScreen) EXCEPT !.enabled = FALSE]
  ELSE Hide(u, state)

PushGameState(u, state) ==
  LET below == IF u.gameStates = <<>> THEN u ELSE Deactivate(u, Last(u.gameStates))
  IN Activate([below EXCEPT !.gameStates = Append(@, state)], state)

PopGameState(u) ==
  LET left == Deactivate([u EXCEPT !.gameStates = Front(@)], Last(u.gameStates))
  IN IF left.gameStates = <<>> THEN left ELSE Activate(left, Last(left.gameStates))

RequestExit(u) == [u EXCEPT !.keepRunning = FALSE]

\* Mutant: the new listener is the first of its list.
StartGameListensFirst(u, g) ==
  PushGameState([u EXCEPT !.live = @ \cup {g},
                          !.visible = @ \cup {g},
                          !.keyListeners = <<[widget |-> g, remove |-> FALSE]>> \o @], g)

StartGame(u, g) ==
  PushGameState([u EXCEPT !.live = @ \cup {g},
                          !.visible = @ \cup {g},
                          !.keyListeners = Append(@, [widget |-> g, remove |-> FALSE])], g)
-----------------------------------------------------------------------------
(* Events *)

\* A motion looks for the widget under the mouse before the menu, which covers all
\* places but the corner and need not be visible, enables the item that is there: an
\* item is hovered from the second motion on.
MouseMotion(p) ==
  /\ running
  /\ ui' = LET u == UpdateWidgetUnderMouse([ui EXCEPT !.mouse = p])
           IN IF u.enabled /\ ~u.captured /\ p # Corner
              THEN [u EXCEPT !.items = At[p] \cap MenuItem]
              ELSE u
  /\ UNCHANGED <<focused, pressed, running>>

\* Any button moves the focus; the left one captures the mouse on a slider, be
\* its dialog visible or not.
MouseButtonDown(left) ==
  /\ running
  /\ left => ~pressed
  /\ focused' = IF ui.hovered = NULL THEN focused ELSE ui.hovered
  /\ pressed' = (pressed \/ left)
  /\ ui' = IF left /\ ui.enabled /\ ui.mouse \in SliderAt
           THEN [ui EXCEPT !.captured = TRUE]
           ELSE ui
  /\ UNCHANGED running

\* The command of a button, passed on by its dialog.
Commanded(u, b, g) ==
  CASE Command[b] \in Dialog  -> PushDialog(u, Command[b])
    [] Command[b] = Back      -> PopDialog(u)
    [] Command[b] = NewGame   -> StartGame(u, g)
    [] Command[b] = Exit      -> RequestExit(u)

\* The slider that has captured the mouse lets go.
Released(u) == UpdateWidgetUnderMouse([u EXCEPT !.captured = FALSE])

\* The button that has the focus acts if the mouse is still there.
MouseButtonUp ==
  /\ running
  /\ pressed
  /\ Len(ui.keyListeners) < MaxListeners
  /\ pressed' = FALSE
  /\ \E g \in Game \ ui.live :
       ui' = IF focused \in At[ui.mouse] /\ ui.enabled
             THEN Commanded(Released(ui), focused, g)
             ELSE Released(ui)
  /\ UNCHANGED <<focused, running>>

\* Mutant: listeners that are marked are called.
KeyPressAnyListener(u, listener) ==
  IF listener.widget = StartScreen
  THEN IF ~u.enabled THEN u
       ELSE IF Len(u.dialogStack) > 1 THEN PopDialog(u) ELSE RequestExit(u)
  ELSE IF listener.widget \notin u.live
  THEN [u EXCEPT !.crashed = TRUE]
  ELSE UnregisterWidget(PopGameState(u), Last(u.gameStates))

\* What the listener does when the escape key is released.
KeyPress(u, listener) ==
  IF listener.remove
  THEN u
  ELSE IF listener.widget = StartScreen
  THEN IF ~u.enabled THEN u
       ELSE IF Len(u.dialogStack) > 1 THEN PopDialog(u) ELSE RequestExit(u)
  ELSE IF listener.widget \notin u.live
  THEN [u EXCEPT !.crashed = TRUE]
  ELSE UnregisterWidget(PopGameState(u), Last(u.gameStates))

\* sendEvent goes through the list as it is at each step: a mark that a handler
\* sets counts for the listeners behind it.
EscapeUp ==
  /\ running
  /\ ui' = LET heard[n \in 0 .. Len(ui.keyListeners)] ==
                 IF n = 0 THEN ui
                 ELSE KeyPress(heard[n - 1], heard[n - 1].keyListeners[n])
           IN heard[Len(ui.keyListeners)]
  /\ UNCHANGED <<focused, pressed, running>>

Quit ==
  /\ running
  /\ ui' = RequestExit(ui)
  /\ UNCHANGED <<focused, pressed, running>>

\* What is left of a list when the listeners that are marked are erased.
Unmarked(listeners) ==
  LET kept[n \in 0 .. Len(listeners)] ==
        IF n = 0 THEN <<>>
        ELSE IF listeners[n].remove THEN kept[n - 1]
        ELSE Append(kept[n - 1], listeners[n])
  IN kept[Len(listeners)]

\* The end of a frame: marked listeners are erased.
Frame ==
  /\ running
  /\ ui' = [ui EXCEPT !.keyListeners = Unmarked(@)]
  /\ running' = ui.keepRunning
  /\ UNCHANGED <<focused, pressed>>

Next ==
  \/ \E p \in Place : MouseMotion(p)
  \/ \E left \in BOOLEAN : MouseButtonDown(left)
  \/ MouseButtonUp
  \/ EscapeUp
  \/ Quit
  \/ Frame

Spec == Init /\ [][Next]_vars
-----------------------------------------------------------------------------
(* Properties *)

InGame == Last(ui.gameStates) # StartScreen

\* No event reaches a deleted game and no dialog is popped off an empty stack,
\* however events, commands and frames follow each other.
NothingCrashes == ~ui.crashed

\* The stack of game states is never empty (asserted in run(), openanno.cpp:258),
\* no command of the start screen gets through to it while a game is on top, and
\* a game is on the stack as long as it lives.
GameStatesAreSound ==
  /\ ui.gameStates \in {<<StartScreen>>} \cup {<<StartScreen, g>> : g \in ui.live}
  /\ Cardinality(ui.live) = Len(ui.gameStates) - 1
  /\ ui.enabled = ~InGame
  /\ ui.visible \ Dialog = {Last(ui.gameStates)}

\* Of the dialogs the top of the stack is shown and no other, also after a
\* command of a dialog that was closed before the button came up.
TopDialogIsShown ==
  ui.visible \cap Dialog = {ui.dialogStack[i] : i \in {Len(ui.dialogStack)} \ {0}}

\* A click gives the focus to no button that cannot be seen, unless a slider
\* holds the mouse.
HoveredButtonIsShown ==
  ui.hovered \in Button /\ ~ui.captured =>
    ~InGame /\ Parent[ui.hovered] \in ui.visible

\* One escape closes one thing: the game (and with it all dialogs but the menu),
\* else the dialog on top, else the program.
EscapeClosesOneThing ==
  [][ EscapeUp =>
        IF InGame
        THEN /\ ui'.gameStates = <<StartScreen>>
             /\ Len(ui'.dialogStack) <= 1
             /\ ui'.keepRunning = ui.keepRunning
        ELSE /\ ui'.gameStates = ui.gameStates
             /\ IF Len(ui.dialogStack) > 1
                THEN /\ ui'.dialogStack = Front(ui.dialogStack)
                     /\ ui'.keepRunning = ui.keepRunning
                ELSE ~ui'.keepRunning /\ ui'.dialogStack = ui.dialogStack ]_vars
=============================================================================
