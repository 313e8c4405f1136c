---------------------------- MODULE MCInterface ----------------------------
(* An instance of Interface for TLC: the ways to a game, to a network game and *)
(* to the configuration.                                                       *)
EXTENDS Interface

CONSTANTS
  g1, g2,
  single, new, multi, search, login, config,      \* dialogs
  toSingle, toMulti, toConfig, toExit,            \* items of the menu
  toNew, fromSingle,                              \* buttons of the single player dialog
  start, fromNew,                                 \* buttons of the dialog for a new game
  toSearch, toLogin, okMulti, fromMulti,          \* buttons of the multi player dialog
  fromSearch, okConfig, fromConfig,               \* other buttons
  corner, row1, row2, row3, row4, row5, bottomLeft, bottomMiddle, bottomRight, slider   \* places

\* A dialog and its buttons.  Those of the login dialog reach nobody: its onCommand
\* is registered nowhere.
ButtonsOf ==
     Menu   :> {toSingle, toMulti, toConfig, toExit}
  @@ single :> {toNew, fromSingle}
  @@ new    :> {start, fromNew}
  @@ multi  :> {toSearch, toLogin, okMulti, fromMulti}
  @@ search :> {fromSearch}
  @@ login  :> {}
  @@ config :> {okConfig, fromConfig}

Buttons == UNION Range(ButtonsOf)

Parents == [b \in Buttons |-> CHOOSE d \in DOMAIN ButtonsOf : b \in ButtonsOf[d]]

Opens ==
     toSingle :> single @@ toMulti :> multi @@ toConfig :> config @@ toNew :> new
  @@ toSearch :> search @@ toLogin :> login @@ toExit :> Exit @@ start :> NewGame

Commands == [b \in Buttons |-> IF b \in DOMAIN Opens THEN Opens[b] ELSE Back]

\* The dialogs have one size and place, and their buttons overlap: the items of the
\* menu with the columns at the left of the dialogs, and the buttons at the bottom.
ButtonsAt ==
     row1  :> {toSingle, toNew}
  @@ row2  :> {toMulti}
  @@ row3  :> {toConfig, fromSingle, toSearch}
  @@ row4  :> {toLogin}
  @@ row5  :> {toExit}
  @@ bottomLeft  :> {okConfig, okMulti, start}
  @@ bottomRight :> {fromConfig, fromMulti, fromNew}
  @@ bottomMiddle :> {fromSearch}
  @@ [p \in {corner, slider} |-> {}]
=============================================================================
