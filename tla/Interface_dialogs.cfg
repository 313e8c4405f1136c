\* The ways to a game, a network game and the configuration; two addresses for games.
CONSTANTS
  g1 = g1  g2 = g2
  single = single  new = new  multi = multi  search = search  login = login  config = config
  toSingle = toSingle  toMulti = toMulti  toConfig = toConfig  toExit = toExit
  toNew = toNew  fromSingle = fromSingle  start = start  fromNew = fromNew
  toSearch = toSearch  toLogin = toLogin  okMulti = okMulti  fromMulti = fromMulti
  fromSearch = fromSearch  okConfig = okConfig  fromConfig = fromConfig
  corner = corner  row1 = row1  row2 = row2  row3 = row3  row4 = row4  row5 = row5
  bottomLeft = bottomLeft  bottomMiddle = bottomMiddle  bottomRight = bottomRight  slider = slider
  StartScreen = StartScreen  Menu = Menu  NULL = NULL  Other = Other
  Back = Back  NewGame = NewGame  Exit = Exit
  Game = {g1, g2}
  Dialog = {Menu, single, new, multi, search, login, config}
  Button <- Buttons
  Parent <- Parents
  Command <- Commands
  Place = {corner, row1, row2, row3, row4, row5, bottomLeft, bottomMiddle, bottomRight, slider}
  At <- ButtonsAt
  SliderAt = {slider}
  Corner = corner
  MaxListeners = 4
SPECIFICATION Spec
CHECK_DEADLOCK FALSE
INVARIANTS
  NothingCrashes
  GameStatesAreSound
  TopDialogIsShown
  HoveredButtonIsShown
PROPERTY
  EscapeClosesOneThing
