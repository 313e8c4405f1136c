\* Three processes, in which the user changes two things.
CONSTANTS
  Shipped <- ShippedFile
  OldFiles <- UsersFiles
  Modes = {"640x480x32", "800x600x32"}
  Names = {"Newbie", ""}
  Words <- AllWords
  Percent = {53, 100}
  Rounded = {53, 59}
  ScrollSpeeds = {1}
  Songs = {"music", "broken"}
  Playable = {"music"}
  NoMode = "0x0x0"
  NoFile = NoFile
  Missing = Missing
  NoRoot = NoRoot
  Tears <- Places
  MaxChanges = 2
  MaxStarts = 3
SPECIFICATION MCSpec
INVARIANTS
  DialogShowsTheAudio
  CachesFollowDocument
  SilentWhenOff
PROPERTIES
  CancelRestores
  OkIsKept
  MusicPlays
\* After the last process nothing happens.
CHECK_DEADLOCK FALSE
