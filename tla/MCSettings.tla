----------------------------- MODULE MCSettings -----------------------------
(***************************************************************************)
(* Two modes, two volumes of which one is rounded, a user's file from       *)
(* before there was an option for gamma, and saves that are cut in four     *)
(* places.  A history variable holds the options as they were when the      *)
(* dialog was opened.                                                       *)
(***************************************************************************)
EXTENDS Settings

VARIABLE opened

ShippedFile ==
  [o \in Option |->
     CASE o = "playername" -> "Newbie" [] o = "fullscreen" -> 0 [] o = "sound" -> 1
       [] o \in {"musicvol", "soundvol"} -> 0 [] o = "showfps" -> 1
       [] o = "mode" -> "640x480x32" [] o = "scroll_speed" -> 15
       [] o = "renderer" -> "opengl" [] o = "gamma" -> 50]

UsersFile ==
  [ShippedFile EXCEPT !["gamma"] = Missing, !["sound"] = 0, !["musicvol"] = 53,
                      !["showfps"] = 0]
UsersFiles == {UsersFile}

\* The file has the resolution first, then the name, fullscreen, sound, musicvol,
\* soundvol, showfps, depth, scroll_speed, renderer and gamma.
Cut(option, text, left) == [option |-> option, text |-> text, left |-> left]
Shallow == {Cut("mode", "640x480x32", "640x480x0"), Cut("mode", "800x600x32", "800x600x0")}
BeforeDepth == {"playername", "fullscreen", "sound", "musicvol", "soundvol", "showfps"}

\* In the width, in the name, in the volume of the music, and in the renderer.
Places ==
  { [kept |-> {}, cut |-> {Cut("mode", "640x480x32", "64x0x0"), Cut("mode", "800x600x32", "80x0x0")}],
    [kept |-> {}, cut |-> Shallow \cup {Cut("playername", "Newbie", "New")}],
    [kept |-> {"playername", "fullscreen", "sound"},
     cut |-> Shallow \cup {Cut("musicvol", 0, 0), Cut("musicvol", 53, 50),
                           Cut("musicvol", 100, 100)}],
    [kept |-> BeforeDepth \cup {"mode", "scroll_speed"},
     cut |-> {Cut("renderer", "opengl", "ope"), Cut("renderer", "sdl", "sdl")}] }

AllWords ==
  Modes \cup Names \cup Renderers \cup {NoMode, ""}
  \cup {c.left : c \in UNION {{e \in t.cut : e.option \in {"mode", "playername", "renderer"}}
                             : t \in Places}}

Values == [o \in Option |-> Value(doc, cache, o)]

MCInit == Init /\ opened = Values
MCNext == Next /\ opened' = IF Open THEN Values ELSE opened
MCSpec == MCInit /\ [][MCNext]_<<vars, opened>> /\ Fairness

\* Cancel takes back all that was tried since the dialog was opened, also if it was
\* left by the escape key and opened again before: the options are what they were, the
\* audio system is set to them, and so are the widgets but those for the name and gamma
\* (configdialog.cpp:236).
CancelRestores ==
  [][Cancel =>
       /\ Values' = opened
       /\ active' = (opened["sound"] # 0)
       /\ volume' = [v \in Volumes |-> opened[v]]
       /\ \A o \in Option \ {"playername", "gamma"} :
            shown'[o] = Displayed(o, opened[o])]_<<vars, opened>>
=============================================================================
