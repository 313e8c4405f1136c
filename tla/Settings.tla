------------------------------ MODULE Settings ------------------------------
(***************************************************************************)
(* The settings of the game over its processes: Config (configuration.cpp), *)
(* ConfigDialog (gui/configdialog.cpp), AudioSystem and Jukebox, started    *)
(* and stopped as openanno.cpp does.                                        *)
(*                                                                          *)
(* An option has its text in the document, which load reads and save        *)
(* writes, and a value in one cache for each type that it was read as.      *)
(* The dialog lets some changes be heard or seen at once and keeps the      *)
(* others until Ok.  It leaves the screen by Ok, by Cancel and, without     *)
(* being told, by the escape key.                                           *)
(*                                                                          *)
(* The options resolution_x, resolution_y and depth are one option "mode",  *)
(* which is read and set as a whole but may be cut anywhere (Tears).        *)
(* Volumes and gamma are in hundredths, which is what their text holds.  An *)
(* element without text is read as the default, which it is taken to hold.  *)
(* The video system is taken to set every mode that it is asked for.        *)
(***************************************************************************)
EXTENDS Integers

CONSTANTS
  Shipped,      \* data/xml/config.xml: the values of the options
  OldFiles,     \* files of the user that there may be before the first start
  Modes, Names, \* what the user may choose or type
  Words,        \* what names, renderers and modes may be read as, cut ones too
  Percent,      \* positions of the sliders of volumes and gamma
  Rounded,      \* those p for which int(p / 100.0f * 100.0f) is p - 1
  ScrollSpeeds, \* positions of the slider of the scroll speed
  Songs, Playable,          \* those in the directory of the jukebox, and those that load
  NoMode, NoFile,   \* 0 by 0 pixels; no file
  Missing, NoRoot,  \* in place of a text or a value: none; the document has no root
  Tears,        \* where a save may be broken off: the options that are kept, and those
                \* cut, as [option, text, left]: what is left of a text is read as left
  MaxChanges, MaxStarts     \* bounds: the user's changes, and processes

Volumes == {"soundvol", "musicvol"}
Percentages == Volumes \cup {"gamma"}
Option == Percentages \cup {"playername", "renderer", "showfps", "sound",
                            "scroll_speed", "fullscreen", "mode"}
Renderers == {"sdl", "opengl"}
MinScroll == 1
MaxScroll == 10

ASSUME SettingsConstants ==
  /\ Modes \cup Names \cup Renderers \cup {NoMode, ""} \subseteq Words
  /\ Percent \subseteq 0 .. 100 /\ Rounded \subseteq 1 .. 100
  /\ ScrollSpeeds \subseteq MinScroll .. MaxScroll
  /\ Playable \subseteq Songs /\ Playable # {}
  /\ {MaxChanges, MaxStarts} \subseteq Nat

VARIABLES
  file,     \* the user's config.xml: NoFile, or the options' texts
  alive,    \* whether the process runs
  doc,      \* m_xmlDocument of Config: the options' texts
  cache,    \* m_stringCache, m_intCache and m_floatCache
  shown,    \* what the widgets of the dialog say
  old,      \* m_oldResolution, m_oldFullscreen, m_oldShowFps
  dialog,   \* "open", "closed", or "held": closed by the escape key while a
            \* widget has the mouse or the focus
  video,    \* the mode of the video system
  active,   \* m_isActive of the audio system
  volume,   \* globalSoundVolume and globalMusicVolume
  music,    \* of SDL_mixer: "none", "playing" or "paused"
  changes, starts

process == <<doc, cache, shown, old, dialog, video, active, volume, music>>
vars == <<file, alive, process, changes, starts>>

-----------------------------------------------------------------------------
(* Config *)

\* The type that startup and the dialog read and set an option as.
TypeOf(o) ==
  CASE o \in {"playername", "renderer"} -> "string"
    [] o \in Percentages -> "float"
    [] OTHER -> "int"

\* The game reads scroll_speed as a float.
Keys == {<<TypeOf(o), o>> : o \in Option} \cup {<<"float", "scroll_speed">>}

\* What the getters return without an element.
HasElement(d, o) == d[o] \notin {Missing, NoRoot}
Rootless(d) == \E o \in Option : d[o] = NoRoot

Default(o) ==
  CASE o \in {"playername", "renderer"} -> ""
    [] o = "mode" -> NoMode
    [] OTHER -> 0

\* getString, getFloat, getInt: the value, given the document and the caches.
Get(d, c, k) ==
  IF c[k] # Missing THEN c[k]
  ELSE IF HasElement(d, k[2]) THEN d[k[2]] ELSE Default(k[2])

Value(d, c, o) == Get(d, c, <<TypeOf(o), o>>)

\* What they leave in the cache.
Remembered(d, c, keys) ==
  [k \in Keys |-> IF k \in keys /\ c[k] = Missing /\ HasElement(d, k[2])
                  THEN d[k[2]] ELSE c[k]]

\* setString, setFloat and setInt reach through the root: without one the process dies.
\* Otherwise, for all options in names, the cache of that type gets
\* the value of new, and the document gets it if it has the element.
Texts(d, new, names) ==
  [o \in Option |-> IF o \in names /\ HasElement(d, o) THEN new[o] ELSE d[o]]

\* Mutant: an option that is in the cache already is set in the document only.
CachedOnce(c, new, names) ==
  [k \in Keys |-> IF \E o \in names : k = <<TypeOf(o), o>> /\ c[k] = Missing
                  THEN new[k[2]] ELSE c[k]]

Cached(c, new, names) ==
  [k \in Keys |-> IF \E o \in names : k = <<TypeOf(o), o>> THEN new[k[2]] ELSE c[k]]

-----------------------------------------------------------------------------
(* Widgets of the dialog *)

\* static_cast<int>(value * 100.0f)
InHundredths(p) == IF p \in Rounded THEN p - 1 ELSE p

\* Slider::setPos
OnSlider(p, low, high) == IF p < low THEN low ELSE IF p > high THEN high ELSE p

\* What the widget of option o is set to for value v.
Displayed(o, v) ==
  CASE o \in Percentages -> OnSlider(InHundredths(v), 0, 100)
    [] o = "scroll_speed" -> OnSlider(v, MinScroll, MaxScroll)
    [] o = "renderer" -> IF v = "opengl" THEN "opengl" ELSE "sdl"
    [] OTHER -> v

-----------------------------------------------------------------------------
(* The audio system and the music *)

\* Mutant: music that was paused is not resumed.
MusicStaysPaused(on) ==
  IF ~on /\ music = "playing" THEN "paused" ELSE music

\* activate and deactivate
MusicWhen(on) ==
  CASE on /\ music = "paused" -> "playing"
    [] ~on /\ music = "playing" -> "paused"
    [] OTHER -> music

-----------------------------------------------------------------------------
(* Processes *)

ReadAtStart == {<<TypeOf(o), o>> : o \in Option}

NothingCached == [k \in Keys |-> Missing]
NothingOld == [mode |-> NoMode, fullscreen |-> 0, showfps |-> 0]
Muted == [v \in Volumes |-> 0]

Init ==
  /\ file \in {NoFile} \cup OldFiles
  /\ alive = FALSE /\ doc = Shipped /\ cache = NothingCached
  /\ shown = Shipped /\ old = NothingOld /\ dialog = "closed"
  /\ video = NoMode /\ active = FALSE /\ volume = Muted /\ music = "none"
  /\ changes = 0 /\ starts = 0

\* Everything but the file is forgotten.
ProcessEnds ==
  /\ alive /\ alive' = FALSE
  /\ doc' = Shipped /\ cache' = NothingCached
  /\ shown' = Shipped /\ old' = NothingOld /\ dialog' = "closed"
  /\ video' = NoMode /\ active' = FALSE /\ volume' = Muted /\ music' = "none"
  /\ UNCHANGED <<changes, starts>>

\* OpenAnno's and ConfigDialog's constructors.  A name that was saved empty is an element
\* without text, and so is one whose text was cut off: getString reads through its first
\* child, and no process comes of it.
Start ==
  /\ ~alive /\ starts < MaxStarts
  /\ doc' = IF file = NoFile THEN Shipped ELSE file
  /\ \A o \in {"playername", "renderer"} : doc'[o] # ""
  /\ alive' = TRUE /\ starts' = starts + 1
  /\ cache' = Remembered(doc', NothingCached, ReadAtStart)
  /\ LET value(o) == Value(doc', cache', o) IN
     /\ shown' = [o \in Option |->
                    IF o = "showfps" THEN 1 ELSE Displayed(o, value(o))]
     /\ old' = [mode |-> value("mode"), fullscreen |-> value("fullscreen"),
                showfps |-> value("showfps")]
     /\ video' = value("mode")
     /\ volume' = [v \in Volumes |-> value(v)]
     /\ active' = (value("sound") # 0)
  /\ dialog' = "closed" /\ music' = "none"
  /\ UNCHANGED <<file, changes>>

\* The process ends, between any two steps.
Stop ==
  /\ ProcessEnds /\ UNCHANGED file

-----------------------------------------------------------------------------
(* The dialog *)

\* A widget handles what comes to it, also behind the escape key: a click once, a
\* drag or keys for as long as they last.
Usable == alive /\ dialog # "closed"
AfterClick == IF dialog = "held" THEN "closed" ELSE dialog
Changeable == Usable /\ changes < MaxChanges
OnceMore == changes' = changes + 1

\* Config::set of a document without a root.
Dies ==
  /\ Usable /\ Rootless(doc)
  /\ ProcessEnds /\ UNCHANGED file

\* Mutant: m_oldShowFps stays that of the first time.
FirstShowFps == old.showfps

CurrentShowFps == Value(doc, cache, "showfps")

\* pushDialog, with ConfigDialog::show
Open ==
  /\ alive /\ dialog # "open"
  /\ dialog' = "open"
  /\ old' = [mode |-> video, fullscreen |-> Value(doc, cache, "fullscreen"),
             showfps |-> CurrentShowFps]
  /\ UNCHANGED <<file, alive, doc, cache, shown, video, active, volume, music,
                 changes, starts>>

\* StartScreen::keyPress
Escape ==
  /\ alive /\ dialog = "open"
  /\ dialog' \in {"closed", "held"}
  /\ UNCHANGED <<file, alive, doc, cache, shown, old, video, active, volume, music,
                 changes, starts>>

\* Widgets that nothing listens to.
Choices(o) ==
  CASE o = "playername" -> Names
    [] o = "renderer" -> Renderers
    [] o = "mode" -> Modes \cup {video}
    [] o = "fullscreen" -> {0, 1}
    [] o = "gamma" -> Percent
    [] o = "scroll_speed" -> ScrollSpeeds

Choose(o) ==
  /\ Changeable /\ OnceMore
  /\ \E v \in Choices(o) : v # shown[o] /\ shown' = [shown EXCEPT ![o] = v]
  /\ dialog' \in IF o \in {"renderer", "mode", "fullscreen"} THEN {AfterClick}
                 ELSE {dialog, AfterClick}
  /\ UNCHANGED <<file, alive, doc, cache, old, video, active, volume, music, starts>>

MoveVolume(v) ==
  /\ Changeable /\ OnceMore
  /\ \E p \in Percent :
       /\ p # shown[v]
       /\ shown' = [shown EXCEPT ![v] = p]
       /\ volume' = [volume EXCEPT ![v] = p]
  /\ dialog' \in {dialog, AfterClick}
  /\ UNCHANGED <<file, alive, doc, cache, old, video, active, music, starts>>

ToggleSound ==
  /\ Changeable /\ OnceMore
  /\ shown' = [shown EXCEPT !["sound"] = 1 - @]
  /\ active' = (shown'["sound"] = 1)
  /\ music' = MusicWhen(active')
  /\ dialog' = AfterClick
  /\ UNCHANGED <<file, alive, doc, cache, old, video, volume, starts>>

ToggleShowFps ==
  /\ Changeable /\ OnceMore /\ ~Rootless(doc)
  /\ shown' = [shown EXCEPT !["showfps"] = 1 - @]
  /\ doc' = Texts(doc, shown', {"showfps"})
  /\ cache' = Cached(cache, shown', {"showfps"})
  /\ dialog' = AfterClick
  /\ UNCHANGED <<file, alive, old, video, active, volume, music, starts>>

ModeChanged == shown["mode"] # old.mode \/ shown["fullscreen"] # old.fullscreen

\* Mutant: only another resolution is saved.
SavedIfResized ==
  Option \ (IF shown["mode"] # old.mode THEN {"showfps"}
            ELSE {"showfps", "mode", "fullscreen"})

Saved ==
  Option \ (IF ModeChanged THEN {"showfps"} ELSE {"showfps", "mode", "fullscreen"})

\* What tear t leaves of option o with this text.
Left(t, o, text) ==
  LET cuts == {c \in t.cut : c.option = o /\ c.text = text}
  IN  IF o \in t.kept THEN text
      ELSE IF cuts # {} THEN (CHOOSE c \in cuts : TRUE).left
      ELSE Missing

\* What Config::save leaves of the texts in d if it does not get to the end: tinyxml
\* keeps the elements before some place and, of one that is cut, the text up to there;
\* or there is less than the root's tag.
Torn(d) ==
  {[o \in Option |-> Left(t, o, d[o])] : t \in Tears} \cup {[o \in Option |-> NoRoot]}

Ok ==
  /\ Usable /\ ~Rootless(doc) /\ dialog' = "closed"
  /\ doc' = Texts(doc, shown, Saved)
  /\ cache' = Cached(cache, shown, Saved)
  /\ video' = IF ModeChanged THEN shown["mode"] ELSE video
  /\ file' = doc'
  /\ UNCHANGED <<alive, shown, old, active, volume, music, changes, starts>>

\* The process ends while Ok saves, or after a save that the disk had no room for: nobody
\* looks at what save returns, nor reads the file again in this process.  (If the file
\* cannot be opened the process ends in PHYSFS_write, with the file as it was: Stop.)
OkIsTorn ==
  /\ Usable /\ ~Rootless(doc)
  /\ file' \in Torn(Texts(doc, shown, Saved))
  /\ ProcessEnds

\* Mutant: the audio system keeps the volumes that were tried.
TriedVolumes == volume

SetVolumes == [v \in Volumes |-> Value(doc, cache, v)]

\* Gamma and the name stay as they are in their widgets.
Cancel ==
  /\ Usable /\ ~Rootless(doc) /\ dialog' = "closed"
  /\ doc' = Texts(doc, old, {"showfps"})
  /\ cache' = Cached(cache, old, {"showfps"})
  /\ shown' = [o \in Option |->
       CASE o \in {"playername", "gamma"} -> shown[o]
         [] o = "mode" -> old.mode
         [] OTHER -> Displayed(o, Value(doc', cache', o))]
  /\ volume' = SetVolumes
  /\ active' = IF shown["sound"] = Value(doc, cache, "sound") THEN active
               ELSE Value(doc, cache, "sound") # 0
  /\ music' = IF active' = active THEN music ELSE MusicWhen(active')
  /\ UNCHANGED <<file, alive, old, video, changes, starts>>

-----------------------------------------------------------------------------
(* Frames *)

\* Mutant: the jukebox plays although the audio system is off.
PlaysAlways(s) == s \in Playable

Plays(s) == active /\ s \in Playable

\* OpenAnno::run with Jukebox::update, which picks s; AudioSystem::playMusic says that
\* all is well when it is off.
Update(s) ==
  /\ alive /\ Value(doc, cache, "sound") # 0 /\ music = "none"
  /\ music' = IF Plays(s) THEN "playing" ELSE "none"
  /\ UNCHANGED <<file, alive, doc, cache, shown, old, dialog, video, active, volume,
                 changes, starts>>

SongEnds ==
  /\ alive /\ music = "playing"
  /\ music' = "none"
  /\ UNCHANGED <<file, alive, doc, cache, shown, old, dialog, video, active, volume,
                 changes, starts>>

\* Ingame::update
ReadScrollSpeed ==
  /\ alive /\ dialog = "closed"
  /\ cache' = Remembered(doc, cache, {<<"float", "scroll_speed">>})
  /\ UNCHANGED <<file, alive, doc, shown, old, dialog, video, active, volume, music,
                 changes, starts>>

Next ==
  \/ Start \/ Stop
  \/ Open \/ Escape \/ Ok \/ OkIsTorn \/ Cancel \/ Dies
  \/ \E o \in Option \ (Volumes \cup {"sound", "showfps"}) : Choose(o)
  \/ \E v \in Volumes : MoveVolume(v)
  \/ ToggleSound \/ ToggleShowFps
  \/ \E s \in Songs : Update(s)
  \/ SongEnds \/ ReadScrollSpeed

\* Frames are drawn for as long as the process runs, and rand comes to every song.
Fairness == \A s \in Songs : SF_vars(Update(s))

Spec == Init /\ [][Next]_vars /\ Fairness

-----------------------------------------------------------------------------
(* Properties *)

Settable(o) ==
  CASE o \in {"playername", "renderer", "mode"} -> Words
    [] o \in {"fullscreen", "showfps", "sound"} -> {0, 1}
    [] o \in Percentages -> 0 .. 100
    [] o = "scroll_speed" -> Nat

IsDocument(d) ==
  \A o \in Option : d[o] \in Settable(o) \cup {Missing, NoRoot}

\* No text says that there is none; the shipped file gives every option a value of its
\* type, a user's file gives some of them one; a text that is cut is one of its type.
ASSUME FilesAssumption ==
  /\ \A o \in Option : {Missing, NoRoot} \cap Settable(o) = {}
  /\ \A d \in OldFiles \cup {Shipped} : d = [o \in Option |-> d[o]] /\ IsDocument(d)
  /\ \A o \in Option : Shipped[o] \in Settable(o)
  /\ \A t \in Tears : \A c \in t.cut : c.left \in Settable(c.option)

\* Every variable has its type; sliders are on their scales, whatever the file says.
TypeOK ==
  /\ file = NoFile \/ IsDocument(file)
  /\ alive \in BOOLEAN /\ IsDocument(doc)
  /\ \A k \in Keys : cache[k] \in Settable(k[2]) \cup {Missing}
  /\ \A o \in Option : shown[o] \in Settable(o)
  /\ alive => shown["scroll_speed"] \in MinScroll .. MaxScroll
  /\ old.mode \in Words /\ {old.fullscreen, old.showfps} \subseteq {0, 1}
  /\ dialog \in {"open", "held", "closed"}
  /\ video \in Words
  /\ active \in BOOLEAN /\ volume \in [Volumes -> 0 .. 100]
  /\ music \in {"none", "playing", "paused"}
  /\ changes \in 0 .. MaxChanges /\ starts \in 0 .. MaxStarts

\* What is heard is what the dialog shows, up to the rounding of its sliders: trying,
\* Ok, Cancel, the escape key and another start, in any order, never leave the volumes
\* and the box for the sound, which handlers of their own change, apart from the
\* audio system (configdialog.cpp:179, :253).
DialogShowsTheAudio ==
  /\ TypeOK
  /\ alive =>
       /\ (shown["sound"] # 0) = active
       /\ \A v \in Volumes : shown[v] \in {volume[v], Displayed(v, volume[v])}

\* What the dialog shows when Ok is pressed is what the file says afterwards, for all
\* options that the file has, although the mode is saved only if it differs from what
\* show() took for the present one.  The box for the frame rate is left out: it starts
\* checked whatever the option says (configdialog.cpp:56).
OkIsKept ==
  [][Ok => \A o \in Option \ {"showfps"} :
             HasElement(doc, o) => file'[o] = shown[o]]_vars

\* Every value in a cache is the text of the document, through all sets and reads:
\* what an option is set to is what the next process reads.  But for the scroll
\* speed, which is set as an int and read by the game as a float (ingame.cpp:86).
CachesFollowDocument ==
  alive => \A k \in Keys \ {<<"float", "scroll_speed">>} :
             HasElement(doc, k[2]) => cache[k] = doc[k[2]]

\* No music is played while the audio system is off: not by the jukebox, nor after the
\* dialog is left by any way.
SilentWhenOff == music = "playing" => active

\* With the sound on, as an option and in the audio system, music plays sooner or
\* later, whatever songs fail to load and whether it was paused before.  On is what the
\* code takes for it, any number but 0 (openanno.cpp:223, :264; configdialog.cpp:73).
\* The shipped file says the reverse of its <sound>1</sound>, "set this to 1 to
\* deactivate the sound" (data/xml/config.xml:13), and is wrong.
MusicPlays ==
  (alive /\ active /\ Value(doc, cache, "sound") # 0)
    ~> (music = "playing" \/ ~alive \/ ~active \/ Value(doc, cache, "sound") = 0)
=============================================================================
