--------------------------- MODULE SettingsProofs ---------------------------
(***************************************************************************)
(* Proofs about Settings and its history in MCSettings, for every shipped   *)
(* and old file, all modes, names and positions of the sliders, and any     *)
(* number of changes and processes.                                         *)
(*                                                                         *)
(* The values of the options stand in four places: the document, the        *)
(* caches, the widgets, and what show() noted of them.  The invariant says  *)
(* which of them agree when: the caches always with the document, the video *)
(* system always with the option, show()'s notes only as long as the dialog *)
(* is there (SettingsInv).                                                  *)
(***************************************************************************)
EXTENDS MCSettings, TLAPS

-----------------------------------------------------------------------------
(* The inductive invariant *)

\* The type invariant does not say that these are functions.
Functions ==
  /\ file = NoFile \/ file = [o \in Option |-> file[o]]
  /\ doc = [o \in Option |-> doc[o]]
  /\ cache = [k \in Keys |-> cache[k]]
  /\ shown = [o \in Option |-> shown[o]]

Types == TypeOK /\ Functions

\* What the audio system does is what the dialog shows.
AudioInv ==
  alive => /\ (shown["sound"] # 0) = active
           /\ \A v \in Volumes : shown[v] \in {volume[v], Displayed(v, volume[v])}

\* The video system has the mode that is set, and as long as the dialog is there,
\* show()'s notes are the mode and the box that are set.
ModeInv ==
  alive => /\ video = Value(doc, cache, "mode")
           /\ dialog # "closed" => /\ old.mode = Value(doc, cache, "mode")
                                   /\ old.fullscreen = Value(doc, cache, "fullscreen")

SettingsInv == Types /\ AudioInv /\ CachesFollowDocument /\ SilentWhenOff /\ ModeInv

\* While the dialog is there, nothing has been set since it was opened but the box
\* for the frame rate.
OpenedInv ==
  alive /\ dialog # "closed" =>
    /\ \A o \in Option \ {"showfps"} : opened[o] = Value(doc, cache, o)
    /\ opened["showfps"] = old.showfps
    /\ opened = [o \in Option |-> opened[o]]
-----------------------------------------------------------------------------
(* Options, their types and their values *)

LEMMA OptionNames ==
  /\ Option = {"soundvol", "musicvol", "gamma", "playername", "renderer", "showfps", "sound",
               "scroll_speed", "fullscreen", "mode"}
  /\ Volumes = {"soundvol", "musicvol"}
  /\ Percentages = {"soundvol", "musicvol", "gamma"}
BY Zenon DEF Option, Percentages, Volumes

LEMMA KeyOfOption ==
  /\ \A o \in Option : <<TypeOf(o), o>> \in Keys
                       /\ <<TypeOf(o), o>> # <<"float", "scroll_speed">>
  /\ \A k \in Keys : k # <<"float", "scroll_speed">> =>
                       k[2] \in Option /\ k = <<TypeOf(k[2]), k[2]>>
  /\ \A k \in Keys : k[2] \in Option
<1>1. TypeOf("scroll_speed") = "int" /\ "scroll_speed" \in Option
  BY OptionNames DEF TypeOf
<1>2. \A o \in Option : <<TypeOf(o), o>> # <<"float", "scroll_speed">>
  BY <1>1
<1>3. QED
  BY <1>1, <1>2 DEF Keys

LEMMA SettableValues ==
  ASSUME NEW o \in Option
  PROVE  /\ \A v \in Settable(o) : v # Missing /\ v # NoRoot
         /\ Default(o) \in Settable(o)
<1>1. \A v \in Settable(o) : v # Missing /\ v # NoRoot
  BY FilesAssumption
<1>2. Default(o) \in Settable(o)
  <2>1. CASE o \in {"playername", "renderer"}
    <3>1. Default(o) = "" /\ Settable(o) = Words
      BY <2>1, OptionNames DEF Default, Settable
    <3>2. QED
      BY <3>1, SettingsConstants
  <2>3. CASE o = "mode"
    <3>1. Default(o) = NoMode /\ Settable(o) = Words
      BY <2>3, OptionNames DEF Default, Settable
    <3>2. QED
      BY <3>1, SettingsConstants
  <2>4. CASE o \in Percentages
    <3>1. Default(o) = 0 /\ Settable(o) = 0 .. 100
      BY <2>4, OptionNames DEF Default, Settable
    <3>2. QED
      BY <3>1
  <2>5. CASE o \in {"fullscreen", "showfps", "sound"}
    <3>1. Default(o) = 0 /\ Settable(o) = {0, 1}
      BY <2>5, OptionNames DEF Default, Settable
    <3>2. QED
      BY <3>1
  <2>6. CASE o = "scroll_speed"
    <3>1. Default(o) = 0 /\ Settable(o) = Nat
      BY <2>6, OptionNames DEF Default, Settable
    <3>2. QED
      BY <3>1
  <2>7. QED
    BY <2>1, <2>3, <2>4, <2>5, <2>6, OptionNames
<1>3. QED
  BY <1>1, <1>2

\* A widget shows a value of the option's type.
LEMMA DisplayedType ==
  ASSUME NEW o \in Option, NEW v \in Settable(o)
  PROVE  /\ Displayed(o, v) \in Settable(o)
         /\ o \notin Percentages \cup {"scroll_speed", "renderer"} => Displayed(o, v) = v
         /\ o = "scroll_speed" => Displayed(o, v) \in MinScroll .. MaxScroll
<1>1. CASE o \in Percentages
  <2>1. v \in 0 .. 100
    BY <1>1, OptionNames DEF Settable
  <2>2. InHundredths(v) \in Int
    BY <2>1 DEF InHundredths
  <2>3. Displayed(o, v) = OnSlider(InHundredths(v), 0, 100)
    BY <1>1, OptionNames DEF Displayed
  <2>4. OnSlider(InHundredths(v), 0, 100) \in 0 .. 100
    BY <2>2 DEF OnSlider
  <2>5. Settable(o) = 0 .. 100
    BY <1>1, OptionNames DEF Settable
  <2>6. o # "scroll_speed"
    BY <1>1, OptionNames
  <2>7. QED
    BY <1>1, <2>3, <2>4, <2>5, <2>6
<1>2. CASE o = "scroll_speed"
  <2>1. Settable(o) = Nat /\ Displayed(o, v) = OnSlider(v, MinScroll, MaxScroll)
    BY <1>2, OptionNames DEF Settable, Displayed
  <2>2. OnSlider(v, MinScroll, MaxScroll) \in MinScroll .. MaxScroll
    BY <2>1 DEF OnSlider, MinScroll, MaxScroll
  <2>3. QED
    BY <1>2, <2>1, <2>2 DEF MinScroll, MaxScroll
<1>3. CASE o = "renderer"
  BY <1>3, OptionNames, SettingsConstants DEF Settable, Displayed, Renderers
<1>4. CASE o \notin Percentages \cup {"scroll_speed", "renderer"}
  BY <1>4, OptionNames DEF Displayed
<1>5. QED
  BY <1>1, <1>2, <1>3, <1>4

LEMMA ValueType ==
  ASSUME NEW d, NEW c, IsDocument(d), \A k \in Keys : c[k] \in Settable(k[2]) \cup {Missing},
         NEW o \in Option
  PROVE  Value(d, c, o) \in Settable(o)
<1> DEFINE k == <<TypeOf(o), o>>
<1>1. k \in Keys /\ k[2] = o /\ c[k] \in Settable(o) \cup {Missing}
  BY KeyOfOption
<1>2. Value(d, c, o) = Get(d, c, k)
  BY DEF Value
<1>3. d[o] \in Settable(o) \cup {Missing, NoRoot}
  BY DEF IsDocument
<1> HIDE DEF k
<1>4. QED
  BY <1>1, <1>2, <1>3, SettableValues DEF Get, HasElement

\* What a set makes of the values: it sets those that it names.
LEMMA SetValues ==
  ASSUME NEW d, NEW c, NEW new, NEW names \in SUBSET Option,
         \A o \in names : new[o] \in Settable(o), NEW o \in Option
  PROVE  Value(Texts(d, new, names), Cached(c, new, names), o)
           = IF o \in names THEN new[o] ELSE Value(d, c, o)
<1> DEFINE k == <<TypeOf(o), o>>
           e == Texts(d, new, names)
           b == Cached(c, new, names)
<1>1. k \in Keys /\ k[2] = o /\ \A p \in names : k = <<TypeOf(p), p>> <=> p = o
  BY KeyOfOption
<1>2. Value(e, b, o) = Get(e, b, k) /\ Value(d, c, o) = Get(d, c, k)
  BY DEF Value
<1>3. b[k] = IF o \in names THEN new[o] ELSE c[k]
  BY <1>1 DEF Cached
<1>4. e[o] = IF o \in names /\ HasElement(d, o) THEN new[o] ELSE d[o]
  BY DEF Texts
<1>5. o \in names => new[o] # Missing
  BY SettableValues
<1> HIDE DEF k, e, b
<1>6. Get(e, b, k) = IF o \in names THEN new[o] ELSE Get(d, c, k)
  BY <1>1, <1>3, <1>4, <1>5 DEF Get, HasElement
<1>7. QED
  BY <1>2, <1>6 DEF e, b

\* A set leaves a document and caches, and they still agree.
LEMMA SetKeepsTypes ==
  ASSUME NEW d, NEW c, NEW new, NEW names \in SUBSET Option, IsDocument(d),
         \A k \in Keys : c[k] \in Settable(k[2]) \cup {Missing},
         \A o \in names : new[o] \in Settable(o)
  PROVE  LET e == Texts(d, new, names)
             b == Cached(c, new, names)
         IN /\ IsDocument(e) /\ e = [o \in Option |-> e[o]]
            /\ \A k \in Keys : b[k] \in Settable(k[2]) \cup {Missing}
            /\ b = [k \in Keys |-> b[k]]
<1>1. IsDocument(Texts(d, new, names))
  BY DEF IsDocument, Texts
<1>2. ASSUME NEW k \in Keys
      PROVE  Cached(c, new, names)[k] \in Settable(k[2]) \cup {Missing}
  <2>1. CASE \E o \in names : k = <<TypeOf(o), o>>
    BY <2>1 DEF Cached
  <2>2. CASE ~ \E o \in names : k = <<TypeOf(o), o>>
    BY <2>2 DEF Cached
  <2>3. QED
    BY <2>1, <2>2
<1>3. QED
  BY <1>1, <1>2 DEF Texts, Cached

\* The caches agree with a document.
Agree(d, c) ==
  \A k \in Keys \ {<<"float", "scroll_speed">>} : HasElement(d, k[2]) => c[k] = d[k[2]]

LEMMA SetKeepsAgreement ==
  ASSUME NEW d, NEW c, NEW new, NEW names \in SUBSET Option, Agree(d, c),
         \A o \in names : new[o] \in Settable(o)
  PROVE  Agree(Texts(d, new, names), Cached(c, new, names))
<1> DEFINE e == Texts(d, new, names)
           b == Cached(c, new, names)
<1> SUFFICES ASSUME NEW k \in Keys \ {<<"float", "scroll_speed">>}, HasElement(e, k[2])
             PROVE  b[k] = e[k[2]]
  BY DEF Agree
<1>1. k[2] \in Option /\ k = <<TypeOf(k[2]), k[2]>>
  BY KeyOfOption
<1>2. e[k[2]] = IF k[2] \in names /\ HasElement(d, k[2]) THEN new[k[2]] ELSE d[k[2]]
  BY <1>1 DEF Texts
<1>3. b[k] = IF k[2] \in names THEN new[k[2]] ELSE c[k]
  BY <1>1 DEF Cached
<1> HIDE DEF e, b
<1>4. HasElement(d, k[2])
  BY <1>2 DEF HasElement
<1>5. QED
  BY <1>2, <1>3, <1>4 DEF Agree

\* Where they agree, the value of an option is its text.
LEMMA ValueIsText ==
  ASSUME NEW d, NEW c, Agree(d, c), NEW o \in Option, HasElement(d, o)
  PROVE  Value(d, c, o) = d[o]
<1>1. c[<<TypeOf(o), o>>] = d[o]
  BY KeyOfOption DEF Agree
<1>2. QED
  BY <1>1 DEF Value, Get

-----------------------------------------------------------------------------
(* What actions have in common *)

LEMMA TypesUse ==
  ASSUME Types
  PROVE  /\ IsDocument(doc)
         /\ \A k \in Keys : cache[k] \in Settable(k[2]) \cup {Missing}
         /\ \A o \in Option : shown[o] \in Settable(o)
         /\ \A o \in Option : Value(doc, cache, o) \in Settable(o)
<1>1. /\ IsDocument(doc)
      /\ \A k \in Keys : cache[k] \in Settable(k[2]) \cup {Missing}
      /\ \A o \in Option : shown[o] \in Settable(o)
  BY DEF Types, TypeOK
<1>2. \A o \in Option : Value(doc, cache, o) \in Settable(o)
  BY <1>1, ValueType
<1>3. QED
  BY <1>1, <1>2

\* An action that sets options.
LEMMA SetOptions ==
  ASSUME Types, alive, CachesFollowDocument,
         NEW new, NEW names \in SUBSET Option, \A o \in names : new[o] \in Settable(o),
         doc' = Texts(doc, new, names), cache' = Cached(cache, new, names)
  PROVE  /\ IsDocument(doc') /\ doc' = [o \in Option |-> doc'[o]]
         /\ \A k \in Keys : cache'[k] \in Settable(k[2]) \cup {Missing}
         /\ cache' = [k \in Keys |-> cache'[k]]
         /\ CachesFollowDocument'
         /\ \A o \in Option : Value(doc', cache', o)
                                = IF o \in names THEN new[o] ELSE Value(doc, cache, o)
<1>1. /\ IsDocument(doc') /\ doc' = [o \in Option |-> doc'[o]]
      /\ \A k \in Keys : cache'[k] \in Settable(k[2]) \cup {Missing}
      /\ cache' = [k \in Keys |-> cache'[k]]
  BY SetKeepsTypes, TypesUse
<1>2. Agree(doc, cache)
  BY DEF Agree, CachesFollowDocument
<1>3. Agree(doc', cache')
  BY <1>2, SetKeepsAgreement
<1>4. CachesFollowDocument'
  BY <1>3 DEF Agree, CachesFollowDocument
<1>5. \A o \in Option : Value(doc', cache', o)
                          = IF o \in names THEN new[o] ELSE Value(doc, cache, o)
  BY SetValues
<1>6. QED
  BY <1>1, <1>4, <1>5

\* The process ends.
LEMMA EndInv ==
  ASSUME SettingsInv, ProcessEnds,
         file' = NoFile \/ (IsDocument(file') /\ file' = [o \in Option |-> file'[o]])
  PROVE  SettingsInv'
<1> USE DEF ProcessEnds
<1>1. ~alive' /\ music' = "none"
  OBVIOUS
<1>2. AudioInv' /\ CachesFollowDocument' /\ SilentWhenOff' /\ ModeInv'
  BY <1>1 DEF AudioInv, CachesFollowDocument, SilentWhenOff, ModeInv
<1>3. /\ IsDocument(Shipped) /\ Shipped = [o \in Option |-> Shipped[o]]
      /\ \A o \in Option : Shipped[o] \in Settable(o)
  BY FilesAssumption
<1>4. \A k \in Keys : NothingCached[k] \in Settable(k[2]) \cup {Missing}
  BY DEF NothingCached
<1>5. volume' \in [Volumes -> 0 .. 100]
  BY DEF Muted
<1>6. /\ old'.mode \in Words /\ video' \in Words
      /\ {old'.fullscreen, old'.showfps} \subseteq {0, 1}
  <2>1. NoMode \in Words
    BY SettingsConstants
  <2>2. QED
    BY <2>1 DEF NothingOld
<1>7. changes' \in 0 .. MaxChanges /\ starts' \in 0 .. MaxStarts
  BY DEF SettingsInv, Types, TypeOK
<1>8. TypeOK'
  BY <1>1, <1>3, <1>4, <1>5, <1>6, <1>7 DEF TypeOK
<1>9. Functions'
  BY <1>3 DEF Functions, NothingCached
<1>10. QED
  BY <1>2, <1>8, <1>9 DEF SettingsInv, Types

-----------------------------------------------------------------------------
(* Processes *)

\* What an option may be set to, by name.
LEMMA SettableByName ==
  /\ Settable("mode") = Words
  /\ \A o \in {"fullscreen", "showfps", "sound"} : Settable(o) = {0, 1}
  /\ \A o \in Percentages : Settable(o) = 0 .. 100
<1>1. Settable("mode") = Words
  BY OptionNames DEF Settable
<1>2. \A o \in {"fullscreen", "showfps", "sound"} : Settable(o) = {0, 1}
  BY OptionNames DEF Settable
<1>3. \A o \in Percentages : Settable(o) = 0 .. 100
  BY OptionNames DEF Settable
<1>4. QED
  BY <1>1, <1>2, <1>3

LEMMA InitInv ==
  ASSUME Init
  PROVE  SettingsInv
<1> USE DEF Init
<1>1. ~alive /\ music = "none"
  OBVIOUS
<1>2. AudioInv /\ CachesFollowDocument /\ SilentWhenOff /\ ModeInv
  BY <1>1 DEF AudioInv, CachesFollowDocument, SilentWhenOff, ModeInv
<1>3. /\ IsDocument(Shipped) /\ Shipped = [o \in Option |-> Shipped[o]]
      /\ \A o \in Option : Shipped[o] \in Settable(o)
      /\ file = NoFile \/ (IsDocument(file) /\ file = [o \in Option |-> file[o]])
  BY FilesAssumption
<1>4. \A k \in Keys : NothingCached[k] \in Settable(k[2]) \cup {Missing}
  BY DEF NothingCached
<1>5. volume \in [Volumes -> 0 .. 100]
  BY DEF Muted
<1>6. /\ old.mode \in Words /\ video \in Words
      /\ {old.fullscreen, old.showfps} \subseteq {0, 1}
  <2>1. NoMode \in Words
    BY SettingsConstants
  <2>2. QED
    BY <2>1 DEF NothingOld
<1>7. changes \in 0 .. MaxChanges /\ starts \in 0 .. MaxStarts
  <2>1. MaxChanges \in Nat /\ MaxStarts \in Nat
    BY SettingsConstants
  <2>2. changes = 0 /\ starts = 0
    OBVIOUS
  <2> HIDE DEF Init
  <2>3. QED
    BY <2>1, <2>2
<1>8. TypeOK
  BY <1>1, <1>3, <1>4, <1>5, <1>6, <1>7 DEF TypeOK
<1>9. Functions
  BY <1>3 DEF Functions, NothingCached
<1>10. QED
  BY <1>2, <1>8, <1>9 DEF SettingsInv, Types

LEMMA StartInv ==
  ASSUME SettingsInv, Start
  PROVE  SettingsInv'
<1> DEFINE value(o) == Value(doc', cache', o)
<1>1. /\ alive' = TRUE /\ dialog' = "closed" /\ music' = "none" /\ file' = file
      /\ cache' = Remembered(doc', NothingCached, ReadAtStart)
      /\ shown' = [o \in Option |-> IF o = "showfps" THEN 1 ELSE Displayed(o, value(o))]
      /\ old' = [mode |-> value("mode"), fullscreen |-> value("fullscreen"),
                 showfps |-> value("showfps")]
      /\ video' = value("mode")
      /\ volume' = [v \in Volumes |-> value(v)]
      /\ active' = (value("sound") # 0)
  BY DEF Start
<1>2. IsDocument(doc') /\ doc' = [o \in Option |-> doc'[o]]
  <2>1. doc' = Shipped \/ (doc' = file /\ file # NoFile)
    BY DEF Start
  <2>2. file # NoFile => IsDocument(file) /\ file = [o \in Option |-> file[o]]
    BY DEF SettingsInv, Types, TypeOK, Functions
  <2>3. IsDocument(Shipped) /\ Shipped = [o \in Option |-> Shipped[o]]
    BY FilesAssumption
  <2>4. QED
    BY <2>1, <2>2, <2>3
<1>3. \A k \in Keys : cache'[k] \in Settable(k[2]) \cup {Missing}
  BY <1>1, <1>2, KeyOfOption DEF Remembered, NothingCached, IsDocument, HasElement
<1>4. \A o \in Option : value(o) \in Settable(o)
  BY <1>2, <1>3, ValueType
<1>5. CachesFollowDocument'
  <2> SUFFICES ASSUME NEW k \in Keys \ {<<"float", "scroll_speed">>},
                      HasElement(doc', k[2])
               PROVE  cache'[k] = doc'[k[2]]
    BY DEF CachesFollowDocument
  <2>1. k \in ReadAtStart
    BY KeyOfOption DEF ReadAtStart
  <2>2. NothingCached[k] = Missing
    BY DEF NothingCached
  <2>3. QED
    BY <1>1, <2>1, <2>2 DEF Remembered
<1> HIDE DEF value
<1>6. \A o \in Option : o # "showfps" => shown'[o] = Displayed(o, value(o))
  BY <1>1
<1>7. \A o \in Option : shown'[o] \in Settable(o)
  <2> SUFFICES ASSUME NEW o \in Option
               PROVE  shown'[o] \in Settable(o)
    OBVIOUS
  <2>1. CASE o = "showfps"
    BY <1>1, <2>1, SettableByName
  <2>2. CASE o # "showfps"
    BY <1>4, <1>6, <2>2, DisplayedType
  <2>3. QED
    BY <2>1, <2>2
<1>8. shown'["scroll_speed"] \in MinScroll .. MaxScroll
  BY <1>4, <1>6, DisplayedType, OptionNames
<1>9. AudioInv'
  <2>1. shown'["sound"] = value("sound")
    BY <1>4, <1>6, DisplayedType, OptionNames
  <2>2. \A v \in Volumes : shown'[v] = Displayed(v, volume'[v])
    BY <1>1, <1>6, OptionNames
  <2>3. QED
    BY <1>1, <2>1, <2>2 DEF AudioInv
<1>10. ModeInv'
  BY <1>1 DEF ModeInv, value
<1>11. SilentWhenOff'
  BY <1>1 DEF SilentWhenOff
<1>12. volume' \in [Volumes -> 0 .. 100]
  BY <1>1, <1>4, OptionNames, SettableByName
<1>13. /\ old'.mode \in Words /\ video' \in Words
       /\ {old'.fullscreen, old'.showfps} \subseteq {0, 1}
  BY <1>1, <1>4, OptionNames, SettableByName
<1>14. changes' \in 0 .. MaxChanges /\ starts' \in 0 .. MaxStarts
  <2>1. changes \in 0 .. MaxChanges /\ starts \in 0 .. MaxStarts /\ MaxStarts \in Nat
    BY SettingsConstants DEF SettingsInv, Types, TypeOK
  <2>2. starts < MaxStarts /\ starts' = starts + 1 /\ changes' = changes
    BY DEF Start
  <2>3. QED
    BY <2>1, <2>2
<1>15. file' = NoFile \/ (IsDocument(file') /\ file' = [o \in Option |-> file'[o]])
  BY <1>1 DEF SettingsInv, Types, TypeOK, Functions
<1>16. TypeOK'
  BY <1>1, <1>2, <1>3, <1>7, <1>8, <1>12, <1>13, <1>14, <1>15 DEF TypeOK
<1>17. Functions'
  BY <1>1, <1>2, <1>15 DEF Functions, Remembered
<1>18. QED
  BY <1>5, <1>9, <1>10, <1>11, <1>16, <1>17 DEF SettingsInv, Types

LEMMA StopInv ==
  ASSUME SettingsInv, Stop \/ Dies
  PROVE  SettingsInv'
BY EndInv DEF Stop, Dies, SettingsInv, Types, TypeOK, Functions

\* What is left of a text is one of its type, or nothing.
LEMMA LeftType ==
  ASSUME NEW t \in Tears, NEW o \in Option, NEW text
  PROVE  Left(t, o, text) \in Settable(o) \cup {text, Missing}
<1> DEFINE cuts == {c \in t.cut : c.option = o /\ c.text = text}
<1>1. CASE cuts = {}
  BY <1>1 DEF Left
<1>2. CASE cuts # {}
  <2>1. PICK c \in cuts : c = CHOOSE e \in cuts : TRUE
    BY <1>2
  <2>2. c.left \in Settable(o)
    BY FilesAssumption
  <2>3. Left(t, o, text) \in {text, c.left}
    BY <1>2, <2>1 DEF Left
  <2>4. QED
    BY <2>2, <2>3
<1>3. QED
  BY <1>1, <1>2

\* A save that is broken off leaves some of the texts, or none.
LEMMA TornIsDocument ==
  ASSUME NEW d, IsDocument(d), NEW t \in Torn(d)
  PROVE  IsDocument(t) /\ t = [o \in Option |-> t[o]]
<1>1. CASE t = [o \in Option |-> NoRoot]
  BY <1>1 DEF IsDocument
<1>2. ASSUME NEW tear \in Tears, t = [o \in Option |-> Left(tear, o, d[o])]
      PROVE  IsDocument(t) /\ t = [o \in Option |-> t[o]]
  <2>1. ASSUME NEW o \in Option PROVE Left(tear, o, d[o]) \in Settable(o) \cup {Missing, NoRoot}
    BY <2>1, LeftType DEF IsDocument
  <2>2. QED
    BY <1>2, <2>1 DEF IsDocument
<1>3. QED
  BY <1>1, <1>2 DEF Torn

LEMMA OkIsTornInv ==
  ASSUME SettingsInv, OkIsTorn
  PROVE  SettingsInv'
<1>1. IsDocument(Texts(doc, shown, Saved))
  <2>1. IsDocument(doc) /\ \A o \in Option : shown[o] \in Settable(o)
    BY TypesUse DEF SettingsInv
  <2>2. QED
    BY <2>1 DEF IsDocument, Texts
<1>2. IsDocument(file') /\ file' = [o \in Option |-> file'[o]]
  BY <1>1, TornIsDocument DEF OkIsTorn
<1>3. QED
  BY <1>2, EndInv DEF OkIsTorn

-----------------------------------------------------------------------------
(* The dialog *)

LEMMA OpenInv ==
  ASSUME SettingsInv, Open
  PROVE  SettingsInv'
<1>1. /\ UNCHANGED <<file, alive, doc, cache, shown, video, active, volume, music,
                     changes, starts>>
      /\ alive /\ dialog' = "open"
      /\ old' = [mode |-> video, fullscreen |-> Value(doc, cache, "fullscreen"),
                 showfps |-> Value(doc, cache, "showfps")]
  BY DEF Open, CurrentShowFps
<1>2. Value(doc, cache, "fullscreen") \in {0, 1} /\ Value(doc, cache, "showfps") \in {0, 1}
  BY TypesUse, OptionNames, SettableByName DEF SettingsInv
<1>3. ModeInv'
  BY <1>1 DEF SettingsInv, ModeInv
<1>4. AudioInv' /\ CachesFollowDocument' /\ SilentWhenOff'
  BY <1>1 DEF SettingsInv, AudioInv, CachesFollowDocument, SilentWhenOff
<1>5. /\ old'.mode \in Words
      /\ {old'.fullscreen, old'.showfps} \subseteq {0, 1}
  BY <1>1, <1>2 DEF SettingsInv, Types, TypeOK
<1>6. TypeOK'
  BY <1>1, <1>5 DEF SettingsInv, Types, TypeOK, IsDocument
<1>7. Functions'
  BY <1>1 DEF SettingsInv, Types, Functions
<1>8. QED
  BY <1>3, <1>4, <1>6, <1>7 DEF SettingsInv, Types

LEMMA EscapeInv ==
  ASSUME SettingsInv, Escape
  PROVE  SettingsInv'
<1>1. /\ UNCHANGED <<file, alive, doc, cache, shown, old, video, active, volume, music,
                     changes, starts>>
      /\ dialog = "open" /\ dialog' \in {"closed", "held"}
  BY DEF Escape
<1>2. ModeInv'
  BY <1>1 DEF SettingsInv, ModeInv
<1>3. AudioInv' /\ CachesFollowDocument' /\ SilentWhenOff'
  BY <1>1 DEF SettingsInv, AudioInv, CachesFollowDocument, SilentWhenOff
<1>4. TypeOK'
  BY <1>1 DEF SettingsInv, Types, TypeOK, IsDocument
<1>5. Functions'
  BY <1>1 DEF SettingsInv, Types, Functions
<1>6. QED
  BY <1>2, <1>3, <1>4, <1>5 DEF SettingsInv, Types

\* The user chooses among values of the option's type.
LEMMA ChoicesType ==
  ASSUME Types, NEW o \in Option \ (Volumes \cup {"sound", "showfps"}), NEW v \in Choices(o)
  PROVE  v \in Settable(o) /\ (o = "scroll_speed" => v \in MinScroll .. MaxScroll)
<1>1. o \in {"playername", "renderer", "mode", "fullscreen", "gamma", "scroll_speed"}
  BY OptionNames
<1>2. CASE o \in {"playername", "renderer"}
  <2>1. CASE o = "playername"
    <3>1. Choices(o) = Names /\ Names \subseteq Words
      BY <2>1, SettingsConstants DEF Choices
    <3>2. Settable(o) = Words
      BY <2>1, OptionNames DEF Settable
    <3>3. QED
      BY <2>1, <3>1, <3>2
  <2>2. CASE o = "renderer"
    <3>1. Choices(o) = Renderers /\ Renderers \subseteq Words
      BY <2>2, SettingsConstants DEF Choices
    <3>2. Settable(o) = Words
      BY <2>2, OptionNames DEF Settable
    <3>3. QED
      BY <2>2, <3>1, <3>2
  <2>3. QED
    BY <1>2, <2>1, <2>2
<1>3. CASE o = "mode"
  <2>1. Choices(o) = Modes \cup {video} /\ video \in Words /\ Modes \subseteq Words
    BY <1>3, SettingsConstants DEF Choices, Types, TypeOK
  <2>2. QED
    BY <1>3, <2>1, SettableByName
<1>4. CASE o = "fullscreen"
  BY <1>4, SettableByName DEF Choices
<1>5. CASE o = "gamma"
  <2>1. Choices(o) = Percent /\ Percent \subseteq 0 .. 100
    BY <1>5, SettingsConstants DEF Choices
  <2>2. QED
    BY <1>5, <2>1, SettableByName, OptionNames
<1>6. CASE o = "scroll_speed"
  <2>1. Choices(o) = ScrollSpeeds /\ ScrollSpeeds \subseteq MinScroll .. MaxScroll
    BY <1>6, SettingsConstants DEF Choices
  <2>2. Settable(o) = Nat
    BY <1>6, OptionNames DEF Settable
  <2>3. v \in MinScroll .. MaxScroll
    BY <2>1
  <2>4. QED
    BY <2>2, <2>3 DEF MinScroll, MaxScroll
<1>7. QED
  BY <1>1, <1>2, <1>3, <1>4, <1>5, <1>6

\* What a click or a key leaves of the dialog.
LEMMA AfterUse ==
  ASSUME SettingsInv, Usable, dialog' \in {dialog, AfterClick}
  PROVE  dialog # "closed" /\ dialog' \in {"open", "held", "closed"}
BY DEF Usable, AfterClick, SettingsInv, Types, TypeOK

LEMMA OneChange ==
  ASSUME SettingsInv, Changeable, OnceMore
  PROVE  Usable /\ alive /\ changes' \in 0 .. MaxChanges
<1>1. Usable /\ alive /\ changes < MaxChanges /\ changes' = changes + 1
  BY DEF Changeable, OnceMore, Usable
<1>2. changes \in 0 .. MaxChanges /\ MaxChanges \in Nat
  BY SettingsConstants DEF SettingsInv, Types, TypeOK
<1>3. QED
  BY <1>1, <1>2

LEMMA ChooseInv ==
  ASSUME SettingsInv, NEW o \in Option \ (Volumes \cup {"sound", "showfps"}), Choose(o)
  PROVE  SettingsInv'
<1>1. /\ UNCHANGED <<file, alive, doc, cache, old, video, active, volume, music, starts>>
      /\ dialog' \in {dialog, AfterClick}
  BY DEF Choose
<1>2. PICK v \in Choices(o) : shown' = [shown EXCEPT ![o] = v]
  BY DEF Choose
<1>3. Usable /\ alive /\ changes' \in 0 .. MaxChanges
  BY OneChange DEF Choose
<1>4. dialog # "closed" /\ dialog' \in {"open", "held", "closed"}
  BY <1>1, <1>3, AfterUse
<1>5. shown = [p \in Option |-> shown[p]]
  BY DEF SettingsInv, Types, Functions
<1>6. shown' = [p \in Option |-> IF p = o THEN v ELSE shown[p]]
  BY <1>2, <1>5
<1>7. v \in Settable(o) /\ (o = "scroll_speed" => v \in MinScroll .. MaxScroll)
  BY ChoicesType DEF SettingsInv
<1>8. \A p \in Option : shown'[p] \in Settable(p)
  BY <1>6, <1>7, TypesUse DEF SettingsInv
<1>9. shown'["scroll_speed"] \in MinScroll .. MaxScroll
  BY <1>3, <1>6, <1>7, OptionNames DEF SettingsInv, Types, TypeOK
<1>10. AudioInv'
  BY <1>1, <1>6, OptionNames DEF SettingsInv, AudioInv
<1>11. ModeInv'
  BY <1>1, <1>4 DEF SettingsInv, ModeInv
<1>12. CachesFollowDocument' /\ SilentWhenOff'
  BY <1>1 DEF SettingsInv, CachesFollowDocument, SilentWhenOff
<1>13. TypeOK'
  BY <1>1, <1>3, <1>4, <1>8, <1>9 DEF SettingsInv, Types, TypeOK, IsDocument
<1>14. Functions'
  BY <1>1, <1>6 DEF SettingsInv, Types, Functions
<1>15. QED
  BY <1>10, <1>11, <1>12, <1>13, <1>14 DEF SettingsInv, Types

LEMMA MoveVolumeInv ==
  ASSUME SettingsInv, NEW v \in Volumes, MoveVolume(v)
  PROVE  SettingsInv'
<1>1. /\ UNCHANGED <<file, alive, doc, cache, old, video, active, music, starts>>
      /\ dialog' \in {dialog, AfterClick}
  BY DEF MoveVolume
<1>2. PICK p \in Percent : /\ shown' = [shown EXCEPT ![v] = p]
                           /\ volume' = [volume EXCEPT ![v] = p]
  BY DEF MoveVolume
<1>3. Usable /\ alive /\ changes' \in 0 .. MaxChanges
  BY OneChange DEF MoveVolume
<1>4. dialog # "closed" /\ dialog' \in {"open", "held", "closed"}
  BY <1>1, <1>3, AfterUse
<1>5. shown = [o \in Option |-> shown[o]] /\ volume \in [Volumes -> 0 .. 100]
  BY DEF SettingsInv, Types, Functions, TypeOK
<1>6. shown' = [o \in Option |-> IF o = v THEN p ELSE shown[o]]
  BY <1>2, <1>5
<1>7. volume' = [w \in Volumes |-> IF w = v THEN p ELSE volume[w]]
  BY <1>2, <1>5
<1>8. p \in 0 .. 100 /\ p \in Settable(v)
  BY SettingsConstants, OptionNames, SettableByName
<1>9. \A o \in Option : shown'[o] \in Settable(o)
  BY <1>6, <1>8, TypesUse DEF SettingsInv
<1>10. shown'["scroll_speed"] \in MinScroll .. MaxScroll
  BY <1>3, <1>6, OptionNames DEF SettingsInv, Types, TypeOK
<1>11. volume' \in [Volumes -> 0 .. 100]
  BY <1>5, <1>7, <1>8
<1>12. AudioInv'
  <2>1. shown'["sound"] = shown["sound"]
    BY <1>6, OptionNames
  <2>2. \A w \in Volumes : shown'[w] \in {volume'[w], Displayed(w, volume'[w])}
    BY <1>3, <1>6, <1>7, OptionNames DEF SettingsInv, AudioInv
  <2>3. QED
    BY <1>1, <2>1, <2>2 DEF SettingsInv, AudioInv
<1>13. ModeInv'
  BY <1>1, <1>4 DEF SettingsInv, ModeInv
<1>14. CachesFollowDocument' /\ SilentWhenOff'
  BY <1>1 DEF SettingsInv, CachesFollowDocument, SilentWhenOff
<1>15. TypeOK'
  BY <1>1, <1>3, <1>4, <1>9, <1>10, <1>11 DEF SettingsInv, Types, TypeOK, IsDocument
<1>16. Functions'
  BY <1>1, <1>6 DEF SettingsInv, Types, Functions
<1>17. QED
  BY <1>12, <1>13, <1>14, <1>15, <1>16 DEF SettingsInv, Types

\* Music does not play once the sound is off.
LEMMA MusicWhenOff ==
  ASSUME SettingsInv, NEW on \in BOOLEAN
  PROVE  /\ MusicWhen(on) \in {"none", "playing", "paused"}
         /\ MusicWhen(on) = "playing" => on
<1>1. music \in {"none", "playing", "paused"}
  BY DEF SettingsInv, Types, TypeOK
<1>2. QED
  BY <1>1 DEF MusicWhen

LEMMA ToggleSoundInv ==
  ASSUME SettingsInv, ToggleSound
  PROVE  SettingsInv'
<1>1. /\ UNCHANGED <<file, alive, doc, cache, old, video, volume, starts>>
      /\ dialog' \in {dialog, AfterClick}
      /\ shown' = [shown EXCEPT !["sound"] = 1 - @]
      /\ active' = (shown'["sound"] = 1) /\ music' = MusicWhen(active')
  BY DEF ToggleSound
<1>2. Usable /\ alive /\ changes' \in 0 .. MaxChanges
  BY OneChange DEF ToggleSound
<1>3. dialog # "closed" /\ dialog' \in {"open", "held", "closed"}
  BY <1>1, <1>2, AfterUse
<1>4. shown = [o \in Option |-> shown[o]]
  BY DEF SettingsInv, Types, Functions
<1>5. shown["sound"] \in {0, 1}
  BY TypesUse, OptionNames, SettableByName DEF SettingsInv
<1>6. shown' = [o \in Option |-> IF o = "sound" THEN 1 - shown["sound"] ELSE shown[o]]
  BY <1>1, <1>4, OptionNames
<1>7. 1 - shown["sound"] \in {0, 1}
  BY <1>5
<1>8. \A o \in Option : shown'[o] \in Settable(o)
  BY <1>6, <1>7, TypesUse, SettableByName DEF SettingsInv
<1>9. shown'["scroll_speed"] \in MinScroll .. MaxScroll
  BY <1>2, <1>6, OptionNames DEF SettingsInv, Types, TypeOK
<1>10. active' \in BOOLEAN /\ music' \in {"none", "playing", "paused"} /\ SilentWhenOff'
  BY <1>1, MusicWhenOff DEF SilentWhenOff
<1>11. AudioInv'
  <2>1. shown'["sound"] \in {0, 1}
    BY <1>6, <1>7, OptionNames
  <2>2. (shown'["sound"] # 0) = active'
    BY <1>1, <2>1
  <2>3. \A v \in Volumes : shown'[v] = shown[v]
    BY <1>6, OptionNames
  <2>4. QED
    BY <1>1, <1>2, <2>2, <2>3 DEF SettingsInv, AudioInv
<1>12. ModeInv'
  BY <1>1, <1>3 DEF SettingsInv, ModeInv
<1>13. CachesFollowDocument'
  BY <1>1 DEF SettingsInv, CachesFollowDocument
<1>14. TypeOK'
  BY <1>1, <1>2, <1>3, <1>8, <1>9, <1>10 DEF SettingsInv, Types, TypeOK, IsDocument
<1>15. Functions'
  BY <1>1, <1>6 DEF SettingsInv, Types, Functions
<1>16. QED
  BY <1>10, <1>11, <1>12, <1>13, <1>14, <1>15 DEF SettingsInv, Types

\* What the box for the frame rate leaves in the document and the caches.
LEMMA ToggleShowFpsSets ==
  ASSUME SettingsInv, ToggleShowFps
  PROVE  /\ IsDocument(doc') /\ doc' = [o \in Option |-> doc'[o]]
         /\ \A k \in Keys : cache'[k] \in Settable(k[2]) \cup {Missing}
         /\ cache' = [k \in Keys |-> cache'[k]]
         /\ CachesFollowDocument'
         /\ \A o \in Option : o # "showfps" => Value(doc', cache', o) = Value(doc, cache, o)
<1>1. /\ alive
      /\ shown' = [shown EXCEPT !["showfps"] = 1 - @]
      /\ doc' = Texts(doc, shown', {"showfps"}) /\ cache' = Cached(cache, shown', {"showfps"})
  BY DEF ToggleShowFps, Changeable, Usable
<1>2. shown = [o \in Option |-> shown[o]] /\ shown["showfps"] \in {0, 1}
  BY TypesUse, OptionNames, SettableByName DEF SettingsInv, Types, Functions
<1>3. shown'["showfps"] = 1 - shown["showfps"]
  BY <1>1, <1>2, OptionNames
<1>4. shown'["showfps"] \in {0, 1}
  BY <1>2, <1>3
<1>5. PICK new : new = shown'
  OBVIOUS
<1>6. /\ {"showfps"} \in SUBSET Option /\ \A o \in {"showfps"} : new[o] \in Settable(o)
      /\ doc' = Texts(doc, new, {"showfps"}) /\ cache' = Cached(cache, new, {"showfps"})
  BY <1>1, <1>4, <1>5, OptionNames, SettableByName
<1>7. Types /\ alive /\ CachesFollowDocument
  BY <1>1 DEF SettingsInv
<1>8. QED
  BY <1>6, <1>7, SetOptions

LEMMA ToggleShowFpsInv ==
  ASSUME SettingsInv, ToggleShowFps
  PROVE  SettingsInv'
<1>1. /\ UNCHANGED <<file, alive, old, video, active, volume, music, starts>>
      /\ dialog' \in {dialog, AfterClick}
      /\ shown' = [shown EXCEPT !["showfps"] = 1 - @]
  BY DEF ToggleShowFps
<1>2. Usable /\ alive /\ changes' \in 0 .. MaxChanges
  BY OneChange DEF ToggleShowFps
<1>3. dialog # "closed" /\ dialog' \in {"open", "held", "closed"}
  BY <1>1, <1>2, AfterUse
<1>4. shown = [o \in Option |-> shown[o]]
  BY DEF SettingsInv, Types, Functions
<1>5. shown["showfps"] \in {0, 1}
  BY TypesUse, OptionNames, SettableByName DEF SettingsInv
<1>6. shown' = [o \in Option |-> IF o = "showfps" THEN 1 - shown["showfps"] ELSE shown[o]]
  BY <1>1, <1>4, OptionNames
<1>7. 1 - shown["showfps"] \in {0, 1}
  BY <1>5
<1>8. \A o \in Option : shown'[o] \in Settable(o)
  BY <1>6, <1>7, TypesUse, SettableByName DEF SettingsInv
<1>9. shown'["scroll_speed"] \in MinScroll .. MaxScroll
  BY <1>2, <1>6, OptionNames DEF SettingsInv, Types, TypeOK
<1>10. AudioInv'
  BY <1>1, <1>6, OptionNames DEF SettingsInv, AudioInv
<1>11. ModeInv'
  BY <1>1, <1>3, ToggleShowFpsSets, OptionNames DEF SettingsInv, ModeInv
<1>12. TypeOK'
  BY <1>1, <1>2, <1>3, <1>8, <1>9, ToggleShowFpsSets DEF SettingsInv, Types, TypeOK
<1>13. Functions'
  BY <1>1, <1>6, ToggleShowFpsSets DEF SettingsInv, Types, Functions
<1>14. SilentWhenOff'
  BY <1>1 DEF SettingsInv, SilentWhenOff
<1>15. QED
  BY <1>10, <1>11, <1>12, <1>13, <1>14, ToggleShowFpsSets DEF SettingsInv, Types

LEMMA OkInv ==
  ASSUME SettingsInv, Ok
  PROVE  SettingsInv'
<1>1. /\ UNCHANGED <<alive, shown, old, active, volume, music, changes, starts>>
      /\ alive /\ dialog' = "closed" /\ file' = doc'
      /\ doc' = Texts(doc, shown, Saved) /\ cache' = Cached(cache, shown, Saved)
      /\ video' = IF ModeChanged THEN shown["mode"] ELSE video
  BY DEF Ok, Usable
<1>2. /\ Saved \in SUBSET Option
      /\ ModeChanged => "mode" \in Saved
      /\ ~ModeChanged => "mode" \notin Saved
  BY OptionNames DEF Saved
<1>3. \A o \in Option : shown[o] \in Settable(o)
  BY TypesUse DEF SettingsInv
<1>4. /\ IsDocument(doc') /\ doc' = [o \in Option |-> doc'[o]]
      /\ \A k \in Keys : cache'[k] \in Settable(k[2]) \cup {Missing}
      /\ cache' = [k \in Keys |-> cache'[k]]
      /\ CachesFollowDocument'
      /\ \A o \in Option : Value(doc', cache', o)
                             = IF o \in Saved THEN shown[o] ELSE Value(doc, cache, o)
  BY <1>1, <1>2, <1>3, SetOptions DEF SettingsInv
<1>5. ModeInv'
  BY <1>1, <1>2, <1>4, OptionNames DEF SettingsInv, ModeInv
<1>6. video' \in Words
  BY <1>1, <1>3, OptionNames, SettableByName DEF SettingsInv, Types, TypeOK
<1>7. AudioInv' /\ SilentWhenOff'
  BY <1>1 DEF SettingsInv, AudioInv, SilentWhenOff
<1>8. TypeOK'
  BY <1>1, <1>4, <1>6 DEF SettingsInv, Types, TypeOK
<1>9. Functions'
  BY <1>1, <1>4 DEF SettingsInv, Types, Functions
<1>10. QED
  BY <1>4, <1>5, <1>7, <1>8, <1>9 DEF SettingsInv, Types

\* What Cancel leaves in the document, the caches and the widgets.
LEMMA CancelSets ==
  ASSUME SettingsInv, Cancel
  PROVE  /\ IsDocument(doc') /\ doc' = [o \in Option |-> doc'[o]]
         /\ \A k \in Keys : cache'[k] \in Settable(k[2]) \cup {Missing}
         /\ cache' = [k \in Keys |-> cache'[k]]
         /\ CachesFollowDocument'
         /\ \A o \in Option : Value(doc', cache', o)
                                = IF o = "showfps" THEN old.showfps ELSE Value(doc, cache, o)
<1>1. /\ alive
      /\ doc' = Texts(doc, old, {"showfps"}) /\ cache' = Cached(cache, old, {"showfps"})
  BY DEF Cancel, Usable
<1>2. old["showfps"] \in {0, 1}
  BY DEF SettingsInv, Types, TypeOK
<1>3. {"showfps"} \in SUBSET Option /\ \A o \in {"showfps"} : old[o] \in Settable(o)
  BY <1>2, OptionNames, SettableByName
<1>4. Types /\ CachesFollowDocument
  BY DEF SettingsInv
<1>5. QED
  BY <1>1, <1>3, <1>4, SetOptions

LEMMA CancelInv ==
  ASSUME SettingsInv, Cancel
  PROVE  SettingsInv'
<1>1. /\ UNCHANGED <<file, alive, old, video, changes, starts>>
      /\ alive /\ dialog # "closed" /\ dialog' = "closed"
      /\ volume' = [v \in Volumes |-> Value(doc, cache, v)]
      /\ active' = IF shown["sound"] = Value(doc, cache, "sound") THEN active
                   ELSE Value(doc, cache, "sound") # 0
      /\ music' = IF active' = active THEN music ELSE MusicWhen(active')
  BY DEF Cancel, Usable, SetVolumes
<1>2. shown' = [o \in Option |->
                  CASE o \in {"playername", "gamma"} -> shown[o]
                    [] o = "mode" -> old.mode
                    [] OTHER -> Displayed(o, Value(doc', cache', o))]
  BY DEF Cancel
<1>3. \A o \in Option : Value(doc, cache, o) \in Settable(o) /\ shown[o] \in Settable(o)
  BY TypesUse DEF SettingsInv
<1>4. \A o \in Option : Value(doc', cache', o) \in Settable(o)
  BY CancelSets, ValueType
<1>5. \A o \in Option : o \notin {"playername", "gamma", "mode"} =>
        shown'[o] = Displayed(o, Value(doc', cache', o))
  BY <1>2
<1>6. \A o \in Option : shown'[o] \in Settable(o)
  <2> SUFFICES ASSUME NEW o \in Option
               PROVE  shown'[o] \in Settable(o)
    OBVIOUS
  <2>1. CASE o \in {"playername", "gamma"}
    BY <1>2, <1>3, <2>1
  <2>2. CASE o = "mode"
    <3>1. shown'[o] = old.mode
      BY <1>2, <2>2
    <3>2. QED
      BY <2>2, <3>1, SettableByName DEF SettingsInv, Types, TypeOK
  <2>3. CASE o \notin {"playername", "gamma", "mode"}
    BY <1>4, <1>5, <2>3, DisplayedType
  <2>4. QED
    BY <2>1, <2>2, <2>3
<1>7. shown'["scroll_speed"] \in MinScroll .. MaxScroll
  BY <1>4, <1>5, DisplayedType, OptionNames
<1>8. active' \in BOOLEAN /\ music' \in {"none", "playing", "paused"} /\ SilentWhenOff'
  <2>1. active \in BOOLEAN /\ music \in {"none", "playing", "paused"} /\ SilentWhenOff
    BY DEF SettingsInv, Types, TypeOK
  <2>2. active' \in BOOLEAN
    BY <1>1, <2>1
  <2>3. CASE active' = active
    BY <1>1, <2>1, <2>2, <2>3 DEF SilentWhenOff
  <2>4. CASE active' # active
    BY <1>1, <2>2, <2>4, MusicWhenOff DEF SilentWhenOff
  <2>5. QED
    BY <2>2, <2>3, <2>4
<1>9. \A o \in Volumes \cup {"sound"} :
        o \in Option /\ shown'[o] = Displayed(o, Value(doc, cache, o))
  BY <1>5, CancelSets, OptionNames
<1>10. shown'["sound"] = Value(doc, cache, "sound")
  BY <1>3, <1>9, DisplayedType, OptionNames
<1>11. (shown'["sound"] # 0) = active'
  <2>1. (shown["sound"] # 0) = active
    BY <1>1 DEF SettingsInv, AudioInv
  <2>2. CASE shown["sound"] = Value(doc, cache, "sound")
    BY <1>1, <1>10, <2>1, <2>2
  <2>3. CASE shown["sound"] # Value(doc, cache, "sound")
    BY <1>1, <1>10, <2>3
  <2>4. QED
    BY <2>2, <2>3
<1>12. AudioInv'
  <2>1. \A v \in Volumes : shown'[v] = Displayed(v, volume'[v])
    BY <1>1, <1>9
  <2>2. QED
    BY <1>11, <2>1 DEF AudioInv
<1>13. ModeInv'
  BY <1>1, CancelSets, OptionNames DEF SettingsInv, ModeInv
<1>14. volume' \in [Volumes -> 0 .. 100]
  BY <1>1, <1>3, OptionNames, SettableByName
<1>15. TypeOK'
  BY <1>1, <1>6, <1>7, <1>8, <1>14, CancelSets DEF SettingsInv, Types, TypeOK
<1>16. Functions'
  BY <1>1, <1>2, CancelSets DEF SettingsInv, Types, Functions
<1>17. QED
  BY <1>8, <1>12, <1>13, <1>15, <1>16, CancelSets DEF SettingsInv, Types

-----------------------------------------------------------------------------
(* Frames, and the specification *)

\* An action of the music alone.
LEMMA MusicInv ==
  ASSUME SettingsInv,
         UNCHANGED <<file, alive, doc, cache, shown, old, dialog, video, active, volume,
                     changes, starts>>,
         music' \in {"none", "playing", "paused"}, music' = "playing" => active
  PROVE  SettingsInv'
<1>1. AudioInv' /\ CachesFollowDocument' /\ SilentWhenOff' /\ ModeInv'
  BY DEF SettingsInv, AudioInv, CachesFollowDocument, SilentWhenOff, ModeInv
<1>2. TypeOK'
  BY DEF SettingsInv, Types, TypeOK, IsDocument
<1>3. Functions'
  BY DEF SettingsInv, Types, Functions
<1>4. QED
  BY <1>1, <1>2, <1>3 DEF SettingsInv, Types

LEMMA UpdateInv ==
  ASSUME SettingsInv, NEW s \in Songs, Update(s)
  PROVE  SettingsInv'
BY MusicInv DEF Update, Plays

LEMMA SongEndsInv ==
  ASSUME SettingsInv, SongEnds
  PROVE  SettingsInv'
BY MusicInv DEF SongEnds

\* The game's reading of the scroll speed is no value of an option.
LEMMA ReadScrollSpeedValues ==
  ASSUME ReadScrollSpeed, NEW o \in Option
  PROVE  Value(doc', cache', o) = Value(doc, cache, o)
<1>1. <<TypeOf(o), o>> \in Keys /\ <<TypeOf(o), o>> # <<"float", "scroll_speed">>
  BY KeyOfOption
<1>2. cache'[<<TypeOf(o), o>>] = cache[<<TypeOf(o), o>>] /\ doc' = doc
  BY <1>1 DEF ReadScrollSpeed, Remembered
<1>3. QED
  BY <1>2 DEF Value, Get

LEMMA ReadScrollSpeedInv ==
  ASSUME SettingsInv, ReadScrollSpeed
  PROVE  SettingsInv'
<1>1. /\ UNCHANGED <<file, alive, doc, shown, old, dialog, video, active, volume, music,
                     changes, starts>>
      /\ alive /\ dialog = "closed"
      /\ cache' = Remembered(doc, cache, {<<"float", "scroll_speed">>})
  BY DEF ReadScrollSpeed
<1>2. \A k \in Keys : cache'[k] \in Settable(k[2]) \cup {Missing}
  <2>1. /\ \A k \in Keys : cache[k] \in Settable(k[2]) \cup {Missing}
        /\ IsDocument(doc)
    BY TypesUse DEF SettingsInv
  <2>2. QED
    BY <1>1, <2>1, KeyOfOption DEF Remembered, IsDocument, HasElement
<1>3. CachesFollowDocument'
  BY <1>1 DEF SettingsInv, CachesFollowDocument, Remembered
<1>4. AudioInv' /\ SilentWhenOff'
  BY <1>1 DEF SettingsInv, AudioInv, SilentWhenOff
<1>5. ModeInv'
  BY <1>1, ReadScrollSpeedValues, OptionNames DEF SettingsInv, ModeInv
<1>6. TypeOK'
  BY <1>1, <1>2 DEF SettingsInv, Types, TypeOK, IsDocument
<1>7. Functions'
  BY <1>1 DEF SettingsInv, Types, Functions, Remembered
<1>8. QED
  BY <1>3, <1>4, <1>5, <1>6, <1>7 DEF SettingsInv, Types

LEMMA StutterInv ==
  ASSUME SettingsInv, UNCHANGED vars
  PROVE  SettingsInv'
<1>1. music \in {"none", "playing", "paused"} /\ (music = "playing" => active)
  BY DEF SettingsInv, Types, TypeOK, SilentWhenOff
<1>2. QED
  BY <1>1, MusicInv DEF vars, process

LEMMA NextInv ==
  ASSUME SettingsInv, [Next]_vars
  PROVE  SettingsInv'
BY StartInv, StopInv, OpenInv, EscapeInv, OkInv, OkIsTornInv, CancelInv, ChooseInv,
   MoveVolumeInv, ToggleSoundInv, ToggleShowFpsInv, UpdateInv, SongEndsInv,
   ReadScrollSpeedInv, StutterInv
DEF Next

LEMMA SettingsInvariant == Spec => []SettingsInv
BY InitInv, NextInv, PTL DEF Spec

\* What the dialog shows of the sound and the volumes is what is heard, and every
\* variable has its type, whatever the user does and however often the game is started
\* (configdialog.cpp:179, :253).
THEOREM TheDialogTellsWhatIsHeard == Spec => []DialogShowsTheAudio
<1>1. SettingsInv => DialogShowsTheAudio
  BY DEF SettingsInv, Types, AudioInv, DialogShowsTheAudio
<1>2. QED
  BY <1>1, SettingsInvariant, PTL

\* Every value in a cache is the text of the document, but for the scroll speed of the
\* game (configuration.cpp, the getters and setters).
THEOREM TheCachesAreTrue == Spec => []CachesFollowDocument
<1>1. SettingsInv => CachesFollowDocument
  BY DEF SettingsInv
<1>2. QED
  BY <1>1, SettingsInvariant, PTL

\* No music is played while the audio system is off (audiosystem.cpp, jukebox.cpp).
THEOREM OffIsSilent == Spec => []SilentWhenOff
<1>1. SettingsInv => SilentWhenOff
  BY DEF SettingsInv
<1>2. QED
  BY <1>1, SettingsInvariant, PTL

\* Ok writes every option as the dialog shows it, the mode also if it is not set because
\* it did not change: then it is the one that the document has (configdialog.cpp:155).
THEOREM OkWritesWhatIsShown == Spec => OkIsKept
<1>1. ASSUME SettingsInv, Ok, NEW o \in Option \ {"showfps"}, HasElement(doc, o)
      PROVE  file'[o] = shown[o]
  <2>1. file'[o] = IF o \in Saved THEN shown[o] ELSE doc[o]
    BY <1>1 DEF Ok, Texts
  <2>2. CASE o \in Saved
    BY <2>1, <2>2
  <2>3. CASE o \notin Saved
    <3>1. ~ModeChanged /\ o \in {"mode", "fullscreen"}
      BY <2>3 DEF Saved
    <3>2. shown["mode"] = old.mode /\ shown["fullscreen"] = old.fullscreen
      BY <3>1 DEF ModeChanged
    <3>3. /\ old.mode = Value(doc, cache, "mode")
          /\ old.fullscreen = Value(doc, cache, "fullscreen")
      BY <1>1 DEF Ok, Usable, SettingsInv, ModeInv
    <3>4. shown[o] = Value(doc, cache, o)
      BY <3>1, <3>2, <3>3
    <3>5. Agree(doc, cache)
      BY <1>1 DEF Ok, Usable, SettingsInv, CachesFollowDocument, Agree
    <3>6. Value(doc, cache, o) = doc[o]
      BY <1>1, <3>5, ValueIsText
    <3>7. QED
      BY <2>1, <2>3, <3>4, <3>6
  <2>4. QED
    BY <2>2, <2>3
<1>2. SettingsInv /\ [Next]_vars =>
        [Ok => \A o \in Option \ {"showfps"} : HasElement(doc, o) => file'[o] = shown[o]]_vars
  BY <1>1
<1>3. QED
  BY <1>2, SettingsInvariant, PTL DEF Spec, OkIsKept

-----------------------------------------------------------------------------
(* Cancel, with what the options were when the dialog was opened *)

LEMMA OpenedByOpen ==
  ASSUME SettingsInv, Open, opened' = Values
  PROVE  OpenedInv'
<1>1. /\ doc' = doc /\ cache' = cache
      /\ old' = [mode |-> video, fullscreen |-> Value(doc, cache, "fullscreen"),
                 showfps |-> Value(doc, cache, "showfps")]
  BY DEF Open, CurrentShowFps
<1>2. \A o \in Option : opened'[o] = Value(doc', cache', o)
  BY <1>1 DEF Values
<1>3. opened' = [o \in Option |-> opened'[o]]
  BY DEF Values
<1>4. opened'["showfps"] = old'.showfps
  BY <1>1, <1>2, OptionNames
<1>5. QED
  BY <1>2, <1>3, <1>4 DEF OpenedInv

\* An action that keeps the values but that of the box, show()'s notes, and a dialog
\* that is not there.
LEMMA OpenedKept ==
  ASSUME OpenedInv, opened' = opened, old' = old,
         alive' /\ dialog' # "closed" =>
           /\ alive /\ dialog # "closed"
           /\ \A o \in Option \ {"showfps"} : Value(doc', cache', o) = Value(doc, cache, o)
  PROVE  OpenedInv'
BY DEF OpenedInv

LEMMA OpenedNext ==
  ASSUME SettingsInv, OpenedInv, [Next]_vars, opened' = opened
  PROVE  OpenedInv' \/ Open
<1>1. CASE Start \/ Stop \/ Dies \/ OkIsTorn \/ Ok \/ Cancel
  <2>1. ~alive' \/ dialog' = "closed"
    BY <1>1 DEF Start, Stop, Dies, OkIsTorn, Ok, Cancel, ProcessEnds
  <2>2. QED
    BY <2>1 DEF OpenedInv
<1>2. CASE Escape
  BY <1>2, OpenedKept DEF Escape
<1>3. ASSUME NEW o \in Option \ (Volumes \cup {"sound", "showfps"}), Choose(o)
      PROVE  OpenedInv'
  BY <1>3, OpenedKept DEF Choose, Changeable, Usable
<1>4. ASSUME NEW v \in Volumes, MoveVolume(v)
      PROVE  OpenedInv'
  BY <1>4, OpenedKept DEF MoveVolume, Changeable, Usable
<1>5. CASE ToggleSound
  BY <1>5, OpenedKept DEF ToggleSound, Changeable, Usable
<1>6. CASE ToggleShowFps
  <2>1. old' = old /\ alive /\ dialog # "closed"
    BY <1>6 DEF ToggleShowFps, Changeable, Usable
  <2>2. \A o \in Option \ {"showfps"} : Value(doc', cache', o) = Value(doc, cache, o)
    BY <1>6, ToggleShowFpsSets
  <2>3. QED
    BY <2>1, <2>2, OpenedKept
<1>7. ASSUME NEW s \in Songs, Update(s)
      PROVE  OpenedInv'
  BY <1>7, OpenedKept DEF Update
<1>8. CASE SongEnds
  BY <1>8, OpenedKept DEF SongEnds
<1>9. CASE ReadScrollSpeed
  BY <1>9, OpenedKept DEF ReadScrollSpeed
<1>10. CASE UNCHANGED vars
  BY <1>10, OpenedKept DEF vars, process
<1>11. QED
  BY <1>1, <1>2, <1>3, <1>4, <1>5, <1>6, <1>7, <1>8, <1>9, <1>10 DEF Next

LEMMA CancelRestoresAll ==
  ASSUME SettingsInv, OpenedInv, Cancel
  PROVE  /\ Values' = opened
         /\ active' = (opened["sound"] # 0)
         /\ volume' = [v \in Volumes |-> opened[v]]
         /\ \A o \in Option \ {"playername", "gamma"} : shown'[o] = Displayed(o, opened[o])
<1>1. /\ alive /\ dialog # "closed"
      /\ volume' = [v \in Volumes |-> Value(doc, cache, v)] /\ alive' = alive
      /\ shown' = [o \in Option |->
                     CASE o \in {"playername", "gamma"} -> shown[o]
                       [] o = "mode" -> old.mode
                       [] OTHER -> Displayed(o, Value(doc', cache', o))]
  BY DEF Cancel, Usable, SetVolumes
<1>2. /\ \A o \in Option \ {"showfps"} : opened[o] = Value(doc, cache, o)
      /\ opened["showfps"] = old.showfps
      /\ opened = [o \in Option |-> opened[o]]
  BY <1>1 DEF OpenedInv
<1>3. \A o \in Option : Value(doc', cache', o) = opened[o]
  BY <1>2, CancelSets
<1>4. Values' = opened
  BY <1>2, <1>3 DEF Values
<1>5. volume' = [v \in Volumes |-> opened[v]]
  BY <1>1, <1>2, OptionNames
<1>6. \A o \in Option : opened[o] \in Settable(o)
  BY <1>3, CancelSets, ValueType
<1>7. \A o \in Option \ {"playername", "gamma"} : shown'[o] = Displayed(o, opened[o])
  <2> SUFFICES ASSUME NEW o \in Option \ {"playername", "gamma"}
               PROVE  shown'[o] = Displayed(o, opened[o])
    OBVIOUS
  <2>1. CASE o = "mode"
    <3>1. shown'[o] = old.mode
      BY <1>1, <2>1
    <3>2. old.mode = opened[o]
      BY <1>1, <1>2, <2>1, OptionNames DEF SettingsInv, ModeInv
    <3>3. opened[o] = Displayed(o, opened[o])
      BY <1>6, <2>1, DisplayedType, OptionNames
    <3>4. QED
      BY <3>1, <3>2, <3>3
  <2>2. CASE o # "mode"
    BY <1>1, <1>3, <2>2
  <2>3. QED
    BY <2>1, <2>2
<1>8. active' = (opened["sound"] # 0)
  <2>1. (shown'["sound"] # 0) = active'
    BY <1>1, CancelInv DEF SettingsInv, AudioInv
  <2>2. shown'["sound"] = opened["sound"]
    BY <1>6, <1>7, DisplayedType, OptionNames
  <2>3. QED
    BY <2>1, <2>2
<1>9. QED
  BY <1>4, <1>5, <1>7, <1>8

\* Cancel takes back all that was tried since the dialog was opened, whatever was tried
\* and however often it was left by the escape key before (configdialog.cpp:236).
THEOREM CancelTakesAllBack == MCSpec => CancelRestores
<1>1. MCInit => SettingsInv /\ OpenedInv
  <2>1. Init => ~alive
    BY DEF Init
  <2>2. QED
    BY <2>1, InitInv DEF MCInit, OpenedInv
<1>2. SettingsInv /\ OpenedInv /\ [MCNext]_<<vars, opened>> => SettingsInv' /\ OpenedInv'
  <2> SUFFICES ASSUME SettingsInv, OpenedInv, [MCNext]_<<vars, opened>>
               PROVE  SettingsInv' /\ OpenedInv'
    OBVIOUS
  <2>1. [Next]_vars
    BY DEF MCNext
  <2>2. SettingsInv'
    BY <2>1, NextInv
  <2>3. CASE Open /\ opened' = Values
    BY <2>2, <2>3, OpenedByOpen
  <2>4. CASE opened' = opened /\ ~Open
    BY <2>1, <2>2, <2>4, OpenedNext
  <2>5. CASE UNCHANGED <<vars, opened>>
    BY <2>2, <2>5, OpenedKept DEF vars, process
  <2>6. QED
    BY <2>3, <2>4, <2>5 DEF MCNext
<1>3. SettingsInv /\ OpenedInv /\ [MCNext]_<<vars, opened>> =>
        [Cancel => /\ Values' = opened
                   /\ active' = (opened["sound"] # 0)
                   /\ volume' = [v \in Volumes |-> opened[v]]
                   /\ \A o \in Option \ {"playername", "gamma"} :
                        shown'[o] = Displayed(o, opened[o])]_<<vars, opened>>
  BY CancelRestoresAll
<1>4. QED
  BY <1>1, <1>2, <1>3, PTL DEF MCSpec, CancelRestores
=============================================================================
