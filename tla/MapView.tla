------------------------------- MODULE MapView -------------------------------
(***************************************************************************)
(* The map on the screen while a game runs: Map (map.cpp), MiniMap and      *)
(* Ingame::update.  A view is a direction, a zoom and the offset of the     *)
(* screen's upper left corner from that of tile (0, 0), in pixels.          *)
(*                                                                          *)
(* The map covers the screen and gets the clicks and moves over the mini    *)
(* map and the two buttons too.  Nothing captures the mouse here, so the    *)
(* hovered widget is the one at the mouse.                                  *)
(*                                                                          *)
(* The zoom is zoom / ZoomSteps.  Float arithmetic is exact where it is     *)
(* used: tile sizes are multiples of ZoomSteps, and the code truncates.     *)
(***************************************************************************)
EXTENDS Integers

CONSTANTS
  m_cols, m_rows,       \* the size of the map, in tiles
  m_width, m_height,    \* the size of the screen, in pixels
  tileWidth, halfTileHeight,  \* of a tile that is not zoomed
  ZoomSteps,            \* 1 / zoomStep = maxZoom / minZoom
  StartOffset,          \* the start position of the mission: [x, y]
  Point,                \* points of the screen: [x, y]
  MiniMapX, MiniMapY, MiniMapSize,  \* the square of the mini map
  RotateLeftAt, RotateRightAt,      \* the points over the two buttons
  Tolerance,            \* tol: how near an edge the mouse scrolls, in pixels
  ScrollSpeeds          \* the values scrollSpeed may have in a frame

Direction == {"NORTH", "WEST", "SOUTH", "EAST"}
Sideways(d) == d \in {"EAST", "WEST"}

ASSUME ViewConstants ==
  /\ {m_cols, m_rows, m_width, m_height, MiniMapSize, ZoomSteps} \subseteq Nat \ {0}
  /\ {tileWidth, halfTileHeight} \subseteq Nat \ {0}
  /\ tileWidth % (2 * ZoomSteps) = 0 /\ halfTileHeight % ZoomSteps = 0
  /\ StartOffset \in [x : Int, y : Int]
  /\ Point \subseteq [x : 0 .. m_width - 1, y : 0 .. m_height - 1]
  /\ {MiniMapX, MiniMapY} \subseteq Nat
  /\ Tolerance \in Nat /\ ScrollSpeeds \subseteq Nat \ {0}

VARIABLES
  view,      \* m_direction, m_zoom, m_scrollOffsetX and m_scrollOffsetY
  shifting,  \* m_isShifting of the map
  dragging,  \* m_dragging of the mini map
  mouse,     \* the point where the mouse is
  pressed,   \* whether the left button is down
  focused    \* what the mouse was over when a button was last pressed

vars == <<view, shifting, dragging, mouse, pressed, focused>>

-----------------------------------------------------------------------------
(* Arithmetic of the language, which truncates *)

Magnitude(n) == IF n < 0 THEN -n ELSE n

Quotient(a, b) ==
  IF (a < 0) = (b < 0) THEN Magnitude(a) \div Magnitude(b)
  ELSE -(Magnitude(a) \div Magnitude(b))

Clamped(n, low, high) == IF n < low THEN low ELSE IF n > high THEN high ELSE n

-----------------------------------------------------------------------------
(* Views *)

TileWidth(zoom) == (tileWidth \div ZoomSteps) * zoom
HalfTileHeight(zoom) == (halfTileHeight \div ZoomSteps) * zoom

MinX(zoom) == -((m_rows - 1) * (TileWidth(zoom) \div 2))
MaxX(zoom) == (m_cols - 1) * (TileWidth(zoom) \div 2)
MaxY(zoom) == (m_cols + m_rows - 1) * HalfTileHeight(zoom)

\* Map::scroll
Scroll(v, dx, dy) ==
  [v EXCEPT !.x = Clamped(@ + dx, MinX(v.zoom), MaxX(v.zoom)),
            !.y = Clamped(@ + dy, 0, MaxY(v.zoom))]

\* How far a view in this direction could scroll if the map were not drawn as a
\* rhombus: rotating scales offsets by these.
DiffX(d, zoom) ==
  (IF Sideways(d) THEN (TileWidth(zoom) * m_rows) \div 2 ELSE TileWidth(zoom) * m_cols)
  - m_width - TileWidth(zoom) \div 2
DiffY(d, zoom) ==
  (IF Sideways(d) THEN 2 * HalfTileHeight(zoom) * m_cols ELSE HalfTileHeight(zoom) * m_rows)
  - m_height - HalfTileHeight(zoom)

\* Rotating divides by them.  The maps that are shipped, on the usual screens, are
\* such that none is 0.
ASSUME RotatableMap ==
  \A d \in Direction, zoom \in 1 .. ZoomSteps : DiffX(d, zoom) # 0 /\ DiffY(d, zoom) # 0

Clockwise == [NORTH |-> "WEST", WEST |-> "SOUTH", SOUTH |-> "EAST", EAST |-> "NORTH"]
Counterclockwise == [NORTH |-> "EAST", EAST |-> "SOUTH", SOUTH |-> "WEST", WEST |-> "NORTH"]

\* Mutant: as rotateRight, with the offset not measured from the other end.
TurnedRightUnmirrored(v) ==
  LET d == Clockwise[v.direction]
  IN  [v EXCEPT !.direction = d,
         !.x = Quotient(v.y * DiffX(d, v.zoom), DiffY(v.direction, v.zoom)),
         !.y = Quotient(v.x * DiffY(d, v.zoom), DiffX(v.direction, v.zoom))]

\* rotateRight up to its last line.  (What it adds to round is the lowest bit of an
\* even number.)
TurnedRight(v) ==
  LET d == Clockwise[v.direction]
  IN  [v EXCEPT !.direction = d,
         !.x = DiffX(d, v.zoom) - Quotient(v.y * DiffX(d, v.zoom), DiffY(v.direction, v.zoom)),
         !.y = Quotient(v.x * DiffY(d, v.zoom), DiffX(v.direction, v.zoom))]

TurnedLeft(v) ==
  LET d == Counterclockwise[v.direction]
  IN  [v EXCEPT !.direction = d,
         !.x = Quotient(v.y * DiffX(d, v.zoom), DiffY(v.direction, v.zoom)),
         !.y = DiffY(d, v.zoom) - Quotient(v.x * DiffY(d, v.zoom), DiffX(v.direction, v.zoom))]

\* Mutant: the offset is not corrected.
RotateRightUnscrolled(v) == TurnedRight(v)

\* rotateRight and rotateLeft
RotateRight(v) == Scroll(TurnedRight(v), 0, 0)
RotateLeft(v) == Scroll(TurnedLeft(v), 0, 0)

\* Mutant: the upper left corner stays where it is.
ZoomAtCorner(v, step) ==
  LET zoom == Clamped(v.zoom + step, 1, ZoomSteps)
      w == Scroll([v EXCEPT !.zoom = zoom, !.x = Quotient(@ * zoom, v.zoom),
                            !.y = Quotient(@ * zoom, v.zoom)], 0, 0)
  IN  [w EXCEPT !.x = IF @ < 0 THEN 0 ELSE @]

\* Map::zoom: the offset of the screen's centre is scaled; a negative offset, though
\* scroll allows it, becomes 0.
Zoomed(v, step) ==
  LET zoom == Clamped(v.zoom + step, 1, ZoomSteps)
      scaled == [v EXCEPT !.zoom = zoom,
                   !.x = Quotient((@ + m_width \div 2) * zoom, v.zoom),
                   !.y = Quotient((@ + m_height \div 2) * zoom, v.zoom)]
      centred == Scroll(scaled, -(m_width \div 2), -(m_height \div 2))
  IN  [centred EXCEPT !.x = IF @ < 0 THEN 0 ELSE @]

\* How far along its range a jump to n / MiniMapSize goes, centred and rounded.
Along(n, range, size) ==
  Quotient(2 * n * range - 2 * MiniMapSize * (size \div 2) + MiniMapSize, 2 * MiniMapSize)

\* Map::jump to the point n.x, n.y of the mini map.
Jump(v, n) ==
  LET fromRight == MiniMapSize - n.x
      fromBottom == MiniMapSize - n.y
      X == CASE v.direction = "NORTH" -> n.x
             [] v.direction = "EAST"  -> n.y
             [] v.direction = "SOUTH" -> fromRight
             [] v.direction = "WEST"  -> fromBottom
      Y == CASE v.direction = "NORTH" -> n.y
             [] v.direction = "EAST"  -> fromRight
             [] v.direction = "SOUTH" -> fromBottom
             [] v.direction = "WEST"  -> n.x
  IN  Scroll([v EXCEPT !.x = Along(X, DiffX(v.direction, v.zoom) + m_width, m_width),
                       !.y = Along(Y, DiffY(v.direction, v.zoom) + m_height, m_height)], 0, 0)

-----------------------------------------------------------------------------
(* The game *)

Over(p) ==
  IF p \in RotateLeftAt THEN "rotateLeft"
  ELSE IF p \in RotateRightAt THEN "rotateRight"
  ELSE IF /\ p.x \in MiniMapX .. MiniMapX + MiniMapSize - 1
          /\ p.y \in MiniMapY .. MiniMapY + MiniMapSize - 1 THEN "miniMap"
  ELSE "map"

StartView ==
  [direction |-> "NORTH", zoom |-> ZoomSteps, x |-> StartOffset.x, y |-> StartOffset.y]

Init ==
  /\ view = StartView
  /\ shifting = FALSE /\ dragging = FALSE
  /\ mouse \in Point
  /\ pressed = FALSE
  /\ focused = "none"

\* Ingame::update: a frame scrolls towards the edges that the mouse is near, faster the
\* nearer it is, also over the mini map; and clamps if it is near none.  (The early
\* return is never taken: Mission::objectCompleted is FALSE.)
Update(scrollSpeed) ==
  LET Towards(n, size) ==
        IF n < Tolerance THEN Quotient(scrollSpeed * (n - Tolerance), 10)
        ELSE IF n > size - Tolerance THEN Quotient(scrollSpeed * (n - (size - Tolerance)), 10)
        ELSE 0
  IN  /\ view' = Scroll(view, Towards(mouse.x, m_width), Towards(mouse.y, m_height))
      /\ UNCHANGED <<shifting, dragging, mouse, pressed, focused>>

\* Mutant: the mini map is not told that the mouse has left it.
MouseMotionInside(p) ==
  LET shifted == IF shifting THEN Scroll(view, mouse.x - p.x, mouse.y - p.y) ELSE view
  IN  /\ p # mouse
      /\ mouse' = p
      /\ view' = IF dragging /\ Over(p) = "miniMap"
                 THEN Jump(shifted, [x |-> p.x - MiniMapX, y |-> p.y - MiniMapY])
                 ELSE shifted
      /\ UNCHANGED <<shifting, dragging, pressed, focused>>

\* The mini map hears that the mouse is out before it hears of the move; the map
\* hears of the move before the mini map.
MouseMotion(p) ==
  LET shifted == IF shifting THEN Scroll(view, mouse.x - p.x, mouse.y - p.y) ELSE view
  IN  /\ p # mouse
      /\ mouse' = p
      /\ dragging' = (dragging /\ Over(p) = "miniMap")
      /\ view' = IF dragging'
                 THEN Jump(shifted, [x |-> p.x - MiniMapX, y |-> p.y - MiniMapY])
                 ELSE shifted
      /\ UNCHANGED <<shifting, pressed, focused>>

LeftDown(withShift) ==
  /\ ~pressed
  /\ pressed' = TRUE
  /\ focused' = Over(mouse)
  /\ shifting' = (shifting \/ withShift)
  /\ dragging' = (dragging \/ Over(mouse) = "miniMap")
  /\ UNCHANGED <<view, mouse>>

\* A button that has the focus and is under the mouse gives its command.
LeftUp ==
  /\ pressed
  /\ pressed' = FALSE
  /\ shifting' = FALSE
  /\ dragging' = (dragging /\ Over(mouse) # "miniMap")
  /\ view' = CASE focused = "rotateLeft" /\ Over(mouse) = focused -> RotateLeft(view)
               [] focused = "rotateRight" /\ Over(mouse) = focused -> RotateRight(view)
               [] OTHER -> view
  /\ UNCHANGED <<mouse, focused>>

\* The wheel is a button too, and moves the focus.
Wheel(step) ==
  /\ focused' = Over(mouse)
  /\ view' = Zoomed(view, step)
  /\ UNCHANGED <<shifting, dragging, mouse, pressed>>

Next ==
  \/ \E scrollSpeed \in ScrollSpeeds : Update(scrollSpeed)
  \/ \E p \in Point : MouseMotion(p)
  \/ \E withShift \in BOOLEAN : LeftDown(withShift)
  \/ LeftUp
  \/ \E step \in {-1, 1} : Wheel(step)

Spec == Init /\ [][Next]_vars

-----------------------------------------------------------------------------
(* Properties *)

\* Every variable has its type.
TypeOK ==
  /\ view \in [direction : Direction, zoom : 1 .. ZoomSteps, x : Int, y : Int]
  /\ {shifting, dragging, pressed} \subseteq BOOLEAN
  /\ mouse \in Point
  /\ focused \in {"none", "map", "miniMap", "rotateLeft", "rotateRight"}

OnMap(v) == v.x \in MinX(v.zoom) .. MaxX(v.zoom) /\ v.y \in 0 .. MaxY(v.zoom)

\* Whatever scrolls, jumps, zooms and turns the view, it stays on the map as it is at
\* the zoom of that moment; only the start position is taken as the mission has it.
ViewStaysOnMap == TypeOK /\ (view = StartView \/ OnMap(view))

\* No drag outlives what began it: the mini map is dragged only while the button is
\* down and the mouse has not left it, and the map only while the button is down.
DragsEnd ==
  /\ dragging => pressed /\ Over(mouse) = "miniMap"
  /\ shifting => pressed

\* The offsets that turning right and back gives again, if it has to correct nothing:
\* those that DiffX and DiffY are the range of.
Turnable(v) ==
  /\ OnMap(v)
  /\ v.x \in 0 .. DiffX(v.direction, v.zoom)
  /\ v.y \in 0 .. DiffY(v.direction, v.zoom)
  /\ OnMap(TurnedRight(v)) /\ TurnedRight(v).x >= 0 /\ TurnedRight(v).y >= 0

\* Turning right and then left shows the same part of the map again, to within what is
\* lost where the turned range is shorter.
RotationIsUndone ==
  Turnable(view) =>
    LET v == RotateLeft(RotateRight(view))
        Slack(there, back) == 1 + Magnitude(Quotient(back, there))
    IN  /\ v.direction = view.direction
        /\ Magnitude(v.x - view.x) <=
             Slack(DiffY(Clockwise[view.direction], view.zoom), DiffX(view.direction, view.zoom))
        /\ Magnitude(v.y - view.y) <=
             Slack(DiffX(Clockwise[view.direction], view.zoom), DiffY(view.direction, view.zoom))

\* "we want to zoom centered" (map.cpp:344): what is in the middle of the screen is there
\* after zooming, to within a pixel, unless the view would leave the map or get a
\* negative offset.
ZoomKeepsCentre ==
  [][ view'.zoom # view.zoom =>
        LET Same(old, new, half) ==
              Magnitude((old + half) * view'.zoom - (new + half) * view.zoom) < view.zoom
        IN  /\ view'.x \in 1 .. MaxX(view'.zoom) - 1 => Same(view.x, view'.x, m_width \div 2)
            /\ view'.y \in 1 .. MaxY(view'.zoom) - 1 => Same(view.y, view'.y, m_height \div 2)
    ]_vars
=============================================================================
