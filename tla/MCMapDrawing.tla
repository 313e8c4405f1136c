----------------------------- MODULE MCMapDrawing -----------------------------
(***************************************************************************)
(* A map of 4 by 7 tiles on a screen that shows half of it; offsets in      *)
(* units of 16 pixels.                                                      *)
(***************************************************************************)
EXTENDS MapDrawing

Start == [x |-> -30, y |-> 5]

\* Two points inside of the mini map, one at an edge of the screen, one over each
\* button, and a corner.
Points == { [x |-> 1, y |-> 6], [x |-> 3, y |-> 5], [x |-> 0, y |-> 3],
            [x |-> 6, y |-> 2], [x |-> 8, y |-> 2], [x |-> 9, y |-> 7] }
LeftButton == {[x |-> 6, y |-> 2]}
RightButton == {[x |-> 8, y |-> 2]}

\* RotatableMap for the maps that are shipped (xml/missions), on the usual screens, with
\* tiles of 128 by 64 pixels.
ShippedMaps == {[cols |-> 40, rows |-> 90], [cols |-> 10, rows |-> 10]}
Screens == {[width |-> 800, height |-> 600], [width |-> 1024, height |-> 768],
            [width |-> 1280, height |-> 960], [width |-> 1280, height |-> 1024],
            [width |-> 1600, height |-> 1200]}

Shipped(map, screen) ==
  INSTANCE MapView WITH m_cols <- map.cols, m_rows <- map.rows,
    m_width <- screen.width, m_height <- screen.height,
    tileWidth <- 128, halfTileHeight <- 32, ZoomSteps <- 8

ASSUME ShippedMapsAreRotatable ==
  \A map \in ShippedMaps, screen \in Screens, d \in Direction, zoom \in 1 .. 8 :
    /\ Shipped(map, screen)!DiffX(d, zoom) # 0
    /\ Shipped(map, screen)!DiffY(d, zoom) # 0
=============================================================================
