------------------------------ MODULE MapDrawing ------------------------------
(***************************************************************************)
(* What Map::draw puts on the screen for a view: lines of tiles from top to *)
(* bottom, each line from left to right, every other line half a tile to    *)
(* the left.                                                                *)
(***************************************************************************)
EXTENDS MapView

CONSTANTS MaxImageHeight   \* how far a tile's image may reach above its foot

ASSUME ImageAssumption == MaxImageHeight \in Nat

Remainder(a, b) == a - b * Quotient(a, b)

\* negmod: of a negative multiple of mod it is mod.
NegMod(a, b) == IF a < 0 THEN Remainder(a, b) + b ELSE Remainder(a, b)

\* The columns and rows that the first line begins with: v1 says that the offset ends in
\* the lower half of a tile, v2 in its right half.
FirstTile(v) ==
  LET tw == TileWidth(v.zoom)
      h == HalfTileHeight(v.zoom)
      v1 == NegMod(v.y, 2 * h) >= h
      v2 == NegMod(v.x, tw) >= tw \div 2
      a == Quotient(v.y, 2 * h)
      b == Quotient(v.x, tw)
      state == IF v1 = v2 THEN 1 ELSE 0
  IN  [state |-> state,
       col |-> (a - b) + (IF v2 THEN IF v1 THEN -2 ELSE 1 ELSE 0) + (IF v1 THEN 2 ELSE 0),
       row |-> (a + b) + (IF v2 /\ v1 THEN -1 ELSE 0) + (IF v1 THEN 1 ELSE 0),
       x |-> -NegMod(v.x, tw) - state * (tw \div 2),
       y |-> -NegMod(v.y, h) - state * 2 * h - (IF v2 THEN h ELSE 0)]

\* Mutant: every line begins at the same place.
LineStartStraight(v, n) ==
  LET first == FirstTile(v)
      deep == (n + 1 - first.state) \div 2
  IN  [col |-> first.col + (n - deep), row |-> first.row + deep,
       x |-> -NegMod(v.x, TileWidth(v.zoom)),
       y |-> first.y + n * HalfTileHeight(v.zoom)]

\* The first tile of line n > 0: lines step down and to the left, and down and to the
\* right, by turns.
LineStart(v, n) ==
  LET first == FirstTile(v)
      deep == (n + 1 - first.state) \div 2   \* how many of the lines 1 .. n step to the right
      left == (first.state + n) % 2 = 0
  IN  [col |-> first.col + (n - deep), row |-> first.row + deep,
       x |-> -NegMod(v.x, TileWidth(v.zoom)) - (IF left THEN TileWidth(v.zoom) \div 2 ELSE 0),
       y |-> first.y + n * HalfTileHeight(v.zoom)]
\* How many steps of this size it takes from n to get to the bound.
Steps(n, size, bound) == IF n >= bound THEN 0 ELSE ((bound - n - 1) \div size) + 1

Line(v, start) ==
  { [col |-> start.col - i, row |-> start.row + i,
     x |-> start.x + i * TileWidth(v.zoom), y |-> start.y] :
    i \in 0 .. Steps(start.x, TileWidth(v.zoom), m_width) - 1 }

Drawn(v) ==
  LET first == FirstTile(v)
      lines == Steps(first.y, HalfTileHeight(v.zoom), m_height + MaxImageHeight)
  IN  Line(v, first) \cup UNION { Line(v, LineStart(v, n)) : n \in 1 .. lines - 1 }

-----------------------------------------------------------------------------
(* Property *)

\* Where the tile belongs that is the col-th of the row-th.
Placed(v, col, row) ==
  [col |-> col, row |-> row,
   x |-> (row - col) * (TileWidth(v.zoom) \div 2) - v.x,
   y |-> (row + col - 2) * HalfTileHeight(v.zoom) - v.y]

\* An image ends at the tile's foot, y.
Visible(v, tile) ==
  /\ tile.x > -TileWidth(v.zoom) /\ tile.x < m_width
  /\ tile.y > 0 /\ tile.y < m_height + MaxImageHeight

OfMap(tile) == tile.col \in 0 .. m_cols - 1 /\ tile.row \in 0 .. m_rows - 1

\* Whatever the offset and the zoom, the tiles of the map that can be seen are drawn,
\* each where it belongs, and nowhere else.  (With a negative offset the whole picture
\* is one tile off.)
PictureIsTheMap ==
  view.x >= 0 /\ view.y >= 0 =>
    { tile \in Drawn(view) : OfMap(tile) /\ Visible(view, tile) }
      = { tile \in { Placed(view, col, row) : col \in 0 .. m_cols - 1, row \in 0 .. m_rows - 1 } :
            Visible(view, tile) }
=============================================================================
