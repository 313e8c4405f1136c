---------------------------- MODULE MapViewProofs ----------------------------
(***************************************************************************)
(* Of MapView and MapDrawing, for every map, screen and zoom: the view      *)
(* stays on the map, drags end with what began them, zooming is centred,    *)
(* turning can be undone, and the picture is that of the map.               *)
(*                                                                          *)
(* Every method that changes the view ends with Scroll, so for ViewInv it   *)
(* is enough that what they hand to it are integers (none divides by 0) and *)
(* that the bounds of scroll are in order at every zoom.  The rest is       *)
(* arithmetic of the views that ViewInv allows.                             *)
(***************************************************************************)
EXTENDS MapDrawing, TLAPS

Views == [direction : Direction, zoom : 1 .. ZoomSteps, x : Int, y : Int]

-----------------------------------------------------------------------------
(* Arithmetic *)

\* Products of naturals and integers.
LEMMA Products ==
  /\ \A a, b \in Nat : a * b \in Nat
  /\ \A a, b \in Int : a * b \in Int
OBVIOUS

\* What a division gives is an integer, if it is one.
LEMMA QuotientType ==
  ASSUME NEW a \in Int, NEW b \in Int, b # 0
  PROVE  Quotient(a, b) \in Int
<1>1. Magnitude(a) \in Nat /\ Magnitude(b) \in Nat \ {0}
  BY DEF Magnitude
<1>2. Magnitude(a) \div Magnitude(b) \in Int
  BY <1>1
<1>3. QED
  BY <1>2 DEF Quotient

\* Of naturals it is the floor of the quotient.
LEMMA Divides ==
  ASSUME NEW a \in Nat, NEW b \in Nat \ {0}
  PROVE  /\ Quotient(a, b) \in Nat /\ Quotient(a, b) = a \div b
         /\ Quotient(a, b) * b <= a /\ a < Quotient(a, b) * b + b
<1>1. Quotient(a, b) = a \div b
  BY DEF Quotient, Magnitude
<1>2. a \div b \in Nat /\ a % b \in 0 .. b - 1 /\ a = b * (a \div b) + (a % b)
  OBVIOUS
<1>3. b * (a \div b) = (a \div b) * b
  BY <1>2
<1>4. QED
  BY <1>1, <1>2, <1>3

\* Of an integer by a positive number it is less than one off.
LEMMA QuotientNear ==
  ASSUME NEW a \in Int, NEW b \in Nat \ {0}
  PROVE  Magnitude(a - Quotient(a, b) * b) < b
<1>1. CASE a >= 0
  <2>1. a \in Nat
    BY <1>1
  <2>2. /\ Quotient(a, b) \in Nat /\ Quotient(a, b) * b \in Nat
        /\ Quotient(a, b) * b <= a /\ a < Quotient(a, b) * b + b
    BY <2>1, Divides, Products
  <2>3. QED
    BY <2>1, <2>2 DEF Magnitude
<1>2. CASE a < 0
  <2> DEFINE q == Quotient(-a, b)
  <2>1. -a \in Nat /\ ~(-a < 0) /\ ~(b < 0)
    BY <1>2
  <2>2. q \in Nat /\ q * b \in Nat /\ q * b <= -a /\ -a < q * b + b
    BY <2>1, Divides, Products
  <2>3. Quotient(a, b) = -q
    BY <1>2, <2>1 DEF Quotient, Magnitude
  <2> HIDE DEF q
  <2>4. (-q) * b = -(q * b)
    BY <2>2
  <2>5. QED
    BY <2>2, <2>3, <2>4 DEF Magnitude
<1>3. QED
  BY <1>1, <1>2

\* A factor may be left out of a comparison.
LEMMA Cancel ==
  ASSUME NEW a \in Int, NEW b \in Int, NEW c \in Nat \ {0}
  PROVE  (a * c < b * c => a < b) /\ (a * c <= b * c => a <= b)
OBVIOUS

LEMMA Distributes == \A a, b, c \in Int : (a + b) * c = a * c + b * c
OBVIOUS

\* What a natural becomes when it is scaled from 0 .. there to 0 .. back and back again,
\* and rounded down both times.
LEMMA ForthAndBack ==
  ASSUME NEW n \in Nat, NEW here \in Nat \ {0}, NEW there \in Nat \ {0}
  PROVE  LET m == Quotient(n * there, here)
             back == Quotient(m * here, there)
         IN /\ back \in Nat /\ m \in Nat
            /\ back <= n /\ n - back <= 1 + Quotient(here, there)
            /\ (n <= here => m <= there)
<1> DEFINE m == Quotient(n * there, here)
           back == Quotient(m * here, there)
           slack == Quotient(here, there)
<1>1. n * there \in Nat
  BY Products
<1>2. m \in Nat /\ m * here <= n * there /\ n * there < m * here + here
  BY <1>1, Divides
<1> HIDE DEF m
<1>3. m * here \in Nat
  BY <1>2, Products
<1>4. back \in Nat /\ back * there <= m * here /\ m * here < back * there + there
  BY <1>3, Divides
<1>5. slack \in Nat /\ here < slack * there + there
  BY Divides
<1> HIDE DEF back, slack
<1>6. back * there \in Nat /\ slack * there \in Nat
  BY <1>4, <1>5, Products
<1>7. back <= n
  <2>1. back * there <= n * there
    BY <1>1, <1>2, <1>3, <1>4, <1>6
  <2>2. QED
    BY <1>4, <2>1, Cancel
<1>8. n - back <= 1 + slack
  <2>1. n * there < back * there + slack * there + there + there
    BY <1>1, <1>2, <1>3, <1>4, <1>5, <1>6
  <2>2. back * there + slack * there + there + there = (back + slack + 2) * there
    BY <1>4, <1>5
  <2>3. back + slack + 2 \in Int /\ n < back + slack + 2
    BY <1>4, <1>5, <2>1, <2>2, Cancel
  <2>4. QED
    BY <1>4, <1>5, <2>3
<1>9. n <= here => m <= there
  <2> SUFFICES ASSUME n <= here, there < m PROVE FALSE
    BY <1>2
  <2>1. n * there <= here * there /\ (there + 1) * here <= m * here
    BY <1>2
  <2>2. (there + 1) * here = here * there + here
    OBVIOUS
  <2>3. here * there \in Nat
    BY Products
  <2>4. QED
    BY <1>1, <1>2, <1>3, <2>1, <2>2, <2>3
<1>10. QED
  BY <1>2, <1>4, <1>7, <1>8, <1>9 DEF m, back, slack

\* The same if 0 is at the other end there.
LEMMA MirroredForthAndBack ==
  ASSUME NEW n \in Nat, NEW here \in Nat \ {0}, NEW there \in Nat \ {0}, n <= here
  PROVE  LET m == there - Quotient(n * there, here)
             back == here - Quotient(m * here, there)
         IN back \in Nat /\ back <= n /\ n - back <= 1 + Quotient(here, there)
<1> DEFINE q == Quotient(n * there, here)
           m == there - q
           p == Quotient(m * here, there)
           slack == Quotient(here, there)
<1>1. n * there \in Nat /\ here * there \in Nat
  BY Products
<1>2. q \in Nat /\ q * here <= n * there /\ n * there < q * here + here /\ q <= there
  BY <1>1, Divides, ForthAndBack
<1> HIDE DEF q
<1>3. m \in Nat /\ q * here \in Nat /\ m * here = here * there - q * here
  BY <1>2, Products
<1>4. m * here \in Nat
  BY <1>3, Products
<1> HIDE DEF m
<1>5. p \in Nat /\ p * there <= m * here /\ m * here < p * there + there
  BY <1>4, Divides
<1>6. slack \in Nat /\ here < slack * there + there
  BY Divides
<1> HIDE DEF p, slack
<1>7. p * there \in Nat /\ slack * there \in Nat
  BY <1>5, <1>6, Products
<1>8. p <= here
  <2>1. p * there <= here * there
    BY <1>1, <1>3, <1>5, <1>7
  <2>2. QED
    BY <1>5, <2>1, Cancel
<1>9. here - n <= p
  <2>1. (here - n) * there = here * there - n * there /\ (p + 1) * there = p * there + there
    BY <1>5
  <2>2. (here - n) * there < (p + 1) * there
    BY <1>1, <1>2, <1>3, <1>5, <1>7, <2>1
  <2>3. here - n \in Int /\ p + 1 \in Int
    BY <1>5
  <2>4. here - n < p + 1
    BY <2>2, <2>3, Cancel
  <2>5. QED
    BY <1>5, <2>4
<1>10. p < here - n + slack + 1
  <2>1. (here - n + slack + 1) * there = here * there - n * there + slack * there + there
    BY <1>6
  <2>2. p * there < (here - n + slack + 1) * there
    BY <1>1, <1>2, <1>3, <1>5, <1>6, <1>7, <2>1
  <2>3. here - n + slack + 1 \in Int
    BY <1>6
  <2>4. QED
    BY <1>5, <2>2, <2>3, Cancel
<1>11. QED
  BY <1>5, <1>6, <1>8, <1>9, <1>10 DEF m, p, q, slack

\* The sign of a quotient.
LEMMA QuotientOfNegative ==
  ASSUME NEW a \in Nat, NEW b \in Nat \ {0}
  PROVE  /\ Quotient(-a, b) = -Quotient(a, b) /\ Quotient(a, -b) = -Quotient(a, b)
         /\ Quotient(0, b) = 0 /\ Quotient(0, -b) = 0
<1>1. Quotient(a, b) = a \div b /\ a \div b \in Nat
  BY Divides
<1> DEFINE none == Quotient(0, b)
<1>0. 0 \div b = 0
  <2>1. none \in Nat /\ none = 0 \div b /\ none * b <= 0
    BY Divides
  <2> HIDE DEF none
  <2>2. none > 0 => none * b > 0
    BY <2>1
  <2>3. QED
    BY <2>1, <2>2
<1>2. a = 0 => Quotient(-a, b) = 0 /\ Quotient(a, -b) = 0 /\ a \div b = 0
  BY <1>0, <1>1 DEF Quotient, Magnitude
<1>3. a # 0 => Quotient(-a, b) = -(a \div b) /\ Quotient(a, -b) = -(a \div b)
  BY <1>1 DEF Quotient, Magnitude
<1>4. Quotient(0, b) = 0 /\ Quotient(0, -b) = 0
  BY <1>0 DEF Quotient, Magnitude
<1>5. QED
  BY <1>1, <1>2, <1>3, <1>4

\* What it becomes if the range there is negative, but nothing negative comes of it.
LEMMA ForthToNothing ==
  ASSUME NEW n \in Nat, NEW here \in Nat \ {0}, NEW there \in Nat \ {0},
         Quotient(n * (-there), here) >= 0
  PROVE  /\ Quotient(n * (-there), here) = 0 /\ Quotient(0 * here, -there) = 0
         /\ n <= 1 + Magnitude(Quotient(here, -there))
<1>1. n * there \in Nat /\ n * (-there) = -(n * there) /\ 0 * here = 0
  BY Products
<1>2. Quotient(n * (-there), here) = -Quotient(n * there, here)
  BY <1>1, QuotientOfNegative
<1>3. /\ Quotient(n * there, here) \in Nat
      /\ n * there < Quotient(n * there, here) * here + here
  BY <1>1, Divides
<1>4. Quotient(n * there, here) = 0 /\ n * there < here
  BY <1>1, <1>2, <1>3
<1>5. /\ Quotient(here, there) \in Nat /\ here < Quotient(here, there) * there + there
      /\ Quotient(here, -there) = -Quotient(here, there)
  BY Divides, QuotientOfNegative
<1>6. n < Quotient(here, there) + 1
  <2>1. (Quotient(here, there) + 1) * there = Quotient(here, there) * there + there
    BY <1>5
  <2>2. Quotient(here, there) * there \in Nat /\ Quotient(here, there) + 1 \in Int
    BY <1>5, Products
  <2>3. n * there < (Quotient(here, there) + 1) * there
    BY <1>1, <1>4, <1>5, <2>1, <2>2
  <2>4. QED
    BY <2>2, <2>3, Cancel
<1>7. Magnitude(Quotient(here, -there)) = Quotient(here, there)
  BY <1>5 DEF Magnitude
<1>8. QED
  BY <1>1, <1>2, <1>4, <1>5, <1>6, <1>7, QuotientOfNegative

\* The same if 0 is at the other end there.
LEMMA MirroredForthToNothing ==
  ASSUME NEW n \in Nat, NEW here \in Nat \ {0}, NEW there \in Nat \ {0}, n <= here,
         -there - Quotient(n * (-there), here) >= 0
  PROVE  /\ -there - Quotient(n * (-there), here) = 0 /\ n = here
         /\ Quotient(0 * here, -there) = 0
<1>1. n * there \in Nat /\ n * (-there) = -(n * there) /\ 0 * here = 0 /\ here * there \in Nat
  BY Products
<1>2. Quotient(n * (-there), here) = -Quotient(n * there, here)
  BY <1>1, QuotientOfNegative
<1>3. /\ Quotient(n * there, here) \in Nat /\ Quotient(n * there, here) <= there
      /\ Quotient(n * there, here) * here <= n * there
  BY <1>1, Divides, ForthAndBack
<1>4. Quotient(n * there, here) = there
  BY <1>2, <1>3
<1>5. here <= n
  <2>1. here * there <= n * there
    BY <1>3, <1>4
  <2>2. QED
    BY <2>1, Cancel
<1>6. QED
  BY <1>1, <1>2, <1>4, <1>5, QuotientOfNegative

\* Both together: scaling forth and back, if nothing negative comes of it, loses at most
\* what the shorter range there cannot tell apart.
LEMMA Undone ==
  ASSUME NEW n \in Nat, NEW here \in Nat \ {0}, NEW there \in Int \ {0},
         NEW m, m = Quotient(n * there, here), m >= 0
  PROVE  /\ Quotient(m * here, there) \in 0 .. n
         /\ n - Quotient(m * here, there) <= 1 + Magnitude(Quotient(here, there))
<1>1. CASE there > 0
  <2>1. there \in Nat \ {0}
    BY <1>1
  <2>2. Quotient(here, there) \in Nat
    BY <2>1, Divides
  <2>3. Magnitude(Quotient(here, there)) = Quotient(here, there)
    BY <2>2 DEF Magnitude
  <2>4. /\ Quotient(m * here, there) \in Nat /\ Quotient(m * here, there) <= n
        /\ n - (Quotient(m * here, there)) <= 1 + Quotient(here, there)
    BY <2>1, ForthAndBack
  <2>5. QED
    BY <2>2, <2>3, <2>4
<1>2. CASE there < 0
  <2> DEFINE less == -there
  <2>1. less \in Nat \ {0} /\ there = -less
    BY <1>2
  <2> HIDE DEF less
  <2>2. m = 0 /\ Quotient(m * here, there) = 0 /\ n <= 1 + Magnitude(Quotient(here, there))
    BY <2>1, ForthToNothing
  <2>3. QED
    BY <2>2
<1>3. QED
  BY <1>1, <1>2

LEMMA MirroredUndone ==
  ASSUME NEW n \in Nat, NEW here \in Nat \ {0}, n <= here, NEW there \in Int \ {0},
         NEW m, m = there - Quotient(n * there, here), m >= 0
  PROVE  /\ here - Quotient(m * here, there) \in 0 .. n
         /\ n - (here - Quotient(m * here, there)) <= 1 + Magnitude(Quotient(here, there))
<1>1. CASE there > 0
  <2>1. there \in Nat \ {0}
    BY <1>1
  <2>2. Quotient(here, there) \in Nat
    BY <2>1, Divides
  <2>3. Magnitude(Quotient(here, there)) = Quotient(here, there)
    BY <2>2 DEF Magnitude
  <2>4. /\ here - Quotient(m * here, there) \in Nat /\ here - Quotient(m * here, there) <= n
        /\ n - (here - Quotient(m * here, there)) <= 1 + Quotient(here, there)
    BY <2>1, MirroredForthAndBack
  <2>5. QED
    BY <2>2, <2>3, <2>4
<1>2. CASE there < 0
  <2> DEFINE less == -there
  <2>1. less \in Nat \ {0} /\ there = -less
    BY <1>2
  <2> HIDE DEF less
  <2>2. m = 0 /\ n = here /\ Quotient(m * here, there) = 0
    BY <2>1, MirroredForthToNothing
  <2>3. Quotient(here, there) \in Int
    BY QuotientType
  <2>4. Magnitude(Quotient(here, there)) >= 0
    BY <2>3 DEF Magnitude
  <2>5. Magnitude(Quotient(here, there)) \in Int
    BY <2>3 DEF Magnitude
  <2>6. QED
    BY <2>2, <2>4, <2>5
<1>3. QED
  BY <1>1, <1>2

-----------------------------------------------------------------------------
(* The map *)

\* The constants are numbers.
LEMMA Sizes ==
  /\ m_cols \in Nat \ {0} /\ m_rows \in Nat \ {0} /\ m_width \in Nat \ {0}
  /\ m_height \in Nat \ {0} /\ MiniMapSize \in Nat \ {0} /\ ZoomSteps \in Nat \ {0}
  /\ tileWidth \in Nat \ {0} /\ halfTileHeight \in Nat \ {0}
  /\ MiniMapX \in Nat /\ MiniMapY \in Nat
  /\ StartOffset \in [x : Int, y : Int]
  /\ Point \subseteq [x : 0 .. m_width - 1, y : 0 .. m_height - 1]
BY ViewConstants

\* A tile has a size at every zoom.
LEMMA TileSizes ==
  ASSUME NEW zoom \in 1 .. ZoomSteps
  PROVE  TileWidth(zoom) \in Nat /\ HalfTileHeight(zoom) \in Nat
<1>1. tileWidth \div ZoomSteps \in Nat /\ halfTileHeight \div ZoomSteps \in Nat
  BY Sizes
<1>2. zoom \in Nat
  OBVIOUS
<1>3. QED
  BY <1>1, <1>2, Products DEF TileWidth, HalfTileHeight

\* The origin is on the map at every zoom.
LEMMA Bounds ==
  ASSUME NEW zoom \in 1 .. ZoomSteps
  PROVE  /\ MinX(zoom) \in Int /\ MaxX(zoom) \in Int /\ MaxY(zoom) \in Int
         /\ MinX(zoom) <= 0 /\ 0 <= MaxX(zoom) /\ 0 <= MaxY(zoom)
<1>1. TileWidth(zoom) \in Nat /\ HalfTileHeight(zoom) \in Nat
  BY TileSizes
<1>2. TileWidth(zoom) \div 2 \in Nat
  BY <1>1
<1>3. m_rows - 1 \in Nat /\ m_cols - 1 \in Nat /\ m_cols + m_rows - 1 \in Nat
  BY Sizes
<1>4. /\ (m_rows - 1) * (TileWidth(zoom) \div 2) \in Nat
      /\ (m_cols - 1) * (TileWidth(zoom) \div 2) \in Nat
      /\ (m_cols + m_rows - 1) * HalfTileHeight(zoom) \in Nat
  BY <1>1, <1>2, <1>3, Products
<1>5. QED
  BY <1>4 DEF MinX, MaxX, MaxY

\* What rotating divides by are integers other than 0.
LEMMA Differences ==
  ASSUME NEW d \in Direction, NEW zoom \in 1 .. ZoomSteps
  PROVE  DiffX(d, zoom) \in Int \ {0} /\ DiffY(d, zoom) \in Int \ {0}
<1>1. TileWidth(zoom) \in Nat /\ HalfTileHeight(zoom) \in Nat
  BY TileSizes
<1>2. m_rows \in Nat /\ m_cols \in Nat /\ m_width \in Int /\ m_height \in Int
  BY Sizes
<1>3. /\ TileWidth(zoom) * m_rows \in Nat /\ TileWidth(zoom) * m_cols \in Nat
      /\ HalfTileHeight(zoom) * m_rows \in Nat
      /\ (2 * HalfTileHeight(zoom)) * m_cols \in Nat
  <2>1. 2 * HalfTileHeight(zoom) \in Nat
    BY <1>1
  <2>2. QED
    BY <1>1, <1>2, <2>1, Products
<1>4. (TileWidth(zoom) * m_rows) \div 2 \in Int /\ TileWidth(zoom) \div 2 \in Int
  BY <1>1, <1>3
<1>5. DiffX(d, zoom) \in Int
  BY <1>2, <1>3, <1>4 DEF DiffX
<1>6. DiffY(d, zoom) \in Int
  BY <1>1, <1>2, <1>3 DEF DiffY
<1>7. QED
  BY <1>5, <1>6, RotatableMap

-----------------------------------------------------------------------------
(* Views *)

\* Wherever it is asked to go, scroll stays on the map.
LEMMA ScrollStays ==
  ASSUME NEW v \in Views, NEW dx \in Int, NEW dy \in Int
  PROVE  Scroll(v, dx, dy) \in Views /\ OnMap(Scroll(v, dx, dy))
<1> DEFINE x == Clamped(v.x + dx, MinX(v.zoom), MaxX(v.zoom))
           y == Clamped(v.y + dy, 0, MaxY(v.zoom))
<1>1. v.zoom \in 1 .. ZoomSteps /\ v.x + dx \in Int /\ v.y + dy \in Int
  BY DEF Views
<1>2. /\ MinX(v.zoom) \in Int /\ MaxX(v.zoom) \in Int /\ MaxY(v.zoom) \in Int
      /\ MinX(v.zoom) <= 0 /\ 0 <= MaxX(v.zoom) /\ 0 <= MaxY(v.zoom)
  BY <1>1, Bounds
<1>3. x \in MinX(v.zoom) .. MaxX(v.zoom)
  BY <1>1, <1>2 DEF Clamped
<1>4. y \in 0 .. MaxY(v.zoom)
  BY <1>1, <1>2 DEF Clamped
<1>5. Scroll(v, dx, dy) = [v EXCEPT !.x = x, !.y = y]
  BY DEF Scroll
<1>6. x \in Int /\ y \in Int
  BY <1>2, <1>3, <1>4
<1> HIDE DEF x, y
<1>7. /\ [v EXCEPT !.x = x, !.y = y] \in Views
      /\ [v EXCEPT !.x = x, !.y = y].zoom = v.zoom
      /\ [v EXCEPT !.x = x, !.y = y].x = x /\ [v EXCEPT !.x = x, !.y = y].y = y
  BY <1>6 DEF Views
<1>8. QED
  BY <1>3, <1>4, <1>5, <1>7 DEF OnMap

\* Turning gives a view in another direction.
LEMMA TurnedType ==
  ASSUME NEW v \in Views
  PROVE  TurnedRight(v) \in Views /\ TurnedLeft(v) \in Views
<1>1. v.direction \in Direction /\ v.zoom \in 1 .. ZoomSteps /\ v.x \in Int /\ v.y \in Int
  BY DEF Views
<1>2. Clockwise[v.direction] \in Direction /\ Counterclockwise[v.direction] \in Direction
  BY <1>1 DEF Direction, Clockwise, Counterclockwise
<1>3. ASSUME NEW d \in Direction
      PROVE  /\ DiffX(d, v.zoom) \in Int /\ DiffY(d, v.zoom) \in Int
             /\ Quotient(v.y * DiffX(d, v.zoom), DiffY(v.direction, v.zoom)) \in Int
             /\ Quotient(v.x * DiffY(d, v.zoom), DiffX(v.direction, v.zoom)) \in Int
  <2>1. /\ DiffX(d, v.zoom) \in Int /\ DiffY(d, v.zoom) \in Int
        /\ DiffX(v.direction, v.zoom) \in Int \ {0} /\ DiffY(v.direction, v.zoom) \in Int \ {0}
    BY <1>1, Differences
  <2>2. v.y * DiffX(d, v.zoom) \in Int /\ v.x * DiffY(d, v.zoom) \in Int
    BY <1>1, <2>1, Products
  <2>3. QED
    BY <2>1, <2>2, QuotientType
<1>4. ASSUME NEW d \in Direction, NEW x \in Int, NEW y \in Int
      PROVE  [v EXCEPT !.direction = d, !.x = x, !.y = y] \in Views
  BY <1>4 DEF Views
<1>5. TurnedRight(v) \in Views
  <2> DEFINE d == Clockwise[v.direction]
             x == DiffX(d, v.zoom) - Quotient(v.y * DiffX(d, v.zoom), DiffY(v.direction, v.zoom))
             y == Quotient(v.x * DiffY(d, v.zoom), DiffX(v.direction, v.zoom))
  <2>1. d \in Direction /\ x \in Int /\ y \in Int
    BY <1>2, <1>3
  <2>2. TurnedRight(v) = [v EXCEPT !.direction = d, !.x = x, !.y = y]
    BY DEF TurnedRight
  <2> HIDE DEF d, x, y
  <2>3. QED
    BY <1>4, <2>1, <2>2
<1>6. TurnedLeft(v) \in Views
  <2> DEFINE d == Counterclockwise[v.direction]
             x == Quotient(v.y * DiffX(d, v.zoom), DiffY(v.direction, v.zoom))
             y == DiffY(d, v.zoom) - Quotient(v.x * DiffY(d, v.zoom), DiffX(v.direction, v.zoom))
  <2>1. d \in Direction /\ x \in Int /\ y \in Int
    BY <1>2, <1>3
  <2>2. TurnedLeft(v) = [v EXCEPT !.direction = d, !.x = x, !.y = y]
    BY DEF TurnedLeft
  <2> HIDE DEF d, x, y
  <2>3. QED
    BY <1>4, <2>1, <2>2
<1>7. QED
  BY <1>5, <1>6

\* The two buttons.
LEMMA RotationsStay ==
  ASSUME NEW v \in Views
  PROVE  /\ RotateRight(v) \in Views /\ OnMap(RotateRight(v))
         /\ RotateLeft(v) \in Views /\ OnMap(RotateLeft(v))
BY TurnedType, ScrollStays DEF RotateRight, RotateLeft

\* The wheel.
LEMMA ZoomStays ==
  ASSUME NEW v \in Views, NEW step \in Int
  PROVE  Zoomed(v, step) \in Views /\ OnMap(Zoomed(v, step))
<1> DEFINE zoom == Clamped(v.zoom + step, 1, ZoomSteps)
           x == Quotient((v.x + m_width \div 2) * zoom, v.zoom)
           y == Quotient((v.y + m_height \div 2) * zoom, v.zoom)
           scaled == [v EXCEPT !.zoom = zoom, !.x = x, !.y = y]
           centred == Scroll(scaled, -(m_width \div 2), -(m_height \div 2))
           left == IF centred.x < 0 THEN 0 ELSE centred.x
<1>1. v.zoom \in 1 .. ZoomSteps /\ v.x \in Int /\ v.y \in Int
  BY DEF Views
<1>2. zoom \in 1 .. ZoomSteps
  BY <1>1, Sizes DEF Clamped
<1>3. m_width \div 2 \in Int /\ m_height \div 2 \in Int
  BY Sizes
<1> HIDE DEF zoom
<1>4. x \in Int /\ y \in Int
  <2>1. zoom \in Int /\ v.zoom \in Int /\ v.zoom # 0
    BY <1>1, <1>2, Sizes
  <2>2. v.x + m_width \div 2 \in Int /\ v.y + m_height \div 2 \in Int
    BY <1>1, <1>3
  <2>3. (v.x + m_width \div 2) * zoom \in Int /\ (v.y + m_height \div 2) * zoom \in Int
    BY <2>1, <2>2, Products
  <2>4. QED
    BY <2>1, <2>3, QuotientType
<1> HIDE DEF x, y
<1>5. scaled \in Views
  BY <1>2, <1>4 DEF Views
<1> HIDE DEF scaled
<1>6. centred \in Views /\ OnMap(centred)
  <2>1. -(m_width \div 2) \in Int /\ -(m_height \div 2) \in Int
    BY <1>3
  <2>2. QED
    BY <1>5, <2>1, ScrollStays
<1>7. Zoomed(v, step) = [centred EXCEPT !.x = left]
  BY DEF Zoomed, scaled, x, y, zoom
<1> HIDE DEF centred
<1>8. /\ MinX(centred.zoom) \in Int /\ MaxX(centred.zoom) \in Int
      /\ MinX(centred.zoom) <= 0 /\ 0 <= MaxX(centred.zoom)
  BY <1>6, Bounds DEF Views
<1>9. left \in Int /\ left \in MinX(centred.zoom) .. MaxX(centred.zoom)
  BY <1>6, <1>8 DEF OnMap, Views
<1> HIDE DEF left
<1>10. /\ [centred EXCEPT !.x = left] \in Views
       /\ [centred EXCEPT !.x = left].x = left
       /\ [centred EXCEPT !.x = left].y = centred.y
       /\ [centred EXCEPT !.x = left].zoom = centred.zoom
  BY <1>6, <1>9 DEF Views
<1>11. QED
  BY <1>6, <1>7, <1>9, <1>10 DEF OnMap

\* How far a jump goes is an integer.
LEMMA AlongType ==
  ASSUME NEW n \in Int, NEW range \in Int, NEW size \in Int
  PROVE  Along(n, range, size) \in Int
<1>1. MiniMapSize \in Nat \ {0} /\ size \div 2 \in Int /\ 2 * n \in Int
  BY Sizes
<1>2. (2 * n) * range \in Int /\ (2 * MiniMapSize) * (size \div 2) \in Int
  <2>1. 2 * MiniMapSize \in Int
    BY <1>1
  <2>2. QED
    BY <1>1, <2>1, Products
<1>3. /\ 2 * n * range - 2 * MiniMapSize * (size \div 2) + MiniMapSize \in Int
      /\ 2 * MiniMapSize \in Int /\ 2 * MiniMapSize # 0
  BY <1>1, <1>2
<1>4. QED
  BY <1>3, QuotientType DEF Along

\* The mini map.
LEMMA JumpStays ==
  ASSUME NEW v \in Views, NEW n, n.x \in Int, n.y \in Int
  PROVE  Jump(v, n) \in Views /\ OnMap(Jump(v, n))
<1> DEFINE fromRight == MiniMapSize - n.x
           fromBottom == MiniMapSize - n.y
           X == CASE v.direction = "NORTH" -> n.x
                  [] v.direction = "EAST"  -> n.y
                  [] v.direction = "SOUTH" -> fromRight
                  [] v.direction = "WEST"  -> fromBottom
           Y == CASE v.direction = "NORTH" -> n.y
                  [] v.direction = "EAST"  -> fromRight
                  [] v.direction = "SOUTH" -> fromBottom
                  [] v.direction = "WEST"  -> n.x
           x == Along(X, DiffX(v.direction, v.zoom) + m_width, m_width)
           y == Along(Y, DiffY(v.direction, v.zoom) + m_height, m_height)
           moved == [v EXCEPT !.x = x, !.y = y]
<1>1. v.direction \in Direction /\ v.zoom \in 1 .. ZoomSteps
  BY DEF Views
<1>2. fromRight \in Int /\ fromBottom \in Int
  BY Sizes
<1> HIDE DEF fromRight, fromBottom
<1>3. X \in Int /\ Y \in Int
  BY <1>1, <1>2 DEF Direction
<1>4. Jump(v, n) = Scroll(moved, 0, 0)
  BY DEF Jump, fromRight, fromBottom
<1> HIDE DEF X, Y
<1>5. /\ DiffX(v.direction, v.zoom) + m_width \in Int /\ m_width \in Int
      /\ DiffY(v.direction, v.zoom) + m_height \in Int /\ m_height \in Int
  BY <1>1, Differences, Sizes
<1>6. x \in Int /\ y \in Int
  BY <1>3, <1>5, AlongType
<1> HIDE DEF x, y
<1>7. moved \in Views
  BY <1>6 DEF Views
<1> HIDE DEF moved
<1>8. Scroll(moved, 0, 0) \in Views /\ OnMap(Scroll(moved, 0, 0))
  BY <1>7, ScrollStays
<1>9. QED
  BY <1>4, <1>8

-----------------------------------------------------------------------------
(* Steps *)

Widgets == {"map", "miniMap", "rotateLeft", "rotateRight"}

\* Some widget is under the mouse.
LEMMA OverWidget == \A p : Over(p) \in Widgets
BY DEF Over, Widgets

\* TypeOK and the view, as a step needs them.
ViewInv ==
  /\ view \in Views /\ (view = StartView \/ OnMap(view))
  /\ shifting \in BOOLEAN /\ dragging \in BOOLEAN /\ pressed \in BOOLEAN
  /\ mouse \in Point /\ focused \in Widgets \cup {"none"}

\* It says what the property says.
LEMMA ViewInvIsProperty == ViewInv => ViewStaysOnMap
BY DEF ViewInv, ViewStaysOnMap, TypeOK, Views, Widgets

\* The mouse is at a point of the screen.
LEMMA Points == \A p \in Point : p.x \in Int /\ p.y \in Int
BY Sizes

\* A game begins with the view of the mission.
LEMMA StartsThere == Init => ViewInv
<1>1. StartView \in Views
  BY Sizes DEF StartView, Views, Direction
<1>2. QED
  BY <1>1 DEF Init, ViewInv

\* A view that scroll gave, or the one before, is where it has to be.
LEMMA MotionStays ==
  ASSUME ViewInv, NEW p \in Point, MouseMotion(p)
  PROVE  view' \in Views /\ (view' = view \/ OnMap(view)')
<1> DEFINE shifted == IF shifting THEN Scroll(view, mouse.x - p.x, mouse.y - p.y) ELSE view
           n == [x |-> p.x - MiniMapX, y |-> p.y - MiniMapY]
<1>1. view \in Views
  BY DEF ViewInv
<1>2. mouse.x - p.x \in Int /\ mouse.y - p.y \in Int /\ n.x \in Int /\ n.y \in Int
  BY Points, Sizes DEF ViewInv
<1>3. shifted \in Views /\ (shifted = view \/ OnMap(shifted))
  BY <1>1, <1>2, ScrollStays
<1>4. view' = IF dragging' THEN Jump(shifted, n) ELSE shifted
  BY DEF MouseMotion
<1> HIDE DEF shifted, n
<1>5. Jump(shifted, n) \in Views /\ OnMap(Jump(shifted, n))
  BY <1>2, <1>3, JumpStays
<1>6. CASE dragging'
  BY <1>4, <1>5, <1>6 DEF OnMap
<1>7. CASE ~dragging'
  BY <1>3, <1>4, <1>7 DEF OnMap
<1>8. QED
  BY <1>6, <1>7

\* Every input and every frame keeps the view on the map.
LEMMA ViewStep == ViewInv /\ [Next]_vars => ViewInv'
<1> SUFFICES ASSUME ViewInv, [Next]_vars PROVE ViewInv'
  OBVIOUS
<1> USE DEF ViewInv
<1>1. ASSUME NEW scrollSpeed \in ScrollSpeeds, Update(scrollSpeed)
      PROVE  ViewInv'
  <2>1. \A n \in Int : Quotient(scrollSpeed * n, 10) \in Int
    <3>1. scrollSpeed \in Int
      BY ViewConstants DEF ViewConstants
    <3>2. \A n \in Int : scrollSpeed * n \in Int
      BY <3>1, Products
    <3>3. QED
      BY <3>2, QuotientType
  <2>2. ASSUME NEW dx \in Int, NEW dy \in Int, view' = Scroll(view, dx, dy)
        PROVE  view' \in Views /\ OnMap(view)'
    BY <2>2, ScrollStays DEF OnMap
  <2>3. PICK dx \in Int, dy \in Int : view' = Scroll(view, dx, dy)
    <3>1. /\ mouse.x - Tolerance \in Int /\ mouse.x - (m_width - Tolerance) \in Int
          /\ mouse.y - Tolerance \in Int /\ mouse.y - (m_height - Tolerance) \in Int
      BY Points, ViewConstants DEF ViewConstants
    <3>2. QED
      BY <1>1, <2>1, <3>1 DEF Update
  <2>4. view' \in Views /\ OnMap(view)'
    BY <2>2, <2>3
  <2>5. QED
    BY <1>1, <2>4 DEF Update
<1>2. ASSUME NEW p \in Point, MouseMotion(p) PROVE ViewInv'
  <2>1. view' \in Views /\ (view' = view \/ OnMap(view)')
    BY <1>2, MotionStays
  <2>2. /\ dragging' \in BOOLEAN /\ mouse' \in Point
        /\ UNCHANGED <<shifting, pressed, focused>>
    BY <1>2 DEF MouseMotion
  <2>3. view' = StartView \/ OnMap(view)'
    BY <2>1 DEF OnMap, StartView
  <2>4. QED
    BY <2>1, <2>2, <2>3
<1>3. ASSUME NEW withShift \in BOOLEAN, LeftDown(withShift) PROVE ViewInv'
  BY <1>3, OverWidget DEF LeftDown, OnMap, StartView
<1>4. CASE LeftUp
  <2>1. view' \in {view, RotateLeft(view), RotateRight(view)}
    BY <1>4 DEF LeftUp
  <2>2. view' \in Views /\ (view' = view \/ OnMap(view)')
    BY <2>1, RotationsStay DEF OnMap
  <2>3. view' = StartView \/ OnMap(view)'
    BY <2>2 DEF OnMap, StartView
  <2>4. QED
    BY <1>4, <2>2, <2>3 DEF LeftUp
<1>5. ASSUME NEW step \in {-1, 1}, Wheel(step) PROVE ViewInv'
  <2>1. Zoomed(view, step) \in Views /\ OnMap(Zoomed(view, step))
    <3>1. step \in Int
      OBVIOUS
    <3>2. QED
      BY <3>1, ZoomStays
  <2>2. view' = Zoomed(view, step)
    BY <1>5 DEF Wheel
  <2>3. view' \in Views /\ OnMap(view)'
    BY <2>1, <2>2 DEF OnMap
  <2>4. QED
    BY <1>5, <2>3, OverWidget DEF Wheel
<1>6. CASE UNCHANGED vars
  BY <1>6 DEF vars, OnMap, StartView
<1>7. QED
  BY <1>1, <1>2, <1>3, <1>4, <1>5, <1>6 DEF Next

\* Every input keeps drags to what began them.
LEMMA DragStep == ViewInv /\ DragsEnd /\ [Next]_vars => DragsEnd'
<1> SUFFICES ASSUME ViewInv, DragsEnd, [Next]_vars PROVE DragsEnd'
  OBVIOUS
<1> USE DEF ViewInv, DragsEnd
<1>1. ASSUME NEW scrollSpeed, Update(scrollSpeed) PROVE DragsEnd'
  BY <1>1 DEF Update, Over
<1>2. ASSUME NEW p \in Point, MouseMotion(p) PROVE DragsEnd'
  <2>1. mouse' = p /\ UNCHANGED <<shifting, pressed>> /\ (dragging' => dragging /\ Over(p) = "miniMap")
    BY <1>2 DEF MouseMotion
  <2>2. Over(mouse)' = Over(p)
    BY <2>1 DEF Over
  <2>3. QED
    BY <2>1, <2>2
<1>3. ASSUME NEW withShift \in BOOLEAN, LeftDown(withShift) PROVE DragsEnd'
  <2>1. Over(mouse)' = Over(mouse)
    BY <1>3 DEF LeftDown, Over
  <2>2. QED
    BY <1>3, <2>1 DEF LeftDown
<1>4. CASE LeftUp
  <2>1. ~dragging' /\ ~shifting'
    BY <1>4 DEF LeftUp
  <2>2. QED
    BY <2>1
<1>5. ASSUME NEW step, Wheel(step) PROVE DragsEnd'
  BY <1>5 DEF Wheel, Over
<1>6. CASE UNCHANGED vars
  BY <1>6 DEF vars, Over
<1>7. QED
  BY <1>1, <1>2, <1>3, <1>4, <1>5, <1>6 DEF Next

-----------------------------------------------------------------------------
(* Turning *)

\* Scrolling nowhere changes nothing on the map.
LEMMA ScrollNowhere ==
  ASSUME NEW v \in Views, OnMap(v)
  PROVE  Scroll(v, 0, 0) = v
<1>1. v.x \in Int /\ v.y \in Int /\ v.zoom \in 1 .. ZoomSteps
  BY DEF Views
<1>2. MinX(v.zoom) \in Int /\ MaxX(v.zoom) \in Int /\ MaxY(v.zoom) \in Int
  BY <1>1, Bounds
<1>3. /\ Clamped(v.x + 0, MinX(v.zoom), MaxX(v.zoom)) = v.x
      /\ Clamped(v.y + 0, 0, MaxY(v.zoom)) = v.y
  BY <1>1, <1>2 DEF Clamped, OnMap
<1>4. Scroll(v, 0, 0) = [v EXCEPT !.x = v.x, !.y = v.y]
  BY <1>3 DEF Scroll
<1>5. QED
  BY <1>4 DEF Views

\* Turning right and left shows the same corner again.
LEMMA TurnedBack ==
  ASSUME NEW v \in Views, Turnable(v), NEW w, w = RotateLeft(RotateRight(v))
  PROVE  /\ w.direction = v.direction
         /\ Magnitude(w.x - v.x) <=
              1 + Magnitude(Quotient(DiffX(v.direction, v.zoom),
                                     DiffY(Clockwise[v.direction], v.zoom)))
         /\ Magnitude(w.y - v.y) <=
              1 + Magnitude(Quotient(DiffY(v.direction, v.zoom),
                                     DiffX(Clockwise[v.direction], v.zoom)))
<1> DEFINE d == Clockwise[v.direction]
           hereX == DiffX(v.direction, v.zoom)
           hereY == DiffY(v.direction, v.zoom)
           thereX == DiffX(d, v.zoom)
           thereY == DiffY(d, v.zoom)
           right == TurnedRight(v)
           left == TurnedLeft(right)
<1>1. /\ v.direction \in Direction /\ v.zoom \in 1 .. ZoomSteps /\ v.x \in Int /\ v.y \in Int
      /\ d \in Direction /\ Counterclockwise[d] = v.direction
  BY DEF Views, Direction, Clockwise, Counterclockwise
<1>2. /\ hereX \in Int \ {0} /\ hereY \in Int \ {0}
      /\ thereX \in Int \ {0} /\ thereY \in Int \ {0}
  BY <1>1, Differences
<1>3. /\ right \in Views /\ right.direction = d /\ right.zoom = v.zoom
      /\ right.x = thereX - Quotient(v.y * thereX, hereY)
      /\ right.y = Quotient(v.x * thereY, hereX)
  <2>1. right = [v EXCEPT !.direction = d, !.x = thereX - Quotient(v.y * thereX, hereY),
                          !.y = Quotient(v.x * thereY, hereX)]
    BY DEF TurnedRight
  <2>2. right \in Views
    BY TurnedType
  <2>3. QED
    BY <2>1, <2>2 DEF Views
<1>4. /\ left \in Views /\ left.direction = v.direction /\ left.zoom = v.zoom
      /\ left.x = Quotient(right.y * hereX, thereY)
      /\ left.y = hereY - Quotient(right.x * hereY, thereX)
  <2>1. left = [right EXCEPT !.direction = v.direction, !.x = Quotient(right.y * hereX, thereY),
                             !.y = hereY - Quotient(right.x * hereY, thereX)]
    BY <1>1, <1>3 DEF TurnedLeft
  <2>2. left \in Views
    BY <1>3, TurnedType
  <2>3. QED
    BY <1>3, <2>1, <2>2 DEF Views
<1>5. /\ v.x \in Nat /\ v.x <= hereX /\ v.y \in Nat /\ v.y <= hereY
      /\ OnMap(v) /\ OnMap(right) /\ right.x >= 0 /\ right.y >= 0
  BY <1>1, <1>2 DEF Turnable
<1> HIDE DEF d, hereX, hereY, thereX, thereY, right, left
<1>6. hereX \in Nat \ {0} /\ hereY \in Nat \ {0}
  BY <1>2, <1>5
<1>7. /\ left.x \in 0 .. v.x
      /\ v.x - left.x <= 1 + Magnitude(Quotient(hereX, thereY))
  BY <1>2, <1>3, <1>4, <1>5, <1>6, Undone
<1>8. /\ left.y \in 0 .. v.y
      /\ v.y - left.y <= 1 + Magnitude(Quotient(hereY, thereX))
  BY <1>2, <1>3, <1>4, <1>5, <1>6, MirroredUndone
<1>9. OnMap(left)
  <2>1. MinX(v.zoom) \in Int /\ MaxX(v.zoom) \in Int /\ MaxY(v.zoom) \in Int /\ MinX(v.zoom) <= 0
    BY <1>1, Bounds
  <2>2. QED
    BY <1>1, <1>4, <1>5, <1>7, <1>8, <2>1 DEF OnMap
<1>10. w = left
  <2>1. RotateRight(v) = right
    BY <1>3, <1>5, ScrollNowhere DEF RotateRight, right
  <2>2. QED
    BY <1>4, <1>9, <2>1, ScrollNowhere DEF RotateLeft, left
<1>11. Magnitude(w.x - v.x) = v.x - left.x /\ Magnitude(w.y - v.y) = v.y - left.y
  BY <1>1, <1>7, <1>8, <1>10 DEF Magnitude
<1>12. QED
  BY <1>4, <1>7, <1>8, <1>10, <1>11 DEF hereX, hereY, thereX, thereY, d

-----------------------------------------------------------------------------
(* Zooming *)

\* A clamped number that is inside of the bounds was not clamped.
LEMMA Inside ==
  ASSUME NEW n \in Int, NEW low \in Int, NEW high \in Int,
         low < Clamped(n, low, high), Clamped(n, low, high) < high
  PROVE  Clamped(n, low, high) = n
BY DEF Clamped

\* Nothing but zooming changes the zoom.
LEMMA SameZoom ==
  ASSUME NEW v \in Views
  PROVE  /\ \A dx, dy : Scroll(v, dx, dy).zoom = v.zoom
         /\ RotateRight(v).zoom = v.zoom /\ RotateLeft(v).zoom = v.zoom
         /\ \A n : Jump(v, n).zoom = v.zoom
<1>1. ASSUME NEW w, w \in Views, NEW dx, NEW dy PROVE Scroll(w, dx, dy).zoom = w.zoom
  BY <1>1 DEF Scroll, Views
<1>2. RotateRight(v).zoom = v.zoom
  <2>1. TurnedRight(v) \in Views /\ TurnedRight(v).zoom = v.zoom
    BY TurnedType DEF TurnedRight, Views
  <2>2. QED
    BY <1>1, <2>1 DEF RotateRight
<1>3. RotateLeft(v).zoom = v.zoom
  <2>1. TurnedLeft(v) \in Views /\ TurnedLeft(v).zoom = v.zoom
    BY TurnedType DEF TurnedLeft, Views
  <2>2. QED
    BY <1>1, <2>1 DEF RotateLeft
<1>4. ASSUME NEW n PROVE Jump(v, n).zoom = v.zoom
  <2>1. \A x, y : Scroll([v EXCEPT !.x = x, !.y = y], 0, 0).zoom = v.zoom
    BY DEF Scroll, Views
  <2>2. \E x, y : Jump(v, n) = Scroll([v EXCEPT !.x = x, !.y = y], 0, 0)
    BY Zenon DEF Jump
  <2>3. QED
    BY <2>1, <2>2
<1>5. QED
  BY <1>1, <1>2, <1>3, <1>4

\* Where zooming scales an offset of the screen's centre to, and moves the corner to.
LEMMA ZoomCentres ==
  ASSUME NEW v \in Views, NEW step \in Int, NEW w, w = Zoomed(v, step)
  PROVE  /\ w.x \in 1 .. MaxX(w.zoom) - 1 =>
              w.x + m_width \div 2 = Quotient((v.x + m_width \div 2) * w.zoom, v.zoom)
         /\ w.y \in 1 .. MaxY(w.zoom) - 1 =>
              w.y + m_height \div 2 = Quotient((v.y + m_height \div 2) * w.zoom, v.zoom)
<1> DEFINE zoom == Clamped(v.zoom + step, 1, ZoomSteps)
           x == Quotient((v.x + m_width \div 2) * zoom, v.zoom)
           y == Quotient((v.y + m_height \div 2) * zoom, v.zoom)
           clampedX == Clamped(x - m_width \div 2, MinX(zoom), MaxX(zoom))
           clampedY == Clamped(y - m_height \div 2, 0, MaxY(zoom))
<1>1. v.zoom \in 1 .. ZoomSteps /\ v.x \in Int /\ v.y \in Int
  BY DEF Views
<1>2. zoom \in 1 .. ZoomSteps
  BY <1>1, Sizes DEF Clamped
<1>3. m_width \div 2 \in Int /\ m_height \div 2 \in Int
  BY Sizes
<1> HIDE DEF zoom
<1>4. x \in Int /\ y \in Int
  <2>1. zoom \in Int /\ v.zoom \in Int /\ v.zoom # 0
    BY <1>1, <1>2, Sizes
  <2>2. v.x + m_width \div 2 \in Int /\ v.y + m_height \div 2 \in Int
    BY <1>1, <1>3
  <2>3. (v.x + m_width \div 2) * zoom \in Int /\ (v.y + m_height \div 2) * zoom \in Int
    BY <2>1, <2>2, Products
  <2>4. QED
    BY <2>1, <2>3, QuotientType
<1> HIDE DEF x, y
<1>5. /\ w.zoom = zoom /\ w.y = clampedY
      /\ w.x = IF clampedX < 0 THEN 0 ELSE clampedX
  <2>1. /\ x + (-(m_width \div 2)) = x - m_width \div 2
        /\ y + (-(m_height \div 2)) = y - m_height \div 2
    BY <1>3, <1>4
  <2>2. Zoomed(v, step) =
          LET centred == Scroll([v EXCEPT !.zoom = zoom, !.x = x, !.y = y],
                                -(m_width \div 2), -(m_height \div 2))
          IN  [centred EXCEPT !.x = IF @ < 0 THEN 0 ELSE @]
    BY DEF Zoomed, zoom, x, y
  <2>3. QED
    BY <2>1, <2>2 DEF Scroll, Views
<1>6. /\ MinX(zoom) \in Int /\ MaxX(zoom) \in Int /\ MaxY(zoom) \in Int
      /\ MinX(zoom) <= 0 /\ 0 <= MaxX(zoom) /\ 0 <= MaxY(zoom)
  BY <1>2, Bounds
<1>7. x - m_width \div 2 \in Int /\ y - m_height \div 2 \in Int
  BY <1>3, <1>4
<1>8. ASSUME w.x \in 1 .. MaxX(w.zoom) - 1 PROVE w.x = x - m_width \div 2
  <2>1. clampedX \in Int
    BY <1>6, <1>7 DEF Clamped
  <2> HIDE DEF clampedX
  <2>2. w.x = clampedX /\ MinX(zoom) < clampedX /\ clampedX < MaxX(zoom)
    BY <1>5, <1>6, <1>8, <2>1
  <2>3. QED
    BY <1>6, <1>7, <2>2, Inside DEF clampedX
<1>9. ASSUME w.y \in 1 .. MaxY(w.zoom) - 1 PROVE w.y = y - m_height \div 2
  <2>1. clampedY \in Int
    BY <1>6, <1>7 DEF Clamped
  <2> HIDE DEF clampedY
  <2>2. w.y = clampedY /\ 0 < clampedY /\ clampedY < MaxY(zoom)
    BY <1>5, <1>6, <1>9, <2>1
  <2>3. QED
    BY <1>6, <1>7, <2>2, Inside DEF clampedY
<1>10. QED
  BY <1>3, <1>4, <1>5, <1>8, <1>9 DEF x, y

\* What an offset of the centre becomes is less than a pixel from where it should be.
LEMMA CentreIsNear ==
  ASSUME NEW n \in Int, NEW half \in Int, NEW from \in 1 .. ZoomSteps, NEW to \in 1 .. ZoomSteps,
         NEW m, m \in Int, m + half = Quotient((n + half) * to, from)
  PROVE  Magnitude((n + half) * to - (m + half) * from) < from
<1>1. from \in Nat \ {0} /\ to \in Int /\ n + half \in Int
  BY Sizes
<1>2. (n + half) * to \in Int
  BY <1>1, Products
<1>3. QED
  BY <1>1, <1>2, QuotientNear

\* A step that changes the zoom is one of the wheel.
LEMMA OnlyTheWheelZooms ==
  ASSUME ViewInv, [Next]_vars, view'.zoom # view.zoom
  PROVE  \E step \in Int : view' = Zoomed(view, step)
<1> USE DEF ViewInv
<1>1. ASSUME NEW scrollSpeed \in ScrollSpeeds, Update(scrollSpeed)
      PROVE  FALSE
  BY <1>1, SameZoom DEF Update
<1>2. ASSUME NEW p \in Point, MouseMotion(p) PROVE FALSE
  <2> DEFINE shifted == IF shifting THEN Scroll(view, mouse.x - p.x, mouse.y - p.y) ELSE view
             n == [x |-> p.x - MiniMapX, y |-> p.y - MiniMapY]
  <2>1. mouse.x - p.x \in Int /\ mouse.y - p.y \in Int
    BY Points
  <2>2. shifted \in Views /\ shifted.zoom = view.zoom
    BY <2>1, ScrollStays, SameZoom
  <2>3. view' = IF dragging' THEN Jump(shifted, n) ELSE shifted
    BY <1>2 DEF MouseMotion
  <2> HIDE DEF shifted, n
  <2>4. Jump(shifted, n).zoom = shifted.zoom
    BY <2>2, SameZoom
  <2>5. QED
    BY <2>2, <2>3, <2>4
<1>3. ASSUME NEW withShift \in BOOLEAN, LeftDown(withShift) PROVE FALSE
  BY <1>3 DEF LeftDown
<1>4. CASE LeftUp
  <2>1. view' \in {view, RotateLeft(view), RotateRight(view)}
    BY <1>4 DEF LeftUp
  <2>2. QED
    BY <2>1, SameZoom
<1>5. ASSUME NEW step \in {-1, 1}, Wheel(step)
      PROVE  \E s \in Int : view' = Zoomed(view, s)
  BY <1>5 DEF Wheel
<1>6. CASE UNCHANGED vars
  BY <1>6 DEF vars
<1>7. QED
  BY <1>1, <1>2, <1>3, <1>4, <1>5, <1>6 DEF Next

\* A step of the wheel keeps what is in the middle of the screen.
LEMMA WheelKeepsCentre ==
  ASSUME ViewInv, ViewInv', [Next]_vars, view'.zoom # view.zoom
  PROVE  /\ view'.x \in 1 .. MaxX(view'.zoom) - 1 =>
              Magnitude((view.x + m_width \div 2) * view'.zoom
                        - (view'.x + m_width \div 2) * view.zoom) < view.zoom
         /\ view'.y \in 1 .. MaxY(view'.zoom) - 1 =>
              Magnitude((view.y + m_height \div 2) * view'.zoom
                        - (view'.y + m_height \div 2) * view.zoom) < view.zoom
<1>1. PICK step \in Int : view' = Zoomed(view, step)
  BY OnlyTheWheelZooms
<1>2. view \in Views /\ view' \in Views
  BY DEF ViewInv
<1>3. /\ view.zoom \in 1 .. ZoomSteps /\ view'.zoom \in 1 .. ZoomSteps
      /\ view.x \in Int /\ view.y \in Int /\ view'.x \in Int /\ view'.y \in Int
      /\ m_width \div 2 \in Int /\ m_height \div 2 \in Int
  BY <1>2, Sizes DEF Views
<1>4. /\ view'.x \in 1 .. MaxX(view'.zoom) - 1 =>
           view'.x + m_width \div 2 = Quotient((view.x + m_width \div 2) * view'.zoom, view.zoom)
      /\ view'.y \in 1 .. MaxY(view'.zoom) - 1 =>
           view'.y + m_height \div 2 = Quotient((view.y + m_height \div 2) * view'.zoom, view.zoom)
  BY <1>1, <1>2, ZoomCentres
<1>5. QED
  BY <1>3, <1>4, CentreIsNear

-----------------------------------------------------------------------------
(* Drawing *)

\* What NegMod gives of a natural.
LEMMA RestType ==
  ASSUME NEW n \in Nat, NEW m \in Nat \ {0}
  PROVE  /\ Quotient(n, m) \in Nat /\ NegMod(n, m) \in 0 .. m - 1
         /\ n = m * Quotient(n, m) + NegMod(n, m)
<1> DEFINE q == Quotient(n, m)
<1>1. q \in Nat /\ q * m <= n /\ n < q * m + m
  BY Divides
<1>2. NegMod(n, m) = n - m * q
  BY DEF NegMod, Remainder
<1> HIDE DEF q
<1>3. m * q = q * m /\ q * m \in Int
  BY <1>1
<1>4. QED
  BY <1>1, <1>2, <1>3 DEF q

\* A multiple that is smaller than what it is a multiple of is 0.
LEMMA NoMultiple ==
  ASSUME NEW k \in Int, NEW m \in Nat \ {0}, -m < m * k, m * k < m
  PROVE  k = 0
<1>1. k >= 1 => m * k >= m
  OBVIOUS
<1>2. k <= -1 => m * k <= -m
  OBVIOUS
<1>3. QED
  BY <1>1, <1>2

\* The rest of a half.
LEMMA RestOfHalf ==
  ASSUME NEW n \in Nat, NEW m \in Nat \ {0}
  PROVE  NegMod(n, m) = IF NegMod(n, 2 * m) >= m THEN NegMod(n, 2 * m) - m ELSE NegMod(n, 2 * m)
<1> DEFINE q == Quotient(n, m)
           r == NegMod(n, m)
           a == Quotient(n, 2 * m)
           s == NegMod(n, 2 * m)
<1>1. q \in Nat /\ r \in 0 .. m - 1 /\ n = m * q + r
  BY RestType
<1>2. 2 * m \in Nat \ {0}
  OBVIOUS
<1>3. a \in Nat /\ s \in 0 .. 2 * m - 1 /\ n = 2 * m * a + s
  BY <1>2, RestType
<1> HIDE DEF q, r, a, s
<1>4. m * (q - 2 * a) = m * q - 2 * m * a
  BY <1>1, <1>3
<1>5. m * (q - 2 * a - 1) = m * q - 2 * m * a - m
  BY <1>1, <1>3
<1>6. m * q \in Int /\ 2 * m * a \in Int /\ q - 2 * a \in Int /\ q - 2 * a - 1 \in Int
  BY <1>1, <1>3
<1>7. CASE s < m
  <2>1. q - 2 * a = 0
    BY <1>1, <1>3, <1>4, <1>6, <1>7, NoMultiple
  <2>2. m * (q - 2 * a) = 0
    BY <2>1
  <2>3. r = s
    BY <1>1, <1>3, <1>4, <1>6, <2>2
  <2>4. QED
    BY <1>3, <1>7, <2>3 DEF r, s
<1>8. CASE s >= m
  <2>1. q - 2 * a - 1 = 0
    BY <1>1, <1>3, <1>5, <1>6, <1>8, NoMultiple
  <2>2. m * (q - 2 * a - 1) = 0
    BY <2>1
  <2>3. r = s - m
    BY <1>1, <1>3, <1>5, <1>6, <2>2
  <2>4. QED
    BY <1>3, <1>8, <2>3 DEF r, s
<1>9. QED
  BY <1>3, <1>7, <1>8

\* A zoomed tile has a positive size, and an even width.
LEMMA TileHalves ==
  ASSUME NEW zoom \in 1 .. ZoomSteps
  PROVE  /\ HalfTileHeight(zoom) \in Nat \ {0} /\ TileWidth(zoom) \div 2 \in Nat \ {0}
         /\ TileWidth(zoom) = 2 * (TileWidth(zoom) \div 2)
<1> DEFINE unit == tileWidth \div ZoomSteps
           half == halfTileHeight \div ZoomSteps
           pair == tileWidth \div (2 * ZoomSteps)
<1>1. /\ zoom \in Nat \ {0} /\ ZoomSteps \in Nat \ {0}
      /\ tileWidth \in Nat \ {0} /\ halfTileHeight \in Nat \ {0}
      /\ tileWidth % (2 * ZoomSteps) = 0 /\ halfTileHeight % ZoomSteps = 0
  BY Sizes, ViewConstants
<1>2. half \in Nat /\ halfTileHeight = ZoomSteps * half
  BY <1>1
<1>3. pair \in Nat /\ tileWidth = 2 * ZoomSteps * pair
  BY <1>1
<1> HIDE DEF half, pair
<1>4. half # 0 /\ pair # 0
  BY <1>1, <1>2, <1>3
<1>5. unit = 2 * pair
  <2>1. tileWidth = ZoomSteps * (2 * pair)
    BY <1>1, <1>3
  <2>2. \A n \in Nat : (ZoomSteps * n) \div ZoomSteps = n
    BY <1>1
  <2>3. 2 * pair \in Nat
    BY <1>3
  <2>4. QED
    BY <2>1, <2>2, <2>3
<1> HIDE DEF unit
<1>6. TileWidth(zoom) = 2 * (pair * zoom) /\ pair * zoom \in Nat \ {0}
  <2>1. TileWidth(zoom) = unit * zoom
    BY DEF TileWidth, unit
  <2>2. unit * zoom = 2 * (pair * zoom)
    BY <1>1, <1>3, <1>5
  <2>3. pair * zoom \in Nat \ {0}
    BY <1>1, <1>3, <1>4
  <2>4. QED
    BY <2>1, <2>2, <2>3
<1>7. \A n \in Nat : (2 * n) \div 2 = n
  OBVIOUS
<1>8. HalfTileHeight(zoom) = half * zoom /\ half * zoom \in Nat \ {0}
  <2>1. half * zoom \in Nat \ {0}
    BY <1>1, <1>2, <1>4
  <2>2. QED
    BY <2>1 DEF HalfTileHeight, half
<1>9. QED
  BY <1>6, <1>7, <1>8

\* The upper left corner of the screen in tiles of 2 * w by 2 * h pixels.
Corner(v, w, h, a, b, p, q) ==
  /\ w \in Nat \ {0} /\ h \in Nat \ {0} /\ a \in Nat /\ b \in Nat
  /\ p \in 0 .. 2 * w - 1 /\ q \in 0 .. 2 * h - 1
  /\ TileWidth(v.zoom) = 2 * w /\ TileWidth(v.zoom) \div 2 = w /\ HalfTileHeight(v.zoom) = h
  /\ Quotient(v.x, 2 * w) = b /\ NegMod(v.x, 2 * w) = p /\ v.x = 2 * w * b + p
  /\ Quotient(v.y, 2 * h) = a /\ NegMod(v.y, 2 * h) = q /\ v.y = 2 * h * a + q
  /\ NegMod(v.y, h) = IF q >= h THEN q - h ELSE q

\* Every offset that is not negative has one.
LEMMA HasCorner ==
  ASSUME NEW v \in Views, v.x >= 0, v.y >= 0
  PROVE  \E w, h, a, b, p, q : Corner(v, w, h, a, b, p, q)
<1> DEFINE w == TileWidth(v.zoom) \div 2
           h == HalfTileHeight(v.zoom)
<1>1. v.zoom \in 1 .. ZoomSteps /\ v.x \in Nat /\ v.y \in Nat
  BY DEF Views
<1>2. w \in Nat \ {0} /\ h \in Nat \ {0} /\ TileWidth(v.zoom) = 2 * w
  BY <1>1, TileHalves
<1> HIDE DEF w, h
<1>3. 2 * w \in Nat \ {0} /\ 2 * h \in Nat \ {0}
  BY <1>2
<1>4. Corner(v, w, h, Quotient(v.y, 2 * h), Quotient(v.x, 2 * w),
             NegMod(v.x, 2 * w), NegMod(v.y, 2 * h))
  <2>1. /\ Quotient(v.x, 2 * w) \in Nat /\ NegMod(v.x, 2 * w) \in 0 .. 2 * w - 1
        /\ v.x = 2 * w * Quotient(v.x, 2 * w) + NegMod(v.x, 2 * w)
    BY <1>1, <1>3, RestType
  <2>2. /\ Quotient(v.y, 2 * h) \in Nat /\ NegMod(v.y, 2 * h) \in 0 .. 2 * h - 1
        /\ v.y = 2 * h * Quotient(v.y, 2 * h) + NegMod(v.y, 2 * h)
    BY <1>1, <1>3, RestType
  <2>3. NegMod(v.y, h) =
          IF NegMod(v.y, 2 * h) >= h THEN NegMod(v.y, 2 * h) - h ELSE NegMod(v.y, 2 * h)
    BY <1>1, <1>2, RestOfHalf
  <2>4. TileWidth(v.zoom) \div 2 = w /\ HalfTileHeight(v.zoom) = h
    BY DEF w, h
  <2>5. QED
    BY <1>2, <2>1, <2>2, <2>3, <2>4, Zenon DEF Corner
<1>5. QED
  BY <1>4

\* The first line begins up to two lines above the screen, with a tile whose row and column
\* say where.
LEMMA FirstTileIs ==
  ASSUME NEW v, NEW w, NEW h, NEW a, NEW b, NEW p, NEW q, Corner(v, w, h, a, b, p, q)
  PROVE  LET first == FirstTile(v)
         IN  /\ first.state \in {0, 1} /\ first.col \in Int /\ first.row \in Int
             /\ first.y \in Int /\ first.y <= 0
             /\ first.row - first.col = 2 * b + first.state - 1
             /\ first.y = h * (first.row + first.col - 2 - 2 * a) - q
<1> DEFINE v1 == q >= h
           v2 == p >= w
           state == IF v1 = v2 THEN 1 ELSE 0
           col == (a - b) + (IF v2 THEN IF v1 THEN -2 ELSE 1 ELSE 0) + (IF v1 THEN 2 ELSE 0)
           row == (a + b) + (IF v2 /\ v1 THEN -1 ELSE 0) + (IF v1 THEN 1 ELSE 0)
           y == -(IF q >= h THEN q - h ELSE q) - state * 2 * h - (IF v2 THEN h ELSE 0)
<1> USE DEF Corner
<1>1. /\ FirstTile(v).state = state /\ FirstTile(v).col = col /\ FirstTile(v).row = row
      /\ FirstTile(v).y = y
  BY DEF FirstTile
<1>2. /\ a \in Nat /\ b \in Nat /\ w \in Nat \ {0} /\ h \in Nat \ {0}
      /\ p \in 0 .. 2 * w - 1 /\ q \in 0 .. 2 * h - 1
  OBVIOUS
<1>3. /\ state \in {0, 1} /\ col \in Int /\ row \in Int
      /\ row - col = 2 * b + state - 1
  BY <1>2
<1>4. y \in Int /\ y <= 0 /\ y = h * (row + col - 2 - 2 * a) - q
  <2>1. CASE v1 /\ v2
    <3>1. y = -(q - h) - 2 * h - h /\ row + col - 2 - 2 * a = -2
      BY <1>2, <2>1
    <3>2. QED
      BY <1>2, <3>1, <2>1
  <2>2. CASE v1 /\ ~v2
    <3>1. y = -(q - h) /\ row + col - 2 - 2 * a = 1
      BY <1>2, <2>2
    <3>2. QED
      BY <1>2, <3>1, <2>2
  <2>3. CASE ~v1 /\ v2
    <3>1. y = -q - h /\ row + col - 2 - 2 * a = -1
      BY <1>2, <2>3
    <3>2. QED
      BY <1>2, <3>1, <2>3
  <2>4. CASE ~v1 /\ ~v2
    <3>1. y = -q - 2 * h /\ row + col - 2 - 2 * a = -2
      BY <1>2, <2>4
    <3>2. QED
      BY <1>2, <3>1, <2>4
  <2>5. QED
    BY <2>1, <2>2, <2>3, <2>4
<1>5. QED
  BY <1>1, <1>3, <1>4

\* Every further line begins at the left edge of the screen or up to a tile to the left of
\* it, where its first tile belongs.
LEMMA LineStartIs ==
  ASSUME NEW v, NEW w, NEW h, NEW a, NEW b, NEW p, NEW q, Corner(v, w, h, a, b, p, q),
         NEW n \in Nat \ {0}
  PROVE  LET first == FirstTile(v)
             start == LineStart(v, n)
         IN  /\ start.col \in Int /\ start.row \in Int /\ start.x \in Int
             /\ -(2 * w) < start.x + w /\ start.x <= 0
             /\ start.row + start.col = first.row + first.col + n
             /\ start.x = w * (start.row - start.col - 2 * b) - p
             /\ start.y = first.y + n * h
             /\ start.y = h * (start.row + start.col - 2 - 2 * a) - q
<1> DEFINE first == FirstTile(v)
           start == LineStart(v, n)
           deep == (n + 1 - first.state) \div 2
           left == (first.state + n) % 2 = 0
<1>1. /\ first.state \in {0, 1} /\ first.col \in Int /\ first.row \in Int
      /\ first.y \in Int
      /\ first.row - first.col = 2 * b + first.state - 1
      /\ first.y = h * (first.row + first.col - 2 - 2 * a) - q
  BY FirstTileIs
<1>2. /\ start.col = first.col + (n - deep) /\ start.row = first.row + deep
      /\ start.x = -p - (IF left THEN w ELSE 0) /\ start.y = first.y + n * h
  BY DEF LineStart, Corner
<1>3. /\ a \in Nat /\ b \in Nat /\ w \in Nat \ {0} /\ h \in Nat \ {0}
      /\ p \in 0 .. 2 * w - 1 /\ q \in 0 .. 2 * h - 1
  BY DEF Corner
<1> HIDE DEF first, start
<1>4. deep \in Int /\ first.state - 1 + 2 * deep - n = IF left THEN -1 ELSE 0
  <2>1. n + 1 - first.state \in Int /\ first.state + n \in Int
    BY <1>1
  <2>2. \A k \in Int : k \div 2 \in Int /\ (k = 2 * (k \div 2) \/ k = 2 * (k \div 2) + 1)
    OBVIOUS
  <2>3. \A k \in Int : k % 2 = 0 <=> k = 2 * (k \div 2)
    OBVIOUS
  <2>4. CASE n + 1 - first.state = 2 * deep
    <3>1. ~left
      <4>1. first.state + n = 2 * (deep + first.state - 1) + 1
        BY <1>1, <2>1, <2>2, <2>4
      <4>2. deep + first.state - 1 \in Int
        BY <1>1, <2>1, <2>2
      <4>3. \A k \in Int : (2 * k + 1) % 2 # 0
        OBVIOUS
      <4>4. QED
        BY <4>1, <4>2, <4>3
    <3>2. QED
      BY <1>1, <2>1, <2>2, <2>4, <3>1
  <2>5. CASE n + 1 - first.state = 2 * deep + 1
    <3>1. left
      <4>1. first.state + n = 2 * (deep + first.state)
        BY <1>1, <2>1, <2>2, <2>5
      <4>2. deep + first.state \in Int
        BY <1>1, <2>1, <2>2
      <4>3. \A k \in Int : (2 * k) % 2 = 0
        OBVIOUS
      <4>4. QED
        BY <4>1, <4>2, <4>3
    <3>2. QED
      BY <1>1, <2>1, <2>2, <2>5, <3>1
  <2>6. QED
    BY <2>1, <2>2, <2>4, <2>5
<1> HIDE DEF deep, left
<1>5. start.row - start.col - 2 * b = IF left THEN -1 ELSE 0
  BY <1>1, <1>2, <1>3, <1>4
<1>6. start.x = w * (start.row - start.col - 2 * b) - p
  <2>1. CASE left
    <3>1. w * (start.row - start.col - 2 * b) = -w
      BY <1>3, <1>5, <2>1
    <3>2. QED
      BY <1>2, <1>3, <2>1, <3>1
  <2>2. CASE ~left
    <3>1. w * (start.row - start.col - 2 * b) = 0
      BY <1>3, <1>5, <2>2
    <3>2. QED
      BY <1>2, <1>3, <2>2, <3>1
  <2>3. QED
    BY <2>1, <2>2
<1>7. start.row + start.col = first.row + first.col + n
  BY <1>1, <1>2, <1>4
<1>8. start.y = h * (start.row + start.col - 2 - 2 * a) - q
  <2> DEFINE k == first.row + first.col - 2 - 2 * a
  <2>1. k \in Int /\ start.row + start.col - 2 - 2 * a = k + n
    BY <1>1, <1>2, <1>3, <1>4, <1>7
  <2> HIDE DEF k
  <2>2. h * (k + n) = h * k + n * h
    BY <1>3, <2>1
  <2>3. first.y = h * k - q /\ start.y = first.y + n * h
    BY <1>1, <1>2 DEF k
  <2>4. h * k \in Int /\ n * h \in Int
    BY <1>3, <2>1
  <2>5. QED
    BY <1>3, <2>1, <2>2, <2>3, <2>4
<1>9. /\ start.col \in Int /\ start.row \in Int /\ start.x \in Int
      /\ -(2 * w) < start.x + w /\ start.x <= 0
  BY <1>1, <1>2, <1>3, <1>4
<1>10. QED
  BY <1>2, <1>6, <1>7, <1>8, <1>9 DEF first, start

\* A step is one of those it takes to a bound just if it stays below it.
LEMMA StepsReach ==
  ASSUME NEW n \in Int, NEW size \in Nat \ {0}, NEW bound \in Int, NEW k \in Nat,
         n + k * size < bound
  PROVE  Steps(n, size, bound) \in Int /\ k <= Steps(n, size, bound) - 1
<1> DEFINE room == bound - n - 1
<1>1. k * size \in Nat
  BY Products
<1>2. n < bound /\ room \in Nat /\ k * size <= room
  BY <1>1
<1>3. Steps(n, size, bound) = (room \div size) + 1
  BY <1>2 DEF Steps
<1> HIDE DEF room
<1>4. Quotient(room, size) \in Nat /\ Quotient(room, size) = room \div size
      /\ room < Quotient(room, size) * size + size
  BY <1>2, Divides
<1>5. k <= Quotient(room, size)
  <2>1. (Quotient(room, size) + 1) * size = Quotient(room, size) * size + size
    BY <1>4
  <2>2. Quotient(room, size) * size \in Nat /\ Quotient(room, size) + 1 \in Int
    BY <1>4, Products
  <2>3. k * size < (Quotient(room, size) + 1) * size
    BY <1>1, <1>2, <1>4, <2>1, <2>2
  <2>4. k < Quotient(room, size) + 1
    BY <2>2, <2>3, Cancel
  <2>5. QED
    BY <1>4, <2>4
<1>6. QED
  BY <1>3, <1>4, <1>5

\* A tile that is i places further in its line is where it belongs, if the first one is.
LEMMA FurtherInLine ==
  ASSUME NEW v \in Views, NEW w, NEW h, NEW a, NEW b, NEW p, NEW q,
         Corner(v, w, h, a, b, p, q),
         NEW col \in Int, NEW row \in Int, NEW x, NEW y, NEW i \in Int,
         x = w * (row - col - 2 * b) - p, y = h * (row + col - 2 - 2 * a) - q
  PROVE  [col |-> col - i, row |-> row + i, x |-> x + i * TileWidth(v.zoom), y |-> y]
           = Placed(v, col - i, row + i)
<1>1. /\ a \in Nat /\ b \in Nat /\ w \in Nat /\ h \in Nat /\ p \in Nat /\ q \in Nat
      /\ TileWidth(v.zoom) = 2 * w /\ TileWidth(v.zoom) \div 2 = w /\ HalfTileHeight(v.zoom) = h
      /\ v.x = 2 * w * b + p /\ v.y = 2 * h * a + q
  BY DEF Corner
<1>2. x + i * (2 * w) = ((row + i) - (col - i)) * w - v.x
  BY <1>1
<1>3. y = ((row + i) + (col - i) - 2) * h - v.y
  BY <1>1
<1>4. QED
  BY <1>1, <1>2, <1>3 DEF Placed

\* Every tile of a further line is where it belongs.
LEMMA DrawnInPlace ==
  ASSUME NEW v \in Views, v.x >= 0, v.y >= 0, NEW tile \in Drawn(v), Visible(v, tile)
  PROVE  tile = Placed(v, tile.col, tile.row)
<1>1. PICK w, h, a, b, p, q : Corner(v, w, h, a, b, p, q)
  BY HasCorner
<1> DEFINE lines == Steps(FirstTile(v).y, HalfTileHeight(v.zoom), m_height + MaxImageHeight)
<1>2. tile \notin Line(v, FirstTile(v))
  <2>1. \A t \in Line(v, FirstTile(v)) : t.y = FirstTile(v).y
    BY DEF Line
  <2>2. FirstTile(v).y \in Int /\ FirstTile(v).y <= 0
    BY <1>1, FirstTileIs
  <2>3. tile.y > 0
    BY DEF Visible
  <2>4. QED
    BY <2>1, <2>2, <2>3
<1>3. PICK n \in 1 .. lines - 1 : tile \in Line(v, LineStart(v, n))
  BY <1>2 DEF Drawn
<1>4. n \in Nat \ {0}
  BY <1>3
<1> DEFINE start == LineStart(v, n)
           last == Steps(start.x, TileWidth(v.zoom), m_width) - 1
<1>5. PICK i \in 0 .. last :
        tile = [col |-> start.col - i, row |-> start.row + i,
                x |-> start.x + i * TileWidth(v.zoom), y |-> start.y]
  BY <1>3 DEF Line
<1>6. i \in Int
  BY <1>5
<1>7. /\ start.col \in Int /\ start.row \in Int
      /\ start.x = w * (start.row - start.col - 2 * b) - p
      /\ start.y = h * (start.row + start.col - 2 - 2 * a) - q
  BY <1>1, <1>4, LineStartIs
<1> HIDE DEF start, last
<1>8. tile = Placed(v, start.col - i, start.row + i)
  BY <1>1, <1>5, <1>6, <1>7, FurtherInLine
<1>9. tile.col = start.col - i /\ tile.row = start.row + i
  BY <1>5
<1>10. QED
  BY <1>8, <1>9

\* Every tile that can be seen is in one of the lines.
LEMMA PlacedIsDrawn ==
  ASSUME NEW v \in Views, v.x >= 0, v.y >= 0, NEW col \in Int, NEW row \in Int,
         Visible(v, Placed(v, col, row))
  PROVE  Placed(v, col, row) \in Drawn(v)
<1>1. PICK w, h, a, b, p, q : Corner(v, w, h, a, b, p, q)
  BY HasCorner
<1> DEFINE first == FirstTile(v)
           n == row + col - (first.row + first.col)
           start == LineStart(v, n)
           i == row - start.row
           tile == Placed(v, col, row)
           bound == m_height + MaxImageHeight
<1>2. /\ a \in Nat /\ b \in Nat /\ w \in Nat \ {0} /\ h \in Nat \ {0}
      /\ p \in 0 .. 2 * w - 1 /\ q \in 0 .. 2 * h - 1
      /\ TileWidth(v.zoom) = 2 * w /\ HalfTileHeight(v.zoom) = h
  BY <1>1 DEF Corner
<1>3. /\ first.col \in Int /\ first.row \in Int
      /\ first.y \in Int /\ first.y <= 0
      /\ first.y = h * (first.row + first.col - 2 - 2 * a) - q
  BY <1>1, FirstTileIs
<1>4. tile.col = col /\ tile.row = row
  BY DEF Placed
<1>5. /\ tile.x \in Int /\ tile.x > -(2 * w) /\ tile.x < m_width
      /\ tile.y \in Int /\ tile.y > 0 /\ tile.y < bound
  <2>1. v.x \in Int /\ v.y \in Int /\ v.zoom \in 1 .. ZoomSteps
    BY DEF Views
  <2>2. tile.x \in Int /\ tile.y \in Int
    BY <1>1, <1>2, <2>1 DEF Placed, Corner
  <2>3. QED
    BY <1>2, <2>2 DEF Visible
<1>6. bound \in Int /\ m_width \in Int
  BY Sizes, ImageAssumption
<1>7. tile.y = h * (row + col - 2 - 2 * a) - q
  <2>1. tile.y = (row + col - 2) * h - v.y /\ v.y = 2 * h * a + q
    BY <1>1 DEF Placed, Corner
  <2>2. QED
    BY <1>2, <2>1
<1>8. tile.x = w * (row - col - 2 * b) - p
  <2>1. tile.x = (row - col) * w - v.x /\ v.x = 2 * w * b + p
    BY <1>1 DEF Placed, Corner
  <2>2. QED
    BY <1>2, <2>1
<1> HIDE DEF tile, first, bound
<1>9. n \in Int /\ tile.y = first.y + n * h
  <2> DEFINE k == first.row + first.col - 2 - 2 * a
  <2>1. k \in Int /\ n \in Int /\ row + col - 2 - 2 * a = k + n
    BY <1>2, <1>3
  <2> HIDE DEF k, n
  <2>2. h * (k + n) = h * k + n * h /\ h * k \in Int /\ n * h \in Int
    BY <1>2, <2>1
  <2>3. first.y = h * k - q
    BY <1>3 DEF k
  <2>4. QED
    BY <1>2, <1>7, <2>1, <2>2, <2>3
<1> HIDE DEF n
<1>10. n \in Nat \ {0}
  <2>1. n * h > 0
    BY <1>2, <1>3, <1>5, <1>9
  <2>2. n <= 0 => n * h <= 0
    BY <1>2, <1>9
  <2>3. QED
    BY <1>2, <1>9, <2>1, <2>2
<1>11. n \in 1 .. Steps(first.y, h, bound) - 1
  <2>1. first.y + n * h < bound /\ n \in Nat
    BY <1>5, <1>9, <1>10
  <2>2. Steps(first.y, h, bound) \in Int /\ n <= Steps(first.y, h, bound) - 1
    BY <1>2, <1>3, <1>6, <2>1, StepsReach
  <2>3. QED
    BY <1>10, <2>2
<1>12. /\ start.col \in Int /\ start.row \in Int /\ start.x \in Int
       /\ start.x <= 0
       /\ start.row + start.col = first.row + first.col + n
       /\ start.x = w * (start.row - start.col - 2 * b) - p
       /\ start.y = h * (start.row + start.col - 2 - 2 * a) - q
  BY <1>1, <1>10, LineStartIs DEF first
<1> HIDE DEF start
<1>13. i \in Int /\ row = start.row + i /\ col = start.col - i
  BY <1>3, <1>12 DEF n
<1> HIDE DEF i
<1>14. [col |-> start.col - i, row |-> start.row + i,
        x |-> start.x + i * TileWidth(v.zoom), y |-> start.y] = tile
  BY <1>1, <1>12, <1>13, FurtherInLine DEF tile
<1>15. tile.x = start.x + i * (2 * w)
  BY <1>2, <1>14
<1>16. i \in Nat
  <2>1. i * (2 * w) > -(2 * w)
    BY <1>2, <1>5, <1>12, <1>13, <1>15
  <2>2. i <= -1 => i * (2 * w) <= -(2 * w)
    BY <1>2, <1>13
  <2>3. QED
    BY <1>2, <1>13, <2>1, <2>2
<1>17. i \in 0 .. Steps(start.x, TileWidth(v.zoom), m_width) - 1
  <2>1. 2 * w \in Nat \ {0} /\ start.x + i * (2 * w) < m_width
    BY <1>2, <1>5, <1>15
  <2>2. i <= Steps(start.x, 2 * w, m_width) - 1 /\ Steps(start.x, 2 * w, m_width) \in Int
    BY <1>6, <1>12, <1>16, <2>1, StepsReach
  <2>3. QED
    BY <1>2, <1>16, <2>2
<1>18. tile \in Line(v, start)
  BY <1>14, <1>17 DEF Line
<1>19. QED
  BY <1>2, <1>11, <1>18 DEF Drawn, start, first, bound, tile

-----------------------------------------------------------------------------
(* Theorems *)

\* No input and no frame leaves the map, for every map that can be turned, every screen,
\* zoom and start position.
THEOREM TheViewStays == Spec => []ViewStaysOnMap
BY StartsThere, ViewStep, ViewInvIsProperty, PTL DEF Spec

\* No drag outlives the button, and none of the mini map the mouse's leaving it.
THEOREM EveryDragEnds == Spec => []DragsEnd
<1>1. Init => DragsEnd
  BY DEF Init, DragsEnd
<1>2. QED
  BY <1>1, StartsThere, ViewStep, DragStep, PTL DEF Spec

\* Zooming is centred: what is in the middle of the screen stays there to within a pixel,
\* unless the view would leave the map or get a negative offset.
THEOREM ZoomingIsCentred == Spec => ZoomKeepsCentre
<1>1. ViewInv /\ ViewInv' /\ [Next]_vars =>
        [ view'.zoom # view.zoom =>
            LET Same(old, new, half) ==
                  Magnitude((old + half) * view'.zoom - (new + half) * view.zoom) < view.zoom
            IN  /\ view'.x \in 1 .. MaxX(view'.zoom) - 1 => Same(view.x, view'.x, m_width \div 2)
                /\ view'.y \in 1 .. MaxY(view'.zoom) - 1 => Same(view.y, view'.y, m_height \div 2)
        ]_vars
  BY WheelKeepsCentre
<1>2. QED
  BY <1>1, StartsThere, ViewStep, PTL DEF Spec, ZoomKeepsCentre

\* Turning right and then left shows the same part of the map again, to within what the
\* turned range is too short for.
THEOREM RotatingBackUndoes == Spec => []RotationIsUndone
<1>1. ViewInv => RotationIsUndone
  <2> SUFFICES ASSUME ViewInv, Turnable(view),
                      NEW v, v = RotateLeft(RotateRight(view))
               PROVE  /\ v.direction = view.direction
                      /\ Magnitude(v.x - view.x) <=
                           1 + Magnitude(Quotient(DiffX(view.direction, view.zoom),
                                                  DiffY(Clockwise[view.direction], view.zoom)))
                      /\ Magnitude(v.y - view.y) <=
                           1 + Magnitude(Quotient(DiffY(view.direction, view.zoom),
                                                  DiffX(Clockwise[view.direction], view.zoom)))
    BY DEF RotationIsUndone
  <2>1. view \in Views
    BY DEF ViewInv
  <2>2. QED
    BY <2>1, TurnedBack
<1>2. QED
  BY <1>1, StartsThere, ViewStep, PTL DEF Spec

\* The picture is the map: for every offset that is not negative, zoom, map and screen, the
\* tiles that can be seen are drawn where they belong, and no other.
THEOREM TheMapIsDrawn == Spec => []PictureIsTheMap
<1>1. ViewInv => PictureIsTheMap
  <2> SUFFICES ASSUME ViewInv, view.x >= 0, view.y >= 0
               PROVE  { tile \in Drawn(view) : OfMap(tile) /\ Visible(view, tile) }
                        = { tile \in { Placed(view, col, row) :
                                       col \in 0 .. m_cols - 1, row \in 0 .. m_rows - 1 } :
                              Visible(view, tile) }
    BY DEF PictureIsTheMap
  <2>1. view \in Views
    BY DEF ViewInv
  <2>2. ASSUME NEW tile \in Drawn(view), OfMap(tile), Visible(view, tile)
        PROVE  /\ tile = Placed(view, tile.col, tile.row)
               /\ tile.col \in 0 .. m_cols - 1 /\ tile.row \in 0 .. m_rows - 1
    BY <2>1, <2>2, DrawnInPlace DEF OfMap
  <2>3. ASSUME NEW col \in 0 .. m_cols - 1, NEW row \in 0 .. m_rows - 1,
               Visible(view, Placed(view, col, row))
        PROVE  Placed(view, col, row) \in Drawn(view) /\ OfMap(Placed(view, col, row))
    <3>1. col \in Int /\ row \in Int
      OBVIOUS
    <3>2. Placed(view, col, row) \in Drawn(view)
      BY <2>1, <2>3, <3>1, PlacedIsDrawn
    <3>3. QED
      BY <3>2 DEF Placed, OfMap
  <2>4. QED
    BY <2>2, <2>3
<1>2. QED
  BY <1>1, StartsThere, ViewStep, PTL DEF Spec

=============================================================================
