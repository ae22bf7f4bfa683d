--------------------------- MODULE GeographicGrid ---------------------------
(***************************************************************************)
(* generateGeographicGrid: the division of a city's bounding box into      *)
(* search cells, at most GRID_MAX_CELLS of them.                           *)
(*                                                                         *)
(* The box is given by its height and width in metres, from its corner;    *)
(* the edges of the cells are exact fractions of them, where the code      *)
(* rounds coordinates to a centimetre.  The square root and the growth by  *)
(* one per cent are not computed: a size is only known by the number of    *)
(* rows and columns it gives, and each growth may lose as many of them as  *)
(* one per cent can.  The width is the one the code computes at the middle *)
(* latitude; validateGeographicBounds has refused an empty box.            *)
(*                                                                         *)
(* HalfOfSide is a faulty variant of the operator defined after it; no     *)
(* action uses it.                                                         *)
(***************************************************************************)
EXTENDS Integers, FiniteSets

CONSTANTS
  Heights, Widths,   \* the boxes
  Sizes, Limits,     \* the values of GRID_CELL_SIZE_METERS and GRID_MAX_CELLS
  MinSize,           \* 500: the smallest cell
  MinRadius          \* 100: the smallest radius

ASSUME GridAssumption ==
  /\ Heights \subseteq Nat \ {0} /\ Widths \subseteq Nat \ {0}
  /\ Sizes \subseteq Int /\ Limits \subseteq Int
  /\ MinSize \in Nat \ {0} /\ MinRadius \in Nat \ {0}

VARIABLES
  step,
  height, width, size, limit,
  rows, columns,
  cells             \* row and column of each cell: sequence, edges and centre follow from them

box      == <<height, width, size, limit>>
gridVars == <<step, box, rows, columns, cells>>

AtLeast(low, n) == IF n < low THEN low ELSE n
Ceiling(a, b)   == (a + b - 1) \div b

GridInit ==
  /\ step = "none" /\ height = 0 /\ width = 0 /\ size = 0 /\ limit = 0
  /\ rows = 0 /\ columns = 0 /\ cells = {}

AskGrid ==
  /\ step = "none" /\ step' = "asked" /\ height' \in Heights /\ width' \in Widths
  /\ \E s \in Sizes, l \in Limits : size' = AtLeast(MinSize, s) /\ limit' = AtLeast(1, l)
  /\ UNCHANGED <<rows, columns, cells>>

Measure ==
  /\ step = "asked" /\ step' = "measured"
  /\ rows' = Ceiling(height, size) /\ columns' = Ceiling(width, size)
  /\ UNCHANGED <<box, cells>>

TooMany == rows * columns > limit

\* How many cells of size * sqrt(rows * columns / limit) a length takes.
Fewer(length) ==
  CHOOSE n \in 1..Ceiling(length, size) :
    /\ n * n * size * size * rows * columns >= length * length * limit
    /\ \A m \in 1..n-1 : m * m * size * size * rows * columns < length * length * limit

Enlarge ==
  /\ step = "measured" /\ TooMany /\ step' = "enlarged"
  /\ rows' = Fewer(height) /\ columns' = Fewer(width)
  /\ UNCHANGED <<box, cells>>

\* What may be left of n rows when the size grows by one per cent.
OnePerCent(n) == {m \in 1..n : 101 * m > 100 * (n - 1)}

Grow ==
  /\ step = "enlarged" /\ TooMany
  /\ rows' \in OnePerCent(rows) /\ columns' \in OnePerCent(columns)
  /\ UNCHANGED <<step, box, cells>>

Cut ==
  /\ step \in {"measured", "enlarged"} /\ ~TooMany /\ step' = "cut"
  /\ cells' = {[row |-> r, column |-> c] : r \in 0..rows-1, c \in 0..columns-1}
  /\ UNCHANGED <<box, rows, columns>>

GridNext == AskGrid \/ Measure \/ Enlarge \/ Grow \/ Cut

GridSpec == GridInit /\ [][GridNext]_gridVars

\* The sides of a cell, in 1 / (rows * columns) of a metre.
CellHeight == height * columns
CellWidth  == width * rows

\* Half of the longer side, rounded up.
HalfOfSide ==
  CHOOSE n \in MinRadius..AtLeast(MinRadius, height + width) :
    /\ 2 * n * rows * columns >= CellHeight /\ 2 * n * rows * columns >= CellWidth
    /\ \A m \in MinRadius..n-1 :
         2 * m * rows * columns < CellHeight \/ 2 * m * rows * columns < CellWidth
\* Half the diagonal, rounded up.
Reaches(n) ==
  4 * n * n * rows * rows * columns * columns >= CellHeight * CellHeight + CellWidth * CellWidth
Radius ==
  CHOOSE n \in MinRadius..AtLeast(MinRadius, height + width) :
    Reaches(n) /\ \A m \in MinRadius..n-1 : ~Reaches(m)

-----------------------------------------------------------------------------
(* Property.                                                               *)

\* A cell holds a point (y, x), in the same fractions, when it lies between its edges.
Holds(c, y, x) ==
  /\ c.row * height <= y * rows /\ y * rows <= (c.row + 1) * height
  /\ c.column * width <= x * columns /\ x * columns <= (c.column + 1) * width
\* Whether the circle round the cell's centre reaches the point.
InCircle(c, y, x) ==
  LET dy == 2 * y * rows * columns - (2 * c.row + 1) * CellHeight
      dx == 2 * x * rows * columns - (2 * c.column + 1) * CellWidth
      r  == 2 * Radius * rows * columns
  IN dy * dy + dx * dx <= r * r

\* The grid has at most GRID_MAX_CELLS cells, no cell exceeds the size asked for unless the
\* limit forced it, and every point of the box is in a cell whose search circle reaches it,
\* after whatever enlargement (shared/src/index.ts 129-172).
GridCovers ==
  step = "cut" =>
    /\ Cardinality(cells) = rows * columns /\ Cardinality(cells) <= limit
    /\ \/ height <= rows * size /\ width <= columns * size
       \/ Ceiling(height, size) * Ceiling(width, size) > limit
    /\ \A y \in 0..height, x \in 0..width :
         \E c \in cells : Holds(c, y, x) /\ InCircle(c, y, x)
=============================================================================
