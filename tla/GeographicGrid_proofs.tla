----------------------- MODULE GeographicGrid_proofs ------------------------
(***************************************************************************)
(* The grid covers the box (GridCovers), for every box, cell size, limit,  *)
(* smallest size and smallest radius, and for whatever the enlargement and *)
(* each growth by one per cent leave of the rows and columns.              *)
(*                                                                         *)
(* The argument has three parts.  The operators that choose a number are   *)
(* defined, because a nonempty set of naturals has a least one.  The rows  *)
(* and columns stay positive, and they are those of the size asked for     *)
(* unless that size gave too many cells (GridInv).  And of a box cut in k  *)
(* equal bands every point lies in one (Bands), from whose middle it is    *)
(* half a side away at most, which half the diagonal reaches (Reached).    *)
(***************************************************************************)
EXTENDS GeographicGrid, TLAPS, FiniteSetTheorems

-----------------------------------------------------------------------------
(* Arithmetic.                                                             *)

LEMMA LeastNumber ==
  ASSUME NEW T, T \subseteq Nat, T # {}
  PROVE  \E n \in T : \A m \in T : n <= m
<1>1. PICK n \in T : \A m \in T : <<m, n>> \notin OpToRel(<, Nat)
  BY NatLessThanWellFounded, WFMin, Zenon
<1>2. \A m \in T : ~(m < n)
  BY <1>1, Zenon DEF OpToRel
<1>3. QED
  BY <1>2

LEMMA TimesMonotonic ==
  \A k \in Nat, m, n \in Int : m <= n => k * m <= k * n /\ m * k <= n * k
  OBVIOUS

LEMMA SquareMonotonic == \A m, n \in Nat : m <= n => m * m <= n * n
<1> SUFFICES ASSUME NEW m \in Nat, NEW n \in Nat, m <= n PROVE m * m <= n * n
  OBVIOUS
<1>1. m * m <= m * n /\ m * n <= n * n
  BY TimesMonotonic
<1>2. QED
  BY <1>1

\* The square of a distance of at most k.
LEMMA SquareBound == \A d \in Int, k \in Nat : -k <= d /\ d <= k => d * d <= k * k
<1> SUFFICES ASSUME NEW d \in Int, NEW k \in Nat, -k <= d, d <= k PROVE d * d <= k * k
  OBVIOUS
<1>1. CASE d >= 0
  BY <1>1, SquareMonotonic
<1>2. CASE d < 0
  <2>1. (-d) * (-d) <= k * k
    BY <1>2, SquareMonotonic
  <2>2. (-d) * (-d) = d * d
    OBVIOUS
  <2>3. QED
    BY <2>1, <2>2
<1>3. QED
  BY <1>1, <1>2

LEMMA Quotient ==
  ASSUME NEW a \in Nat, NEW b \in Nat \ {0}
  PROVE  /\ a \div b \in Nat
         /\ (a \div b) * b <= a /\ a < (a \div b) * b + b
  OBVIOUS

LEMMA CeilingEnough ==
  ASSUME NEW a \in Nat \ {0}, NEW b \in Nat \ {0}
  PROVE  Ceiling(a, b) \in Nat \ {0} /\ a <= Ceiling(a, b) * b
<1> DEFINE q == (a + b - 1) \div b
<1>1. q \in Nat /\ q * b <= a + b - 1 /\ a + b - 1 < q * b + b
  <2>1. a + b - 1 \in Nat
    OBVIOUS
  <2>2. QED
    BY <2>1, Quotient
<1>2. q * b \in Nat /\ a <= q * b
  BY <1>1
<1>3. q # 0
  BY <1>2
<1>4. QED
  BY <1>1, <1>2, <1>3 DEF Ceiling

-----------------------------------------------------------------------------
(* The bands of a length.                                                  *)

LEMMA Bands ==
  ASSUME NEW n \in Nat \ {0}, NEW k \in Nat \ {0}, NEW y \in 0..n
  PROVE  \E r \in 0..k-1 : r * n <= y * k /\ y * k <= (r + 1) * n
<1>1. CASE y = n
  <2>1. (k - 1) * n <= y * k /\ y * k <= (k - 1 + 1) * n /\ k - 1 \in 0..k-1
    <3>1. (k - 1) * n <= k * n
      BY TimesMonotonic
    <3>2. k * n = y * k /\ k - 1 + 1 = k
      BY <1>1
    <3>3. QED
      BY <3>1, <3>2
  <2>2. QED
    BY <2>1
<1>2. CASE y < n
  <2> DEFINE r == (y * k) \div n
  <2>1. y * k \in Nat
    OBVIOUS
  <2>2. r \in Nat /\ r * n <= y * k /\ y * k < r * n + n
    BY <2>1, Quotient
  <2> HIDE DEF r
  <2>3. (r + 1) * n = r * n + n
    BY <2>2
  <2>4. r < k
    <3>1. SUFFICES ASSUME k <= r PROVE FALSE
      BY <2>2
    <3>2. k * n <= r * n
      BY <2>2, <3>1, TimesMonotonic
    <3>3. y * k <= (n - 1) * k
      BY <1>2, TimesMonotonic
    <3>4. (n - 1) * k = k * n - k
      OBVIOUS
    <3>5. k * n \in Int /\ r * n \in Int /\ y * k \in Int
      BY <2>2
    <3>6. QED
      BY <2>2, <3>2, <3>3, <3>4, <3>5
  <2>5. r \in 0..k-1
    BY <2>2, <2>4
  <2>6. y * k <= (r + 1) * n
    <3>1. r * n \in Int /\ y * k \in Int
      BY <2>2
    <3>2. QED
      BY <2>2, <2>3, <3>1
  <2>7. QED
    BY <2>2, <2>5, <2>6
<1>3. QED
  BY <1>1, <1>2

\* A point of a band is at most half the band's side from its middle: in halves of 1 / (k * j)
\* of the unit, when the other length is cut in j bands.
LEMMA FromMiddle ==
  ASSUME NEW n \in Nat, NEW k \in Nat, NEW j \in Nat, NEW y \in Nat, NEW r \in Nat,
         r * n <= y * k, y * k <= (r + 1) * n
  PROVE  LET d == 2 * y * k * j - (2 * r + 1) * (n * j)
         IN  d \in Int /\ d * d <= (n * j) * (n * j)
<1> DEFINE e == 2 * (y * k) - (2 * r + 1) * n
<1>1. e \in Int /\ -n <= e /\ e <= n
  <2>1. (2 * r + 1) * n = 2 * (r * n) + n /\ (r + 1) * n = r * n + n
    OBVIOUS
  <2>2. r * n \in Int /\ y * k \in Int
    OBVIOUS
  <2>3. QED
    BY <2>1, <2>2
<1>2. 2 * y * k * j - (2 * r + 1) * (n * j) = e * j
  OBVIOUS
<1> HIDE DEF e
<1>3. (-n) * j <= e * j /\ e * j <= n * j
  BY <1>1, TimesMonotonic
<1>4. e * j \in Int /\ n * j \in Nat /\ (-n) * j = -(n * j)
  BY <1>1
<1>5. (e * j) * (e * j) <= (n * j) * (n * j)
  BY <1>3, <1>4, SquareBound
<1>6. QED
  BY <1>2, <1>4, <1>5

-----------------------------------------------------------------------------
(* What the sizes and the radius are.                                      *)

LEMMA FewerType ==
  ASSUME NEW length \in Nat \ {0}, size \in Nat \ {0}, limit \in Nat \ {0},
         rows \in Nat \ {0}, columns \in Nat \ {0}, TooMany
  PROVE  Fewer(length) \in 1..Ceiling(length, size)
<1> DEFINE k == Ceiling(length, size)
           Enough(n) == n * n * size * size * rows * columns >= length * length * limit
           T == {n \in 1..k : Enough(n)}
<1>1. k \in Nat \ {0} /\ length <= k * size
  BY CeilingEnough
<1>2. Enough(k)
  <2>1. k * size \in Nat /\ length * length <= (k * size) * (k * size)
    BY <1>1, SquareMonotonic
  <2>2. rows * columns \in Nat /\ limit <= rows * columns
    BY DEF TooMany
  <2> HIDE DEF k
  <2> DEFINE s == (k * size) * (k * size)
             l == length * length
             m == rows * columns
  <2>3. s \in Nat /\ l \in Nat /\ m \in Nat /\ l <= s /\ limit <= m
    BY <1>1, <2>1, <2>2
  <2>4. k * k * size * size * rows * columns = s * m
    BY <1>1
  <2> HIDE DEF s, l, m
  <2>5. l * limit <= s * limit /\ s * limit <= s * m
    BY <2>3, TimesMonotonic
  <2>6. l * limit <= s * m
    <3>1. l * limit \in Int /\ s * limit \in Int /\ s * m \in Int
      BY <2>3
    <3>2. QED
      BY <2>5, <3>1
  <2>7. QED
    BY <2>4, <2>6 DEF l
<1>3. T \subseteq Nat /\ k \in T
  BY <1>1, <1>2
<1>4. PICK n \in T : \A m \in T : n <= m
  BY <1>3, LeastNumber
<1>5. \A m \in 1..n-1 : ~Enough(m)
  BY <1>1, <1>4
<1>6. \A m \in 1..n-1 :
        m * m * size * size * rows * columns < length * length * limit
  <2> SUFFICES ASSUME NEW m \in 1..n-1
               PROVE  m * m * size * size * rows * columns < length * length * limit
    OBVIOUS
  <2>1. m * m * size * size * rows * columns \in Int /\ length * length * limit \in Int
    BY <1>4
  <2>2. QED
    BY <1>5, <2>1
<1>7. \E p \in 1..Ceiling(length, size) :
        /\ p * p * size * size * rows * columns >= length * length * limit
        /\ \A m \in 1..p-1 : m * m * size * size * rows * columns < length * length * limit
  BY <1>4, <1>6
<1>8. QED
  BY <1>7 DEF Fewer

\* The longest radius tried reaches the corners of a cell.
LEMMA FarEnough ==
  ASSUME height \in Nat, width \in Nat, rows \in Nat \ {0}, columns \in Nat \ {0},
         NEW n \in Nat, height + width <= n
  PROVE  Reaches(n)
<1> DEFINE a == height * columns
           b == width * rows
           c == rows * columns
<1>1. a \in Nat /\ b \in Nat /\ c \in Nat
  OBVIOUS
<1>2. a + b <= n * c
  <2>1. height * 1 <= height * rows /\ width * 1 <= width * columns
    BY TimesMonotonic
  <2>2. height * columns <= (height * rows) * columns
    BY <2>1, TimesMonotonic
  <2>3. width * rows <= (width * columns) * rows
    BY <2>1, TimesMonotonic
  <2>4. (height * rows) * columns + (width * columns) * rows = (height + width) * c
    OBVIOUS
  <2>5. (height + width) * c <= n * c
    BY TimesMonotonic
  <2>6. /\ (height * rows) * columns \in Int /\ (width * columns) * rows \in Int
        /\ (height + width) * c \in Int /\ n * c \in Int
    OBVIOUS
  <2>7. QED
    BY <1>1, <2>2, <2>3, <2>4, <2>5, <2>6
<1>3. (a + b) * (a + b) <= (n * c) * (n * c)
  <2> HIDE DEF a, b, c
  <2>1. a + b \in Nat /\ n * c \in Nat
    BY <1>1
  <2>2. QED
    BY <1>2, <2>1, SquareMonotonic
<1>4. (a + b) * (a + b) = a * a + b * b + 2 * (a * b)
  OBVIOUS
<1>5. 4 * n * n * rows * rows * columns * columns = 4 * ((n * c) * (n * c))
  OBVIOUS
<1>6. a * b \in Nat /\ a * a \in Nat /\ b * b \in Nat /\ (n * c) * (n * c) \in Nat
  BY <1>1
<1>7. a * a + b * b <= 4 * ((n * c) * (n * c))
  BY <1>3, <1>4, <1>6
<1>8. QED
  BY <1>5, <1>7 DEF Reaches, CellHeight, CellWidth

LEMMA RadiusReaches ==
  ASSUME height \in Nat, width \in Nat, rows \in Nat \ {0}, columns \in Nat \ {0}
  PROVE  Radius \in Nat /\ Reaches(Radius)
<1> DEFINE k == AtLeast(MinRadius, height + width)
           T == {n \in MinRadius..k : Reaches(n)}
<1>1. k \in Nat /\ MinRadius \in Nat /\ MinRadius <= k /\ height + width <= k
  BY GridAssumption DEF GridAssumption, AtLeast
<1>2. k \in T
  BY <1>1, FarEnough
<1>3. T \subseteq Nat
  BY <1>1
<1>4. PICK n \in T : \A m \in T : n <= m
  BY <1>2, <1>3, LeastNumber
<1>5. Reaches(n) /\ n \in MinRadius..k /\ \A m \in MinRadius..n-1 : ~Reaches(m)
  BY <1>1, <1>4
<1>6. \E p \in MinRadius..AtLeast(MinRadius, height + width) :
        Reaches(p) /\ \A m \in MinRadius..p-1 : ~Reaches(m)
  BY <1>5
<1>7. Radius \in MinRadius..k /\ Reaches(Radius)
  BY <1>6 DEF Radius
<1>8. QED
  BY <1>1, <1>7

\* So the circle round a cell reaches every point within half its sides of its middle.
LEMMA Reached ==
  ASSUME height \in Nat, width \in Nat, rows \in Nat \ {0}, columns \in Nat \ {0},
         NEW dy \in Int, NEW dx \in Int,
         dy * dy <= CellHeight * CellHeight, dx * dx <= CellWidth * CellWidth
  PROVE  LET r == 2 * Radius * rows * columns IN dy * dy + dx * dx <= r * r
<1>1. Radius \in Nat /\ Reaches(Radius)
  BY RadiusReaches
<1> DEFINE n == Radius
<1>2. 4 * n * n * rows * rows * columns * columns
        = (2 * n * rows * columns) * (2 * n * rows * columns)
  BY <1>1
<1>3. /\ CellHeight * CellHeight \in Int /\ CellWidth * CellWidth \in Int
      /\ dy * dy \in Int /\ dx * dx \in Int
      /\ (2 * n * rows * columns) * (2 * n * rows * columns) \in Int
  BY <1>1 DEF CellHeight, CellWidth
<1>4. CellHeight * CellHeight + CellWidth * CellWidth
        <= (2 * n * rows * columns) * (2 * n * rows * columns)
  BY <1>1, <1>2 DEF Reaches
<1>5. QED
  BY <1>3, <1>4

\* As many cells as rows times columns.
LEMMA Cells ==
  ASSUME rows \in Nat \ {0}, columns \in Nat \ {0},
         cells = {[row |-> r, column |-> c] : r \in 0..rows-1, c \in 0..columns-1}
  PROVE  Cardinality(cells) = rows * columns
<1> DEFINE Pairs == (0..rows-1) \X (0..columns-1)
           f == [p \in Pairs |-> [row |-> p[1], column |-> p[2]]]
<1>1. /\ IsFiniteSet(0..rows-1) /\ Cardinality(0..rows-1) = rows
      /\ IsFiniteSet(0..columns-1) /\ Cardinality(0..columns-1) = columns
  BY FS_Interval
<1>2. IsFiniteSet(Pairs) /\ Cardinality(Pairs) = rows * columns
  BY <1>1, FS_Product
<1>3. f \in [Pairs -> cells]
  OBVIOUS
<1>4. f \in Injection(Pairs, cells)
  <2>1. ASSUME NEW p \in Pairs, NEW q \in Pairs, f[p] = f[q] PROVE p = q
    <3>1. f[p] = [row |-> p[1], column |-> p[2]] /\ f[q] = [row |-> q[1], column |-> q[2]]
      OBVIOUS
    <3>2. p[1] = q[1] /\ p[2] = q[2]
      BY <2>1, <3>1
    <3>3. QED
      BY <3>2
  <2>2. \A p, q \in Pairs : f[p] = f[q] => p = q
    BY <2>1
  <2>3. QED
    BY <1>3, <2>2 DEF Injection, IsInjective
<1>5. f \in Surjection(Pairs, cells)
  <2>1. ASSUME NEW c \in cells PROVE \E p \in Pairs : f[p] = c
    <3>1. PICK r \in 0..rows-1, k \in 0..columns-1 : c = [row |-> r, column |-> k]
      OBVIOUS
    <3>2. <<r, k>> \in Pairs /\ f[<<r, k>>] = c
      BY <3>1
    <3>3. QED
      BY <3>2
  <2>2. QED
    BY <1>3, <2>1 DEF Surjection
<1>6. ExistsBijection(Pairs, cells)
  BY <1>4, <1>5 DEF ExistsBijection, Bijection
<1>7. QED
  BY <1>2, <1>6, FS_Bijection

-----------------------------------------------------------------------------
(* The invariant.                                                          *)

GridTypeOK ==
  /\ step \in {"none", "asked", "measured", "enlarged", "cut"}
  /\ step # "none" =>
       /\ height \in Nat \ {0} /\ width \in Nat \ {0}
       /\ size \in Nat \ {0} /\ limit \in Nat \ {0}
  /\ step \in {"measured", "enlarged", "cut"} => rows \in Nat \ {0} /\ columns \in Nat \ {0}

AsAsked  == rows = Ceiling(height, size) /\ columns = Ceiling(width, size)
TooSmall == Ceiling(height, size) * Ceiling(width, size) > limit

GridInv ==
  /\ GridTypeOK
  /\ step = "measured" => AsAsked
  /\ step = "enlarged" => TooSmall
  /\ step = "cut" =>
       /\ cells = {[row |-> r, column |-> c] : r \in 0..rows-1, c \in 0..columns-1}
       /\ ~TooMany /\ (AsAsked \/ TooSmall)

LEMMA GridInitInv == GridInit => GridInv
  BY DEF GridInit, GridInv, GridTypeOK

LEMMA GridNextInv == GridInv /\ [GridNext]_gridVars => GridInv'
<1> SUFFICES ASSUME GridInv, [GridNext]_gridVars PROVE GridInv'
  OBVIOUS
<1>1. CASE AskGrid
  <2>1. PICK s \in Sizes, l \in Limits : size' = AtLeast(MinSize, s) /\ limit' = AtLeast(1, l)
    BY <1>1 DEF AskGrid
  <2>2. size' \in Nat \ {0} /\ limit' \in Nat \ {0}
    BY <2>1, GridAssumption DEF GridAssumption, AtLeast
  <2>3. step' = "asked" /\ height' \in Nat \ {0} /\ width' \in Nat \ {0}
    BY <1>1, GridAssumption DEF AskGrid, GridAssumption
  <2>4. QED
    BY <2>2, <2>3 DEF GridInv, GridTypeOK
<1>2. CASE Measure
  <2>1. /\ step = "asked" /\ step' = "measured" /\ UNCHANGED box
        /\ rows' = Ceiling(height, size) /\ columns' = Ceiling(width, size)
    BY <1>2 DEF Measure
  <2>2. rows' \in Nat \ {0} /\ columns' \in Nat \ {0}
    BY <2>1, CeilingEnough DEF GridInv, GridTypeOK
  <2>3. QED
    BY <2>1, <2>2 DEF GridInv, GridTypeOK, AsAsked, box, Ceiling
<1>3. CASE Enlarge
  <2>1. /\ step = "measured" /\ step' = "enlarged" /\ TooMany /\ UNCHANGED box
        /\ rows' = Fewer(height) /\ columns' = Fewer(width)
    BY <1>3 DEF Enlarge
  <2>2. /\ height \in Nat \ {0} /\ width \in Nat \ {0} /\ size \in Nat \ {0}
        /\ limit \in Nat \ {0} /\ rows \in Nat \ {0} /\ columns \in Nat \ {0} /\ AsAsked
    BY <2>1 DEF GridInv, GridTypeOK
  <2>3. rows' \in Nat \ {0} /\ columns' \in Nat \ {0}
    <3>1. rows' \in 1..Ceiling(height, size) /\ columns' \in 1..Ceiling(width, size)
      BY <2>1, <2>2, FewerType
    <3>2. Ceiling(height, size) \in Nat /\ Ceiling(width, size) \in Nat
      BY <2>2, CeilingEnough
    <3>3. QED
      BY <3>1, <3>2
  <2>4. TooSmall'
    BY <2>1, <2>2 DEF TooMany, AsAsked, TooSmall, box, Ceiling
  <2>5. QED
    BY <2>1, <2>2, <2>3, <2>4 DEF GridInv, GridTypeOK, box
<1>4. CASE Grow
  <2>1. /\ step = "enlarged" /\ UNCHANGED <<step, box>>
        /\ rows' \in 1..rows /\ columns' \in 1..columns
    BY <1>4 DEF Grow, OnePerCent
  <2>2. rows' \in Nat \ {0} /\ columns' \in Nat \ {0}
    BY <2>1 DEF GridInv, GridTypeOK
  <2>3. QED
    BY <2>1, <2>2 DEF GridInv, GridTypeOK, TooSmall, box, Ceiling
<1>5. CASE Cut
  <2>1. /\ step \in {"measured", "enlarged"} /\ step' = "cut" /\ ~TooMany
        /\ cells' = {[row |-> r, column |-> c] : r \in 0..rows-1, c \in 0..columns-1}
        /\ UNCHANGED <<box, rows, columns>>
    BY <1>5 DEF Cut
  <2>2. QED
    BY <2>1 DEF GridInv, GridTypeOK, AsAsked, TooSmall, TooMany, box, Ceiling
<1>6. CASE UNCHANGED gridVars
  BY <1>6 DEF gridVars, GridInv, GridTypeOK, AsAsked, TooSmall, TooMany, box, Ceiling
<1>7. QED
  BY <1>1, <1>2, <1>3, <1>4, <1>5, <1>6 DEF GridNext

-----------------------------------------------------------------------------
LEMMA InSomeCircle ==
  ASSUME GridInv, step = "cut", NEW y \in 0..height, NEW x \in 0..width
  PROVE  \E c \in cells : Holds(c, y, x) /\ InCircle(c, y, x)
<1>1. /\ height \in Nat \ {0} /\ width \in Nat \ {0}
      /\ rows \in Nat \ {0} /\ columns \in Nat \ {0}
      /\ cells = {[row |-> r, column |-> c] : r \in 0..rows-1, c \in 0..columns-1}
  BY DEF GridInv, GridTypeOK
<1>2. PICK r \in 0..rows-1 : r * height <= y * rows /\ y * rows <= (r + 1) * height
  BY <1>1, Bands
<1>3. PICK k \in 0..columns-1 : k * width <= x * columns /\ x * columns <= (k + 1) * width
  BY <1>1, Bands
<1> DEFINE c  == [row |-> r, column |-> k]
           dy == 2 * y * rows * columns - (2 * r + 1) * CellHeight
           dx == 2 * x * rows * columns - (2 * k + 1) * CellWidth
<1>4. c \in cells /\ c.row = r /\ c.column = k
  BY <1>1
<1>5. Holds(c, y, x)
  BY <1>2, <1>3, <1>4 DEF Holds
<1>6. dy \in Int /\ dy * dy <= CellHeight * CellHeight
  BY <1>1, <1>2, FromMiddle DEF CellHeight
<1>7. dx \in Int /\ dx * dx <= CellWidth * CellWidth
  <2>1. LET d == 2 * x * columns * rows - (2 * k + 1) * (width * rows)
        IN  d \in Int /\ d * d <= (width * rows) * (width * rows)
    BY <1>1, <1>3, FromMiddle
  <2>2. 2 * x * columns * rows = 2 * x * rows * columns
    BY <1>1
  <2>3. QED
    BY <2>1, <2>2 DEF CellWidth
<1>8. LET n == 2 * Radius * rows * columns IN dy * dy + dx * dx <= n * n
  <2> HIDE DEF dy, dx
  <2>1. QED
    BY <1>1, <1>6, <1>7, Reached
<1>9. InCircle(c, y, x)
  BY <1>4, <1>8 DEF InCircle
<1>10. QED
  BY <1>4, <1>5, <1>9

\* Whatever the box and the settings, and whatever the enlargement and the growth leave of
\* them, the cells are within GRID_MAX_CELLS, none exceeds the size asked for unless this
\* limit forced it, and every point of the box is in a cell whose search circle reaches it.
THEOREM GridCoversBox == GridSpec => []GridCovers
<1>1. GridInv => GridCovers
  <2> SUFFICES ASSUME GridInv, step = "cut"
               PROVE  /\ Cardinality(cells) = rows * columns /\ Cardinality(cells) <= limit
                      /\ \/ height <= rows * size /\ width <= columns * size
                         \/ Ceiling(height, size) * Ceiling(width, size) > limit
                      /\ \A y \in 0..height, x \in 0..width :
                           \E c \in cells : Holds(c, y, x) /\ InCircle(c, y, x)
    BY DEF GridCovers
  <2>1. /\ height \in Nat \ {0} /\ width \in Nat \ {0} /\ size \in Nat \ {0}
        /\ limit \in Nat \ {0} /\ rows \in Nat \ {0} /\ columns \in Nat \ {0}
        /\ ~TooMany /\ (AsAsked \/ TooSmall)
        /\ cells = {[row |-> r, column |-> c] : r \in 0..rows-1, c \in 0..columns-1}
    BY DEF GridInv, GridTypeOK
  <2>2. Cardinality(cells) = rows * columns
    BY <2>1, Cells
  <2>3. rows * columns <= limit
    BY <2>1 DEF TooMany
  <2>4. AsAsked => height <= rows * size /\ width <= columns * size
    BY <2>1, CeilingEnough DEF AsAsked
  <2>5. \A y \in 0..height, x \in 0..width :
          \E c \in cells : Holds(c, y, x) /\ InCircle(c, y, x)
    BY InSomeCircle
  <2>6. QED
    BY <2>1, <2>2, <2>3, <2>4, <2>5 DEF TooSmall
<1>2. QED
  BY <1>1, GridInitInv, GridNextInv, PTL DEF GridSpec

=============================================================================
