------------------------------ MODULE TileGrid ------------------------------
(***************************************************************************)
(* Grid arithmetic of the XTD packages: how a grid is cut into tiles, how  *)
(* the coefficients of a tile are coded, and which four cells, with which  *)
(* weights, a point is interpolated from.                                  *)
(*                                                                         *)
(* Coordinates are counted in halves of a grid step, so that a point is    *)
(* either on a node or halfway between two: a fraction is 0, 1 or 2 halves *)
(* and a corner's weight a number of quarters.  A turn of longitude is     *)
(* Circle halves.                                                          *)
(***************************************************************************)
EXTENDS Integers, Sequences, FiniteSets

CONSTANTS Modulus,   \* 2^12 or 2^16 in the code: the width of a coefficient
          Circle     \* half steps in 360 degrees

ASSUME CodingAssumption == Modulus \in Nat /\ Modulus % 2 = 0 /\ Modulus > 0
ASSUME CircleAssumption == Circle \in Nat \ {0}

Less(a, b) == IF a < b THEN a ELSE b

-----------------------------------------------------------------------------
(* A grid g is [nx, ny, tw, th] cells; its tiles are numbered by rows. *)

Columns(g) == (g.nx + g.tw - 1) \div g.tw
Rows(g)    == (g.ny + g.th - 1) \div g.th
TileIds(g) == 0 .. Columns(g) * Rows(g) - 1

(* The tiles of the last column and row are cut at the edge of the grid. *)
TileWidth(g, id)  == Less(g.tw, g.nx - (id % Columns(g)) * g.tw)
TileHeight(g, id) == Less(g.th, g.ny - (id \div Columns(g)) * g.th)
Cells(g, id)      == 0 .. TileWidth(g, id) * TileHeight(g, id) - 1

(* Mutant: a row of tiles is taken to have a tile for every cell. *)
TileOfCells(g, x, y) == (y \div g.th) * g.nx + x \div g.tw

TileOf(g, x, y)  == (y \div g.th) * Columns(g) + x \div g.tw
(* Mutant: rows of a cut tile are taken to be as long as those of the rest. *)
LocalOfWholeRows(g, x, y) == (y % g.th) * g.tw + (x % g.tw)

LocalOf(g, x, y) == (y % g.th) * TileWidth(g, TileOf(g, x, y)) + (x % g.tw)

(* The grid cell behind a position of a tile: the author's side of LocalOf. *)
CellAt(g, id, k) ==
  << (id % Columns(g)) * g.tw + (k % TileWidth(g, id)),
     (id \div Columns(g)) * g.th + k \div TileWidth(g, id) >>

-----------------------------------------------------------------------------
(* Two-dimensional differences modulo Modulus, read back as signed values. *)

Signed(n) == LET r == n % Modulus
             IN  IF r >= Modulus \div 2 THEN r - Modulus ELSE r

(* Mutant: the sums are not brought back to the coded width. *)
DecodeUnwrapped(raw, w, h) ==
  LET down[k \in 0 .. w * h - 1] == IF k < w THEN raw[k] ELSE raw[k] + down[k - w]
      along[k \in 0 .. w * h - 1] ==
        IF k % w = 0 THEN down[k] ELSE down[k] + along[k - 1]
  IN  [k \in 0 .. w * h - 1 |-> along[k]]

(* The reader sums down the columns first, then along the rows. *)
Decode(raw, w, h) ==
  LET down[k \in 0 .. w * h - 1] ==
        IF k < w THEN raw[k] ELSE Signed(raw[k] + down[k - w])
      along[k \in 0 .. w * h - 1] ==
        IF k % w = 0 THEN down[k] ELSE Signed(down[k] + along[k - 1])
  IN  [k \in 0 .. w * h - 1 |-> along[k]]

(* The author differences along the rows, then down the columns. *)
Encode(values, w, h) ==
  LET row == [k \in 0 .. w * h - 1 |->
                IF k % w = 0 THEN values[k] ELSE values[k] - values[k - 1]]
  IN  [k \in 0 .. w * h - 1 |->
         Signed(IF k < w THEN row[k] ELSE row[k] - row[k - w])]

-----------------------------------------------------------------------------
(* A bracket [a, b, f] is the two nodes around a position and the halves   *)
(* it is past the first; outside the grid there is none.                   *)

NoBracket == [a |-> -1, b |-> -1, f |-> 0]

(* The tide's: the last node is the far end of the last interval. *)
TideBracket(p, n) ==
  IF p < 0 \/ p > 2 * (n - 1) THEN NoBracket
  ELSE IF p \div 2 = n - 1 THEN [a |-> n - 2, b |-> n - 1, f |-> 2]
  ELSE [a |-> p \div 2, b |-> p \div 2 + 1, f |-> p % 2]

(* The other components': a position on a node uses that node alone. *)
FieldBracket(p, n) ==
  IF p < 0 \/ p > 2 * (n - 1) THEN NoBracket
  ELSE IF p % 2 = 0 THEN [a |-> p \div 2, b |-> p \div 2, f |-> 0]
  ELSE [a |-> p \div 2, b |-> p \div 2 + 1, f |-> 1]

(* Longitude: a global grid wraps from its last node to its first, and a   *)
(* regional one takes the turn of the circle that starts at its origin.    *)
TideLongitude(lon, origin, n) ==
  LET p == (lon - origin) % Circle
  IN  IF 2 * n = Circle
      THEN [a |-> p \div 2, b |-> (p \div 2 + 1) % n, f |-> p % 2]
      ELSE TideBracket(p, n)

FieldLongitude(lon, origin, n) ==
  LET p == (lon - origin) % Circle
  IN  IF 2 * n # Circle THEN FieldBracket(p, n)
      ELSE IF p % 2 = 0 THEN [a |-> p \div 2, b |-> p \div 2, f |-> 0]
      ELSE [a |-> p \div 2, b |-> (p \div 2 + 1) % n, f |-> 1]

(* The four corners in the order they are fetched: << x, y, quarters >>. *)
Corners(bx, by) ==
  IF bx = NoBracket \/ by = NoBracket THEN << >>
  ELSE << << bx.a, by.a, (2 - bx.f) * (2 - by.f) >>,
          << bx.b, by.a, bx.f * (2 - by.f) >>,
          << bx.a, by.b, (2 - bx.f) * by.f >>,
          << bx.b, by.b, bx.f * by.f >> >>
=============================================================================
