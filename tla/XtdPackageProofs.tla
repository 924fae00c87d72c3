-------------------------- MODULE XtdPackageProofs --------------------------
(***************************************************************************)
(* Proofs about the reader of offline tidal packages, for every grid, file *)
(* and harm to it, and every request and option.                           *)
(*                                                                         *)
(* Parts 1 to 3 show that the corners of a point are in tiles the index    *)
(* has, parts 4 to 6 that using, inserting and evicting a tile keeps a     *)
(* cache coherent, part 7 what a request fetches, part 8 that what is      *)
(* decoded from a tile is what was written to it, part 9 that a point is   *)
(* interpolated from the nodes around it, part 10 the inductive invariant  *)
(* and what follows from it, and part 11 that the regions of an accepted   *)
(* file are apart.                                                         *)
(***************************************************************************)
EXTENDS XtdPackage, FiniteSetTheorems, WellFoundedInduction, TLAPS

-----------------------------------------------------------------------------
(* Part 1: the arithmetic of tiles. *)

LEMMA Division ==
  ASSUME NEW a \in Int, NEW m \in Nat \ {0}
  PROVE  /\ a \div m \in Int /\ a % m \in 0 .. m - 1
         /\ a = m * (a \div m) + (a % m)
OBVIOUS

LEMMA Product ==
  ASSUME NEW j \in Int, NEW k \in Int, NEW m \in Nat, j <= k
  PROVE  j * m <= k * m /\ j * m \in Int /\ k * m \in Int
OBVIOUS

(* A quotient and a remainder are the only ones there are.                 *)
LEMMA Quotient ==
  ASSUME NEW a \in Int, NEW m \in Nat \ {0}, NEW q \in Int, NEW r \in 0 .. m - 1, a = q * m + r
  PROVE  a \div m = q /\ a % m = r
<1>1. CASE q < a \div m
  <2>1. (q + 1) * m <= (a \div m) * m
    BY <1>1, Division, Product
  <2>. QED  BY <2>1, Division
<1>2. CASE a \div m < q
  <2>1. (a \div m + 1) * m <= q * m
    BY <1>2, Division, Product
  <2>. QED  BY <2>1, Division
<1>3. a \div m = q
  BY <1>1, <1>2, Division
<1>. QED  BY <1>3, Division

LEMMA Below ==
  ASSUME NEW a \in Int, NEW b \in Int, NEW m \in Nat \ {0}, a <= b
  PROVE  a \div m <= b \div m
<1>1. CASE b \div m < a \div m
  <2>1. (b \div m + 1) * m <= (a \div m) * m
    BY <1>1, Division, Product
  <2>. QED  BY <2>1, Division
<1>. QED  BY <1>1, Division

(* n cells are cut into as many tiles of m cells as it takes to reach the  *)
(* last one.                                                               *)
LEMMA TilesReach ==
  ASSUME NEW n \in Nat \ {0}, NEW m \in Nat \ {0}, NEW x \in 0 .. n - 1
  PROVE  /\ (n + m - 1) \div m \in Nat \ {0}
         /\ x \div m \in 0 .. ((n + m - 1) \div m) - 1
<1>1. 0 \div m = 0
  BY Quotient
<1>2. x \div m \in Nat
  BY <1>1, Below, Division
<1>3. (x + m) \div m = x \div m + 1
  <2>1. x + m = (x \div m + 1) * m + (x % m)
    BY Division
  <2>2. x + m \in Int /\ x \div m + 1 \in Int /\ x % m \in 0 .. m - 1
    BY <1>2, Division
  <2>. QED  BY <2>1, <2>2, Quotient
<1>4. (x + m) \div m <= (n + m - 1) \div m
  BY Below
<1>. QED  BY <1>2, <1>3, <1>4, Division

(* The tiles of a grid cover it: a cell is in the tile TileOf computes, at *)
(* the place LocalOf computes, and no other cell is there.                 *)
Covered(g, x, y) ==
  /\ TileOf(g, x, y) \in TileIds(g)
  /\ LocalOf(g, x, y) \in Cells(g, TileOf(g, x, y))
  /\ CellAt(g, TileOf(g, x, y), LocalOf(g, x, y)) = <<x, y>>

(* The reader of a cell looks where the author of the package put it, in   *)
(* tiles that are cut at the edges of the grid too.                        *)
THEOREM TilesCover ==
  ASSUME NEW c \in Types, NEW x \in 0 .. Grid[c].nx - 1, NEW y \in 0 .. Grid[c].ny - 1
  PROVE  Covered(Grid[c], x, y)
<1>. DEFINE g == Grid[c]
            C == Columns(g)
            R == Rows(g)
            tx == x \div g.tw
            ty == y \div g.th
            px == x % g.tw
            py == y % g.th
            id == ty * C + tx
            W == TileWidth(g, id)
            H == TileHeight(g, id)
            k == py * W + px
<1>1. /\ g.nx \in Nat \ {0} /\ g.ny \in Nat \ {0} /\ g.tw \in Nat \ {0} /\ g.th \in Nat \ {0}
      /\ x \in 0 .. g.nx - 1 /\ y \in 0 .. g.ny - 1
  BY GridAssumption
<1>. HIDE DEF g
<1>2. C \in Nat \ {0} /\ tx \in 0 .. C - 1
  BY <1>1, TilesReach DEF Columns
<1>3. R \in Nat \ {0} /\ ty \in 0 .. R - 1
  BY <1>1, TilesReach DEF Rows
<1>4. x = tx * g.tw + px /\ px \in 0 .. g.tw - 1 /\ y = ty * g.th + py /\ py \in 0 .. g.th - 1
  <2>1. x \in Int /\ y \in Int
    BY <1>1
  <2>2. tx \in Int /\ x = g.tw * tx + px /\ px \in 0 .. g.tw - 1
    BY <1>1, <2>1, Division
  <2>3. ty \in Int /\ y = g.th * ty + py /\ py \in 0 .. g.th - 1
    BY <1>1, <2>1, Division
  <2>. HIDE DEF tx, ty, px, py
  <2>4. g.tw * tx = tx * g.tw
    BY <1>1, <2>2
  <2>5. g.th * ty = ty * g.th
    BY <1>1, <2>3
  <2>. QED  BY <2>2, <2>3, <2>4, <2>5
<1>5. TileOf(g, x, y) = id
  BY DEF TileOf
<1>. HIDE DEF C, R, tx, ty, px, py
<1>6. id \in Nat /\ id \div C = ty /\ id % C = tx
  BY <1>2, <1>3, Quotient
<1>7. id \in TileIds(g)
  <2>1. ty * C <= (R - 1) * C
    BY <1>2, <1>3, Product
  <2>2. (R - 1) * C = C * R - C /\ C * R \in Int
    BY <1>2, <1>3
  <2>3. id \in 0 .. C * R - 1
    BY <1>2, <1>3, <1>6, <2>1, <2>2
  <2>. QED  BY <2>3 DEF TileIds, C, R
<1>8. LocalOf(g, x, y) = k
  BY <1>5 DEF LocalOf, px, py
<1>. HIDE DEF id
<1>9. W = Less(g.tw, g.nx - tx * g.tw) /\ H = Less(g.th, g.ny - ty * g.th)
  BY <1>6 DEF TileWidth, TileHeight, C
<1>10. W \in Nat \ {0} /\ px \in 0 .. W - 1
  <2>1. tx * g.tw \in Int
    BY <1>1, <1>2
  <2>. QED  BY <1>1, <1>4, <1>9, <2>1 DEF Less
<1>11. H \in Nat \ {0} /\ py \in 0 .. H - 1
  <2>1. ty * g.th \in Int
    BY <1>1, <1>3
  <2>. QED  BY <1>1, <1>4, <1>9, <2>1 DEF Less
<1>. HIDE DEF W, H
<1>12. k \in Nat /\ k \div W = py /\ k % W = px
  BY <1>10, <1>11, Quotient
<1>13. k \in 0 .. W * H - 1
  <2>1. py * W <= (H - 1) * W
    BY <1>10, <1>11, Product
  <2>2. (H - 1) * W = W * H - W /\ W * H \in Int
    BY <1>10, <1>11
  <2>. QED  BY <1>10, <1>11, <1>12, <2>1, <2>2
<1>. HIDE DEF k
<1>14. k \in Cells(g, id)
  BY <1>13 DEF Cells, W, H
<1>15. CellAt(g, id, k) = <<x, y>>
  BY <1>4, <1>6, <1>12 DEF CellAt, W, C
<1>. QED  BY <1>5, <1>7, <1>8, <1>14, <1>15 DEF Covered, g

-----------------------------------------------------------------------------
(* Part 2: what a point is interpolated from. *)

InBracket(b, n) == b.a \in 0 .. n - 1 /\ b.b \in 0 .. n - 1 /\ b.f \in 0 .. 2

LEMMA Halves ==
  ASSUME NEW p \in Int
  PROVE  p \div 2 \in Int /\ p % 2 \in {0, 1} /\ p = 2 * (p \div 2) + (p % 2)
OBVIOUS

LEMMA TideBracketIn ==
  ASSUME NEW p \in Int, NEW n \in Nat \ {0, 1}
  PROVE  TideBracket(p, n) = NoBracket \/ InBracket(TideBracket(p, n), n)
<1>. DEFINE q == p \div 2
            r == p % 2
<1>1. q \in Int /\ r \in {0, 1} /\ p = 2 * q + r
  BY Halves
<1>2. TideBracket(p, n) = IF p < 0 \/ p > 2 * (n - 1) THEN NoBracket
                          ELSE IF q = n - 1 THEN [a |-> n - 2, b |-> n - 1, f |-> 2]
                          ELSE [a |-> q, b |-> q + 1, f |-> r]
  BY DEF TideBracket
<1>. HIDE DEF q, r
<1>3. CASE p < 0 \/ p > 2 * (n - 1)
  BY <1>2, <1>3
<1>4. CASE ~(p < 0 \/ p > 2 * (n - 1)) /\ q = n - 1
  BY <1>2, <1>4 DEF InBracket
<1>5. CASE ~(p < 0 \/ p > 2 * (n - 1)) /\ q # n - 1
  <2>1. q \in 0 .. n - 2
    BY <1>1, <1>5
  <2>. QED  BY <1>1, <1>2, <1>5, <2>1 DEF InBracket
<1>. QED  BY <1>3, <1>4, <1>5

LEMMA FieldBracketIn ==
  ASSUME NEW p \in Int, NEW n \in Nat \ {0, 1}
  PROVE  FieldBracket(p, n) = NoBracket \/ InBracket(FieldBracket(p, n), n)
<1>. DEFINE q == p \div 2
            r == p % 2
<1>1. q \in Int /\ r \in {0, 1} /\ p = 2 * q + r
  BY Halves
<1>2. FieldBracket(p, n) = IF p < 0 \/ p > 2 * (n - 1) THEN NoBracket
                           ELSE IF r = 0 THEN [a |-> q, b |-> q, f |-> 0]
                           ELSE [a |-> q, b |-> q + 1, f |-> 1]
  BY DEF FieldBracket
<1>. HIDE DEF q, r
<1>3. CASE p < 0 \/ p > 2 * (n - 1)
  BY <1>2, <1>3
<1>4. CASE ~(p < 0 \/ p > 2 * (n - 1)) /\ r = 0
  <2>1. q \in 0 .. n - 1
    BY <1>1, <1>4
  <2>. QED  BY <1>2, <1>4, <2>1 DEF InBracket
<1>5. CASE ~(p < 0 \/ p > 2 * (n - 1)) /\ r # 0
  <2>1. q \in 0 .. n - 2
    BY <1>1, <1>5
  <2>. QED  BY <1>2, <1>5, <2>1 DEF InBracket
<1>. QED  BY <1>3, <1>4, <1>5

(* A turn of a global grid, halved, is one of its nodes, and so is the     *)
(* next of any node.                                                       *)
LEMMA TurnIn ==
  ASSUME NEW a \in Int, NEW n \in Nat \ {0, 1}, 2 * n = Circle
  PROVE  /\ (a % Circle) \div 2 \in 0 .. n - 1
         /\ ((a % Circle) \div 2 + 1) % n \in 0 .. n - 1
         /\ (a % Circle) % 2 \in {0, 1}
<1>1. a % Circle \in 0 .. Circle - 1
  BY CircleAssumption, Division
<1>2. a % Circle \in Int
  BY <1>1, CircleAssumption
<1>. DEFINE p == a % Circle
            q == p \div 2
<1>3. q \in Int /\ p % 2 \in {0, 1} /\ p = 2 * q + (p % 2)
  BY <1>2, Halves
<1>. HIDE DEF p, q
<1>4. q \in 0 .. n - 1
  BY <1>1, <1>3, CircleAssumption DEF p
<1>5. (q + 1) % n \in 0 .. n - 1
  <2>1. q + 1 \in Int
    BY <1>3
  <2>. QED  BY <2>1, Division
<1>. QED  BY <1>3, <1>4, <1>5 DEF p, q

LEMMA TideLongitudeIn ==
  ASSUME NEW lon \in Int, NEW o \in Int, NEW n \in Nat \ {0, 1}
  PROVE  TideLongitude(lon, o, n) = NoBracket \/ InBracket(TideLongitude(lon, o, n), n)
<1>. DEFINE a == lon - o
<1>1. a \in Int
  OBVIOUS
<1>2. a % Circle \in Int
  BY <1>1, CircleAssumption, Division
<1>3. TideLongitude(lon, o, n)
        = IF 2 * n = Circle
          THEN [a |-> (a % Circle) \div 2, b |-> ((a % Circle) \div 2 + 1) % n,
                f |-> (a % Circle) % 2]
          ELSE TideBracket(a % Circle, n)
  BY DEF TideLongitude
<1>. HIDE DEF a
<1>4. CASE 2 * n = Circle
  <2>1. /\ (a % Circle) \div 2 \in 0 .. n - 1 /\ ((a % Circle) \div 2 + 1) % n \in 0 .. n - 1
        /\ (a % Circle) % 2 \in 0 .. 2
    BY <1>1, <1>4, TurnIn
  <2>. QED  BY <1>3, <1>4, <2>1 DEF InBracket
<1>5. CASE 2 * n # Circle
  BY <1>2, <1>3, <1>5, TideBracketIn
<1>. QED  BY <1>4, <1>5

LEMMA FieldLongitudeIn ==
  ASSUME NEW lon \in Int, NEW o \in Int, NEW n \in Nat \ {0, 1}
  PROVE  FieldLongitude(lon, o, n) = NoBracket \/ InBracket(FieldLongitude(lon, o, n), n)
<1>. DEFINE a == lon - o
<1>1. a \in Int
  OBVIOUS
<1>2. a % Circle \in Int
  BY <1>1, CircleAssumption, Division
<1>3. FieldLongitude(lon, o, n)
        = IF 2 * n # Circle THEN FieldBracket(a % Circle, n)
          ELSE IF (a % Circle) % 2 = 0
               THEN [a |-> (a % Circle) \div 2, b |-> (a % Circle) \div 2, f |-> 0]
               ELSE [a |-> (a % Circle) \div 2, b |-> ((a % Circle) \div 2 + 1) % n, f |-> 1]
  BY DEF FieldLongitude
<1>. HIDE DEF a
<1>4. CASE 2 * n = Circle
  <2>1. /\ (a % Circle) \div 2 \in 0 .. n - 1 /\ ((a % Circle) \div 2 + 1) % n \in 0 .. n - 1
    BY <1>1, <1>4, TurnIn
  <2>. QED  BY <1>3, <1>4, <2>1 DEF InBracket
<1>5. CASE 2 * n # Circle
  BY <1>2, <1>3, <1>5, FieldBracketIn
<1>. QED  BY <1>4, <1>5

(* None, or the four corners, which are cells of the grid.                 *)
CornersIn(corners, nx, ny) ==
  \/ corners = << >>
  \/ /\ DOMAIN corners = 1 .. 4
     /\ \A i \in 1 .. 4 : /\ corners[i][1] \in 0 .. nx - 1
                          /\ corners[i][2] \in 0 .. ny - 1
                          /\ corners[i][3] \in Int

LEMMA CornersAreIn ==
  ASSUME NEW nx, NEW ny, NEW bx, NEW by,
         bx = NoBracket \/ InBracket(bx, nx), by = NoBracket \/ InBracket(by, ny)
  PROVE  CornersIn(Corners(bx, by), nx, ny)
<1>1. CASE bx = NoBracket \/ by = NoBracket
  BY <1>1 DEF Corners, CornersIn
<1>2. CASE ~(bx = NoBracket \/ by = NoBracket)
  <2>. DEFINE v1 == (2 - bx.f) * (2 - by.f)
              v2 == bx.f * (2 - by.f)
              v3 == (2 - bx.f) * by.f
              v4 == bx.f * by.f
  <2>1. /\ bx.a \in 0 .. nx - 1 /\ bx.b \in 0 .. nx - 1 /\ bx.f \in Int
        /\ by.a \in 0 .. ny - 1 /\ by.b \in 0 .. ny - 1 /\ by.f \in Int
    BY <1>2 DEF InBracket
  <2>2. v1 \in Int /\ v2 \in Int /\ v3 \in Int /\ v4 \in Int
    BY <2>1
  <2>3. Corners(bx, by)
          = << <<bx.a, by.a, v1>>, <<bx.b, by.a, v2>>, <<bx.a, by.b, v3>>, <<bx.b, by.b, v4>> >>
    BY <1>2 DEF Corners
  <2>. HIDE DEF v1, v2, v3, v4
  <2>. QED  BY <2>1, <2>2, <2>3 DEF CornersIn
<1>. QED  BY <1>1, <1>2

LEMMA CornersFromIn ==
  ASSUME NEW c \in Types, NEW origin \in Int \X Int, NEW at \in Int \X Int
  PROVE  CornersIn(CornersFrom(c, origin, at), Grid[c].nx, Grid[c].ny)
<1>. DEFINE n == Grid[c].nx
            m == Grid[c].ny
            d == at[2] - origin[2]
<1>1. n \in Nat \ {0, 1} /\ m \in Nat \ {0, 1}
  BY GridAssumption
<1>2. at[1] \in Int /\ origin[1] \in Int /\ d \in Int
  OBVIOUS
<1>3. CornersFrom(c, origin, at)
        = IF c = Tide THEN Corners(TideLongitude(at[1], origin[1], n), TideBracket(d, m))
          ELSE Corners(FieldLongitude(at[1], origin[1], n), FieldBracket(d, m))
  BY DEF CornersFrom
<1>. HIDE DEF n, m, d
<1>4. CASE c = Tide
  BY <1>1, <1>2, <1>3, <1>4, TideLongitudeIn, TideBracketIn, CornersAreIn DEF n, m
<1>5. CASE c # Tide
  BY <1>1, <1>2, <1>3, <1>5, FieldLongitudeIn, FieldBracketIn, CornersAreIn DEF n, m
<1>. QED  BY <1>4, <1>5

-----------------------------------------------------------------------------
(* Part 3: the tiles a point is found in. *)

(* What a corner of a point says: a tile of the component, a place in it,  *)
(* a weight, and for the quality grid a support class there.               *)
CornerIn(c, corner) ==
  \E id \in TileIds(Grid[c]) :
    /\ corner.tile = <<c, id>> /\ corner.k \in Cells(Grid[c], id) /\ corner.weight \in Int
    /\ c = Quality => SupportClasses[id][corner.k] \in Nat

PlacesIn(c, places) ==
  \/ places = << >>
  \/ DOMAIN places = 1 .. 4 /\ \A i \in 1 .. 4 : CornerIn(c, places[i])

LEMMA SupportIsNatural ==
  ASSUME NEW x \in 0 .. Grid[Quality].nx - 1, NEW y \in 0 .. Grid[Quality].ny - 1
  PROVE  /\ Support(x, y) \in Nat
         /\ SupportClasses[TileOf(Grid[Quality], x, y)][LocalOf(Grid[Quality], x, y)] = Support(x, y)
<1>. DEFINE g == Grid[Quality]
            id == TileOf(g, x, y)
            k == LocalOf(g, x, y)
<1>1. id \in TileIds(g) /\ k \in Cells(g, id) /\ CellAt(g, id, k) = <<x, y>>
  BY TilesCover DEF Covered, Types, Quality
<1>2. Support(x, y) \in Nat
  BY SupportAssumption
<1>. HIDE DEF g, id, k
<1>3. SupportClasses[id][k] = Support(CellAt(g, id, k)[1], CellAt(g, id, k)[2])
  BY <1>1 DEF SupportClasses, g
<1>4. SupportClasses[id][k] = Support(x, y)
  BY <1>1, <1>3
<1>. QED  BY <1>2, <1>4 DEF g, id, k

LEMMA LocatedIn ==
  ASSUME NEW c \in Types, NEW corners, CornersIn(corners, Grid[c].nx, Grid[c].ny)
  PROVE  PlacesIn(c, Located(c, corners))
<1>1. CASE corners = << >>
  BY <1>1 DEF Located, PlacesIn
<1>2. CASE corners # << >>
  <2>1. DOMAIN Located(c, corners) = 1 .. 4
    BY <1>2 DEF Located, CornersIn
  <2>2. ASSUME NEW i \in 1 .. 4
        PROVE  CornerIn(c, Located(c, corners)[i])
    <3>. DEFINE x == corners[i][1]
                y == corners[i][2]
                place == Located(c, corners)[i]
    <3>1. x \in 0 .. Grid[c].nx - 1 /\ y \in 0 .. Grid[c].ny - 1 /\ corners[i][3] \in Int
      BY <1>2 DEF CornersIn
    <3>2. place.tile = <<c, TileOf(Grid[c], x, y)>> /\ place.k = LocalOf(Grid[c], x, y)
          /\ place.weight = corners[i][3]
      BY <1>2 DEF Located, CornersIn
    <3>. HIDE DEF x, y, place
    <3>3. Covered(Grid[c], x, y)
      BY <3>1, TilesCover
    <3>4. c = Quality => SupportClasses[TileOf(Grid[c], x, y)][place.k] \in Nat
      BY <3>1, <3>2, SupportIsNatural
    <3>. QED  BY <3>1, <3>2, <3>3, <3>4 DEF Covered, CornerIn, place
  <2>. QED  BY <2>1, <2>2 DEF PlacesIn
<1>. QED  BY <1>1, <1>2

LEMMA ReaderCornersIn ==
  ASSUME NEW c \in Types, NEW field \in Fields, NEW at \in Points
  PROVE  PlacesIn(c, ReaderCorners(c, field, at))
<1>. DEFINE o == Origin(c, field)
            p == IF GridDamaged(c) THEN <<o[1] + 2, o[2]>> ELSE o
<1>1. at \in Int \X Int
  BY RequestsAssumption DEF Points
<1>2. o \in Int \X Int
  <2>1. CASE c # Tide
    BY <2>1, OriginsAssumption DEF Origin
  <2>2. CASE c = Tide
    BY <2>2, OriginsAssumption DEF Origin
  <2>. QED  BY <2>1, <2>2
<1>3. p \in Int \X Int
  BY <1>2
<1>4. ReaderCorners(c, field, at) = Located(c, CornersFrom(c, p, at))
  BY DEF ReaderCorners, PointCorners, GridDamaged
<1>. HIDE DEF p
<1>. QED  BY <1>1, <1>3, <1>4, CornersFromIn, LocatedIn

(* The fetches of a point are of tiles of the component.                   *)
TileNames(c) == {<<c, id>> : id \in TileIds(Grid[c])}

LEMMA TilesOfIn ==
  ASSUME NEW c \in Types, NEW field \in Fields, NEW at \in Points
  PROVE  TilesOf(c, field, at) \in Seq(TileNames(c))
<1>. DEFINE corners == ReaderCorners(c, field, at)
<1>1. PlacesIn(c, corners)
  BY ReaderCornersIn
<1>2. TilesOf(c, field, at) = [i \in DOMAIN corners |-> corners[i].tile]
  BY DEF TilesOf
<1>. HIDE DEF corners
<1>3. CASE corners = << >>
  <2>1. TilesOf(c, field, at) = << >>
    BY <1>2, <1>3
  <2>. QED  BY <2>1
<1>4. CASE corners # << >>
  <2>1. DOMAIN corners = 1 .. 4 /\ \A i \in 1 .. 4 : corners[i].tile \in TileNames(c)
    BY <1>1, <1>4 DEF PlacesIn, CornerIn, TileNames
  <2>. HIDE DEF TileNames
  <2>. QED  BY <1>2, <2>1
<1>. QED  BY <1>3, <1>4

-----------------------------------------------------------------------------
(* Part 4: sums over functions. *)

LEMMA Least ==
  ASSUME NEW T, T \subseteq Nat, T # {}
  PROVE  \E m \in T : \A k \in T : m <= k
<1>1. IsWellFoundedOn(OpToRel(<, Nat), Nat)
  BY NatLessThanWellFounded
<1>2. PICK m \in T : \A k \in T : <<k, m>> \notin OpToRel(<, Nat)
  BY <1>1, WFMin
<1>3. \A k \in T : ~(k < m)
  BY <1>2 DEF OpToRel
<1>4. \A k \in T : m <= k
  <2>1. m \in Nat /\ \A k \in T : k \in Nat
    OBVIOUS
  <2>. QED  BY <1>3, <2>1
<1>. QED  BY <1>4

(* What holds of 0, and of n + 1 when it holds of n, holds up to N.        *)
LEMMA Induction ==
  ASSUME NEW N \in Nat, NEW T, 0 \in T, \A n \in 0 .. N - 1 : n \in T => n + 1 \in T
  PROVE  \A n \in 0 .. N : n \in T
<1>. DEFINE U == {n \in 0 .. N : n \notin T}
<1>1. SUFFICES ASSUME U # {} PROVE FALSE
  OBVIOUS
<1>2. PICK m \in U : \A k \in U : m <= k
  <2>1. U \subseteq Nat
    OBVIOUS
  <2>. HIDE DEF U
  <2>. QED  BY <1>1, <2>1, Least
<1>3. m \in 1 .. N
  OBVIOUS
<1>4. m - 1 \in 0 .. N - 1 /\ m - 1 \notin U
  BY <1>2, <1>3
<1>5. m - 1 \in T
  BY <1>4
<1>6. m - 1 + 1 \in T
  BY <1>4, <1>5
<1>. QED  BY <1>3, <1>6

(* What holds of a set when it holds of the set without any one element    *)
(* holds of every part of a finite set.                                    *)
LEMMA PartInduction ==
  ASSUME NEW S, IsFiniteSet(S), NEW T,
         \A s \in SUBSET S : (\A x \in s : s \ {x} \in T) => s \in T
  PROVE  \A s \in SUBSET S : s \in T
<1>. DEFINE U == {Cardinality(s) : s \in {r \in SUBSET S : r \notin T}}
<1>1. SUFFICES ASSUME U # {} PROVE FALSE
  OBVIOUS
<1>2. \A s \in SUBSET S : IsFiniteSet(s) /\ Cardinality(s) \in Nat
  BY FS_Subset, FS_CardinalityType
<1>3. PICK m \in U : \A k \in U : m <= k
  <2>1. U \subseteq Nat
    BY <1>2
  <2>. HIDE DEF U
  <2>. QED  BY <1>1, <2>1, Least
<1>4. PICK s \in SUBSET S : s \notin T /\ Cardinality(s) = m
  OBVIOUS
<1>5. ASSUME NEW x \in s PROVE s \ {x} \in T
  <2>1. Cardinality(s \ {x}) = Cardinality(s) - 1
    BY <1>2, FS_RemoveElement
  <2>2. s \ {x} \in SUBSET S
    OBVIOUS
  <2>3. CASE s \ {x} \notin T
    <3>1. Cardinality(s \ {x}) \in U
      BY <2>2, <2>3
    <3>2. m \in Nat
      BY <1>2, <1>4
    <3>3. m <= Cardinality(s \ {x})
      BY <1>3, <3>1
    <3>. HIDE DEF U
    <3>. QED  BY <1>4, <2>1, <3>2, <3>3
  <2>. QED  BY <2>3
<1>. QED  BY <1>4, <1>5

(* The sums of the parts of a function, one element taken out at a time.   *)
One(s) == CHOOSE x \in s : TRUE
Step(f, it, s) == IF s = {} THEN 0 ELSE f[One(s)] + it[s \ {One(s)}]
Totals(f, it) == it = [s \in SUBSET DOMAIN f |-> Step(f, it, s)]

LEMMA OneIn ==
  ASSUME NEW s, s # {}
  PROVE  One(s) \in s
BY DEF One

LEMMA TotalsExist ==
  ASSUME NEW f, IsFiniteSet(DOMAIN f)
  PROVE  \E it : Totals(f, it)
<1>. DEFINE S == DOMAIN f
            N == Cardinality(S)
            Upto(it, n) == \A s \in SUBSET S : Cardinality(s) <= n => it[s] = Step(f, it, s)
            Table(it, n) == it = [s \in SUBSET S |-> it[s]] /\ Upto(it, n)
            T == {n \in 0 .. N : \E it : Table(it, n)}
<1>1. N \in Nat /\ \A s \in SUBSET S : IsFiniteSet(s) /\ Cardinality(s) \in 0 .. N
  BY FS_Subset, FS_CardinalityType
<1>2. 0 \in T
  <2>. DEFINE it == [s \in SUBSET S |-> 0]
  <2>1. \A s \in SUBSET S : Cardinality(s) <= 0 => s = {}
    BY <1>1, FS_EmptySet
  <2>2. Upto(it, 0)
    BY <2>1 DEF Step
  <2>3. it = [s \in SUBSET S |-> it[s]]
    OBVIOUS
  <2>4. Table(it, 0)
    BY <2>2, <2>3
  <2>. HIDE DEF it, Table
  <2>. QED  BY <1>1, <2>4
<1>3. ASSUME NEW n \in 0 .. N - 1, n \in T PROVE n + 1 \in T
  <2>1. PICK it : Table(it, n)
    BY <1>3
  <2>. DEFINE next == [s \in SUBSET S |-> Step(f, it, s)]
  <2>2. ASSUME NEW s \in SUBSET S, Cardinality(s) <= n + 1
        PROVE  next[s] = Step(f, next, s)
    <3>1. next[s] = Step(f, it, s)
      OBVIOUS
    <3>2. CASE s = {}
      BY <3>1, <3>2 DEF Step
    <3>3. CASE s # {}
      <4>. DEFINE r == s \ {One(s)}
      <4>1. One(s) \in s
        BY <3>3, OneIn
      <4>2. r \in SUBSET S
        OBVIOUS
      <4>3. Cardinality(r) <= n
        BY <1>1, <2>2, <4>1, FS_RemoveElement
      <4>4. it[r] = Step(f, it, r)
        BY <2>1, <4>2, <4>3
      <4>5. next[r] = Step(f, it, r)
        BY <4>2
      <4>6. next[r] = it[r]
        BY <4>4, <4>5
      <4>. HIDE DEF next
      <4>. QED  BY <3>1, <3>3, <4>6 DEF Step
    <3>. QED  BY <3>2, <3>3
  <2>3. next = [s \in SUBSET S |-> next[s]]
    OBVIOUS
  <2>4. Table(next, n + 1)
    <3>. HIDE DEF next
    <3>. QED  BY <2>2, <2>3
  <2>. HIDE DEF next, Table, N
  <2>. QED  BY <1>1, <2>4
<1>4. N \in T
  <2>. HIDE DEF T, N
  <2>. QED  BY <1>1, <1>2, <1>3, Induction
<1>5. PICK it : Table(it, N)
  BY <1>4
<1>6. \A s \in SUBSET S : it[s] = Step(f, it, s)
  <2>. TAKE s \in SUBSET S
  <2>1. Cardinality(s) <= N
    <3>. HIDE DEF N
    <3>. QED  BY <1>1
  <2>. QED  BY <1>5, <2>1
<1>. QED  BY <1>5, <1>6 DEF Totals

LEMMA SumIsTotal ==
  ASSUME NEW f, IsFiniteSet(DOMAIN f)
  PROVE  \E it : Totals(f, it) /\ SumFunction(f) = it[DOMAIN f]
<1>. DEFINE it == CHOOSE t : t = [s \in SUBSET DOMAIN f |->
                                   IF s = {} THEN 0
                                   ELSE f[CHOOSE x \in s : TRUE] + t[s \ {CHOOSE x \in s : TRUE}]]
<1>1. Totals(f, it)
  BY TotalsExist DEF Totals, Step, One
<1>2. SumFunction(f) = it[DOMAIN f]
  BY DEF SumFunction, SumFunctionOnSet, FoldFunctionOnSet, MapThenFoldSet
<1>. QED  BY <1>1, <1>2

LEMMA TotalsAreInt ==
  ASSUME NEW f, NEW it, Totals(f, it), IsFiniteSet(DOMAIN f), \A x \in DOMAIN f : f[x] \in Int
  PROVE  \A s \in SUBSET DOMAIN f : it[s] \in Int
<1>. DEFINE S == DOMAIN f
            T == {s \in SUBSET S : it[s] \in Int}
<1>1. \A s \in SUBSET S : it[s] = Step(f, it, s)
  BY DEF Totals
<1>2. ASSUME NEW s \in SUBSET S, \A x \in s : s \ {x} \in T
      PROVE  s \in T
  <2>1. CASE s = {}
    BY <1>1, <2>1 DEF Step
  <2>2. CASE s # {}
    <3>1. One(s) \in s
      BY <2>2, OneIn
    <3>2. it[s] = f[One(s)] + it[s \ {One(s)}]
      BY <1>1, <2>2 DEF Step
    <3>3. it[s \ {One(s)}] \in Int /\ f[One(s)] \in Int
      BY <1>2, <3>1
    <3>. QED  BY <3>2, <3>3
  <2>. QED  BY <2>1, <2>2
<1>3. \A s \in SUBSET S : s \in T
  <2>. HIDE DEF T
  <2>. QED  BY <1>2, PartInduction
<1>. QED  BY <1>3

Additive(f, it) == \A s \in SUBSET DOMAIN f : \A x \in s : it[s] = f[x] + it[s \ {x}]

LEMMA TotalsStep ==
  ASSUME NEW f, NEW it, Totals(f, it), IsFiniteSet(DOMAIN f), \A x \in DOMAIN f : f[x] \in Int
  PROVE  Additive(f, it)
<1>. DEFINE S == DOMAIN f
            T == {s \in SUBSET S : \A x \in s : it[s] = f[x] + it[s \ {x}]}
<1>1. \A s \in SUBSET S : it[s] = Step(f, it, s)
  BY DEF Totals
<1>2. \A s \in SUBSET S : it[s] \in Int
  BY TotalsAreInt
<1>3. ASSUME NEW s \in SUBSET S, \A x \in s : s \ {x} \in T
      PROVE  s \in T
  <2>1. ASSUME NEW x \in s
        PROVE  it[s] = f[x] + it[s \ {x}]
    <3>. DEFINE z == One(s)
    <3>1. z \in s
      BY OneIn
    <3>2. it[s] = f[z] + it[s \ {z}]
      BY <1>1 DEF Step
    <3>. HIDE DEF z
    <3>3. CASE x = z
      BY <3>2, <3>3
    <3>4. CASE x # z
      <4>. DEFINE r == s \ {x, z}
      <4>1. (s \ {z}) \ {x} = r /\ (s \ {x}) \ {z} = r /\ r \in SUBSET S
        OBVIOUS
      <4>2. it[s \ {z}] = f[x] + it[r]
        <5>1. s \ {z} \in T /\ x \in s \ {z}
          BY <1>3, <3>1, <3>4
        <5>. QED  BY <4>1, <5>1
      <4>3. it[s \ {x}] = f[z] + it[r]
        <5>1. s \ {x} \in T /\ z \in s \ {x}
          BY <1>3, <3>1, <3>4
        <5>. QED  BY <4>1, <5>1
      <4>4. f[x] \in Int /\ f[z] \in Int /\ it[r] \in Int
        BY <1>2, <3>1, <4>1
      <4>. HIDE DEF r
      <4>. QED  BY <3>2, <4>2, <4>3, <4>4
    <3>. QED  BY <3>3, <3>4
  <2>. QED  BY <2>1
<1>4. \A s \in SUBSET S : s \in T
  <2>. HIDE DEF T
  <2>. QED  BY <1>3, PartInduction
<1>. QED  BY <1>4 DEF Additive

(* The sum of no value is 0; any value can be the first of a sum.          *)
LEMMA SumOfNone ==
  ASSUME NEW f, DOMAIN f = {}
  PROVE  SumFunction(f) = 0
<1>1. IsFiniteSet(DOMAIN f)
  BY FS_EmptySet
<1>2. PICK it : Totals(f, it) /\ SumFunction(f) = it[DOMAIN f]
  BY <1>1, SumIsTotal
<1>3. it[DOMAIN f] = Step(f, it, DOMAIN f)
  BY <1>2 DEF Totals
<1>. QED  BY <1>2, <1>3 DEF Step

LEMMA SumIsInt ==
  ASSUME NEW f, IsFiniteSet(DOMAIN f), \A x \in DOMAIN f : f[x] \in Int
  PROVE  SumFunction(f) \in Int
<1>1. PICK it : Totals(f, it) /\ SumFunction(f) = it[DOMAIN f]
  BY SumIsTotal
<1>. QED  BY <1>1, TotalsAreInt

LEMMA SumWithout ==
  ASSUME NEW f, IsFiniteSet(DOMAIN f), \A x \in DOMAIN f : f[x] \in Int,
         NEW z \in DOMAIN f
  PROVE  SumFunction(f) = f[z] + SumFunction([x \in DOMAIN f \ {z} |-> f[x]])
<1>. DEFINE R == DOMAIN f \ {z}
            g == [x \in R |-> f[x]]
<1>1. DOMAIN g = R /\ IsFiniteSet(R) /\ \A x \in R : g[x] = f[x] /\ g[x] \in Int
  BY FS_RemoveElement
<1>. HIDE DEF g
<1>2. PICK it : Totals(f, it) /\ SumFunction(f) = it[DOMAIN f]
  BY SumIsTotal
<1>3. PICK jt : Totals(g, jt) /\ SumFunction(g) = jt[R]
  BY <1>1, SumIsTotal
<1>. DEFINE T == {s \in SUBSET R : it[s] = jt[s]}
<1>4. \A s \in SUBSET DOMAIN f : \A x \in s : it[s] = f[x] + it[s \ {x}]
  <2>1. Additive(f, it)
    BY <1>2, TotalsStep
  <2>. QED  BY <2>1 DEF Additive
<1>5. \A s \in SUBSET R : \A x \in s : jt[s] = g[x] + jt[s \ {x}]
  <2>1. Totals(g, jt) /\ IsFiniteSet(DOMAIN g) /\ \A x \in DOMAIN g : g[x] \in Int
    BY <1>1, <1>3
  <2>2. Additive(g, jt)
    BY <2>1, TotalsStep
  <2>. QED  BY <1>1, <2>2 DEF Additive
<1>6. ASSUME NEW s \in SUBSET R, \A x \in s : s \ {x} \in T
      PROVE  s \in T
  <2>1. CASE s = {}
    <3>1. it[s] = Step(f, it, s)
      BY <1>2 DEF Totals
    <3>2. jt[s] = Step(g, jt, s)
      BY <1>1, <1>3 DEF Totals
    <3>. QED  BY <2>1, <3>1, <3>2 DEF Step
  <2>2. CASE s # {}
    <3>1. PICK x \in s : TRUE
      BY <2>2
    <3>2. it[s] = f[x] + it[s \ {x}] /\ jt[s] = g[x] + jt[s \ {x}]
      BY <1>4, <1>5
    <3>3. it[s \ {x}] = jt[s \ {x}] /\ f[x] = g[x]
      BY <1>1, <1>6
    <3>. QED  BY <3>2, <3>3
  <2>. QED  BY <2>1, <2>2
<1>7. R \in T
  <2>. HIDE DEF T, R
  <2>1. \A s \in SUBSET R : s \in T
    BY <1>1, <1>6, PartInduction
  <2>. QED  BY <2>1
<1>8. it[DOMAIN f] = f[z] + it[R]
  BY <1>4
<1>. QED  BY <1>2, <1>3, <1>7, <1>8 DEF g

-----------------------------------------------------------------------------
(* Part 5: what the tiles of a cache take.                                 *)

Part(v, a, b) == SumFunction([j \in a .. b |-> v[j]])

LEMMA PartEnds ==
  ASSUME NEW a \in Int, NEW b \in Int, a <= b, NEW v, \A j \in a .. b : v[j] \in Int
  PROVE  /\ Part(v, a, b) = v[a] + Part(v, a + 1, b)
         /\ Part(v, a, b) = v[b] + Part(v, a, b - 1)
<1>. DEFINE f == [j \in a .. b |-> v[j]]
<1>1. IsFiniteSet(a .. b)
  BY FS_Interval
<1>2. DOMAIN f = a .. b /\ \A j \in a .. b : f[j] = v[j]
  OBVIOUS
<1>3. (a .. b) \ {a} = a + 1 .. b /\ (a .. b) \ {b} = a .. b - 1 /\ a \in a .. b /\ b \in a .. b
  OBVIOUS
<1>4. [j \in a + 1 .. b |-> f[j]] = [j \in a + 1 .. b |-> v[j]]
  BY <1>2, <1>3
<1>5. [j \in a .. b - 1 |-> f[j]] = [j \in a .. b - 1 |-> v[j]]
  BY <1>2, <1>3
<1>6. SumFunction(f) = Part(v, a, b)
  BY DEF Part
<1>. HIDE DEF f
<1>7. IsFiniteSet(DOMAIN f) /\ \A x \in DOMAIN f : f[x] \in Int
  BY <1>1, <1>2
<1>8. \A z \in a .. b : SumFunction(f) = f[z] + SumFunction([x \in (a .. b) \ {z} |-> f[x]])
  BY <1>2, <1>7, SumWithout
<1>9. SumFunction(f) = f[a] + SumFunction([x \in a + 1 .. b |-> f[x]])
  BY <1>3, <1>8
<1>10. SumFunction(f) = f[b] + SumFunction([x \in a .. b - 1 |-> f[x]])
  BY <1>3, <1>8
<1>11. SumFunction([x \in a + 1 .. b |-> f[x]]) = Part(v, a + 1, b)
  BY <1>4 DEF Part
<1>12. SumFunction([x \in a .. b - 1 |-> f[x]]) = Part(v, a, b - 1)
  BY <1>5 DEF Part
<1>. QED  BY <1>2, <1>3, <1>6, <1>9, <1>10, <1>11, <1>12

LEMMA PartIsInt ==
  ASSUME NEW a \in Int, NEW b \in Int, NEW v, \A j \in a .. b : v[j] \in Int
  PROVE  Part(v, a, b) \in Int
<1>. DEFINE f == [j \in a .. b |-> v[j]]
<1>1. IsFiniteSet(DOMAIN f) /\ \A x \in DOMAIN f : f[x] \in Int
  BY FS_Interval
<1>. HIDE DEF f
<1>2. SumFunction(f) \in Int
  BY <1>1, SumIsInt
<1>. QED  BY <1>2 DEF Part, f

LEMMA PartOfNone ==
  ASSUME NEW a \in Int, NEW b \in Int, b < a, NEW v
  PROVE  Part(v, a, b) = 0
<1>1. a .. b = {}
  OBVIOUS
<1>2. DOMAIN [j \in a .. b |-> v[j]] = {}
  BY <1>1
<1>. QED  BY <1>2, SumOfNone DEF Part

LEMMA PartsAdd ==
  ASSUME NEW L \in Nat, NEW v, \A j \in 1 .. L : v[j] \in Int, NEW n \in 0 .. L
  PROVE  Part(v, 1, L) = Part(v, 1, n) + Part(v, n + 1, L)
<1>. DEFINE T == {m \in 0 .. L : Part(v, 1, L) = Part(v, 1, m) + Part(v, m + 1, L)}
<1>1. 0 \in T
  <2>1. Part(v, 1, 0) = 0
    BY PartOfNone
  <2>2. Part(v, 1, L) \in Int
    BY PartIsInt
  <2>. QED  BY <2>1, <2>2
<1>2. ASSUME NEW m \in 0 .. L - 1, m \in T PROVE m + 1 \in T
  <2>1. Part(v, m + 1, L) = v[m + 1] + Part(v, m + 1 + 1, L)
    <3>1. m + 1 \in Int /\ m + 1 <= L /\ \A j \in m + 1 .. L : v[j] \in Int
      OBVIOUS
    <3>. QED  BY <3>1, PartEnds
  <2>2. Part(v, 1, m + 1) = v[m + 1] + Part(v, 1, m)
    <3>1. m + 1 \in Int /\ 1 <= m + 1 /\ (m + 1) - 1 = m /\ \A j \in 1 .. m + 1 : v[j] \in Int
      OBVIOUS
    <3>2. Part(v, 1, m + 1) = v[m + 1] + Part(v, 1, (m + 1) - 1)
      BY <3>1, PartEnds
    <3>. QED  BY <3>1, <3>2
  <2>3. Part(v, m + 1 + 1, L) \in Int
    BY PartIsInt
  <2>4. Part(v, 1, m) \in Int
    BY PartIsInt
  <2>5. v[m + 1] \in Int
    OBVIOUS
  <2>6. Part(v, 1, L) = Part(v, 1, m) + Part(v, m + 1, L) /\ m + 1 \in 0 .. L
    BY <1>2
  <2>. QED  BY <2>1, <2>2, <2>3, <2>4, <2>5, <2>6
<1>3. n \in T
  <2>. HIDE DEF T
  <2>. QED  BY <1>1, <1>2, Induction
<1>. QED  BY <1>3

(* What a set of tiles takes in memory.                                    *)
Size(c, ids) == SumFunction([id \in ids |-> TileBytes[c][id]])

LEMMA SizeWith ==
  ASSUME NEW c \in Types, NEW X, X \subseteq TileIds(Grid[c]), IsFiniteSet(X),
         NEW new \in TileIds(Grid[c]), new \notin X
  PROVE  Size(c, X \cup {new}) = TileBytes[c][new] + Size(c, X)
<1>. DEFINE Y == X \cup {new}
            f == [id \in Y |-> TileBytes[c][id]]
<1>1. IsFiniteSet(Y)
  BY FS_AddElement
<1>2. \A id \in Y : TileBytes[c][id] \in Nat
  BY MemoryAssumption
<1>3. DOMAIN f = Y /\ \A id \in Y : f[id] = TileBytes[c][id]
  OBVIOUS
<1>4. new \in Y /\ Y \ {new} = X
  OBVIOUS
<1>5. [id \in X |-> f[id]] = [id \in X |-> TileBytes[c][id]]
  OBVIOUS
<1>6. SumFunction(f) = Size(c, Y)
  BY DEF Size
<1>. HIDE DEF f
<1>7. IsFiniteSet(DOMAIN f) /\ (\A x \in DOMAIN f : f[x] \in Int) /\ new \in DOMAIN f
  BY <1>1, <1>2, <1>3, <1>4
<1>8. SumFunction(f) = f[new] + SumFunction([x \in DOMAIN f \ {new} |-> f[x]])
  BY <1>7, SumWithout
<1>9. DOMAIN f \ {new} = X
  BY <1>3, <1>4
<1>10. SumFunction([x \in DOMAIN f \ {new} |-> f[x]]) = Size(c, X)
  BY <1>5, <1>9 DEF Size
<1>11. f[new] = TileBytes[c][new]
  BY <1>3, <1>4
<1>. QED  BY <1>6, <1>8, <1>10, <1>11

ListBytes(c, ids) == [j \in 1 .. Len(ids) |-> TileBytes[c][ids[j]]]
ListSize(c, ids) == SumFunction([j \in DOMAIN ids |-> TileBytes[c][ids[j]]])
Once(ids) == \A i, j \in DOMAIN ids : ids[i] = ids[j] => i = j

LEMMA ListBytesAre ==
  ASSUME NEW c \in Types, NEW ids \in Seq(TileIds(Grid[c]))
  PROVE  /\ \A j \in 1 .. Len(ids) : /\ ListBytes(c, ids)[j] = TileBytes[c][ids[j]]
                                     /\ ListBytes(c, ids)[j] \in Nat
         /\ ListSize(c, ids) = Part(ListBytes(c, ids), 1, Len(ids))
<1>1. DOMAIN ids = 1 .. Len(ids)
  OBVIOUS
<1>2. \A j \in 1 .. Len(ids) : ListBytes(c, ids)[j] = TileBytes[c][ids[j]]
  BY DEF ListBytes
<1>3. \A j \in 1 .. Len(ids) : ids[j] \in TileIds(Grid[c])
  OBVIOUS
<1>4. \A j \in 1 .. Len(ids) : ListBytes(c, ids)[j] \in Nat
  BY <1>2, <1>3, MemoryAssumption
<1>5. [j \in DOMAIN ids |-> TileBytes[c][ids[j]]] = [j \in 1 .. Len(ids) |-> ListBytes(c, ids)[j]]
  BY <1>1, <1>2
<1>6. ListSize(c, ids) = Part(ListBytes(c, ids), 1, Len(ids))
  BY <1>5 DEF ListSize, Part
<1>. QED  BY <1>2, <1>4, <1>6

LEMMA ListSizeIsInt ==
  ASSUME NEW c \in Types, NEW ids \in Seq(TileIds(Grid[c]))
  PROVE  ListSize(c, ids) \in Int
<1>1. \A j \in 1 .. Len(ids) : ListBytes(c, ids)[j] \in Int
  BY ListBytesAre
<1>2. Part(ListBytes(c, ids), 1, Len(ids)) \in Int
  BY <1>1, PartIsInt
<1>. QED  BY <1>2, ListBytesAre

(* A list that has nothing twice takes what its members take.              *)
LEMMA ListSizeIs ==
  ASSUME NEW c \in Types, NEW ids \in Seq(TileIds(Grid[c])), Once(ids)
  PROVE  ListSize(c, ids) = Size(c, {ids[j] : j \in DOMAIN ids})
<1>. DEFINE L == Len(ids)
            v == ListBytes(c, ids)
            Front(n) == {ids[j] : j \in 1 .. n}
            T == {n \in 0 .. L : Part(v, 1, n) = Size(c, Front(n))}
<1>1. L \in Nat /\ DOMAIN ids = 1 .. L /\ \A j \in 1 .. L : ids[j] \in TileIds(Grid[c])
  OBVIOUS
<1>2. /\ \A j \in 1 .. L : v[j] = TileBytes[c][ids[j]] /\ v[j] \in Int
      /\ ListSize(c, ids) = Part(v, 1, L)
  BY ListBytesAre
<1>3. \A n \in 0 .. L : IsFiniteSet(Front(n)) /\ Front(n) \subseteq TileIds(Grid[c])
  <2>. DEFINE U == {n \in 0 .. L : IsFiniteSet(Front(n))}
  <2>1. 0 \in U
    <3>1. Front(0) = {}
      OBVIOUS
    <3>2. IsFiniteSet({})
      BY FS_EmptySet
    <3>. HIDE DEF Front
    <3>3. IsFiniteSet(Front(0))
      BY <3>1, <3>2, Zenon
    <3>4. 0 \in 0 .. L
      BY <1>1
    <3>. QED  BY <3>3, <3>4
  <2>2. ASSUME NEW n \in 0 .. L - 1, n \in U PROVE n + 1 \in U
    <3>1. Front(n + 1) = Front(n) \cup {ids[n + 1]}
      BY <1>1
    <3>2. IsFiniteSet(Front(n)) /\ n + 1 \in 0 .. L
      BY <1>1, <2>2
    <3>. HIDE DEF Front
    <3>3. IsFiniteSet(Front(n) \cup {ids[n + 1]})
      BY <3>2, FS_AddElement
    <3>4. IsFiniteSet(Front(n + 1))
      BY <3>1, <3>3
    <3>. QED  BY <3>2, <3>4
  <2>3. \A n \in 0 .. L : n \in U
    <3>. HIDE DEF U, L
    <3>. QED  BY <1>1, <2>1, <2>2, Induction
  <2>4. ASSUME NEW n \in 0 .. L PROVE Front(n) \subseteq TileIds(Grid[c])
    BY <1>1
  <2>. QED  BY <2>3, <2>4
<1>. HIDE DEF L, v
<1>4. 0 \in T
  <2>1. Part(v, 1, 0) = 0
    BY PartOfNone
  <2>2. Front(0) = {}
    OBVIOUS
  <2>3. Size(c, {}) = 0
    BY SumOfNone DEF Size
  <2>. HIDE DEF Front
  <2>4. Part(v, 1, 0) = Size(c, Front(0))
    BY <2>1, <2>2, <2>3, Zenon
  <2>5. 0 \in 0 .. L
    BY <1>1
  <2>. QED  BY <2>4, <2>5
<1>5. ASSUME NEW n \in 0 .. L - 1, n \in T PROVE n + 1 \in T
  <2>. DEFINE new == ids[n + 1]
  <2>1. n + 1 \in 1 .. L /\ n \in 0 .. L /\ n + 1 \in 0 .. L
    BY <1>1
  <2>2. Front(n + 1) = Front(n) \cup {new}
    BY <2>1
  <2>3. new \in TileIds(Grid[c]) /\ new \notin Front(n)
    BY <1>1, <2>1 DEF Once
  <2>4. Part(v, 1, n + 1) = v[n + 1] + Part(v, 1, n)
    <3>1. n + 1 \in Int /\ 1 <= n + 1 /\ (n + 1) - 1 = n /\ \A j \in 1 .. n + 1 : v[j] \in Int
      BY <1>1, <1>2, <2>1
    <3>2. Part(v, 1, n + 1) = v[n + 1] + Part(v, 1, (n + 1) - 1)
      BY <3>1, PartEnds
    <3>. QED  BY <3>1, <3>2
  <2>5. v[n + 1] = TileBytes[c][new]
    BY <1>2, <2>1
  <2>6. Part(v, 1, n) = Size(c, Front(n))
    BY <1>5
  <2>7. IsFiniteSet(Front(n)) /\ Front(n) \subseteq TileIds(Grid[c])
    BY <1>3, <2>1
  <2>. HIDE DEF Front, new
  <2>8. Size(c, Front(n) \cup {new}) = TileBytes[c][new] + Size(c, Front(n))
    BY <2>3, <2>7, SizeWith
  <2>9. Part(v, 1, n + 1) = Size(c, Front(n + 1))
    BY <2>2, <2>4, <2>5, <2>6, <2>8
  <2>. QED  BY <2>1, <2>9
<1>6. L \in T
  <2>. HIDE DEF T
  <2>. QED  BY <1>1, <1>4, <1>5, Induction
<1>7. Front(L) = {ids[j] : j \in DOMAIN ids}
  BY <1>1
<1>. QED  BY <1>2, <1>6, <1>7

(* What is left of a list is what the rest of it takes.                    *)
LEMMA LeftIs ==
  ASSUME NEW c \in Types, NEW ids \in Seq(TileIds(Grid[c])), NEW n \in 0 .. Len(ids)
  PROVE  /\ Left(c, ids, ListSize(c, ids), n) = ListSize(c, SubSeq(ids, 1, n))
         /\ ListSize(c, SubSeq(ids, 1, n)) \in Int
         /\ ListSize(c, SubSeq(ids, 1, 0)) = 0
<1>. DEFINE L == Len(ids)
            v == ListBytes(c, ids)
            s == SubSeq(ids, 1, n)
<1>1. L \in Nat /\ n \in 0 .. L
  OBVIOUS
<1>2. /\ \A j \in 1 .. L : v[j] = TileBytes[c][ids[j]] /\ v[j] \in Int
      /\ ListSize(c, ids) = Part(v, 1, L)
  BY ListBytesAre
<1>3. Left(c, ids, ListSize(c, ids), n) = ListSize(c, ids) - Part(v, n + 1, L)
  <2>1. \A j \in n + 1 .. L : j \in 1 .. L
    BY <1>1
  <2>2. [j \in n + 1 .. L |-> TileBytes[c][ids[j]]] = [j \in n + 1 .. L |-> v[j]]
    BY <1>2, <2>1
  <2>. QED  BY <2>2 DEF Left, Part
<1>4. s \in Seq(TileIds(Grid[c])) /\ Len(s) = n /\ DOMAIN s = 1 .. n
      /\ \A j \in 1 .. n : s[j] = ids[j]
  BY <1>1
<1>5. ListSize(c, s) = Part(v, 1, n)
  <2>1. \A j \in 1 .. n : j \in 1 .. L
    BY <1>1
  <2>. HIDE DEF s
  <2>2. [j \in DOMAIN s |-> TileBytes[c][s[j]]] = [j \in 1 .. n |-> v[j]]
    BY <1>2, <1>4, <2>1
  <2>. QED  BY <2>2 DEF ListSize, Part
<1>6. Part(v, 1, L) = Part(v, 1, n) + Part(v, n + 1, L)
  <2>. HIDE DEF v, L
  <2>. QED  BY <1>1, <1>2, PartsAdd
<1>7. Part(v, 1, n) \in Int /\ Part(v, n + 1, L) \in Int
  <2>. HIDE DEF v, L
  <2>1. (\A j \in 1 .. n : v[j] \in Int) /\ (\A j \in n + 1 .. L : v[j] \in Int)
    BY <1>1, <1>2
  <2>. QED  BY <1>1, <2>1, PartIsInt
<1>8. ListSize(c, SubSeq(ids, 1, 0)) = 0
  <2>1. DOMAIN SubSeq(ids, 1, 0) = {}
    OBVIOUS
  <2>. QED  BY <2>1, SumOfNone DEF ListSize
<1>. HIDE DEF v, L, s
<1>9. Left(c, ids, ListSize(c, ids), n) = ListSize(c, s) /\ ListSize(c, s) \in Int
  BY <1>2, <1>3, <1>5, <1>6, <1>7
<1>. QED  BY <1>8, <1>9 DEF s

-----------------------------------------------------------------------------
(* Part 6: what a use and an insertion do to a cache.                      *)

LEMMA Greatest ==
  ASSUME NEW N \in Nat, NEW U, U \subseteq 0 .. N, U # {}
  PROVE  \E m \in U : \A k \in U : k <= m
<1>. DEFINE W == {N - k : k \in U}
<1>1. W \subseteq Nat /\ W # {}
  <2>1. \A k \in U : k \in 0 .. N
    OBVIOUS
  <2>2. \A k \in U : N - k \in Nat
    BY <2>1
  <2>. QED  BY <2>2
<1>. HIDE DEF W
<1>2. PICK w \in W : \A k \in W : w <= k
  BY <1>1, Least
<1>3. PICK m \in U : w = N - m
  BY DEF W
<1>4. ASSUME NEW k \in U PROVE k <= m
  <2>1. N - k \in W
    BY DEF W
  <2>2. w <= N - k
    BY <1>2, <2>1
  <2>3. k \in 0 .. N /\ m \in 0 .. N
    OBVIOUS
  <2>. QED  BY <1>3, <2>2, <2>3
<1>. QED  BY <1>4

LEMMA TileCountIs ==
  ASSUME NEW c \in Types
  PROVE  TileCount(c) \in Nat
<1>1. Grid[c].nx - 1 \in Nat /\ Grid[c].ny - 1 \in Nat
  BY GridAssumption
<1>2. Grid[c].nx \in Nat \ {0} /\ Grid[c].tw \in Nat \ {0} /\ 0 \in 0 .. Grid[c].nx - 1
  BY <1>1, GridAssumption
<1>3. Columns(Grid[c]) \in Nat
  BY <1>2, TilesReach DEF Columns
<1>4. Grid[c].ny \in Nat \ {0} /\ Grid[c].th \in Nat \ {0} /\ 0 \in 0 .. Grid[c].ny - 1
  BY <1>1, GridAssumption
<1>5. Rows(Grid[c]) \in Nat
  BY <1>4, TilesReach DEF Rows
<1>. QED  BY <1>3, <1>5 DEF TileCount

LEMMA TileIdsFinite ==
  ASSUME NEW c \in Types
  PROVE  IsFiniteSet(TileIds(Grid[c]))
<1>1. TileCount(c) - 1 \in Int
  BY TileCountIs
<1>. QED  BY <1>1, FS_Interval DEF TileIds, TileCount

Members(s) == {s[i] : i \in DOMAIN s}

(* A cache of a component that is as CacheCoherent says, with its types.   *)
CacheOK(c, q) ==
  /\ q = [lru |-> q.lru, tiles |-> q.tiles, bytes |-> q.bytes]
  /\ q.lru \in Seq(TileIds(Grid[c]))
  /\ Members(q.lru) = DOMAIN q.tiles
  /\ Once(q.lru)
  /\ \A id \in DOMAIN q.tiles : q.tiles[id] = <<c, id>> /\ ~Damaged(c, id)
  /\ Len(q.lru) <= options.capacity
  /\ q.bytes = ListSize(c, q.lru)
  /\ q.bytes <= options.bytes

LEMMA EmptyCacheOK ==
  ASSUME NEW c \in Types, options \in OptionSets
  PROVE  CacheOK(c, EmptyCache)
<1>1. options.capacity \in Nat /\ options.bytes \in Nat
  BY OptionsAssumption
<1>2. DOMAIN << >> = {} /\ << >> \in Seq(TileIds(Grid[c])) /\ Len(<< >>) = 0
  OBVIOUS
<1>3. ListSize(c, << >>) = 0
  BY <1>2, SumOfNone DEF ListSize
<1>. QED  BY <1>1, <1>2, <1>3 DEF CacheOK, EmptyCache, Once, Members

(* The list after a use has the same members in another order.             *)
LEMMA ToFront ==
  ASSUME NEW S, NEW s \in Seq(S), NEW at \in 1 .. Len(s), Once(s)
  PROVE  LET t == <<s[at]>> \o SubSeq(s, 1, at - 1) \o SubSeq(s, at + 1, Len(s))
         IN  t \in Seq(S) /\ Len(t) = Len(s) /\ Once(t) /\ Members(t) = Members(s)
<1>. DEFINE a == SubSeq(s, 1, at - 1)
            b == SubSeq(s, at + 1, Len(s))
            u == <<s[at]>> \o a
            t == u \o b
            L == Len(s)
<1>1. L \in Nat /\ at \in 1 .. L /\ DOMAIN s = 1 .. L /\ Len(s) = L
  OBVIOUS
<1>2. a \in Seq(S) /\ Len(a) = at - 1 /\ \A i \in 1 .. at - 1 : a[i] = s[i]
  BY <1>1
<1>. HIDE DEF L
<1>3. b \in Seq(S) /\ Len(b) = L - at /\ \A i \in 1 .. L - at : b[i] = s[at + i]
  <2>1. at + 1 \in 1 .. Len(s) + 1 /\ Len(s) \in Nat
    BY <1>1
  <2>2. b \in Seq(S) /\ Len(b) = L - at
    BY <1>1, <2>1
  <2>3. ASSUME NEW i \in 1 .. L - at PROVE b[i] = s[at + i]
    <3>1. b[i] = s[at + 1 + i - 1]
      BY <1>1, <2>1
    <3>2. at + 1 + i - 1 = at + i
      BY <1>1
    <3>. QED  BY <3>1, <3>2
  <2>. QED  BY <2>2, <2>3
<1>. HIDE DEF a, b
<1>4. s[at] \in S
  OBVIOUS
<1>5. /\ u \in Seq(S) /\ Len(u) = at /\ u[1] = s[at]
      /\ \A i \in 2 .. at : u[i] = s[i - 1]
  <2>1. <<s[at]>> \in Seq(S) /\ Len(<<s[at]>>) = 1
    BY <1>4
  <2>2. u \in Seq(S) /\ Len(u) = at
    BY <1>1, <1>2, <2>1
  <2>3. u[1] = s[at]
    BY <1>1, <1>2, <2>1
  <2>4. ASSUME NEW i \in 2 .. at PROVE u[i] = s[i - 1]
    <3>1. i - 1 \in 1 .. at - 1
      BY <1>1
    <3>2. u[i] = a[i - 1]
      BY <1>1, <1>2, <2>1, <3>1
    <3>. QED  BY <1>2, <3>1, <3>2
  <2>. QED  BY <2>2, <2>3, <2>4
<1>. HIDE DEF u
<1>6. /\ t \in Seq(S) /\ Len(t) = L /\ t[1] = s[at]
      /\ \A i \in 2 .. at : t[i] = s[i - 1]
      /\ \A i \in at + 1 .. L : t[i] = s[i]
  <2>1. t \in Seq(S) /\ Len(t) = L
    <3>1. t \in Seq(S) /\ Len(t) = Len(u) + Len(b)
      <4>1. u \in Seq(S) /\ b \in Seq(S)
        BY <1>3, <1>5
      <4>. QED  BY <4>1
    <3>2. at + (L - at) = L
      BY <1>1
    <3>. QED  BY <1>3, <1>5, <3>1, <3>2
  <2>2. \A i \in 1 .. at : t[i] = u[i]
    BY <1>1, <1>3, <1>5
  <2>3. ASSUME NEW i \in at + 1 .. L PROVE t[i] = s[i]
    <3>1. i - at \in 1 .. L - at /\ at + (i - at) = i
      BY <1>1
    <3>2. t[i] = b[i - at]
      BY <1>1, <1>3, <1>5, <3>1
    <3>. QED  BY <1>3, <3>1, <3>2
  <2>4. 1 \in 1 .. at /\ \A i \in 2 .. at : i \in 1 .. at
    BY <1>1
  <2>. QED  BY <1>5, <2>1, <2>2, <2>3, <2>4
<1>. HIDE DEF t
<1>. DEFINE Was(i) == IF i = 1 THEN at ELSE IF i <= at THEN i - 1 ELSE i
            Now(i) == IF i = at THEN 1 ELSE IF i < at THEN i + 1 ELSE i
<1>7. \A i \in 1 .. L : Was(i) \in 1 .. L /\ t[i] = s[Was(i)] /\ Now(Was(i)) = i
  BY <1>1, <1>6
<1>8. \A i \in 1 .. L : Now(i) \in 1 .. L /\ Was(Now(i)) = i
  BY <1>1
<1>9. DOMAIN t = 1 .. L
  BY <1>6
<1>. HIDE DEF Was, Now
<1>10. Members(t) = Members(s)
  <2>1. ASSUME NEW i \in 1 .. L PROVE t[i] \in Members(s)
    BY <1>1, <1>7 DEF Members
  <2>2. ASSUME NEW i \in 1 .. L PROVE s[i] \in Members(t)
    BY <1>7, <1>8, <1>9 DEF Members
  <2>. QED  BY <1>1, <1>9, <2>1, <2>2 DEF Members
<1>11. Once(t)
  <2>1. ASSUME NEW i \in 1 .. L, NEW j \in 1 .. L, t[i] = t[j] PROVE i = j
    <3>1. Was(i) = Was(j)
      BY <1>1, <1>7, <2>1 DEF Once
    <3>. QED  BY <1>7, <3>1
  <2>. QED  BY <1>9, <2>1 DEF Once
<1>. QED  BY <1>6, <1>10, <1>11 DEF t, u, a, b, L

LEMMA TouchOK ==
  ASSUME NEW c \in Types, CacheOK(c, cache[c]), NEW id \in DOMAIN cache[c].tiles
  PROVE  CacheOK(c, Touch(c, id))
<1>. DEFINE q == cache[c]
            s == q.lru
            at == Position(c, id)
            t == <<s[at]>> \o SubSeq(s, 1, at - 1) \o SubSeq(s, at + 1, Len(s))
<1>1. at \in DOMAIN s /\ s[at] = id
  <2>1. \E i \in DOMAIN s : s[i] = id
    BY DEF CacheOK, Members
  <2>. QED  BY <2>1 DEF Position
<1>2. Touch(c, id) = [q EXCEPT !.lru = t]
  BY <1>1 DEF Touch
<1>3. s \in Seq(TileIds(Grid[c])) /\ Once(s)
  BY DEF CacheOK
<1>. HIDE DEF at
<1>4. at \in 1 .. Len(s)
  BY <1>1, <1>3
<1>5. t \in Seq(TileIds(Grid[c])) /\ Len(t) = Len(s) /\ Once(t) /\ Members(t) = Members(s)
  <2>. HIDE DEF s
  <2>. QED  BY <1>3, <1>4, ToFront
<1>6. ListSize(c, t) = ListSize(c, s)
  <2>. HIDE DEF t, s
  <2>1. ListSize(c, t) = Size(c, Members(t)) /\ ListSize(c, s) = Size(c, Members(s))
    BY <1>3, <1>5, ListSizeIs DEF Members
  <2>. QED  BY <1>5, <2>1
<1>. HIDE DEF t
<1>7. Touch(c, id) = [lru |-> t, tiles |-> q.tiles, bytes |-> q.bytes]
  BY <1>2 DEF CacheOK
<1>. QED  BY <1>5, <1>6, <1>7 DEF CacheOK

(* Eviction leaves the longest front of the list that is within limits.    *)
LEMMA KeptLengthIs ==
  ASSUME NEW c \in Types, NEW ids \in Seq(TileIds(Grid[c])), options \in OptionSets
  PROVE  LET n == KeptLength(c, ids, ListSize(c, ids))
         IN  /\ n \in 0 .. Len(ids) /\ n <= options.capacity
             /\ ListSize(c, SubSeq(ids, 1, n)) <= options.bytes
<1>. DEFINE total == ListSize(c, ids)
            fit == {0} \cup {n \in 1 .. Len(ids) :
                               n <= options.capacity /\ Left(c, ids, total, n) <= options.bytes}
            n == KeptLength(c, ids, total)
<1>1. options.capacity \in Nat /\ options.bytes \in Nat
  BY OptionsAssumption
<1>2. fit \subseteq 0 .. Len(ids) /\ fit # {} /\ Len(ids) \in Nat
  OBVIOUS
<1>3. \E k \in fit : \A m \in fit : m <= k
  <2>. HIDE DEF fit
  <2>. QED  BY <1>2, Greatest
<1>4. n \in fit
  BY <1>3 DEF KeptLength
<1>. HIDE DEF n
<1>5. n \in 0 .. Len(ids)
  BY <1>2, <1>4
<1>6. Left(c, ids, total, n) = ListSize(c, SubSeq(ids, 1, n)) /\ ListSize(c, SubSeq(ids, 1, 0)) = 0
  BY <1>5, LeftIs
<1>. HIDE DEF total
<1>7. CASE n = 0
  BY <1>1, <1>5, <1>6, <1>7 DEF n, total
<1>8. CASE n # 0
  <2>1. n <= options.capacity /\ Left(c, ids, total, n) <= options.bytes
    BY <1>4, <1>8
  <2>. QED  BY <1>5, <1>6, <2>1 DEF n, total
<1>. QED  BY <1>7, <1>8

LEMMA InsertOK ==
  ASSUME NEW c \in Types, CacheOK(c, cache[c]), options \in OptionSets,
         NEW id \in TileIds(Grid[c]), id \notin DOMAIN cache[c].tiles, ~Damaged(c, id)
  PROVE  CacheOK(c, Insert(c, id, <<c, id>>))
<1>. DEFINE q == cache[c]
            ids == <<id>> \o q.lru
            total == q.bytes + TileBytes[c][id]
            n == KeptLength(c, ids, total)
            s == SubSeq(ids, 1, n)
            kept == {ids[j] : j \in 1 .. n}
            tiles == [i \in kept |-> IF i = id THEN <<c, id>> ELSE q.tiles[i]]
<1>1. q.lru \in Seq(TileIds(Grid[c])) /\ Once(q.lru) /\ Members(q.lru) = DOMAIN q.tiles
  BY DEF CacheOK
<1>2. /\ ids \in Seq(TileIds(Grid[c])) /\ Len(ids) = Len(q.lru) + 1 /\ ids[1] = id
      /\ \A i \in 2 .. Len(ids) : ids[i] = q.lru[i - 1] /\ i - 1 \in DOMAIN q.lru
  BY <1>1
<1>3. Insert(c, id, <<c, id>>) = [lru |-> s, tiles |-> tiles, bytes |-> Left(c, ids, total, n)]
  BY DEF Insert
<1>. HIDE DEF ids
<1>4. DOMAIN ids = 1 .. Len(ids) /\ Len(ids) \in Nat /\ 1 <= Len(ids)
  BY <1>1, <1>2
<1>5. Once(ids)
  <2>1. \A i \in 2 .. Len(ids) : ids[i] # id
    BY <1>1, <1>2 DEF Members
  <2>2. ASSUME NEW i \in 1 .. Len(ids), NEW j \in 1 .. Len(ids), ids[i] = ids[j]
        PROVE  i = j
    <3>1. CASE i = 1 \/ j = 1
      BY <1>2, <1>4, <2>1, <2>2, <3>1
    <3>2. CASE i # 1 /\ j # 1
      <4>1. i - 1 \in DOMAIN q.lru /\ j - 1 \in DOMAIN q.lru /\ q.lru[i - 1] = q.lru[j - 1]
        BY <1>2, <2>2, <3>2
      <4>2. i - 1 = j - 1
        BY <1>1, <4>1 DEF Once
      <4>. QED  BY <1>4, <4>2
    <3>. QED  BY <3>1, <3>2
  <2>. QED  BY <1>4, <2>2 DEF Once
<1>6. Members(ids) = DOMAIN q.tiles \cup {id}
  <2>1. ASSUME NEW i \in 1 .. Len(ids) PROVE ids[i] \in Members(q.lru) \cup {id}
    <3>1. CASE i = 1
      BY <1>2, <3>1
    <3>2. CASE i # 1
      BY <1>2, <1>4, <3>2 DEF Members
    <3>. QED  BY <3>1, <3>2
  <2>2. ASSUME NEW i \in DOMAIN q.lru PROVE q.lru[i] \in Members(ids)
    <3>1. i + 1 \in 2 .. Len(ids) /\ (i + 1) - 1 = i
      BY <1>1, <1>2
    <3>2. ids[i + 1] = q.lru[i] /\ i + 1 \in DOMAIN ids
      BY <1>2, <1>4, <3>1
    <3>. QED  BY <3>2 DEF Members
  <2>3. id \in Members(ids)
    BY <1>2, <1>4 DEF Members
  <2>. QED  BY <1>1, <1>4, <2>1, <2>2, <2>3 DEF Members
<1>7. total = ListSize(c, ids)
  <2>1. ListSize(c, ids) = Size(c, Members(ids)) /\ ListSize(c, q.lru) = Size(c, Members(q.lru))
    BY <1>1, <1>2, <1>5, ListSizeIs DEF Members
  <2>2. IsFiniteSet(Members(q.lru)) /\ Members(q.lru) \subseteq TileIds(Grid[c])
    <3>1. Members(q.lru) \subseteq TileIds(Grid[c])
      BY <1>1 DEF Members
    <3>2. IsFiniteSet(TileIds(Grid[c]))
      BY TileIdsFinite
    <3>. QED  BY <3>1, <3>2, FS_Subset
  <2>3. Size(c, Members(q.lru) \cup {id}) = TileBytes[c][id] + Size(c, Members(q.lru))
    BY <1>1, <2>2, SizeWith
  <2>4. q.bytes = ListSize(c, q.lru)
    BY DEF CacheOK
  <2>5. ListSize(c, q.lru) \in Int /\ TileBytes[c][id] \in Int
    <3>1. ListSize(c, q.lru) \in Int
      BY <1>1, ListSizeIsInt
    <3>2. TileBytes[c][id] \in Nat
      BY MemoryAssumption
    <3>. QED  BY <3>1, <3>2
  <2>6. Members(ids) = Members(q.lru) \cup {id}
    BY <1>1, <1>6
  <2>. QED  BY <2>1, <2>3, <2>4, <2>5, <2>6
<1>. HIDE DEF total
<1>8. n \in 0 .. Len(ids) /\ n <= options.capacity /\ ListSize(c, s) <= options.bytes
  BY <1>2, <1>7, KeptLengthIs
<1>9. Left(c, ids, total, n) = ListSize(c, s)
  BY <1>2, <1>7, <1>8, LeftIs
<1>. HIDE DEF n
<1>10. /\ s \in Seq(TileIds(Grid[c])) /\ Len(s) = n /\ DOMAIN s = 1 .. n
       /\ \A j \in 1 .. n : s[j] = ids[j] /\ j \in DOMAIN ids
  BY <1>2, <1>4, <1>8
<1>. HIDE DEF s
<1>11. Members(s) = kept /\ DOMAIN tiles = kept
  BY <1>10 DEF Members
<1>12. Once(s)
  BY <1>5, <1>10 DEF Once
<1>13. ASSUME NEW i \in kept
       PROVE  tiles[i] = <<c, i>> /\ ~Damaged(c, i)
  <2>1. i \in DOMAIN q.tiles \cup {id}
    BY <1>6, <1>10 DEF Members
  <2>2. CASE i = id
    BY <2>2
  <2>3. CASE i # id
    BY <2>1, <2>3 DEF CacheOK
  <2>. QED  BY <2>2, <2>3
<1>. HIDE DEF tiles, kept
<1>. DEFINE new == Insert(c, id, <<c, id>>)
<1>14. new = [lru |-> s, tiles |-> tiles, bytes |-> ListSize(c, s)]
  BY <1>3, <1>9
<1>. HIDE DEF new
<1>15. new.lru = s /\ new.tiles = tiles /\ new.bytes = ListSize(c, s)
  BY <1>14
<1>16. new = [lru |-> new.lru, tiles |-> new.tiles, bytes |-> new.bytes]
  BY <1>14
<1>17. \A i \in DOMAIN new.tiles : new.tiles[i] = <<c, i>> /\ ~Damaged(c, i)
  BY <1>11, <1>13, <1>15
<1>18. CacheOK(c, new)
  BY <1>8, <1>10, <1>11, <1>12, <1>15, <1>16, <1>17 DEF CacheOK
<1>. QED  BY <1>18 DEF new

-----------------------------------------------------------------------------
(* Part 7: what a request fetches.                                         *)

GivenInv == package \in DOMAIN Files /\ damage \in Damage(package) /\ options \in OptionSets

LEMMA RequestsAre ==
  ASSUME NEW r \in Requests
  PROVE  r.kind \in Kinds /\ r.at \in Points /\ r # NoRequest
<1>1. r.kind \in Kinds
  BY RequestsAssumption
<1>2. r.at \in Points
  BY DEF Points
<1>3. NoRequest.kind \notin Kinds
  BY DEF NoRequest, Kinds
<1>. QED  BY <1>1, <1>2, <1>3

LEMMA PresentAre ==
  ASSUME package \in DOMAIN Files
  PROVE  Present \subseteq Types
<1>1. Layout(file)
  BY FilesAssumption DEF file
<1>2. \A i \in DOMAIN file.dir : file.dir[i].type \in Types
  <2>1. \A i \in DOMAIN file.dir : file.dir[i] \in DirectoryRow
    BY <1>1 DEF Layout
  <2>. QED  BY <2>1 DEF DirectoryRow
<1>3. Listed(file) \subseteq Types
  BY <1>2 DEF Listed
<1>4. {Tide} \subseteq Types
  BY DEF Tide, Types
<1>. QED  BY <1>3, <1>4 DEF Present, Holds

(* The index of a component of an open package has a row for every tile.   *)
LEMMA EntriesAre ==
  ASSUME package \in DOMAIN Files, Opens, NEW c \in Present
  PROVE  /\ Entries(c) \in Seq(IndexRow) /\ Len(Entries(c)) = TileCount(c)
<1>1. Layout(file) /\ Accepts(file)
  BY FilesAssumption DEF file, Opens, Acceptable
<1>2. ASSUME NEW size, ParsePackage(file.tide, size)
      PROVE  file.tide.entries \in Seq(IndexRow) /\ Len(file.tide.entries) = TileCount(Tide)
  BY <1>1, <1>2 DEF Layout, TideHeader, ParsePackage, ParseHeader
<1>3. CASE file.version = 1
  <2>1. c = Tide
    BY <1>3 DEF Present, Holds
  <2>2. ParsePackage(file.tide, file.size)
    BY <1>1, <1>3 DEF Accepts
  <2>. QED  BY <1>2, <2>1, <2>2 DEF Entries, Index
<1>4. CASE file.version # 1
  <2>1. c \in Listed(file)
    BY <1>4 DEF Present, Holds
  <2>2. PICK i \in DOMAIN file.dir : Row(file, c) = file.dir[i] /\ file.dir[i].type = c
    <3>1. \E i \in DOMAIN file.dir : file.dir[i].type = c
      BY <2>1 DEF Listed
    <3>. QED  BY <3>1 DEF Row
  <2>3. IF Nested(file.dir[i]) THEN ParsePackage(file.tide, file.dir[i].nestedLen)
        ELSE ParseTileIndex(file.dir[i])
    BY <1>1, <1>4, <2>2 DEF Accepts
  <2>4. CASE c = Tide
    <3>1. ParsePackage(file.tide, file.dir[i].nestedLen)
      BY <2>2, <2>3, <2>4 DEF Nested
    <3>. QED  BY <1>2, <2>4, <3>1 DEF Entries, Index
  <2>5. CASE c # Tide
    <3>1. file.dir[i].tiles = TileCount(c)
      BY <2>2, <2>3, <2>5 DEF Nested, ParseTileIndex
    <3>2. file.dir[i].entries \in Seq(IndexRow) /\ Len(file.dir[i].entries) = file.dir[i].tiles
      <4>1. file.dir[i] \in DirectoryRow
        BY <1>1 DEF Layout
      <4>2. file.dir[i].entries \in Seq(IndexRow)
        BY <4>1 DEF DirectoryRow
      <4>3. file.dir[i].tiles = TileCount(file.dir[i].type)
        BY <2>2, <3>1
      <4>. QED  BY <1>1, <4>2, <4>3 DEF Layout
    <3>. QED  BY <2>2, <2>5, <3>1, <3>2 DEF Entries, Index
  <2>. QED  BY <2>4, <2>5
<1>. QED  BY <1>3, <1>4

LEMMA AllTilesAre ==
  ASSUME package \in DOMAIN Files, Opens, NEW c \in Types
  PROVE  /\ c \in Present => /\ AllTiles(c) \in Seq(TileNames(c))
                             /\ Members(AllTiles(c)) = TileNames(c)
         /\ c \notin Present => AllTiles(c) = << >>
<1>1. CASE c \notin Present
  BY <1>1 DEF AllTiles
<1>2. CASE c \in Present
  <2>. DEFINE N == TileCount(c)
              all == AllTiles(c)
  <2>1. N \in Nat
    BY TileCountIs
  <2>2. TileIds(Grid[c]) = 0 .. N - 1
    BY DEF TileIds, TileCount
  <2>3. DOMAIN Entries(c) = 1 .. N
    BY <1>2, EntriesAre
  <2>4. all = [i \in 1 .. N |-> <<c, i - 1>>]
    BY <1>2, <2>3 DEF AllTiles
  <2>. HIDE DEF N, all
  <2>5. \A i \in 1 .. N : i - 1 \in 0 .. N - 1
    BY <2>1
  <2>6. \A i \in 1 .. N : <<c, i - 1>> \in TileNames(c)
    BY <2>2, <2>5 DEF TileNames
  <2>7. all \in Seq(TileNames(c)) /\ DOMAIN all = 1 .. N
    BY <2>1, <2>4, <2>6
  <2>8. ASSUME NEW id \in 0 .. N - 1 PROVE <<c, id>> \in Members(all)
    <3>1. id + 1 \in 1 .. N /\ (id + 1) - 1 = id
      BY <2>1
    <3>2. all[id + 1] = <<c, id>>
      BY <2>4, <3>1
    <3>. QED  BY <2>7, <3>1, <3>2 DEF Members
  <2>9. Members(all) \subseteq TileNames(c)
    BY <2>4, <2>6, <2>7 DEF Members
  <2>10. TileNames(c) \subseteq Members(all)
    BY <2>2, <2>8 DEF TileNames
  <2>. QED  BY <1>2, <2>7, <2>9, <2>10 DEF all
<1>. QED  BY <1>1, <1>2

PresentTiles == UNION {TileNames(c) : c \in Present}
NeededTiles(kind) == UNION {TileNames(c) : c \in Needs(kind)}

LEMMA Joined ==
  ASSUME NEW S, NEW s \in Seq(S), NEW t \in Seq(S)
  PROVE  /\ s \o t \in Seq(S) /\ Members(s) \subseteq Members(s \o t)
         /\ Members(t) \subseteq Members(s \o t)
<1>1. s \o t \in Seq(S) /\ Len(s \o t) = Len(s) + Len(t)
  OBVIOUS
<1>2. DOMAIN s = 1 .. Len(s) /\ DOMAIN t = 1 .. Len(t) /\ Len(s) \in Nat /\ Len(t) \in Nat
  OBVIOUS
<1>3. DOMAIN (s \o t) = 1 .. Len(s) + Len(t)
  BY <1>1
<1>4. ASSUME NEW i \in DOMAIN s PROVE s[i] \in Members(s \o t)
  <2>1. i \in DOMAIN (s \o t)
    BY <1>2, <1>3
  <2>2. (s \o t)[i] = s[i]
    BY <1>2
  <2>. QED  BY <2>1, <2>2 DEF Members
<1>5. ASSUME NEW i \in DOMAIN t PROVE t[i] \in Members(s \o t)
  <2>1. Len(s) + i \in DOMAIN (s \o t)
    BY <1>2, <1>3
  <2>2. (s \o t)[Len(s) + i] = t[i]
    BY <1>2
  <2>. QED  BY <2>1, <2>2 DEF Members
<1>. QED  BY <1>1, <1>4, <1>5 DEF Members

LEMMA WiderSeq ==
  ASSUME NEW S, NEW T, S \subseteq T, NEW s \in Seq(S)
  PROVE  s \in Seq(T)
OBVIOUS

LEMMA PointFetchesAre ==
  ASSUME NEW kind \in Kinds \ {"verify"}, NEW at \in Points
  PROVE  /\ PointFetches(kind, at) \in Seq(NeededTiles(kind))
         /\ kind = "quality" => PointFetches(kind, at) = TilesOf(Quality, 0, at)
<1>. USE DEF Types, Tide, Residual, Uncertainty, Height, Quality, Fields
<1>1. \A c \in Types, field \in Fields : TilesOf(c, field, at) \in Seq(TileNames(c))
  BY TilesOfIn
<1>2. CASE kind = "tide"
  <2>1. NeededTiles(kind) = TileNames(Tide)
    BY <1>2 DEF NeededTiles, Needs
  <2>2. PointFetches(kind, at) = TilesOf(Tide, 1, at) \o TilesOf(Tide, 2, at)
    BY <1>2 DEF PointFetches
  <2>3. TilesOf(Tide, 1, at) \in Seq(TileNames(Tide)) /\ TilesOf(Tide, 2, at) \in Seq(TileNames(Tide))
    BY <1>1
  <2>. QED  BY <1>2, <2>1, <2>2, <2>3, Joined
<1>3. CASE kind = "seasonal"
  <2>. DEFINE S == NeededTiles(kind)
              s1 == TilesOf(Tide, 1, at)
              s2 == TilesOf(Tide, 2, at)
              s3 == TilesOf(Residual, 0, at)
  <2>1. TileNames(Tide) \subseteq S /\ TileNames(Residual) \subseteq S
    BY <1>3 DEF NeededTiles, Needs
  <2>2. PointFetches(kind, at) = (s1 \o s2) \o s3
    BY <1>3 DEF PointFetches
  <2>3. s1 \in Seq(TileNames(Tide)) /\ s2 \in Seq(TileNames(Tide)) /\ s3 \in Seq(TileNames(Residual))
    BY <1>1
  <2>. HIDE DEF S, s1, s2, s3
  <2>4. s1 \in Seq(S) /\ s2 \in Seq(S) /\ s3 \in Seq(S)
    BY <2>1, <2>3, WiderSeq
  <2>5. s1 \o s2 \in Seq(S)
    BY <2>4, Joined
  <2>6. (s1 \o s2) \o s3 \in Seq(S)
    BY <2>4, <2>5, Joined
  <2>. QED  BY <1>3, <2>2, <2>6 DEF S
<1>4. CASE kind = "height"
  <2>1. NeededTiles(kind) = TileNames(Height)
    BY <1>4 DEF NeededTiles, Needs
  <2>2. PointFetches(kind, at) = TilesOf(Height, 0, at)
    BY <1>4 DEF PointFetches
  <2>. QED  BY <1>1, <1>4, <2>1, <2>2
<1>5. CASE kind = "quality"
  <2>1. NeededTiles(kind) = TileNames(Quality)
    BY <1>5 DEF NeededTiles, Needs
  <2>2. PointFetches(kind, at) = TilesOf(Quality, 0, at)
    BY <1>5 DEF PointFetches
  <2>. QED  BY <1>1, <1>5, <2>1, <2>2
<1>. QED  BY <1>2, <1>3, <1>4, <1>5 DEF Kinds

LEMMA VerifyFetchesAre ==
  ASSUME package \in DOMAIN Files, Opens
  PROVE  /\ VerifyFetches \in Seq(PresentTiles)
         /\ Tide \in Present => TileNames(Tide) \subseteq Members(VerifyFetches)
<1>. USE DEF Types
<1>. DEFINE S == PresentTiles
            s1 == AllTiles(Tide)
            s2 == AllTiles(Residual)
            s3 == AllTiles(Uncertainty)
            s4 == AllTiles(Height)
            s5 == AllTiles(Quality)
<1>1. ASSUME NEW c \in Types PROVE AllTiles(c) \in Seq(S)
  <2>1. CASE c \in Present
    <3>1. TileNames(c) \subseteq S
      BY <2>1 DEF PresentTiles
    <3>2. AllTiles(c) \in Seq(TileNames(c))
      BY <2>1, AllTilesAre
    <3>. QED  BY <3>1, <3>2, WiderSeq
  <2>2. CASE c \notin Present
    <3>1. AllTiles(c) = << >>
      BY <2>2, AllTilesAre
    <3>. QED  BY <3>1
  <2>. QED  BY <2>1, <2>2
<1>2. s1 \in Seq(S) /\ s2 \in Seq(S) /\ s3 \in Seq(S) /\ s4 \in Seq(S) /\ s5 \in Seq(S)
  BY <1>1 DEF Tide, Residual, Uncertainty, Height, Quality
<1>3. VerifyFetches = (((s1 \o s2) \o s3) \o s4) \o s5
  BY DEF VerifyFetches
<1>4. Tide \in Present => Members(s1) = TileNames(Tide)
  BY AllTilesAre DEF Tide
<1>. HIDE DEF S, s1, s2, s3, s4, s5
<1>5. s1 \o s2 \in Seq(S) /\ Members(s1) \subseteq Members(s1 \o s2)
  BY <1>2, Joined
<1>6. (s1 \o s2) \o s3 \in Seq(S) /\ Members(s1 \o s2) \subseteq Members((s1 \o s2) \o s3)
  BY <1>2, <1>5, Joined
<1>7. /\ ((s1 \o s2) \o s3) \o s4 \in Seq(S)
      /\ Members((s1 \o s2) \o s3) \subseteq Members(((s1 \o s2) \o s3) \o s4)
  BY <1>2, <1>6, Joined
<1>8. /\ (((s1 \o s2) \o s3) \o s4) \o s5 \in Seq(S)
      /\ Members(((s1 \o s2) \o s3) \o s4) \subseteq Members((((s1 \o s2) \o s3) \o s4) \o s5)
  BY <1>2, <1>7, Joined
<1>. QED  BY <1>3, <1>4, <1>5, <1>6, <1>7, <1>8 DEF S

-----------------------------------------------------------------------------
(* Part 8: what the reader makes of a tile.                                *)

Half == Modulus \div 2
Width == -Half .. Half - 1

LEMMA WidthIs ==
  Modulus \in Nat \ {0} /\ Half \in Nat \ {0} /\ Modulus = 2 * Half
<1>1. Modulus \in Nat \ {0} /\ Modulus % 2 = 0
  BY CodingAssumption
<1>2. Half \in Int /\ Modulus = 2 * Half + (Modulus % 2)
  BY <1>1, Division DEF Half
<1>. HIDE DEF Half
<1>. QED  BY <1>1, <1>2

(* A number read back as a signed value differs from it by turns of the    *)
(* coded width, and is the only signed value that does.                    *)
LEMMA SignedIs ==
  ASSUME NEW a \in Int
  PROVE  Signed(a) \in Width /\ \E q \in Int : a = q * Modulus + Signed(a)
<1>. DEFINE r == a % Modulus
            d == a \div Modulus
<1>1. d \in Int /\ r \in 0 .. Modulus - 1 /\ a = Modulus * d + r
  BY WidthIs, Division
<1>2. Signed(a) = IF r >= Half THEN r - Modulus ELSE r
  BY DEF Signed, Half
<1>. HIDE DEF r, d
<1>3. CASE r >= Half
  <2>1. Signed(a) = r - Modulus
    BY <1>2, <1>3
  <2>2. r - Modulus \in Width
    BY <1>1, <1>3, WidthIs DEF Width
  <2>3. d + 1 \in Int /\ a = (d + 1) * Modulus + (r - Modulus)
    BY <1>1, WidthIs
  <2>. QED  BY <2>1, <2>2, <2>3
<1>4. CASE ~(r >= Half)
  <2>1. Signed(a) = r
    BY <1>2, <1>4
  <2>2. r \in Width
    BY <1>1, <1>4, WidthIs DEF Width
  <2>3. a = d * Modulus + r
    BY <1>1, WidthIs
  <2>. QED  BY <1>1, <2>1, <2>2, <2>3
<1>. QED  BY <1>3, <1>4

LEMMA SignedOnly ==
  ASSUME NEW a \in Int, NEW q \in Int, NEW s \in Width, a = q * Modulus + s
  PROVE  Signed(a) = s
<1>1. s \in Int /\ -Half <= s /\ s <= Half - 1
  BY WidthIs DEF Width
<1>2. CASE s >= 0
  <2>1. s \in 0 .. Modulus - 1
    BY <1>1, <1>2, WidthIs
  <2>2. a % Modulus = s
    BY <2>1, WidthIs, Quotient
  <2>3. ~(s >= Half)
    BY <1>1, WidthIs
  <2>. QED  BY <2>2, <2>3 DEF Signed, Half
<1>3. CASE s < 0
  <2>1. s + Modulus \in 0 .. Modulus - 1 /\ q - 1 \in Int
    BY <1>1, <1>3, WidthIs
  <2>2. a = (q - 1) * Modulus + (s + Modulus)
    BY <1>1, WidthIs
  <2>3. a % Modulus = s + Modulus
    <3>. DEFINE p == q - 1
                r == s + Modulus
    <3>1. p \in Int /\ r \in 0 .. Modulus - 1 /\ a = p * Modulus + r
      BY <2>1, <2>2
    <3>. HIDE DEF p, r
    <3>2. a % Modulus = r
      BY <3>1, WidthIs, Quotient
    <3>. QED  BY <3>2 DEF r
  <2>4. s + Modulus >= Half /\ (s + Modulus) - Modulus = s
    BY <1>1, WidthIs
  <2>. QED  BY <2>3, <2>4 DEF Signed, Half
<1>. QED  BY <1>1, <1>2, <1>3

LEMMA SignedStays ==
  ASSUME NEW s \in Width
  PROVE  Signed(s) = s
<1>1. s \in Int /\ 0 \in Int /\ s = 0 * Modulus + s
  BY WidthIs DEF Width
<1>. QED  BY <1>1, SignedOnly

(* A difference added to what it was taken from gives the value back.      *)
LEMMA SignedSum ==
  ASSUME NEW a \in Int, NEW b \in Int
  PROVE  Signed(Signed(a - b) + Signed(b)) = Signed(a)
<1>. DEFINE s == Signed(a - b)
            t == Signed(b)
            u == Signed(s + t)
<1>1. PICK p \in Int : a - b = p * Modulus + s
  <2>1. a - b \in Int
    OBVIOUS
  <2>. HIDE DEF s
  <2>. QED  BY <2>1, SignedIs DEF s
<1>2. PICK q \in Int : b = q * Modulus + t
  BY SignedIs
<1>3. s \in Int /\ t \in Int
  <2>1. a - b \in Int
    OBVIOUS
  <2>2. s \in Width /\ t \in Width
    BY <2>1, SignedIs
  <2>. QED  BY <2>2, WidthIs DEF Width
<1>. HIDE DEF s, t
<1>4. u \in Width /\ \E r \in Int : s + t = r * Modulus + u
  <2>1. s + t \in Int
    BY <1>3
  <2>. QED  BY <2>1, SignedIs
<1>5. PICK r \in Int : s + t = r * Modulus + u
  BY <1>4
<1>6. u \in Int
  BY <1>4, WidthIs DEF Width
<1>. HIDE DEF u
<1>7. a = ((p + q) + r) * Modulus + u /\ (p + q) + r \in Int
  <2>1. a = (p * Modulus + s) + (q * Modulus + t)
    <3>1. p * Modulus \in Int /\ q * Modulus \in Int
      BY WidthIs
    <3>. QED  BY <1>1, <1>2, <1>3, <3>1
  <2>2. ((p + q) + r) * Modulus = (p * Modulus + q * Modulus) + r * Modulus
    BY WidthIs
  <2>3. p * Modulus \in Int /\ q * Modulus \in Int /\ r * Modulus \in Int
    BY WidthIs
  <2>. QED  BY <1>3, <1>5, <1>6, <2>1, <2>2, <2>3
<1>8. Signed(a) = u
  BY <1>4, <1>7, SignedOnly
<1>. QED  BY <1>8 DEF u, s, t

(* A tile that was coded as differences decodes to what it was: summing    *)
(* down the columns gives back the differences along the rows, and summing *)
(* those along the rows gives back the values.                             *)
THEOREM CodingIsLossless ==
  ASSUME NEW w \in Nat \ {0}, NEW h \in Nat \ {0},
         NEW values \in [0 .. w * h - 1 -> Width]
  PROVE  Decode(Encode(values, w, h), w, h) = values
<1>. DEFINE D == 0 .. w * h - 1
            row == [k \in D |-> IF k % w = 0 THEN values[k] ELSE values[k] - values[k - 1]]
            raw == Encode(values, w, h)
            DownOf(f) == [k \in D |-> IF k < w THEN raw[k] ELSE Signed(raw[k] + f[k - w])]
            down == CHOOSE f : f = DownOf(f)
            AlongOf(f) == [k \in D |-> IF k % w = 0 THEN down[k] ELSE Signed(down[k] + f[k - 1])]
            along == CHOOSE f : f = AlongOf(f)
            rows == [k \in D |-> Signed(row[k])]
<1>1. Decode(raw, w, h) = [k \in D |-> along[k]]
  BY DEF Decode
<1>2. raw = [k \in D |-> Signed(IF k < w THEN row[k] ELSE row[k] - row[k - w])]
  BY DEF Encode
<1>3. /\ D \subseteq Nat
      /\ \A k \in D : k % w # 0 => k - 1 \in D
      /\ \A k \in D : ~(k < w) => k - w \in D /\ k - w < k
  <2>1. w * h \in Nat
    OBVIOUS
  <2>2. 0 % w = 0
    BY Quotient
  <2>. QED  BY <2>1, <2>2
<1>4. values = [k \in D |-> values[k]] /\ \A k \in D : values[k] \in Width /\ values[k] \in Int
  BY WidthIs DEF Width
<1>. HIDE DEF D, raw
<1>5. \A k \in D : row[k] \in Int
  BY <1>3, <1>4
<1>6. \A k \in D : raw[k] = Signed(IF k < w THEN row[k] ELSE row[k] - row[k - w])
  BY <1>2
<1>. HIDE DEF row
<1>7. rows = DownOf(rows)
  <2>1. ASSUME NEW k \in D
        PROVE  rows[k] = IF k < w THEN raw[k] ELSE Signed(raw[k] + rows[k - w])
    <3>1. CASE k < w
      BY <1>6, <3>1
    <3>2. CASE ~(k < w)
      <4>1. k - w \in D
        BY <1>3, <3>2
      <4>2. raw[k] = Signed(row[k] - row[k - w]) /\ rows[k - w] = Signed(row[k - w])
        BY <1>6, <3>2, <4>1
      <4>3. row[k] \in Int /\ row[k - w] \in Int
        BY <1>5, <4>1
      <4>4. Signed(Signed(row[k] - row[k - w]) + Signed(row[k - w])) = Signed(row[k])
        BY <4>3, SignedSum
      <4>. QED  BY <3>2, <4>2, <4>4
    <3>. QED  BY <3>1, <3>2
  <2>. QED  BY <2>1
<1>8. down = DownOf(down)
  <2>. HIDE DEF rows, DownOf
  <2>. QED  BY <1>7
<1>. HIDE DEF down
<1>9. \A k \in D : down[k] = rows[k]
  <2>. DEFINE Wrong == {k \in D : down[k] # rows[k]}
  <2>1. SUFFICES ASSUME Wrong # {} PROVE FALSE
    OBVIOUS
  <2>2. Wrong \subseteq Nat
    BY <1>3
  <2>3. PICK k \in Wrong : \A n \in Wrong : k <= n
    <3>. HIDE DEF Wrong
    <3>. QED  BY <2>1, <2>2, Least
  <2>4. k \in D /\ down[k] # rows[k]
    OBVIOUS
  <2>5. down[k] = IF k < w THEN raw[k] ELSE Signed(raw[k] + down[k - w])
    BY <1>8, <2>4
  <2>6. rows[k] = IF k < w THEN raw[k] ELSE Signed(raw[k] + rows[k - w])
    <3>. HIDE DEF rows
    <3>. QED  BY <1>7, <2>4
  <2>. HIDE DEF rows
  <2>7. ~(k < w)
    BY <2>4, <2>5, <2>6
  <2>8. k - w \in D /\ k - w < k
    BY <1>3, <2>4, <2>7
  <2>9. down[k - w] # rows[k - w]
    BY <2>4, <2>5, <2>6, <2>7
  <2>10. k <= k - w
    BY <2>3, <2>8, <2>9
  <2>. QED  BY <1>3, <2>4, <2>8, <2>10
<1>10. values = AlongOf(values)
  <2>1. ASSUME NEW k \in D
        PROVE  values[k] = IF k % w = 0 THEN down[k] ELSE Signed(down[k] + values[k - 1])
    <3>1. down[k] = Signed(row[k])
      BY <1>9
    <3>2. Signed(values[k]) = values[k]
      BY <1>4, SignedStays
    <3>3. CASE k % w = 0
      <4>1. row[k] = values[k]
        BY <3>3 DEF row
      <4>. QED  BY <3>1, <3>2, <3>3, <4>1
    <3>4. CASE k % w # 0
      <4>1. row[k] = values[k] - values[k - 1] /\ k - 1 \in D
        BY <1>3, <3>4 DEF row
      <4>2. Signed(values[k - 1]) = values[k - 1]
        BY <1>4, <4>1, SignedStays
      <4>3. Signed(Signed(values[k] - values[k - 1]) + Signed(values[k - 1])) = Signed(values[k])
        BY <1>4, <4>1, SignedSum
      <4>. QED  BY <3>1, <3>2, <3>4, <4>1, <4>2, <4>3
    <3>. QED  BY <3>3, <3>4
  <2>. QED  BY <1>4, <2>1
<1>11. along = AlongOf(along)
  <2>. HIDE DEF AlongOf
  <2>. QED  BY <1>10
<1>. HIDE DEF along, rows
<1>12. \A k \in D : along[k] = values[k]
  <2>. DEFINE Wrong == {k \in D : along[k] # values[k]}
  <2>1. SUFFICES ASSUME Wrong # {} PROVE FALSE
    OBVIOUS
  <2>2. Wrong \subseteq Nat
    BY <1>3
  <2>3. PICK k \in Wrong : \A n \in Wrong : k <= n
    <3>. HIDE DEF Wrong
    <3>. QED  BY <2>1, <2>2, Least
  <2>4. k \in D /\ along[k] # values[k]
    OBVIOUS
  <2>5. along[k] = IF k % w = 0 THEN down[k] ELSE Signed(down[k] + along[k - 1])
    BY <1>11, <2>4
  <2>6. values[k] = IF k % w = 0 THEN down[k] ELSE Signed(down[k] + values[k - 1])
    BY <1>10, <2>4
  <2>7. k % w # 0
    BY <2>4, <2>5, <2>6
  <2>8. k - 1 \in D
    BY <1>3, <2>4, <2>7
  <2>9. along[k - 1] # values[k - 1]
    BY <2>4, <2>5, <2>6, <2>7
  <2>10. k <= k - 1
    BY <2>3, <2>8, <2>9
  <2>. QED  BY <1>3, <2>4, <2>10
<1>. QED  BY <1>1, <1>4, <1>12 DEF raw

(* Every position of a tile is a cell of the grid.                         *)
LEMMA CellAtIn ==
  ASSUME NEW c \in Types, NEW id \in TileIds(Grid[c])
  PROVE  /\ TileWidth(Grid[c], id) \in Nat \ {0} /\ TileHeight(Grid[c], id) \in Nat \ {0}
         /\ \A k \in Cells(Grid[c], id) :
              CellAt(Grid[c], id, k) \in (0 .. Grid[c].nx - 1) \X (0 .. Grid[c].ny - 1)
<1>. DEFINE g == Grid[c]
            C == Columns(g)
            R == Rows(g)
            tx == id % C
            ty == id \div C
            W == TileWidth(g, id)
            H == TileHeight(g, id)
            Reaches(n, m, t) == t * m \in Int /\ 0 <= t * m /\ t * m <= n - 1
<1>1. g.nx \in Nat \ {0} /\ g.ny \in Nat \ {0} /\ g.tw \in Nat \ {0} /\ g.th \in Nat \ {0}
  BY GridAssumption
<1>2. 0 \in 0 .. g.nx - 1 /\ 0 \in 0 .. g.ny - 1
  BY <1>1
<1>3. id \in 0 .. C * R - 1
  BY DEF TileIds
<1>. HIDE DEF g
<1>4. C \in Nat \ {0} /\ R \in Nat \ {0}
  <2>1. C \in Nat \ {0}
    BY <1>1, <1>2, TilesReach DEF Columns
  <2>2. R \in Nat \ {0}
    BY <1>1, <1>2, TilesReach DEF Rows
  <2>. QED  BY <2>1, <2>2
<1>5. ASSUME NEW n \in Nat \ {0}, NEW m \in Nat \ {0}, NEW t \in 0 .. ((n + m - 1) \div m) - 1
      PROVE  Reaches(n, m, t)
  <2>. DEFINE q == (n + m - 1) \div m
              r == (n + m - 1) % m
  <2>1. n + m - 1 \in Int
    OBVIOUS
  <2>2. q \in Int /\ r \in 0 .. m - 1 /\ n + m - 1 = m * q + r
    BY <2>1, Division
  <2>3. t \in 0 .. q - 1
    OBVIOUS
  <2>. HIDE DEF q, r
  <2>4. t * m <= (q - 1) * m /\ t * m \in Int
    BY <2>2, <2>3, Product
  <2>5. (q - 1) * m = m * q - m /\ m * q \in Int
    BY <2>2
  <2>6. 0 * m <= t * m
    BY <2>3, Product
  <2>7. 0 * m = 0
    OBVIOUS
  <2>. QED  BY <2>2, <2>4, <2>5, <2>6, <2>7
<1>6. tx \in 0 .. C - 1 /\ ty \in Int /\ id = C * ty + tx /\ id \in Int
  <2>1. id \in Int
    BY <1>3, <1>4
  <2>. QED  BY <1>4, <2>1, Division
<1>7. ty \in 0 .. R - 1
  <2>1. 0 \div C = 0
    BY <1>4, Quotient
  <2>2. 0 <= ty
    BY <1>3, <1>4, <1>6, <2>1, Below
  <2>. HIDE DEF tx, ty, C, R
  <2>3. CASE R <= ty
    <3>1. R \in Int /\ ty \in Int /\ C \in Nat
      BY <1>4, <1>6
    <3>2. R * C <= ty * C
      BY <2>3, <3>1, Product
    <3>3. R * C = C * R /\ ty * C = C * ty /\ C * R \in Int /\ C * ty \in Int
      BY <3>1
    <3>. QED  BY <1>3, <1>6, <3>2, <3>3
  <2>. QED  BY <1>4, <1>6, <2>2, <2>3
<1>. HIDE DEF tx, ty
<1>8. Reaches(g.nx, g.tw, tx) /\ Reaches(g.ny, g.th, ty)
  <2>1. tx \in 0 .. ((g.nx + g.tw - 1) \div g.tw) - 1
    BY <1>6 DEF C, Columns
  <2>2. ty \in 0 .. ((g.ny + g.th - 1) \div g.th) - 1
    BY <1>7 DEF R, Rows
  <2>. HIDE DEF Reaches
  <2>. QED  BY <1>1, <1>5, <2>1, <2>2
<1>9. /\ W \in Nat \ {0} /\ tx * g.tw + W <= g.nx
      /\ H \in Nat \ {0} /\ ty * g.th + H <= g.ny
  <2>1. W = Less(g.tw, g.nx - tx * g.tw) /\ H = Less(g.th, g.ny - ty * g.th)
    BY DEF TileWidth, TileHeight, tx, ty
  <2>. HIDE DEF W, H
  <2>2. W \in Nat \ {0} /\ tx * g.tw + W <= g.nx
    BY <1>1, <1>8, <2>1 DEF Less
  <2>3. H \in Nat \ {0} /\ ty * g.th + H <= g.ny
    BY <1>1, <1>8, <2>1 DEF Less
  <2>. QED  BY <2>2, <2>3
<1>. HIDE DEF C, R
<1>10. ASSUME NEW k \in Cells(g, id)
       PROVE  CellAt(g, id, k) \in (0 .. g.nx - 1) \X (0 .. g.ny - 1)
  <2>. DEFINE px == k % W
              py == k \div W
  <2>1. k \in 0 .. W * H - 1
    BY DEF Cells
  <2>2. CellAt(g, id, k) = <<tx * g.tw + px, ty * g.th + py>>
    BY DEF CellAt, tx, ty, C
  <2>. HIDE DEF W, H
  <2>3. k \in Int /\ W * H \in Int
    BY <1>9, <2>1
  <2>4. px \in 0 .. W - 1 /\ py \in Int /\ k = W * py + px
    BY <1>9, <2>3, Division
  <2>5. py \in 0 .. H - 1
    <3>1. 0 \div W = 0
      BY <1>9, Quotient
    <3>2. 0 <= py
      BY <1>9, <2>1, <2>3, <3>1, Below
    <3>. HIDE DEF px, py
    <3>3. CASE H <= py
      <4>1. H \in Int /\ py \in Int /\ W \in Nat
        BY <1>9, <2>4
      <4>2. H * W <= py * W
        BY <3>3, <4>1, Product
      <4>3. H * W = W * H /\ py * W = W * py /\ W * py \in Int
        BY <4>1
      <4>. QED  BY <2>1, <2>3, <2>4, <4>2, <4>3
    <3>. QED  BY <1>9, <2>4, <3>2, <3>3
  <2>. HIDE DEF px, py
  <2>6. tx * g.tw + px \in 0 .. g.nx - 1
    BY <1>1, <1>8, <1>9, <2>4
  <2>7. ty * g.th + py \in 0 .. g.ny - 1
    BY <1>1, <1>8, <1>9, <2>5
  <2>. QED  BY <2>2, <2>6, <2>7
<1>. QED  BY <1>9, <1>10 DEF g

(* For every cell of a grid, the reader finds the coefficient and the      *)
(* validity its author gave it: cutting the grid into tiles, coding them   *)
(* as differences, decoding and looking the cell up again (ParseTile,      *)
(* ParseFieldTile, GetCell) cancel out.                                    *)
THEOREM CellsAreAuthored ==
  ASSUME NEW c \in Types, NEW field \in Fields,
         NEW x \in 0 .. Grid[c].nx - 1, NEW y \in 0 .. Grid[c].ny - 1
  PROVE  LET id == TileOf(Grid[c], x, y)
             k  == LocalOf(Grid[c], x, y)
         IN  /\ Coefficients[c][id][field][k] = Authored(c, field, x, y)
             /\ Masks[c][id][field][k] = ValidCell(c, field, x, y)
<1>. DEFINE g == Grid[c]
            id == TileOf(g, x, y)
            k == LocalOf(g, x, y)
            w == TileWidth(g, id)
            h == TileHeight(g, id)
            values == [n \in Cells(g, id) |->
                         LET xy == CellAt(g, id, n) IN Authored(c, field, xy[1], xy[2])]
<1>1. id \in TileIds(g) /\ k \in Cells(g, id) /\ CellAt(g, id, k) = <<x, y>>
  BY TilesCover DEF Covered
<1>2. /\ w \in Nat \ {0} /\ h \in Nat \ {0} /\ Cells(g, id) = 0 .. w * h - 1
      /\ \A n \in Cells(g, id) : CellAt(g, id, n) \in (0 .. g.nx - 1) \X (0 .. g.ny - 1)
  BY <1>1, CellAtIn DEF Cells
<1>3. values[k] = Authored(c, field, x, y)
  <2>. HIDE DEF g, id, k
  <2>. QED  BY <1>1
<1>4. Coefficients[c][id][field] = ParseTile(c, id, field)
  <2>. HIDE DEF id
  <2>. QED  BY <1>1 DEF Coefficients
<1>5. ParseTile(c, id, field) = values
  <2>1. CASE c \in Delta
    <3>1. ParseTile(c, id, field) = Decode(Encode(values, w, h), w, h)
      BY <2>1 DEF ParseTile, Coded
    <3>2. \A n \in Cells(g, id) : values[n] \in Width
      <4>1. \A u \in 0 .. g.nx - 1, v \in 0 .. g.ny - 1 : Authored(c, field, u, v) \in Width
        BY <2>1, AuthoredAssumption DEF Width, Half
      <4>. HIDE DEF g, id
      <4>2. ASSUME NEW n \in Cells(g, id) PROVE values[n] \in Width
        <5>. DEFINE xy == CellAt(g, id, n)
        <5>1. xy[1] \in 0 .. g.nx - 1 /\ xy[2] \in 0 .. g.ny - 1
          BY <1>2
        <5>2. values[n] = Authored(c, field, xy[1], xy[2])
          OBVIOUS
        <5>. HIDE DEF xy, values
        <5>. QED  BY <4>1, <5>1, <5>2
      <4>. QED  BY <4>2
    <3>3. values \in [0 .. w * h - 1 -> Width]
      <4>1. values = [n \in Cells(g, id) |-> values[n]]
        OBVIOUS
      <4>. HIDE DEF values, w, h, g, id
      <4>. QED  BY <1>2, <3>2, <4>1
    <3>. HIDE DEF values, w, h, g, id
    <3>. QED  BY <1>2, <3>1, <3>3, CodingIsLossless
  <2>2. CASE c \notin Delta
    BY <2>2 DEF ParseTile, Coded
  <2>. QED  BY <2>1, <2>2
<1>6. Coefficients[c][id][field][k] = Authored(c, field, x, y)
  <2>. HIDE DEF values, id, k
  <2>. QED  BY <1>3, <1>4, <1>5
<1>7. Masks[c][id][field][k] = ValidCell(c, field, x, y)
  <2>1. Masks[c][id][field][k] = ValidCell(c, field, CellAt(g, id, k)[1], CellAt(g, id, k)[2])
    <3>. HIDE DEF id, k
    <3>. QED  BY <1>1 DEF Masks, g
  <2>. HIDE DEF g, id, k
  <2>. QED  BY <1>1, <2>1
<1>. QED  BY <1>6, <1>7

-----------------------------------------------------------------------------
(* Part 9: the nodes around a point.                                       *)

(* How far a node is from a position, in halves, and around a turn.        *)
Gap(p, x) == IF p >= 2 * x THEN p - 2 * x ELSE 2 * x - p
Around(p, x, n) == IF 2 * n = Circle THEN Less(Gap(p, x), Circle - Gap(p, x)) ELSE Gap(p, x)

LEMMA FieldBracketNear ==
  ASSUME NEW p \in Int, NEW n \in Nat \ {0, 1}, FieldBracket(p, n) # NoBracket
  PROVE  /\ Gap(p, FieldBracket(p, n).a) <= 1 /\ Gap(p, FieldBracket(p, n).b) <= 1
         /\ FieldBracket(p, n).f \in {0, 1}
<1>. DEFINE q == p \div 2
            r == p % 2
<1>1. q \in Int /\ r \in {0, 1} /\ p = 2 * q + r
  BY Halves
<1>2. FieldBracket(p, n) = IF p < 0 \/ p > 2 * (n - 1) THEN NoBracket
                           ELSE IF r = 0 THEN [a |-> q, b |-> q, f |-> 0]
                           ELSE [a |-> q, b |-> q + 1, f |-> 1]
  BY DEF FieldBracket
<1>. HIDE DEF q, r
<1>3. Gap(p, q) <= 1
  BY <1>1 DEF Gap
<1>4. r = 1 => Gap(p, q + 1) <= 1
  BY <1>1 DEF Gap
<1>5. ~(p < 0 \/ p > 2 * (n - 1))
  BY <1>2
<1>6. CASE r = 0
  <2>1. FieldBracket(p, n) = [a |-> q, b |-> q, f |-> 0]
    BY <1>2, <1>5, <1>6
  <2>. QED  BY <1>3, <2>1
<1>7. CASE r = 1
  <2>1. FieldBracket(p, n) = [a |-> q, b |-> q + 1, f |-> 1]
    BY <1>2, <1>5, <1>7
  <2>. QED  BY <1>3, <1>4, <1>7, <2>1
<1>. QED  BY <1>1, <1>6, <1>7

LEMMA FieldLongitudeNear ==
  ASSUME NEW lon \in Int, NEW o \in Int, NEW n \in Nat \ {0, 1},
         FieldLongitude(lon, o, n) # NoBracket
  PROVE  /\ Around((lon - o) % Circle, FieldLongitude(lon, o, n).a, n) <= 1
         /\ Around((lon - o) % Circle, FieldLongitude(lon, o, n).b, n) <= 1
         /\ FieldLongitude(lon, o, n).f \in {0, 1}
<1>. DEFINE p == (lon - o) % Circle
            q == p \div 2
            r == p % 2
            next == (q + 1) % n
<1>1. lon - o \in Int /\ Circle \in Nat \ {0}
  BY CircleAssumption
<1>2. p \in 0 .. Circle - 1 /\ p \in Int
  <2>1. p \in 0 .. Circle - 1
    BY <1>1, Division
  <2>. QED  BY <1>1, <2>1
<1>3. FieldLongitude(lon, o, n)
        = IF 2 * n # Circle THEN FieldBracket(p, n)
          ELSE IF r = 0 THEN [a |-> q, b |-> q, f |-> 0]
          ELSE [a |-> q, b |-> next, f |-> 1]
  BY DEF FieldLongitude
<1>4. CASE 2 * n # Circle
  <2>1. FieldLongitude(lon, o, n) = FieldBracket(p, n) /\ FieldBracket(p, n) # NoBracket
    BY <1>3, <1>4
  <2>. HIDE DEF p
  <2>2. /\ Gap(p, FieldBracket(p, n).a) <= 1 /\ Gap(p, FieldBracket(p, n).b) <= 1
        /\ FieldBracket(p, n).f \in {0, 1}
    BY <1>2, <2>1, FieldBracketNear
  <2>3. \A x : Around(p, x, n) = Gap(p, x)
    BY <1>4 DEF Around
  <2>. QED  BY <2>1, <2>2, <2>3 DEF p
<1>5. CASE 2 * n = Circle
  <2>. HIDE DEF p
  <2>1. q \in Int /\ r \in {0, 1} /\ p = 2 * q + r
    BY <1>2, Halves
  <2>. HIDE DEF q, r
  <2>2. q \in 0 .. n - 1
    BY <1>2, <1>5, <2>1
  <2>3. \A x : Around(p, x, n) = Less(Gap(p, x), Circle - Gap(p, x))
    BY <1>5 DEF Around
  <2>4. Around(p, q, n) <= 1
    <3>1. Gap(p, q) \in {0, 1}
      BY <2>1 DEF Gap
    <3>. QED  BY <1>1, <2>3, <3>1 DEF Less
  <2>5. CASE r = 0
    <3>1. FieldLongitude(lon, o, n) = [a |-> q, b |-> q, f |-> 0]
      BY <1>3, <1>5, <2>5
    <3>. QED  BY <2>4, <3>1 DEF p
  <2>6. CASE r = 1
    <3>1. FieldLongitude(lon, o, n) = [a |-> q, b |-> next, f |-> 1]
      BY <1>3, <1>5, <2>6
    <3>2. Around(p, next, n) <= 1
      <4>1. CASE q + 1 <= n - 1
        <5>1. q + 1 = 0 * n + (q + 1) /\ q + 1 \in 0 .. n - 1 /\ q + 1 \in Int
          BY <2>2, <4>1
        <5>2. next = q + 1
          BY <5>1, Quotient
        <5>. HIDE DEF next
        <5>3. Gap(p, next) = 1
          BY <2>1, <2>2, <2>6, <5>2 DEF Gap
        <5>. QED  BY <1>1, <2>3, <5>3 DEF Less
      <4>2. CASE q + 1 = n
        <5>1. q + 1 = 1 * n + 0 /\ 0 \in 0 .. n - 1 /\ q + 1 \in Int
          BY <2>2, <4>2
        <5>2. next = 0
          BY <5>1, Quotient
        <5>. HIDE DEF next
        <5>3. Gap(p, next) = Circle - 1
          BY <1>2, <1>5, <2>1, <2>6, <4>2, <5>2 DEF Gap
        <5>. QED  BY <1>1, <2>3, <5>3 DEF Less
      <4>. QED  BY <2>2, <4>1, <4>2
    <3>. HIDE DEF next
    <3>. QED  BY <2>4, <3>1, <3>2 DEF p
  <2>. QED  BY <2>1, <2>5, <2>6
<1>. QED  BY <1>4, <1>5

(* What a corner of a point is, when the origin is the author's: the place *)
(* in its tile of a node around the point, and a weight.                   *)
NodeCorner(c, at, corner, x, y) ==
  /\ x \in 0 .. Grid[c].nx - 1 /\ y \in 0 .. Grid[c].ny - 1
  /\ <<x, y>> \in NodesNear(c, 0, at, 1)
  /\ corner.tile = <<c, TileOf(Grid[c], x, y)>>
  /\ corner.k = LocalOf(Grid[c], x, y)
  /\ corner.weight \in Nat

LEMMA CornersNear ==
  ASSUME NEW c \in Types \ {Tide}, NEW field \in Fields, NEW at \in Points, ~GridDamaged(c),
         ReaderCorners(c, field, at) # << >>
  PROVE  /\ DOMAIN ReaderCorners(c, field, at) = 1 .. 4
         /\ \A i \in 1 .. 4 : \E x, y : NodeCorner(c, at, ReaderCorners(c, field, at)[i], x, y)
<1>. DEFINE o == <<Grid[c].lon0, Grid[c].lat0>>
            n == Grid[c].nx
            m == Grid[c].ny
            p == (at[1] - o[1]) % Circle
            d == at[2] - o[2]
            bx == FieldLongitude(at[1], o[1], n)
            by == FieldBracket(d, m)
            corners == Corners(bx, by)
<1>1. at[1] \in Int /\ d \in Int /\ o[1] \in Int
  BY RequestsAssumption, OriginsAssumption DEF Points
<1>2. n \in Nat \ {0, 1} /\ m \in Nat \ {0, 1}
  BY GridAssumption
<1>3. ReaderCorners(c, field, at) = Located(c, corners)
  <2>1. Origin(c, field) = o
    BY DEF Origin
  <2>2. ReaderCorners(c, field, at) = Located(c, CornersFrom(c, o, at))
    BY <2>1 DEF ReaderCorners, PointCorners, GridDamaged
  <2>3. CornersFrom(c, o, at) = corners
    BY DEF CornersFrom
  <2>. QED  BY <2>2, <2>3
<1>4. /\ \A x : DistanceX(c, 0, at, x) = Around(p, x, n)
      /\ \A y : DistanceY(c, 0, at, y) = Gap(d, y)
  BY DEF DistanceX, DistanceY, Origin, Around, Gap
<1>5. bx # NoBracket /\ by # NoBracket
  <2>1. CASE bx = NoBracket \/ by = NoBracket
    <3>1. corners = << >>
      BY <2>1 DEF Corners
    <3>. HIDE DEF corners
    <3>2. Located(c, corners) = << >>
      BY <3>1 DEF Located
    <3>. QED  BY <1>3, <3>2
  <2>. QED  BY <2>1
<1>6. /\ InBracket(bx, n) /\ bx.f \in {0, 1}
      /\ Around(p, bx.a, n) <= 1 /\ Around(p, bx.b, n) <= 1
  BY <1>1, <1>2, <1>5, FieldLongitudeIn, FieldLongitudeNear
<1>7. /\ InBracket(by, m) /\ by.f \in {0, 1}
      /\ Gap(d, by.a) <= 1 /\ Gap(d, by.b) <= 1
  BY <1>1, <1>2, <1>5, FieldBracketIn, FieldBracketNear
<1>8. \A x \in {bx.a, bx.b}, y \in {by.a, by.b} :
        /\ x \in 0 .. n - 1 /\ y \in 0 .. m - 1
        /\ <<x, y>> \in NodesNear(c, 0, at, 1)
  <2>. SUFFICES ASSUME NEW x \in {bx.a, bx.b}, NEW y \in {by.a, by.b}
                PROVE  /\ x \in 0 .. n - 1 /\ y \in 0 .. m - 1
                       /\ <<x, y>> \in NodesNear(c, 0, at, 1)
    OBVIOUS
  <2>. HIDE DEF bx, by, p, d
  <2>1. x \in 0 .. n - 1 /\ y \in 0 .. m - 1
    BY <1>6, <1>7 DEF InBracket
  <2>2. DistanceX(c, 0, at, x) <= 1 /\ DistanceY(c, 0, at, y) <= 1
    BY <1>4, <1>6, <1>7
  <2>. QED  BY <2>1, <2>2 DEF NodesNear, Nodes
<1>. HIDE DEF bx, by, p, d
<1>9. corners = << << bx.a, by.a, (2 - bx.f) * (2 - by.f) >>,
                   << bx.b, by.a, bx.f * (2 - by.f) >>,
                   << bx.a, by.b, (2 - bx.f) * by.f >>,
                   << bx.b, by.b, bx.f * by.f >> >>
  BY <1>5 DEF Corners
<1>10. /\ (2 - bx.f) * (2 - by.f) \in Nat /\ bx.f * (2 - by.f) \in Nat
       /\ (2 - bx.f) * by.f \in Nat /\ bx.f * by.f \in Nat
  <2>1. \A u, v \in {0, 1} : /\ (2 - u) * (2 - v) \in Nat /\ u * (2 - v) \in Nat
                             /\ (2 - u) * v \in Nat /\ u * v \in Nat
    <3>. TAKE u, v \in {0, 1}
    <3>1. CASE u = 0
      BY <3>1
    <3>2. CASE u = 1
      BY <3>2
    <3>. QED  BY <3>1, <3>2
  <2>. QED  BY <1>6, <1>7, <2>1
<1>11. DOMAIN corners = 1 .. 4
  BY <1>9
<1>12. ASSUME NEW i \in 1 .. 4
       PROVE  /\ corners[i][1] \in {bx.a, bx.b} /\ corners[i][2] \in {by.a, by.b}
              /\ corners[i][3] \in Nat
  <2>1. CASE i = 1
    BY <1>9, <1>10, <2>1
  <2>2. CASE i = 2
    BY <1>9, <1>10, <2>2
  <2>3. CASE i = 3
    BY <1>9, <1>10, <2>3
  <2>4. CASE i = 4
    BY <1>9, <1>10, <2>4
  <2>. QED  BY <2>1, <2>2, <2>3, <2>4
<1>. HIDE DEF corners
<1>13. DOMAIN Located(c, corners) = 1 .. 4
  BY <1>11 DEF Located
<1>14. ASSUME NEW i \in 1 .. 4
       PROVE  \E x, y : NodeCorner(c, at, Located(c, corners)[i], x, y)
  <2>. DEFINE x == corners[i][1]
              y == corners[i][2]
              place == Located(c, corners)[i]
  <2>1. /\ place.tile = <<c, TileOf(Grid[c], x, y)>> /\ place.k = LocalOf(Grid[c], x, y)
        /\ place.weight = corners[i][3]
    BY <1>11 DEF Located
  <2>2. /\ x \in 0 .. n - 1 /\ y \in 0 .. m - 1 /\ <<x, y>> \in NodesNear(c, 0, at, 1)
    BY <1>8, <1>12
  <2>3. corners[i][3] \in Nat
    BY <1>12
  <2>. HIDE DEF x, y, place
  <2>4. NodeCorner(c, at, place, x, y)
    BY <2>1, <2>2, <2>3 DEF NodeCorner
  <2>. QED  BY <2>4 DEF place
<1>. QED  BY <1>3, <1>13, <1>14

(* A sum below zero has a value below zero.                                *)
LEMMA NegativeSum ==
  ASSUME NEW f, IsFiniteSet(DOMAIN f), \A x \in DOMAIN f : f[x] \in Int, SumFunction(f) < 0
  PROVE  \E x \in DOMAIN f : f[x] < 0
<1>1. SUFFICES ASSUME \A x \in DOMAIN f : f[x] >= 0 PROVE FALSE
  OBVIOUS
<1>2. PICK it : Totals(f, it) /\ SumFunction(f) = it[DOMAIN f]
  BY SumIsTotal
<1>3. /\ \A s \in SUBSET DOMAIN f : it[s] = Step(f, it, s)
      /\ \A s \in SUBSET DOMAIN f : it[s] \in Int
  BY <1>2, TotalsAreInt DEF Totals
<1>. DEFINE T == {s \in SUBSET DOMAIN f : it[s] >= 0}
<1>4. ASSUME NEW s \in SUBSET DOMAIN f, \A x \in s : s \ {x} \in T
      PROVE  s \in T
  <2>1. CASE s = {}
    <3>1. it[s] = Step(f, it, s)
      BY <1>3
    <3>2. Step(f, it, s) = 0
      BY <2>1 DEF Step
    <3>3. it[s] >= 0
      BY <3>1, <3>2
    <3>. QED  BY <3>3
  <2>2. CASE s # {}
    <3>1. One(s) \in s
      BY <2>2, OneIn
    <3>2. it[s] = f[One(s)] + it[s \ {One(s)}]
      BY <1>3, <2>2 DEF Step
    <3>3. it[s \ {One(s)}] >= 0 /\ it[s \ {One(s)}] \in Int
      BY <1>3, <1>4, <3>1
    <3>4. f[One(s)] >= 0 /\ f[One(s)] \in Int
      BY <1>1, <3>1
    <3>5. it[s] >= 0
      BY <3>2, <3>3, <3>4
    <3>. QED  BY <3>5
  <2>. QED  BY <2>1, <2>2
<1>5. \A s \in SUBSET DOMAIN f : s \in T
  <2>. HIDE DEF T
  <2>. QED  BY <1>4, PartInduction
<1>6. it[DOMAIN f] >= 0 /\ it[DOMAIN f] \in Int
  BY <1>3, <1>5
<1>. QED  BY <1>2, <1>6

-----------------------------------------------------------------------------
(* Part 10: the invariant.                                                 *)

(* A request is served by an open reader, and a verification only after    *)
(* the hashes have matched.                                                *)
ServeInv ==
  /\ phase \in {"closed", "open", "refused"}
  /\ request \in Requests \cup {NoRequest}
  /\ verified \in BOOLEAN
  /\ reply.outcome \in {"none", "answered", "failed", "unavailable"}
  /\ phase = "open" => Opens
  /\ request # NoRequest => phase = "open"
  /\ request # NoRequest /\ request.kind = "verify" => HashesMatch
  /\ request = NoRequest => todo = << >>

(* It still has to do fetches of what the package holds and it needs.      *)
TodoInv ==
  /\ todo \in Seq(PresentTiles)
  /\ request # NoRequest /\ request.kind # "verify" =>
       \A i \in DOMAIN todo : todo[i][1] \in Needs(request.kind)

(* It holds the good tiles it asked for, and what it does not hold yet it  *)
(* still has to fetch.                                                     *)
GotInv == \A t \in DOMAIN got : got[t] = t /\ ~Damaged(t[1], t[2])
AskedInv ==
  request # NoRequest /\ Needs(request.kind) \subseteq Present =>
    Members(Fetches(request)) \subseteq DOMAIN got \cup Members(todo)

CacheInv ==
  /\ cache = [c \in Types |-> cache[c]]
  /\ \A c \in Types : CacheOK(c, cache[c])

ReaderInv ==
  /\ GivenInv /\ ServeInv /\ TodoInv /\ GotInv /\ AskedInv /\ CacheInv
  /\ VerifiedIsIntact /\ DamageIsContained

LEMMA PresentStays ==
  ASSUME UNCHANGED given
  PROVE  /\ Present' = Present /\ PresentTiles' = PresentTiles /\ Opens' = Opens
         /\ HashesMatch' = HashesMatch
         /\ \A c, id : Damaged(c, id)' = Damaged(c, id)
<1>1. package' = package /\ damage' = damage /\ options' = options
  BY DEF given
<1>2. file' = file
  BY <1>1 DEF file
<1>3. Present' = Present
  BY <1>2 DEF Present
<1>4. \A c, id : Damaged(c, id)' = Damaged(c, id) /\ GridDamaged(c)' = GridDamaged(c)
  BY <1>1 DEF Damaged, GridDamaged
<1>5. Opens' = Opens
  BY <1>1, <1>3 DEF Opens, MetadataDamaged
<1>6. HashesMatch' = HashesMatch
  BY <1>1, <1>2, <1>3 DEF HashesMatch, Damaged, GridDamaged, MetadataDamaged
<1>. QED  BY <1>3, <1>4, <1>5, <1>6 DEF PresentTiles

LEMMA GivenStays ==
  ASSUME UNCHANGED given, GivenInv
  PROVE  GivenInv'
BY DEF GivenInv, given

LEMMA FetchesStay ==
  ASSUME UNCHANGED given, NEW r
  PROVE  Fetches(r)' = Fetches(r)
<1>1. package' = package /\ damage' = damage
  BY DEF given
<1>2. \A c, field, at : TilesOf(c, field, at)' = TilesOf(c, field, at)
  BY <1>1 DEF TilesOf, ReaderCorners, GridDamaged
<1>3. \A kind, at : PointFetches(kind, at)' = PointFetches(kind, at)
  BY <1>2 DEF PointFetches
<1>4. \A c : AllTiles(c)' = AllTiles(c)
  BY <1>1 DEF AllTiles, Present, Entries, file
<1>5. VerifyFetches' = VerifyFetches
  BY <1>4 DEF VerifyFetches
<1>. QED  BY <1>3, <1>5 DEF Fetches

LEMMA CachesStay ==
  ASSUME UNCHANGED given, UNCHANGED cache, CacheInv
  PROVE  CacheInv'
BY DEF CacheInv, CacheOK, Damaged, given

LEMMA GotStays ==
  ASSUME UNCHANGED given, UNCHANGED got, GotInv
  PROVE  GotInv'
BY DEF GotInv, Damaged, given

LEMMA VerdictsStay ==
  ASSUME UNCHANGED given, UNCHANGED reply, UNCHANGED verified,
         VerifiedIsIntact, DamageIsContained
  PROVE  VerifiedIsIntact' /\ DamageIsContained'
<1>1. VerifiedIsIntact'
  BY DEF VerifiedIsIntact, given
<1>2. DamageIsContained'
  BY DEF DamageIsContained, given, Damaged, GridDamaged
<1>. QED  BY <1>1, <1>2

LEMMA InitReader ==
  ASSUME Init
  PROVE  ReaderInv
<1>. USE DEF Init
<1>1. GivenInv
  BY DEF GivenInv
<1>2. ServeInv
  BY DEF ServeInv, NoReply
<1>3. TodoInv
  BY DEF TodoInv
<1>4. GotInv /\ AskedInv
  BY DEF GotInv, AskedInv
<1>5. CacheInv
  <2>1. cache = [c \in Types |-> cache[c]] /\ \A c \in Types : cache[c] = EmptyCache
    OBVIOUS
  <2>2. \A c \in Types : CacheOK(c, EmptyCache)
    BY EmptyCacheOK
  <2>. QED  BY <2>1, <2>2 DEF CacheInv
<1>6. VerifiedIsIntact /\ DamageIsContained
  BY DEF VerifiedIsIntact, DamageIsContained, NoReply
<1>. QED  BY <1>1, <1>2, <1>3, <1>4, <1>5, <1>6 DEF ReaderInv

LEMMA OpenKeeps ==
  ASSUME ReaderInv, Open
  PROVE  ReaderInv'
<1>1. UNCHANGED given
  BY DEF Open
<1>2. UNCHANGED <<cache, request, todo, got, reply, verified>> /\ phase = "closed"
      /\ phase' = IF Opens THEN "open" ELSE "refused"
  BY DEF Open
<1>. USE DEF ReaderInv
<1>3. request = NoRequest /\ todo = << >>
  BY <1>2 DEF ServeInv
<1>4. GivenInv'
  BY <1>1, GivenStays
<1>5. ServeInv'
  BY <1>1, <1>2, <1>3, PresentStays DEF ServeInv
<1>6. TodoInv'
  BY <1>2, <1>3 DEF TodoInv
<1>7. GotInv' /\ CacheInv'
  BY <1>1, <1>2, GotStays, CachesStay
<1>8. AskedInv'
  BY <1>2, <1>3 DEF AskedInv
<1>9. VerifiedIsIntact' /\ DamageIsContained'
  BY <1>1, <1>2, VerdictsStay
<1>. QED  BY <1>4, <1>5, <1>6, <1>7, <1>8, <1>9

LEMMA ClearKeeps ==
  ASSUME ReaderInv, Clear
  PROVE  ReaderInv'
<1>1. UNCHANGED given
  BY DEF Clear
<1>2. UNCHANGED <<phase, request, todo, got, reply, verified>> /\ request = NoRequest
      /\ cache' = [c \in Types |-> EmptyCache]
  BY DEF Clear, Idle
<1>. USE DEF ReaderInv
<1>3. todo = << >>
  BY <1>2 DEF ServeInv
<1>4. GivenInv'
  BY <1>1, GivenStays
<1>5. ServeInv'
  BY <1>1, <1>2, <1>3, PresentStays DEF ServeInv
<1>6. TodoInv'
  BY <1>2, <1>3 DEF TodoInv
<1>7. GotInv'
  BY <1>1, <1>2, GotStays
<1>8. AskedInv'
  BY <1>2 DEF AskedInv
<1>9. CacheInv'
  <2>1. \A c \in Types : CacheOK(c, EmptyCache)
    BY EmptyCacheOK DEF GivenInv
  <2>2. \A c \in Types : CacheOK(c, EmptyCache)'
    BY <1>1, <2>1 DEF CacheOK, EmptyCache, Damaged, given
  <2>3. \A c \in Types : cache'[c] = EmptyCache
    BY <1>2
  <2>4. \A c \in Types : CacheOK(c, cache[c])'
    BY <2>2, <2>3 DEF CacheOK, EmptyCache
  <2>. QED  BY <1>2, <2>4 DEF CacheInv
<1>10. VerifiedIsIntact' /\ DamageIsContained'
  BY <1>1, <1>2, VerdictsStay
<1>. QED  BY <1>4, <1>5, <1>6, <1>7, <1>8, <1>9, <1>10

(* What a request that is not refused is to fetch.                         *)
Asked(r) == IF Needs(r.kind) \subseteq Present THEN Fetches(r) ELSE PointFetches("tide", r.at)

LEMMA NeededIn ==
  ASSUME NEW kind
  PROVE  /\ \A t \in NeededTiles(kind) : t[1] \in Needs(kind)
         /\ Needs(kind) \subseteq Present => NeededTiles(kind) \subseteq PresentTiles
<1>1. \A t \in NeededTiles(kind) : t[1] \in Needs(kind)
  BY DEF NeededTiles, TileNames
<1>2. Needs(kind) \subseteq Present => NeededTiles(kind) \subseteq PresentTiles
  BY DEF NeededTiles, PresentTiles
<1>. QED  BY <1>1, <1>2

LEMMA AskedAre ==
  ASSUME package \in DOMAIN Files, Opens, NEW r \in Requests, ~Refused(r)
  PROVE  /\ Asked(r) \in Seq(PresentTiles)
         /\ r.kind # "verify" => \A i \in DOMAIN Asked(r) : Asked(r)[i][1] \in Needs(r.kind)
<1>1. r.kind \in Kinds /\ r.at \in Points
  BY RequestsAre
<1>2. CASE r.kind = "verify"
  <2>1. Needs(r.kind) = {}
    BY <1>2 DEF Needs
  <2>2. Asked(r) = VerifyFetches
    BY <1>2, <2>1 DEF Asked, Fetches
  <2>. QED  BY <1>2, <2>2, VerifyFetchesAre
<1>3. CASE r.kind # "verify" /\ Needs(r.kind) \subseteq Present
  <2>1. Asked(r) = PointFetches(r.kind, r.at)
    BY <1>3 DEF Asked, Fetches
  <2>2. Asked(r) \in Seq(NeededTiles(r.kind))
    BY <1>1, <1>3, <2>1, PointFetchesAre
  <2>3. Asked(r) \in Seq(PresentTiles)
    BY <1>3, <2>2, NeededIn, WiderSeq
  <2>4. ASSUME NEW i \in DOMAIN Asked(r) PROVE Asked(r)[i][1] \in Needs(r.kind)
    <3>1. Asked(r)[i] \in NeededTiles(r.kind)
      BY <2>2
    <3>. QED  BY <3>1, NeededIn
  <2>. QED  BY <2>3, <2>4
<1>4. CASE r.kind # "verify" /\ ~(Needs(r.kind) \subseteq Present)
  <2>1. Asked(r) = PointFetches("tide", r.at)
    BY <1>4 DEF Asked
  <2>2. Asked(r) \in Seq(NeededTiles("tide"))
    BY <1>1, <2>1, PointFetchesAre DEF Kinds
  <2>3. Needs(r.kind) \ {Residual} \subseteq Present
    BY DEF Refused
  <2>4. r.kind = "seasonal"
    <3>1. CASE r.kind = "tide"
      <4>1. Needs(r.kind) \ {Residual} = Needs(r.kind)
        BY <3>1 DEF Needs, Tide, Residual
      <4>. QED  BY <1>4, <2>3, <4>1
    <3>2. CASE r.kind = "height"
      <4>1. Needs(r.kind) \ {Residual} = Needs(r.kind)
        BY <3>2 DEF Needs, Height, Residual
      <4>. QED  BY <1>4, <2>3, <4>1
    <3>3. CASE r.kind = "quality"
      <4>1. Needs(r.kind) \ {Residual} = Needs(r.kind)
        BY <3>3 DEF Needs, Quality, Residual
      <4>. QED  BY <1>4, <2>3, <4>1
    <3>. QED  BY <1>1, <1>4, <3>1, <3>2, <3>3 DEF Kinds
  <2>5. Tide \in Needs(r.kind) /\ Tide \in Present
    BY <2>3, <2>4 DEF Needs, Tide, Residual
  <2>6. Needs("tide") = {Tide}
    BY DEF Needs
  <2>7. Asked(r) \in Seq(PresentTiles)
    <3>1. Needs("tide") \subseteq Present
      BY <2>5, <2>6
    <3>. QED  BY <2>2, <3>1, NeededIn, WiderSeq
  <2>8. ASSUME NEW i \in DOMAIN Asked(r) PROVE Asked(r)[i][1] \in Needs(r.kind)
    <3>1. Asked(r)[i] \in NeededTiles("tide")
      BY <2>2
    <3>2. Asked(r)[i][1] \in Needs("tide")
      BY <3>1, NeededIn
    <3>. QED  BY <2>5, <2>6, <3>2
  <2>. QED  BY <2>7, <2>8
<1>. QED  BY <1>2, <1>3, <1>4

LEMMA HarmMattersTo ==
  ASSUME ~HashesMatch
  PROVE  damage # << >>
<1>1. ASSUME damage = << >>, NEW c, NEW id
      PROVE  ~GridDamaged(c) /\ ~MetadataDamaged(c) /\ ~Damaged(c, id)
  BY <1>1 DEF GridDamaged, MetadataDamaged, Damaged
<1>. QED  BY <1>1 DEF HashesMatch

LEMMA AskKeeps ==
  ASSUME ReaderInv, NEW r \in Requests, Ask(r)
  PROVE  ReaderInv'
<1>1. UNCHANGED given
  BY DEF Ask
<1>2. UNCHANGED <<phase, cache, verified>> /\ phase = "open" /\ request = NoRequest
  BY DEF Ask, Idle
<1>. USE DEF ReaderInv
<1>3. GivenInv' /\ package \in DOMAIN Files
  BY <1>1, GivenStays DEF GivenInv
<1>4. CacheInv'
  BY <1>1, <1>2, CachesStay
<1>5. VerifiedIsIntact'
  BY <1>1, <1>2 DEF VerifiedIsIntact, given
<1>6. todo = << >> /\ Opens
  BY <1>2 DEF ServeInv
<1>7. CASE Refused(r) \/ (r.kind = "verify" /\ ~HashesMatch)
  <2>1. /\ UNCHANGED <<request, todo, got>>
        /\ reply' = [to |-> r, outcome |-> IF Refused(r) THEN "unavailable" ELSE "failed",
                     value |-> Missing]
    BY <1>7 DEF Ask, Reply
  <2>2. ServeInv'
    BY <1>1, <1>2, <2>1, PresentStays DEF ServeInv
  <2>3. TodoInv'
    BY <1>2, <1>6, <2>1 DEF TodoInv
  <2>4. GotInv'
    BY <1>1, <2>1, GotStays
  <2>5. AskedInv'
    BY <1>2, <2>1 DEF AskedInv
  <2>6. DamageIsContained'
    <3>1. CASE Refused(r)
      BY <2>1, <3>1 DEF DamageIsContained
    <3>2. CASE r.kind = "verify" /\ ~HashesMatch
      <4>1. damage' # << >>
        BY <1>1, <3>2, HarmMattersTo DEF given
      <4>2. reply'.to.kind = "verify"
        BY <2>1, <3>2
      <4>. QED  BY <4>1, <4>2 DEF DamageIsContained
    <3>. QED  BY <1>7, <3>1, <3>2
  <2>. QED  BY <1>3, <1>4, <1>5, <2>2, <2>3, <2>4, <2>5, <2>6
<1>8. CASE ~(Refused(r) \/ (r.kind = "verify" /\ ~HashesMatch))
  <2>1. /\ request' = r /\ todo' = Asked(r) /\ got' = << >> /\ reply' = NoReply
    BY <1>8 DEF Ask, Asked
  <2>2. r # NoRequest
    BY RequestsAre
  <2>3. ServeInv'
    <3>1. r.kind = "verify" => HashesMatch
      BY <1>8
    <3>. QED  BY <1>1, <1>2, <2>1, <2>2, <3>1, PresentStays DEF ServeInv, NoReply
  <2>4. TodoInv'
    <3>1. /\ Asked(r) \in Seq(PresentTiles)
          /\ r.kind # "verify" => \A i \in DOMAIN Asked(r) : Asked(r)[i][1] \in Needs(r.kind)
      BY <1>3, <1>6, <1>8, AskedAre
    <3>2. PresentTiles' = PresentTiles
      BY <1>1, PresentStays
    <3>. QED  BY <2>1, <3>1, <3>2 DEF TodoInv
  <2>5. GotInv'
    BY <2>1 DEF GotInv
  <2>6. AskedInv'
    <3>1. ASSUME Needs(r.kind) \subseteq Present
          PROVE  Fetches(r) = todo'
      BY <2>1, <3>1 DEF Asked
    <3>2. Fetches(r)' = Fetches(r) /\ Present' = Present
      BY <1>1, FetchesStay, PresentStays
    <3>. QED  BY <2>1, <3>1, <3>2 DEF AskedInv
  <2>7. DamageIsContained'
    BY <2>1 DEF DamageIsContained, NoReply
  <2>. QED  BY <1>3, <1>4, <1>5, <2>3, <2>4, <2>5, <2>6, <2>7
<1>. QED  BY <1>7, <1>8

(* What a fetch makes of the caches.                                       *)
LEMMA AfterFetchOK ==
  ASSUME CacheInv, GivenInv, NEW c \in Types, NEW id \in TileIds(Grid[c]),
         Hit(c, id) \/ ~Damaged(c, id)
  PROVE  /\ Fetched(c, id) = <<c, id>> /\ ~Damaged(c, id)
         /\ AfterFetch(c, id) = [d \in Types |-> AfterFetch(c, id)[d]]
         /\ \A d \in Types : CacheOK(d, AfterFetch(c, id)[d])
<1>1. cache = [d \in Types |-> cache[d]] /\ \A d \in Types : CacheOK(d, cache[d])
  BY DEF CacheInv
<1>2. options \in OptionSets
  BY DEF GivenInv
<1>3. CASE Hit(c, id)
  <2>1. id \in DOMAIN cache[c].tiles
    BY <1>3 DEF Hit
  <2>2. cache[c].tiles[id] = <<c, id>> /\ ~Damaged(c, id)
    BY <1>1, <2>1 DEF CacheOK
  <2>3. CacheOK(c, Touch(c, id))
    BY <1>1, <2>1, TouchOK
  <2>4. AfterFetch(c, id) = [cache EXCEPT ![c] = Touch(c, id)]
    BY <1>3 DEF AfterFetch
  <2>5. AfterFetch(c, id) = [d \in Types |-> IF d = c THEN Touch(c, id) ELSE cache[d]]
    BY <1>1, <2>4
  <2>6. Fetched(c, id) = <<c, id>>
    BY <1>3, <2>2 DEF Fetched
  <2>. QED  BY <1>1, <2>2, <2>3, <2>5, <2>6
<1>4. CASE ~Hit(c, id) /\ Keeps(c, id)
  <2>1. id \notin DOMAIN cache[c].tiles /\ ~Damaged(c, id)
    BY <1>4 DEF Hit
  <2>2. CacheOK(c, Insert(c, id, <<c, id>>))
    BY <1>1, <1>2, <2>1, InsertOK
  <2>3. AfterFetch(c, id) = [cache EXCEPT ![c] = Insert(c, id, <<c, id>>)]
    BY <1>4 DEF AfterFetch
  <2>4. AfterFetch(c, id) = [d \in Types |-> IF d = c THEN Insert(c, id, <<c, id>>) ELSE cache[d]]
    BY <1>1, <2>3
  <2>5. Fetched(c, id) = <<c, id>>
    BY <1>4 DEF Fetched
  <2>. QED  BY <1>1, <2>1, <2>2, <2>4, <2>5
<1>5. CASE ~Hit(c, id) /\ ~Keeps(c, id)
  <2>1. AfterFetch(c, id) = cache /\ Fetched(c, id) = <<c, id>>
    BY <1>5 DEF AfterFetch, Fetched
  <2>. QED  BY <1>1, <1>5, <2>1
<1>. QED  BY <1>3, <1>4, <1>5

LEMMA FetchTileKeeps ==
  ASSUME ReaderInv, FetchTile
  PROVE  ReaderInv'
<1>1. UNCHANGED given
  BY DEF FetchTile
<1>2. UNCHANGED <<phase, verified>> /\ todo # << >>
  BY DEF FetchTile
<1>. USE DEF ReaderInv
<1>3. GivenInv' /\ package \in DOMAIN Files
  BY <1>1, GivenStays DEF GivenInv
<1>4. VerifiedIsIntact'
  BY <1>1, <1>2 DEF VerifiedIsIntact, given
<1>5. request # NoRequest /\ request \in Requests /\ phase = "open" /\ Opens
  BY <1>2 DEF ServeInv
<1>. DEFINE c == todo[1][1]
            id == todo[1][2]
<1>6. c \in Present /\ c \in Types /\ id \in TileIds(Grid[c]) /\ todo[1] = <<c, id>>
  <2>1. todo[1] \in PresentTiles
    BY <1>2 DEF TodoInv
  <2>2. PICK d \in Present : todo[1] \in TileNames(d)
    BY <2>1 DEF PresentTiles
  <2>3. PICK n \in TileIds(Grid[d]) : todo[1] = <<d, n>>
    BY <2>2 DEF TileNames
  <2>4. c = d /\ id = n
    BY <2>3
  <2>. HIDE DEF c, id
  <2>. QED  BY <1>3, <2>3, <2>4, PresentAre
<1>7. CASE ~Hit(c, id) /\ Damaged(c, id)
  <2>1. /\ reply' = [to |-> request, outcome |-> "failed", value |-> Missing]
        /\ request' = NoRequest /\ todo' = << >> /\ got' = << >> /\ UNCHANGED cache
    BY <1>7 DEF FetchTile, Reply
  <2>2. ServeInv'
    BY <1>1, <1>2, <2>1, PresentStays DEF ServeInv
  <2>3. TodoInv' /\ GotInv' /\ AskedInv'
    BY <2>1 DEF TodoInv, GotInv, AskedInv
  <2>4. CacheInv'
    BY <1>1, <2>1, CachesStay
  <2>5. DamageIsContained'
    <3>1. CASE request.kind = "verify"
      <4>1. damage' # << >>
        BY <1>1, <1>7 DEF Damaged, given
      <4>2. reply'.to.kind = "verify"
        BY <2>1, <3>1
      <4>. QED  BY <4>1, <4>2 DEF DamageIsContained
    <3>2. CASE request.kind # "verify"
      <4>1. c \in Needs(request.kind)
        BY <1>2, <1>5, <3>2 DEF TodoInv
      <4>. HIDE DEF c, id
      <4>2. c \in Needs(reply'.to.kind)
        BY <2>1, <4>1
      <4>3. damage' = <<"tile", c, id>>
        BY <1>1, <1>7 DEF Damaged, given
      <4>. QED  BY <1>6, <4>2, <4>3 DEF DamageIsContained, Damaged
    <3>. QED  BY <3>1, <3>2
  <2>. QED  BY <1>3, <1>4, <2>2, <2>3, <2>4, <2>5
<1>8. CASE ~(~Hit(c, id) /\ Damaged(c, id))
  <2>1. /\ cache' = AfterFetch(c, id)
        /\ got' = [t \in DOMAIN got \cup {<<c, id>>} |->
                     IF t = <<c, id>> THEN Fetched(c, id) ELSE got[t]]
        /\ todo' = Tail(todo) /\ UNCHANGED <<request, reply>>
    BY <1>8 DEF FetchTile
  <2>. HIDE DEF c, id
  <2>2. /\ Fetched(c, id) = <<c, id>> /\ ~Damaged(c, id)
        /\ cache' = [d \in Types |-> cache'[d]]
        /\ \A d \in Types : CacheOK(d, cache'[d])
    BY <1>6, <1>8, <2>1, AfterFetchOK
  <2>3. CacheInv'
    <3>1. \A d \in Types : CacheOK(d, cache[d])'
      BY <1>1, <2>2 DEF CacheOK, Damaged, given
    <3>. QED  BY <2>2, <3>1 DEF CacheInv
  <2>4. ServeInv'
    BY <1>1, <1>2, <1>5, <2>1, PresentStays DEF ServeInv
  <2>5. /\ todo' \in Seq(PresentTiles) /\ Len(todo') = Len(todo) - 1 /\ Len(todo) \in Nat
        /\ DOMAIN todo' = 1 .. Len(todo) - 1 /\ DOMAIN todo = 1 .. Len(todo)
        /\ \A i \in 1 .. Len(todo) - 1 : todo'[i] = todo[i + 1]
    BY <1>2, <2>1 DEF TodoInv
  <2>6. TodoInv'
    <3>1. PresentTiles' = PresentTiles
      BY <1>1, PresentStays
    <3>2. ASSUME request # NoRequest, request.kind # "verify", NEW i \in DOMAIN todo'
          PROVE  todo'[i][1] \in Needs(request.kind)
      <4>1. i + 1 \in DOMAIN todo /\ todo'[i] = todo[i + 1]
        BY <2>5
      <4>. QED  BY <3>2, <4>1 DEF TodoInv
    <3>. QED  BY <2>1, <2>5, <3>1, <3>2 DEF TodoInv
  <2>7. GotInv'
    <3>1. ASSUME NEW t \in DOMAIN got \cup {<<c, id>>}
          PROVE  got'[t] = t /\ ~Damaged(t[1], t[2])
      <4>1. CASE t = <<c, id>>
        BY <2>1, <2>2, <4>1
      <4>2. CASE t # <<c, id>>
        BY <2>1, <4>2 DEF GotInv
      <4>. QED  BY <4>1, <4>2
    <3>2. DOMAIN got' = DOMAIN got \cup {<<c, id>>}
      BY <2>1
    <3>. QED  BY <1>1, <3>1, <3>2 DEF GotInv, Damaged, given
  <2>8. AskedInv'
    <3>1. Fetches(request)' = Fetches(request) /\ Present' = Present /\ request' = request
      <4>1. \A r : Fetches(r)' = Fetches(r)
        BY <1>1, FetchesStay
      <4>. QED  BY <1>1, <2>1, <4>1, PresentStays
    <3>2. Members(todo) \subseteq Members(todo') \cup {<<c, id>>}
      <4>1. ASSUME NEW i \in DOMAIN todo PROVE todo[i] \in Members(todo') \cup {<<c, id>>}
        <5>1. CASE i = 1
          BY <1>6, <5>1
        <5>2. CASE i # 1
          <6>1. i - 1 \in DOMAIN todo' /\ (i - 1) + 1 = i
            BY <2>5, <5>2
          <6>2. todo'[i - 1] = todo[i]
            BY <2>5, <6>1
          <6>. QED  BY <6>1, <6>2 DEF Members
        <5>. QED  BY <5>1, <5>2
      <4>. QED  BY <4>1 DEF Members
    <3>3. DOMAIN got' = DOMAIN got \cup {<<c, id>>}
      BY <2>1
    <3>. QED  BY <3>1, <3>2, <3>3 DEF AskedInv, Members
  <2>9. DamageIsContained'
    BY <1>1, <1>2, <2>1, VerdictsStay
  <2>. QED  BY <1>3, <1>4, <2>3, <2>4, <2>6, <2>7, <2>8, <2>9
<1>. QED  BY <1>7, <1>8

(* What a verification that comes to its end has seen: the hashes of a v2  *)
(* file, or every tile of a v1 file.                                       *)
LEMMA VerifiedDamage ==
  ASSUME GivenInv, Opens, HashesMatch, GotInv,
         Tide \in Present => TileNames(Tide) \subseteq DOMAIN got
  PROVE  damage = << >>
<1>1. package \in DOMAIN Files /\ damage \in HarmTo(file)
  BY DamageAssumption DEF GivenInv, file
<1>2. Layout(file)
  BY <1>1, FilesAssumption DEF file
<1>3. file.version \in {1, 2}
  BY <1>2 DEF Layout
<1>4. damage # <<"public">> /\ \A c \in Holds(file) : damage # <<"metadata", c>>
  BY DEF Opens, Present, MetadataDamaged
<1>5. ASSUME NEW c \in Holds(file) \ {Tide}, file.version = 2
      PROVE  damage # <<"grid", c>>
  BY <1>5 DEF HashesMatch, Present, GridDamaged
<1>6. ASSUME NEW c \in Holds(file), NEW i \in DOMAIN Index(file, c)
      PROVE  damage # <<"tile", c, i - 1>>
  <2>. DEFINE id == i - 1
  <2>1. c \in Present /\ c \in Types
    BY <1>1, <1>6, PresentAre DEF Present
  <2>2. id \in TileIds(Grid[c])
    <3>1. Entries(c) \in Seq(IndexRow) /\ Len(Entries(c)) = TileCount(c)
      BY <1>1, <2>1, EntriesAre
    <3>2. i \in 1 .. TileCount(c) /\ TileCount(c) \in Nat
      BY <1>6, <2>1, <3>1, TileCountIs DEF Entries
    <3>3. id \in 0 .. TileCount(c) - 1
      BY <3>2
    <3>. QED  BY <3>3 DEF TileIds, TileCount
  <2>. HIDE DEF id
  <2>3. CASE file.version = 2
    <3>1. ~Damaged(c, id)
      BY <2>1, <2>2, <2>3 DEF HashesMatch
    <3>. QED  BY <3>1 DEF Damaged, id
  <2>4. CASE file.version = 1
    <3>1. c = Tide
      BY <2>4, <1>6 DEF Holds
    <3>2. <<c, id>> \in DOMAIN got
      BY <2>1, <2>2, <3>1 DEF TileNames
    <3>3. ~Damaged(c, id)
      BY <3>2 DEF GotInv
    <3>. QED  BY <3>3 DEF Damaged, id
  <2>. QED  BY <1>3, <2>3, <2>4
<1>. QED  BY <1>1, <1>4, <1>5, <1>6 DEF HarmTo

(* Of four weights one is the heaviest, and the first of its equals.       *)
LEMMA HeaviestIs ==
  ASSUME NEW c \in Types, NEW corners, PlacesIn(c, corners), corners # << >>
  PROVE  \E i \in 1 .. 4 : Heaviest(corners) = corners[i]
<1>. DEFINE w(i) == corners[i].weight
            Wins(i) == \A j \in 1 .. 4 : w(i) > w(j) \/ (w(i) = w(j) /\ i <= j)
<1>1. \A i \in 1 .. 4 : w(i) \in Int
  BY DEF PlacesIn, CornerIn
<1>2. \E i \in 1 .. 4 : Wins(i)
  <2>. DEFINE first == IF w(1) >= w(2) THEN 1 ELSE 2
              second == IF w(3) >= w(4) THEN 3 ELSE 4
              best == IF w(first) >= w(second) THEN first ELSE second
  <2>0. w(1) \in Int /\ w(2) \in Int /\ w(3) \in Int /\ w(4) \in Int
    BY <1>1
  <2>. HIDE DEF w
  <2>1. best \in 1 .. 4
    OBVIOUS
  <2>2. Wins(best)
    <3>1. CASE best = 1
      BY <2>0, <3>1
    <3>2. CASE best = 2
      BY <2>0, <3>2
    <3>3. CASE best = 3
      BY <2>0, <3>3
    <3>4. CASE best = 4
      BY <2>0, <3>4
    <3>. QED  BY <2>1, <3>1, <3>2, <3>3, <3>4
  <2>. QED  BY <2>1, <2>2
<1>3. Heaviest(corners) = corners[CHOOSE i \in 1 .. 4 : Wins(i)]
  BY DEF Heaviest
<1>4. (CHOOSE i \in 1 .. 4 : Wins(i)) \in 1 .. 4
  <2>. HIDE DEF Wins
  <2>. QED  BY <1>2
<1>. HIDE DEF Wins
<1>. QED  BY <1>3, <1>4

(* What a request holds of a corner of its point is what the author wrote  *)
(* at that node.                                                           *)
LEMMA ShareIs ==
  ASSUME NEW at \in Points, NEW corner, NEW x, NEW y, NodeCorner(Quality, at, corner, x, y),
         NEW f \in 0 .. 2
  PROVE  /\ Share(f, corner, corner.tile) = corner.weight * Authored(Quality, f, x, y)
         /\ Authored(Quality, f, x, y) \in Int
         /\ Usable(f, corner, corner.tile) <=> Usable(0, corner, corner.tile)
         /\ ClassOf(corner, corner.tile) = Support(x, y) /\ Support(x, y) \in Nat
<1>1. Quality \in Types \ {Tide} /\ f \in Fields /\ 0 \in Fields
  BY DEF Quality, Tide, Types, Fields
<1>. DEFINE id == TileOf(Grid[Quality], x, y)
            k == LocalOf(Grid[Quality], x, y)
<1>2. /\ x \in 0 .. Grid[Quality].nx - 1 /\ y \in 0 .. Grid[Quality].ny - 1
      /\ corner.tile[1] = Quality /\ corner.tile[2] = id /\ corner.k = k
  BY DEF NodeCorner
<1>3. /\ Coefficients[Quality][id][f][k] = Authored(Quality, f, x, y)
      /\ Masks[Quality][id][f][k] = ValidCell(Quality, f, x, y)
      /\ Masks[Quality][id][0][k] = ValidCell(Quality, 0, x, y)
  BY <1>1, <1>2, CellsAreAuthored
<1>4. ValidCell(Quality, f, x, y) = ValidCell(Quality, 0, x, y)
  BY <1>1, <1>2, MaskAssumption
<1>5. Authored(Quality, f, x, y) \in Int
  BY <1>1, <1>2, AuthoredAssumption
<1>6. Support(x, y) \in Nat /\ SupportClasses[id][k] = Support(x, y)
  BY <1>2, SupportIsNatural
<1>. HIDE DEF id, k
<1>7. Share(f, corner, corner.tile) = corner.weight * Authored(Quality, f, x, y)
  BY <1>2, <1>3 DEF Share
<1>8. Usable(f, corner, corner.tile) <=> Usable(0, corner, corner.tile)
  BY <1>2, <1>3, <1>4 DEF Usable
<1>9. ClassOf(corner, corner.tile) = Support(x, y)
  BY <1>2, <1>6 DEF ClassOf
<1>. QED  BY <1>5, <1>6, <1>7, <1>8, <1>9

(* A quality answer that is refused was interpolated from a node whose     *)
(* author wrote what Validate refuses.                                     *)
LEMMA RefusedValue ==
  ASSUME GotInv, NEW at \in Points,
         Members(TilesOf(Quality, 0, at)) \subseteq DOMAIN got,
         QualityAt(at) # Missing,
         ~((\A f \in 1 .. 3 : QualityAt(at)[f] >= 0) /\ QualityAt(at)[4] <= 4)
  PROVE  GridDamaged(Quality) \/ UnsoundNear(at)
<1>. SUFFICES ASSUME ~GridDamaged(Quality) PROVE UnsoundNear(at)
  OBVIOUS
<1>. DEFINE corners == ReaderCorners(Quality, 0, at)
            means == [f \in 1 .. 3 |-> Interpolated(Quality, f - 1, at)]
            heaviest == Heaviest(corners)
            class == ClassOf(heaviest, got[heaviest.tile])
            shares(f) == [i \in DOMAIN corners |-> Share(f, corners[i], got[corners[i].tile])]
<1>1. Quality \in Types \ {Tide} /\ Quality \in Types /\ \A f \in 0 .. 2 : f \in Fields
  BY DEF Quality, Tide, Types, Fields
<1>2. \A f \in 0 .. 2 : Interpolated(Quality, f, at) = InterpolatedFrom(f, corners)
  <2>1. \A f \in 0 .. 2 : Origin(Quality, f) = Origin(Quality, 0)
    BY DEF Origin, Quality, Tide
  <2>2. \A f \in 0 .. 2 : ReaderCorners(Quality, f, at) = corners
    BY <1>1, <2>1 DEF ReaderCorners, PointCorners, GridDamaged
  <2>. QED  BY <2>2 DEF Interpolated
<1>3. QualityAt(at) = WithClass(means, heaviest)
  BY DEF QualityAt
<1>4. means[1] = Interpolated(Quality, 0, at) /\ means[1] # Missing
  BY <1>3 DEF WithClass
<1>5. QualityAt(at) = <<means[1][1], means[2][1], means[3][1], class>>
  BY <1>3, <1>4 DEF WithClass
<1>6. corners # << >> /\ \A i \in DOMAIN corners : Usable(0, corners[i], got[corners[i].tile])
  <2>1. InterpolatedFrom(0, corners) # Missing
    BY <1>2, <1>4
  <2>. HIDE DEF corners
  <2>. QED  BY <2>1 DEF InterpolatedFrom
<1>7. DOMAIN corners = 1 .. 4 /\ \A i \in 1 .. 4 : \E x, y : NodeCorner(Quality, at, corners[i], x, y)
  BY <1>1, <1>6, CornersNear
<1>8. ASSUME NEW i \in 1 .. 4 PROVE got[corners[i].tile] = corners[i].tile
  <2>1. TilesOf(Quality, 0, at) = [j \in DOMAIN corners |-> corners[j].tile]
    BY DEF TilesOf
  <2>2. corners[i].tile \in DOMAIN got
    <3>. HIDE DEF corners
    <3>. QED  BY <1>7, <2>1 DEF Members
  <2>. QED  BY <2>2 DEF GotInv
<1>9. PICK i \in 1 .. 4 : heaviest = corners[i]
  <2>1. PlacesIn(Quality, corners)
    BY <1>1, ReaderCornersIn
  <2>. QED  BY <1>1, <1>6, <2>1, HeaviestIs
<1>10. ASSUME NEW f \in 0 .. 2
       PROVE  Interpolated(Quality, f, at) = <<SumFunction(shares(f))>>
  <2>1. ASSUME NEW j \in DOMAIN corners PROVE Usable(f, corners[j], got[corners[j].tile])
    <3>1. j \in 1 .. 4
      BY <1>7
    <3>2. PICK x, y : NodeCorner(Quality, at, corners[j], x, y)
      BY <1>7, <3>1
    <3>3. got[corners[j].tile] = corners[j].tile /\ Usable(0, corners[j], got[corners[j].tile])
      BY <1>6, <1>8, <3>1
    <3>. HIDE DEF corners
    <3>4. Usable(f, corners[j], corners[j].tile) <=> Usable(0, corners[j], corners[j].tile)
      BY <3>2, ShareIs
    <3>. QED  BY <3>3, <3>4
  <2>2. Interpolated(Quality, f, at) = InterpolatedFrom(f, corners)
    BY <1>2
  <2>. HIDE DEF corners
  <2>. QED  BY <1>6, <2>1, <2>2 DEF InterpolatedFrom
<1>. HIDE DEF corners, heaviest, means
<1>11. CASE ~(QualityAt(at)[4] <= 4)
  <2>1. PICK x, y : NodeCorner(Quality, at, corners[i], x, y)
    BY <1>7
  <2>2. class = ClassOf(corners[i], corners[i].tile)
    BY <1>8, <1>9
  <2>3. class = Support(x, y) /\ Support(x, y) \in Nat
    <3>1. 0 \in 0 .. 2
      OBVIOUS
    <3>. HIDE DEF class
    <3>. QED  BY <2>1, <2>2, <3>1, ShareIs
  <2>4. QualityAt(at)[4] = class
    <3>. HIDE DEF class
    <3>. QED  BY <1>5
  <2>5. Support(x, y) > 4
    BY <1>11, <2>3, <2>4
  <2>6. <<x, y>> \in NodesNear(Quality, 0, at, 1)
    BY <2>1 DEF NodeCorner
  <2>. QED  BY <2>5, <2>6 DEF UnsoundNear
<1>12. CASE \E f \in 1 .. 3 : ~(QualityAt(at)[f] >= 0)
  <2>1. PICK f \in 0 .. 2 : ~(QualityAt(at)[f + 1] >= 0)
    <3>1. PICK g \in 1 .. 3 : ~(QualityAt(at)[g] >= 0)
      BY <1>12
    <3>2. g - 1 \in 0 .. 2 /\ (g - 1) + 1 = g
      OBVIOUS
    <3>. QED  BY <3>1, <3>2
  <2>2. QualityAt(at)[f + 1] = means[f + 1][1]
    <3>. HIDE DEF class
    <3>1. CASE f = 0
      BY <1>5, <3>1
    <3>2. CASE f = 1
      BY <1>5, <3>2
    <3>3. CASE f = 2
      BY <1>5, <3>3
    <3>. QED  BY <3>1, <3>2, <3>3
  <2>3. means[f + 1] = Interpolated(Quality, f, at)
    <3>1. f + 1 \in 1 .. 3 /\ (f + 1) - 1 = f
      OBVIOUS
    <3>. QED  BY <3>1 DEF means
  <2>. DEFINE s == shares(f)
  <2>4. QualityAt(at)[f + 1] = SumFunction(s)
    <3>1. Interpolated(Quality, f, at) = <<SumFunction(s)>>
      BY <1>10
    <3>. HIDE DEF s
    <3>. QED  BY <2>2, <2>3, <3>1
  <2>5. ASSUME NEW j \in 1 .. 4, NEW x, NEW y, NodeCorner(Quality, at, corners[j], x, y)
        PROVE  /\ s[j] = corners[j].weight * Authored(Quality, f, x, y)
               /\ Authored(Quality, f, x, y) \in Int /\ corners[j].weight \in Nat
    <3>1. s[j] = Share(f, corners[j], corners[j].tile)
      BY <1>7, <1>8
    <3>2. corners[j].weight \in Nat
      BY <2>5 DEF NodeCorner
    <3>. HIDE DEF s
    <3>. QED  BY <2>5, <3>1, <3>2, ShareIs
  <2>6. DOMAIN s = 1 .. 4
    BY <1>7
  <2>. HIDE DEF s
  <2>7. IsFiniteSet(DOMAIN s) /\ \A j \in DOMAIN s : s[j] \in Int
    <3>1. IsFiniteSet(1 .. 4)
      <4>1. \A a, b \in Int : IsFiniteSet(a .. b)
        BY FS_Interval
      <4>2. 1 \in Int /\ 4 \in Int
        OBVIOUS
      <4>. QED  BY <4>1, <4>2
    <3>2. ASSUME NEW j \in 1 .. 4 PROVE s[j] \in Int
      <4>1. PICK x, y : NodeCorner(Quality, at, corners[j], x, y)
        BY <1>7
      <4>2. /\ s[j] = corners[j].weight * Authored(Quality, f, x, y)
            /\ Authored(Quality, f, x, y) \in Int /\ corners[j].weight \in Nat
        BY <2>5, <4>1
      <4>. QED  BY <4>2
    <3>. QED  BY <2>6, <3>1, <3>2
  <2>8. SumFunction(s) < 0
    <3>1. SumFunction(s) \in Int
      BY <2>7, SumIsInt
    <3>. QED  BY <2>1, <2>4, <3>1
  <2>9. PICK j \in 1 .. 4 : s[j] < 0
    BY <2>6, <2>7, <2>8, NegativeSum
  <2>10. PICK x, y : NodeCorner(Quality, at, corners[j], x, y)
    BY <1>7
  <2>11. Authored(Quality, f, x, y) < 0
    <3>. DEFINE a == Authored(Quality, f, x, y)
                w == corners[j].weight
    <3>1. s[j] = w * a /\ a \in Int /\ w \in Nat
      BY <2>5, <2>10
    <3>. HIDE DEF a, w
    <3>2. \A u \in Nat, v \in Int : u * v < 0 => v < 0
      OBVIOUS
    <3>3. a < 0
      BY <2>9, <3>1, <3>2
    <3>. QED  BY <3>3 DEF a
  <2>12. <<x, y>> \in NodesNear(Quality, 0, at, 1)
    BY <2>10 DEF NodeCorner
  <2>. QED  BY <2>11, <2>12 DEF UnsoundNear
<1>. QED  BY <1>11, <1>12

LEMMA FinishKeeps ==
  ASSUME ReaderInv, Finish
  PROVE  ReaderInv'
<1>1. UNCHANGED given
  BY DEF Finish
<1>2. /\ UNCHANGED <<phase, cache, todo>> /\ request # NoRequest /\ todo = << >>
      /\ request' = NoRequest /\ got' = << >>
      /\ verified' = (verified \/ request.kind = "verify")
  BY DEF Finish
<1>. USE DEF ReaderInv
<1>. DEFINE available == Needs(request.kind) \subseteq Present
            value == IF available THEN Answer(request) ELSE Missing
<1>3. reply' = [to |-> request,
                outcome |-> IF ~available THEN "unavailable"
                            ELSE IF Valid(request, value) THEN "answered" ELSE "failed",
                value |-> value]
  BY DEF Finish, Conclude, Reply
<1>4. GivenInv'
  BY <1>1, GivenStays
<1>5. CacheInv'
  BY <1>1, <1>2, CachesStay
<1>6. request \in Requests /\ Opens
  BY <1>2 DEF ServeInv
<1>7. TodoInv' /\ GotInv' /\ AskedInv'
  BY <1>2 DEF TodoInv, GotInv, AskedInv
<1>8. ServeInv'
  <2>. HIDE DEF available, value
  <2>1. reply'.outcome \in {"none", "answered", "failed", "unavailable"}
    BY <1>3
  <2>2. verified' \in BOOLEAN
    BY <1>2 DEF ServeInv
  <2>. QED  BY <1>1, <1>2, <2>1, <2>2, PresentStays DEF ServeInv
<1>9. available => Members(Fetches(request)) \subseteq DOMAIN got
  BY <1>2 DEF AskedInv, Members
<1>10. VerifiedIsIntact'
  <2>1. CASE request.kind = "verify"
    <3>1. Needs(request.kind) = {}
      BY <2>1 DEF Needs
    <3>2. Members(VerifyFetches) \subseteq DOMAIN got
      BY <1>9, <2>1, <3>1 DEF Fetches
    <3>3. Tide \in Present => TileNames(Tide) \subseteq Members(VerifyFetches)
      BY <1>6, VerifyFetchesAre DEF GivenInv
    <3>4. HashesMatch
      BY <1>2, <2>1 DEF ServeInv
    <3>5. Opens
      BY <1>2 DEF ServeInv
    <3>6. damage = << >>
      BY <3>2, <3>3, <3>4, <3>5, VerifiedDamage
    <3>. QED  BY <1>1, <3>6 DEF VerifiedIsIntact, given
  <2>2. CASE request.kind # "verify"
    BY <1>1, <1>2, <2>2 DEF VerifiedIsIntact, given
  <2>. QED  BY <2>1, <2>2
<1>11. DamageIsContained'
  <2>1. CASE reply'.outcome # "failed"
    BY <2>1 DEF DamageIsContained
  <2>2. CASE reply'.outcome = "failed"
    <3>1. available /\ ~Valid(request, Answer(request))
      <4>. HIDE DEF available
      <4>. QED  BY <1>3, <2>2
    <3>2. /\ request.kind = "quality" /\ Answer(request) # Missing
          /\ ~((\A f \in 1 .. 3 : Answer(request)[f] >= 0) /\ Answer(request)[4] <= 4)
      BY <3>1 DEF Valid
    <3>3. Answer(request) = QualityAt(request.at)
      BY <3>2 DEF Answer
    <3>4. request \in Requests
      BY <1>2 DEF ServeInv
    <3>5. request.at \in Points
      BY <3>4 DEF Points
    <3>6. Fetches(request) = TilesOf(Quality, 0, request.at)
      BY <3>2, <3>5, PointFetchesAre DEF Fetches, Kinds
    <3>7. Members(TilesOf(Quality, 0, request.at)) \subseteq DOMAIN got
      BY <1>9, <3>1, <3>6
    <3>8. GridDamaged(Quality) \/ UnsoundNear(request.at)
      BY <3>2, <3>3, <3>5, <3>7, RefusedValue
    <3>9. reply'.to = request
      BY <1>3
    <3>10. damage' = damage
      BY <1>1 DEF given
    <3>11. (GridDamaged(Quality) \/ UnsoundNear(reply.to.at))'
      BY <3>8, <3>9, <3>10 DEF GridDamaged
    <3>. QED  BY <3>2, <3>9, <3>11 DEF DamageIsContained
  <2>. QED  BY <2>1, <2>2
<1>. QED  BY <1>4, <1>5, <1>7, <1>8, <1>10, <1>11

LEMMA StutterKeeps ==
  ASSUME ReaderInv, UNCHANGED vars
  PROVE  ReaderInv'
<1>1. UNCHANGED given /\ UNCHANGED <<phase, cache, request, todo, got, reply, verified>>
  BY DEF vars, given
<1>. USE DEF ReaderInv
<1>2. GivenInv' /\ CacheInv' /\ GotInv'
  BY <1>1, GivenStays, CachesStay, GotStays
<1>3. ServeInv' /\ TodoInv'
  BY <1>1, PresentStays DEF ServeInv, TodoInv
<1>4. AskedInv'
  <2>1. Present' = Present /\ request' = request
    BY <1>1, PresentStays
  <2>2. \A r : Fetches(r)' = Fetches(r)
    BY <1>1, FetchesStay
  <2>. QED  BY <1>1, <2>1, <2>2 DEF AskedInv, Members
<1>5. VerifiedIsIntact' /\ DamageIsContained'
  BY <1>1, VerdictsStay
<1>. QED  BY <1>2, <1>3, <1>4, <1>5

(* Every state a reader can be in, whatever the file, the harm done to it, *)
(* the limits of the caches and the requests, satisfies the invariant.     *)
THEOREM Invariance == Spec => []ReaderInv
<1>1. Init => ReaderInv
  BY InitReader
<1>2. ReaderInv /\ [Next]_vars => ReaderInv'
  BY OpenKeeps, AskKeeps, FetchTileKeeps, FinishKeeps, ClearKeeps, StutterKeeps DEF Next
<1>. QED  BY <1>1, <1>2, PTL DEF Spec

(* The reader's state keeps its types: whatever point is asked for, GetCell*)
(* and GetTile look up tiles that the index of a component of the package  *)
(* has (xtd.cpp, xtd_package.cpp).                                         *)
THEOREM TypeCorrect == Spec => []TypeOK
<1>1. ReaderInv => TypeOK
  <2>. SUFFICES ASSUME ReaderInv PROVE TypeOK
    OBVIOUS
  <2>1. ASSUME NEW i \in DOMAIN todo
        PROVE  todo[i][1] \in Present /\ todo[i][2] \in TileIds(Grid[todo[i][1]])
    <3>1. todo[i] \in PresentTiles
      BY DEF ReaderInv, TodoInv
    <3>. QED  BY <3>1 DEF PresentTiles, TileNames
  <2>. QED  BY <2>1 DEF ReaderInv, ServeInv, TypeOK
<1>. QED  BY <1>1, Invariance, PTL

(* The list and the tiles of a cache agree, and its running total is what  *)
(* they take and never more than was configured, however GetTile and       *)
(* ResidualReader::Get use tiles again, insert and evict them.             *)
THEOREM CachesCohere == Spec => []CacheCoherent
<1>1. ReaderInv => CacheCoherent
  <2>1. ReaderInv => \A c \in Types : CacheOK(c, cache[c])
    BY DEF ReaderInv, CacheInv
  <2>. QED  BY <2>1 DEF CacheCoherent, CacheOK, Members, Once, ListSize
<1>. QED  BY <1>1, Invariance, PTL

(* XtdPackageReader::Verify succeeds only on a file nothing has happened   *)
(* to: the hashes of a v2 file, or the tiles of a v1 file, show any harm.  *)
THEOREM VerifiedUndamaged == Spec => []VerifiedIsIntact
<1>1. ReaderInv => VerifiedIsIntact
  BY DEF ReaderInv
<1>. QED  BY <1>1, Invariance, PTL

(* A prediction of an open package fails only for harm to a component it   *)
(* reads, or because TideHeightQualityGrid::Validate refuses what the      *)
(* author wrote at a node around the point: a negative deviation or        *)
(* distance, or a support class above four.                                *)
THEOREM DamageContained == Spec => []DamageIsContained
<1>1. ReaderInv => DamageIsContained
  BY DEF ReaderInv
<1>. QED  BY <1>1, Invariance, PTL

-----------------------------------------------------------------------------
(* Part 11: the regions of an accepted file.                               *)

Used(entries) == {i \in 1 .. Len(entries) : ~entries[i].empty}
EntryEnd(e) == e.at + e.len

LEMMA EntryIs ==
  ASSUME NEW entries \in Seq(IndexRow), NEW i \in 1 .. Len(entries)
  PROVE  /\ entries[i].at \in Nat /\ entries[i].len \in Nat
         /\ EntryEnd(entries[i]) \in Nat /\ entries[i].at <= EntryEnd(entries[i])
<1>1. entries[i] \in IndexRow
  <2>. HIDE DEF IndexRow
  <2>. QED  OBVIOUS
<1>2. entries[i].at \in Nat /\ entries[i].len \in Nat
  BY <1>1 DEF IndexRow
<1>. QED  BY <1>2 DEF EntryEnd

(* The rows of an accepted index describe payload in order: none begins    *)
(* before one above it ends.                                               *)
LEMMA IndexInOrder ==
  ASSUME NEW entries \in Seq(IndexRow), NEW from \in Nat, NEW limit \in Nat,
         ParseIndex(entries, from, limit)
  PROVE  \A j \in Used(entries) :
           /\ from <= entries[j].at /\ EntryEnd(entries[j]) <= limit
           /\ \A i \in Used(entries) : i < j => EntryEnd(entries[i]) <= entries[j].at
<1>. DEFINE L == Len(entries)
            U == Used(entries)
            at(i) == entries[i].at
            end(i) == EntryEnd(entries[i])
            Sorted(j) == from <= at(j) /\ \A i \in U : i < j => end(i) <= at(j)
            Wrong == {j \in U : ~Sorted(j)}
<1>1. L \in Nat /\ U \subseteq 1 .. L
  BY DEF Used
<1>2. \A i \in U : at(i) \in Nat /\ end(i) \in Nat /\ at(i) <= end(i)
  BY <1>1, EntryIs
<1>3. ASSUME NEW j \in U
      PROVE  at(j) >= PayloadEnd(entries, j, from) /\ end(j) <= limit
  <2>1. EntryOK(entries, j, from, limit) /\ ~entries[j].empty
    BY <1>1 DEF ParseIndex, Used
  <2>. QED  BY <2>1 DEF EntryOK, Fits, EntryEnd
<1>4. ASSUME NEW j \in U, {k \in 1 .. j - 1 : ~entries[k].empty} = {}
      PROVE  PayloadEnd(entries, j, from) = from
  BY <1>4 DEF PayloadEnd
<1>5. ASSUME NEW j \in U, {k \in 1 .. j - 1 : ~entries[k].empty} # {}
      PROVE  \E m \in U : /\ m < j /\ PayloadEnd(entries, j, from) = end(m)
                          /\ \A i \in U : i < j => i <= m
  <2>. DEFINE S == {k \in 1 .. j - 1 : ~entries[k].empty}
              m == CHOOSE m \in S : \A k \in S : k <= m
  <2>1. j \in 1 .. L
    BY <1>1
  <2>2. j - 1 \in Nat /\ S \subseteq 0 .. j - 1 /\ S # {}
    BY <1>1, <1>5, <2>1
  <2>3. PayloadEnd(entries, j, from) = end(m)
    BY <1>5 DEF PayloadEnd, End, EntryEnd
  <2>4. \A i \in U : i < j => i \in S
    BY <1>1, <2>1 DEF Used
  <2>5. S \subseteq U /\ \A k \in S : k < j
    BY <1>1, <2>1 DEF Used
  <2>. HIDE DEF S
  <2>6. \E n \in S : \A k \in S : k <= n
    BY <2>2, Greatest
  <2>7. m \in S /\ \A k \in S : k <= m
    BY <2>6
  <2>. HIDE DEF m
  <2>. QED  BY <2>3, <2>4, <2>5, <2>7
<1>. HIDE DEF at, end, U, L
<1>6. Wrong = {}
  <2>1. SUFFICES ASSUME Wrong # {} PROVE FALSE
    OBVIOUS
  <2>2. Wrong \subseteq Nat
    <3>1. Wrong \subseteq U
      OBVIOUS
    <3>. HIDE DEF Wrong
    <3>. QED  BY <1>1, <3>1
  <2>3. PICK j \in Wrong : \A k \in Wrong : j <= k
    <3>. HIDE DEF Wrong
    <3>. QED  BY <2>1, <2>2, Least
  <2>4. j \in U /\ ~Sorted(j)
    OBVIOUS
  <2>5. CASE {k \in 1 .. j - 1 : ~entries[k].empty} = {}
    <3>1. from <= at(j)
      BY <1>2, <1>3, <1>4, <2>4, <2>5
    <3>2. ASSUME NEW i \in U, i < j PROVE FALSE
      <4>1. i \in 1 .. j - 1 /\ ~entries[i].empty
        BY <1>1, <2>4, <3>2 DEF U, Used
      <4>. QED  BY <2>5, <4>1
    <3>. QED  BY <2>4, <3>1, <3>2
  <2>6. CASE {k \in 1 .. j - 1 : ~entries[k].empty} # {}
    <3>1. PICK m \in U : /\ m < j /\ PayloadEnd(entries, j, from) = end(m)
                         /\ \A i \in U : i < j => i <= m
      BY <1>5, <2>4, <2>6
    <3>2. m \notin Wrong
      <4>1. ~(j <= m)
        BY <1>1, <2>4, <3>1
      <4>. HIDE DEF Wrong
      <4>. QED  BY <2>3, <4>1
    <3>3. Sorted(m)
      BY <3>2
    <3>4. end(m) <= at(j)
      BY <1>3, <2>4, <3>1
    <3>5. from <= at(j)
      BY <1>2, <2>4, <3>3, <3>4
    <3>6. ASSUME NEW i \in U, i < j PROVE end(i) <= at(j)
      <4>1. i <= m
        BY <3>1, <3>6
      <4>2. CASE i = m
        BY <3>4, <4>2
      <4>3. CASE i # m
        <5>1. i < m
          BY <1>1, <4>1, <4>3
        <5>2. end(i) <= at(m)
          BY <3>3, <5>1
        <5>. QED  BY <1>2, <2>4, <3>4, <5>2
      <4>. QED  BY <4>2, <4>3
    <3>. QED  BY <2>4, <3>5, <3>6
  <2>. QED  BY <2>5, <2>6
<1>. QED  BY <1>3, <1>6 DEF at, end, U

(* Regions that lie between two places and share nothing.                  *)
Spans(r, from, limit) ==
  /\ r[2] \in Int /\ r[3] \in Int /\ 0 <= r[3]
  /\ from <= r[2] /\ r[2] + r[3] <= limit
ApartWithin(ranges, from, limit) ==
  \A r \in ranges : /\ Spans(r, from, limit)
                    /\ \A s \in ranges : r # s => Disjoint(r, s)

LEMMA OneRange ==
  ASSUME NEW name, NEW at, NEW len, NEW limit,
         at \in Int, len \in Nat, at + len = limit
  PROVE  ApartWithin({<<name, at, len>>}, at, limit)
BY DEF ApartWithin, Spans

LEMMA TwoSets ==
  ASSUME NEW R, NEW S, NEW from \in Int, NEW middle \in Int, NEW limit \in Int,
         from <= middle, middle <= limit,
         ApartWithin(R, from, middle), ApartWithin(S, middle, limit)
  PROVE  ApartWithin(R \cup S, from, limit)
<1>1. ASSUME NEW r \in R PROVE Spans(r, from, limit) /\ Spans(r, from, middle)
  BY DEF ApartWithin, Spans
<1>2. ASSUME NEW r \in S PROVE Spans(r, from, limit) /\ Spans(r, middle, limit)
  BY DEF ApartWithin, Spans
<1>3. ASSUME NEW r \in R, NEW s \in S PROVE Disjoint(r, s) /\ Disjoint(s, r)
  BY <1>1, <1>2 DEF Spans, Disjoint
<1>4. ASSUME NEW r \in R \cup S, NEW s \in R \cup S, r # s PROVE Disjoint(r, s)
  BY <1>3, <1>4 DEF ApartWithin
<1>. QED  BY <1>1, <1>2, <1>4 DEF ApartWithin

LEMMA TilesApart ==
  ASSUME NEW c, NEW shift \in Nat, NEW entries \in Seq(IndexRow),
         NEW from \in Nat, NEW limit \in Nat, ParseIndex(entries, from, limit)
  PROVE  ApartWithin(TileRanges(c, entries, shift), shift + from, shift + limit)
<1>. DEFINE Place(i) == << <<c, "tile", i>>, shift + entries[i].at, entries[i].len >>
<1>1. TileRanges(c, entries, shift) = {Place(i) : i \in Used(entries)}
  BY DEF TileRanges, Used
<1>2. \A i \in Used(entries) : /\ i \in Nat /\ entries[i].at \in Nat /\ entries[i].len \in Nat
                               /\ EntryEnd(entries[i]) = entries[i].at + entries[i].len
  BY EntryIs DEF Used, EntryEnd
<1>3. ASSUME NEW i \in Used(entries) PROVE Spans(Place(i), shift + from, shift + limit)
  <2>1. from <= entries[i].at /\ EntryEnd(entries[i]) <= limit
    BY IndexInOrder
  <2>. DEFINE at == entries[i].at
              len == entries[i].len
  <2>2. at \in Nat /\ len \in Nat /\ from <= at /\ at + len <= limit
    BY <1>2, <2>1
  <2>3. Place(i)[2] = shift + at /\ Place(i)[3] = len
    OBVIOUS
  <2>. HIDE DEF at, len, Place
  <2>4. shift + from <= shift + at /\ (shift + at) + len <= shift + limit
    BY <2>2
  <2>. QED  BY <2>2, <2>3, <2>4 DEF Spans
<1>4. ASSUME NEW i \in Used(entries), NEW j \in Used(entries), i < j
      PROVE  Disjoint(Place(i), Place(j)) /\ Disjoint(Place(j), Place(i))
  <2>1. entries[i].at + entries[i].len <= entries[j].at
    <3>1. EntryEnd(entries[i]) <= entries[j].at
      BY <1>4, IndexInOrder
    <3>. QED  BY <1>2, <3>1
  <2>2. (shift + entries[i].at) + entries[i].len <= shift + entries[j].at
    <3>1. entries[i].at \in Nat /\ entries[i].len \in Nat /\ entries[j].at \in Nat
      BY <1>2
    <3>2. \A a, b, d, n \in Nat : a + b <= d => (n + a) + b <= n + d
      OBVIOUS
    <3>. QED  BY <2>1, <3>1, <3>2
  <2>3. /\ Place(i)[2] = shift + entries[i].at /\ Place(i)[3] = entries[i].len
        /\ Place(j)[2] = shift + entries[j].at
    OBVIOUS
  <2>. HIDE DEF Place
  <2>. QED  BY <2>2, <2>3 DEF Disjoint
<1>5. ASSUME NEW i \in Used(entries), NEW j \in Used(entries), Place(i) # Place(j)
      PROVE  Disjoint(Place(i), Place(j))
  <2>1. i < j \/ j < i
    <3>1. i # j
      BY <1>5
    <3>. QED  BY <1>2, <3>1
  <2>. HIDE DEF Place
  <2>. QED  BY <1>4, <2>1
<1>. HIDE DEF Place
<1>. QED  BY <1>1, <1>3, <1>5 DEF ApartWithin

(* The regions of a v1 package, read at some place of a file.              *)
LEMMA PackageApart ==
  ASSUME NEW t \in TideHeader, NEW size \in Nat, NEW shift \in Nat, ParsePackage(t, size)
  PROVE  ApartWithin(PackageRanges(t, shift), shift, shift + size)
<1>1. /\ t.metaAt = 1 /\ t.metaLen \in Nat /\ t.indexAt = 1 + t.metaLen /\ t.count \in Nat
      /\ t.payloadAt = t.indexAt + t.count /\ t.payloadAt <= size /\ t.length = size
  <2>1. t.metaLen \in Nat /\ t.count \in Nat
    BY DEF TideHeader
  <2>. QED  BY <2>1 DEF ParsePackage, ParseHeader, HeaderSize, EntrySize, End
<1>2. t.entries \in Seq(IndexRow) /\ ParseIndex(t.entries, t.payloadAt, size)
  BY <1>1 DEF TideHeader, ParsePackage
<1>. DEFINE header == {<< <<Tide, "header", 0>>, shift, 1 >>}
            metadata == {<< <<Tide, "metadata", 0>>, shift + t.metaAt, t.metaLen >>}
            index == {<< <<Tide, "index", 0>>, shift + t.indexAt, t.count >>}
            tiles == TileRanges(Tide, t.entries, shift)
            a == shift + 1
            b == shift + t.indexAt
            d == shift + t.payloadAt
            z == shift + size
<1>3. /\ a \in Int /\ b \in Int /\ d \in Int /\ z \in Int
      /\ shift <= a /\ a <= b /\ b <= d /\ d <= z
  BY <1>1
<1>4. PackageRanges(t, shift) = ((header \cup metadata) \cup index) \cup tiles
  <2>1. t.count * EntrySize = t.count /\ HeaderSize = 1
    BY <1>1 DEF EntrySize, HeaderSize
  <2>. QED  BY <2>1 DEF PackageRanges
<1>5. ApartWithin(header, shift, a)
  <2>1. shift \in Int /\ 1 \in Nat /\ shift + 1 = a
    BY <1>1
  <2>. HIDE DEF a
  <2>. QED  BY <2>1, OneRange
<1>6. ApartWithin(metadata, a, b)
  <2>1. shift + t.metaAt = a /\ (shift + t.metaAt) + t.metaLen = b /\ shift + t.metaAt \in Int
    BY <1>1
  <2>. HIDE DEF a, b
  <2>2. ApartWithin(metadata, shift + t.metaAt, b)
    BY <1>1, <2>1, OneRange
  <2>. QED  BY <2>1, <2>2
<1>7. ApartWithin(index, b, d)
  <2>1. b + t.count = d /\ b \in Int
    BY <1>1
  <2>. HIDE DEF d
  <2>. QED  BY <1>1, <2>1, OneRange
<1>8. ApartWithin(tiles, d, z)
  <2>1. t.payloadAt \in Nat
    BY <1>1
  <2>. QED  BY <1>2, <2>1, TilesApart
<1>. HIDE DEF header, metadata, index, tiles, a, b, d, z
<1>9. ApartWithin(header \cup metadata, shift, b)
  BY <1>3, <1>5, <1>6, TwoSets
<1>10. shift <= b /\ shift <= d
  BY <1>3
<1>11. ApartWithin((header \cup metadata) \cup index, shift, d)
  BY <1>3, <1>7, <1>9, <1>10, TwoSets
<1>12. ApartWithin(((header \cup metadata) \cup index) \cup tiles, shift, z)
  BY <1>3, <1>8, <1>10, <1>11, TwoSets
<1>. QED  BY <1>4, <1>12 DEF z

(* The regions of a component of a v2 file.                                *)
RowParsed(f, row) ==
  IF Nested(row) THEN ParsePackage(f.tide, row.nestedLen) ELSE ParseTileIndex(row)

LEMMA RowApart ==
  ASSUME NEW f, Layout(f), NEW row \in DirectoryRow, NEW previous \in Int, NEW length \in Int,
         RowOK(row, previous, length), RowParsed(f, row)
  PROVE  /\ RowFrom(row) \in Int /\ RowEnd(row) \in Int
         /\ previous <= RowFrom(row) /\ RowFrom(row) <= RowEnd(row) /\ RowEnd(row) <= length
         /\ ApartWithin(RowRanges(f, row), RowFrom(row), RowEnd(row))
<1>1. CASE Nested(row)
  <2>1. row.nestedAt \in Nat /\ row.nestedLen \in Nat
    BY DEF DirectoryRow
  <2>2. RowFrom(row) = row.nestedAt /\ RowEnd(row) = row.nestedAt + row.nestedLen
    BY <1>1 DEF RowFrom, RowEnd, End
  <2>3. previous <= RowFrom(row) /\ RowEnd(row) <= length
    BY <1>1, <2>2 DEF RowOK, Fits
  <2>4. f.tide \in TideHeader /\ ParsePackage(f.tide, row.nestedLen)
    BY <1>1 DEF Layout, RowParsed
  <2>5. RowRanges(f, row) = PackageRanges(f.tide, row.nestedAt)
    BY <1>1 DEF RowRanges
  <2>6. ApartWithin(RowRanges(f, row), RowFrom(row), RowEnd(row))
    BY <2>1, <2>2, <2>4, <2>5, PackageApart
  <2>. QED  BY <2>1, <2>2, <2>3, <2>6
<1>2. CASE ~Nested(row)
  <2>1. /\ row.metaAt \in Nat /\ row.metaLen \in Nat /\ row.indexAt \in Nat /\ row.indexLen \in Nat
        /\ row.payloadAt \in Nat /\ row.payloadLen \in Nat /\ row.entries \in Seq(IndexRow)
    BY DEF DirectoryRow
  <2>2. /\ row.indexAt = row.metaAt + row.metaLen /\ row.payloadAt = row.indexAt + row.indexLen
        /\ previous <= row.metaAt /\ row.payloadAt + row.payloadLen <= length
    BY <1>2, <2>1 DEF RowOK, End, Fits, RowFrom
  <2>. DEFINE metadata == {<< <<row.type, "metadata", 0>>, row.metaAt, row.metaLen >>}
              index == {<< <<row.type, "index", 0>>, row.indexAt, row.indexLen >>}
              tiles == TileRanges(row.type, row.entries, 0)
              end == row.payloadAt + row.payloadLen
  <2>3. RowFrom(row) = row.metaAt /\ RowEnd(row) = end
    BY <1>2 DEF RowFrom, RowEnd, End
  <2>4. RowRanges(f, row) = (metadata \cup index) \cup tiles
    BY <1>2 DEF RowRanges
  <2>5. ApartWithin(metadata, row.metaAt, row.indexAt)
    <3>1. row.metaAt \in Int /\ row.metaLen \in Nat /\ row.metaAt + row.metaLen = row.indexAt
      BY <2>1, <2>2
    <3>. QED  BY <3>1, OneRange
  <2>6. ApartWithin(index, row.indexAt, row.payloadAt)
    <3>1. row.indexAt \in Int /\ row.indexLen \in Nat
          /\ row.indexAt + row.indexLen = row.payloadAt
      BY <2>1, <2>2
    <3>. QED  BY <3>1, OneRange
  <2>7. ApartWithin(tiles, row.payloadAt, end)
    <3>1. ParseIndex(row.entries, row.payloadAt, end)
      BY <1>2 DEF RowParsed, ParseTileIndex, End
    <3>2. end \in Nat /\ 0 + row.payloadAt = row.payloadAt /\ 0 + end = end
      BY <2>1
    <3>. HIDE DEF end
    <3>3. ApartWithin(tiles, 0 + row.payloadAt, 0 + end)
      BY <2>1, <3>1, <3>2, TilesApart
    <3>. QED  BY <3>2, <3>3
  <2>. HIDE DEF metadata, index, tiles
  <2>8. /\ row.metaAt <= row.indexAt /\ row.indexAt <= row.payloadAt /\ row.payloadAt <= end
        /\ row.metaAt <= row.payloadAt /\ row.metaAt <= end /\ end \in Int
    <3>1. row.metaAt <= row.indexAt /\ row.indexAt <= row.payloadAt
      BY <2>1, <2>2
    <3>2. end \in Int /\ row.payloadAt <= end
      <4>1. row.payloadAt \in Nat /\ row.payloadLen \in Nat
        BY <2>1
      <4>2. \A a, b \in Nat : a + b \in Int /\ a <= a + b
        OBVIOUS
      <4>. QED  BY <4>1, <4>2
    <3>. HIDE DEF end
    <3>. QED  BY <2>1, <3>1, <3>2
  <2>9. ApartWithin(metadata \cup index, row.metaAt, row.payloadAt)
    BY <2>1, <2>5, <2>6, <2>8, TwoSets
  <2>10. end <= length
    BY <2>2
  <2>. HIDE DEF end
  <2>11. ApartWithin((metadata \cup index) \cup tiles, row.metaAt, end)
    BY <2>1, <2>7, <2>8, <2>9, TwoSets
  <2>. QED  BY <2>1, <2>2, <2>3, <2>4, <2>8, <2>10, <2>11
<1>. QED  BY <1>1, <1>2

(* Rows of the directory that are accepted one after another.              *)
LEMMA RowsApart ==
  ASSUME NEW f, Layout(f), f.version = 2, Accepts(f)
  PROVE  ApartWithin(UNION {RowRanges(f, f.dir[i]) : i \in DOMAIN f.dir},
                     f.outer.payloadAt, f.outer.length)
<1>. DEFINE N == Len(f.dir)
            from(i) == RowFrom(f.dir[i])
            end(i) == RowEnd(f.dir[i])
            before(i) == IF i = 1 THEN f.outer.payloadAt ELSE end(i - 1)
            ranges(i) == RowRanges(f, f.dir[i])
            start == f.outer.payloadAt
            length == f.outer.length
<1>1. /\ f.outer \in OuterHeader /\ f.dir \in Seq(DirectoryRow) /\ N \in Nat
      /\ DOMAIN f.dir = 1 .. N
  BY DEF Layout
<1>2. start \in Int /\ length \in Int
  BY <1>1 DEF OuterHeader
<1>3. ASSUME NEW i \in 1 .. N
      PROVE  /\ f.dir[i] \in DirectoryRow /\ RowOK(f.dir[i], before(i), length)
             /\ RowParsed(f, f.dir[i])
  <2>1. ParseDirectory(f.dir, f.outer) /\ RowParsed(f, f.dir[i])
    BY <1>1 DEF Accepts, RowParsed
  <2>2. RowOK(f.dir[i], before(i), length)
    BY <2>1 DEF ParseDirectory
  <2>3. f.dir[i] \in DirectoryRow
    <3>. HIDE DEF DirectoryRow
    <3>. QED  BY <1>1
  <2>. QED  BY <2>1, <2>2, <2>3
<1>4. ASSUME NEW i \in 1 .. N, before(i) \in Int
      PROVE  /\ from(i) \in Int /\ end(i) \in Int
             /\ before(i) <= from(i) /\ from(i) <= end(i) /\ end(i) <= length
             /\ ApartWithin(ranges(i), from(i), end(i))
  <2>. HIDE DEF before, length
  <2>. QED  BY <1>2, <1>3, <1>4, RowApart
<1>. DEFINE T == {n \in 0 .. N : n > 0 => /\ before(n) \in Int /\ start <= before(n)
                                          /\ \A i \in 1 .. n - 1 : end(i) \in Int /\ end(i) <= before(n)}
<1>. HIDE DEF from, end, ranges, start
<1>5. \A n \in 0 .. N : n \in T
  <2>1. 0 \in 0 .. N
    BY <1>1
  <2>2. 0 \in T
    BY <2>1
  <2>3. ASSUME NEW n \in 0 .. N - 1, n \in T PROVE n + 1 \in T
    <3>1. n + 1 \in 0 .. N
      BY <1>1
    <3>2. CASE n = 0
      <4>1. before(n + 1) = start
        BY <3>2 DEF start
      <4>2. 1 .. (n + 1) - 1 = {}
        BY <3>2
      <4>. HIDE DEF before
      <4>. QED  BY <1>2, <3>1, <4>1, <4>2
    <3>3. CASE n # 0
      <4>1. n \in 1 .. N /\ n + 1 # 1 /\ (n + 1) - 1 = n
        BY <1>1, <3>3
      <4>2. before(n + 1) = end(n)
        BY <4>1
      <4>. HIDE DEF before
      <4>3. /\ before(n) \in Int /\ start <= before(n)
            /\ \A i \in 1 .. n - 1 : end(i) \in Int /\ end(i) <= before(n)
        BY <2>3, <4>1
      <4>4. end(n) \in Int /\ before(n) <= from(n) /\ from(n) <= end(n) /\ from(n) \in Int
        BY <1>4, <4>1, <4>3
      <4>5. start <= end(n) /\ before(n) <= end(n)
        BY <1>2, <4>3, <4>4
      <4>6. ASSUME NEW i \in 1 .. n PROVE end(i) \in Int /\ end(i) <= end(n)
        <5>1. CASE i = n
          BY <4>4, <5>1
        <5>2. CASE i # n
          <6>1. i \in 1 .. n - 1
            BY <4>1, <5>2
          <6>2. end(i) \in Int /\ end(i) <= before(n)
            BY <4>3, <6>1
          <6>. QED  BY <4>3, <4>4, <4>5, <6>2
        <5>. QED  BY <5>1, <5>2
      <4>. QED  BY <3>1, <4>1, <4>2, <4>4, <4>5, <4>6
    <3>. QED  BY <3>2, <3>3
  <2>. HIDE DEF T
  <2>. QED  BY <1>1, <2>2, <2>3, Induction
<1>6. ASSUME NEW i \in 1 .. N
      PROVE  /\ from(i) \in Int /\ end(i) \in Int /\ start <= from(i) /\ end(i) <= length
             /\ from(i) <= end(i) /\ ApartWithin(ranges(i), from(i), end(i))
             /\ \A j \in 1 .. i - 1 : end(j) <= from(i)
  <2>. HIDE DEF before
  <2>1. i \in 0 .. N /\ i > 0
    OBVIOUS
  <2>2. /\ before(i) \in Int /\ start <= before(i)
        /\ \A j \in 1 .. i - 1 : end(j) \in Int /\ end(j) <= before(i)
    BY <1>5, <2>1
  <2>3. /\ from(i) \in Int /\ end(i) \in Int /\ before(i) <= from(i) /\ from(i) <= end(i)
        /\ end(i) <= length /\ ApartWithin(ranges(i), from(i), end(i))
    BY <1>4, <2>2
  <2>. QED  BY <1>2, <2>2, <2>3
<1>. HIDE DEF before, T, length
<1>7. ASSUME NEW i \in 1 .. N, NEW r \in ranges(i)
      PROVE  Spans(r, from(i), end(i)) /\ Spans(r, start, length)
  <2>1. Spans(r, from(i), end(i))
    BY <1>6 DEF ApartWithin
  <2>. QED  BY <1>2, <1>6, <2>1 DEF Spans
<1>8. ASSUME NEW i \in 1 .. N, NEW j \in 1 .. N, i < j, NEW r \in ranges(i), NEW s \in ranges(j)
      PROVE  Disjoint(r, s) /\ Disjoint(s, r)
  <2>1. i \in 1 .. j - 1
    BY <1>1, <1>8
  <2>2. end(i) <= from(j)
    BY <1>6, <2>1
  <2>3. Spans(r, from(i), end(i)) /\ Spans(s, from(j), end(j))
    BY <1>7
  <2>4. r[2] + r[3] <= s[2]
    <3>1. /\ r[2] \in Int /\ r[3] \in Int /\ r[2] + r[3] <= end(i)
          /\ s[2] \in Int /\ from(j) <= s[2]
      BY <2>3 DEF Spans
    <3>2. end(i) \in Int /\ from(j) \in Int
      BY <1>6
    <3>. QED  BY <2>2, <3>1, <3>2
  <2>. QED  BY <2>4 DEF Disjoint
<1>9. ASSUME NEW i \in 1 .. N, NEW j \in 1 .. N, NEW r \in ranges(i), NEW s \in ranges(j), r # s
      PROVE  Disjoint(r, s)
  <2>1. i = j \/ i < j \/ j < i
    BY <1>1
  <2>2. CASE i = j
    BY <1>6, <1>9, <2>2 DEF ApartWithin
  <2>. QED  BY <1>8, <2>1, <2>2
<1>10. ApartWithin(UNION {ranges(i) : i \in 1 .. N}, start, length)
  BY <1>7, <1>9 DEF ApartWithin
<1>. QED  BY <1>1, <1>10 DEF ranges, start, length

(* An accepted file has its regions apart.                                 *)
LEMMA AcceptedApart ==
  ASSUME NEW f, Layout(f), Accepts(f)
  PROVE  RangesApart(f)
<1>1. f.size \in Nat /\ f.version \in {1, 2} /\ f.tide \in TideHeader
  BY DEF Layout
<1>2. ApartWithin(ReadRanges(f), 0, f.size)
  <2>1. CASE f.version = 1
    <3>1. ParsePackage(f.tide, f.size)
      BY <2>1 DEF Accepts
    <3>2. ReadRanges(f) = PackageRanges(f.tide, 0)
      BY <2>1 DEF ReadRanges
    <3>3. ApartWithin(PackageRanges(f.tide, 0), 0, 0 + f.size)
      BY <1>1, <3>1, PackageApart
    <3>4. 0 + f.size = f.size
      BY <1>1
    <3>. QED  BY <3>2, <3>3, <3>4
  <2>2. CASE f.version = 2
    <3>. DEFINE h == f.outer
                header == {<< <<0, "header", 0>>, 0, HeaderSize >>}
                metadata == {<< <<0, "metadata", 0>>, h.metaAt, h.metaLen >>}
                directory == {<< <<0, "directory", 0>>, h.dirAt, h.dirLen >>}
                rows == UNION {RowRanges(f, f.dir[i]) : i \in DOMAIN f.dir}
    <3>1. h \in OuterHeader /\ ParseOuterHeader(h, f.size)
      BY <2>2 DEF Accepts, Layout
    <3>2. /\ h.metaAt \in Nat /\ h.metaLen \in Nat /\ h.dirAt \in Nat /\ h.dirLen \in Nat
          /\ h.payloadAt \in Nat /\ h.length \in Nat
      BY <3>1 DEF OuterHeader
    <3>3. /\ h.metaAt = 1 /\ h.dirAt = h.metaAt + h.metaLen /\ h.payloadAt = h.dirAt + h.dirLen
          /\ h.payloadAt <= h.length /\ h.length = f.size
      BY <3>1 DEF ParseOuterHeader, HeaderSize, End
    <3>4. ReadRanges(f) = ((header \cup metadata) \cup directory) \cup rows
      BY <2>2 DEF ReadRanges
    <3>5. ApartWithin(rows, h.payloadAt, h.length)
      BY <2>2, RowsApart
    <3>6. ApartWithin(header, 0, h.metaAt)
      <4>1. 0 \in Int /\ HeaderSize \in Nat /\ 0 + HeaderSize = h.metaAt
        BY <3>3 DEF HeaderSize
      <4>. HIDE DEF h
      <4>. QED  BY <4>1, OneRange
    <3>7. ApartWithin(metadata, h.metaAt, h.dirAt)
      <4>1. h.metaAt \in Int /\ h.metaLen \in Nat /\ h.metaAt + h.metaLen = h.dirAt
        BY <3>2, <3>3
      <4>. HIDE DEF h
      <4>. QED  BY <4>1, OneRange
    <3>8. ApartWithin(directory, h.dirAt, h.payloadAt)
      <4>1. h.dirAt \in Int /\ h.dirLen \in Nat /\ h.dirAt + h.dirLen = h.payloadAt
        BY <3>2, <3>3
      <4>. HIDE DEF h
      <4>. QED  BY <4>1, OneRange
    <3>9. /\ 0 <= h.metaAt /\ h.metaAt <= h.dirAt /\ h.dirAt <= h.payloadAt
          /\ 0 <= h.dirAt /\ 0 <= h.payloadAt
      BY <3>2, <3>3
    <3>10. /\ h.metaAt \in Int /\ h.dirAt \in Int /\ h.payloadAt \in Int /\ h.length \in Int
           /\ 0 \in Int
      BY <3>2
    <3>. HIDE DEF h, header, metadata, directory, rows
    <3>11. ApartWithin(header \cup metadata, 0, h.dirAt)
      BY <3>6, <3>7, <3>9, <3>10, TwoSets
    <3>12. ApartWithin((header \cup metadata) \cup directory, 0, h.payloadAt)
      BY <3>8, <3>9, <3>10, <3>11, TwoSets
    <3>13. ApartWithin(((header \cup metadata) \cup directory) \cup rows, 0, h.length)
      BY <3>3, <3>5, <3>9, <3>10, <3>12, TwoSets
    <3>. QED  BY <3>3, <3>4, <3>13
  <2>. QED  BY <1>1, <2>1, <2>2
<1>. DEFINE ranges == ReadRanges(f)
<1>3. \A r \in ranges : End(r[2], r[3]) <= f.size /\ \A s \in ranges : r # s => Disjoint(r, s)
  <2>. HIDE DEF ranges
  <2>. QED  BY <1>2 DEF ApartWithin, Spans, End, ranges
<1>. QED  BY <1>3 DEF RangesApart

(* A reader opens a package only when none of the regions it will read     *)
(* shares a byte with another or lies beyond the file: the bounds that     *)
(* ParseHeader, ParseDirectory and ParseIndex check one by one suffice.    *)
THEOREM RegionsApart == Spec => RangesDisjoint
<1>1. ReaderInv /\ [Next]_vars => [phase' = "open" => Apart[package]]_phase
  <2>. SUFFICES ASSUME ReaderInv, [Next]_vars, phase' # phase, phase' = "open"
                PROVE  Apart[package]
    OBVIOUS
  <2>1. Open
    BY DEF Next, Ask, FetchTile, Finish, Clear, vars
  <2>2. Acceptable[package]
    BY <2>1 DEF Open, Opens
  <2>3. package \in DOMAIN Files
    BY DEF ReaderInv, GivenInv
  <2>4. Accepts(Files[package]) /\ Layout(Files[package])
    BY <2>2, <2>3, FilesAssumption DEF Acceptable
  <2>5. RangesApart(Files[package])
    BY <2>4, AcceptedApart
  <2>. QED  BY <2>2, <2>3, <2>5 DEF Apart
<1>. QED  BY <1>1, Invariance, PTL DEF Spec, RangesDisjoint

=============================================================================
