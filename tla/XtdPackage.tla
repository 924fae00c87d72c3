----------------------------- MODULE XtdPackage -----------------------------
(***************************************************************************)
(* A reader of an offline tidal package (src/xtd.cpp, src/xtd_package.cpp):*)
(* opening, the bounded tile cache of each component, the prediction of    *)
(* currents and water levels at a point, and the verification.             *)
(*                                                                         *)
(* A request names a point; it fetches the tiles it needs one at a time,   *)
(* through the caches, and is answered when it has them all or fails at    *)
(* the first that does not authenticate.  A tile is known by its component *)
(* and number: what is decoded from it is a function of the file.          *)
(***************************************************************************)
EXTENDS PackageLayout, MonthCentre

CONSTANTS
  Authored(_, _, _, _), \* the author's coefficient: component, field, x, y
  ValidCell(_, _, _, _),\* the author's validity mask
  Support(_, _),        \* the author's support class of a water-level cell
  Delta,                \* the components whose tiles are coded as differences
  TileBytes,            \* what a decoded tile takes in memory, by component and number
  ReferenceLevel,       \* reference_level_m
  Times,                \* the times of a prediction
  HarmonicFiles,        \* the files whose residual is harmonic2, not monthly12
  WaveUnit, Wave(_, _), \* 1, cos, sin, cos 2 and sin 2 of a phase, in units of 1 / WaveUnit
  Files,                \* the layouts of the files a reader may be given, by name,
  Damage(_),            \* and the harm that may have come to one
  OptionSets,           \* XtdReaderOptions: capacity and bytes
  Requests              \* what callers ask for

VARIABLES
  package, damage, options, \* chosen once: the file and how it is read
  phase,     \* "closed", then "open" or "refused"
  cache,     \* of each component: lru (most recent first), tiles, bytes
  request,   \* the request being served, or NoRequest
  todo,      \* the fetches it still has to do
  got,       \* the tiles it holds
  reply,     \* the last reply
  verified   \* history: a verification has succeeded

vars == <<package, damage, options, phase, cache, request, todo, got, reply, verified>>
given == <<package, damage, options>>

NoRequest == [kind |-> "none", at |-> <<0, 0>>]
NoReply   == [to |-> NoRequest, outcome |-> "none", value |-> << >>]
Missing   == << >>

(* The residual has u in its first half and v in its second: of twelve     *)
(* months, or of five terms of the year.  The tide uses 1 for u and 2 for  *)
(* v, a water level 0, and the quality of one 0 to 2.                      *)
Fields == 0 .. 23

Kinds == {"tide", "seasonal", "height", "quality", "verify"}
ASSUME RequestsAssumption == Requests \subseteq [kind : Kinds, at : Int \X Int]
ASSUME OptionsAssumption == OptionSets \subseteq [capacity : Nat, bytes : Nat]
ASSUME MemoryAssumption == \A c \in Types : \A id \in TileIds(Grid[c]) : TileBytes[c][id] \in Nat
ASSUME OriginsAssumption ==
  /\ \A c \in Types : Grid[c].lon0 \in Int /\ Grid[c].lat0 \in Int
  /\ Grid[Tide].lonV \in Int /\ Grid[Tide].latU \in Int
ASSUME SupportAssumption ==
  \A x \in 0 .. Grid[Quality].nx - 1, y \in 0 .. Grid[Quality].ny - 1 : Support(x, y) \in Nat
(* Differences are coded modulo Modulus, so that what they add up to is.   *)
ASSUME AuthoredAssumption ==
  \A c \in Types, field \in Fields :
    \A x \in 0 .. Grid[c].nx - 1, y \in 0 .. Grid[c].ny - 1 :
      /\ Authored(c, field, x, y) \in Int
      /\ c \in Delta => Authored(c, field, x, y) \in -(Modulus \div 2) .. Modulus \div 2 - 1
(* A tile of the tide has a mask of its u and of its v nodes, the others   *)
(* one for all their fields.                                               *)
ASSUME MaskAssumption ==
  \A c \in Types \ {Tide}, field \in Fields :
    \A x \in 0 .. Grid[c].nx - 1, y \in 0 .. Grid[c].ny - 1 :
      ValidCell(c, field, x, y) = ValidCell(c, 0, x, y)
ASSUME FilesAssumption == \A name \in DOMAIN Files : Layout(Files[name])

-----------------------------------------------------------------------------
(* The file.  Damage is a tuple: << >> for none, <<"public">> for the part *)
(* a message authentication code covers, and <<"tile", c, id>>.  No code   *)
(* covers the metadata and the index of a v2 component: harm to them may   *)
(* leave something the constructors refuse, <<"metadata", c>>, or still be *)
(* read, with another origin, <<"grid", c>>.  The nested tide has a code.  *)

file == Files[package]

Listed(f) == {f.dir[i].type : i \in DOMAIN f.dir}
Holds(f) == IF f.version = 1 THEN {Tide} ELSE Listed(f)
Row(f, c) == f.dir[CHOOSE i \in DOMAIN f.dir : f.dir[i].type = c]
Index(f, c) == IF c = Tide THEN f.tide.entries ELSE Row(f, c).entries

Present == Holds(file)
Entries(c) == Index(file, c)

(* Only what is stored can be harmed. *)
HarmTo(f) ==
  {<< >>, <<"public">>}
  \cup {<<"metadata", c>> : c \in IF f.version = 2 THEN Holds(f) ELSE {}}
  \cup {<<"grid", c>> : c \in IF f.version = 2 THEN Holds(f) \ {Tide} ELSE {}}
  \cup UNION {{<<"tile", c, i - 1>> : i \in {j \in DOMAIN Index(f, c) : ~Index(f, c)[j].empty}}
              : c \in Holds(f)}
ASSUME DamageAssumption == \A name \in DOMAIN Files : Damage(name) \subseteq HarmTo(Files[name])

Damaged(c, id) == damage = <<"tile", c, id>>
GridDamaged(c) == damage = <<"grid", c>>
MetadataDamaged(c) == damage = <<"metadata", c>>

(* The coded coefficients of a tile, as the author wrote them. *)
Coded(c, id, field) ==
  LET values == [k \in Cells(Grid[c], id) |->
                   LET xy == CellAt(Grid[c], id, k) IN Authored(c, field, xy[1], xy[2])]
  IN  IF c \in Delta
      THEN Encode(values, TileWidth(Grid[c], id), TileHeight(Grid[c], id))
      ELSE values

(* ParseTile and ParseFieldTile: what the reader makes of them. *)
ParseTile(c, id, field) ==
  IF c \in Delta
  THEN Decode(Coded(c, id, field), TileWidth(Grid[c], id), TileHeight(Grid[c], id))
  ELSE Coded(c, id, field)
Coefficients ==
  [c \in Types |-> [id \in TileIds(Grid[c]) |-> [field \in Fields |-> ParseTile(c, id, field)]]]

Masks ==
  [c \in Types |-> [id \in TileIds(Grid[c]) |-> [field \in Fields |-> [k \in Cells(Grid[c], id) |->
     LET xy == CellAt(Grid[c], id, k) IN ValidCell(c, field, xy[1], xy[2])]]]]
SupportClasses ==
  [id \in TileIds(Grid[Quality]) |-> [k \in Cells(Grid[Quality], id) |->
     LET xy == CellAt(Grid[Quality], id, k) IN Support(xy[1], xy[2])]]

-----------------------------------------------------------------------------
(* The tile cache. *)

EmptyCache == [lru |-> << >>, tiles |-> << >>, bytes |-> 0]

(* What the list takes once everything behind its first n tiles is gone.   *)
(* The code keeps a running total rather than adding the list up.          *)
Left(c, ids, total, n) ==
  total - SumFunction([j \in n + 1 .. Len(ids) |-> TileBytes[c][ids[j]]])

(* The loop that evicts from the back stops at the longest prefix of the   *)
(* list that is within both limits.                                        *)
KeptLength(c, ids, total) ==
  LET fit == {0} \cup {n \in 1 .. Len(ids) :
                         n <= options.capacity /\ Left(c, ids, total, n) <= options.bytes}
  IN  CHOOSE n \in fit : \A m \in fit : m <= n

Insert(c, id, tile) ==
  LET ids   == <<id>> \o cache[c].lru
      total == cache[c].bytes + TileBytes[c][id]
      n     == KeptLength(c, ids, total)
      kept  == {ids[j] : j \in 1 .. n}
  IN  [lru   |-> SubSeq(ids, 1, n),
       tiles |-> [i \in kept |-> IF i = id THEN tile ELSE cache[c].tiles[i]],
       bytes |-> Left(c, ids, total, n)]

(* Mutant: a tile that is used again is listed again. *)
TouchAgain(c, id) == [cache[c] EXCEPT !.lru = <<id>> \o @]

Position(c, id) == CHOOSE i \in DOMAIN cache[c].lru : cache[c].lru[i] = id
Touch(c, id) ==
  LET at == Position(c, id)
  IN  [cache[c] EXCEPT !.lru = <<id>> \o SubSeq(@, 1, at - 1) \o SubSeq(@, at + 1, Len(@))]

Hit(c, id) == id \in DOMAIN cache[c].tiles

(* A reader with no room at all, or not for this tile, keeps nothing; the  *)
(* verifier of uncertainty tiles has no cache.                             *)
Keeps(c, id) ==
  /\ c # Uncertainty
  /\ options.capacity # 0
  /\ options.bytes # 0
  /\ TileBytes[c][id] <= options.bytes

(* GetTile and Get, and the loop body of TiledComponentVerifier::Verify:   *)
(* the cache afterwards, when the tile is good.                            *)
AfterFetch(c, id) ==
  IF Hit(c, id) THEN [cache EXCEPT ![c] = Touch(c, id)]
  ELSE IF Keeps(c, id) THEN [cache EXCEPT ![c] = Insert(c, id, <<c, id>>)]
  ELSE cache

Fetched(c, id) == IF Hit(c, id) THEN cache[c].tiles[id] ELSE <<c, id>>

-----------------------------------------------------------------------------
(* Where the cells of a point are.  The u and v nodes of the tide are half *)
(* a cell apart; the damage to a component's metadata is an origin one     *)
(* cell away from the author's.                                            *)

Origin(c, field) ==
  IF c # Tide THEN <<Grid[c].lon0, Grid[c].lat0>>
  ELSE IF field = 1 THEN <<Grid[c].lon0, Grid[c].latU>>
  ELSE <<Grid[c].lonV, Grid[c].lat0>>

CornersFrom(c, origin, at) ==
  IF c = Tide
  THEN Corners(TideLongitude(at[1], origin[1], Grid[c].nx),
               TideBracket(at[2] - origin[2], Grid[c].ny))
  ELSE Corners(FieldLongitude(at[1], origin[1], Grid[c].nx),
               FieldBracket(at[2] - origin[2], Grid[c].ny))

(* A point's corners with the tile each is in, and where it is there. *)
Points == {r.at : r \in Requests}
Located(c, corners) ==
  [i \in DOMAIN corners |->
     [tile |-> <<c, TileOf(Grid[c], corners[i][1], corners[i][2])>>,
      k |-> LocalOf(Grid[c], corners[i][1], corners[i][2]),
      weight |-> corners[i][3]]]
PointCorners ==
  [c \in Types |-> [field \in Fields |-> [moved \in BOOLEAN |-> [at \in Points |->
     LET o == Origin(c, field)
     IN  Located(c, CornersFrom(c, IF moved THEN <<o[1] + 2, o[2]>> ELSE o, at))]]]]
ReaderCorners(c, field, at) == PointCorners[c][field][GridDamaged(c)][at]

(* The tiles the loops over a point fetch, in order, repetitions included. *)
TilesOf(c, field, at) ==
  LET corners == ReaderCorners(c, field, at) IN [i \in DOMAIN corners |-> corners[i].tile]

PointFetches(kind, at) ==
  CASE kind = "tide"     -> TilesOf(Tide, 1, at) \o TilesOf(Tide, 2, at)
    [] kind = "seasonal" -> TilesOf(Tide, 1, at) \o TilesOf(Tide, 2, at)
                            \o TilesOf(Residual, 0, at)
    [] kind = "height"   -> TilesOf(Height, 0, at)
    [] kind = "quality"  -> TilesOf(Quality, 0, at)

(* Every tile of a component.  An empty one has nothing to authenticate:   *)
(* the caches make it out of nothing and the verifier without one passes   *)
(* over it, neither of which can fail.                                     *)
AllTiles(c) ==
  IF c \notin Present THEN << >> ELSE [i \in DOMAIN Entries(c) |-> <<c, i - 1>>]

VerifyFetches ==
  AllTiles(Tide) \o AllTiles(Residual) \o AllTiles(Uncertainty)
  \o AllTiles(Height) \o AllTiles(Quality)

Fetches(r) == IF r.kind = "verify" THEN VerifyFetches ELSE PointFetches(r.kind, r.at)

-----------------------------------------------------------------------------
(* Answers, from the tiles a request holds, in quarters of a coefficient.  *)

Usable(field, corner, tile) ==
  /\ ~Entries(tile[1])[tile[2] + 1].empty
  /\ Masks[tile[1]][tile[2]][field][corner.k]
Share(field, corner, tile) == corner.weight * Coefficients[tile[1]][tile[2]][field][corner.k]

InterpolatedFrom(field, corners) ==
  IF corners = << >> \/ \E i \in DOMAIN corners : ~Usable(field, corners[i], got[corners[i].tile])
  THEN Missing
  ELSE <<SumFunction([i \in DOMAIN corners |-> Share(field, corners[i], got[corners[i].tile])])>>
Interpolated(c, field, at) == InterpolatedFrom(field, ReaderCorners(c, field, at))

(* PredictTpxoCache: a point without both components is masked. *)
Both(u, v) == IF u = Missing \/ v = Missing THEN Missing ELSE u \o v
TideAt(at) == Both(Interpolated(Tide, 1, at), Interpolated(Tide, 2, at))

(* Evaluate: at a time the residual is a sum over half its fields, of the  *)
(* two months around it or of five terms of the year, in units that divide *)
(* the tide evenly.  The other half is that of v.                          *)
Harmonic == package \in HarmonicFiles
Monthly(month) ==
  [half |-> 12, unit |-> month.span,
   of |-> [f \in {month.first, month.second} |->
             IF f = month.first THEN month.span - month.done ELSE month.done]]
Terms(elapsed) == [half |-> 5, unit |-> WaveUnit, of |-> [f \in 0 .. 4 |-> Wave(elapsed, f)]]
Seasons ==
  [harmonic \in BOOLEAN |-> [i \in DOMAIN Times |->
     IF harmonic THEN Terms(YearPhase(Times[i]))
     ELSE Monthly(MonthCentreInterpolation(Times[i]))]]

Seasonal(at, season, from) ==
  SumFunction([f \in DOMAIN season.of |-> season.of[f] * Interpolated(Residual, from + f, at)[1]])

(* The sum of Predict: both or neither. *)
Total(at, tide, season) ==
  IF tide = Missing \/ Interpolated(Residual, 0, at) = Missing THEN Missing
  ELSE <<tide[1] * season.unit + Seasonal(at, season, 0),
         tide[2] * season.unit + Seasonal(at, season, season.half)>>
SeasonalSeries(at, tide) == [i \in DOMAIN Times |-> Total(at, tide, Seasons[Harmonic][i])]

(* The support class is that of the heaviest corner, the first of equals.  *)
Heaviest(corners) ==
  corners[CHOOSE i \in 1 .. 4 :
            \A j \in 1 .. 4 : \/ corners[i].weight > corners[j].weight
                              \/ corners[i].weight = corners[j].weight /\ i <= j]
ClassOf(corner, tile) == SupportClasses[tile[2]][corner.k]
WithClass(means, corner) ==
  IF means[1] = Missing THEN Missing
  ELSE <<means[1][1], means[2][1], means[3][1], ClassOf(corner, got[corner.tile])>>
QualityAt(at) ==
  WithClass([f \in 1 .. 3 |-> Interpolated(Quality, f - 1, at)],
            Heaviest(ReaderCorners(Quality, 0, at)))

AboveReference(sum) == IF sum = Missing THEN Missing ELSE <<4 * ReferenceLevel + sum[1]>>
HeightAt(at) == AboveReference(Interpolated(Height, 0, at))

Answer(r) ==
  CASE r.kind = "tide"     -> TideAt(r.at)
    [] r.kind = "seasonal" -> SeasonalSeries(r.at, TideAt(r.at))
    [] r.kind = "height"   -> HeightAt(r.at)
    [] r.kind = "quality"  -> QualityAt(r.at)
    [] r.kind = "verify"   -> << >>

(* TideHeightQualityGrid::Validate refuses a negative deviation or         *)
(* distance and a support class above four: the tiles may hold either.     *)
Valid(r, value) ==
  r.kind = "quality" /\ value # Missing =>
    (\A f \in 1 .. 3 : value[f] >= 0) /\ value[4] <= 4

-----------------------------------------------------------------------------
(* Actions. *)

Init ==
  /\ package \in DOMAIN Files
  /\ damage \in Damage(package)
  /\ options \in OptionSets
  /\ phase = "closed"
  /\ cache = [c \in Types |-> EmptyCache]
  /\ request = NoRequest
  /\ todo = << >>
  /\ got = << >>
  /\ reply = NoReply
  /\ verified = FALSE

(* The constructors: everything they check of a file. *)
Accepts(f) ==
  IF f.version = 1 THEN ParsePackage(f.tide, f.size)
  ELSE /\ ParseOuterHeader(f.outer, f.size)
       /\ ParseDirectory(f.dir, f.outer)
       /\ {Tide, Height} \cap Listed(f) # {}
       /\ \A i \in DOMAIN f.dir :
            IF Nested(f.dir[i]) THEN ParsePackage(f.tide, f.dir[i].nestedLen)
            ELSE ParseTileIndex(f.dir[i])
Acceptable == [name \in DOMAIN Files |-> Accepts(Files[name])]

(* What is not what it should be in any one component refuses the package. *)
Opens ==
  /\ Acceptable[package]
  /\ damage # <<"public">>
  /\ \A c \in Present : ~MetadataDamaged(c)

Open ==
  /\ phase = "closed"
  /\ phase' = IF Opens THEN "open" ELSE "refused"
  /\ UNCHANGED <<given, cache, request, todo, got, reply, verified>>

Idle == phase = "open" /\ request = NoRequest

(* What a request needs the package to hold. *)
Needs(kind) ==
  CASE kind = "tide"     -> {Tide}
    [] kind = "seasonal" -> {Tide, Residual}
    [] kind = "height"   -> {Height}
    [] kind = "quality"  -> {Quality}
    [] kind = "verify"   -> {}

Reply(r, outcome, value) == reply' = [to |-> r, outcome |-> outcome, value |-> value]

(* Without the tide the call is refused at once; without the residual,     *)
(* after the tide has been predicted, and the tiles stay in the cache.     *)
Refused(r) == (Needs(r.kind) \ {Residual}) \ Present # {}

(* Mutant: the stored hashes are not compared. *)
HashesIgnored == file.version \in {1, 2}

(* HashRange over the ranges of the directory: v2 only. *)
HashesMatch ==
  file.version = 2 =>
    \A c \in Present :
      ~GridDamaged(c) /\ ~MetadataDamaged(c) /\ \A id \in TileIds(Grid[c]) : ~Damaged(c, id)

(* Mutant: every request compares the hashes of the whole package. *)
AskOfIntact(r) ==
  /\ Idle
  /\ IF Refused(r) \/ ~HashesMatch
     THEN /\ Reply(r, IF Refused(r) THEN "unavailable" ELSE "failed", Missing)
          /\ UNCHANGED <<request, todo, got>>
     ELSE /\ request' = r
          /\ todo' = IF Needs(r.kind) \subseteq Present THEN Fetches(r)
                     ELSE PointFetches("tide", r.at)
          /\ got' = << >>
          /\ reply' = NoReply
  /\ UNCHANGED <<given, phase, cache, verified>>

Ask(r) ==
  /\ Idle
  /\ IF Refused(r) \/ (r.kind = "verify" /\ ~HashesMatch)
     THEN /\ Reply(r, IF Refused(r) THEN "unavailable" ELSE "failed", Missing)
          /\ UNCHANGED <<request, todo, got>>
     ELSE /\ request' = r
          /\ todo' = IF Needs(r.kind) \subseteq Present THEN Fetches(r)
                     ELSE PointFetches("tide", r.at)
          /\ got' = << >>
          /\ reply' = NoReply
  /\ UNCHANGED <<given, phase, cache, verified>>

(* A tile that does not authenticate ends the request; whatever it had     *)
(* loaded before stays in the caches.                                      *)
FetchTile ==
  /\ todo # << >>
  /\ LET c  == todo[1][1]
         id == todo[1][2]
     IN  IF ~Hit(c, id) /\ Damaged(c, id)
         THEN /\ Reply(request, "failed", Missing)
              /\ request' = NoRequest
              /\ todo' = << >>
              /\ got' = << >>
              /\ UNCHANGED cache
         ELSE /\ cache' = AfterFetch(c, id)
              /\ got' = [t \in DOMAIN got \cup {<<c, id>>} |->
                           IF t = <<c, id>> THEN Fetched(c, id) ELSE got[t]]
              /\ todo' = Tail(todo)
              /\ UNCHANGED <<request, reply>>
  /\ UNCHANGED <<given, phase, verified>>

Conclude(r, available, value) ==
  Reply(r, IF ~available THEN "unavailable"
           ELSE IF Valid(r, value) THEN "answered" ELSE "failed", value)

Finish ==
  /\ request # NoRequest
  /\ todo = << >>
  /\ LET available == Needs(request.kind) \subseteq Present
     IN  Conclude(request, available, IF available THEN Answer(request) ELSE Missing)
  /\ verified' = (verified \/ request.kind = "verify")
  /\ request' = NoRequest
  /\ got' = << >>
  /\ UNCHANGED <<given, phase, cache, todo>>

(* ClearTileCaches. *)
Clear ==
  /\ Idle
  /\ cache' = [c \in Types |-> EmptyCache]
  /\ UNCHANGED <<given, phase, request, todo, got, reply, verified>>

Next == Open \/ (\E r \in Requests : Ask(r)) \/ FetchTile \/ Finish \/ Clear

Spec == Init /\ [][Next]_vars

-----------------------------------------------------------------------------
(* Properties. *)

(* Types of the reader's state. *)
TypeOK ==
  /\ phase \in {"closed", "open", "refused"}
  /\ request \in Requests \cup {NoRequest}
  /\ \A i \in DOMAIN todo : todo[i][1] \in Present /\ todo[i][2] \in TileIds(Grid[todo[i][1]])
  /\ reply.outcome \in {"none", "answered", "failed", "unavailable"}
  /\ verified \in BOOLEAN

(* The two halves of a cache agree: the list has each cached tile once and *)
(* nothing else, so that eviction always finds what it evicts, and what is *)
(* cached under a number is the good tile of that number and component.    *)
(* The running total is what the cached tiles really take, and neither it  *)
(* nor the number of tiles ever exceeds what was configured, with tiles    *)
(* that do not fit at all and a cache that is turned off.                  *)
CacheCoherent ==
  \A c \in Types :
    /\ {cache[c].lru[i] : i \in DOMAIN cache[c].lru} = DOMAIN cache[c].tiles
    /\ \A i, j \in DOMAIN cache[c].lru : cache[c].lru[i] = cache[c].lru[j] => i = j
    /\ \A id \in DOMAIN cache[c].tiles : cache[c].tiles[id] = <<c, id>> /\ ~Damaged(c, id)
    /\ Len(cache[c].lru) <= options.capacity
    /\ cache[c].bytes = SumFunction([i \in DOMAIN cache[c].lru |-> TileBytes[c][cache[c].lru[i]]])
    /\ cache[c].bytes <= options.bytes

(* No two regions of a package that was accepted share a byte, and none    *)
(* reaches beyond the file: a reader never takes one thing for another.    *)
RangesApart(f) ==
  LET ranges == ReadRanges(f)
  IN  \A r \in ranges : /\ End(r[2], r[3]) <= f.size
                        /\ \A s \in ranges : r # s => Disjoint(r, s)
Apart == [name \in {n \in DOMAIN Files : Acceptable[n]} |-> RangesApart(Files[name])]
RangesDisjoint == [][phase' = "open" => Apart[package]]_phase

(* A verification succeeds only on a file nothing has happened to: it sees *)
(* every tile of every component, and the metadata no tile covers.         *)
VerifiedIsIntact == verified => damage = << >>

-----------------------------------------------------------------------------
(* What a prediction promises, told without tiles, caches or brackets: a   *)
(* node counts with the product of how near it is on the two axes.         *)

DistanceX(c, field, at, x) ==
  LET p == (at[1] - Origin(c, field)[1]) % Circle
      d == IF p >= 2 * x THEN p - 2 * x ELSE 2 * x - p
  IN  IF 2 * Grid[c].nx = Circle THEN Less(d, Circle - d) ELSE d
DistanceY(c, field, at, y) ==
  LET p == at[2] - Origin(c, field)[2]
  IN  IF p >= 2 * y THEN p - 2 * y ELSE 2 * y - p

Nodes(c) == (0 .. Grid[c].nx - 1) \X (0 .. Grid[c].ny - 1)
NodesNear(c, field, at, halves) ==
  {n \in Nodes(c) : /\ DistanceX(c, field, at, n[1]) <= halves
                    /\ DistanceY(c, field, at, n[2]) <= halves}

Inside(c, field, at) ==
  /\ at[2] - Origin(c, field)[2] \in 0 .. 2 * (Grid[c].ny - 1)
  /\ \/ 2 * Grid[c].nx = Circle
     \/ (at[1] - Origin(c, field)[1]) % Circle <= 2 * (Grid[c].nx - 1)

MeanFrom(c, field, at) ==
  LET near == NodesNear(c, field, at, 1)
  IN  SumFunction([n \in near |-> (2 - DistanceX(c, field, at, n[1]))
                                  * (2 - DistanceY(c, field, at, n[2]))
                                  * Authored(c, field, n[1], n[2])])

(* A component has a value at a point when the point is inside its grid    *)
(* and no node it is made of is masked.  The tide also looks at the next   *)
(* node of a point that lies on one, and may be missing for it.            *)
KnownAt(c, field, at) ==
  Inside(c, field, at) /\ \A n \in NodesNear(c, field, at, 1) : ValidCell(c, field, n[1], n[2])
DoubtfulAt(c, field, at) ==
  \/ ~Inside(c, field, at)
  \/ \E n \in NodesNear(c, field, at, IF c = Tide THEN 2 ELSE 1) : ~ValidCell(c, field, n[1], n[2])

Promises ==
  [c \in Types |-> [field \in Fields |-> [at \in Points |->
     [mean |-> MeanFrom(c, field, at), known |-> KnownAt(c, field, at),
      doubtful |-> DoubtfulAt(c, field, at)]]]]
Mean(c, field, at)     == Promises[c][field][at].mean
Known(c, field, at)    == Promises[c][field][at].known
Doubtful(c, field, at) == Promises[c][field][at].doubtful

(* The month centres on either side of a time, found in the calendar. *)
Centre(ym) == MonthStart(ym[1], ym[2]) + Days(ym[1], ym[2])
NextMonth(ym) == IF ym[2] = 12 THEN <<ym[1] + 1, 1>> ELSE <<ym[1], ym[2] + 1>>
CalendarMonths ==
  [i \in DOMAIN Times |->
     LET ym == CHOOSE ym \in (FirstYear .. FirstYear + 3) \X (1 .. 12) :
                 Centre(ym) <= Times[i] /\ Times[i] < Centre(NextMonth(ym))
     IN  [first |-> ym[2] - 1, second |-> NextMonth(ym)[2] - 1,
          done |-> Times[i] - Centre(ym), span |-> Centre(NextMonth(ym)) - Centre(ym)]]
MonthsMean(at, m, tide, from) ==
  m.span * Mean(Tide, tide, at) + (m.span - m.done) * Mean(Residual, from + m.first, at)
  + m.done * Mean(Residual, from + m.second, at)

(* How far a time is into the calendar year it is in, and its five terms.  *)
CalendarPhases ==
  [i \in DOMAIN Times |->
     LET year == CHOOSE y \in FirstYear .. FirstYear + 3 :
                   MonthStart(y, 1) <= Times[i] /\ Times[i] < MonthStart(y + 1, 1)
     IN  [done |-> Times[i] - MonthStart(year, 1),
          span |-> MonthStart(year + 1, 1) - MonthStart(year, 1)]]
TermsMean(at, elapsed, tide, from) ==
  WaveUnit * Mean(Tide, tide, at)
  + Wave(elapsed, 0) * Mean(Residual, from, at)
  + Wave(elapsed, 1) * Mean(Residual, from + 1, at) + Wave(elapsed, 2) * Mean(Residual, from + 2, at)
  + Wave(elapsed, 3) * Mean(Residual, from + 3, at) + Wave(elapsed, 4) * Mean(Residual, from + 4, at)

SeasonalMean(at, i) ==
  IF Harmonic
  THEN <<TermsMean(at, CalendarPhases[i], 1, 0), TermsMean(at, CalendarPhases[i], 2, 5)>>
  ELSE <<MonthsMean(at, CalendarMonths[i], 1, 0), MonthsMean(at, CalendarMonths[i], 2, 12)>>

NearSupport ==
  [at \in Points |-> {Support(n[1], n[2]) : n \in NodesNear(Quality, 0, at, 1)}]

TideKnown(at)    == Known(Tide, 1, at) /\ Known(Tide, 2, at)
TideDoubtful(at) == Doubtful(Tide, 1, at) \/ Doubtful(Tide, 2, at)

Promised(r, value) ==
  CASE r.kind = "tide" ->
         IF value = Missing THEN TideDoubtful(r.at)
         ELSE TideKnown(r.at) /\ value = <<Mean(Tide, 1, r.at), Mean(Tide, 2, r.at)>>
    [] r.kind = "seasonal" ->
         \A i \in DOMAIN Times :
           IF value[i] = Missing THEN TideDoubtful(r.at) \/ Doubtful(Residual, 0, r.at)
           ELSE /\ TideKnown(r.at) /\ Known(Residual, 0, r.at)
                /\ value[i] = SeasonalMean(r.at, i)
    [] r.kind = "height" ->
         IF value = Missing THEN Doubtful(Height, 0, r.at)
         ELSE Known(Height, 0, r.at) /\ value = <<4 * ReferenceLevel + Mean(Height, 0, r.at)>>
    [] r.kind = "quality" ->
         IF value = Missing THEN Doubtful(Quality, 0, r.at)
         ELSE /\ Known(Quality, 0, r.at)
              /\ \A f \in 1 .. 3 : value[f] = Mean(Quality, f - 1, r.at)
              /\ value[4] \in NearSupport[r.at]
    [] OTHER -> TRUE

(* An answer is the author's field at the point, whatever the caches have  *)
(* been through: the tiling, the coding of the tiles, the staggered grids, *)
(* the seam of a global grid and the masks all cancel out.  The metadata   *)
(* of a v2 component is not authenticated, so harm to it can move the      *)
(* answers of that component until a verification finds it.                *)
AnswersAreAuthored ==
  [][reply'.outcome = "answered" /\ (\A c \in Needs(reply'.to.kind) : ~GridDamaged(c)) =>
       Promised(reply'.to, reply'.value)]_reply

(* What an author wrote of a water level that no reader will hand out.     *)
UnsoundNear(at) ==
  \E n \in NodesNear(Quality, 0, at, 1) :
    Support(n[1], n[2]) > 4 \/ \E f \in 0 .. 2 : Authored(Quality, f, n[1], n[2]) < 0

(* Once a package is open, only harm to a component a request reads, or an *)
(* author's own values around its point, makes it fail: "corrupt residual  *)
(* does not prevent explicit tide-only use" (tests/xtd_tests.cpp:654).     *)
(* What this cannot say is that harm stays in its component before: a      *)
(* package with metadata or an index that no longer reads does not open.   *)
DamageIsContained ==
  reply.outcome = "failed" =>
    \/ reply.to.kind = "verify" /\ damage # << >>
    \/ \E c \in Needs(reply.to.kind) : \E id \in TileIds(Grid[c]) : Damaged(c, id)
    \/ reply.to.kind = "quality" /\ (GridDamaged(Quality) \/ UnsoundNear(reply.to.at))
=============================================================================
