---------------------------- MODULE MCXtdPackage ----------------------------
(* A global tide of 3 x 3 cells and four small regional components.        *)
EXTENDS XtdPackage, TLC

MCGrid == <<
  [nx |-> 3, ny |-> 3, tw |-> 2, th |-> 2, lon0 |-> 0, lonV |-> 1, lat0 |-> 1, latU |-> 0],
  [nx |-> 2, ny |-> 2, tw |-> 1, th |-> 2, lon0 |-> 5, lat0 |-> 1],
  [nx |-> 2, ny |-> 2, tw |-> 2, th |-> 1, lon0 |-> 0, lat0 |-> 0],
  [nx |-> 3, ny |-> 2, tw |-> 2, th |-> 2, lon0 |-> 0, lat0 |-> 0],
  [nx |-> 2, ny |-> 2, tw |-> 2, th |-> 2, lon0 |-> 0, lat0 |-> 0]>>

(* The quality of the water level has one negative distance. *)
MCAuthored(c, field, x, y) ==
  IF c = Quality THEN IF field = 2 /\ <<x, y>> = <<1, 0>> THEN -8 ELSE x + 2 * y + (field % 3)
  ELSE Signed(5 * x + 3 * y * y + 7 * field + c * x * y + c)
MCValidCell(c, field, x, y) ==
  CASE c = Tide -> <<x, y>> # <<2, 2>> /\ ~(field = 2 /\ x = 1 /\ y = 2)
    [] c = Residual -> <<x, y>> # <<1, 1>>
    [] c = Uncertainty -> y = 0
    [] c = Height -> x # 2
    [] OTHER -> TRUE
MCSupport(x, y) == IF x = 1 /\ y = 1 THEN 5 ELSE 4 - x - 2 * y

(* The tiles without a valid cell have no payload, and take less memory.  *)
EmptyTiles == << <<FALSE, FALSE, FALSE, TRUE>>, <<FALSE, FALSE>>, <<FALSE, TRUE>>,
                 <<FALSE, TRUE>>, <<FALSE>> >>
ASSUME EmptyTilesAssumption ==
  \A c \in Types, i \in 1 .. 4 :
    i \in DOMAIN EmptyTiles[c] =>
      (EmptyTiles[c][i] <=> \A k \in Cells(Grid[c], i - 1), field \in 0 .. 2 :
         field \in (IF c = Tide THEN 1 .. 2 ELSE {0}) =>
           ~MCValidCell(c, field, CellAt(Grid[c], i - 1, k)[1], CellAt(Grid[c], i - 1, k)[2]))
MCTileBytes == << (0 :> 5 @@ 1 :> 3 @@ 2 :> 3 @@ 3 :> 1), (0 :> 3 @@ 1 :> 3),
                  (0 :> 3 @@ 1 :> 1), (0 :> 5 @@ 1 :> 1), (0 :> 5) >>

(* Packages as written (the first is a v1 file, the last two are not in    *)
(* the order a directory must have), and ones with one number that is not  *)
(* what it was: a file is named << written, part, place, number >>.        *)
Contents == << <<1>>, <<1, 2, 3>>, <<4, 5>>, <<1, 2>>, <<2, 3>>, <<1>>, <<2, 1>>, <<4, 4>> >>
Written == [w \in 1 .. 8 |-> IF w = 1 THEN WrittenV1(EmptyTiles[Tide])
                             ELSE WrittenV2(Contents[w], EmptyTiles)]

Off(w, part, place, was) == {<<w, part, place, n>> : n \in {was - 1, was + 1, Word} \cap Nat}
RowTweaks(w, i, row) ==
  Off(w, "nested at", i, row.nestedAt) \cup Off(w, "nested length", i, row.nestedLen)
  \cup Off(w, "row at", i, row.metaAt) \cup Off(w, "row length", i, row.payloadLen)
  \cup Off(w, "row tiles", i, row.tiles)
  \cup UNION {Off(w, "row entry", 10 * i + j, row.entries[j].at) : j \in DOMAIN row.entries}
Tweaks(w, f) ==
  Off(w, "size", 0, f.size) \cup Off(w, "length", 0, f.tide.length)
  \cup Off(w, "index", 0, f.tide.indexAt) \cup Off(w, "payload", 0, f.tide.payloadAt)
  \cup UNION {Off(w, "tide entry", j, f.tide.entries[j].at) \cup Off(w, "tide id", j, j - 1)
              : j \in DOMAIN f.tide.entries}
  \cup UNION {RowTweaks(w, i, f.dir[i]) : i \in DOMAIN f.dir}
Names == {<<w, "whole", 0, 0>> : w \in 1 .. 8} \cup UNION {Tweaks(w, Written[w]) : w \in 1 .. 4}

Tweaked(f, part, i, n) ==
  CASE part = "whole"      -> f
    [] part = "size"       -> [f EXCEPT !.size = n]
    [] part = "length"     -> [f EXCEPT !.tide.length = n, !.size = @ + 1]
    [] part = "index"      -> [f EXCEPT !.tide.indexAt = n]
    [] part = "payload"    -> [f EXCEPT !.tide.payloadAt = n]
    [] part = "tide entry" -> [f EXCEPT !.tide.entries[i].at = n]
    [] part = "tide id"    -> [f EXCEPT !.tide.entries[i].id = n]
    [] part = "nested at"  -> [f EXCEPT !.dir[i].nestedAt = n]
    [] part = "nested length" -> [f EXCEPT !.dir[i].nestedLen = n]
    [] part = "row at"     -> [f EXCEPT !.dir[i].metaAt = n]
    [] part = "row length" -> [f EXCEPT !.dir[i].payloadLen = n]
    [] part = "row tiles"  -> [f EXCEPT !.dir[i].tiles = n]
    [] part = "row entry"  -> [f EXCEPT !.dir[i \div 10].entries[i % 10].at = n]
MCFiles == [name \in Names |-> Tweaked(Written[name[1]], name[2], name[3], name[4])]

HarmedTiles == {<<Tide, 2>>, <<Residual, 0>>, <<Uncertainty, 0>>, <<Height, 0>>, <<Quality, 0>>}
Harm(types) ==
  {<< >>, <<"public">>} \cup {<<"grid", c>> : c \in types \cap {Residual, Quality}}
  \cup {<<"tile", t[1], t[2]>> : t \in {h \in HarmedTiles : h[1] \in types}}
MCDamage(name) ==
  LET types == {Contents[name[1]][i] : i \in DOMAIN Contents[name[1]]}
  IN  IF name[1] > 3 \/ name[2] # "whole" THEN {<< >>}
      ELSE Harm(types) \cup {<<"metadata", c>> : c \in IF name[1] = 1 THEN {} ELSE types}

(* No cache; one a full tile does not fit in; one either limit may bind. *)
MCOptionSets == {[capacity |-> 0, bytes |-> 20], [capacity |-> 3, bytes |-> 4],
                 [capacity |-> 2, bytes |-> 7], [capacity |-> 1, bytes |-> 20]}

MCRequests ==
  {[kind |-> "tide", at |-> at] : at \in {<<1, 1>>, <<0, 1>>, <<4, 3>>, <<5, 2>>, <<2, 5>>}}
  \cup {[kind |-> "seasonal", at |-> at] : at \in {<<0, 1>>, <<5, 2>>, <<0, 2>>}}
  \cup {[kind |-> "height", at |-> at] : at \in {<<1, 1>>, <<2, 0>>, <<3, 1>>}}
  \cup {[kind |-> "quality", at |-> at] : at \in {<<0, 1>>, <<1, 0>>, <<2, 2>>}}
  \cup {[kind |-> "verify", at |-> <<0, 0>>]}

(* Half days from 2023: the centre of January 2024, its eve, the first and *)
(* the last moment of that leap year, the centre of November, and the ends *)
(* of February and of November.                                            *)
Year2024 == 2 * 365
MCTimes == <<Year2024 + 31, Year2024 + 30, Year2024, Year2024 + 2 * 366 - 1,
             Year2024 + 2 * 305 + 30, Year2024 + 2 * 60 - 1, Year2024 + 2 * 335 - 1>>

(* The residual of the fourth package follows the year, in quarters of the *)
(* cosines and sines of eighths of it.                                     *)
MCHarmonicFiles == {name \in Names : name[1] = 4}
Cosines == <<4, 3, 0, -3, -4, -3, 0, 3>>
Cosine(eighths) == Cosines[(eighths % 8) + 1]
MCWave(elapsed, term) ==
  LET eighth == (8 * elapsed.done) \div elapsed.span
  IN  CASE term = 0 -> 4
        [] term = 1 -> Cosine(eighth)
        [] term = 2 -> Cosine(eighth - 2)
        [] term = 3 -> Cosine(2 * eighth)
        [] term = 4 -> Cosine(2 * eighth - 2)
=============================================================================
