---------------------------- MODULE PackageLayout ----------------------------
(***************************************************************************)
(* What the readers of XTD packages require of a file before they use it:  *)
(* the v1 header and tile index (src/xtd.cpp), and the v2 outer header,    *)
(* component directory and tile indexes (src/xtd_package.cpp).             *)
(*                                                                         *)
(* A file is the record of the numbers these regions declare.  Lengths are *)
(* scaled: a header or a directory row, and an index row, take one unit.   *)
(*   [version, size, outer, dir, tide]   size is what the file really has  *)
(*   outer   the v2 header                                                 *)
(*   dir     the v2 component directory, a sequence of rows                *)
(*   tide    the v1 package: the whole file, or nested in a v2 file        *)
(***************************************************************************)
EXTENDS TileGrid, Functions

CONSTANTS Grid,          \* the grid of each component
          MaxMetadata,   \* kMaximumMetadataBytes
          MaxComponents, \* kMaxComponents
          Word           \* the largest value of a 64-bit field

(* Component types, in the order the directory must list them. *)
Tide == 1
Residual == 2
Uncertainty == 3
Height == 4
Quality == 5
Types == 1 .. 5

(* Sizes a header or a grid description may give (ParseHeader, ParseGrid). *)
ASSUME GridAssumption ==
  \A c \in Types : /\ Grid[c].nx \in Nat \ {0, 1} /\ Grid[c].ny \in Nat \ {0, 1}
                   /\ Grid[c].tw \in Nat \ {0} /\ Grid[c].th \in Nat \ {0}

HeaderSize == 1
RowSize    == 1
EntrySize  == 1
TagSize    == 1     \* crypto_aead_xchacha20poly1305_ietf_ABYTES

TileCount(c) == Columns(Grid[c]) * Rows(Grid[c])

(* The end of a range, which the code adds with a check for overflow. *)
End(at, len)      == at + len
Fits(at, len, limit) == at + len <= limit

-----------------------------------------------------------------------------
(* What can be read of a file at all: fields are numbers, and an index has *)
(* the rows its count asks for.                                            *)

IndexRow == [id : Nat, empty : BOOLEAN, at : Nat, len : Nat]
TideHeader == [metaAt : Nat, metaLen : Nat, indexAt : Nat, count : Nat, payloadAt : Nat,
               length : Nat, entries : Seq(IndexRow)]
OuterHeader == [metaAt : Nat, metaLen : Nat, dirAt : Nat, dirLen : Nat, payloadAt : Nat,
                length : Nat, count : Nat]
DirectoryRow == [type : Types, nestedAt : Nat, nestedLen : Nat, metaAt : Nat, metaLen : Nat,
                 indexAt : Nat, indexLen : Nat, payloadAt : Nat, payloadLen : Nat,
                 tiles : Nat, entries : Seq(IndexRow)]

Layout(f) ==
  /\ f.version \in {1, 2} /\ f.size \in Nat
  /\ f.tide \in TideHeader /\ f.dir \in Seq(DirectoryRow)
  /\ f.tide.count = TileCount(Tide) => Len(f.tide.entries) = f.tide.count
  /\ \A i \in DOMAIN f.dir :
       f.dir[i].tiles = TileCount(f.dir[i].type) => Len(f.dir[i].entries) = f.dir[i].tiles
  /\ f.version = 2 => f.outer \in OuterHeader /\ f.dir # << >>

-----------------------------------------------------------------------------
(* Tile indexes: row i describes tile i - 1. *)

(* Where the payload of the tiles before row i ends. *)
PayloadEnd(entries, i, from) ==
  LET used == {j \in 1 .. i - 1 : ~entries[j].empty}
  IN  IF used = {} THEN from
      ELSE LET j == CHOOSE j \in used : \A k \in used : k <= j
           IN  End(entries[j].at, entries[j].len)

(* Mutant: a row need not begin after the rows before it end. *)
EntryInBounds(entries, i, from, limit) ==
  LET e == entries[i]
  IN  /\ e.id = i - 1
      /\ IF e.empty
         THEN e.at = 0 /\ e.len = 0
         ELSE e.len >= TagSize /\ e.at >= from /\ Fits(e.at, e.len, limit)

EntryOK(entries, i, from, limit) ==
  LET e == entries[i]
  IN  /\ e.id = i - 1
      /\ IF e.empty
         THEN e.at = 0 /\ e.len = 0
         ELSE /\ e.len >= TagSize
              /\ e.at >= PayloadEnd(entries, i, from)
              /\ Fits(e.at, e.len, limit)

ParseIndex(entries, from, limit) ==
  \A i \in 1 .. Len(entries) : EntryOK(entries, i, from, limit)

(* A v2 index also accounts for every byte of the component's payload. *)
ParseTileIndex(row) ==
  /\ row.tiles = TileCount(row.type)
  /\ ParseIndex(row.entries, row.payloadAt, End(row.payloadAt, row.payloadLen))
  /\ PayloadEnd(row.entries, Len(row.entries) + 1, row.payloadAt)
       = End(row.payloadAt, row.payloadLen)

-----------------------------------------------------------------------------
(* The v1 package: metadata, index and payload in this order; bytes after  *)
(* the last tile are not refused.                                          *)
ParseHeader(t, size) ==
  /\ size >= HeaderSize
  /\ t.count = TileCount(Tide)
  /\ t.length = size
  /\ t.metaAt = HeaderSize
  /\ t.metaLen \in 1 .. MaxMetadata
  /\ t.indexAt = End(t.metaAt, t.metaLen)
  /\ t.payloadAt = End(t.indexAt, t.count * EntrySize)
  /\ t.payloadAt <= t.length

ParsePackage(t, size) ==
  ParseHeader(t, size) /\ ParseIndex(t.entries, t.payloadAt, t.length)

-----------------------------------------------------------------------------
(* The v2 outer header and directory. *)

ParseOuterHeader(h, size) ==
  /\ h.count \in 1 .. MaxComponents
  /\ h.length = size
  /\ h.metaAt = HeaderSize
  /\ h.metaLen \in 1 .. MaxMetadata
  /\ h.dirAt = End(h.metaAt, h.metaLen)
  /\ h.dirLen = h.count * RowSize
  /\ h.payloadAt = End(h.dirAt, h.dirLen)
  /\ h.payloadAt <= h.length

Nested(row) == row.type = Tide
RowFrom(row) == IF Nested(row) THEN row.nestedAt ELSE row.metaAt
RowEnd(row)  == IF Nested(row) THEN End(row.nestedAt, row.nestedLen)
                ELSE End(row.payloadAt, row.payloadLen)

RowOK(row, previous, length) ==
  /\ IF Nested(row)
     THEN row.nestedLen >= HeaderSize
     ELSE /\ row.metaLen \in 1 .. MaxMetadata
          /\ row.tiles > 0
          /\ row.indexLen = row.tiles * EntrySize
          /\ row.indexAt = End(row.metaAt, row.metaLen)
          /\ row.payloadAt = End(row.indexAt, row.indexLen)
  /\ RowFrom(row) >= previous
  /\ IF Nested(row) THEN Fits(row.nestedAt, row.nestedLen, length)
     ELSE Fits(row.payloadAt, row.payloadLen, length)

ParseDirectory(dir, h) ==
  /\ \A i \in 1 .. Len(dir) :
       /\ dir[i].type > (IF i = 1 THEN 0 ELSE dir[i - 1].type)
       /\ RowOK(dir[i], IF i = 1 THEN h.payloadAt ELSE RowEnd(dir[i - 1]), h.length)
  /\ RowEnd(dir[Len(dir)]) = h.length

-----------------------------------------------------------------------------
(* Every range a reader of the file will read, named.                      *)

TileRanges(c, entries, shift) ==
  {<< <<c, "tile", i>>, shift + entries[i].at, entries[i].len >> :
     i \in {j \in 1 .. Len(entries) : ~entries[j].empty}}

PackageRanges(t, shift) ==
  {<< <<Tide, "header", 0>>, shift, HeaderSize >>,
   << <<Tide, "metadata", 0>>, shift + t.metaAt, t.metaLen >>,
   << <<Tide, "index", 0>>, shift + t.indexAt, t.count * EntrySize >>}
  \cup TileRanges(Tide, t.entries, shift)

RowRanges(f, row) ==
  IF Nested(row) THEN PackageRanges(f.tide, row.nestedAt)
  ELSE {<< <<row.type, "metadata", 0>>, row.metaAt, row.metaLen >>,
        << <<row.type, "index", 0>>, row.indexAt, row.indexLen >>}
       \cup TileRanges(row.type, row.entries, 0)

ReadRanges(f) ==
  IF f.version = 1 THEN PackageRanges(f.tide, 0)
  ELSE {<< <<0, "header", 0>>, 0, HeaderSize >>,
        << <<0, "metadata", 0>>, f.outer.metaAt, f.outer.metaLen >>,
        << <<0, "directory", 0>>, f.outer.dirAt, f.outer.dirLen >>}
       \cup UNION {RowRanges(f, f.dir[i]) : i \in DOMAIN f.dir}

Disjoint(r, s) == r[2] + r[3] <= s[2] \/ s[2] + s[3] <= r[2]

-----------------------------------------------------------------------------
(* External: the writer of the packages (tests/xtd_test_support.cpp writes *)
(* them for the tests), one unit of payload for each tile that has cells.  *)

PayloadUnits(empty) == Cardinality({i \in DOMAIN empty : ~empty[i]})

(* The index of a component whose row i is empty when empty[i] is. *)
WrittenIndex(empty, from) ==
  [i \in DOMAIN empty |->
     IF empty[i] THEN [id |-> i - 1, empty |-> TRUE, at |-> 0, len |-> 0]
     ELSE [id |-> i - 1, empty |-> FALSE, len |-> 1,
           at |-> from + Cardinality({j \in 1 .. i - 1 : ~empty[j]})]]

WrittenTide(empty) ==
  [metaAt |-> HeaderSize, metaLen |-> 1, indexAt |-> HeaderSize + 1,
   count |-> Len(empty), payloadAt |-> HeaderSize + 1 + Len(empty),
   length |-> HeaderSize + 1 + Len(empty) + PayloadUnits(empty),
   entries |-> WrittenIndex(empty, HeaderSize + 1 + Len(empty))]

(* The directory row of type c at a place, with the fields of its kind. *)
WrittenRow(c, at, empty) ==
  LET tiled == at + 1 + Len(empty)
      blank == [type |-> c, nestedAt |-> 0, nestedLen |-> 0, metaAt |-> 0, metaLen |-> 0,
                indexAt |-> 0, indexLen |-> 0, payloadAt |-> 0, payloadLen |-> 0,
                tiles |-> 0, entries |-> << >>]
  IN  IF c = Tide
      THEN [blank EXCEPT !.nestedAt = at, !.nestedLen = WrittenTide(empty).length]
      ELSE [blank EXCEPT !.metaAt = at, !.metaLen = 1, !.indexAt = at + 1,
                         !.indexLen = Len(empty), !.payloadAt = tiled,
                         !.payloadLen = PayloadUnits(empty), !.tiles = Len(empty),
                         !.entries = WrittenIndex(empty, tiled)]

(* A v2 file of these component types; empty[c] says which tiles are. *)
WrittenV2(types, empty) ==
  LET length(c) == IF c = Tide THEN WrittenTide(empty[c]).length
                   ELSE 1 + Len(empty[c]) + PayloadUnits(empty[c])
      payload == HeaderSize + 1 + Len(types)
      from(i) == payload + SumFunction([j \in 1 .. i - 1 |-> length(types[j])])
      size == from(Len(types) + 1)
  IN  [version |-> 2, size |-> size, tide |-> WrittenTide(empty[Tide]),
       outer |-> [metaAt |-> HeaderSize, metaLen |-> 1, dirAt |-> HeaderSize + 1,
                  dirLen |-> Len(types), payloadAt |-> payload, length |-> size,
                  count |-> Len(types)],
       dir |-> [i \in 1 .. Len(types) |-> WrittenRow(types[i], from(i), empty[types[i]])]]

WrittenV1(empty) ==
  [version |-> 1, size |-> WrittenTide(empty).length, tide |-> WrittenTide(empty),
   outer |-> << >>, dir |-> << >>]
=============================================================================
