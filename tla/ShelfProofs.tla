---------------------------- MODULE ShelfProofs ----------------------------
(***************************************************************************)
(* The shelf of the dock, for any programs, pins, windows, presses and     *)
(* upsets.                                                                 *)
(*                                                                         *)
(* DockGestures: a press does one thing, to the tile that was pressed, and *)
(* the number of every tile is that of its own pin.                        *)
(*                                                                         *)
(* CatalogRefresh: the row always shows the pins in force. A job and a     *)
(* snapshot carry old pins only under an old generation; a message of the  *)
(* present generation can only be followed by snapshots of the present     *)
(* generation, because the jobs run one at a time.                         *)
(***************************************************************************)
EXTENDS MCCatalogRefresh, FiniteSetTheorems, SequenceTheorems, TLAPS

-----------------------------------------------------------------------------
(* The gestures.                                                           *)

ShelfTiles == [tile : TileNames, pin : Nat]
Distinct(s) == \A i, j \in DOMAIN s : i # j => s[i] # s[j]

\* Where the tiles of a row stand.
Width(p, rest) == IF rest = <<>> THEN Len(p) + 2 ELSE Len(p) + Len(rest) + 3

LEMMA RowShape ==
    ASSUME NEW p \in Seq(Programs), NEW rest \in Seq(Programs)
    PROVE  /\ Row(p, rest) \in Seq(ShelfTiles)
           /\ Len(Row(p, rest)) = Width(p, rest)
           /\ Row(p, rest)[1] = Tile("start") /\ Row(p, rest)[2] = Tile("search")
           /\ \A k \in 1 .. Len(p) : Row(p, rest)[k + 2] = [tile |-> p[k], pin |-> k]
           /\ rest # <<>> => Row(p, rest)[Len(p) + 3] = Tile("divider")
           /\ \A k \in 1 .. Len(rest) : Row(p, rest)[Len(p) + 3 + k] = Tile(rest[k])
<1> DEFINE ofRest == [i \in 1 .. Len(rest) |-> Tile(rest[i])]
<1>1. /\ Fixed \in Seq(ShelfTiles) /\ Len(Fixed) = 2
      /\ Fixed[1] = Tile("start") /\ Fixed[2] = Tile("search")
  BY DEF Fixed, Tile, ShelfTiles, TileNames, Special
<1>2. /\ OfPins(p) \in Seq(ShelfTiles) /\ Len(OfPins(p)) = Len(p)
      /\ \A k \in 1 .. Len(p) : OfPins(p)[k] = [tile |-> p[k], pin |-> k]
  BY DEF OfPins, ShelfTiles, TileNames
<1>3. /\ ofRest \in Seq(ShelfTiles) /\ Len(ofRest) = Len(rest)
      /\ \A k \in 1 .. Len(rest) : ofRest[k] = Tile(rest[k])
  BY DEF Tile, ShelfTiles, TileNames
<1>4. <<Tile("divider")>> \in Seq(ShelfTiles)
  BY DEF Tile, ShelfTiles, TileNames
<1>5. /\ Behind(rest) \in Seq(ShelfTiles)
      /\ Len(Behind(rest)) = IF rest = <<>> THEN 0 ELSE Len(rest) + 1
      /\ rest # <<>> => Behind(rest)[1] = Tile("divider")
      /\ \A k \in 1 .. Len(rest) : Behind(rest)[k + 1] = Tile(rest[k])
  <2> HIDE DEF ofRest
  <2>1. CASE rest = <<>>
    BY <2>1 DEF Behind
  <2>2. CASE rest # <<>>
    <3>1. Behind(rest) = <<Tile("divider")>> \o ofRest
      BY <2>2 DEF Behind, ofRest
    <3> QED  BY <2>2, <3>1, <1>3, <1>4, ConcatProperties
  <2> QED  BY <2>1, <2>2
<1>6. /\ Fixed \o OfPins(p) \in Seq(ShelfTiles) /\ Len(Fixed \o OfPins(p)) = Len(p) + 2
      /\ (Fixed \o OfPins(p))[1] = Tile("start") /\ (Fixed \o OfPins(p))[2] = Tile("search")
      /\ \A k \in 1 .. Len(p) : (Fixed \o OfPins(p))[k + 2] = [tile |-> p[k], pin |-> k]
  <2> DEFINE f == Fixed \o OfPins(p)
  <2>1. /\ f \in Seq(ShelfTiles) /\ Len(f) = Len(Fixed) + Len(OfPins(p))
        /\ \A i \in 1 .. Len(Fixed) + Len(OfPins(p)) :
              f[i] = IF i <= Len(Fixed) THEN Fixed[i] ELSE OfPins(p)[i - Len(Fixed)]
    <3>1. Fixed \in Seq(ShelfTiles) /\ OfPins(p) \in Seq(ShelfTiles)
      BY <1>1, <1>2
    <3> QED  BY <3>1, ConcatProperties
  <2>2. Len(p) \in Nat
    OBVIOUS
  <2> HIDE DEF f
  <2>3. Len(f) = Len(p) + 2 /\ f[1] = Tile("start") /\ f[2] = Tile("search")
    BY <1>1, <1>2, <2>1, <2>2
  <2>4. ASSUME NEW k \in 1 .. Len(p) PROVE f[k + 2] = OfPins(p)[k]
    BY <1>1, <1>2, <2>1, <2>2
  <2> QED  BY <1>2, <2>1, <2>3, <2>4 DEF f
<1> DEFINE head == Fixed \o OfPins(p)
           tail == Behind(rest)
<1>7. head \o tail \in Seq(ShelfTiles)
      /\ Len(head \o tail) = Len(head) + Len(tail)
      /\ \A i \in 1 .. Len(head) + Len(tail) :
            (head \o tail)[i] = IF i <= Len(head) THEN head[i] ELSE tail[i - Len(head)]
  BY ZenonT(60), <1>5, <1>6, ConcatProperties
<1>8. Row(p, rest) = head \o tail
  BY DEF Row
<1>9. Len(p) \in Nat /\ Len(rest) \in Nat /\ (rest = <<>> <=> Len(rest) = 0)
  OBVIOUS
<1> HIDE DEF head, tail
<1>10. /\ Len(head) = Len(p) + 2
       /\ Len(tail) = IF rest = <<>> THEN 0 ELSE Len(rest) + 1
       /\ head[1] = Tile("start") /\ head[2] = Tile("search")
       /\ \A k \in 1 .. Len(p) : head[k + 2] = [tile |-> p[k], pin |-> k]
       /\ rest # <<>> => tail[1] = Tile("divider")
       /\ \A k \in 1 .. Len(rest) : tail[k + 1] = Tile(rest[k])
  BY <1>5, <1>6 DEF head, tail
<1>11. Len(Row(p, rest)) = Width(p, rest)
  <2>1. CASE rest = <<>>
    BY <2>1, <1>7, <1>8, <1>9, <1>10 DEF Width
  <2>2. CASE rest # <<>>
    BY <2>2, <1>7, <1>8, <1>9, <1>10 DEF Width
  <2> QED  BY <2>1, <2>2
<1>12. \A i \in 1 .. Len(head) : Row(p, rest)[i] = head[i]
  BY <1>7, <1>8, <1>9, <1>10
<1>13. \A i \in 1 .. Len(tail) : Row(p, rest)[Len(p) + 2 + i] = tail[i]
  BY <1>7, <1>8, <1>9, <1>10
<1>14. rest # <<>> => Row(p, rest)[Len(p) + 3] = Tile("divider")
  BY <1>9, <1>10, <1>13
<1>15. ASSUME NEW k \in 1 .. Len(rest)
       PROVE  Row(p, rest)[Len(p) + 3 + k] = Tile(rest[k])
  <2>1. rest # <<>> /\ k + 1 \in 1 .. Len(tail)
    BY <1>9, <1>10
  <2>2. Len(p) + 2 + (k + 1) = Len(p) + 3 + k
    BY <1>9
  <2> QED  BY <2>1, <2>2, <1>10, <1>13
<1>16. ASSUME NEW k \in 1 .. Len(p)
       PROVE  Row(p, rest)[k + 2] = [tile |-> p[k], pin |-> k]
  BY <1>9, <1>10, <1>12
<1> QED  BY <1>7, <1>8, <1>9, <1>10, <1>11, <1>12, <1>14, <1>15, <1>16

\* The tiles of a row, by their place.
LEMMA RowAt ==
    ASSUME NEW p \in Seq(Programs), NEW rest \in Seq(Programs),
           NEW i \in 1 .. Width(p, rest)
    PROVE  /\ i \in DOMAIN Row(p, rest)
           /\ \/ i = 1 /\ Row(p, rest)[i] = Tile("start")
              \/ i = 2 /\ Row(p, rest)[i] = Tile("search")
              \/ i - 2 \in 1 .. Len(p) /\ Row(p, rest)[i] = [tile |-> p[i - 2], pin |-> i - 2]
              \/ i = Len(p) + 3 /\ rest # <<>> /\ Row(p, rest)[i] = Tile("divider")
              \/ /\ i - (Len(p) + 3) \in 1 .. Len(rest) /\ rest # <<>>
                 /\ Row(p, rest)[i] = Tile(rest[i - (Len(p) + 3)])
<1>1. Len(p) \in Nat /\ Len(rest) \in Nat /\ (rest = <<>> <=> Len(rest) = 0)
  OBVIOUS
<1>2. i \in DOMAIN Row(p, rest)
  BY RowShape
<1>3. CASE i \in {1, 2}
  BY <1>2, <1>3, RowShape
<1>4. CASE i - 2 \in 1 .. Len(p)
  <2>1. Row(p, rest)[(i - 2) + 2] = [tile |-> p[i - 2], pin |-> i - 2]
    BY <1>4, RowShape
  <2>2. (i - 2) + 2 = i
    BY <1>1, <1>4
  <2> QED  BY <1>2, <1>4, <2>1, <2>2
<1>5. CASE i > Len(p) + 2
  <2>1. rest # <<>> /\ i <= Len(p) + Len(rest) + 3
    BY <1>1, <1>5 DEF Width
  <2>2. CASE i = Len(p) + 3
    BY <1>2, <2>1, <2>2, RowShape
  <2>3. CASE i > Len(p) + 3
    <3> DEFINE k == i - (Len(p) + 3)
    <3>1. k \in 1 .. Len(rest) /\ Len(p) + 3 + k = i
      BY <1>1, <2>1, <2>3
    <3>2. Row(p, rest)[Len(p) + 3 + k] = Tile(rest[k])
      BY <3>1, RowShape
    <3> QED  BY <1>2, <2>1, <3>1, <3>2
  <2> QED  BY <1>1, <1>5, <2>2, <2>3
<1>6. i \in 1 .. Len(p) + Len(rest) + 3
  BY <1>1 DEF Width
<1> QED  BY <1>1, <1>3, <1>4, <1>5, <1>6

Apart(s, t) == \A i \in DOMAIN s, j \in DOMAIN t : s[i] # t[j]
ShelfRow(r, p, rest) ==
    /\ p \in Seq(Programs) /\ Distinct(p)
    /\ rest \in Seq(Programs) /\ Distinct(rest) /\ Apart(p, rest)
    /\ r = Row(p, rest)

\* The shelf is a row of the pins in force with programs that are not pinned.
ShelfInv == \E rest \in Seq(Programs) : ShelfRow(shelf, pinned, rest)

LEMMA NamesApart ==
    /\ \A t \in Programs : t \notin Special /\ t \notin Tray /\ t # "divider" /\ t # NoTile
    /\ NoTile \notin TileNames /\ "divider" \notin Special /\ "divider" \notin Tray
    /\ "start" # "divider" /\ "search" # "divider" /\ "start" # "search"
BY GesturesAreBounded DEF Special, Tray, TileNames

\* The pinned tiles of a row, and that no two tiles are alike.
LEMMA RowTiles ==
    ASSUME NEW r, NEW p, NEW rest, ShelfRow(r, p, rest)
    PROVE  /\ r \in Seq(ShelfTiles) /\ Len(r) = Width(p, rest) /\ DOMAIN r = 1 .. Width(p, rest)
           /\ \A i \in DOMAIN r : r[i].pin > 0 <=> i \in 3 .. Len(p) + 2
           /\ \A i \in DOMAIN r : r[i].pin > 0 => r[i].pin = i - 2 /\ r[i].tile = p[i - 2]
           /\ \A i \in DOMAIN r : r[i].tile = "divider" <=> i = Len(p) + 3
           /\ \A i, j \in DOMAIN r : i # j => r[i].tile # r[j].tile
           /\ r[1].tile = "start" /\ r[2].tile = "search"
<1>1. /\ p \in Seq(Programs) /\ rest \in Seq(Programs) /\ r = Row(p, rest)
      /\ Distinct(p) /\ Distinct(rest) /\ Apart(p, rest)
  BY DEF ShelfRow
<1>2. Len(p) \in Nat /\ Len(rest) \in Nat /\ (rest = <<>> <=> Len(rest) = 0)
  BY <1>1
<1>3. r \in Seq(ShelfTiles) /\ Len(r) = Width(p, rest) /\ DOMAIN r = 1 .. Width(p, rest)
  BY <1>1, RowShape
<1>4. r[1].tile = "start" /\ r[2].tile = "search"
  BY <1>1, RowShape DEF Tile
<1>5. ASSUME NEW i \in DOMAIN r
      PROVE  \/ i = 1 /\ r[i] = Tile("start")
             \/ i = 2 /\ r[i] = Tile("search")
             \/ i - 2 \in 1 .. Len(p) /\ r[i] = [tile |-> p[i - 2], pin |-> i - 2]
             \/ i = Len(p) + 3 /\ r[i] = Tile("divider")
             \/ i - (Len(p) + 3) \in 1 .. Len(rest) /\ r[i] = Tile(rest[i - (Len(p) + 3)])
  <2>1. i \in 1 .. Width(p, rest)
    BY <1>3
  <2> QED  BY <1>1, <2>1, RowAt
<1>6. \A k \in 1 .. Len(p) : p[k] \in Programs
  BY <1>1
<1>7. \A k \in 1 .. Len(rest) : rest[k] \in Programs
  BY <1>1
<1>8. ASSUME NEW i \in DOMAIN r
      PROVE  /\ r[i].pin > 0 <=> i \in 3 .. Len(p) + 2
             /\ r[i].pin > 0 => r[i].pin = i - 2 /\ r[i].tile = p[i - 2]
             /\ r[i].tile = "divider" <=> i = Len(p) + 3
  <2>1. i \in Nat
    BY <1>3
  <2>2. CASE i \in {1, 2} /\ r[i] \in {Tile("start"), Tile("search")}
    BY <1>2, <2>2, NamesApart DEF Tile
  <2>3. CASE i - 2 \in 1 .. Len(p) /\ r[i] = [tile |-> p[i - 2], pin |-> i - 2]
    BY <1>2, <1>6, <2>1, <2>3, NamesApart
  <2>4. CASE i = Len(p) + 3 /\ r[i] = Tile("divider")
    BY <1>2, <2>1, <2>4 DEF Tile
  <2>5. CASE i - (Len(p) + 3) \in 1 .. Len(rest) /\ r[i] = Tile(rest[i - (Len(p) + 3)])
    BY <1>2, <1>7, <2>1, <2>5, NamesApart DEF Tile
  <2> QED  BY <1>5, <2>2, <2>3, <2>4, <2>5
<1>9. ASSUME NEW i \in DOMAIN r, NEW j \in DOMAIN r, i < j, r[i].tile = r[j].tile
      PROVE  FALSE
  <2>1. i \in Nat /\ j \in Nat
    BY <1>3
  <2>2. \A k \in 1 .. Len(p) : p[k] \notin Special /\ p[k] # "divider"
    BY <1>6, NamesApart
  <2>3. \A k \in 1 .. Len(rest) : rest[k] \notin Special /\ rest[k] # "divider"
    BY <1>7, NamesApart
  <2>4. \A k, l \in 1 .. Len(p) : k # l => p[k] # p[l]
    BY <1>1 DEF Distinct
  <2>5. \A k, l \in 1 .. Len(rest) : k # l => rest[k] # rest[l]
    BY <1>1 DEF Distinct
  <2>6. \A k \in 1 .. Len(p), l \in 1 .. Len(rest) : p[k] # rest[l]
    BY <1>1 DEF Apart
  <2>7. CASE i \in {1, 2} /\ r[i] \in {Tile("start"), Tile("search")}
    <3>1. r[i].tile \in Special
      BY <2>7 DEF Tile, Special
    <3>2. CASE j = 2
      BY <1>4, <1>9, <2>1, <2>7, <3>2
    <3>3. CASE j # 2
      BY <1>5, <1>9, <2>1, <2>2, <2>3, <2>7, <3>1, <3>3, NamesApart DEF Tile, Special
    <3> QED  BY <3>2, <3>3
  <2>8. CASE i - 2 \in 1 .. Len(p) /\ r[i] = [tile |-> p[i - 2], pin |-> i - 2]
    <3>1. i > 2 /\ r[i].tile = p[i - 2]
      BY <1>2, <2>1, <2>8
    <3>2. CASE j - 2 \in 1 .. Len(p) /\ r[j] = [tile |-> p[j - 2], pin |-> j - 2]
      <4>1. r[j].tile = p[j - 2]
        BY <3>2
      <4>2. p[i - 2] = p[j - 2]
        BY <1>9, <3>1, <4>1
      <4>3. i - 2 # j - 2
        BY <1>9, <2>1
      <4> QED  BY <2>4, <2>8, <3>2, <4>2, <4>3
    <3>3. CASE j = Len(p) + 3 /\ r[j] = Tile("divider")
      BY <1>9, <2>2, <2>8, <3>1, <3>3 DEF Tile
    <3>4. CASE j - (Len(p) + 3) \in 1 .. Len(rest) /\ r[j] = Tile(rest[j - (Len(p) + 3)])
      BY <1>9, <2>6, <2>8, <3>1, <3>4 DEF Tile
    <3> QED  BY <1>5, <1>9, <2>1, <3>1, <3>2, <3>3, <3>4
  <2>9. CASE i = Len(p) + 3 /\ r[i] = Tile("divider")
    BY <1>2, <1>5, <1>9, <2>1, <2>3, <2>9 DEF Tile
  <2>10. CASE i - (Len(p) + 3) \in 1 .. Len(rest) /\ r[i] = Tile(rest[i - (Len(p) + 3)])
    <3>1. j - (Len(p) + 3) \in 1 .. Len(rest) /\ r[j] = Tile(rest[j - (Len(p) + 3)])
      BY <1>2, <1>5, <1>9, <2>1, <2>10
    <3>2. rest[i - (Len(p) + 3)] = rest[j - (Len(p) + 3)]
      BY <1>9, <2>10, <3>1 DEF Tile
    <3>3. i - (Len(p) + 3) # j - (Len(p) + 3)
      BY <1>2, <1>9, <2>1
    <3> QED  BY <2>5, <2>10, <3>1, <3>2, <3>3
  <2> QED  BY <1>5, <2>7, <2>8, <2>9, <2>10
<1>10. \A i, j \in DOMAIN r : i # j => r[i].tile # r[j].tile
  <2>1. \A i \in DOMAIN r : i \in Nat
    BY <1>3
  <2> QED  BY <1>9, <2>1
<1> QED  BY <1>3, <1>4, <1>8, <1>10

LEMMA MovableIsEnd ==
    ASSUME NEW rest, ShelfRow(shelf, pinned, rest)
    PROVE  /\ Movable = Len(pinned) + 3 /\ Movable \in 1 .. Len(shelf) + 1
           /\ Movable > Len(shelf) \/ Movable < Len(shelf)
<1> DEFINE end == Len(pinned) + 3
           Q(n) == /\ n = Len(shelf) + 1 \/ shelf[n].tile = "divider"
                   /\ \A i \in 1 .. n - 1 : shelf[i].tile # "divider"
<1>1. Len(pinned) \in Nat /\ Len(rest) \in Nat /\ (rest = <<>> <=> Len(rest) = 0)
  BY DEF ShelfRow
<1>2. /\ Len(shelf) = Width(pinned, rest) /\ DOMAIN shelf = 1 .. Width(pinned, rest)
      /\ \A i \in DOMAIN shelf : shelf[i].tile = "divider" <=> i = end
  BY RowTiles
<1>3. CASE rest = <<>>
  <2>1. Len(shelf) = end - 1 /\ DOMAIN shelf = 1 .. end - 1
    BY <1>1, <1>2, <1>3 DEF Width
  <2>2. end \in 1 .. Len(shelf) + 1 /\ Q(end)
    BY <1>1, <1>2, <2>1
  <2>3. ASSUME NEW n \in 1 .. Len(shelf) + 1, Q(n) PROVE n = end
    BY <1>1, <1>2, <2>1, <2>3
  <2>4. Movable = end
    <3> HIDE DEF end
    <3> QED  BY <2>2, <2>3 DEF Movable
  <2> QED  BY <1>1, <2>1, <2>2, <2>4
<1>4. CASE rest # <<>>
  <2>1. Len(shelf) > end /\ Len(shelf) \in Nat /\ DOMAIN shelf = 1 .. Len(shelf)
    BY <1>1, <1>2, <1>4 DEF Width
  <2>2. end \in 1 .. Len(shelf) + 1 /\ Q(end)
    BY <1>1, <1>2, <2>1
  <2>3. ASSUME NEW n \in 1 .. Len(shelf) + 1, Q(n) PROVE n = end
    BY <1>1, <1>2, <2>1, <2>3
  <2>4. Movable = end
    <3> HIDE DEF end
    <3> QED  BY <2>2, <2>3 DEF Movable
  <2> QED  BY <1>1, <2>1, <2>2, <2>4
<1> QED  BY <1>3, <1>4

LEMMA PinsCarried ==
    ASSUME ShelfInv
    PROVE  TilesCarryTheirPins
<1> PICK rest \in Seq(Programs) : ShelfRow(shelf, pinned, rest)
  BY DEF ShelfInv
<1>1. pinned \in Seq(Programs) /\ Len(pinned) \in Nat /\ DOMAIN pinned = 1 .. Len(pinned)
  BY DEF ShelfRow
<1>2. Movable = Len(pinned) + 3 /\ (Movable > Len(shelf) \/ Movable < Len(shelf))
  BY MovableIsEnd
<1>3. ASSUME NEW i \in DOMAIN shelf, shelf[i].pin > 0
      PROVE  shelf[i].pin \in DOMAIN pinned /\ pinned[shelf[i].pin] = shelf[i].tile
  <2>1. i \in 3 .. Len(pinned) + 2 /\ shelf[i].pin = i - 2 /\ shelf[i].tile = pinned[i - 2]
    BY <1>3, RowTiles
  <2> QED  BY <1>1, <2>1
<1>4. \A i, j \in DOMAIN shelf : i # j => shelf[i].tile # shelf[j].tile
  BY RowTiles
<1>5. ASSUME NEW t \in ToSet(pinned)
      PROVE  t \in {shelf[i].tile : i \in 3 .. Movable - 1}
  <2>1. PICK k \in 1 .. Len(pinned) : t = pinned[k]
    BY <1>1 DEF ToSet
  <2>2. shelf[k + 2] = [tile |-> pinned[k], pin |-> k]
    BY <1>1, RowShape DEF ShelfRow
  <2>3. k + 2 \in 3 .. Movable - 1
    BY <1>1, <1>2
  <2> QED  BY <2>1, <2>2, <2>3
<1> QED  BY <1>2, <1>3, <1>4, <1>5 DEF TilesCarryTheirPins

-----------------------------------------------------------------------------
(* Rows that are made anew: at the start, by a refresh, by a pin or an unpin. *)

LEMMA ListingTyped ==
    ASSUME NEW S \in SUBSET Programs, NEW s \in Listings(S)
    PROVE  /\ s \in Seq(Programs) /\ Distinct(s)
           /\ \A i \in DOMAIN s : s[i] \in S
<1>1. Cardinality(S) \in Nat
  BY GesturesAreBounded, FS_Subset, FS_CardinalityType
<1>2. s \in [1 .. Cardinality(S) -> S] /\ Distinct(s)
  BY DEF Listings, Distinct
<1>3. s \in Seq(S)
  BY <1>1, <1>2
<1> QED  BY <1>2, <1>3

LEMMA LooseTyped ==
    ASSUME NEW p \in Seq(Programs), NEW l \in SUBSET Programs, NEW rest,
           ShelfRow(shelf, pinned, rest), NEW kept \in Loose(p, l)
    PROVE  /\ kept \in Seq(Programs) /\ Distinct(kept)
           /\ \A i \in DOMAIN kept : /\ kept[i] \in l \ ToSet(p)
                                    /\ \E j \in LooseAt(p, l) : kept[i] = shelf[j].tile
<1> DEFINE K == LooseAt(p, l)
<1>1. DOMAIN shelf = 1 .. Len(shelf) /\ Len(shelf) \in Nat
      /\ \A i, j \in DOMAIN shelf : i # j => shelf[i].tile # shelf[j].tile
  BY RowTiles
<1>2. K \subseteq 1 .. Len(shelf) /\ \A j \in K : shelf[j].tile \in l \ ToSet(p)
  BY <1>1 DEF LooseAt
<1>3. IsFiniteSet(1 .. Len(shelf))
  BY <1>1, FS_Interval
<1>4. Cardinality(K) \in Nat
  BY <1>2, <1>3, FS_Subset, FS_CardinalityType
<1> HIDE DEF K
<1>5. PICK f \in Upwards(K) : kept = [i \in DOMAIN f |-> shelf[f[i]].tile]
  BY DEF Loose, K
<1>6. f \in [1 .. Cardinality(K) -> K] /\ \A i, j \in DOMAIN f : i < j => f[i] < f[j]
  BY <1>5 DEF Upwards
<1>7. DOMAIN kept = 1 .. Cardinality(K) /\ \A i \in DOMAIN kept : f[i] \in K /\ kept[i] = shelf[f[i]].tile
  BY <1>5, <1>6
<1>8. kept \in [1 .. Cardinality(K) -> Programs]
  BY <1>2, <1>5, <1>6, <1>7
<1>9. kept \in Seq(Programs)
  BY <1>4, <1>8
<1>10. ASSUME NEW i \in DOMAIN kept, NEW j \in DOMAIN kept, i # j
       PROVE  kept[i] # kept[j]
  <2>1. f[i] \in DOMAIN shelf /\ f[j] \in DOMAIN shelf /\ f[i] \in Nat /\ f[j] \in Nat
    <3>1. f[i] \in K /\ f[j] \in K
      BY <1>7
    <3>2. f[i] \in 1 .. Len(shelf) /\ f[j] \in 1 .. Len(shelf)
      BY <1>2, <3>1
    <3> QED  BY <1>1, <3>2
  <2>2. f[i] # f[j]
    BY <1>4, <1>6, <1>7, <1>10, <2>1
  <2> QED  BY <1>1, <1>7, <2>1, <2>2
<1>11. \A i \in DOMAIN kept : kept[i] \in l \ ToSet(p) /\ \E j \in K : kept[i] = shelf[j].tile
  BY <1>2, <1>7
<1> QED  BY <1>9, <1>10, <1>11 DEF Distinct, K

LEMMA SplicedRow ==
    ASSUME NEW p \in Seq(Programs), Distinct(p), live \in SUBSET Programs, ShelfInv,
           NEW r \in Spliced(p)
    PROVE  \E rest \in Seq(Programs) : ShelfRow(r, p, rest)
<1> PICK old \in Seq(Programs) : ShelfRow(shelf, pinned, old)
  BY DEF ShelfInv
<1>1. PICK kept \in Loose(p, live) : r = Row(p, kept)
  BY DEF Spliced
<1>2. /\ kept \in Seq(Programs) /\ Distinct(kept)
      /\ \A i \in DOMAIN kept : kept[i] \in live \ ToSet(p)
  BY <1>1, LooseTyped
<1>3. Apart(p, kept)
  BY <1>2 DEF Apart, ToSet
<1> QED  BY <1>1, <1>2, <1>3 DEF ShelfRow

LEMMA RebuiltRow ==
    ASSUME NEW l \in SUBSET Programs, ShelfInv, NEW r \in Rebuilt(l)
    PROVE  \E rest \in Seq(Programs) : ShelfRow(r, pinned, rest)
<1> PICK old \in Seq(Programs) : ShelfRow(shelf, pinned, old)
  BY DEF ShelfInv
<1>1. PICK kept \in Loose(pinned, l), opened \in Listings(Opened(l)) : r = Row(pinned, kept \o opened)
  BY DEF Rebuilt
<1>2. pinned \in Seq(Programs) /\ Distinct(pinned)
  BY DEF ShelfRow
<1>3. /\ kept \in Seq(Programs) /\ Distinct(kept)
      /\ \A i \in DOMAIN kept : /\ kept[i] \in l \ ToSet(pinned)
                               /\ \E j \in LooseAt(pinned, l) : kept[i] = shelf[j].tile
  BY <1>1, <1>2, LooseTyped
<1>4. opened \in Seq(Programs) /\ Distinct(opened) /\ \A i \in DOMAIN opened : opened[i] \in Opened(l)
  BY <1>1, ListingTyped DEF Opened
<1> DEFINE rest == kept \o opened
<1>5. /\ rest \in Seq(Programs) /\ Len(rest) = Len(kept) + Len(opened)
      /\ \A i \in 1 .. Len(kept) + Len(opened) :
            rest[i] = IF i <= Len(kept) THEN kept[i] ELSE opened[i - Len(kept)]
  BY <1>3, <1>4, ConcatProperties
<1>6. Len(kept) \in Nat /\ Len(opened) \in Nat /\ DOMAIN kept = 1 .. Len(kept)
      /\ DOMAIN opened = 1 .. Len(opened) /\ DOMAIN rest = 1 .. Len(rest)
  BY <1>3, <1>4, <1>5
<1> HIDE DEF rest
<1>7. \A i \in DOMAIN kept, j \in DOMAIN opened : kept[i] # opened[j]
  BY <1>3, <1>4 DEF Opened
<1>8. ASSUME NEW i \in DOMAIN rest
      PROVE  \/ i \in DOMAIN kept /\ rest[i] = kept[i]
             \/ i > Len(kept) /\ i - Len(kept) \in DOMAIN opened /\ rest[i] = opened[i - Len(kept)]
  BY <1>5, <1>6
<1>9. ASSUME NEW i \in DOMAIN rest, NEW j \in DOMAIN rest, i # j
      PROVE  rest[i] # rest[j]
  <2>1. i \in Nat /\ j \in Nat /\ i - Len(kept) # j - Len(kept)
    BY <1>5, <1>6, <1>9
  <2>2. CASE i \in DOMAIN kept /\ rest[i] = kept[i]
    <3>1. CASE j \in DOMAIN kept /\ rest[j] = kept[j]
      BY <1>3, <1>9, <2>2, <3>1 DEF Distinct
    <3>2. CASE j - Len(kept) \in DOMAIN opened /\ rest[j] = opened[j - Len(kept)]
      BY <1>7, <2>2, <3>2
    <3> QED  BY <1>8, <3>1, <3>2
  <2>3. CASE i - Len(kept) \in DOMAIN opened /\ rest[i] = opened[i - Len(kept)]
    <3>1. CASE j \in DOMAIN kept /\ rest[j] = kept[j]
      BY <1>7, <2>3, <3>1
    <3>2. CASE j - Len(kept) \in DOMAIN opened /\ rest[j] = opened[j - Len(kept)]
      BY <1>4, <2>1, <2>3, <3>2 DEF Distinct
    <3> QED  BY <1>8, <3>1, <3>2
  <2> QED  BY <1>8, <2>2, <2>3
<1>10. \A i \in DOMAIN rest : rest[i] \notin ToSet(pinned)
  BY <1>3, <1>4, <1>8 DEF Opened
<1>11. Apart(pinned, rest)
  BY <1>10 DEF Apart, ToSet
<1> QED  BY <1>1, <1>2, <1>5, <1>9, <1>11 DEF ShelfRow, Distinct, rest

-----------------------------------------------------------------------------
(* A pin that moves.                                                       *)

LEMMA RemoveAtProperties ==
    ASSUME NEW S, NEW s \in Seq(S), NEW i \in 1 .. Len(s)
    PROVE  /\ RemoveAt(s, i) \in Seq(S) /\ Len(RemoveAt(s, i)) = Len(s) - 1
           /\ \A j \in 1 .. Len(s) - 1 : RemoveAt(s, i)[j] = IF j < i THEN s[j] ELSE s[j + 1]
<1> DEFINE a == SubSeq(s, 1, i - 1)
           b == SubSeq(s, i + 1, Len(s))
<1>1. Len(s) \in Nat /\ i \in Nat /\ 1 <= i /\ i <= Len(s)
  OBVIOUS
<1>2. /\ a \in Seq(S) /\ Len(a) = i - 1
      /\ \A j \in 1 .. i - 1 : a[j] = s[j]
  <2>1. \A j \in 1 .. i - 1 : s[j] \in S
    BY <1>1
  <2> QED  BY <1>1, <2>1, SubSeqProperties
<1>3. /\ b \in Seq(S) /\ Len(b) = Len(s) - i
      /\ \A j \in 1 .. Len(s) - i : b[j] = s[i + j]
  <2>1. \A j \in i + 1 .. Len(s) : s[j] \in S
    BY <1>1
  <2> QED  BY <1>1, <2>1, SubSeqProperties
<1>4. RemoveAt(s, i) = a \o b
  BY DEF RemoveAt
<1> HIDE DEF a, b
<1>5. /\ a \o b \in Seq(S) /\ Len(a \o b) = Len(a) + Len(b)
      /\ \A j \in 1 .. Len(a) + Len(b) :
            (a \o b)[j] = IF j <= Len(a) THEN a[j] ELSE b[j - Len(a)]
  BY <1>2, <1>3, ConcatProperties
<1>6. ASSUME NEW j \in 1 .. Len(s) - 1
      PROVE  (a \o b)[j] = IF j < i THEN s[j] ELSE s[j + 1]
  <2>1. CASE j < i
    BY <1>1, <1>2, <1>3, <1>5, <2>1
  <2>2. CASE ~(j < i)
    <3>1. j - (i - 1) \in 1 .. Len(s) - i /\ i + (j - (i - 1)) = j + 1
      BY <1>1, <2>2
    <3>2. (a \o b)[j] = b[j - (i - 1)]
      BY <1>1, <1>2, <1>3, <1>5, <2>2
    <3> QED  BY <1>3, <2>2, <3>1, <3>2
  <2> QED  BY <2>1, <2>2
<1>7. Len(a \o b) = Len(s) - 1
  BY <1>1, <1>2, <1>3, <1>5
<1> QED  BY <1>4, <1>5, <1>6, <1>7

LEMMA InsertAtProperties ==
    ASSUME NEW S, NEW s \in Seq(S), NEW i \in 1 .. Len(s) + 1, NEW e \in S
    PROVE  /\ InsertAt(s, i, e) \in Seq(S) /\ Len(InsertAt(s, i, e)) = Len(s) + 1
           /\ \A j \in 1 .. Len(s) + 1 :
                 InsertAt(s, i, e)[j] = IF j < i THEN s[j] ELSE IF j = i THEN e ELSE s[j - 1]
<1> DEFINE a == SubSeq(s, 1, i - 1)
           b == SubSeq(s, i, Len(s))
           m == a \o <<e>>
<1>1. Len(s) \in Nat /\ i \in Nat /\ 1 <= i /\ i <= Len(s) + 1
  OBVIOUS
<1>2. /\ a \in Seq(S) /\ Len(a) = i - 1
      /\ \A j \in 1 .. i - 1 : a[j] = s[j]
  <2>1. \A j \in 1 .. i - 1 : s[j] \in S
    BY <1>1
  <2> QED  BY <1>1, <2>1, SubSeqProperties
<1>3. /\ b \in Seq(S) /\ Len(b) = Len(s) - i + 1
      /\ \A j \in 1 .. Len(s) - i + 1 : b[j] = s[i + j - 1]
  <2>1. \A j \in i .. Len(s) : s[j] \in S
    BY <1>1
  <2> QED  BY <1>1, <2>1, SubSeqProperties
<1>4. InsertAt(s, i, e) = m \o b
  BY DEF InsertAt
<1> HIDE DEF a, b
<1>5. <<e>> \in Seq(S) /\ Len(<<e>>) = 1 /\ <<e>>[1] = e
  OBVIOUS
<1>6. /\ m \in Seq(S) /\ Len(m) = i
      /\ \A j \in 1 .. i : m[j] = IF j < i THEN s[j] ELSE e
  <2>1. /\ m \in Seq(S) /\ Len(m) = Len(a) + 1
        /\ \A j \in 1 .. Len(a) + 1 : m[j] = IF j <= Len(a) THEN a[j] ELSE <<e>>[j - Len(a)]
    BY <1>2, <1>5, ConcatProperties
  <2> HIDE DEF m
  <2>2. Len(m) = i
    BY <1>1, <1>2, <2>1
  <2>3. ASSUME NEW j \in 1 .. i PROVE m[j] = IF j < i THEN s[j] ELSE e
    <3>1. CASE j < i
      BY <1>1, <1>2, <2>1, <3>1
    <3>2. CASE j = i
      <4>1. j - Len(a) = 1
        BY <1>1, <1>2, <3>2
      <4> QED  BY <1>1, <1>2, <1>5, <2>1, <3>2, <4>1
    <3> QED  BY <1>1, <3>1, <3>2
  <2> QED  BY <2>1, <2>2, <2>3
<1> HIDE DEF m
<1>7. /\ m \o b \in Seq(S) /\ Len(m \o b) = Len(m) + Len(b)
      /\ \A j \in 1 .. Len(m) + Len(b) :
            (m \o b)[j] = IF j <= Len(m) THEN m[j] ELSE b[j - Len(m)]
  BY <1>3, <1>6, ConcatProperties
<1>8. Len(m \o b) = Len(s) + 1
  BY <1>1, <1>3, <1>6, <1>7
<1>9. ASSUME NEW j \in 1 .. Len(s) + 1
      PROVE  (m \o b)[j] = IF j < i THEN s[j] ELSE IF j = i THEN e ELSE s[j - 1]
  <2>1. CASE j <= i
    BY <1>1, <1>3, <1>6, <1>7, <2>1
  <2>2. CASE ~(j <= i)
    <3>1. j - i \in 1 .. Len(s) - i + 1 /\ i + (j - i) - 1 = j - 1
      BY <1>1, <2>2
    <3>2. (m \o b)[j] = b[j - i]
      BY <1>1, <1>3, <1>6, <1>7, <2>2
    <3> QED  BY <1>1, <1>3, <2>2, <3>1, <3>2
  <2> QED  BY <2>1, <2>2
<1> QED  BY <1>4, <1>7, <1>8, <1>9

\* The place in the sequence before the shift of what lies at j after it.
Was(from, to, j) ==
    LET at == IF to > from THEN to - 1 ELSE to
        k == IF j < at THEN j ELSE j - 1
    IN  IF j = at THEN from ELSE IF k < from THEN k ELSE k + 1

LEMMA ShiftedAt ==
    ASSUME NEW S, NEW s \in Seq(S), NEW from \in 1 .. Len(s), NEW to \in 1 .. Len(s) + 1,
           to # from
    PROVE  /\ Shifted(s, from, to) \in Seq(S) /\ Len(Shifted(s, from, to)) = Len(s)
           /\ \A j \in 1 .. Len(s) : Shifted(s, from, to)[j] = s[Was(from, to, j)]
<1> DEFINE at == IF to > from THEN to - 1 ELSE to
           rem == RemoveAt(s, from)
<1>1. Len(s) \in Nat /\ from \in Nat /\ to \in Nat /\ s[from] \in S
  OBVIOUS
<1>2. at \in 1 .. Len(s)
  BY <1>1
<1>3. /\ rem \in Seq(S) /\ Len(rem) = Len(s) - 1
      /\ \A j \in 1 .. Len(s) - 1 : rem[j] = IF j < from THEN s[j] ELSE s[j + 1]
  BY RemoveAtProperties
<1>4. Shifted(s, from, to) = InsertAt(rem, at, s[from])
  BY DEF Shifted
<1>5. \A j : Was(from, to, j) = IF j = at THEN from
                                ELSE IF j < at THEN IF j < from THEN j ELSE j + 1
                                ELSE IF j - 1 < from THEN j - 1 ELSE (j - 1) + 1
  BY DEF Was
<1> HIDE DEF rem, at
<1>6. at \in 1 .. Len(rem) + 1 /\ Len(rem) + 1 = Len(s)
  BY <1>1, <1>2, <1>3
<1>7. /\ InsertAt(rem, at, s[from]) \in Seq(S) /\ Len(InsertAt(rem, at, s[from])) = Len(rem) + 1
      /\ \A j \in 1 .. Len(rem) + 1 : InsertAt(rem, at, s[from])[j] =
            IF j < at THEN rem[j] ELSE IF j = at THEN s[from] ELSE rem[j - 1]
  <2> DEFINE e == s[from]
  <2>1. e \in S
    BY <1>1
  <2> HIDE DEF e
  <2>3. rem \in Seq(S) /\ at \in 1 .. Len(rem) + 1
    BY <1>3, <1>6
  <2>2. /\ InsertAt(rem, at, e) \in Seq(S) /\ Len(InsertAt(rem, at, e)) = Len(rem) + 1
        /\ \A j \in 1 .. Len(rem) + 1 : InsertAt(rem, at, e)[j] =
              IF j < at THEN rem[j] ELSE IF j = at THEN e ELSE rem[j - 1]
    BY <2>1, <2>3, InsertAtProperties, SMTT(20)
  <2> QED  BY <2>2 DEF e
<1>8. ASSUME NEW j \in 1 .. Len(s) PROVE Shifted(s, from, to)[j] = s[Was(from, to, j)]
  <2>1. CASE j < at
    <3>1. j \in 1 .. Len(s) - 1 /\ j # at
      BY <1>1, <1>2, <2>1
    <3> QED  BY <1>3, <1>4, <1>5, <1>6, <1>7, <2>1, <3>1
  <2>2. CASE j = at
    BY <1>2, <1>4, <1>5, <1>6, <1>7, <2>2
  <2>3. CASE j > at
    <3>1. j - 1 \in 1 .. Len(s) - 1 /\ j # at /\ ~(j < at)
      BY <1>1, <1>2, <2>3
    <3> QED  BY <1>3, <1>4, <1>5, <1>6, <1>7, <3>1
  <2> QED  BY <1>2, <2>1, <2>2, <2>3
<1> QED  BY <1>4, <1>6, <1>7, <1>8

LEMMA WasProperties ==
    ASSUME NEW n \in Nat, NEW from \in 1 .. n, NEW to \in 1 .. n + 1, to # from
    PROVE  /\ \A j \in 1 .. n : Was(from, to, j) \in 1 .. n
           /\ \A i, j \in 1 .. n : i # j => Was(from, to, i) # Was(from, to, j)
<1>1. ASSUME NEW j \in 1 .. n PROVE Was(from, to, j) \in 1 .. n
  BY DEF Was
<1>2. ASSUME NEW i \in 1 .. n, NEW j \in 1 .. n, i # j
      PROVE  Was(from, to, i) # Was(from, to, j)
  BY <1>2 DEF Was
<1> QED  BY <1>1, <1>2

LEMMA ShiftedPins ==
    ASSUME NEW p \in Seq(Programs), Distinct(p), NEW rest \in Seq(Programs), Apart(p, rest),
           NEW from \in 1 .. Len(p), NEW to \in 1 .. Len(p) + 1, to # from
    PROVE  /\ Shifted(p, from, to) \in Seq(Programs) /\ Len(Shifted(p, from, to)) = Len(p)
           /\ Distinct(Shifted(p, from, to)) /\ Apart(Shifted(p, from, to), rest)
<1> DEFINE q == Shifted(p, from, to)
<1>1. Len(p) \in Nat /\ DOMAIN p = 1 .. Len(p)
  OBVIOUS
<1>2. q \in Seq(Programs) /\ Len(q) = Len(p) /\ \A j \in 1 .. Len(p) : q[j] = p[Was(from, to, j)]
  BY ShiftedAt
<1>3. /\ \A j \in 1 .. Len(p) : Was(from, to, j) \in 1 .. Len(p)
      /\ \A i, j \in 1 .. Len(p) : i # j => Was(from, to, i) # Was(from, to, j)
  BY <1>1, WasProperties
<1> HIDE DEF q
<1>4. DOMAIN q = 1 .. Len(p)
  BY <1>2
<1>5. Distinct(q)
  BY <1>1, <1>2, <1>3, <1>4 DEF Distinct
<1>6. Apart(q, rest)
  BY <1>1, <1>2, <1>3, <1>4 DEF Apart
<1> QED  BY <1>2, <1>5, <1>6 DEF q

LEMMA PinsCounted ==
    ASSUME NEW r, NEW last \in Nat, NEW k \in Nat, 2 <= k, k <= last,
           \A i \in 1 .. k : r[i].pin > 0 <=> i \in 3 .. last
    PROVE  PinsUpTo(r, k) = k - 2
<1>1. {i \in 1 .. k : r[i].pin > 0} = 3 .. k
  OBVIOUS
<1>2. Cardinality(3 .. k) = k - 2
  <2>1. Cardinality(3 .. k) = IF 3 > k THEN 0 ELSE k - 3 + 1
    BY FS_Interval
  <2> QED  BY <2>1
<1> QED  BY <1>1, <1>2 DEF PinsUpTo

\* A row whose pin was shifted, counted anew, is the row of the shifted pins.
LEMMA ShiftedRow ==
    ASSUME NEW r, NEW p, NEW rest, ShelfRow(r, p, rest), p \in Seq(Programs), rest \in Seq(Programs),
           NEW from \in 3 .. Len(p) + 2, NEW to \in 3 .. Len(p) + 3, to # from
    PROVE  Renumbered(Shifted(r, from, to)) = Row(Shifted(p, from - 2, to - 2), rest)
<1> DEFINE n == Len(p)
           x == Shifted(r, from, to)
           q == Shifted(p, from - 2, to - 2)
           L == Len(r)
<1>1. n \in Nat /\ Len(rest) \in Nat /\ (rest = <<>> <=> Len(rest) = 0)
  OBVIOUS
<1>2. /\ r \in Seq(ShelfTiles) /\ L = Width(p, rest) /\ DOMAIN r = 1 .. L
      /\ \A i \in DOMAIN r : r[i].pin > 0 <=> i \in 3 .. n + 2
      /\ \A i \in DOMAIN r : r[i].pin > 0 => r[i].pin = i - 2 /\ r[i].tile = p[i - 2]
  BY RowTiles
<1>3. L \in Nat /\ L >= n + 2
  BY <1>1, <1>2 DEF Width
<1>4. from \in 1 .. L /\ to \in 1 .. L + 1
  <2>1. L >= n + 2 /\ L \in Nat
    BY <1>3
  <2> HIDE DEF L
  <2> QED  BY <1>1, <2>1
<1>5. x \in Seq(ShelfTiles) /\ Len(x) = L /\ \A j \in 1 .. L : x[j] = r[Was(from, to, j)]
  BY <1>2, <1>4, ShiftedAt
<1>6. from - 2 \in 1 .. n /\ to - 2 \in 1 .. n + 1 /\ to - 2 # from - 2
  BY <1>1
<1>7. q \in Seq(Programs) /\ Len(q) = n /\ \A k \in 1 .. n : q[k] = p[Was(from - 2, to - 2, k)]
  BY <1>6, ShiftedAt
<1> HIDE DEF x, q, L, n
<1>8. ASSUME NEW j \in 1 .. L, j \notin 3 .. n + 2
      PROVE  Was(from, to, j) = j
  BY <1>1, <1>3, <1>6, <1>8 DEF Was, n
<1>9. ASSUME NEW j \in 3 .. n + 2
      PROVE  /\ Was(from, to, j) \in 3 .. n + 2
             /\ Was(from, to, j) - 2 = Was(from - 2, to - 2, j - 2)
  BY <1>1, <1>3, <1>6 DEF Was, n
<1>10. ASSUME NEW j \in 1 .. L
       PROVE  /\ Was(from, to, j) \in 1 .. L
              /\ x[j].pin > 0 <=> j \in 3 .. n + 2
  <2>1. Was(from, to, j) \in 1 .. L
    <3>1. CASE j \in 3 .. n + 2
      <4>1. Was(from, to, j) \in 3 .. n + 2
        BY <1>9, <3>1
      <4> QED  BY <1>1, <1>3, <4>1 DEF n
    <3>2. CASE j \notin 3 .. n + 2
      BY <1>8, <3>2
    <3> QED  BY <3>1, <3>2
  <2>2. x[j] = r[Was(from, to, j)]
    BY <1>5
  <2>3. x[j].pin > 0 <=> Was(from, to, j) \in 3 .. n + 2
    BY <1>2, <2>1, <2>2
  <2> QED  BY <1>8, <1>9, <2>1, <2>3
<1>11. DOMAIN x = 1 .. L /\ Renumbered(x) = [j \in 1 .. L |-> Renumbered(x)[j]]
  BY <1>3, <1>5 DEF Renumbered
<1>12. \A j \in 1 .. L : Renumbered(x)[j] = [x[j] EXCEPT !.pin = IF @ = 0 THEN 0 ELSE PinsUpTo(x, j)]
  BY <1>11 DEF Renumbered
<1>13. q \in Seq(Programs) /\ rest \in Seq(Programs) /\ Width(q, rest) = L
  BY <1>2, <1>7 DEF Width, n
<1>14. /\ Row(q, rest) \in Seq(ShelfTiles) /\ Len(Row(q, rest)) = L
  BY <1>13, RowShape
<1>15. /\ r = Row(p, rest)
  BY DEF ShelfRow
<1>16. ASSUME NEW j \in 1 .. L, j \in 3 .. n + 2
       PROVE  Renumbered(x)[j] = Row(q, rest)[j]
  <2>1. x[j] = r[Was(from, to, j)] /\ Was(from, to, j) \in 3 .. n + 2
    BY <1>5, <1>9, <1>16
  <2>2. Was(from, to, j) \in DOMAIN r
    BY <1>2, <1>10
  <2>3. x[j].pin > 0 /\ x[j].tile = p[Was(from, to, j) - 2]
    BY <1>2, <2>1, <2>2
  <2>4. j - 2 \in 1 .. n /\ x[j].tile = q[j - 2]
    <3>1. j - 2 \in 1 .. n
      BY <1>1, <1>16 DEF n
    <3>2. q[j - 2] = p[Was(from - 2, to - 2, j - 2)]
      BY <1>7, <3>1
    <3> QED  BY <1>9, <1>16, <2>3, <3>1, <3>2
  <2>5. PinsUpTo(x, j) = j - 2
    <3>1. \A i \in 1 .. j : x[i].pin > 0 <=> i \in 3 .. n + 2
      BY <1>3, <1>10
    <3>2. j \in Nat /\ 2 <= j /\ j <= n + 2 /\ n + 2 \in Nat
      BY <1>1, <1>16 DEF n
    <3> QED  BY <3>1, <3>2, PinsCounted
  <2>6. x[j] \in ShelfTiles /\ x[j].pin # 0
    BY <1>5, <2>3
  <2>7. Renumbered(x)[j] = [tile |-> x[j].tile, pin |-> j - 2]
    BY <1>12, <2>5, <2>6 DEF ShelfTiles
  <2>8. Row(q, rest)[(j - 2) + 2] = [tile |-> q[j - 2], pin |-> j - 2]
    BY <1>7, <1>13, <2>4, RowShape
  <2>9. (j - 2) + 2 = j
    BY <1>3
  <2> QED  BY <2>4, <2>7, <2>8, <2>9
<1>17. ASSUME NEW j \in 1 .. L, j \notin 3 .. n + 2
       PROVE  Renumbered(x)[j] = Row(q, rest)[j]
  <2>1. x[j] = r[j] /\ ~(x[j].pin > 0)
    BY <1>5, <1>8, <1>10, <1>17
  <2>2. x[j] \in ShelfTiles
    BY <1>5
  <2>3. Renumbered(x)[j] = x[j]
    BY <1>12, <2>1, <2>2 DEF ShelfTiles
  <2>4. Len(q) = Len(p)
    BY <1>7 DEF n
  <2>5. Row(q, rest)[j] = Row(p, rest)[j]
    <3>1. j \in 1 .. Width(p, rest) /\ j \in 1 .. Width(q, rest)
      BY <1>2, <1>13
    <3>2. CASE j \in {1, 2}
      <4>1. Row(q, rest)[1] = Tile("start") /\ Row(q, rest)[2] = Tile("search")
        BY <1>13, RowShape
      <4>2. Row(p, rest)[1] = Tile("start") /\ Row(p, rest)[2] = Tile("search")
        BY RowShape
      <4> QED  BY <3>2, <4>1, <4>2
    <3>3. CASE j > n + 2
      <4>1. j \in Nat /\ j > Len(p) + 2 /\ Len(p) \in Nat
        BY <1>1, <1>3, <3>3 DEF n
      <4>5. j # 1 /\ j # 2 /\ j - 2 \notin 1 .. Len(p) /\ j - 2 \notin 1 .. Len(q)
        BY <2>4, <4>1
      <4>2. \/ j = Len(p) + 3 /\ rest # <<>> /\ Row(p, rest)[j] = Tile("divider")
            \/ /\ j - (Len(p) + 3) \in 1 .. Len(rest) /\ rest # <<>>
               /\ Row(p, rest)[j] = Tile(rest[j - (Len(p) + 3)])
        BY <3>1, <4>5, RowAt
      <4>3. \/ j = Len(q) + 3 /\ rest # <<>> /\ Row(q, rest)[j] = Tile("divider")
            \/ /\ j - (Len(q) + 3) \in 1 .. Len(rest) /\ rest # <<>>
               /\ Row(q, rest)[j] = Tile(rest[j - (Len(q) + 3)])
        BY <1>13, <3>1, <4>5, RowAt
      <4> QED  BY <1>1, <2>4, <4>1, <4>2, <4>3
    <3> QED  BY <1>1, <1>3, <1>17, <3>2, <3>3
  <2> QED  BY <1>15, <2>1, <2>3, <2>5
<1>18. Row(q, rest) = [j \in 1 .. L |-> Row(q, rest)[j]]
  BY <1>3, <1>14
<1>19. \A j \in 1 .. L : Renumbered(x)[j] = Row(q, rest)[j]
  BY <1>16, <1>17
<1> QED  BY <1>11, <1>18, <1>19 DEF x, q

LEMMA PinRemoved ==
    ASSUME NEW p \in Seq(Programs), Distinct(p), NEW i \in DOMAIN p
    PROVE  RemoveAt(p, i) \in Seq(Programs) /\ Distinct(RemoveAt(p, i))
<1> DEFINE q == RemoveAt(p, i)
<1>1. Len(p) \in Nat /\ DOMAIN p = 1 .. Len(p)
  OBVIOUS
<1>2. /\ q \in Seq(Programs) /\ Len(q) = Len(p) - 1
      /\ \A j \in 1 .. Len(p) - 1 : q[j] = IF j < i THEN p[j] ELSE p[j + 1]
  BY <1>1, RemoveAtProperties
<1> HIDE DEF q
<1>3. DOMAIN q = 1 .. Len(p) - 1
  BY <1>2
<1>4. ASSUME NEW j \in DOMAIN q, NEW k \in DOMAIN q, j # k PROVE q[j] # q[k]
  BY SMTT(30), <1>1, <1>2, <1>3, <1>4 DEF Distinct
<1> QED  BY <1>2, <1>4 DEF Distinct, q

LEMMA PinAppended ==
    ASSUME NEW p \in Seq(Programs), Distinct(p), NEW t \in Programs, t \notin ToSet(p)
    PROVE  Append(p, t) \in Seq(Programs) /\ Distinct(Append(p, t))
<1>1. Len(p) \in Nat /\ DOMAIN p = 1 .. Len(p) /\ \A j \in DOMAIN p : p[j] # t
  BY DEF ToSet
<1>2. /\ Append(p, t) \in Seq(Programs) /\ DOMAIN Append(p, t) = 1 .. Len(p) + 1
      /\ \A j \in 1 .. Len(p) : Append(p, t)[j] = p[j]
      /\ Append(p, t)[Len(p) + 1] = t
  BY <1>1
<1>3. ASSUME NEW j \in 1 .. Len(p) + 1, NEW k \in 1 .. Len(p) + 1, j # k
      PROVE  Append(p, t)[j] # Append(p, t)[k]
  BY <1>1, <1>2, <1>3 DEF Distinct
<1> QED  BY <1>2, <1>3 DEF Distinct

-----------------------------------------------------------------------------
(* The members of a gesture.                                               *)

\* What holds of the hand alone: the ghost is up for what is dragged or glides, a
\* press keeps the capture until it drags, and what glides has let it go.
HandOK(h) ==
    /\ h \in Hand
    /\ h.ghost <=> h.dragged > 0 \/ h.snap
    /\ h.dragged > 0 => h.pressed = h.dragged
    /\ h.target # NoTile => h.pressed > 0
    /\ h.pressed > 0 /\ ~DragActive(h) => h.capture
    /\ h.snap => ~h.capture

\* The indices of a gesture stand for its target; what is dragged is a pin.
OnShelf(h, r) ==
    /\ h.target # NoTile => h.pressed \in DOMAIN r
    /\ h.pressed > 0 /\ h.pressed \in DOMAIN r => r[h.pressed].tile = h.target
    /\ h.dragged > 0 => IsPin(r, h.dragged) /\ h.target # NoTile

\* Nothing is pressed, dragged, scaled, or glides.
Quiet(h) ==
    /\ h.pressed = 0 /\ h.target = NoTile /\ h.dragged = 0
    /\ ~h.scaling /\ ~h.snap /\ ~h.ghost

LEMMA QuietHand ==
    ASSUME NEW h, NEW r, Quiet(h)
    PROVE  ~DragActive(h) /\ OnShelf(h, r)
BY DEF Quiet, DragActive, OnShelf

LEMMA HandFields ==
    ASSUME NEW h \in Hand
    PROVE  /\ h.pressed \in Nat /\ h.target \in TileNames \cup {NoTile} /\ h.dragged \in Nat
           /\ h.scaling \in BOOLEAN /\ h.snap \in BOOLEAN /\ h.suppress \in BOOLEAN
           /\ h.ghost \in BOOLEAN /\ h.capture \in BOOLEAN /\ h.lapse \in BOOLEAN
BY DEF Hand

LEMMA ClearedHand ==
    ASSUME NEW h, h \in Hand, h.ghost => h.dragged > 0 \/ h.snap
    PROVE  /\ HandOK(ClearPress(h)) /\ Quiet(ClearPress(h))
           /\ ClearPress(h).capture = h.capture
<1> DEFINE c == ClearPress(h)
<1>1. /\ c \in Hand /\ c.pressed = 0 /\ c.target = NoTile /\ c.dragged = 0
      /\ c.scaling = FALSE /\ c.snap = FALSE /\ c.capture = h.capture
      /\ c.ghost = (h.ghost /\ ~(h.dragged > 0 \/ h.snap))
  BY DEF ClearPress, Hand
<1> HIDE DEF c
<1>2. ~c.ghost
  BY <1>1
<1>3. HandOK(c) /\ Quiet(c)
  BY <1>1, <1>2 DEF HandOK, Quiet
<1> QED  BY <1>1, <1>3 DEF c

LEMMA SuppressedHand ==
    ASSUME NEW h
    PROVE  /\ HandOK(h) => HandOK(Suppressed(h)) /\ Suppressed(h).capture = h.capture
           /\ HandOK(h) /\ Quiet(h) => Quiet(Suppressed(h))
<1> DEFINE c == Suppressed(h)
<1>1. ASSUME h \in Hand
      PROVE  /\ c \in Hand /\ c.pressed = h.pressed /\ c.target = h.target
             /\ c.dragged = h.dragged /\ c.scaling = h.scaling /\ c.snap = h.snap
             /\ c.ghost = h.ghost /\ c.capture = h.capture
  BY <1>1 DEF Suppressed, Hand
<1> HIDE DEF c
<1>2. ASSUME HandOK(h) PROVE HandOK(c) /\ c.capture = h.capture
  BY <1>1, <1>2 DEF HandOK, DragActive
<1>3. ASSUME HandOK(h), Quiet(h) PROVE Quiet(c)
  BY <1>1, <1>3 DEF HandOK, Quiet
<1> QED  BY <1>2, <1>3 DEF c

\* ReleaseCapture ends a press, and leaves a drag that is under way.
LEMMA LetGoHand ==
    ASSUME NEW h, HandOK(h)
    PROVE  /\ HandOK(LetGo(h)) /\ ~LetGo(h).capture
           /\ LetGo(h).dragged = h.dragged /\ LetGo(h).scaling = h.scaling
           /\ LetGo(h).snap = h.snap /\ LetGo(h).ghost = h.ghost
<1> DEFINE f == [h EXCEPT !.capture = FALSE]
<1>1. h \in Hand
  BY DEF HandOK
<1>2. /\ f \in Hand /\ f.pressed = h.pressed /\ f.target = h.target /\ f.dragged = h.dragged
      /\ f.scaling = h.scaling /\ f.snap = h.snap /\ f.ghost = h.ghost /\ f.capture = FALSE
  BY <1>1 DEF Hand
<1>3. h.capture \in BOOLEAN /\ h.scaling \in BOOLEAN /\ h.snap \in BOOLEAN /\ h.ghost \in BOOLEAN
      /\ h.dragged \in Nat
  BY <1>1, HandFields
<1>4. CASE ~h.capture
  BY <1>3, <1>4 DEF LetGo
<1>5. CASE h.capture /\ DragActive(h)
  <2>1. LetGo(h) = f
    <3>1. DragActive(f)
      BY <1>2, <1>5 DEF DragActive
    <3> QED  BY <1>5, <3>1 DEF LetGo, CaptureChanged
  <2> HIDE DEF f
  <2>2. HandOK(f)
    BY <1>2, <1>5 DEF HandOK, DragActive
  <2> QED  BY <1>2, <2>1, <2>2
<1>6. CASE h.capture /\ ~DragActive(h)
  <2>1. LetGo(h) = ClearPress(f)
    <3>1. ~DragActive(f)
      BY <1>2, <1>6 DEF DragActive
    <3> QED  BY <1>6, <3>1 DEF LetGo, CaptureChanged
  <2> HIDE DEF f
  <2>2. ~(h.dragged > 0) /\ ~h.snap /\ ~h.scaling /\ ~h.ghost
    BY <1>6 DEF HandOK, DragActive
  <2>3. h.dragged = 0
    BY <1>3, <2>2
  <2>4. HandOK(ClearPress(f)) /\ Quiet(ClearPress(f)) /\ ClearPress(f).capture = FALSE
    BY <1>2, <2>2, ClearedHand
  <2>5. ClearPress(f) \in Hand
    BY <2>4 DEF HandOK
  <2>6. /\ ClearPress(f).scaling \in BOOLEAN /\ ClearPress(f).snap \in BOOLEAN
        /\ ClearPress(f).ghost \in BOOLEAN
    BY <2>5, HandFields
  <2> QED  BY <1>3, <2>1, <2>2, <2>3, <2>4, <2>6 DEF Quiet
<1> QED  BY <1>3, <1>4, <1>5, <1>6

\* What each end of a gesture leaves: nothing, and no capture.
LEMMA EndsHand ==
    ASSUME NEW h, HandOK(h), ~h.snap
    PROVE  HandOK(Ends(h)) /\ Quiet(Ends(h)) /\ ~Ends(h).capture
<1>1. HandOK(LetGo(h)) /\ ~LetGo(h).capture /\ ~LetGo(h).snap
  BY LetGoHand
<1>2. Ends(h) = ClearPress(LetGo(h))
  BY <1>1 DEF Ends
<1>3. LetGo(h) \in Hand /\ (LetGo(h).ghost => LetGo(h).dragged > 0 \/ LetGo(h).snap)
  BY <1>1 DEF HandOK
<1> QED  BY <1>1, <1>2, <1>3, ClearedHand

LEMMA GhostHidden ==
    ASSUME NEW h, HandOK(h), Quiet(h)
    PROVE  /\ HandOK([h EXCEPT !.ghost = FALSE]) /\ Quiet([h EXCEPT !.ghost = FALSE])
           /\ [h EXCEPT !.ghost = FALSE].capture = h.capture
<1> DEFINE f == [h EXCEPT !.ghost = FALSE]
<1>1. h \in Hand
  BY DEF HandOK
<1>2. /\ f \in Hand /\ f.pressed = h.pressed /\ f.target = h.target /\ f.dragged = h.dragged
      /\ f.scaling = h.scaling /\ f.snap = h.snap /\ f.ghost = FALSE /\ f.capture = h.capture
  BY <1>1 DEF Hand
<1> HIDE DEF f
<1>3. HandOK(f) /\ Quiet(f)
  BY <1>2 DEF HandOK, Quiet, DragActive
<1> QED  BY <1>2, <1>3 DEF f

LEMMA HiddenHand ==
    ASSUME NEW h, HandOK(h)
    PROVE  /\ HandOK(Hidden(h)) /\ Quiet(Hidden(h)) /\ ~Hidden(h).capture
           /\ HandOK(Dropped(h)) /\ Quiet(Dropped(h)) /\ ~Dropped(h).capture
<1> DEFINE c == ClearPress(LetGo(h))
<1>1. HandOK(LetGo(h)) /\ ~LetGo(h).capture
  BY LetGoHand
<1>2. LetGo(h) \in Hand /\ (LetGo(h).ghost => LetGo(h).dragged > 0 \/ LetGo(h).snap)
  BY <1>1 DEF HandOK
<1>3. HandOK(c) /\ Quiet(c) /\ ~c.capture
  BY <1>1, <1>2, ClearedHand
<1>4. HandOK(Suppressed(c)) /\ Quiet(Suppressed(c)) /\ ~Suppressed(c).capture
  BY <1>3, SuppressedHand
<1>5. HandOK(Hidden(h)) /\ Quiet(Hidden(h)) /\ ~Hidden(h).capture
  BY <1>3, GhostHidden DEF Hidden
<1>6. HandOK(Dropped(h)) /\ Quiet(Dropped(h)) /\ ~Dropped(h).capture
  BY <1>4, GhostHidden DEF Dropped
<1> QED  BY <1>5, <1>6

LEMMA SnappedBackHand ==
    ASSUME NEW h, HandOK(h)
    PROVE  HandOK(SnappedBack(h)) /\ Quiet(SnappedBack(h)) /\ SnappedBack(h).capture = h.capture
<1> DEFINE f == [h EXCEPT !.ghost = FALSE]
           c == ClearPress(f)
           g == [c EXCEPT !.snap = FALSE]
<1>1. h \in Hand
  BY DEF HandOK
<1>2. f \in Hand /\ f.ghost = FALSE /\ f.capture = h.capture
  BY <1>1 DEF Hand
<1>3. HandOK(c) /\ Quiet(c) /\ c.capture = h.capture
  <2> HIDE DEF f
  <2> QED  BY <1>2, ClearedHand
<1> HIDE DEF c
<1>4. c \in Hand
  BY <1>3 DEF HandOK
<1>5. /\ g \in Hand /\ g.pressed = c.pressed /\ g.target = c.target /\ g.dragged = c.dragged
      /\ g.scaling = c.scaling /\ g.snap = FALSE /\ g.ghost = c.ghost /\ g.capture = c.capture
  BY <1>4 DEF Hand
<1> HIDE DEF g
<1>6. HandOK(g) /\ Quiet(g)
  BY <1>3, <1>5 DEF HandOK, Quiet, DragActive
<1> QED  BY <1>3, <1>5, <1>6 DEF SnappedBack, g, c

LEMMA StolenHand ==
    ASSUME NEW h, HandOK(h), h.capture
    PROVE  /\ CaptureChanged([h EXCEPT !.capture = FALSE]) = LetGo(h)
BY DEF LetGo

\* A sample is only the time of the last one.
LEMMA LapseHand ==
    ASSUME NEW h, HandOK(h), NEW b \in BOOLEAN
    PROVE  LET f == [h EXCEPT !.lapse = b]
           IN  /\ HandOK(f) /\ f.pressed = h.pressed /\ f.target = h.target
               /\ f.dragged = h.dragged /\ f.scaling = h.scaling /\ f.snap = h.snap
               /\ f.suppress = h.suppress /\ f.ghost = h.ghost /\ f.capture = h.capture
               /\ f.lapse = b /\ (Quiet(h) => Quiet(f))
<1> DEFINE f == [h EXCEPT !.lapse = b]
<1>1. h \in Hand
  BY DEF HandOK
<1>2. /\ f \in Hand /\ f.pressed = h.pressed /\ f.target = h.target /\ f.dragged = h.dragged
      /\ f.scaling = h.scaling /\ f.snap = h.snap /\ f.suppress = h.suppress
      /\ f.ghost = h.ghost /\ f.capture = h.capture /\ f.lapse = b
  BY <1>1 DEF Hand
<1> HIDE DEF f
<1>3. HandOK(f)
  BY <1>2 DEF HandOK, DragActive
<1>4. Quiet(h) => Quiet(f)
  BY <1>2 DEF Quiet
<1> QED  BY <1>2, <1>3, <1>4 DEF f

LEMMA AtFound ==
    ASSUME NEW r, NEW t
    PROVE  \/ At(r, t) \in DOMAIN r /\ r[At(r, t)].tile = t
           \/ At(r, t) = 0 /\ \A i \in DOMAIN r : r[i].tile # t
BY DEF At

\* What another row leaves of a gesture: all of it, on the same target, or nothing.
LEMMA RemappedHand ==
    ASSUME NEW h, HandOK(h),
           NEW s, NEW p, NEW rest, ShelfRow(s, p, rest), OnShelf(h, s),
           NEW r, NEW q, NEW more, ShelfRow(r, q, more)
    PROVE  /\ HandOK(Remap(h, r)) /\ OnShelf(Remap(h, r), r)
           /\ \/ Quiet(Remap(h, r)) /\ ~Remap(h, r).capture
              \/ /\ Remap(h, r).pressed > 0 <=> h.pressed > 0
                 /\ Remap(h, r).target = h.target /\ Remap(h, r).capture = h.capture
                 /\ DragActive(Remap(h, r)) <=> DragActive(h)
                 /\ Remap(h, r).snap = h.snap
<1> DEFINE i == At(r, h.target)
           f == [h EXCEPT !.pressed = i, !.dragged = IF @ > 0 THEN i ELSE 0]
<1>1. h \in Hand /\ h.pressed \in Nat /\ h.dragged \in Nat
  BY HandFields DEF HandOK
<1>2. CASE h.pressed = 0
  <2>1. h.target = NoTile /\ h.dragged = 0
    BY <1>1, <1>2 DEF HandOK
  <2>2. OnShelf(h, r)
    BY <1>2, <2>1 DEF OnShelf
  <2> QED  BY <1>2, <2>2 DEF Remap
<1>3. CASE h.pressed # 0 /\ ~(IsPin(r, i) \/ h.target \in Special)
  <2>1. Remap(h, r) = Dropped(h)
    BY <1>3 DEF Remap
  <2> QED  BY <2>1, HiddenHand, QuietHand
<1>4. CASE h.pressed # 0 /\ (IsPin(r, i) \/ h.target \in Special)
  <2>1. Remap(h, r) = f
    BY <1>4 DEF Remap
  <2>2. /\ DOMAIN r = 1 .. Width(q, more) /\ q \in Seq(Programs) /\ Len(q) \in Nat
        /\ 1 \in DOMAIN r /\ 2 \in DOMAIN r
        /\ r[1].tile = "start" /\ r[2].tile = "search"
    <3>1. q \in Seq(Programs) /\ more \in Seq(Programs) /\ Len(q) \in Nat /\ Len(more) \in Nat
      BY DEF ShelfRow
    <3>2. Width(q, more) \in Nat /\ Width(q, more) >= 2
      BY <3>1 DEF Width
    <3> QED  BY <3>1, <3>2, RowTiles
  <2>3. i \in DOMAIN r /\ r[i].tile = h.target
    <3>1. CASE IsPin(r, i)
      <4>1. i \in DOMAIN r /\ i # 0
        BY <2>2, <3>1 DEF IsPin
      <4> QED  BY <4>1, AtFound
    <3>2. CASE h.target \in Special
      <4>1. \E j \in DOMAIN r : r[j].tile = h.target
        BY <2>2, <3>2 DEF Special
      <4> QED  BY <4>1, AtFound
    <3> QED  BY <1>4, <3>1, <3>2
  <2>4. i \in Nat /\ i > 0
    BY <2>2, <2>3
  <2>5. ASSUME h.dragged > 0
        PROVE  IsPin(r, i) /\ h.target # NoTile
    <3>1. h.target # NoTile /\ IsPin(s, h.dragged) /\ s[h.dragged].tile = h.target
      BY <2>5 DEF HandOK, OnShelf
    <3>2. /\ h.dragged \in DOMAIN s /\ s[h.dragged].tile = p[h.dragged - 2]
          /\ h.dragged \in 3 .. Len(p) + 2
      BY <3>1, RowTiles DEF IsPin
    <3>3. h.target \in Programs
      <4>1. p \in Seq(Programs) /\ Len(p) \in Nat /\ h.dragged - 2 \in 1 .. Len(p)
        BY <3>2 DEF ShelfRow
      <4> QED  BY <3>1, <3>2, <4>1
    <3> QED  BY <1>4, <3>1, <3>3, NamesApart
  <2> HIDE DEF i
  <2>6. /\ f \in Hand /\ f.pressed = i /\ f.target = h.target
        /\ f.dragged = (IF h.dragged > 0 THEN i ELSE 0)
        /\ f.scaling = h.scaling /\ f.snap = h.snap /\ f.ghost = h.ghost /\ f.capture = h.capture
    BY <1>1, <2>4 DEF Hand
  <2> HIDE DEF f
  <2>7. f.dragged > 0 <=> h.dragged > 0
    BY <1>1, <2>4, <2>6
  <2>8. DragActive(f) <=> DragActive(h)
    BY <2>6, <2>7 DEF DragActive
  <2>9. h.pressed > 0
    BY <1>1, <1>4
  <2>10. HandOK(f)
    BY <2>4, <2>6, <2>7, <2>8, <2>9 DEF HandOK
  <2>11. OnShelf(f, r)
    BY <2>3, <2>5, <2>6, <2>7 DEF OnShelf
  <2> QED  BY <2>1, <2>4, <2>6, <2>8, <2>9, <2>10, <2>11
<1> QED  BY <1>2, <1>3, <1>4

-----------------------------------------------------------------------------
(* The invariant.                                                          *)

LEMMA ShownTiles ==
    ASSUME NEW rest, ShelfRow(shelf, pinned, rest)
    PROVE  /\ Shown \in Seq(TileNames)
           /\ \A i \in DOMAIN shelf : i \in DOMAIN Shown /\ Shown[i] = shelf[i].tile
           /\ \A i \in DOMAIN Shown \ DOMAIN shelf : Shown[i] \in Tray
<1> DEFINE names == [i \in 1 .. Len(shelf) |-> shelf[i].tile]
<1>1. shelf \in Seq(ShelfTiles) /\ DOMAIN shelf = 1 .. Len(shelf) /\ Len(shelf) \in Nat
  BY RowTiles
<1>2. names \in Seq(TileNames) /\ Len(names) = Len(shelf) /\ \A i \in DOMAIN shelf : names[i] = shelf[i].tile
  <2>1. \A i \in 1 .. Len(shelf) : shelf[i].tile \in TileNames
    <3>1. \A i \in 1 .. Len(shelf) : shelf[i] \in ShelfTiles
      BY <1>1
    <3> QED  BY <3>1 DEF ShelfTiles
  <2> QED  BY <1>1, <2>1
<1>3. Slots \in Seq(TileNames) /\ Len(Slots) \in Nat /\ \A i \in 1 .. Len(Slots) : Slots[i] \in Tray
  <2>1. {"trash", "power", "clock"} \subseteq Tray /\ Tray \subseteq TileNames
    BY DEF TileNames, Tray
  <2>2. CASE battery
    BY <2>1, <2>2 DEF Slots
  <2>3. CASE ~battery
    BY <2>1, <2>3 DEF Slots
  <2> QED  BY <2>2, <2>3
<1> HIDE DEF names
<1>4. /\ names \o Slots \in Seq(TileNames) /\ Len(names \o Slots) = Len(names) + Len(Slots)
      /\ \A i \in 1 .. Len(names) + Len(Slots) :
            (names \o Slots)[i] = IF i <= Len(names) THEN names[i] ELSE Slots[i - Len(names)]
  BY <1>2, <1>3, ConcatProperties
<1>5. Shown = names \o Slots
  BY DEF Shown, names
<1>6. DOMAIN Shown = 1 .. Len(shelf) + Len(Slots)
  BY <1>2, <1>4, <1>5
<1>7. ASSUME NEW i \in DOMAIN shelf PROVE i \in DOMAIN Shown /\ Shown[i] = shelf[i].tile
  BY <1>1, <1>2, <1>3, <1>4, <1>5, <1>6
<1>8. ASSUME NEW i \in DOMAIN Shown \ DOMAIN shelf PROVE Shown[i] \in Tray
  <2>1. i \in 1 .. Len(shelf) + Len(Slots) /\ ~(i <= Len(shelf)) /\ i - Len(shelf) \in 1 .. Len(Slots)
    BY <1>1, <1>3, <1>6
  <2>2. Shown[i] = Slots[i - Len(shelf)]
    BY <1>2, <1>4, <1>5, <2>1
  <2> QED  BY <1>3, <2>1, <2>2
<1> QED  BY <1>4, <1>5, <1>7, <1>8

LEMMA PressedHand ==
    ASSUME NEW rest, ShelfRow(shelf, pinned, rest), HandOK(hand), NEW i \in 0 .. Len(Shown)
    PROVE  /\ HandOK(Pressed(i)) /\ OnShelf(Pressed(i), shelf) /\ ~Pressed(i).snap
           /\ Pressed(i).pressed > 0 =>
                 /\ i \in DOMAIN Shown /\ Pressed(i).pressed = i
                 /\ IF Pressed(i).target = NoTile THEN Shown[i] \in Tray
                                                  ELSE Shown[i] = Pressed(i).target
<1> DEFINE h == ClearPress(hand)
           t == IF i \in DOMAIN shelf THEN shelf[i].tile ELSE NoTile
           f == [h EXCEPT !.scaling = TRUE, !.capture = TRUE]
           g == [h EXCEPT !.pressed = i, !.capture = TRUE, !.suppress = FALSE, !.lapse = FALSE,
                          !.target = t]
<1>1. HandOK(h) /\ Quiet(h)
  BY ClearedHand DEF HandOK
<1>2. h \in Hand
  BY <1>1 DEF HandOK
<1>3. /\ Shown \in Seq(TileNames) /\ DOMAIN Shown = 1 .. Len(Shown) /\ Len(Shown) \in Nat
      /\ \A k \in DOMAIN shelf : k \in DOMAIN Shown /\ Shown[k] = shelf[k].tile
      /\ \A k \in DOMAIN Shown \ DOMAIN shelf : Shown[k] \in Tray
  BY ShownTiles
<1> HIDE DEF h
<1>4. CASE i \in DOMAIN Shown /\ Shown[i] = "divider"
  <2>1. Pressed(i) = f
    BY <1>4 DEF Pressed, h
  <2>2. /\ f \in Hand /\ f.pressed = h.pressed /\ f.target = h.target /\ f.dragged = h.dragged
        /\ f.snap = h.snap /\ f.ghost = h.ghost /\ f.capture = TRUE
    BY <1>2 DEF Hand
  <2> HIDE DEF f
  <2>3. HandOK(f) /\ OnShelf(f, shelf) /\ ~f.snap /\ ~(f.pressed > 0)
    BY <1>1, <2>2 DEF HandOK, OnShelf, Quiet
  <2> QED  BY <2>1, <2>3
<1>5. CASE ~(i \in DOMAIN Shown /\ Shown[i] = "divider") /\ i = 0
  <2>1. Pressed(i) = h
    BY <1>5 DEF Pressed, h
  <2>2. ~h.snap /\ ~(h.pressed > 0)
    BY <1>1 DEF Quiet
  <2> QED  BY <1>1, <2>1, <2>2, QuietHand
<1>6. CASE ~(i \in DOMAIN Shown /\ Shown[i] = "divider") /\ i # 0
  <2>1. Pressed(i) = g
    BY <1>6 DEF Pressed, h
  <2>2. i \in DOMAIN Shown /\ i \in Nat /\ i > 0
    BY <1>3, <1>6
  <2>3. t \in TileNames \cup {NoTile}
    BY <1>3, <2>2
  <2>4. /\ t # NoTile => i \in DOMAIN shelf
        /\ i \in DOMAIN shelf => shelf[i].tile = t
        /\ IF t = NoTile THEN Shown[i] \in Tray ELSE Shown[i] = t
    <3>1. CASE i \in DOMAIN shelf
      <4>1. t = Shown[i] /\ t \in TileNames
        BY <1>3, <3>1
      <4> QED  BY <3>1, <4>1, NamesApart
    <3>2. CASE i \notin DOMAIN shelf
      BY <1>3, <2>2, <3>2
    <3> QED  BY <3>1, <3>2
  <2> HIDE DEF t
  <2>5. /\ g \in Hand /\ g.pressed = i /\ g.target = t /\ g.dragged = h.dragged
        /\ g.scaling = h.scaling /\ g.snap = h.snap /\ g.ghost = h.ghost /\ g.capture = TRUE
    BY <1>2, <2>2, <2>3 DEF Hand
  <2> HIDE DEF g
  <2>6. HandOK(g)
    BY <1>1, <2>2, <2>5 DEF HandOK, Quiet
  <2>7. OnShelf(g, shelf) /\ ~g.snap
    BY <1>1, <2>4, <2>5 DEF OnShelf, Quiet
  <2> QED  BY <2>1, <2>2, <2>4, <2>5, <2>6, <2>7
<1> QED  BY <1>4, <1>5, <1>6

RestTyped ==
    /\ live \subseteq Programs
    /\ menu \in [open : BOOLEAN, tile : TileNames \cup {NoTile}, pin : Nat]
    /\ posts \in Seq({"up"} \cup Branches)
    /\ battery \in BOOLEAN /\ down \in BOOLEAN /\ release \in BOOLEAN
    /\ raised \in BOOLEAN /\ lost \in BOOLEAN
    /\ asked \in TileNames \cup {NoTile} /\ deeds \in Seq(TileNames)
    /\ strokes \in 0 .. MaxStrokes /\ upsets \in 0 .. MaxUpsets

\* A press that waits has done nothing yet, and its target is what was asked for; a
\* slot of the tray has no target.
DeedInv ==
    /\ hand.pressed > 0 =>
          /\ deeds = <<>>
          /\ IF hand.target = NoTile THEN asked \in Tray ELSE asked = hand.target
    /\ Len(deeds) <= 1
    /\ deeds # <<>> /\ asked \notin Tray => deeds[1] = asked

\* Who will end the gesture: the button, the release, what was posted, the timer of
\* the glide, or nobody, if neither messenger took the release.
FlowInv ==
    /\ Len(posts) <= 1
    /\ DragActive(hand) => down \/ release \/ posts # <<>> \/ hand.snap \/ lost
    /\ hand.capture => raised /\ (down \/ release \/ posts # <<>>)
    /\ hand.snap => posts = <<>> \/ posts[1] = "up"

GesturesInv ==
    /\ RestTyped /\ ShelfInv
    /\ HandOK(hand) /\ OnShelf(hand, shelf)
    /\ DeedInv /\ FlowInv

LEMMA InvIsEnough ==
    ASSUME GesturesInv
    PROVE  GesturesAreClean /\ TilesCarryTheirPins
<1>1. PICK rest \in Seq(Programs) : ShelfRow(shelf, pinned, rest)
  BY DEF GesturesInv, ShelfInv
<1>2. TilesCarryTheirPins
  BY PinsCarried DEF GesturesInv
<1>3. GesturesTypeOK
  <2>1. pinned \in Seq(Programs) /\ shelf \in Seq([tile : TileNames, pin : Nat])
    BY <1>1, RowTiles DEF ShelfRow, ShelfTiles
  <2>2. hand \in Hand
    BY DEF GesturesInv, HandOK
  <2> QED  BY <2>1, <2>2 DEF GesturesInv, RestTyped, GesturesTypeOK
<1>4. GesturesHitTheirTile
  BY DEF GesturesInv, DeedInv, GesturesHitTheirTile
<1>5. GesturesLeaveNoTrace
  <2>1. hand.snap => ToSet(posts) \subseteq {"up"}
    <3>1. posts \in Seq({"up"} \cup Branches) /\ Len(posts) <= 1
      BY DEF GesturesInv, RestTyped, FlowInv
    <3>2. hand.snap => \A k \in DOMAIN posts : posts[k] = "up"
      BY <3>1 DEF GesturesInv, FlowInv
    <3> QED  BY <3>2 DEF ToSet
  <2> QED  BY <2>1 DEF GesturesInv, HandOK, FlowInv, GesturesLeaveNoTrace
<1> QED  BY <1>2, <1>3, <1>4, <1>5 DEF GesturesAreClean

LEMMA InvInitially ==
    ASSUME GesturesInit
    PROVE  GesturesInv
<1> USE DEF GesturesInit
<1>1. pinned \in Seq(Programs) /\ Distinct(pinned)
  BY GesturesAreBounded DEF Distinct
<1>2. ShelfInv
  <2>1. PICK opened \in Listings(live \ ToSet(pinned)) : shelf = Row(pinned, opened)
    OBVIOUS
  <2>2. /\ opened \in Seq(Programs) /\ Distinct(opened)
        /\ \A i \in DOMAIN opened : opened[i] \in live \ ToSet(pinned)
    BY <2>1, ListingTyped
  <2>3. Apart(pinned, opened)
    BY <2>2 DEF Apart, ToSet
  <2> QED  BY <1>1, <2>1, <2>2, <2>3 DEF ShelfInv, ShelfRow
<1>3. HandOK(hand) /\ Quiet(hand) /\ ~hand.capture
  BY DEF Empty, HandOK, Hand, Quiet, DragActive
<1>4. RestTyped
  <2>1. posts \in Seq({"up"} \cup Branches) /\ deeds \in Seq(TileNames)
    OBVIOUS
  <2>2. strokes \in 0 .. MaxStrokes /\ upsets \in 0 .. MaxUpsets
    BY GesturesAreBounded
  <2>3. live \subseteq Programs /\ battery \in BOOLEAN
    OBVIOUS
  <2>4. menu \in [open : BOOLEAN, tile : TileNames \cup {NoTile}, pin : Nat]
    BY DEF NoMenu
  <2>5. asked \in TileNames \cup {NoTile}
    OBVIOUS
  <2> QED  BY <2>1, <2>2, <2>3, <2>4, <2>5 DEF RestTyped
<1>5. DeedInv /\ FlowInv
  BY <1>3, QuietHand DEF DeedInv, FlowInv, Quiet
<1> QED  BY <1>2, <1>3, <1>4, <1>5, QuietHand DEF GesturesInv

\* A hand that holds no more than another, on the same target.
Lesser(new, old) ==
    /\ new.capture => old.capture
    /\ new.pressed > 0 => old.pressed > 0 /\ new.target = old.target
    /\ DragActive(new) => DragActive(old) /\ new.snap = old.snap
    /\ new.snap => old.snap

LEMMA LesserKeeps ==
    ASSUME DeedInv, FlowInv, Lesser(hand', hand),
           UNCHANGED <<asked, deeds, posts, down, release, raised, lost>>
    PROVE  DeedInv' /\ FlowInv'
<1>1. DeedInv'
  BY DEF DeedInv, Lesser
<1>2. FlowInv'
  BY DEF FlowInv, Lesser
<1> QED  BY <1>1, <1>2

LEMMA QuietIsLesser ==
    ASSUME NEW new, NEW old, Quiet(new), new.capture => old.capture
    PROVE  Lesser(new, old)
BY QuietHand DEF Lesser, Quiet

\* What the menu, a refresh, a stall or a loss of the capture does leaves the press
\* and its release as they are, or ends the gesture.
LEMMA GestureContinues ==
    ASSUME GesturesInv, RestTyped', ShelfInv', HandOK(hand'), OnShelf(hand', shelf'),
           Lesser(hand', hand), Done, UNCHANGED <<posts, down, release, raised>>
    PROVE  GesturesInv'
BY LesserKeeps DEF GesturesInv, Done

LEMMA ShelfReplaced ==
    ASSUME GesturesInv, RestTyped', \E rest \in Seq(Programs) : ShelfRow(shelf', pinned', rest),
           hand' = Remap(hand, shelf') \/ (hand' = hand /\ shelf' = shelf),
           Done, UNCHANGED <<posts, down, release, raised>>
    PROVE  GesturesInv'
<1>1. ShelfInv'
  BY DEF ShelfInv
<1>2. CASE hand' = Remap(hand, shelf')
  <2>1. PICK old \in Seq(Programs) : ShelfRow(shelf, pinned, old)
    BY DEF GesturesInv, ShelfInv
  <2>2. PICK new \in Seq(Programs) : ShelfRow(shelf', pinned', new)
    OBVIOUS
  <2>3. /\ HandOK(hand') /\ OnShelf(hand', shelf')
        /\ \/ Quiet(hand') /\ ~hand'.capture
           \/ /\ hand'.pressed > 0 <=> hand.pressed > 0
              /\ hand'.target = hand.target /\ hand'.capture = hand.capture
              /\ DragActive(hand') <=> DragActive(hand)
              /\ hand'.snap = hand.snap
    BY <1>2, <2>1, <2>2, RemappedHand DEF GesturesInv
  <2>4. Lesser(hand', hand)
    BY <2>3, QuietIsLesser DEF Lesser
  <2> QED  BY <1>1, <2>3, <2>4, GestureContinues
<1>3. CASE hand' = hand /\ shelf' = shelf
  BY <1>1, <1>3, GestureContinues DEF GesturesInv, Lesser
<1> QED  BY <1>2, <1>3

\* A step that leaves the shelf, and the hand, alone.
LEMMA HandRests ==
    ASSUME GesturesInv, RestTyped', UNCHANGED <<pinned, shelf, hand>>,
           Done, UNCHANGED <<posts, down, release, raised>>
    PROVE  GesturesInv'
BY ShelfReplaced DEF GesturesInv, ShelfInv

LEMMA UpsetTyped ==
    ASSUME GesturesInv, Upset
    PROVE  upsets' \in 0 .. MaxUpsets
BY GesturesAreBounded DEF GesturesInv, RestTyped, Upset

-----------------------------------------------------------------------------
(* Every step keeps it.                                                    *)

LEMMA PressKeeps ==
    ASSUME GesturesInv, NEW i \in 0 .. Len(Shown), Press(i)
    PROVE  GesturesInv'
<1>1. PICK rest \in Seq(Programs) : ShelfRow(shelf, pinned, rest)
  BY DEF GesturesInv, ShelfInv
<1>2. /\ HandOK(hand') /\ OnShelf(hand', shelf') /\ ~hand'.snap
      /\ hand'.pressed > 0 =>
            /\ i \in DOMAIN Shown /\ hand'.pressed = i
            /\ IF hand'.target = NoTile THEN Shown[i] \in Tray ELSE Shown[i] = hand'.target
  BY <1>1, PressedHand DEF Press, Kept, GesturesInv
<1>3. /\ Input /\ down' = TRUE /\ deeds' = <<>> /\ lost' = FALSE
      /\ strokes < MaxStrokes /\ strokes' = strokes + 1
      /\ asked' = IF i = 0 THEN NoTile ELSE Shown[i]
      /\ HookSeesPress
      /\ UNCHANGED <<posts, release, pinned, shelf, live, battery, raised>>
  BY DEF Press, Kept
<1>4. ShelfInv'
  BY <1>3 DEF GesturesInv, ShelfInv
<1>5. Shown \in Seq(TileNames) /\ DOMAIN Shown = 1 .. Len(Shown) /\ Len(Shown) \in Nat
  BY <1>1, ShownTiles
<1>6. asked' \in TileNames \cup {NoTile} /\ (i \in DOMAIN Shown => asked' = Shown[i])
  BY <1>3, <1>5
<1>7. RestTyped'
  <2>1. strokes' \in 0 .. MaxStrokes
    BY <1>3, GesturesAreBounded DEF GesturesInv, RestTyped
  <2>2. upsets' \in 0 .. MaxUpsets /\ menu' \in [open : BOOLEAN, tile : TileNames \cup {NoTile}, pin : Nat]
    <3>1. CASE menu' = NoMenu /\ UNCHANGED upsets
      BY <3>1 DEF NoMenu, GesturesInv, RestTyped
    <3>2. CASE upsets < MaxUpsets /\ upsets' = upsets + 1 /\ UNCHANGED menu
      BY <3>2, GesturesAreBounded DEF GesturesInv, RestTyped
    <3> QED  BY <1>3, <3>1, <3>2 DEF HookSeesPress
  <2>3. deeds' \in Seq(TileNames)
    BY <1>3
  <2>4. posts' \in Seq({"up"} \cup Branches) /\ live' \subseteq Programs
    BY <1>3 DEF GesturesInv, RestTyped
  <2>5. /\ battery' \in BOOLEAN /\ down' \in BOOLEAN /\ release' \in BOOLEAN
        /\ raised' \in BOOLEAN /\ lost' \in BOOLEAN
    BY <1>3 DEF GesturesInv, RestTyped
  <2> QED  BY <1>6, <2>1, <2>2, <2>3, <2>4, <2>5 DEF RestTyped
<1>8. DeedInv'
  BY <1>2, <1>3, <1>6 DEF DeedInv
<1>9. FlowInv'
  BY <1>2, <1>3 DEF FlowInv, Input
<1> QED  BY <1>2, <1>4, <1>7, <1>8, <1>9 DEF GesturesInv

LEMMA RightClickKeeps ==
    ASSUME GesturesInv, NEW i \in 0 .. Len(Shown), RightClick(i)
    PROVE  GesturesInv'
<1>1. PICK rest \in Seq(Programs) : ShelfRow(shelf, pinned, rest)
  BY DEF GesturesInv, ShelfInv
<1>2. menu' \in [open : BOOLEAN, tile : TileNames \cup {NoTile}, pin : Nat]
  <2> DEFINE t == IF i \in DOMAIN Shown /\ Shown[i] # "divider" THEN Shown[i] ELSE NoTile
             k == IF i \in DOMAIN shelf THEN shelf[i].pin ELSE 0
  <2>1. t \in TileNames \cup {NoTile}
    <3>1. \A j \in DOMAIN Shown : Shown[j] \in TileNames
      BY <1>1, ShownTiles
    <3> QED  BY <3>1
  <2>2. k \in Nat
    <3>1. \A j \in DOMAIN shelf : shelf[j] \in ShelfTiles
      BY <1>1, RowTiles
    <3> QED  BY <3>1 DEF ShelfTiles
  <2>3. menu' = [open |-> TRUE, tile |-> t, pin |-> k]
    BY DEF RightClick
  <2> HIDE DEF t, k
  <2> QED  BY <2>1, <2>2, <2>3
<1>3. upsets' \in 0 .. MaxUpsets
  BY UpsetTyped DEF RightClick
<1>4. RestTyped'
  BY <1>2, <1>3 DEF GesturesInv, RestTyped, RightClick, Done, Kept
<1> QED  BY <1>4, HandRests DEF RightClick, Kept

\* A drag begins of the pin that is pressed.
LEMMA DragStartsKeeps ==
    ASSUME GesturesInv, DragStarts
    PROVE  GesturesInv'
<1> DEFINE h == Sampled(hand)
           f == BeginDragOf(h)
<1>1. HandOK(hand) /\ OnShelf(hand, shelf)
  BY DEF GesturesInv
<1>2. hand.pressed > 0 /\ ~DragActive(hand) /\ down
  BY DEF DragStarts
<1>3. /\ HandOK(h) /\ h.pressed = hand.pressed /\ h.target = hand.target
      /\ h.dragged = hand.dragged /\ h.scaling = hand.scaling /\ h.snap = hand.snap
      /\ h.capture = hand.capture /\ h.lapse = FALSE
  BY <1>1, LapseHand DEF Sampled
<1>4. Judged(h) = h
  BY <1>3 DEF Judged
<1>5. IsPin(shelf, h.pressed) /\ hand' = f
  BY <1>4 DEF DragStarts
<1> HIDE DEF h
<1>6. h \in Hand
  BY <1>3 DEF HandOK
<1>7. /\ f \in Hand /\ f.pressed = h.pressed /\ f.target = h.target /\ f.dragged = h.pressed
      /\ f.scaling = h.scaling /\ f.snap = h.snap /\ f.ghost = TRUE /\ f.capture = h.capture
  BY <1>6 DEF BeginDragOf, Hand
<1> HIDE DEF f
<1>8. ~hand.snap /\ hand.capture
  BY <1>1, <1>2 DEF DragActive, HandOK
<1>9. HandOK(f)
  BY <1>2, <1>3, <1>7, <1>8 DEF HandOK
<1>10. hand.target # NoTile
  <2>1. PICK rest \in Seq(Programs) : ShelfRow(shelf, pinned, rest)
    BY DEF GesturesInv, ShelfInv
  <2>2. hand.pressed \in DOMAIN shelf
    BY <1>3, <1>5 DEF IsPin
  <2>3. hand.target = shelf[hand.pressed].tile
    BY <1>1, <1>2, <2>2 DEF OnShelf
  <2>4. shelf[hand.pressed] \in ShelfTiles
    BY <2>1, <2>2, RowTiles
  <2> QED  BY <2>3, <2>4, NamesApart DEF ShelfTiles
<1>11. OnShelf(f, shelf)
  BY <1>1, <1>2, <1>3, <1>5, <1>7, <1>10 DEF OnShelf
<1>12. UNCHANGED <<menu, down, posts, release, upsets, lost, asked, deeds, strokes,
                   pinned, shelf, live, battery, raised>>
  BY DEF DragStarts, Done, Kept
<1>13. RestTyped' /\ ShelfInv'
  BY <1>12 DEF GesturesInv, RestTyped, ShelfInv
<1>14. DeedInv'
  BY <1>2, <1>3, <1>5, <1>7, <1>12 DEF GesturesInv, DeedInv
<1>15. FlowInv'
  BY <1>2, <1>3, <1>5, <1>7, <1>8, <1>12 DEF GesturesInv, FlowInv
<1> QED  BY <1>5, <1>9, <1>11, <1>12, <1>13, <1>14, <1>15 DEF GesturesInv

\* A dock that is lowered holds no gesture, whoever lowered it.
LEMMA LoweredKeeps ==
    ASSUME GesturesInv, NEW h, HandOK(h), LoweredBy(h), upsets' \in 0 .. MaxUpsets
    PROVE  GesturesInv'
<1>1. HandOK(hand') /\ Quiet(hand') /\ ~hand'.capture
  BY HiddenHand DEF LoweredBy
<1>2. ~DragActive(hand') /\ OnShelf(hand', shelf') /\ ~(hand'.pressed > 0) /\ ~hand'.snap
  BY <1>1, QuietHand DEF Quiet
<1>3. UNCHANGED <<pinned, shelf, live, battery, down, posts, release, lost, asked, deeds, strokes>>
  BY DEF LoweredBy, Done
<1>4. menu' \in [open : BOOLEAN, tile : TileNames \cup {NoTile}, pin : Nat]
  BY DEF LoweredBy, NoMenu
<1>5. RestTyped' /\ ShelfInv'
  BY <1>3, <1>4 DEF GesturesInv, RestTyped, ShelfInv, LoweredBy
<1>6. DeedInv' /\ FlowInv'
  BY <1>1, <1>2, <1>3 DEF GesturesInv, DeedInv, FlowInv
<1> QED  BY <1>1, <1>2, <1>5, <1>6 DEF GesturesInv

LEMMA RaiseKeeps ==
    ASSUME GesturesInv, Raise
    PROVE  GesturesInv'
<1>1. /\ raised' = TRUE
      /\ UNCHANGED <<pinned, shelf, live, battery, hand, menu, down, posts, release, upsets,
                     lost, asked, deeds, strokes>>
  BY DEF Raise, Done
<1>2. RestTyped' /\ ShelfInv' /\ DeedInv' /\ FlowInv'
  BY <1>1 DEF GesturesInv, RestTyped, ShelfInv, DeedInv, FlowInv
<1> QED  BY <1>1, <1>2 DEF GesturesInv

LEMMA OnePost ==
    ASSUME NEW S, NEW x \in S
    PROVE  <<x>> \in Seq(S) /\ Len(<<x>>) = 1 /\ <<x>>[1] = x /\ <<x>> # <<>>
OBVIOUS

LEMMA ReleaseKeeps ==
    ASSUME GesturesInv, NEW heard \in BOOLEAN, NEW below \in BOOLEAN, Release(heard, below)
    PROVE  GesturesInv'
<1>1. /\ posts = <<>> /\ down' = FALSE
      /\ release' = (raised /\ (hand.capture \/ below))
      /\ posts' = IF DragActive(hand) /\ heard THEN <<"up">> ELSE <<>>
      /\ lost' = ~(release' \/ heard)
      /\ UNCHANGED <<hand, menu, asked, deeds, strokes, pinned, shelf, live, battery, raised>>
  BY DEF Release, Kept
<1>2. posts' = <<>> \/ posts' = <<"up">>
  BY <1>1
<1>3. /\ posts' \in Seq({"up"} \cup Branches) /\ Len(posts') <= 1
      /\ posts' # <<>> => posts'[1] = "up"
  <2>1. CASE posts' = <<>>
    BY <2>1
  <2>2. CASE posts' = <<"up">>
    BY <2>2, OnePost
  <2> QED  BY <1>2, <2>1, <2>2
<1>4. release' \in BOOLEAN /\ lost' \in BOOLEAN
  BY <1>1
<1>5. upsets' \in 0 .. MaxUpsets
  BY GesturesAreBounded DEF Release, GesturesInv, RestTyped
<1>6. RestTyped' /\ ShelfInv'
  BY <1>1, <1>3, <1>4, <1>5 DEF GesturesInv, RestTyped, ShelfInv
<1>7. DeedInv'
  BY <1>1 DEF GesturesInv, DeedInv
<1>8. FlowInv'
  <2>1. DragActive(hand') => release' \/ posts' # <<>> \/ lost'
    BY <1>1
  <2>2. hand'.capture => raised' /\ release'
    BY <1>1 DEF GesturesInv, FlowInv
  <2> QED  BY <1>3, <2>1, <2>2 DEF FlowInv
<1> QED  BY <1>1, <1>6, <1>7, <1>8 DEF GesturesInv

\* The branch of a release is posted, unless the tile glides back.
LEMMA BranchPosted ==
    /\ UpHandled(<<>>) \in Seq({"up"} \cup Branches) /\ Len(UpHandled(<<>>)) <= 1
    /\ IF hand.snap THEN UpHandled(<<>>) = <<>> ELSE UpHandled(<<>>) # <<>>
<1> DEFINE u == UpHandled(<<>>)
           b == Branch(hand)
<1>1. b \in {"up"} \cup Branches
  BY DEF Branch, Branches
<1>2. u = IF hand.snap THEN <<>> ELSE Append(<<>>, b)
  BY DEF UpHandled
<1> HIDE DEF u, b
<1>3. Append(<<>>, b) = <<b>>
  OBVIOUS
<1>4. CASE hand.snap
  <2>1. u = <<>>
    BY <1>2, <1>4
  <2>2. u \in Seq({"up"} \cup Branches) /\ Len(u) <= 1
    BY <2>1
  <2> QED  BY <1>4, <2>1, <2>2, Zenon DEF u
<1>5. CASE ~hand.snap
  <2>1. u = <<b>>
    BY <1>2, <1>3, <1>5
  <2>2. u \in Seq({"up"} \cup Branches) /\ Len(u) = 1 /\ u # <<>>
    BY <1>1, <2>1, OnePost
  <2>3. u \in Seq({"up"} \cup Branches) /\ Len(u) <= 1
    BY <2>2
  <2> QED  BY <1>5, <2>2, <2>3, Zenon DEF u
<1> QED  BY <1>4, <1>5

LEMMA UpKeeps ==
    ASSUME GesturesInv, posts' \in Seq({"up"} \cup Branches), Len(posts') <= 1,
           IF hand.snap THEN posts' = <<>> ELSE posts' # <<>>,
           release' \in {FALSE, release},
           UNCHANGED <<hand, menu, down, upsets>>, Done, Kept
    PROVE  GesturesInv'
<1>1. UNCHANGED <<hand, menu, down, upsets, lost, asked, deeds, strokes,
                  pinned, shelf, live, battery, raised>>
  BY DEF Done, Kept
<1>2. RestTyped' /\ ShelfInv'
  BY <1>1 DEF GesturesInv, RestTyped, ShelfInv
<1>3. DeedInv'
  BY <1>1 DEF GesturesInv, DeedInv
<1>4. FlowInv'
  BY <1>1 DEF GesturesInv, FlowInv, HandOK
<1> QED  BY <1>1, <1>2, <1>3, <1>4 DEF GesturesInv

\* What was posted is the only post.
LEMMA OnlyPost ==
    ASSUME GesturesInv, posts # <<>>
    PROVE  Tail(posts) = <<>> /\ Head(posts) = posts[1]
BY DEF GesturesInv, RestTyped, FlowInv

LEMMA PostedUpKeeps ==
    ASSUME GesturesInv, PostedUp
    PROVE  GesturesInv'
<1>1. posts' = UpHandled(<<>>)
  BY OnlyPost DEF PostedUp
<1>2. /\ posts' \in Seq({"up"} \cup Branches) /\ Len(posts') <= 1
      /\ IF hand.snap THEN posts' = <<>> ELSE posts' # <<>>
  BY <1>1, BranchPosted
<1> QED  BY <1>2, UpKeeps DEF PostedUp

LEMMA InputUpKeeps ==
    ASSUME GesturesInv, InputUp
    PROVE  GesturesInv'
<1>1. posts' = UpHandled(<<>>)
  BY DEF InputUp
<1>2. /\ posts' \in Seq({"up"} \cup Branches) /\ Len(posts') <= 1
      /\ IF hand.snap THEN posts' = <<>> ELSE posts' # <<>>
  BY <1>1, BranchPosted
<1> QED  BY <1>2, UpKeeps DEF InputUp

\* A branch whose hand ends with nothing leaves nothing to come.
LEMMA BranchEnds ==
    ASSUME GesturesInv, NEW what, Deferred(what), HandOK(hand'), Quiet(hand'), ~hand'.capture,
           deeds' \in Seq(TileNames), Len(deeds') <= 1,
           deeds' # <<>> /\ asked \notin Tray => deeds'[1] = asked, ShelfInv'
    PROVE  GesturesInv'
<1>1. /\ posts' = <<>>
      /\ UNCHANGED <<live, battery, raised, menu, down, release, lost, asked, strokes, upsets>>
  BY OnlyPost DEF Deferred
<1>2. ~DragActive(hand') /\ OnShelf(hand', shelf') /\ ~(hand'.pressed > 0) /\ ~hand'.snap
  BY QuietHand DEF Quiet
<1>3. RestTyped'
  BY <1>1 DEF GesturesInv, RestTyped
<1>4. DeedInv' /\ FlowInv'
  BY <1>1, <1>2 DEF DeedInv, FlowInv
<1> QED  BY <1>2, <1>3, <1>4 DEF GesturesInv

LEMMA EndsKeep ==
    ASSUME GesturesInv, NEW what, Deferred(what), hand' = Ends(hand),
           UNCHANGED <<pinned, shelf, deeds>>
    PROVE  GesturesInv'
<1>1. HandOK(hand') /\ Quiet(hand') /\ ~hand'.capture
  BY EndsHand DEF GesturesInv, Deferred
<1>2. /\ deeds' \in Seq(TileNames) /\ Len(deeds') <= 1
      /\ deeds' # <<>> /\ asked \notin Tray => deeds'[1] = asked
  BY DEF GesturesInv, RestTyped, DeedInv
<1>3. ShelfInv'
  BY DEF GesturesInv, ShelfInv
<1> QED  BY <1>1, <1>2, <1>3, BranchEnds

\* What a press that is still there does is the first, and to its tile.
LEMMA FirstDeed ==
    ASSUME GesturesInv, hand.pressed > 0, NEW t \in TileNames,
           t = hand.target \/ (hand.target = NoTile /\ asked \in Tray)
    PROVE  /\ Append(deeds, t) \in Seq(TileNames) /\ Len(Append(deeds, t)) <= 1
           /\ asked \notin Tray => Append(deeds, t)[1] = asked
<1>1. deeds = <<>> /\ (asked \notin Tray => asked = hand.target)
  BY NamesApart DEF GesturesInv, DeedInv
<1>2. Append(deeds, t) = <<t>>
  BY <1>1
<1>3. asked \notin Tray => t = asked
  BY <1>1
<1> QED  BY <1>2, <1>3, OnePost

LEMMA ClickKeeps ==
    ASSUME GesturesInv, DeferredClick
    PROVE  GesturesInv'
<1>1. Deferred("clicked") /\ UNCHANGED <<pinned, shelf>>
  BY DEF DeferredClick
<1>2. CASE hand.pressed \in DOMAIN Shown
  <2>1. /\ deeds' = Append(deeds, Shown[hand.pressed])
        /\ hand' = Ends(Suppressed(ClearPress(hand)))
    BY <1>2 DEF DeferredClick
  <2>2. PICK rest \in Seq(Programs) : ShelfRow(shelf, pinned, rest)
    BY DEF GesturesInv, ShelfInv
  <2>3. /\ Shown \in Seq(TileNames)
        /\ \A i \in DOMAIN shelf : i \in DOMAIN Shown /\ Shown[i] = shelf[i].tile
        /\ \A i \in DOMAIN Shown \ DOMAIN shelf : Shown[i] \in Tray
    BY <2>2, ShownTiles
  <2>4. hand.pressed > 0 /\ Shown[hand.pressed] \in TileNames
    BY <1>2, <2>3
  <2>5. HandOK(hand) /\ OnShelf(hand, shelf) /\ DeedInv
    BY DEF GesturesInv
  <2>6. \/ Shown[hand.pressed] = hand.target
        \/ hand.target = NoTile /\ asked \in Tray
    <3>1. CASE hand.pressed \in DOMAIN shelf
      BY <2>3, <2>4, <2>5, <3>1 DEF OnShelf
    <3>2. CASE hand.pressed \notin DOMAIN shelf
      <4>1. hand.target = NoTile
        BY <2>5, <3>2 DEF OnShelf
      <4> QED  BY <2>4, <2>5, <4>1 DEF DeedInv
    <3> QED  BY <3>1, <3>2
  <2>7. /\ deeds' \in Seq(TileNames) /\ Len(deeds') <= 1
        /\ asked \notin Tray => deeds'[1] = asked
    BY <2>1, <2>4, <2>6, FirstDeed
  <2>8. HandOK(Suppressed(ClearPress(hand))) /\ Quiet(Suppressed(ClearPress(hand)))
    <3>1. HandOK(ClearPress(hand)) /\ Quiet(ClearPress(hand))
      BY <2>5, ClearedHand DEF HandOK
    <3> QED  BY <3>1, SuppressedHand
  <2>9. HandOK(hand') /\ Quiet(hand') /\ ~hand'.capture
    BY <2>1, <2>8, EndsHand DEF Quiet
  <2>10. ShelfInv'
    BY <1>1 DEF GesturesInv, ShelfInv
  <2> QED  BY <1>1, <2>7, <2>9, <2>10, BranchEnds
<1>3. CASE hand.pressed \notin DOMAIN Shown
  BY <1>1, <1>3, EndsKeep DEF DeferredClick
<1> QED  BY <1>2, <1>3

\* The tile glides back: it is still dragged, and has let the capture go.
LEMMA SnapsBackKeeps ==
    ASSUME GesturesInv, NEW to, Deferred("dropped"), hand.dragged > 0, SnapsBack(to)
    PROVE  GesturesInv'
<1> DEFINE f == [hand EXCEPT !.snap = TRUE]
           g == [f EXCEPT !.capture = FALSE]
<1>1. HandOK(hand) /\ OnShelf(hand, shelf) /\ hand \in Hand
  BY DEF GesturesInv, HandOK
<1>2. /\ f \in Hand /\ f.pressed = hand.pressed /\ f.target = hand.target
      /\ f.dragged = hand.dragged /\ f.scaling = hand.scaling /\ f.snap = TRUE
      /\ f.ghost = hand.ghost /\ f.capture = hand.capture
  BY <1>1 DEF Hand
<1> HIDE DEF f
<1>3. /\ g \in Hand /\ g.pressed = f.pressed /\ g.target = f.target /\ g.dragged = f.dragged
      /\ g.scaling = f.scaling /\ g.snap = f.snap /\ g.ghost = f.ghost /\ g.capture = FALSE
  BY <1>2 DEF Hand
<1> HIDE DEF g
<1>4. LetGo(f) \in {f, g} /\ ~LetGo(f).capture
  <2>1. CASE f.capture
    <3>1. DragActive(g)
      BY <1>2, <1>3 DEF DragActive
    <3> QED  BY <1>3, <2>1, <3>1 DEF LetGo, CaptureChanged, g
  <2>2. CASE ~f.capture
    BY <2>2 DEF LetGo
  <2> QED  BY <2>1, <2>2
<1>5. hand' = LetGo(f)
  <2>1. LetGo(f).snap
    BY <1>2, <1>3, <1>4
  <2> QED  BY <2>1 DEF SnapsBack, Ends, f
<1>6. /\ hand' \in Hand /\ hand'.pressed = hand.pressed /\ hand'.target = hand.target
      /\ hand'.dragged = hand.dragged /\ hand'.snap = TRUE /\ hand'.ghost = hand.ghost
      /\ ~hand'.capture
  BY <1>2, <1>3, <1>4, <1>5
<1>7. HandOK(hand') /\ OnShelf(hand', shelf')
  <2>1. DragActive(hand')
    BY <1>6 DEF DragActive
  <2>2. UNCHANGED shelf
    BY DEF SnapsBack
  <2> QED  BY <1>1, <1>6, <2>1, <2>2 DEF HandOK, OnShelf
<1>8. /\ posts' = <<>>
      /\ UNCHANGED <<pinned, shelf, deeds, live, battery, raised, menu, down, release, lost,
                     asked, strokes, upsets>>
  BY OnlyPost DEF Deferred, SnapsBack
<1>9. RestTyped' /\ ShelfInv'
  BY <1>8 DEF GesturesInv, RestTyped, ShelfInv
<1>10. DeedInv' /\ FlowInv'
  BY <1>6, <1>8 DEF GesturesInv, DeedInv, FlowInv
<1> QED  BY <1>7, <1>9, <1>10 DEF GesturesInv

LEMMA DropKeeps ==
    ASSUME GesturesInv, NEW to \in {0} \cup Insertions, DeferredDrop(to)
    PROVE  GesturesInv'
<1>1. Deferred("dropped") /\ hand.dragged > 0
  BY DEF DeferredDrop
<1>2. CASE SnapsBack(to)
  BY <1>1, <1>2, SnapsBackKeeps
<1>3. CASE /\ to > 0 /\ ~Stays(to) /\ Completed(to)
           /\ deeds' = Append(deeds, shelf[hand.dragged].tile)
           /\ hand' = Ends(ClearPress(hand))
  <2> DEFINE from == hand.dragged
  <2>1. PICK rest \in Seq(Programs) : ShelfRow(shelf, pinned, rest)
    BY DEF GesturesInv, ShelfInv
  <2>2. /\ pinned \in Seq(Programs) /\ Distinct(pinned) /\ Apart(pinned, rest)
        /\ Distinct(rest) /\ Len(pinned) \in Nat
    BY <2>1 DEF ShelfRow
  <2>3. /\ HandOK(hand) /\ OnShelf(hand, shelf) /\ hand.pressed = from /\ hand.target # NoTile
        /\ IsPin(shelf, from)
    BY <1>1 DEF GesturesInv, HandOK, OnShelf
  <2>4. from \in DOMAIN shelf /\ shelf[from].pin > 0 /\ shelf[from].tile = hand.target
    BY <1>1, <2>3 DEF IsPin, OnShelf
  <2>5. from \in 3 .. Len(pinned) + 2 /\ shelf[from].pin = from - 2
    BY <2>1, <2>4, RowTiles
  <2> HIDE DEF from
  <2>6. to \in 3 .. Len(pinned) + 3 /\ to # from
    BY <1>3, <2>1, MovableIsEnd DEF Insertions, from
  <2>7. Before(to) + 1 = to - 2
    <3>1. DOMAIN shelf = 1 .. Width(pinned, rest) /\ Len(rest) \in Nat
      BY <2>1, RowTiles DEF ShelfRow
    <3>2. Width(pinned, rest) \in Nat /\ Width(pinned, rest) >= Len(pinned) + 2
      BY <2>2, <3>1 DEF Width
    <3>3. \A i \in 1 .. to - 1 : i \in DOMAIN shelf
      BY <2>2, <2>6, <3>1, <3>2
    <3>4. \A i \in 1 .. to - 1 : shelf[i].pin > 0 <=> i \in 3 .. Len(pinned) + 2
      BY <2>1, <3>3, RowTiles
    <3>5. to - 1 \in Nat /\ 2 <= to - 1 /\ to - 1 <= Len(pinned) + 2 /\ Len(pinned) + 2 \in Nat
      BY <2>2, <2>6
    <3>6. PinsUpTo(shelf, to - 1) = (to - 1) - 2
      BY <3>4, <3>5, PinsCounted
    <3> QED  BY <2>2, <2>6, <3>6 DEF Before
  <2>8. /\ pinned' = Shifted(pinned, from - 2, to - 2)
        /\ shelf' = Renumbered(Shifted(shelf, from, to))
    BY <1>3, <2>5, <2>7 DEF Completed, from
  <2>9. shelf' = Row(pinned', rest)
    BY <2>1, <2>2, <2>5, <2>6, <2>8, ShiftedRow
  <2>10. from - 2 \in 1 .. Len(pinned) /\ to - 2 \in 1 .. Len(pinned) + 1 /\ to - 2 # from - 2
    BY <2>2, <2>5, <2>6
  <2>11. pinned' \in Seq(Programs) /\ Distinct(pinned') /\ Apart(pinned', rest)
    BY <2>2, <2>8, <2>10, ShiftedPins
  <2>12. ShelfInv'
    BY <2>2, <2>9, <2>11 DEF ShelfInv, ShelfRow
  <2>13. shelf[from].tile \in TileNames /\ hand.pressed > 0
    <3>1. shelf[from] \in ShelfTiles
      BY <2>1, <2>4, RowTiles
    <3> QED  BY <1>1, <2>3, <3>1 DEF ShelfTiles, from
  <2>14. /\ deeds' \in Seq(TileNames) /\ Len(deeds') <= 1
         /\ asked \notin Tray => deeds'[1] = asked
    BY <1>3, <2>4, <2>13, FirstDeed DEF from
  <2>15. HandOK(ClearPress(hand)) /\ ~ClearPress(hand).snap
    BY <2>3, ClearedHand DEF HandOK, Quiet
  <2>16. HandOK(hand') /\ Quiet(hand') /\ ~hand'.capture
    BY <1>3, <2>15, EndsHand
  <2> QED  BY <1>1, <2>12, <2>14, <2>16, BranchEnds
<1> QED  BY <1>2, <1>3 DEF DeferredDrop

LEMMA SnapEndsKeeps ==
    ASSUME GesturesInv, SnapEnds
    PROVE  GesturesInv'
<1>1. HandOK(hand') /\ Quiet(hand') /\ hand'.capture = hand.capture
  BY SnappedBackHand DEF SnapEnds, GesturesInv
<1>2. Lesser(hand', hand) /\ OnShelf(hand', shelf')
  BY <1>1, QuietIsLesser, QuietHand
<1>3. RestTyped' /\ ShelfInv'
  BY DEF GesturesInv, RestTyped, ShelfInv, SnapEnds, Done, Kept
<1> QED  BY <1>1, <1>2, <1>3, GestureContinues DEF SnapEnds, Kept

\* What only writes down whether the last sample is old.
LEMMA LapseKeeps ==
    ASSUME GesturesInv, NEW b \in BOOLEAN, hand' = [hand EXCEPT !.lapse = b],
           UNCHANGED <<menu, down, posts, release>>, Done, Kept, upsets' \in 0 .. MaxUpsets
    PROVE  GesturesInv'
<1>1. /\ HandOK(hand') /\ hand'.pressed = hand.pressed /\ hand'.target = hand.target
      /\ hand'.dragged = hand.dragged /\ hand'.scaling = hand.scaling
      /\ hand'.snap = hand.snap /\ hand'.capture = hand.capture
  BY LapseHand DEF GesturesInv
<1>2. Lesser(hand', hand) /\ OnShelf(hand', shelf')
  BY <1>1 DEF GesturesInv, Lesser, OnShelf, DragActive, Kept
<1>3. RestTyped' /\ ShelfInv'
  BY DEF GesturesInv, RestTyped, ShelfInv, Done, Kept
<1> QED  BY <1>1, <1>2, <1>3, GestureContinues DEF Kept

LEMMA PumpCursorKeeps ==
    ASSUME GesturesInv, PumpCursor
    PROVE  GesturesInv'
<1> DEFINE f == IF hand.pressed > 0 THEN Judged(hand) ELSE hand
<1>1. hand' = [f EXCEPT !.lapse = FALSE]
  BY DEF PumpCursor
<1>2. f = hand \/ f = Suppressed(ClearPress(hand))
  BY DEF Judged
<1>3. upsets' \in 0 .. MaxUpsets
  BY DEF GesturesInv, RestTyped, PumpCursor
<1>4. CASE f = hand
  BY <1>1, <1>3, <1>4, LapseKeeps DEF PumpCursor
<1>5. CASE f = Suppressed(ClearPress(hand))
  <2>1. HandOK(hand)
    BY DEF GesturesInv
  <2>2. HandOK(ClearPress(hand)) /\ Quiet(ClearPress(hand)) /\ ClearPress(hand).capture = hand.capture
    BY <2>1, ClearedHand DEF HandOK
  <2>3. HandOK(f) /\ Quiet(f) /\ f.capture = hand.capture
    BY <1>5, <2>2, SuppressedHand
  <2> HIDE DEF f
  <2>4. HandOK(hand') /\ Quiet(hand') /\ hand'.capture = hand.capture
    BY <1>1, <2>3, LapseHand
  <2>5. Lesser(hand', hand) /\ OnShelf(hand', shelf')
    BY <2>4, QuietIsLesser, QuietHand
  <2>6. RestTyped' /\ ShelfInv'
    BY DEF GesturesInv, RestTyped, ShelfInv, PumpCursor, Done, Kept
  <2> QED  BY <2>4, <2>5, <2>6, GestureContinues DEF PumpCursor, Kept
<1> QED  BY <1>2, <1>4, <1>5

LEMMA CaptureStolenKeeps ==
    ASSUME GesturesInv, CaptureStolen
    PROVE  GesturesInv'
<1>1. HandOK(hand) /\ hand.capture /\ hand' = LetGo(hand)
  BY DEF GesturesInv, CaptureStolen, LetGo
<1>2. /\ HandOK(hand') /\ ~hand'.capture /\ hand'.dragged = hand.dragged
      /\ hand'.scaling = hand.scaling /\ hand'.snap = hand.snap
  BY <1>1, LetGoHand
<1>3. \/ hand'.pressed = hand.pressed /\ hand'.target = hand.target
      \/ Quiet(hand')
  <2> DEFINE f == [hand EXCEPT !.capture = FALSE]
  <2>1. hand \in Hand
    BY <1>1 DEF HandOK
  <2>2. /\ f \in Hand /\ f.pressed = hand.pressed /\ f.target = hand.target
        /\ f.ghost = hand.ghost /\ f.dragged = hand.dragged /\ f.snap = hand.snap
    BY <2>1 DEF Hand
  <2>3. hand' = f \/ hand' = ClearPress(f)
    BY <1>1 DEF LetGo, CaptureChanged
  <2> HIDE DEF f
  <2>4. Quiet(ClearPress(f))
    BY <1>1, <2>2, ClearedHand DEF HandOK
  <2> QED  BY <2>2, <2>3, <2>4
<1>4. Lesser(hand', hand) /\ OnShelf(hand', shelf')
  <2>1. CASE Quiet(hand')
    BY <1>2, <2>1, QuietIsLesser, QuietHand
  <2>2. CASE hand'.pressed = hand.pressed /\ hand'.target = hand.target
    BY <1>2, <2>2 DEF GesturesInv, Lesser, OnShelf, DragActive, CaptureStolen, Kept
  <2> QED  BY <1>3, <2>1, <2>2
<1>5. upsets' \in 0 .. MaxUpsets
  BY UpsetTyped DEF CaptureStolen
<1>6. RestTyped' /\ ShelfInv'
  BY <1>5 DEF GesturesInv, RestTyped, ShelfInv, CaptureStolen, Done, Kept
<1> QED  BY <1>2, <1>4, <1>6, GestureContinues DEF CaptureStolen, Kept

LEMMA RefreshKeeps ==
    ASSUME GesturesInv, NEW l \in SUBSET Programs, Refresh(l)
    PROVE  GesturesInv'
<1>1. \E rest \in Seq(Programs) : ShelfRow(shelf', pinned, rest)
  BY RebuiltRow DEF GesturesInv, Refresh
<1>2. hand' = Remap(hand, shelf') \/ (hand' = hand /\ shelf' = shelf)
  BY DEF Refresh, ShelfChanged
<1>3. upsets' \in 0 .. MaxUpsets
  BY UpsetTyped DEF Refresh
<1>4. RestTyped'
  BY <1>3 DEF GesturesInv, RestTyped, Refresh, Done
<1> QED  BY <1>1, <1>2, <1>4, ShelfReplaced DEF Refresh

\* A command of the menu that leaves p pinned.
LEMMA ChoosesKeeps ==
    ASSUME GesturesInv, NEW p \in Seq(Programs), Distinct(p), Chooses(p)
    PROVE  GesturesInv'
<1>1. \E rest \in Seq(Programs) : ShelfRow(shelf', pinned', rest)
  BY SplicedRow DEF GesturesInv, RestTyped, Chooses
<1>2. RestTyped'
  BY DEF GesturesInv, RestTyped, Chooses, Done, NoMenu
<1> QED  BY <1>1, <1>2, ShelfReplaced DEF Chooses

LEMMA PinsTyped ==
    ASSUME GesturesInv
    PROVE  pinned \in Seq(Programs) /\ Distinct(pinned)
BY DEF GesturesInv, ShelfInv, ShelfRow

LEMMA StepKeeps ==
    ASSUME GesturesInv, [GesturesNext]_gestureVars
    PROVE  GesturesInv'
<1> SUFFICES ASSUME GesturesNext
             PROVE  GesturesInv'
  <2>1. ASSUME UNCHANGED gestureVars PROVE GesturesInv'
    <3>1. UNCHANGED <<pinned, shelf, live, battery, hand, menu, down, posts, release,
                      raised, lost, asked, deeds, strokes, upsets>>
      BY <2>1 DEF gestureVars
    <3>2. RestTyped'
      BY <3>1 DEF GesturesInv, RestTyped
    <3> QED  BY <3>1, <3>2, HandRests DEF Done
  <2> QED  BY <2>1
<1>1. CASE \E i \in 0 .. Len(Shown) : Press(i) \/ RightClick(i)
  BY <1>1, PressKeeps, RightClickKeeps
<1>2. CASE DragStarts
  BY <1>2, DragStartsKeeps
<1>3. CASE MovesOff
  <2>1. HandOK(Sampled(hand))
    BY LapseHand DEF GesturesInv, Sampled
  <2>2. upsets' \in 0 .. MaxUpsets
    BY <1>3 DEF MovesOff, GesturesInv, RestTyped
  <2> QED  BY <1>3, <2>1, <2>2, LoweredKeeps DEF MovesOff
<1>4. CASE Lower
  <2>1. upsets' \in 0 .. MaxUpsets
    BY <1>4, UpsetTyped DEF Lower, Upset
  <2> QED  BY <1>4, <2>1, LoweredKeeps DEF Lower, GesturesInv
<1>5. CASE Raise
  BY <1>5, RaiseKeeps
<1>6. CASE \E heard, below \in BOOLEAN : Release(heard, below)
  BY <1>6, ReleaseKeeps
<1>7. CASE PostedUp
  BY <1>7, PostedUpKeeps
<1>8. CASE InputUp
  BY <1>8, InputUpKeeps
<1>9. CASE DeferredScale
  BY <1>9, EndsKeep DEF DeferredScale
<1>10. CASE NothingToDrop
  BY <1>10, EndsKeep DEF NothingToDrop
<1>11. CASE DeferredClick
  BY <1>11, ClickKeeps
<1>12. CASE \E to \in {0} \cup Insertions : DeferredDrop(to)
  BY <1>12, DropKeeps
<1>13. CASE SnapEnds
  BY <1>13, SnapEndsKeeps
<1>14. CASE Hitch
  <2>1. upsets' \in 0 .. MaxUpsets
    BY <1>14, UpsetTyped DEF Hitch
  <2> QED  BY <1>14, <2>1, LapseKeeps DEF Hitch
<1>15. CASE Moves
  <2>1. upsets' \in 0 .. MaxUpsets
    BY <1>15 DEF Moves, GesturesInv, RestTyped
  <2> QED  BY <1>15, <2>1, LapseKeeps DEF Moves, Sampled
<1>16. CASE PumpCursor
  BY <1>16, PumpCursorKeeps
<1>17. CASE CaptureStolen
  BY <1>17, CaptureStolenKeeps
<1>18. CASE \E l \in SUBSET Programs : Refresh(l)
  BY <1>18, RefreshKeeps
<1>19. CASE TrayChanges
  <2>1. upsets' \in 0 .. MaxUpsets
    BY <1>19, UpsetTyped DEF TrayChanges
  <2>2. RestTyped'
    BY <1>19, <2>1 DEF TrayChanges, Done, GesturesInv, RestTyped
  <2> QED  BY <1>19, <2>2, HandRests DEF TrayChanges
<1>20. CASE MenuCloses
  <2>1. RestTyped'
    BY <1>20 DEF MenuCloses, NoMenu, Done, Kept, GesturesInv, RestTyped
  <2> QED  BY <1>20, <2>1, HandRests DEF MenuCloses, Kept
<1>21. CASE UnpinTile
  <2>1. RemoveAt(pinned, menu.pin) \in Seq(Programs) /\ Distinct(RemoveAt(pinned, menu.pin))
    BY <1>21, PinsTyped, PinRemoved DEF UnpinTile
  <2> QED  BY <1>21, <2>1, ChoosesKeeps DEF UnpinTile
<1>22. CASE PinTile
  <2>1. Append(pinned, menu.tile) \in Seq(Programs) /\ Distinct(Append(pinned, menu.tile))
    BY <1>22, PinsTyped, PinAppended DEF PinTile
  <2> QED  BY <1>22, <2>1, ChoosesKeeps DEF PinTile
<1>23. CASE \E t \in Programs : PinForeground(t)
  <2>1. PICK t \in Programs : PinForeground(t)
    BY <1>23
  <2>2. Append(pinned, t) \in Seq(Programs) /\ Distinct(Append(pinned, t))
    BY <2>1, PinsTyped, PinAppended DEF PinForeground
  <2> QED  BY <2>1, <2>2, ChoosesKeeps DEF PinForeground
<1> QED  BY <1>1, <1>2, <1>3, <1>4, <1>5, <1>6, <1>7, <1>8, <1>9, <1>10, <1>11, <1>12,
            <1>13, <1>14, <1>15, <1>16, <1>17, <1>18, <1>19, <1>20, <1>21, <1>22, <1>23
         DEF GesturesNext

-----------------------------------------------------------------------------

\* The inductive invariant of the gestures holds in every state: the row is the pins
\* in order and then what else runs, the gesture's indices name tiles of it, and
\* what a press began belongs to the tile that was pressed.
THEOREM GesturesInvHolds == GesturesSpec => []GesturesInv
<1>1. GesturesInit => GesturesInv
  BY InvInitially
<1>2. GesturesInv /\ [GesturesNext]_gestureVars => GesturesInv'
  BY StepKeeps
<1> QED  BY <1>1, <1>2, PTL DEF GesturesSpec

\* A press does one thing, to the tile that was pressed, and leaves no ghost, capture
\* or drag behind, whatever refresh, menu, stall or second messenger comes between the
\* press and what its release posts (WM_LBUTTONDOWN to kDeferredClickMessage).
THEOREM CleanGestures == GesturesSpec => []GesturesAreClean
<1>1. GesturesInv => GesturesAreClean
  BY InvIsEnough
<1> QED  BY <1>1, GesturesInvHolds, PTL

\* The number of a tile is that of its own pin in the configuration, through every
\* rebuild of the row, pin, unpin and move of a pin (BuildDisplayAppsSnapshot,
\* ApplyPinUnpinLayoutChange, CompleteDrag).
THEOREM PinsAreCarried == GesturesSpec => []TilesCarryTheirPins
<1>1. GesturesInv => TilesCarryTheirPins
  BY InvIsEnough
<1> QED  BY <1>1, GesturesInvHolds, PTL

-----------------------------------------------------------------------------
(* The refresh of the row.                                                 *)

USE DEF vars, desktop, uiVars, shared, worker

-----------------------------------------------------------------------------
(* Type correctness.                                                       *)

\* The rows, snapshots and jobs the actions write are of their types.
LEMMA RowTyped ==
    /\ \A p \in Seq(Apps), w \in SUBSET Apps : RowOf(p, w) \in Rows /\ RowOf(p, w).pins = p
    /\ \A r \in Rows : r.pins \in Seq(Apps) /\ r.open \in SUBSET Apps /\ TilesOf(r) \in Tiles
    /\ \A r \in Rows, t \in Tiles : [t EXCEPT !.dots = TilesOf(r).dots] \in Tiles
<1>1. \A p \in Seq(Apps), w \in SUBSET Apps : RowOf(p, w) \in Rows /\ RowOf(p, w).pins = p
  BY DEF RowOf, Rows
<1>2. \A r \in Rows : r.pins \in Seq(Apps) /\ r.open \in SUBSET Apps /\ TilesOf(r) \in Tiles
  BY DEF Rows, Tiles, TilesOf
<1>3. ASSUME NEW r \in Rows, NEW t \in Tiles
      PROVE  [t EXCEPT !.dots = TilesOf(r).dots] \in Tiles
  <2>1. TilesOf(r).dots \in SUBSET Apps
    BY <1>2 DEF Tiles
  <2> QED  BY <2>1 DEF Tiles
<1> QED  BY <1>1, <1>2, <1>3

LEMMA SnapshotTyped ==
    /\ None \in Snapshots /\ None.gen = 0 /\ None.kept = FALSE
    /\ \A s \in Snapshots : s.gen \in Nat /\ s.row \in Rows /\ s.kept \in BOOLEAN
BY EmptySeq DEF None, Snapshots, Rows

LEMMA JobTyped ==
    /\ NoJob \in Jobs
    /\ \A j \in Jobs : /\ j.gen \in Nat /\ j.epoch \in Nat
                       /\ j.pins \in Seq(Apps) /\ j.row \in Rows /\ j.open \in SUBSET Apps
    /\ \A j \in Jobs, w \in SUBSET Apps :
          [j EXCEPT !.open = w] \in Jobs /\ [j EXCEPT !.open = w].gen = j.gen
          /\ [j EXCEPT !.open = w].pins = j.pins
    /\ \A j \in Jobs, e \in Nat :
          [j EXCEPT !.epoch = e] \in Jobs /\ [j EXCEPT !.epoch = e].gen = j.gen
          /\ [j EXCEPT !.epoch = e].pins = j.pins
<1>1. NoJob \in Jobs
  BY EmptySeq DEF NoJob, None, Jobs, Rows
<1> QED  BY <1>1 DEF Jobs

\* What CompleteDrag and Unpin do to the pins.
LEMMA EditedPinsTyped ==
    ASSUME NEW p \in Seq(Apps), NEW i \in DOMAIN p
    PROVE  /\ SubSeq(p, 1, i - 1) \o SubSeq(p, i + 1, Len(p)) \in Seq(Apps)
           /\ \A k \in DOMAIN p : Moved(p, i, k) \in Seq(Apps)
<1> DEFINE rest == SubSeq(p, 1, i - 1) \o SubSeq(p, i + 1, Len(p))
<1>1. i \in 1 .. Len(p) /\ p[i] \in Apps
  BY ElementOfSeq
<1>2. SubSeq(p, 1, i - 1) \in Seq(Apps) /\ Len(SubSeq(p, 1, i - 1)) = i - 1
  BY <1>1, SubSeqProperties
<1>3. SubSeq(p, i + 1, Len(p)) \in Seq(Apps) /\ Len(SubSeq(p, i + 1, Len(p))) = Len(p) - i
  BY <1>1, SubSeqProperties
<1>4. rest \in Seq(Apps) /\ Len(rest) = Len(p) - 1
  <2>1. rest \in Seq(Apps)
    BY <1>2, <1>3
  <2>2. Len(rest) = (i - 1) + (Len(p) - i)
    BY <1>2, <1>3
  <2>3. (i - 1) + (Len(p) - i) = Len(p) - 1
    BY <1>1
  <2> QED  BY <2>1, <2>2, <2>3, Zenon
<1>5. ASSUME NEW k \in DOMAIN p PROVE Moved(p, i, k) \in Seq(Apps)
  <2> HIDE DEF rest
  <2>1. k \in 1 .. Len(p)
    OBVIOUS
  <2>2. SubSeq(rest, 1, k - 1) \in Seq(Apps) /\ SubSeq(rest, k, Len(rest)) \in Seq(Apps)
    BY <1>1, <1>4, <2>1, SubSeqProperties
  <2>3. <<p[i]>> \in Seq(Apps)
    BY <1>1
  <2>4. SubSeq(rest, 1, k - 1) \o <<p[i]>> \o SubSeq(rest, k, Len(rest)) \in Seq(Apps)
    BY <2>2, <2>3
  <2> QED  BY <2>4 DEF Moved, rest
<1> QED  BY <1>4, <1>5

LEMMA InitTyped == Init => TypeOK
<1> SUFFICES ASSUME Init PROVE TypeOK
  OBVIOUS
<1>1. pins \in Seq(Apps) /\ open \in SUBSET Apps
  BY FirstPinsAssumption DEF Init
<1>2. row \in Rows
  BY <1>1, RowTyped DEF Init
<1>3. tiles \in Tiles
  BY <1>2, RowTyped DEF Init
<1>4. snapshot \in Snapshots /\ job \in Jobs /\ messages \in Seq(Nat)
  BY SnapshotTyped, JobTyped, EmptySeq DEF Init
<1>5. reveal \in [dirty : BOOLEAN, fit : BOOLEAN, late : BOOLEAN, moved : BOOLEAN]
  BY DEF Init, NoReveal
<1> QED  BY <1>1, <1>2, <1>3, <1>4, <1>5 DEF Init, TypeOK, JobPoints

\* What a refresh that begins, and one that is applied, write.
LEMMA BeginTyped ==
    ASSUME TypeOK, NEW retry \in BOOLEAN, BeginRefresh(retry)
    PROVE  inFlight' \in BOOLEAN /\ step' \in JobPoints /\ job' \in Jobs
           /\ (inFlight' <=> step' # "idle")
<1>1. CASE UNCHANGED <<inFlight, worker>>
  BY <1>1 DEF TypeOK
<1>2. CASE TakeJob(retry)
  BY <1>2 DEF TypeOK, TakeJob, Jobs, JobPoints
<1> QED  BY <1>1, <1>2 DEF BeginRefresh

LEMMA ApplyTyped ==
    ASSUME TypeOK, NEW g, ApplyRefresh(g)
    PROVE  row' \in Rows /\ tiles' \in Tiles /\ dirty' \in BOOLEAN /\ snapshot' \in Snapshots
<1>1. CASE ApplySnapshot
  BY <1>1, SnapshotTyped, RowTyped DEF TypeOK, ApplySnapshot
<1>2. CASE UNCHANGED <<row, tiles, dirty, snapshot>>
  BY <1>2 DEF TypeOK
<1> QED  BY <1>1, <1>2 DEF ApplyRefresh

\* Every user, interface and worker step keeps the types.
LEMMA UserTyped == TypeOK /\ User => TypeOK'
<1> SUFFICES ASSUME TypeOK, User PROVE TypeOK'
  OBVIOUS
<1> USE DEF TypeOK
<1>1. ASSUME NEW p \in Seq(Apps), EditPins(p) PROVE TypeOK'
  <2>1. row' \in Rows /\ tiles' \in Tiles
    BY <1>1, RowTyped DEF EditPins
  <2> QED  BY <1>1, <2>1 DEF EditPins, NextGeneration
<1>2. CASE \E a \in Apps : Pin(a)
  <2>1. \A a \in Apps : Append(pins, a) \in Seq(Apps)
    OBVIOUS
  <2> QED  BY <1>1, <1>2, <2>1 DEF Pin
<1>3. CASE \E i \in DOMAIN pins : Unpin(i)
  BY <1>1, <1>3, EditedPinsTyped DEF Unpin
<1>4. ASSUME NEW i \in DOMAIN pins, NEW k \in DOMAIN pins, CompleteDrag(i, k) PROVE TypeOK'
  <2>1. pins' \in Seq(Apps)
    BY <1>4, EditedPinsTyped DEF CompleteDrag
  <2>2. row' \in Rows /\ tiles' \in Tiles
    BY <1>4, <2>1, RowTyped DEF CompleteDrag
  <2> QED  BY <1>4, <2>1, <2>2, SnapshotTyped DEF CompleteDrag, NextGeneration
<1>5. CASE IconsResized
  BY <1>5 DEF IconsResized, NextGeneration
<1>6. CASE RefreshAfterClick
  BY <1>6, BeginTyped DEF RefreshAfterClick
<1>7. CASE BeginShow
  BY <1>7 DEF BeginShow, CatchUpGeneration
<1>8. CASE BeginHide
  BY <1>8 DEF BeginHide
<1>9. CASE OtherLayout
  BY <1>9, RowTyped DEF OtherLayout
<1> QED  BY <1>2, <1>3, <1>4, <1>5, <1>6, <1>7, <1>8, <1>9 DEF User

LEMMA InterfaceTyped == TypeOK /\ Interface => TypeOK'
<1> SUFFICES ASSUME TypeOK, Interface PROVE TypeOK'
  OBVIOUS
<1> USE DEF TypeOK
<1>1. CASE OnWindowEvent
  <2>1. epoch' \in Nat
    BY <1>1 DEF OnWindowEvent
  <2>2. dirty' \in BOOLEAN /\ noticed' \in BOOLEAN
    BY <1>1, Zenon DEF OnWindowEvent
  <2> QED  BY <1>1, <2>1, <2>2 DEF OnWindowEvent
<1>2. CASE OnApplyMessage
  BY <1>2, ApplyTyped DEF OnApplyMessage
<1>3. CASE OnRefreshTimer
  BY <1>3, BeginTyped DEF OnRefreshTimer
<1>4. CASE OnNoticed
  BY <1>4 DEF OnNoticed
<1>5. CASE OnDeferredTimer
  <2>1. inFlight' \in BOOLEAN /\ step' \in JobPoints /\ job' \in Jobs
        /\ (inFlight' <=> step' # "idle")
    BY <1>5, BeginTyped DEF OnDeferredTimer
  <2> QED  BY <1>5, <2>1 DEF OnDeferredTimer
<1>6. ASSUME NEW from, NEW to \in {"rerun", "pump"}, WaitEnds(from, to) PROVE TypeOK'
  BY <1>6 DEF WaitEnds
<1>7. CASE DrainEnds \/ WaitOver
  BY <1>6, <1>7 DEF DrainEnds, WaitOver
<1>8. CASE Rerun
  BY <1>8, BeginTyped DEF Rerun
<1>9. CASE Reveal
  BY <1>9, ApplyTyped DEF Reveal, NoReveal
<1>10. CASE SlideEnds
  BY <1>10 DEF SlideEnds
<1> QED  BY <1>1, <1>2, <1>3, <1>4, <1>5, <1>7, <1>8, <1>9, <1>10 DEF Interface

LEMMA JobStepTyped == TypeOK /\ JobStep => TypeOK'
<1> SUFFICES ASSUME TypeOK, JobStep PROVE TypeOK'
  OBVIOUS
<1> USE DEF TypeOK, WorkerOnly, JobPoints
<1>1. CASE Enumerate
  BY ZenonT(60), <1>1, JobTyped DEF Enumerate
<1>2. CASE ReadEpoch
  BY <1>2, JobTyped DEF ReadEpoch
<1>3. CASE CompareEpoch \/ ClearDirty \/ CompareGeneration
  BY <1>3 DEF CompareEpoch, ClearDirty, CompareGeneration
<1>4. CASE Store
  <2>1. RowOf(job.pins, job.open) \in Rows /\ job.gen \in Nat /\ job.epoch \in Nat
    BY JobTyped, RowTyped
  <2>2. LayoutChanged(RowOf(job.pins, job.open), job.row) \in BOOLEAN
        /\ RunningChanged(RowOf(job.pins, job.open), job.row) \in BOOLEAN
    BY DEF LayoutChanged, RunningChanged
  <2>3. snapshot' \in Snapshots
    BY <1>4, <2>1, <2>2 DEF Store, Snapshots
  <2> QED  BY <1>4, <2>3 DEF Store
<1>5. CASE Post
  BY <1>5, JobTyped DEF Post
<1>6. CASE JobEnds
  BY ZenonT(60), <1>6, JobTyped DEF JobEnds
<1> QED  BY <1>1, <1>2, <1>3, <1>4, <1>5, <1>6 DEF JobStep

\* Types, and one job at a time: a refresh is in flight exactly while the
\* worker has a job (m_refreshInFlight, RefreshScope).
THEOREM TypeCorrect == Spec => []TypeOK
<1>1. TypeOK /\ [Next]_vars => TypeOK'
  <2> SUFFICES ASSUME TypeOK, [Next]_vars PROVE TypeOK'
    OBVIOUS
  <2>1. ASSUME NEW a \in Apps, WindowChanges(a) PROVE TypeOK'
    <3>1. reveal' \in [dirty : BOOLEAN, fit : BOOLEAN, late : BOOLEAN, moved : BOOLEAN]
      <4>1. CASE ui = "loop"
        BY <2>1, <4>1 DEF WindowChanges, TypeOK
      <4>2. CASE ui # "loop"
        BY <2>1, <4>2 DEF WindowChanges, TypeOK
      <4> QED  BY <4>1, <4>2
    <3>2. open' \in SUBSET Apps /\ event' \in BOOLEAN /\ changes' \in Nat
      BY <2>1 DEF WindowChanges, TypeOK
    <3> QED  BY <2>1, <3>1, <3>2 DEF WindowChanges, TypeOK
  <2>2. CASE UNCHANGED vars
    BY <2>2 DEF TypeOK
  <2> QED  BY <2>1, <2>2, UserTyped, InterfaceTyped, JobStepTyped DEF Next
<1> QED  BY InitTyped, <1>1, PTL DEF Spec

-----------------------------------------------------------------------------
(* The pins on the row.                                                    *)

Busy == step # "idle"

\* The message queue holds a message of the present generation.
Announced == \E i \in DOMAIN messages : messages[i] = generation

Typed ==
    /\ generation \in Nat
    /\ job.gen \in Nat
    /\ snapshot.gen \in Nat
    /\ messages \in Seq(Nat)
    /\ snapshot.kept \in BOOLEAN

\* One job at a time, of no generation to come, with the pins of its own.
JobInv ==
    /\ inFlight <=> Busy
    /\ Busy => job.gen <= generation
    /\ Busy /\ job.gen = generation => job.pins = pins

\* The same of the snapshot.
SnapshotInv ==
    /\ snapshot.kept => snapshot.gen <= generation
    /\ snapshot.kept /\ snapshot.gen = generation => snapshot.row.pins = pins
    /\ step = "post" /\ snapshot.kept => snapshot.gen = job.gen

\* Once the present generation is announced, nothing older follows.
MessageInv ==
    /\ \A i \in DOMAIN messages : messages[i] <= generation
    /\ Announced => (snapshot.kept => snapshot.gen = generation)
                    /\ (Busy => job.gen = generation)

PinsInv == Typed /\ JobInv /\ SnapshotInv /\ MessageInv /\ RowShowsPins

USE DEF PinsInv, Typed, JobInv, SnapshotInv, MessageInv, RowShowsPins, Busy

LEMMA PinsInit == Init => PinsInv
  BY SnapshotTyped DEF Init, NoJob, RowOf, Announced

\* Nothing of what the invariant speaks of changes.
LEMMA PinsUntouched ==
    PinsInv /\ UNCHANGED <<pins, row, generation, inFlight, snapshot, messages, step, job>>
    => PinsInv'
  BY DEF Announced

\* A refresh begins with the present pins and generation, or not at all.
LEMMA PinsBegin ==
    ASSUME PinsInv, NEW retry, BeginRefresh(retry),
           UNCHANGED <<pins, row, generation, snapshot, messages>>
    PROVE  PinsInv'
<1>1. CASE UNCHANGED <<inFlight, worker>>
  BY <1>1, PinsUntouched
<1>2. CASE ~inFlight /\ TakeJob(retry)
  BY <1>2 DEF TakeJob, Announced
<1> QED  BY <1>1, <1>2 DEF BeginRefresh

\* Applying a snapshot of the present generation keeps the pins on the row.
LEMMA PinsApply ==
    ASSUME PinsInv, NEW g, ApplyRefresh(g), g = snapshot.gen \/ Announced \/ g # generation,
           UNCHANGED <<pins, generation, inFlight, step, job, messages>>
    PROVE  PinsInv'
<1>1. CASE Applies(g)
  <2>1. snapshot.gen = generation /\ snapshot.kept
    BY <1>1 DEF Applies
  <2>2. row' = snapshot.row /\ snapshot' = None
    BY <1>1 DEF ApplyRefresh, ApplySnapshot
  <2> QED  BY <2>1, <2>2, SnapshotTyped DEF Announced
<1>2. CASE ~Applies(g)
  BY <1>2, PinsUntouched DEF ApplyRefresh
<1> QED  BY <1>1, <1>2

\* Taking a message off the queue.
LEMMA PinsTake ==
    ASSUME PinsInv, messages # <<>>, messages' = Tail(messages),
           UNCHANGED <<pins, row, generation, inFlight, snapshot, step, job>>
    PROVE  PinsInv'
<1>1. messages' \in Seq(Nat)
  OBVIOUS
<1>2. \A i \in DOMAIN messages' : i + 1 \in DOMAIN messages /\ messages'[i] = messages[i + 1]
  OBVIOUS
<1>3. Announced' => Announced
  BY <1>2 DEF Announced
<1> QED  BY <1>1, <1>2, <1>3

\* A handled message: the snapshot is applied, the message is gone.
LEMMA PinsMessage ==
    ASSUME PinsInv, OnApplyMessage
    PROVE  PinsInv'
<1> USE DEF OnApplyMessage
<1>0. Head(messages) = messages[1] /\ 1 \in DOMAIN messages
  OBVIOUS
<1>1. Announced \/ Head(messages) # generation
  BY <1>0 DEF Announced
<1>2. messages' \in Seq(Nat)
  OBVIOUS
<1>3. \A i \in DOMAIN messages' : i + 1 \in DOMAIN messages /\ messages'[i] = messages[i + 1]
  OBVIOUS
<1>4. Announced' => Announced
  BY <1>3 DEF Announced
<1>5. CASE Applies(Head(messages))
  <2>1. snapshot.gen = generation /\ snapshot.kept
    BY <1>1, <1>5 DEF Applies
  <2>2. row' = snapshot.row /\ snapshot' = None
    BY <1>5 DEF ApplyRefresh, ApplySnapshot
  <2> QED  BY <1>2, <1>3, <1>4, <2>1, <2>2, SnapshotTyped
<1>6. CASE ~Applies(Head(messages))
  BY <1>2, <1>3, <1>4, <1>6 DEF ApplyRefresh
<1> QED  BY <1>5, <1>6

\* An edit: the generation moves past every job, snapshot and message.
LEMMA PinsEdit ==
    ASSUME PinsInv, generation' = generation + 1, row'.pins = pins',
           snapshot' = snapshot \/ snapshot' = None,
           UNCHANGED <<inFlight, messages, step, job>>
    PROVE  PinsInv'
<1>1. ~Announced'
  BY DEF Announced
<1>2. /\ snapshot'.gen \in Nat /\ snapshot'.kept \in BOOLEAN
      /\ snapshot'.kept => snapshot'.gen <= generation
  BY SnapshotTyped
<1>3. snapshot'.kept => snapshot' = snapshot
  BY SnapshotTyped
<1> QED  BY <1>1, <1>2, <1>3

\* The job's steps, on the worker.
LEMMA PinsJob ==
    ASSUME TypeOK, PinsInv, JobStep
    PROVE  PinsInv'
<1> USE DEF WorkerOnly
<1>0. job \in Jobs /\ open \in SUBSET Apps /\ epoch \in Nat
  BY DEF TypeOK
<1>1. CASE Enumerate \/ ReadEpoch \/ CompareEpoch \/ ClearDirty \/ CompareGeneration
  <2>1. job'.gen = job.gen /\ job'.pins = job.pins
    <3>1. CASE Enumerate
      BY <1>0, <3>1, JobTyped DEF Enumerate
    <3>2. CASE ReadEpoch
      BY <1>0, <3>2, JobTyped DEF ReadEpoch
    <3>3. CASE CompareEpoch \/ ClearDirty \/ CompareGeneration
      BY <3>3 DEF CompareEpoch, ClearDirty, CompareGeneration
    <3> QED  BY <1>1, <3>1, <3>2, <3>3
  <2>2. Busy /\ Busy' /\ step' # "post" /\ inFlight' = inFlight
    BY <1>1 DEF Enumerate, ReadEpoch, CompareEpoch, ClearDirty, CompareGeneration
  <2>3. UNCHANGED <<pins, row, generation, snapshot, messages>>
    BY <1>1 DEF Enumerate, ReadEpoch, CompareEpoch, ClearDirty, CompareGeneration
  <2> QED  BY <2>1, <2>2, <2>3 DEF Announced
<1>2. CASE Store
  BY <1>2 DEF Store, RowOf, Announced
<1>3. CASE Post
  <2>1. messages' \in Seq(Nat) /\ DOMAIN messages' = 1 .. Len(messages) + 1
    BY <1>3 DEF Post
  <2>2. \A i \in DOMAIN messages' :
           \/ i \in DOMAIN messages /\ messages'[i] = messages[i]
           \/ messages'[i] = job.gen
    BY <1>3 DEF Post
  <2>3. Announced' => Announced \/ job.gen = generation
    BY <1>3, <2>2 DEF Post, Announced
  <2> QED  BY <1>3, <2>1, <2>2, <2>3 DEF Post
<1>4. CASE JobEnds
  BY <1>4 DEF JobEnds, NoJob, Announced
<1> QED  BY <1>1, <1>2, <1>3, <1>4 DEF JobStep

\* Every step of the system keeps the invariant.
LEMMA PinsNext == TypeOK /\ PinsInv /\ [Next]_vars => PinsInv'
<1> SUFFICES ASSUME TypeOK, PinsInv, [Next]_vars PROVE PinsInv'
  OBVIOUS
<1>1. CASE \E a \in Apps : WindowChanges(a)
  BY <1>1, PinsUntouched DEF WindowChanges
<1>2. CASE User
  <2>1. ASSUME NEW p, EditPins(p) PROVE PinsInv'
    BY <2>1, PinsEdit DEF EditPins, NextGeneration, RowOf
  <2>2. CASE \E a \in Apps : Pin(a)
    BY <2>1, <2>2 DEF Pin
  <2>3. CASE \E i \in DOMAIN pins : Unpin(i)
    BY <2>1, <2>3 DEF Unpin
  <2>4. CASE \E i, k \in DOMAIN pins : CompleteDrag(i, k)
    BY <2>4, PinsEdit DEF CompleteDrag, NextGeneration, RowOf
  <2>5. CASE IconsResized
    BY <2>5, PinsEdit DEF IconsResized, NextGeneration
  <2>6. CASE RefreshAfterClick
    BY <2>6, PinsBegin DEF RefreshAfterClick
  <2>7. CASE BeginShow
    <3>1. CASE dirty
      BY <2>7, <3>1, PinsEdit DEF BeginShow, CatchUpGeneration
    <3>2. CASE ~dirty
      BY <2>7, <3>2, PinsUntouched DEF BeginShow
    <3> QED  BY <3>1, <3>2
  <2>8. CASE BeginHide
    BY <2>8, PinsEdit DEF BeginHide
  <2>9. CASE OtherLayout
    BY <2>9, PinsUntouched DEF OtherLayout
  <2> QED  BY <1>2, <2>2, <2>3, <2>4, <2>5, <2>6, <2>7, <2>8, <2>9 DEF User
<1>3. CASE Interface
  <2>1. CASE OnWindowEvent \/ OnNoticed \/ SlideEnds
    BY <2>1, PinsUntouched DEF OnWindowEvent, OnNoticed, SlideEnds
  <2>2. CASE OnApplyMessage
    BY <2>2, PinsMessage
  <2>3. CASE OnRefreshTimer \/ Rerun
    BY <2>3, PinsBegin DEF OnRefreshTimer, Rerun
  <2>4. CASE OnDeferredTimer
    BY <2>4, PinsBegin, PinsUntouched DEF OnDeferredTimer
  <2>5. CASE DrainEnds \/ WaitOver
    BY <2>5, PinsUntouched DEF DrainEnds, WaitOver, WaitEnds
  <2>6. CASE Reveal
    BY <2>6, PinsApply DEF Reveal
  <2> QED  BY <1>3, <2>1, <2>2, <2>3, <2>4, <2>5, <2>6 DEF Interface
<1>4. CASE JobStep
  BY <1>4, PinsJob
<1>5. CASE UNCHANGED vars
  BY <1>5, PinsUntouched
<1> QED  BY <1>1, <1>2, <1>3, <1>4, <1>5 DEF Next

HIDE DEF PinsInv, RowShowsPins

\* The row on the dock always shows the pins in force, whatever refreshes
\* were in flight when they were edited (BeginBackgroundRefresh,
\* ApplyBackgroundRefresh).
THEOREM PinsShown == Spec => []RowShowsPins
<1>1. PinsInv => RowShowsPins
  BY DEF PinsInv
<1> QED  BY PinsInit, PinsNext, TypeCorrect, <1>1, PTL DEF Spec
=============================================================================
