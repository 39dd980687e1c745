------------------------------- MODULE Layout -------------------------------
(***************************************************************************)
(* The grid of tiles (web/js/adaptation-policy.js, chooseParticipantLayout *)
(* and its callers in app.js).  A resize or a change of the tiles asks for *)
(* one layout pass per animation frame; the pass prefers the columns of    *)
(* the last one, so that the grid does not jump back and forth.            *)
(*                                                                         *)
(* Lengths are in units of the gap.  A width is kept as an exact multiple  *)
(* of 1/Denominator, so that areas are compared without rounding.          *)
(***************************************************************************)
EXTENDS Integers, FiniteSetsExt

CONSTANTS Widths, Heights,  \* sizes of the stage
          MaxTiles,         \* bound on the tiles that are visible
          MinTileWidth, MinTileHeight, MaxTileWidth,
          Denominator       \* a common multiple of 9 * n, for every n <= MaxTiles

ASSUME LayoutAssumptions ==
  /\ Widths \union Heights \subseteq Nat /\ MaxTiles \in Nat
  /\ {MinTileWidth, MinTileHeight, MaxTileWidth, Denominator} \subseteq Nat
  /\ \A n \in 1 .. MaxTiles : Denominator % (9 * n) = 0

VARIABLES
  width, height, tiles,  \* the stage, and how many tiles it shows
  frame,                 \* layoutFrame: a pass has been asked for
  columns,               \* preferredLayoutColumns: of the last pass
  settled                \* nothing changed since the last pass

layoutVars == <<width, height, tiles, frame, columns, settled>>

(***************************************************************************)
(* chooseParticipantLayout.                                                *)
(***************************************************************************)
Rows(n, c) == (n + c - 1) \div c

\* The width of a tile among c columns, and 9/16 of it is its height.
TileWidth(w, h, n, c) ==
  Min({(w - (c - 1)) * (Denominator \div c),
       (h - (Rows(n, c) - 1)) * 16 * (Denominator \div (9 * Rows(n, c))),
       MaxTileWidth * Denominator})

\* The columns that leave room for tiles, and those whose tiles are not too
\* small.
Candidates(w, h, n) == {c \in 1 .. n : w > c - 1 /\ h > Rows(n, c) - 1}
Usable(w, h, n) ==
  {c \in Candidates(w, h, n) :
     /\ TileWidth(w, h, n, c) >= MinTileWidth * Denominator
     /\ 9 * TileWidth(w, h, n, c) >= 16 * MinTileHeight * Denominator}

WeightOfOthers(c, preferred, usable) == IF c = preferred THEN 50 ELSE 53

\* A score: the area, with 6 % for the preferred columns (30 % where every
\* tile is too small, and the area counts a fifth).
Weight(c, preferred, usable) ==
  IF usable THEN IF c = preferred THEN 53 ELSE 50
  ELSE IF c = preferred THEN 13 ELSE 10

Score(w, h, n, c, preferred) ==
  TileWidth(w, h, n, c) * TileWidth(w, h, n, c)
    * Weight(c, preferred, Usable(w, h, n) # {})

Best(w, h, n, preferred, among) ==
  LET top == Max({Score(w, h, n, c, preferred) : c \in among})
  IN  Min({c \in among : Score(w, h, n, c, preferred) = top})

ChooseColumns(w, h, n, preferred) ==
  IF n = 0 \/ Candidates(w, h, n) = {} THEN 1
  ELSE IF Usable(w, h, n) = {} THEN Best(w, h, n, preferred, Candidates(w, h, n))
  ELSE IF n = 3 /\ 2 \in Usable(w, h, n) THEN 2
  ELSE Best(w, h, n, preferred, Usable(w, h, n))

(***************************************************************************)
(* updateParticipantLayout and what asks for it.                           *)
(***************************************************************************)
LayoutInit ==
  /\ width \in Widths /\ height \in Heights /\ tiles = 0 /\ frame = FALSE
  /\ columns = 0 /\ settled = TRUE

\* The ResizeObserver.
Resize ==
  /\ width' \in Widths /\ height' \in Heights /\ frame' = TRUE /\ settled' = FALSE
  /\ UNCHANGED <<tiles, columns>>

\* renderMeetingLayout, of other tiles or the same.
RenderTiles ==
  /\ tiles' \in 0 .. MaxTiles /\ frame' = TRUE
  /\ settled' = (settled /\ tiles' = tiles)
  /\ UNCHANGED <<width, height, columns>>

\* The frame: nothing is laid out on an empty or hidden stage.
Frame ==
  /\ frame /\ frame' = FALSE /\ settled' = TRUE
  /\ columns' = IF tiles = 0 \/ width = 0 \/ height = 0 THEN columns
                ELSE ChooseColumns(width, height, tiles, columns)
  /\ UNCHANGED <<width, height, tiles>>

LayoutNext == Resize \/ RenderTiles \/ Frame

LayoutSpec == LayoutInit /\ [][LayoutNext]_layoutVars

(***************************************************************************)
(* Properties.                                                             *)
(***************************************************************************)
\* Every variable has its type.
LayoutTypeOK ==
  /\ width \in Widths /\ height \in Heights /\ tiles \in 0 .. MaxTiles
  /\ columns \in 0 .. MaxTiles /\ {frame, settled} \subseteq BOOLEAN

\* The grid comes to rest: a pass over an unchanged stage keeps the columns,
\* whatever the ties and the preferences between them are.
LayoutSettles == [][settled => columns' = columns]_layoutVars

\* What is preferred costs little: no other number of columns that is allowed
\* makes tiles more than 6 % larger, except that three tiles are balanced.
NearlyBest ==
  settled /\ tiles \notin {0, 3} /\ Usable(width, height, tiles) # {} /\ columns # 0 =>
    \A c \in Usable(width, height, tiles) :
      LET mine == TileWidth(width, height, tiles, columns)
          its == TileWidth(width, height, tiles, c)
      IN  mine * mine * 53 >= its * its * 50
=============================================================================
