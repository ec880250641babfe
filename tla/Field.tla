------------------------------- MODULE Field -------------------------------
(***************************************************************************)
(* The playing field of include/field.hpp, as operators on a value: which  *)
(* cells hold a ship, which have been shot, and how many ships of each     *)
(* length have been placed so far (the counters m_1 .. m_4).  The server   *)
(* keeps two such values per lobby, the client two more (its own field and *)
(* what it knows of the enemy's).                                          *)
(*                                                                         *)
(* The code fixes Size = 10, MaxLength = 4 and Quota = <<4, 3, 2, 1>>.     *)
(***************************************************************************)
EXTENDS Integers

CONSTANTS
    Size,       \* cells in a row and in a column
    MaxLength,  \* the longest ship, and the number of turns of every walk along a ship
    Quota       \* how many ships of each length a player may place

Lengths == 1 .. MaxLength

ASSUME FieldAssumption ==
    /\ Size \in Nat \ {0}
    /\ MaxLength \in Nat \ {0}
    /\ Quota \in [Lengths -> Nat]

(* A cell is the pair <<x, y>>; check_bound(x, y) is membership in Cells. *)
Cells == (0 .. Size - 1) \X (0 .. Size - 1)

(* A cell of m_field is a bit mask of ship and shot: here, the two sets of cells
   with each bit set.  A cell is non-zero when it is in either. *)
Fields == [ship : SUBSET Cells, shot : SUBSET Cells, placed : [Lengths -> Nat]]

EmptyField ==
    [ship |-> {}, shot |-> {}, placed |-> [l \in Lengths |-> 0]]

(* clear() zeroes the cells and leaves the counters as they are. *)
Clear(f) == [f EXCEPT !.ship = {}, !.shot = {}]

(***************************************************************************)
(* Placing a ship.  A placement is a record [x, y, length, dir].           *)
(***************************************************************************)
ShipCell(s, i) ==
    IF s.dir = "h" THEN <<s.x + i, s.y>> ELSE <<s.x, s.y + i>>

ShipCells(s) == {ShipCell(s, i) : i \in 0 .. s.length - 1}

Cross(c) == {c, <<c[1] + 1, c[2]>>, <<c[1] - 1, c[2]>>,
                <<c[1], c[2] + 1>>, <<c[1], c[2] - 1>>}

Corners(c) == {<<c[1] + dx, c[2] + dy>> : dx \in {-1, 1}, dy \in {-1, 1}}

(* Faulty variant of Clearance: the corner checks are left out. *)
ClearanceWithoutCorners(s) == UNION {Cross(c) : c \in ShipCells(s)}

(* The cells set_ship wants empty: the cross of every cell of the ship and
   the corners of its two ends. *)
Clearance(s) ==
    (UNION {Cross(c) : c \in ShipCells(s)})
        \cup Corners(ShipCell(s, 0)) \cup Corners(ShipCell(s, s.length - 1))

(* Faulty variant of CanSetShip: the counters are not looked at. *)
CanSetShipAnyNumber(f, s) ==
    /\ s.dir \in {"h", "v"}
    /\ s.length \in Lengths
    /\ ShipCells(s) \subseteq Cells
    /\ Clearance(s) \cap (f.ship \cup f.shot) = {}

CanSetShip(f, s) ==
    /\ s.dir \in {"h", "v"}
    /\ s.length \in Lengths
    /\ ShipCells(s) \subseteq Cells
    /\ Clearance(s) \cap (f.ship \cup f.shot) = {}
    /\ f.placed[s.length] # Quota[s.length]

SetShip(f, s) ==
    [f EXCEPT !.ship = @ \cup ShipCells(s), !.placed[s.length] = @ + 1]

(* ships_ready(): in a build with NDEBUG always, otherwise by the counters. *)
ShipsReady(f, ndebug) == ndebug \/ f.placed = Quota

(***************************************************************************)
(* Walking along a ship.  Each turn of the loops may step in x and then,   *)
(* from where it is by then, in y.                                         *)
(***************************************************************************)
StepIn(f, c, d) == IF d \in f.ship THEN d ELSE c

(* Faulty variant of StepBack: the walk to the start looks left only. *)
StepBackInRow(f, c) == StepIn(f, c, <<c[1] - 1, c[2]>>)

StepBack(f, c) ==
    LET left == StepIn(f, c, <<c[1] - 1, c[2]>>)
    IN  StepIn(f, left, <<left[1], left[2] - 1>>)

StepForward(f, c) ==
    LET right == StepIn(f, c, <<c[1] + 1, c[2]>>)
    IN  StepIn(f, right, <<right[1], right[2] + 1>>)

ShipStart(f, c) ==
    LET back[n \in 0 .. MaxLength] ==
            IF n = 0 THEN c ELSE StepBack(f, back[n - 1])
    IN  back[MaxLength]

(* Faulty variant of Walked: the start of the ship only. *)
WalkedStart(f, c) == {ShipStart(f, c)} \cap f.ship

(* The ship cells the second loop of check_kill and kill visits; it stops at
   a cell that is no ship. *)
Walked(f, c) ==
    LET walk[n \in 0 .. MaxLength - 1] ==
            IF n = 0 THEN ShipStart(f, c)
            ELSE IF walk[n - 1] \in f.ship THEN StepForward(f, walk[n - 1])
            ELSE walk[n - 1]
    IN  {walk[n] : n \in 0 .. MaxLength - 1} \cap f.ship

CheckKill(f, c) == Walked(f, c) \subseteq f.shot

(* Equal, or neighbours in a row, a column or a diagonal. *)
Touching(c, d) == c[1] - d[1] \in -1 .. 1 /\ c[2] - d[2] \in -1 .. 1

Around(c) == (Cross(c) \cup Corners(c)) \ {c}

Surroundings(cells) == UNION {Around(c) : c \in cells}

(* Faulty variant of Kill: the bounds are not looked at. *)
KillPastEdge(f, c) ==
    [f EXCEPT !.shot = @ \cup Surroundings(Walked(f, c))]

(* kill() marks every cell around the walked ones as shot. *)
Kill(f, c) ==
    [f EXCEPT !.shot = @ \cup (Surroundings(Walked(f, c)) \cap Cells)]

(***************************************************************************)
(* A shot, as the server applies it to a field, and the letter it answers. *)
(***************************************************************************)
MarkShot(f, c) == [f EXCEPT !.shot = @ \cup {c}]

ShotField(f, c) ==
    LET marked == MarkShot(f, c)
    IN  IF c \in f.ship /\ CheckKill(marked, c) THEN Kill(marked, c) ELSE marked

(* game_finished: no ship cell is left unshot. *)
GameFinished(f) == f.ship \subseteq f.shot

(* Faulty variant of ShotAnswer: the end is looked for before the shot counts. *)
ShotAnswerLate(f, c) ==
    CASE c \notin f.ship                        -> "m"
      [] c \in f.ship /\ GameFinished(f)        -> "g"
      [] OTHER -> IF CheckKill(MarkShot(f, c), c) THEN "k" ELSE "h"

ShotAnswer(f, c) ==
    CASE c \notin f.ship                       -> "m"
      [] c \in f.ship /\ GameFinished(ShotField(f, c)) -> "g"
      [] OTHER -> IF CheckKill(MarkShot(f, c), c) THEN "k" ELSE "h"

(* What a client does to its copy of a field when that letter arrives. *)
MarkHit(f, c) == [f EXCEPT !.ship = @ \cup {c}, !.shot = @ \cup {c}]

MarkMiss(f, c) == [f EXCEPT !.ship = @ \ {c}, !.shot = @ \cup {c}]

(* Faulty variant of CopyAnswer: a kill is drawn as a hit. *)
CopyAnswerAsHit(f, c, answer) == IF answer = "m" THEN MarkMiss(f, c) ELSE MarkHit(f, c)

CopyAnswer(f, c, answer) ==
    CASE answer = "m"         -> MarkMiss(f, c)
      [] answer = "h"         -> MarkHit(f, c)
      [] answer \in {"k", "g"} -> Kill(MarkHit(f, c), c)
=============================================================================
