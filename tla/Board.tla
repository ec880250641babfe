------------------------------- MODULE Board -------------------------------
(***************************************************************************)
(* One player's field through its games: the owner places ships, says     *)
(* ready, the opponent shoots, the game ends, the field is cleared for the *)
(* next game of the same pair.  Three copies of the field exist at once:   *)
(* the server's (field), the owner's (mine, m_my of the owner's client)    *)
(* and the attacker's (view, m_en of the attacker's client), which learns  *)
(* of the field only through the letters the server answers.  Here each    *)
(* message arrives before the next is sent.                                *)
(***************************************************************************)
EXTENDS Field, FiniteSets

CONSTANTS
    Release,        \* TRUE: the build defines NDEBUG
    Placements      \* the placements the owner may try

ASSUME BoardAssumption ==
    /\ Release \in BOOLEAN
    /\ Placements \subseteq
           [x : Int, y : Int, length : Int, dir : {"h", "v", "c"}]

VARIABLES
    field,  \* the server's copy
    mine,   \* the owner's copy
    view,   \* the attacker's copy
    phase,  \* "placing", "firing" or "end"
    fleet,  \* history: the ships placed in this game, each a set of cells
    fired   \* history: the cells the attacker has fired at in this game

vars == <<field, mine, view, phase, fleet, fired>>

Init ==
    /\ field = EmptyField
    /\ mine = EmptyField
    /\ view = EmptyField
    /\ phase = "placing"
    /\ fleet = {}
    /\ fired = {}

(* The owner's client tries the ship on its own copy and sends the command
   only when that copy takes it; the server then tries it on its copy. *)
PlaceShip(s) ==
    /\ phase = "placing"
    /\ CanSetShip(mine, s)
    /\ mine' = SetShip(mine, s)
    /\ \/ /\ CanSetShip(field, s)
          /\ field' = SetShip(field, s)
          /\ fleet' = fleet \cup {ShipCells(s)}
       \/ /\ ~CanSetShip(field, s)
          /\ UNCHANGED <<field, fleet>>
    /\ UNCHANGED <<view, phase, fired>>

(* The owner's client sends "ready" only when ships_ready() says so. *)
Ready ==
    /\ phase = "placing"
    /\ ShipsReady(mine, Release)
    /\ phase' = "firing"
    /\ UNCHANGED <<field, mine, view, fleet, fired>>

(* A shot at a cell not shot yet; at any other cell the server answers "f"
   and nothing changes.  The answer goes to both clients. *)
Shoot(c) ==
    /\ phase = "firing"
    /\ c \notin field.shot
    /\ field' = ShotField(field, c)
    /\ mine' = CopyAnswer(mine, c, ShotAnswer(field, c))
    /\ view' = CopyAnswer(view, c, ShotAnswer(field, c))
    /\ phase' = IF ShotAnswer(field, c) = "g" THEN "end" ELSE "firing"
    /\ fired' = fired \cup {c}
    /\ UNCHANGED fleet

(* The game may also end on the other field, which is not modelled here. *)
LoseElsewhere ==
    /\ phase = "firing"
    /\ phase' = "end"
    /\ UNCHANGED <<field, mine, view, fleet, fired>>

(* Both players continue and are ready again: every copy is cleared. *)
NewGame ==
    /\ phase = "end"
    /\ field' = Clear(field)
    /\ mine' = Clear(mine)
    /\ view' = Clear(view)
    /\ phase' = "placing"
    /\ fleet' = {}
    /\ fired' = {}

Next ==
    \/ \E s \in Placements : PlaceShip(s)
    \/ Ready
    \/ \E c \in Cells : Shoot(c)
    \/ LoseElsewhere
    \/ NewGame

Spec == Init /\ [][Next]_vars

-----------------------------------------------------------------------------
TypeOK ==
    /\ field \in Fields
    /\ mine \in Fields
    /\ view \in Fields
    /\ phase \in {"placing", "firing", "end"}
    /\ fleet \subseteq SUBSET Cells
    /\ fired \subseteq Cells

(* No two ships of a fleet touch, not even at a corner: what the cross and
   corner checks of set_ship are for, although they never look at the corners
   of a ship's inner cells (field.hpp:169-220). *)
ShipsApart ==
    \A A, B \in fleet : A # B =>
        \A c \in A, d \in B : ~Touching(c, d)

(* The ship cells of the field are exactly those of the ships accepted, and
   no more ships of a length than the quota allows were accepted. *)
FleetOnField ==
    /\ field.ship = UNION fleet
    /\ \A l \in Lengths :
           Cardinality({A \in fleet : Cardinality(A) = l}) <= Quota[l]

(* check_kill, which sees only cells and walks from the hit cell, says killed
   exactly when the whole ship the cell belongs to is shot. *)
KilledIsWholeShip ==
    \A A \in fleet : \A c \in A \cap field.shot :
        CheckKill(field, c) <=> A \subseteq field.shot

(* kill marks the surroundings of a sunk ship and of nothing else, and gives no
   ship cell away: the shot cells are those fired at and the cells around
   the sunk ships. *)
ShotsAreFiredOrAroundSunk ==
    LET sunk == {A \in fleet : A \subseteq fired}
    IN  field.shot = fired \cup (Surroundings(UNION sunk) \cap Cells)

(* The attacker's copy, built from the answers alone, has exactly the shots
   of the server's field and the ship cells among them; the owner's copy is the
   server's field, counters included. *)
CopiesAgree ==
    /\ view.shot = field.shot
    /\ view.ship = field.ship \cap field.shot
    /\ mine = field

(* A game in which every ship of a fleet is sunk is over: no last hit goes
   unnoticed.  (An empty field never ends a game.) *)
SunkFleetEndsGame ==
    phase = "firing" /\ fleet # {} => \E A \in fleet : ~(A \subseteq fired)

(* field.hpp:139 says of ships_ready that it returns true when all ships are
   placed on the field: whoever may say ready has a full fleet out. *)
ReadyMeansPlaced ==
    phase = "placing" /\ ShipsReady(mine, Release) =>
        \A l \in Lengths :
            Cardinality({A \in fleet : Cardinality(A) = l}) = Quota[l]
=============================================================================
