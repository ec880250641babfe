----------------------------- MODULE MCSystem ------------------------------
(* Small instances of System for TLC. *)
EXTENDS System, TLC

CONSTANTS p1, p2, p3

MCQuotaOne == <<1>>

MCShips == {[x |-> 0, y |-> 0, length |-> 1, dir |-> "h"]}

Line(word) == [word |-> word, id |-> 0, ship |-> NoShip, cell |-> NoCell, spaced |-> TRUE]

MCShots == {[Line("shot") EXCEPT !.cell = c] : c \in Cells}

(* Enough for games, one after the other. *)
MCGames ==
    {Line(word) : word \in {"create", "join", "ready", "continue"}}
        \cup {[Line("ship") EXCEPT !.ship = s] : s \in Placements} \cup MCShots

MCGamesAndLobbies == MCGames \cup {Line("unready"), Line("leave"), Line("list")}

(* One game without ships, so that turns alternate, with the remaining buttons. *)
MCOneGame ==
    {Line(word) : word \in {"create", "connect", "quit", "ready", "leave"}} \cup MCShots

MCPreparation == {"preparation"}
MCReadErrors == {"read_error"}

Symmetry == Permutations(Participants)
=============================================================================
