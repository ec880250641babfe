----------------------------- MODULE MCServer ------------------------------
(* Small instances of Server, and of what it implements, for TLC. *)
EXTENDS ServerLife, ServerMatch, TLC

CONSTANTS p1, p2, p3

MCQuotaOne == <<1>>

MCQuotaTwo == <<2>>

(* On one cell: a field is empty or is one ship, so that games are short. *)
MCOnBoard ==
    {s \in [x : 0 .. Size - 1, y : 0 .. Size - 1, length : Lengths, dir : {"h", "v"}] :
        ShipCells(s) \subseteq Cells /\ (s.length = 1 => s.dir = "h")}

(* One cell in each of two corners, for longer games. *)
MCCorners ==
    {s \in [x : {0, Size - 1}, y : {0, Size - 1}, length : {1}, dir : {"h"}] : s.x = s.y}

MCAllMishaps == {"read_error", "write_error", "address_reuse"}

Symmetry == Permutations(Participants)
=============================================================================
