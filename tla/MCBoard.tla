------------------------------ MODULE MCBoard ------------------------------
(* Small boards for Board: every placement on and just off the board. *)
EXTENDS Board

MCPlacements ==
    [x : -1 .. Size, y : -1 .. Size, length : 0 .. MaxLength + 1, dir : {"h", "v", "c"}]

(* One ship of each length. *)
MCQuota == [n \in Lengths |-> 1]
=============================================================================
