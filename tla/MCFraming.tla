----------------------------- MODULE MCFraming ------------------------------
(* Small instances of Framing for TLC. *)
EXTENDS Framing

(* Numbers of every width, and so many that the text ends before, in and after each. *)
MCListed ==
    {<<>>, <<0>>, <<7, 12>>, <<9, 10, 11>>, <<5, 100, 101>>, <<1, 2, 3, 4, 5>>, <<10, 100, 101>>}
=============================================================================
