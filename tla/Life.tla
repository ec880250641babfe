-------------------------------- MODULE Life --------------------------------
(***************************************************************************)
(* How a session lives, as far as the server has to know: Session says why *)
(* it lives so, Server what that does to the game.                         *)
(***************************************************************************)
CONSTANT Again      \* TRUE: another session may be allocated at its address

VARIABLE life       \* the Lives of Server

LifeInit == life = "fresh"

Begin ==
    /\ life = "fresh" \/ (Again /\ life = "freed")
    /\ life' = "open"

(* It reads no more, because it failed to or because the handler said so. *)
Stop ==
    \/ life = "open" /\ life' \in {"flushing", "freed"}
    \/ life = "detached" /\ life' = "freed"

(* A write fails. *)
Lose ==
    \/ life = "open" /\ life' = "detached"
    \/ life = "flushing" /\ life' = "freed"

(* The last write is done. *)
Release == life = "flushing" /\ life' = "freed"

LifeNext == Begin \/ Stop \/ Lose \/ Release

LifeSpec == LifeInit /\ [][LifeNext]_life
=============================================================================
