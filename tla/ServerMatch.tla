---------------------------- MODULE ServerMatch -----------------------------
(***************************************************************************)
(* The game in one lobby of the server, seen as a Match: as long as both   *)
(* players stay connected, and no other lobby is given its number.         *)
(***************************************************************************)
EXTENDS Server

CONSTANT Watched    \* the number of a lobby

ASSUME WatchedAssumption == Watched \in Ids

Spoiled ==
    \/ idReused
    \/ fault # "none"
    \/ Watched \in DOMAIN lobbies /\ GhostIn(lobbies[Watched])

Underway == ~Spoiled /\ Watched \in DOMAIN lobbies

FieldOf(i) == IF i = 1 THEN lobbies[Watched].field1 ELSE lobbies[Watched].field2

ReadyOf(i) == IF i = 1 THEN lobbies[Watched].ready1 ELSE lobbies[Watched].ready2

NobodyPlays == \A q \in SeatsOf(lobbies[Watched]) : clentData[q].state = "lobby"

StageNow ==
    IF Spoiled THEN "void"
    ELSE IF Watched \notin DOMAIN lobbies THEN "none"
    ELSE IF NobodyPlays THEN "lobby"
    ELSE lobbies[Watched].state

FreshNow ==
    [i \in {1, 2} |-> IF Underway THEN Cells \ FieldOf(i).shot ELSE Cells]

AfloatNow ==
    [i \in {1, 2} |-> IF Underway THEN FieldOf(i).ship \ FieldOf(i).shot ELSE {}]

ReadyNow == IF Underway THEN {i \in {1, 2} : ReadyOf(i)} ELSE {}

M == INSTANCE Match WITH
         Board <- Cells, stage <- StageNow, fresh <- FreshNow,
         afloat <- AfloatNow, ready <- ReadyNow

(* A player to move with a cell left to shoot at shoots in the end. *)
FairPlay ==
    Spec /\ \A p \in Participants : WF_vars(\E c \in Cells : Shoot(p, c) \/ Win(p, c))
-----------------------------------------------------------------------------
(* The handlers of server.cpp:101-375, with all that players do to the shared maps,
   play a Match in the lobby; and if players to move shoot in the end, it gets on
   as a Match does. *)
PlaysOn == M!FairMatch

(* So the turns come to an end, unless neither player has placed a ship: the last
   hit of a fleet is never missed, and no player is left without a cell to
   shoot at (server.cpp:289-347). *)
GameConcludes == M!Concludes
=============================================================================
