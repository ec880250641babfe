------------------------------- MODULE Match --------------------------------
(***************************************************************************)
(* What the server promises the two players of a lobby: both place their   *)
(* ships, both say that they are ready, they shoot in turn until a fleet   *)
(* is sunk, and a further game starts from empty boards.  ServerMatch      *)
(* shows that the server implements it.                                    *)
(***************************************************************************)
EXTENDS Integers

CONSTANT Board      \* the cells of a player's board

VARIABLES
    stage,      \* "none": there is no lobby.  "lobby": nobody plays in it.
                \* "void": out of this specification's hands
    fresh,      \* the cells of each board that have not been shot
    afloat,     \* those of them that hold a ship
    ready       \* who has said that his ships are placed

match == <<stage, fresh, afloat, ready>>

Players == {1, 2}

Other(i) == 3 - i

Turn(i) == IF i = 1 THEN "turn_1" ELSE "turn_2"

MatchTurns == {Turn(i) : i \in Players}

Stages == {"none", "lobby", "preparation", "end", "void"} \cup MatchTurns

EmptyBoards(boards, fleets, said) ==
    /\ boards = [i \in Players |-> Board]
    /\ fleets = [i \in Players |-> {}]
    /\ said = {}

MatchInit == stage = "none" /\ EmptyBoards(fresh, afloat, ready)

-----------------------------------------------------------------------------
(* A lobby is made. *)
Open ==
    /\ stage = "none"
    /\ stage' = "lobby"
    /\ UNCHANGED <<fresh, afloat, ready>>

(* The last player leaves the lobby, which none can in a game. *)
Close ==
    /\ stage = "lobby"
    /\ stage' = "none"
    /\ EmptyBoards(fresh', afloat', ready')

(* The two players of the lobby start a game: nothing is left of the last one. *)
Begin ==
    /\ stage = "lobby"
    /\ stage' = "preparation"
    /\ EmptyBoards(fresh', afloat', ready')

Place(i) ==
    /\ stage = "preparation"
    /\ \E fleet \in SUBSET fresh[i] :
           /\ afloat[i] \subseteq fleet
           /\ afloat' = [afloat EXCEPT ![i] = fleet]
    /\ UNCHANGED <<stage, fresh, ready>>

(* Whoever is ready last starts the turns; either may have the first. *)
SayReady(i) ==
    /\ stage = "preparation"
    /\ ready' = ready \cup {i}
    /\ stage' \in IF ready' = Players THEN MatchTurns ELSE {stage}
    /\ UNCHANGED <<fresh, afloat>>

Miss(i, c) ==
    /\ stage = Turn(i)
    /\ c \in fresh[Other(i)] \ afloat[Other(i)]
    /\ fresh' = [fresh EXCEPT ![Other(i)] = @ \ {c}]
    /\ stage' = Turn(Other(i))
    /\ UNCHANGED <<afloat, ready>>

(* A hit takes one cell of the fleet, and possibly water around it; it keeps the
   turn, unless it was the last. *)
Hit(i, c) ==
    LET j == Other(i)
    IN  /\ stage = Turn(i)
        /\ c \in afloat[j]
        /\ afloat' = [afloat EXCEPT ![j] = @ \ {c}]
        /\ \E left \in SUBSET fresh[j] :
               /\ afloat'[j] \subseteq left /\ c \notin left
               /\ fresh' = [fresh EXCEPT ![j] = left]
        /\ IF afloat'[j] = {} THEN stage' = "end" /\ ready' = {}
           ELSE UNCHANGED <<stage, ready>>

Fire(i) == \E c \in Board : Miss(i, c) \/ Hit(i, c)

(* The last player goes on from the end. *)
Return ==
    /\ stage = "end"
    /\ stage' = "lobby"
    /\ UNCHANGED <<fresh, afloat, ready>>

(* A player drops out, or the lobby's number is given out twice. *)
Spoil ==
    /\ stage # "void"
    /\ stage' = "void"
    /\ EmptyBoards(fresh', afloat', ready')

MatchNext ==
    \/ Open \/ Close \/ Begin \/ Return \/ Spoil
    \/ \E i \in Players : Place(i) \/ SayReady(i) \/ Fire(i)

MatchSpec == MatchInit /\ [][MatchNext]_match

(* Both players go on: whoever may shoot at a fresh cell does so in the end. *)
FairMatch == MatchSpec /\ \A i \in Players : WF_match(Fire(i))
-----------------------------------------------------------------------------
MatchTypeOK ==
    /\ stage \in Stages
    /\ fresh \in [Players -> SUBSET Board]
    /\ afloat \in [Players -> SUBSET Board]
    /\ ready \in SUBSET Players

(* Turns are played only by two who are ready, which they are no more when a fleet
   is sunk and the game has ended; and no ship is afloat where it was hit. *)
MatchConsistent ==
    /\ MatchTypeOK
    /\ \A i \in Players : afloat[i] \subseteq fresh[i]
    /\ stage \in MatchTurns => ready = Players
    /\ stage = "end" => \E i \in Players : afloat[i] = {}
    /\ stage \notin MatchTurns \cup {"preparation"} => ready = {}

Afloat == UNION {afloat[i] : i \in Players}

(* A game in which somebody has a ship ends, if both players go on: neither runs
   out of cells to shoot at, even if the other has placed nothing. *)
Concludes == stage \in MatchTurns /\ Afloat # {} ~> stage \notin MatchTurns
=============================================================================
