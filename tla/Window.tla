------------------------------- MODULE Window -------------------------------
(***************************************************************************)
(* How the window makes a ship of presses on the player's own field        *)
(* (IDEProj/Main.cpp).  The selection outlives whatever the client is      *)
(* going through; of that only what the window looks at is here.           *)
(***************************************************************************)
EXTENDS Field, FiniteSets

CONSTANT Release    \* TRUE: the build defines NDEBUG

(* The guard of the presses looks at the length from the third cell on (Main.cpp:250),
   so there are to be ships of two. *)
ASSUME WindowAssumption == Release \in BOOLEAN /\ MaxLength >= 2

VARIABLES
    phase,          \* of the client: "away" from a session, or its part
    ready,          \* of the client
    m_my,           \* of the client
    selectedMy,     \* the cells drawn as selected
    shipLength,
    orientation,
    lastPressed,    \* the index in selectedMy of the cell pressed last
    tidy            \* history: the selection was made by presses as in TidyPress

client == <<phase, ready, m_my>>

selection == <<selectedMy, shipLength, orientation, lastPressed, tidy>>

window == <<client, selection>>

(* selectedMy[x][y] is at this place of the array, and selectedMy[x][-1] at that of
   selectedMy[x - 1][Size - 1]. *)
Index(x, y) == Size * x + y

Nowhere == Size * Size

Init ==
    /\ phase = "away" /\ ready = FALSE /\ m_my = EmptyField
    /\ selectedMy = {} /\ shipLength = 0
    /\ orientation = "h" /\ lastPressed = Nowhere
    /\ tidy = TRUE

-----------------------------------------------------------------------------
(* What the io thread does meanwhile, as far as it matters here (see Client). *)
EnterSession ==
    /\ phase = "away"
    /\ phase' = "preparation" /\ m_my' = Clear(m_my)
    /\ UNCHANGED <<ready, selection>>

StartTurns ==
    /\ phase = "preparation" /\ ready
    /\ phase' = "turns"
    /\ UNCHANGED <<ready, m_my, selection>>

HearShot ==
    /\ phase = "turns"
    /\ \E c \in Cells \ m_my.shot : m_my' = CopyAnswer(m_my, c, ShotAnswer(m_my, c))
    /\ UNCHANGED <<phase, ready, selection>>

EndTurns ==
    /\ phase = "turns"
    /\ phase' = "end"
    /\ UNCHANGED <<ready, m_my, selection>>

LeaveSession ==
    /\ phase = "end"
    /\ phase' = "away" /\ ready' = FALSE
    /\ UNCHANGED <<m_my, selection>>

-----------------------------------------------------------------------------
IsNearLast(x, y) ==
    lastPressed = IF orientation = "h" THEN Index(x - 1, y) ELSE Index(x, y - 1)

(* Faulty variant of CanSelect: a ship at a corner is not looked for. *)
CanSelectCross(x, y) ==
    /\ shipLength <= 1 \/ (shipLength < MaxLength /\ IsNearLast(x, y))
    /\ Cross(<<x, y>>) \cap (m_my.ship \cup m_my.shot) = {}

(* CanSetShip of the window: the second cell may be anywhere. *)
CanSelect(x, y) ==
    /\ shipLength <= 1 \/ (shipLength < MaxLength /\ IsNearLast(x, y))
    /\ (Cross(<<x, y>>) \cup Corners(<<x, y>>)) \cap (m_my.ship \cup m_my.shot) = {}

(* How a tidy player presses: cell by cell, rightwards or downwards, and only while
   he has ships to place. *)
TidyPress(x, y) ==
    /\ phase = "preparation" /\ ~ready
    /\ shipLength > 0 => \/ x > 0 /\ lastPressed = Index(x - 1, y)
                         \/ y > 0 /\ lastPressed = Index(x, y - 1)

(* PrepShip: a second press on a cell takes it out, but counts.  The guard stops
   nothing in a session, and out of one the cells are hidden. *)
PrepShip(x, y) ==
    /\ phase # "away"
    /\ CanSelect(x, y)
    /\ selectedMy' = IF <<x, y>> \in selectedMy THEN selectedMy \ {<<x, y>>}
                     ELSE selectedMy \cup {<<x, y>>}
    /\ shipLength' = shipLength + 1
    /\ orientation' = IF x > 0 /\ lastPressed = Index(x - 1, y) THEN "h" ELSE "v"
    /\ lastPressed' = Index(x, y)
    /\ tidy' = (tidy /\ TidyPress(x, y))
    /\ UNCHANGED client

(* The first selected cell in the order of the array. *)
First == CHOOSE c \in selectedMy : \A d \in selectedMy : Index(c[1], c[2]) <= Index(d[1], d[2])

Selected == [x |-> First[1], y |-> First[2], length |-> shipLength, dir |-> orientation]

(* Faulty variant of Forgotten: the length is kept. *)
ForgottenCells ==
    /\ selectedMy' = {} /\ tidy' = TRUE
    /\ UNCHANGED <<shipLength, orientation, lastPressed>>

Forgotten ==
    /\ selectedMy' = {} /\ shipLength' = 0 /\ tidy' = TRUE
    /\ UNCHANGED <<orientation, lastPressed>>

(* The button "Set": SetShip makes a line of the selection and forgets it, and
   HandleSendMessage puts the ship onto the player's field, or refuses it. *)
PressSet ==
    /\ phase = "preparation"
    /\ selectedMy # {}
    /\ m_my' = IF CanSetShip(m_my, Selected) THEN SetShip(m_my, Selected) ELSE m_my
    /\ Forgotten
    /\ UNCHANGED <<phase, ready>>

(* The button "Ready". *)
PressReady ==
    /\ phase = "preparation"
    /\ shipLength = 0 /\ ShipsReady(m_my, Release)
    /\ ready' = TRUE
    /\ UNCHANGED <<phase, m_my, selection>>

Next ==
    \/ EnterSession \/ StartTurns \/ HearShot \/ EndTurns \/ LeaveSession
    \/ \E c \in Cells : PrepShip(c[1], c[2])
    \/ PressSet \/ PressReady

Spec == Init /\ [][Next]_window
-----------------------------------------------------------------------------
(* However a player presses, in whatever part of whatever game, shipLength stays the
   length of a ship and covers the selection; nothing is selected when it
   is zero, and it is stuck above only by two presses on one cell. *)
SelectionCounted ==
    /\ Cardinality(selectedMy) <= shipLength /\ shipLength <= MaxLength
    /\ selectedMy = {} => shipLength \in {0, 2}

(* What is drawn as selected by a tidy player is a ship that both fields have room
   for: only the number of ships of that length can make them refuse it. *)
ShownFits ==
    tidy /\ selectedMy # {} =>
        /\ ShipCells(Selected) = selectedMy
        /\ Clearance(Selected) \cap (m_my.ship \cup m_my.shot) = {}

(* And Ready never waits for a selection that is not there, nor does one from an
   earlier game come back in the next. *)
ReadyUnblocked ==
    tidy =>
        /\ shipLength > 0 => selectedMy # {}
        /\ phase # "preparation" \/ ready => selectedMy = {}
=============================================================================
