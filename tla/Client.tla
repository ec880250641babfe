------------------------------- MODULE Client -------------------------------
(***************************************************************************)
(* One client program, IDEProj/client.cpp, as operators on a record: what  *)
(* a message from the server does to it (Hear), which lines it sends on to *)
(* the server (Sends) and what it does to itself when it does (Typed).     *)
(* System runs several of them against the server.                        *)
(***************************************************************************)
EXTENDS Field

CONSTANTS
    Release,            \* TRUE: the build defines NDEBUG
    InitialGameStates   \* what the indeterminate gameState may start as

EgsValues == {"preparation", "my_turn", "enemy_turn", "end", "garbage"}

ASSUME ClientAssumption ==
    /\ Release \in BOOLEAN
    /\ InitialGameStates \subseteq EgsValues /\ InitialGameStates # {}

(* program: "thrown" after an exception that nothing catches, "closed" after the
   user has ended it.  serverError: the message of client.cpp:215 was shown. *)
ClientPrograms ==
    [state : {"connected", "lobby", "session"}, gameState : EgsValues,
     ready : BOOLEAN, second_turn : BOOLEAN, lobbyReady : BOOLEAN,
     m_my : Fields, m_en : Fields,
     program : {"running", "thrown", "closed"}, serverError : BOOLEAN]

NewClient(initial) ==
    [state |-> "connected", gameState |-> initial,
     ready |-> FALSE, second_turn |-> FALSE, lobbyReady |-> FALSE,
     m_my |-> EmptyField, m_en |-> EmptyField,
     program |-> "running", serverError |-> FALSE]

Throw(client) == [client EXCEPT !.program = "thrown"]

-----------------------------------------------------------------------------
(* HandleMessage.  Handlers look at the first letter only, so that "continue"
   reads as "c" everywhere but at the end of a game. *)
FirstLetter(msg) == IF msg.letter = "continue" THEN "c" ELSE msg.letter

HearConnected(client, msg) ==
    CASE FirstLetter(msg) \in {"j", "c", "i"} -> [client EXCEPT !.state = "lobby"]
      [] FirstLetter(msg) \in {"q", "r", "l"} -> client
      [] OTHER -> Throw(client)

(* Faulty variant of EnterSession: the player's own field keeps the last game. *)
EnterSessionOwnKept(client) ==
    [client EXCEPT !.state = "session", !.lobbyReady = FALSE, !.m_en = Clear(@)]

EnterSession(client) ==
    [client EXCEPT !.state = "session", !.lobbyReady = FALSE,
                   !.m_my = Clear(@), !.m_en = Clear(@)]

HearLobby(client, msg) ==
    CASE FirstLetter(msg) = "l" -> [client EXCEPT !.state = "connected"]
      [] FirstLetter(msg) = "u" -> [client EXCEPT !.lobbyReady = FALSE]
      [] FirstLetter(msg) = "r" -> [client EXCEPT !.lobbyReady = TRUE]
      [] FirstLetter(msg) = "s" -> EnterSession(client)
      [] FirstLetter(msg) \in {"q", "f"} -> client
      [] OTHER -> Throw(client)

(* A client that is ready takes any message at all for the start of the turns,
   and one that is neither "f" nor "s" leaves second_turn as it was. *)
HearStart(client, msg) ==
    LET second == CASE FirstLetter(msg) = "f" -> FALSE
                    [] FirstLetter(msg) = "s" -> TRUE
                    [] OTHER -> client.second_turn
    IN  [client EXCEPT !.second_turn = second,
                       !.gameState = IF second THEN "enemy_turn" ELSE "my_turn"]

HearPreparation(client, msg) ==
    IF client.ready THEN HearStart(client, msg)
    ELSE [client EXCEPT !.serverError = @ \/ FirstLetter(msg) = "f"]

ShotAnswers == {"h", "k", "m", "g"}

AfterAnswer(letter, turn, otherTurn) ==
    CASE letter = "m" -> otherTurn
      [] letter = "g" -> "end"
      [] OTHER -> turn

HearMyTurn(client, msg) ==
    CASE msg.letter \in ShotAnswers ->
            [client EXCEPT !.m_en = CopyAnswer(@, msg.cell, msg.letter),
                           !.gameState = AfterAnswer(msg.letter, "my_turn", "enemy_turn")]
      [] msg.letter = "f" -> client
      [] OTHER -> Throw(client)

(* Faulty variant of HearEnemyTurn: a miss leaves the turn with the enemy. *)
HearEnemyTurnStuck(client, msg) ==
    CASE msg.letter \in ShotAnswers ->
            [client EXCEPT !.m_my = CopyAnswer(@, msg.cell, msg.letter),
                           !.gameState = AfterAnswer(msg.letter, "enemy_turn", "enemy_turn")]
      [] msg.letter = "f" -> client
      [] OTHER -> Throw(client)

HearEnemyTurn(client, msg) ==
    CASE msg.letter \in ShotAnswers ->
            [client EXCEPT !.m_my = CopyAnswer(@, msg.cell, msg.letter),
                           !.gameState = AfterAnswer(msg.letter, "enemy_turn", "my_turn")]
      [] msg.letter = "f" -> client
      [] OTHER -> Throw(client)

(* Faulty variant of HearEnd: the client stays ready for its next game. *)
HearEndStillReady(client, msg) ==
    IF msg.letter = "continue"
    THEN [client EXCEPT !.gameState = "preparation", !.state = "lobby"]
    ELSE client

HearEnd(client, msg) ==
    IF msg.letter = "continue"
    THEN [client EXCEPT !.gameState = "preparation", !.state = "lobby", !.ready = FALSE]
    ELSE client

Hear(client, msg) ==
    CASE client.state = "connected" -> HearConnected(client, msg)
      [] client.state = "lobby" -> HearLobby(client, msg)
      [] client.state = "session" ->
            CASE client.gameState = "preparation" -> HearPreparation(client, msg)
              [] client.gameState = "my_turn" -> HearMyTurn(client, msg)
              [] client.gameState = "enemy_turn" -> HearEnemyTurn(client, msg)
              [] client.gameState = "end" -> HearEnd(client, msg)
              [] OTHER -> client

-----------------------------------------------------------------------------
(* HandleSendMessage.  A line has a word; a "ship" has a placement and a "shot" a
   cell, and neither handler looks at what separates the numbers (spaced). *)
PlacesShip(client, line) == line.word = "ship" /\ CanSetShip(client.m_my, line.ship)

SaysReady(client, line) == line.word = "ready" /\ ShipsReady(client.m_my, Release)

Sends(client, line) ==
    CASE client.state = "connected" ->
            line.word \in {"join", "create", "quit", "list", "connect"}
      [] client.state = "lobby" ->
            line.word \in {"ready", "start", "quit", "unready", "leave"}
      [] client.state = "session" ->
            CASE client.gameState = "preparation" ->
                    PlacesShip(client, line) \/ SaysReady(client, line)
              [] client.gameState = "my_turn" -> line.word = "shot"
              [] client.gameState = "end" -> TRUE
              [] OTHER -> FALSE

(* Faulty variant of Typed: the client's own field is not told of the ship. *)
TypedUnplaced(client, line) ==
    IF client.state # "session" \/ client.gameState # "preparation" THEN client
    ELSE IF SaysReady(client, line) THEN [client EXCEPT !.ready = TRUE]
    ELSE client

(* The line's effect on the client itself: in the preparation a ship goes onto the
   client's own field, and "ready" counts, before the server has seen either. *)
Typed(client, line) ==
    IF client.state # "session" \/ client.gameState # "preparation" THEN client
    ELSE IF PlacesShip(client, line) THEN [client EXCEPT !.m_my = SetShip(@, line.ship)]
    ELSE IF SaysReady(client, line) THEN [client EXCEPT !.ready = TRUE]
    ELSE client

-----------------------------------------------------------------------------
(* What the window lets its user do (FuncBtn, SetShip and Shoot of Main.cpp). *)
ButtonWords(client) ==
    CASE client.state = "connected" -> {"create", "list", "connect", "join", "quit"}
      [] client.state = "lobby" ->
            {IF client.lobbyReady THEN "unready" ELSE "ready", "leave", "quit"}
      [] client.state = "session" ->
            CASE client.gameState = "preparation" -> {"ship", "ready"}
              [] client.gameState = "end" -> {"continue"}
              [] OTHER -> {}

(* The guard of Shoot joins its two conditions with &&. *)
ShotWords(client) ==
    IF client.state = "session" \/ client.gameState = "my_turn" THEN {"shot"} ELSE {}

(* The user has said that his ships are placed, and the turns have not begun. *)
AwaitsTurns(client) ==
    client.state = "session" /\ client.gameState = "preparation" /\ client.ready

OfferedWords(client) == ButtonWords(client) \cup ShotWords(client)
=============================================================================
