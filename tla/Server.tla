------------------------------- MODULE Server -------------------------------
(***************************************************************************)
(* The game server: IDEProj-Server/server.cpp with the lobby, the room and *)
(* the part of a session that decides how long it lives.  One thread runs  *)
(* every handler to its end (io_service.run), so a handler is one action.  *)
(*                                                                         *)
(* Seats and lobbies are raw pointers in the code.  A participant here is  *)
(* the address of a BoostSession: a seat may go on naming it after the     *)
(* session is gone.  Where the code dereferences a dead session or lobby   *)
(* its behaviour is undefined; the model records the fault and stops.      *)
(***************************************************************************)
EXTENDS Field, FiniteSets, Sequences

CONSTANTS
    Participants,   \* addresses of sessions
    NoOne,          \* the null participant*
    NoLobby,        \* the null Lobby*
    FreedLobby,     \* a Lobby* whose lobby was erased
    MaxLobbies,     \* bound on lobbiesCount
    Mishaps,        \* which of "read_error", "write_error", "address_reuse" happen
    Placements      \* the ships players ask for

Ids == 0 .. MaxLobbies - 1

NoCell == <<-1, -1>>

ASSUME ServerAssumption ==
    /\ NoOne \notin Participants
    /\ MaxLobbies \in Nat \ {0}
    /\ NoLobby \notin Ids /\ FreedLobby \notin Ids
    /\ Mishaps \subseteq {"read_error", "write_error", "address_reuse"}
    /\ Placements \subseteq
           [x : Int, y : Int, length : Int, dir : {"h", "v"}]

VARIABLES
    lobbiesCount,
    lobbies,    \* std::map<int, Lobby>: a function on the ids in use
    clentData,  \* std::map<participant*, SharedClient>; operator[] makes the
                \* default record for an absent key, so the map is total here
    session,    \* the life of each BoostSession, see Lives
    sendMsg,    \* the server's one message buffer
    sent,       \* what the last handler gave to deliver, in order
    fault,      \* the kind of dead object dereferenced, or "none"
    idReused    \* history: some create met a lobby that had its id already

vars == <<lobbiesCount, lobbies, clentData, session, sendMsg, sent, fault, idReused>>

-----------------------------------------------------------------------------
ClientStates == {"connected", "lobby", "session"}

GameStates == {"preparation", "turn_1", "turn_2", "end"}

Turns == {"turn_1", "turn_2"}

(* fresh: not accepted yet.  open: in the room, reading.  detached: a write
   failed, the room let go of it, its read still waits.  flushing: it reads no
   more, a write keeps the object alive.  freed: the object is gone. *)
Lives == {"fresh", "open", "detached", "flushing", "freed"}

Letters == {"none", "c", "j", "i", "r", "l", "q", "u", "s", "f", "d",
            "h", "k", "g", "m", "continue"}

Messages == [letter : Letters, cell : Cells \cup {NoCell}]

Say(letter) == [letter |-> letter, cell |-> NoCell]

Seats == Participants \cup {NoOne}

Mail == [to : Seats, msg : Messages]

Clients == [state : ClientStates, lobby : Ids \cup {NoLobby, FreedLobby}, isReady : BOOLEAN]

Lobbies == [p1 : Seats, p2 : Seats, state : GameStates,
            field1 : Fields, field2 : Fields, ready1 : BOOLEAN, ready2 : BOOLEAN]

SharedClient == [state |-> "connected", lobby |-> NoLobby, isReady |-> FALSE]

NewLobby == [p1 |-> NoOne, p2 |-> NoOne, state |-> "preparation",
             field1 |-> EmptyField, field2 |-> EmptyField,
             ready1 |-> FALSE, ready2 |-> FALSE]

-----------------------------------------------------------------------------
(* Lobby.cpp *)
IsParticipant1(lobby, p) == lobby.p1 = p

IsParticipant2(lobby, p) == lobby.p2 = p

HasFreeSeat(lobby) == NoOne \in {lobby.p1, lobby.p2}

(* Faulty variant of IsEmpty: only the first seat is looked at. *)
IsEmptyFirst(lobby) == lobby.p1 = NoOne

IsEmpty(lobby) == {lobby.p1, lobby.p2} = {NoOne}

AddParticipant(lobby, p) ==
    IF lobby.p1 = NoOne THEN [lobby EXCEPT !.p1 = p]
    ELSE IF lobby.p2 = NoOne THEN [lobby EXCEPT !.p2 = p]
    ELSE lobby

(* Faulty variant of RemoveParticipant: the second seat is never given up. *)
RemoveParticipantFirst(lobby, p) == [lobby EXCEPT !.p1 = IF @ = p THEN NoOne ELSE @]

RemoveParticipant(lobby, p) ==
    [lobby EXCEPT !.p1 = IF @ = p THEN NoOne ELSE @,
                  !.p2 = IF @ = p THEN NoOne ELSE @]

GetEnemy(lobby, p) == IF lobby.p1 = p THEN lobby.p2 ELSE lobby.p1

(* The player a turn belongs to. *)
Mover(lobby) == IF lobby.state = "turn_1" THEN lobby.p1 ELSE lobby.p2

MyField(lobby, p) == IF IsParticipant1(lobby, p) THEN lobby.field1 ELSE lobby.field2

SetMyField(lobby, p, f) ==
    IF IsParticipant1(lobby, p) THEN [lobby EXCEPT !.field1 = f]
    ELSE [lobby EXCEPT !.field2 = f]

TargetField(lobby, p) == IF IsParticipant1(lobby, p) THEN lobby.field2 ELSE lobby.field1

SetTargetField(lobby, p, f) ==
    IF IsParticipant1(lobby, p) THEN [lobby EXCEPT !.field2 = f]
    ELSE [lobby EXCEPT !.field1 = f]

(* Faulty variant of SwapState: the turn stays with the player who missed. *)
SwapStateBack(lobby, p) ==
    [lobby EXCEPT !.state = IF IsParticipant1(lobby, p) THEN "turn_1" ELSE "turn_2"]

SwapState(lobby, p) ==
    [lobby EXCEPT !.state = IF IsParticipant1(lobby, p) THEN "turn_2" ELSE "turn_1"]

-----------------------------------------------------------------------------
Init ==
    /\ lobbiesCount = 0
    /\ lobbies = [id \in {} |-> NewLobby]
    /\ clentData = [p \in Seats |-> SharedClient]
    /\ session = [p \in Participants |-> "fresh"]
    /\ sendMsg = Say("none")
    /\ sent = <<>>
    /\ fault = "none"
    /\ idReused = FALSE

Alive(q) == q # NoOne /\ session[q] # "freed"

(* deliver() on each recipient in turn; one that is null or gone is a fault.
   (sent then holds what the handler was about to deliver.) *)
Deliver(letters) ==
    /\ sent' = letters
    /\ fault' = IF \A i \in DOMAIN letters : Alive(letters[i].to) THEN "none" ELSE "session"

WriteMsg(msg, p) == <<[to |-> p, msg |-> msg]>>

(* Faulty variant of WriteLobby: the second player is left out. *)
WriteLobbyFirst(msg, lobby) == WriteMsg(msg, lobby.p1) \o WriteMsg(msg, lobby.p1)

WriteLobby(msg, lobby) == WriteMsg(msg, lobby.p1) \o WriteMsg(msg, lobby.p2)

(* A handler that answers its sender and tells nobody else. *)
Reply(letter, p) ==
    /\ sendMsg' = Say(letter)
    /\ Deliver(WriteMsg(Say(letter), p))

(* A message of p is being handled in the given client state. *)
Handling(p, state) ==
    /\ fault = "none"
    /\ session[p] \in {"open", "detached"}
    /\ clentData[p].state = state

HasLobby(p) == clentData[p].lobby \in DOMAIN lobbies

LobbyOf(p) == lobbies[clentData[p].lobby]

SetLobby(p, lobby) == [lobbies EXCEPT ![clentData[p].lobby] = lobby]

(* Faulty variant of StopReading: a write is under way in a session that lost one. *)
StopReadingFlushing(p, writing) ==
    session' = [session EXCEPT ![p] = IF writing THEN "flushing" ELSE "freed"]

(* BoostRoom::leave after the read loop stopped: the record goes, the seat
   stays.  The object lives on while a write is under way. *)
StopReading(p, writing) ==
    session' = [session EXCEPT
        ![p] = IF writing /\ session[p] = "open" THEN "flushing" ELSE "freed"]

(* Faulty variant of Forget: the record outlives the session. *)
ForgetNothing(p, clients) == clients

Forget(p, clients) == [clients EXCEPT ![p] = SharedClient]

-----------------------------------------------------------------------------
(* BoostSession::start and BoostRoom::join.  A later session may be allocated
   where a dead one was. *)
Connect(p) ==
    /\ fault = "none"
    /\ \/ session[p] = "fresh"
       \/ session[p] = "freed" /\ "address_reuse" \in Mishaps
    /\ session' = [session EXCEPT ![p] = "open"]
    /\ clentData' = [clentData EXCEPT ![p] = SharedClient]
    /\ sent' = <<>>
    /\ UNCHANGED <<lobbiesCount, lobbies, sendMsg, fault, idReused>>

(* A read fails, or the connection was closed: handle_read_header and
   handle_read_body leave the room. *)
ReadError(p) ==
    /\ fault = "none"
    /\ \/ session[p] = "open" /\ "read_error" \in Mishaps
       \/ session[p] = "detached"
    /\ \E writing \in BOOLEAN : StopReading(p, writing)
    /\ clentData' = Forget(p, clentData)
    /\ sent' = <<>>
    /\ UNCHANGED <<lobbiesCount, lobbies, sendMsg, fault, idReused>>

(* A write fails: handle_write leaves the room while a read still waits.  (The
   model does not count a session's writes: any session in the room may have
   one under way.) *)
WriteError(p) ==
    /\ fault = "none"
    /\ "write_error" \in Mishaps
    /\ session[p] \in {"open", "flushing"}
    /\ session' = [session EXCEPT ![p] = IF @ = "open" THEN "detached" ELSE "freed"]
    /\ clentData' = Forget(p, clentData)
    /\ sent' = <<>>
    /\ UNCHANGED <<lobbiesCount, lobbies, sendMsg, fault, idReused>>

(* The last write of a session that reads no more is done: nothing holds it. *)
Flushed(p) ==
    /\ fault = "none"
    /\ session[p] = "flushing"
    /\ session' = [session EXCEPT ![p] = "freed"]
    /\ sent' = <<>>
    /\ UNCHANGED <<lobbiesCount, lobbies, clentData, sendMsg, fault, idReused>>

-----------------------------------------------------------------------------
(* HandleMessageConnected *)

(* p is in the lobby with this id, or points at it without a seat. *)
EnterLobby(p, id) ==
    clentData' = [clentData EXCEPT ![p].state = "lobby", ![p].lobby = id]

(* The id is lobbiesCount, whether or not a lobby has it already, and whether
   or not a seat is free. *)
Create(p) ==
    /\ Handling(p, "connected")
    /\ lobbiesCount < MaxLobbies
    /\ LET id == lobbiesCount
           lobby == IF id \in DOMAIN lobbies THEN lobbies[id] ELSE NewLobby
       IN  /\ lobbies' = [i \in DOMAIN lobbies \cup {id} |->
                             IF i = id THEN AddParticipant(lobby, p) ELSE lobbies[i]]
           /\ EnterLobby(p, id)
           /\ idReused' = (idReused \/ id \in DOMAIN lobbies)
    /\ lobbiesCount' = lobbiesCount + 1
    /\ Reply("c", p)
    /\ UNCHANGED session

Enter(p, id, letter) ==
    /\ lobbies' = [lobbies EXCEPT ![id] = AddParticipant(@, p)]
    /\ EnterLobby(p, id)
    /\ Reply(letter, p)
    /\ UNCHANGED <<lobbiesCount, session, idReused>>

FreeLobbies == {id \in DOMAIN lobbies : HasFreeSeat(lobbies[id])}

(* The first lobby, in the order of the map, with a seat. *)
Join(p) ==
    /\ Handling(p, "connected")
    /\ \E id \in FreeLobbies :
           /\ \A other \in FreeLobbies : id <= other
           /\ Enter(p, id, "j")

ConnectTo(p, id) ==
    /\ Handling(p, "connected")
    /\ id \in FreeLobbies
    /\ Enter(p, id, "i")

(* join with no seat anywhere, or connect to a full or missing lobby: the
   number asked for is any integer, so there is always one to refuse. *)
Refuse(p) ==
    /\ Handling(p, "connected")
    /\ Reply("r", p)
    /\ UNCHANGED <<lobbiesCount, lobbies, clentData, session, idReused>>

List(p) ==
    /\ Handling(p, "connected")
    /\ Reply("l", p)
    /\ UNCHANGED <<lobbiesCount, lobbies, clentData, session, idReused>>

QuitConnected(p) ==
    /\ Handling(p, "connected")
    /\ Reply("q", p)
    /\ StopReading(p, TRUE)
    /\ clentData' = Forget(p, clentData)
    /\ UNCHANGED <<lobbiesCount, lobbies, idReused>>

(* Any other line is dropped without a word, here and in the lobby. *)

-----------------------------------------------------------------------------
(* HandleMessageLobby *)

(* Faulty variant of StartSession: the second field is not cleared. *)
StartSessionFirst(lobby) ==
    [lobby EXCEPT !.field1 = Clear(@), !.state = "preparation"]

StartSession(lobby) ==
    [lobby EXCEPT !.field1 = Clear(@), !.field2 = Clear(@), !.state = "preparation"]

(* The sender becomes ready; if the other one is, the game begins. *)
ReadyInLobby(p) ==
    /\ Handling(p, "lobby")
    /\ HasLobby(p)
    /\ LET lobby == LobbyOf(p)
           enemy == GetEnemy(lobby, p)
           clients == [clentData EXCEPT ![p].isReady = TRUE]
       IN  IF clients[enemy].isReady
           THEN /\ clentData' = [clients EXCEPT ![p].state = "session",
                                                ![enemy].state = "session"]
                /\ lobbies' = SetLobby(p, StartSession(lobby))
                /\ sendMsg' = Say("s")
                /\ Deliver(WriteMsg(Say("r"), p) \o WriteLobby(Say("s"), lobby))
           ELSE /\ clentData' = clients
                /\ Reply("r", p)
                /\ UNCHANGED lobbies
    /\ UNCHANGED <<lobbiesCount, session, idReused>>

Unready(p) ==
    /\ Handling(p, "lobby")
    /\ clentData' = [clentData EXCEPT ![p].isReady = FALSE]
    /\ Reply("u", p)
    /\ UNCHANGED <<lobbiesCount, lobbies, session, idReused>>

(* The sender's seat is given up; an empty lobby is erased, and every pointer
   to it dangles from then on. *)
Vacate(p, clients) ==
    LET id == clentData[p].lobby
        lobby == RemoveParticipant(LobbyOf(p), p)
    IN  IF IsEmpty(lobby)
        THEN /\ lobbies' = [i \in DOMAIN lobbies \ {id} |-> lobbies[i]]
             /\ clentData' = [q \in Seats |->
                    IF clients[q].lobby = id THEN [clients[q] EXCEPT !.lobby = FreedLobby]
                    ELSE clients[q]]
        ELSE /\ lobbies' = SetLobby(p, lobby)
             /\ clentData' = clients

(* leave keeps isReady as it is, and keeps lobbiesCount even if the lobby goes. *)
Leave(p) ==
    /\ Handling(p, "lobby")
    /\ HasLobby(p)
    /\ Vacate(p, [clentData EXCEPT ![p].state = "connected"])
    /\ Reply("l", p)
    /\ UNCHANGED <<lobbiesCount, session, idReused>>

(* Faulty variant of QuitLobby: the count goes down with every player. *)
QuitLobbyAlwaysCounted(p) ==
    /\ Handling(p, "lobby")
    /\ HasLobby(p)
    /\ Vacate(p, Forget(p, clentData))
    /\ lobbiesCount' = lobbiesCount - 1
    /\ Reply("q", p)
    /\ StopReading(p, TRUE)
    /\ UNCHANGED idReused

QuitLobby(p) ==
    /\ Handling(p, "lobby")
    /\ HasLobby(p)
    /\ Vacate(p, Forget(p, clentData))
    /\ lobbiesCount' =
           IF IsEmpty(RemoveParticipant(LobbyOf(p), p)) THEN lobbiesCount - 1 ELSE lobbiesCount
    /\ Reply("q", p)
    /\ StopReading(p, TRUE)
    /\ UNCHANGED idReused

(* Any handler that follows the client's lobby pointer when it dangles. *)
FollowDeadLobby(p) ==
    /\ \/ Handling(p, "lobby")
       \/ Handling(p, "session")
    /\ ~HasLobby(p)
    /\ fault' = "lobby"
    /\ sent' = <<>>
    /\ UNCHANGED <<lobbiesCount, lobbies, clentData, session, sendMsg, idReused>>

-----------------------------------------------------------------------------
(* HandleMessageSession: preparation *)

Playing(p, states) ==
    /\ Handling(p, "session")
    /\ HasLobby(p)
    /\ LobbyOf(p).state \in states

PlaceShip(p, s) ==
    /\ Playing(p, {"preparation"})
    /\ LET lobby == LobbyOf(p)
           my == MyField(lobby, p)
       IN  IF CanSetShip(my, s)
           THEN /\ lobbies' = SetLobby(p, SetMyField(lobby, p, SetShip(my, s)))
                /\ Reply("d", p)
           ELSE /\ Reply("f", p)
                /\ UNCHANGED lobbies
    /\ UNCHANGED <<lobbiesCount, clentData, session, idReused>>

MarkReady(lobby, p) ==
    [lobby EXCEPT !.ready1 = @ \/ IsParticipant1(lobby, p),
                  !.ready2 = @ \/ IsParticipant2(lobby, p)]

(* The second to be ready starts the turns; rand() decides whose is first.
   Placements are not looked at. *)
ReadyToPlay(p) ==
    /\ Playing(p, {"preparation"})
    /\ LET lobby == MarkReady(LobbyOf(p), p)
       IN  IF lobby.ready1 /\ lobby.ready2
           THEN \E turn \in Turns :
                    LET started == [lobby EXCEPT !.state = turn]
                        first == Mover(started)
                        second == IF turn = "turn_1" THEN lobby.p2 ELSE lobby.p1
                    IN  /\ lobbies' = SetLobby(p, started)
                        /\ sendMsg' = Say("s")
                        /\ Deliver(WriteMsg(Say("f"), first) \o WriteMsg(Say("s"), second))
           ELSE /\ lobbies' = SetLobby(p, lobby)
                /\ sent' = <<>>
                /\ UNCHANGED <<sendMsg, fault>>
    /\ UNCHANGED <<lobbiesCount, clentData, session, idReused>>

-----------------------------------------------------------------------------
(* HandleMessageSession: turns *)

IsMyTurn(lobby, p) ==
    \/ lobby.state = "turn_1" /\ IsParticipant1(lobby, p)
    \/ lobby.state = "turn_2" /\ IsParticipant2(lobby, p)

Answer(letter, c) == [letter |-> letter, cell |-> c]

Announce(msg, lobby) ==
    /\ sendMsg' = msg
    /\ Deliver(WriteLobby(msg, lobby))

RepeatShot(p, c) ==
    /\ Playing(p, Turns)
    /\ IsMyTurn(LobbyOf(p), p)
    /\ c \in TargetField(LobbyOf(p), p).shot
    /\ Reply("f", p)
    /\ UNCHANGED <<lobbiesCount, lobbies, clentData, session, idReused>>

(* A shot that does not end the game: a miss passes the turn, a hit keeps it. *)
Shoot(p, c) ==
    /\ Playing(p, Turns)
    /\ LET lobby == LobbyOf(p)
           target == TargetField(lobby, p)
           answer == ShotAnswer(target, c)
           hit == SetTargetField(lobby, p, ShotField(target, c))
       IN  /\ IsMyTurn(lobby, p)
           /\ c \notin target.shot
           /\ answer # "g"
           /\ lobbies' = SetLobby(p, IF answer = "m" THEN SwapState(hit, p) ELSE hit)
           /\ Announce(Answer(answer, c), lobby)
    /\ UNCHANGED <<lobbiesCount, clentData, session, idReused>>

EndGame(lobby) == [lobby EXCEPT !.state = "end"]

(* Faulty variant of ResetReady: the second player stays ready. *)
ResetReadyFirst(lobby) == [lobby EXCEPT !.ready1 = FALSE]

ResetReady(lobby) == [lobby EXCEPT !.ready1 = FALSE, !.ready2 = FALSE]

(* The shot that sinks the last ship ends the game in both players' lobbies. *)
Win(p, c) ==
    /\ Playing(p, Turns)
    /\ LET lobby == LobbyOf(p)
           enemy == GetEnemy(lobby, p)
           target == TargetField(lobby, p)
           theirs == clentData[enemy].lobby
           won == ResetReady(EndGame(SetTargetField(lobby, p, ShotField(target, c))))
       IN  /\ IsMyTurn(lobby, p)
           /\ c \notin target.shot
           /\ ShotAnswer(target, c) = "g"
           /\ IF theirs \in DOMAIN lobbies
              THEN /\ lobbies' = [id \in DOMAIN lobbies |->
                                     IF id = clentData[p].lobby THEN won
                                     ELSE IF id = theirs THEN EndGame(lobbies[id])
                                     ELSE lobbies[id]]
                   /\ clentData' = [clentData EXCEPT ![p].isReady = FALSE,
                                                     ![enemy].isReady = FALSE]
                   /\ Announce(Answer("g", c), lobby)
              ELSE /\ fault' = "lobby"
                   /\ sent' = <<>>
                   /\ UNCHANGED <<lobbies, clentData, sendMsg>>
    /\ UNCHANGED <<lobbiesCount, session, idReused>>

(* Any message of the player whose turn it is not. *)
WrongTurn(p) ==
    /\ Playing(p, Turns)
    /\ ~IsMyTurn(LobbyOf(p), p)
    /\ Reply("f", p)
    /\ UNCHANGED <<lobbiesCount, lobbies, clentData, session, idReused>>

(* A message that is no shot, from the player to move: the lobby gets whatever
   the buffer was last used for, in any lobby. *)
Rebroadcast(p) ==
    /\ Playing(p, Turns)
    /\ IsMyTurn(LobbyOf(p), p)
    /\ Deliver(WriteLobby(sendMsg, LobbyOf(p)))
    /\ UNCHANGED <<lobbiesCount, lobbies, clentData, session, sendMsg, idReused>>

-----------------------------------------------------------------------------
(* HandleMessageSession: the end *)

(* Faulty variant of Continue: the state of the game is not asked for. *)
ContinueAnyTime(p) ==
    /\ Playing(p, GameStates)
    /\ clentData' = [clentData EXCEPT ![p].state = "lobby", ![p].isReady = FALSE]
    /\ Reply("continue", p)
    /\ UNCHANGED <<lobbiesCount, lobbies, session, idReused>>

Continue(p) ==
    /\ Playing(p, {"end"})
    /\ LET lobby == LobbyOf(p)
           enemy == GetEnemy(lobby, p)
           clients == [clentData EXCEPT ![p].state = "lobby"]
       IN  /\ lobbies' = IF clients[enemy].state = "lobby"
                         THEN SetLobby(p, [lobby EXCEPT !.state = "preparation"])
                         ELSE lobbies
           /\ clentData' = [clients EXCEPT ![p].isReady = FALSE]
    /\ Reply("continue", p)
    /\ UNCHANGED <<lobbiesCount, session, idReused>>

(* Anything unexpected before or after the turns is answered "f"; then the
   function ends without a return statement, and the caller may read either
   value: the session reads on, or leaves the room. *)
Unexpected(p) ==
    /\ Playing(p, {"preparation", "end"})
    /\ Reply("f", p)
    /\ \/ UNCHANGED <<clentData, session>>
       \/ /\ StopReading(p, TRUE)
          /\ clentData' = Forget(p, clentData)
    /\ UNCHANGED <<lobbiesCount, lobbies, idReused>>

-----------------------------------------------------------------------------
HandleMessageConnected(p) ==
    \/ Create(p)
    \/ Join(p)
    \/ \E id \in Ids : ConnectTo(p, id)
    \/ Refuse(p)
    \/ List(p)
    \/ QuitConnected(p)

HandleMessageLobby(p) ==
    \/ ReadyInLobby(p)
    \/ Unready(p)
    \/ Leave(p)
    \/ QuitLobby(p)

HandleMessageSession(p) ==
    \/ \E s \in Placements : PlaceShip(p, s)
    \/ ReadyToPlay(p)
    \/ \E c \in Cells : RepeatShot(p, c) \/ Shoot(p, c) \/ Win(p, c)
    \/ WrongTurn(p)
    \/ Rebroadcast(p)
    \/ Continue(p)
    \/ Unexpected(p)

SessionEvent(p) ==
    \/ Connect(p)
    \/ ReadError(p)
    \/ WriteError(p)
    \/ Flushed(p)

Next ==
    \E p \in Participants :
        \/ SessionEvent(p)
        \/ HandleMessageConnected(p)
        \/ HandleMessageLobby(p)
        \/ HandleMessageSession(p)
        \/ FollowDeadLobby(p)

Spec == Init /\ [][Next]_vars

-----------------------------------------------------------------------------
TypeOK ==
    /\ lobbiesCount \in 0 .. MaxLobbies
    /\ DOMAIN lobbies \subseteq Ids
    /\ lobbies \in [DOMAIN lobbies -> Lobbies]
    /\ clentData \in [Seats -> Clients]
    /\ session \in [Participants -> Lives]
    /\ sendMsg \in Messages
    /\ sent \in Seq(Mail)
    /\ fault \in {"none", "session", "lobby"}
    /\ idReused \in BOOLEAN

SeatsOf(lobby) == {lobby.p1, lobby.p2} \ {NoOne}

Open(q) == session[q] = "open"

(* A lobby number is given out by counting, and taken back only by the quit that
   empties a lobby: there are never more lobbies than the count says, and
   none is left in the map without a player (server.cpp:28-31, 155-158, 167-171). *)
LobbiesCounted ==
    /\ Cardinality(DOMAIN lobbies) <= lobbiesCount
    /\ \A id \in DOMAIN lobbies : SeatsOf(lobbies[id]) # {}

(* As long as no create met an existing lobby, a player past the connected state
   points at a lobby of the map and has a seat there: leaving players never
   free a lobby that another still points at. *)
Seated(p) ==
    clentData[p].state # "connected" =>
        /\ clentData[p].lobby \in DOMAIN lobbies
        /\ p \in SeatsOf(lobbies[clentData[p].lobby])

PlayersSeated == ~idReused => \A p \in Participants : Seated(p)

(* A seat whose session still reads belongs to a player whose record says so:
   nobody sits in two lobbies, or twice in one, or in one he has left. *)
SeatsOwned ==
    \A id \in DOMAIN lobbies :
        /\ \A q \in SeatsOf(lobbies[id]) : Open(q) =>
               clentData[q].state # "connected" /\ clentData[q].lobby = id
        /\ lobbies[id].p1 = lobbies[id].p2 => lobbies[id].p1 = NoOne

(* A session that reads no more has no record in the room, and neither has the
   null participant: no game is started with a player who is gone or was
   never there (BoostRoom.cpp:25, server.cpp:129). *)
GoneAreForgotten ==
    \A q \in Seats :
        q = NoOne \/ session[q] \notin {"open", "detached"} => clentData[q] = SharedClient

(* A seat that outlived its session: the room forgot the player, the lobby
   did not (BoostRoom.cpp:18-26). *)
GhostIn(lobby) == \E q \in SeatsOf(lobby) : ~Open(q)

(* A dead session or lobby is followed only after a lobby number was reused, or
   while a seat names a player who is gone or whose record is elsewhere: with
   every seat its player's own, no handler meets a dead object. *)
FaultsHaveCause ==
    fault # "none" =>
        \/ idReused
        \/ \E id \in DOMAIN lobbies :
              \E q \in SeatsOf(lobbies[id]) : ~Open(q) \/ clentData[q].lobby # id

(* While turns are played both seats are taken, and each player whose
   session is open is in the session: nobody is left to wait for a
   player who is back in the lobby. *)
TurnsHaveTwoPlayers ==
    ~idReused => \A id \in DOMAIN lobbies :
        lobbies[id].state \in Turns =>
            /\ NoOne \notin {lobbies[id].p1, lobbies[id].p2}
            /\ \A q \in SeatsOf(lobbies[id]) : Open(q) => clentData[q].state = "session"

(* A lobby whose players wait for a new game holds nothing over from the last
   one that could start the turns early: neither is ready to play, and the
   game is not in its turns. *)
LobbyHoldsNoStaleStart ==
    ~idReused => \A id \in DOMAIN lobbies :
        (\E q \in SeatsOf(lobbies[id]) : Open(q) /\ clentData[q].state = "lobby") =>
            /\ ~lobbies[id].ready1 /\ ~lobbies[id].ready2
            /\ lobbies[id].state \notin Turns

Fields2(lobby) == {lobby.field1, lobby.field2}

(* Turns begin when both are ready and end with the shot that sinks a field:
   no field with ships is finished while turns are played, and at the end one is. *)
EndMeansSunk ==
    ~idReused => \A id \in DOMAIN lobbies :
        LET lobby == lobbies[id]
            sunk == \E f \in Fields2(lobby) : f.ship # {} /\ GameFinished(f)
        IN  /\ lobby.state \in Turns => ~sunk /\ lobby.ready1 /\ lobby.ready2
            /\ lobby.state = "end" => sunk /\ ~lobby.ready1 /\ ~lobby.ready2

ToldAlike(old) ==
    {[to |-> old.p1, msg |-> sendMsg'], [to |-> old.p2, msg |-> sendMsg']}
        = {sent'[i] : i \in DOMAIN sent'}

ToldTurns(new) ==
    sent' = <<[to |-> Mover(new), msg |-> Say("f")],
              [to |-> GetEnemy(new, Mover(new)), msg |-> Say("s")]>>

BothTold(old, new) ==
    /\ old.state \in Turns /\ Fields2(old) # Fields2(new) => ToldAlike(old)
    /\ old.state = "preparation" /\ new.state \in Turns => ToldTurns(new)

(* Whenever the shots on a field change, both seats of that lobby are told the
   same; when turns begin, the player to move is told "f" and the other "s". *)
BothAreTold ==
    [][~idReused' => \A id \in DOMAIN lobbies \cap DOMAIN lobbies' :
            BothTold(lobbies[id], lobbies'[id])]_vars

(* On "c" client.cpp:69 tells the player that a lobby was created: each
   "c" goes to the only player of a lobby that was not there before. *)
CreatedIsNew ==
    [][\A i \in DOMAIN sent' : sent'[i].msg.letter = "c" =>
        \E id \in DOMAIN lobbies' \ DOMAIN lobbies :
            SeatsOf(lobbies'[id]) = {sent'[i].to}]_vars
=============================================================================
