------------------------------- MODULE System -------------------------------
(***************************************************************************)
(* The server and its clients, with a FIFO channel in each direction (TCP, *)
(* and the write queues of both ends: see Session and Connection).  A      *)
(* player presses a button; the client's window thread turns it into a     *)
(* line (Act), the server handles the line when it arrives (Serve), the    *)
(* client's io thread handles each answer when it arrives (Receive).  What *)
(* the player saw when he pressed may be over when his client acts, and    *)
(* what his client believed when it sent may be over when the server reads.*)
(***************************************************************************)
EXTENDS Server, Client

CONSTANTS
    Lines,      \* the lines players give, see LineRecords
    NoLine,     \* no button is pressed
    Careful,    \* TRUE: players wait where the code does not make them, see MayPress
    MayClose,   \* TRUE: players may close their clients at any time
    MaxPending  \* bound on the messages in a channel

Words == {"create", "join", "connect", "list", "quit", "ready", "unready",
          "leave", "start", "ship", "shot", "continue"}

NoShip == [x |-> -1, y |-> -1, length |-> 0, dir |-> "h"]

LineRecords ==
    [word : Words, id : Ids, ship : Placements \cup {NoShip},
     cell : Cells \cup {NoCell}, spaced : BOOLEAN]

(* The window gives a ship's line with a ship and a shot's with a cell. *)
ASSUME SystemAssumption ==
    /\ Lines \subseteq LineRecords /\ NoLine \notin LineRecords
    /\ \A line \in Lines :
           /\ line.word = "ship" => line.ship \in Placements
           /\ line.word = "shot" => line.cell \in Cells
    /\ Careful \in BOOLEAN /\ MayClose \in BOOLEAN
    /\ MaxPending \in Nat \ {0}

VARIABLES
    client,     \* the client program at the other end of each session
    pressed,    \* the line a player's button stands for, not yet acted on
    toServer,   \* lines on their way to the server
    toClient    \* messages on their way to each client

ends == <<client, pressed, toServer, toClient>>

sysVars == <<vars, ends>>

SysInit ==
    /\ Init
    /\ client \in [Participants -> {NewClient(g) : g \in InitialGameStates}]
    /\ pressed = [p \in Participants |-> NoLine]
    /\ toServer = [p \in Participants |-> <<>>]
    /\ toClient = [p \in Participants |-> <<>>]

-----------------------------------------------------------------------------
Running(p) == client[p].program = "running"

Quiet(p) == toServer[p] = <<>> /\ toClient[p] = <<>> /\ pressed[p] = NoLine

(* The server's number of creates is bounded, so the players' must be. *)
CreatesPending ==
    Cardinality({p \in Participants :
        \/ pressed[p] # NoLine /\ pressed[p].word = "create"
        \/ \E i \in DOMAIN toServer[p] : toServer[p][i].word = "create"})

(* A careful player says that he is ready, in the lobby or for the turns, only when
   nothing he sent or is sent is under way, and then presses nothing until
   the turns begin.  At all other times he presses on as fast as he likes. *)
MayPress(p, line) ==
    /\ pressed[p] = NoLine
    /\ Careful =>
           /\ line.word = "ready" => Quiet(p)
           /\ ~AwaitsTurns(client[p])

(* The player presses a button his client shows. *)
Press(p, line) ==
    /\ Running(p) /\ Open(p)
    /\ MayPress(p, line)
    /\ line.word \in OfferedWords(client[p])
    /\ line.word = "create" => lobbiesCount + CreatesPending < MaxLobbies
    /\ pressed' = [pressed EXCEPT ![p] = line]
    /\ UNCHANGED <<vars, client, toServer, toClient>>

(* HandleSendMessage, by what the client believes now.  "quit" ends the program
   as well (isActive): its line may or may not still be written. *)
Act(p) ==
    /\ pressed[p] # NoLine /\ Running(p)
    /\ Len(toServer[p]) < MaxPending
    /\ LET line == pressed[p]
           now == client[p]
       IN  /\ client' = [client EXCEPT ![p] =
                  IF line.word = "quit" THEN [now EXCEPT !.program = "closed"]
                  ELSE Typed(now, line)]
           /\ toServer' = IF Sends(now, line)
                          THEN [toServer EXCEPT ![p] = Append(@, line)]
                          ELSE toServer
    /\ pressed' = [pressed EXCEPT ![p] = NoLine]
    /\ UNCHANGED <<vars, toClient>>

(* The io thread's HandleMessage. *)
Receive(p) ==
    /\ Running(p)
    /\ toClient[p] # <<>>
    /\ client' = [client EXCEPT ![p] = Hear(@, Head(toClient[p]))]
    /\ toClient' = [toClient EXCEPT ![p] = Tail(@)]
    /\ UNCHANGED <<vars, pressed, toServer>>

-----------------------------------------------------------------------------
(* Server::HandleMessage: which handler a line reaches, and with what. *)
IsPlacement(line) == line.word = "ship" /\ line.spaced

IsShot(line) == line.word = "shot" /\ line.spaced

(* A line that the handler of a connected player, or of one in a lobby, does not
   know: nobody is told, and nothing changes. *)
Drop(p, line) ==
    /\ \/ Handling(p, "connected")
          /\ line.word \notin {"create", "join", "connect", "list", "quit"}
       \/ Handling(p, "lobby") /\ line.word \notin {"ready", "unready", "leave", "quit"}
    /\ UNCHANGED <<vars, toClient>>

ObeyConnected(p, line) ==
    \/ line.word = "create" /\ Create(p)
    \/ line.word = "join" /\ Join(p)
    \/ line.word = "join" /\ FreeLobbies = {} /\ Refuse(p)
    \/ line.word = "connect" /\ ConnectTo(p, line.id)
    \/ line.word = "connect" /\ line.id \notin FreeLobbies /\ Refuse(p)
    \/ line.word = "list" /\ List(p)
    \/ line.word = "quit" /\ QuitConnected(p)

ObeyLobby(p, line) ==
    \/ line.word = "ready" /\ ReadyInLobby(p)
    \/ line.word = "unready" /\ Unready(p)
    \/ line.word = "leave" /\ Leave(p)
    \/ line.word = "quit" /\ QuitLobby(p)

ObeySession(p, line) ==
    \/ IsPlacement(line) /\ PlaceShip(p, line.ship)
    \/ line.word = "ready" /\ ReadyToPlay(p)
    \/ IsShot(line) /\ (RepeatShot(p, line.cell) \/ Shoot(p, line.cell) \/ Win(p, line.cell))
    \/ WrongTurn(p)
    \/ ~IsShot(line) /\ Rebroadcast(p)
    \/ line.word = "continue" /\ Continue(p)
    \/ /\ Handling(p, "session") /\ HasLobby(p)
       /\ LobbyOf(p).state = "preparation" => ~IsPlacement(line) /\ line.word # "ready"
       /\ LobbyOf(p).state = "end" => line.word # "continue"
       /\ Unexpected(p)

Obey(p, line) ==
    \/ ObeyConnected(p, line)
    \/ ObeyLobby(p, line)
    \/ ObeySession(p, line)
    \/ FollowDeadLobby(p)

(* The messages to q among those delivered, in their order. *)
MailFor(q) ==
    LET mine == {i \in DOMAIN sent' : sent'[i].to = q}
        Nth(n) == CHOOSE i \in mine : Cardinality({j \in mine : j <= i}) = n
    IN  [n \in 1 .. Cardinality(mine) |-> sent'[Nth(n)].msg]

(* What the handler delivered joins the channels of the clients that still run. *)
Posted ==
    toClient' = [q \in Participants |->
        IF Running(q) THEN toClient[q] \o MailFor(q) ELSE toClient[q]]

Serve(p) ==
    /\ toServer[p] # <<>>
    /\ \A q \in Participants : Running(q) => Len(toClient[q]) < MaxPending
    /\ LET line == Head(toServer[p])
       IN  \/ Obey(p, line) /\ Posted
           \/ Drop(p, line)
    /\ toServer' = [toServer EXCEPT ![p] = Tail(@)]
    /\ UNCHANGED <<client, pressed>>

-----------------------------------------------------------------------------
(* A client connects. *)
Accept(p) ==
    /\ Connect(p)
    /\ UNCHANGED ends

(* The player closes his client, whatever it is doing. *)
Close(p) ==
    /\ MayClose /\ Running(p) /\ Open(p)
    /\ client' = [client EXCEPT ![p].program = "closed"]
    /\ UNCHANGED <<vars, pressed, toServer, toClient>>

(* The server finds the connection of a client that is no more closed; lines it
   has not read are lost. *)
Disconnect(p) ==
    /\ ~Running(p)
    /\ ReadError(p)
    /\ toServer' = [toServer EXCEPT ![p] = <<>>]
    /\ toClient' = [toClient EXCEPT ![p] = <<>>]
    /\ UNCHANGED <<client, pressed>>

Flush(p) ==
    /\ Flushed(p)
    /\ UNCHANGED ends

SysNext ==
    \E p \in Participants :
        \/ Accept(p)
        \/ \E line \in Lines : Press(p, line)
        \/ Act(p)
        \/ Serve(p)
        \/ Receive(p)
        \/ Close(p)
        \/ Disconnect(p)
        \/ Flush(p)

SysSpec == SysInit /\ [][SysNext]_sysVars

(* The programs go on, the players may stop: io_service.run serves every message
   that has arrived on both sides, and a button pressed is acted on. *)
Fairness ==
    \A p \in Participants : WF_sysVars(Act(p)) /\ WF_sysVars(Serve(p)) /\ WF_sysVars(Receive(p))

FairSpec == SysSpec /\ Fairness
-----------------------------------------------------------------------------
SystemTypeOK ==
    /\ client \in [Participants -> ClientPrograms]
    /\ pressed \in [Participants -> Lines \cup {NoLine}]
    /\ toServer \in [Participants -> Seq(Lines)]
    /\ toClient \in [Participants -> Seq(Messages)]

(* No client gets a message it answers with an exception ("Wrong message
   received?", client.cpp:93, 160, 264, 310), which would end its program. *)
NoClientThrows == \A p \in Participants : client[p].program # "thrown"

(* Once nothing is under way, a client and the server believe the same of the
   player, his readiness, the game and the enemy's field: commands that cross with
   the enemy's moves lead the two apart for a while only. *)
GameStateFor(lobby, p) ==
    IF lobby.state \notin Turns THEN lobby.state
    ELSE IF Mover(lobby) = p THEN "my_turn" ELSE "enemy_turn"

ReadyFlag(lobby, p) == IF IsParticipant1(lobby, p) THEN lobby.ready1 ELSE lobby.ready2

SeesTurns(p, lobby) ==
    /\ client[p].gameState = GameStateFor(lobby, p)
    /\ lobby.state = "preparation" => client[p].ready = ReadyFlag(lobby, p)

SeesEnemy(p, lobby) ==
    LET target == TargetField(lobby, p)
    IN  /\ client[p].m_en.ship = target.ship \cap target.shot
        /\ client[p].m_en.shot = target.shot

SeesOwn(p, lobby) ==
    LET my == MyField(lobby, p)
    IN  <<client[p].m_my.ship, client[p].m_my.shot>> = <<my.ship, my.shot>>

SeesPlace(p) ==
    /\ client[p].state = clentData[p].state
    /\ client[p].state = "lobby" => client[p].lobbyReady = clentData[p].isReady

Idle(p) == Running(p) /\ Open(p) /\ Quiet(p)

ClientsAgree ==
    ~idReused => \A p \in Participants :
        Idle(p) =>
            /\ SeesPlace(p)
            /\ client[p].state = "session" =>
                   SeesTurns(p, LobbyOf(p)) /\ SeesEnemy(p, LobbyOf(p))

(* And of his own field, where the client puts ships before the server has answered
   (client.cpp:345) and marks the enemy's shots by what it is told of them. *)
OwnFieldsAgree ==
    ~idReused => \A p \in Participants :
        Idle(p) /\ client[p].state = "session" => SeesOwn(p, LobbyOf(p))

(* The client tries a placement on its own field first ("we want to check here
   our placement", client.cpp:345), so the server never refuses one. *)
PlacementsAccepted ==
    \A p \in Participants :
        toServer[p] # <<>> /\ Playing(p, {"preparation"}) =>
            LET line == Head(toServer[p])
            IN  line.word = "ship" =>
                    line.spaced /\ CanSetShip(MyField(LobbyOf(p), p), line.ship)

(* A player the server has moved into a session gets there, the one who was
   ready first as well as the one who was ready last. *)
BothEnter ==
    \A p \in Participants :
        Open(p) /\ clentData[p].state = "session"
            ~> client[p].state = "session" \/ ~Running(p) \/ ~Open(p)

(* A turn is never lost between the server and the client: the player to move is
   told so, or the game goes on without. *)
ToMove(p) ==
    Playing(p, Turns) /\ IsMyTurn(LobbyOf(p), p) /\ Running(p) /\ Open(p)

TurnReachesPlayer ==
    \A p \in Participants : ToMove(p) ~> client[p].gameState = "my_turn" \/ ~ToMove(p)
=============================================================================
