------------------------- MODULE ServerMatchProofs -------------------------
(* The server plays a Match in the lobby that is watched, whatever its players send and
   whenever they go: the refinement of ServerMatch, in safety. *)
EXTENDS ServerProofs, ServerMatch

(* Who is still in the session of a game that has ended is not ready, so that a game
   is not begun with him before he has gone on. *)
Rested(lobby, life, clients) ==
    lobby.state = "end" =>
        \A q \in SeatsOf(lobby) :
            life[q] = "open" /\ clients[q].state = "session" => ~clients[q].isReady

EndRested ==
    ~idReused => \A id \in DOMAIN lobbies : Rested(lobbies[id], session, clentData)

PlayInv == GamesInv /\ FieldsSound /\ EndRested

LEMMA InitPlayInv == Init => PlayInv
<1>1. Init => FieldsSound /\ EndRested
  BY DEF Init, FieldsSound, EndRested
<1> QED
  BY <1>1, InitGamesInv DEF PlayInv

-----------------------------------------------------------------------------
(* A lobby stays rested when the players still in its session were there before, and none
   of them has become ready. *)
LEMMA RestedStays ==
    ASSUME EndRested, ~idReused' => ~idReused,
           ~idReused' => \A i \in DOMAIN lobbies' :
               \/ lobbies'[i].state # "end"
               \/ Rested(lobbies'[i], session', clentData')
               \/ /\ i \in DOMAIN lobbies
                  /\ lobbies'[i].state = lobbies[i].state
                  /\ \A q \in SeatsOf(lobbies'[i]) :
                         session'[q] = "open" /\ clentData'[q].state = "session" =>
                             /\ q \in SeatsOf(lobbies[i])
                             /\ session[q] = "open" /\ clentData[q].state = "session"
                             /\ clentData'[q].isReady => clentData[q].isReady
    PROVE  EndRested'
BY DEF EndRested, Rested

(* Records that say no more than before. *)
Calmer(q) ==
    session'[q] = "open" /\ clentData'[q].state = "session" =>
        /\ session[q] = "open" /\ clentData[q].state = "session"
        /\ clentData'[q].isReady => clentData[q].isReady

LEMMA CalmerRested ==
    ASSUME TypeOK, EndRested, UNCHANGED <<lobbies, idReused>>, \A q \in Participants : Calmer(q)
    PROVE  EndRested'
<1>1. \A i \in DOMAIN lobbies : \A q \in SeatsOf(lobbies[i]) : q \in Participants
  BY DEF TypeOK, Lobbies, SeatsOf, Seats
<1> QED
  BY <1>1, RestedStays DEF Calmer

(* Leaving and entering put nobody into a session. *)
LEMMA SeatChangeRested ==
    ASSUME TypeOK, EndRested, NEW p \in Participants, ~idReused' => ~idReused,
           clentData'[p].state # "session",
           \A q \in Participants : q # p => Calmer(q),
           ~idReused' => \A i \in DOMAIN lobbies' :
               \/ lobbies'[i].state # "end"
               \/ /\ i \in DOMAIN lobbies
                  /\ lobbies'[i].state = lobbies[i].state
                  /\ SeatsOf(lobbies'[i]) \subseteq SeatsOf(lobbies[i]) \cup {p}
    PROVE  EndRested'
<1>1. \A i \in DOMAIN lobbies : \A q \in SeatsOf(lobbies[i]) : q \in Participants
  BY DEF TypeOK, Lobbies, SeatsOf, Seats
<1> QED
  BY <1>1, RestedStays DEF Calmer

LEMMA StopRested ==
    ASSUME TypeOK, EndRested, NEW p \in Participants, NEW writing \in BOOLEAN,
           StopReading(p, writing), clentData' = Forget(p, clentData),
           UNCHANGED <<lobbies, idReused>>
    PROVE  EndRested'
<1>1. \A q \in Participants : Calmer(q)
  BY DEF Calmer, StopReading, Forget, TypeOK, SharedClient, Seats
<1> QED
  BY <1>1, CalmerRested

LEMMA SessionEventRested ==
    ASSUME TypeOK, EndRested, NEW p \in Participants, SessionEvent(p)
    PROVE  EndRested'
<1>1. CASE Connect(p) \/ WriteError(p) \/ Flushed(p)
  <2>1. \A q \in Participants : Calmer(q)
    BY <1>1 DEF Connect, WriteError, Flushed, Calmer, Forget, TypeOK, SharedClient, Seats
  <2> QED
    BY <1>1, <2>1, CalmerRested DEF Connect, WriteError, Flushed
<1>2. CASE ReadError(p)
  BY <1>2, StopRested DEF ReadError
<1> QED
  BY <1>1, <1>2 DEF SessionEvent

LEMMA ConnectedRested ==
    ASSUME TypeOK, EndRested, NEW p \in Participants, HandleMessageConnected(p)
    PROVE  EndRested'
<1>1. CASE Create(p)
  <2> DEFINE id == lobbiesCount
             lobby == IF id \in DOMAIN lobbies THEN lobbies[id] ELSE NewLobby
  <2>1. /\ lobbies' = [i \in DOMAIN lobbies \cup {id} |->
                          IF i = id THEN AddParticipant(lobby, p) ELSE lobbies[i]]
        /\ EnterLobby(p, id) /\ UNCHANGED session
        /\ idReused' = (idReused \/ id \in DOMAIN lobbies)
    BY <1>1 DEF Create
  <2>2. /\ clentData'[p].state # "session"
        /\ \A q \in Participants : q # p => Calmer(q)
    BY <2>1 DEF EnterLobby, Calmer, TypeOK, Clients, Seats
  <2>3. ~idReused' => AddParticipant(lobby, p).state = "preparation"
    BY <2>1 DEF AddParticipant, NewLobby
  <2> HIDE DEF lobby, id
  <2> QED
    BY <2>1, <2>2, <2>3, SeatChangeRested
<1>2. ASSUME NEW id \in FreeLobbies, NEW letter, Enter(p, id, letter)
      PROVE  EndRested'
  <2>1. id \in DOMAIN lobbies /\ lobbies[id] \in Lobbies /\ HasFreeSeat(lobbies[id])
    BY DEF FreeLobbies, TypeOK
  <2>2. /\ lobbies' = [lobbies EXCEPT ![id] = AddParticipant(@, p)]
        /\ EnterLobby(p, id) /\ UNCHANGED <<session, idReused>>
    BY <1>2 DEF Enter
  <2>3. /\ clentData'[p].state # "session"
        /\ \A q \in Participants : q # p => Calmer(q)
    BY <2>2 DEF EnterLobby, Calmer, TypeOK, Clients, Seats
  <2>4. /\ SeatsOf(AddParticipant(lobbies[id], p)) = SeatsOf(lobbies[id]) \cup {p}
        /\ AddParticipant(lobbies[id], p).state = lobbies[id].state
    BY <2>1, AddedSeat DEF AddParticipant, Lobbies
  <2>5. /\ DOMAIN lobbies' = DOMAIN lobbies
        /\ \A i \in DOMAIN lobbies : lobbies'[i] =
               IF i = id THEN AddParticipant(lobbies[id], p) ELSE lobbies[i]
    BY <2>1, <2>2 DEF TypeOK
  <2> QED
    BY <2>2, <2>3, <2>4, <2>5, SeatChangeRested
<1>3. CASE Join(p) \/ \E id \in Ids : ConnectTo(p, id)
  BY <1>2, <1>3 DEF Join, ConnectTo
<1>4. CASE Refuse(p) \/ List(p)
  BY <1>4, CalmerRested DEF Refuse, List, Calmer
<1>5. CASE QuitConnected(p)
  BY <1>5, StopRested DEF QuitConnected
<1> QED
  BY <1>1, <1>3, <1>4, <1>5 DEF HandleMessageConnected

LEMMA VacatedRested ==
    ASSUME TypeOK, EndRested, NEW p \in Participants, HasLobby(p),
           NEW clients \in [Seats -> Clients], Vacate(p, clients),
           clients[p].state # "session",
           \A q \in Seats : q # p => clients[q] = clentData[q],
           \A q \in Participants : q # p => session'[q] = session[q],
           UNCHANGED idReused
    PROVE  EndRested'
<1> DEFINE id == clentData[p].lobby
           left == RemoveParticipant(LobbyOf(p), p)
<1>1. id \in DOMAIN lobbies /\ lobbies[id] = LobbyOf(p) /\ LobbyOf(p) \in Lobbies
  BY LobbyOfType DEF HasLobby, LobbyOf
<1>2. \A q \in Seats : /\ clentData'[q].state = clients[q].state
                       /\ clentData'[q].isReady = clients[q].isReady
  BY DEF Vacate, Clients
<1>3. clentData'[p].state # "session" /\ \A q \in Participants : q # p => Calmer(q)
  BY <1>2 DEF Calmer, Seats
<1>4. SeatsOf(left) \subseteq SeatsOf(LobbyOf(p)) /\ left.state = LobbyOf(p).state
  <2>1. SeatsOf(left) = SeatsOf(LobbyOf(p)) \ {p}
    BY <1>1, RemovedSeat
  <2> QED
    BY <1>1, <2>1 DEF RemoveParticipant, Lobbies
<1>5. \/ lobbies' = [i \in DOMAIN lobbies \ {id} |-> lobbies[i]]
      \/ lobbies' = [lobbies EXCEPT ![id] = left]
  BY DEF Vacate, SetLobby
<1> HIDE DEF left
<1>6. \A i \in DOMAIN lobbies' :
          /\ i \in DOMAIN lobbies /\ lobbies'[i].state = lobbies[i].state
          /\ SeatsOf(lobbies'[i]) \subseteq SeatsOf(lobbies[i])
  BY <1>1, <1>4, <1>5 DEF TypeOK
<1> QED
  BY <1>3, <1>6, SeatChangeRested

LEMMA ReadyInLobbyRested ==
    ASSUME SeatInv, EndRested, NEW p \in Participants, ReadyInLobby(p)
    PROVE  EndRested'
<1> DEFINE id == clentData[p].lobby
           lobby == LobbyOf(p)
           enemy == GetEnemy(lobby, p)
           clients == [clentData EXCEPT ![p].isReady = TRUE]
<1>1. TypeOK /\ HasLobby(p) /\ UNCHANGED <<session, idReused>>
  BY DEF SeatInv, TypeInv, ReadyInLobby
<1>2. session[p] = "open" /\ clentData[p].state = "lobby"
  BY SenderOpen DEF ReadyInLobby
<1>3. CASE ~clients[enemy].isReady
  <2>1. clentData' = clients /\ UNCHANGED lobbies
    BY <1>3 DEF ReadyInLobby
  <2>2. \A q \in Participants : Calmer(q)
    BY <1>1, <1>2, <2>1 DEF Calmer, TypeOK, Clients, Seats
  <2> QED
    BY <1>1, <2>1, <2>2, CalmerRested
<1>4. CASE clients[enemy].isReady
  <2>1. /\ Open(enemy) /\ clentData[enemy].lobby = id
        /\ \A q \in Seats : q \notin {p, enemy} => clentData'[q] = clentData[q]
        /\ enemy \in Participants
    BY <1>4, ReadyEnemy
  <2>2. lobbies' = SetLobby(p, StartSession(lobby)) /\ lobby \in Lobbies /\ id \in DOMAIN lobbies
    BY <1>1, <1>4, LobbyOfType DEF ReadyInLobby, HasLobby
  <2>3. StartSession(lobby).state = "preparation"
    BY <2>2 DEF StartSession, Lobbies
  <2>4. /\ DOMAIN lobbies' = DOMAIN lobbies /\ lobbies'[id].state = "preparation"
        /\ \A i \in DOMAIN lobbies : i # id => lobbies'[i] = lobbies[i]
    <3> HIDE DEF lobby
    <3> QED
      BY <1>1, <2>2, <2>3 DEF SetLobby, TypeOK
  <2>5. ASSUME NEW i \in DOMAIN lobbies, i # id, NEW q \in SeatsOf(lobbies[i]),
               session'[q] = "open"
        PROVE  clentData'[q] = clentData[q] /\ session[q] = "open"
    <3>1. q # p /\ q # enemy
      BY <1>1, <1>2, <2>1, <2>5, SitsInOne DEF Open
    <3>2. q \in Seats
      BY <1>1 DEF TypeOK, Lobbies, SeatsOf
    <3> QED
      BY <1>1, <2>1, <2>5, <3>1, <3>2
  <2> HIDE DEF enemy, lobby, id
  <2> QED
    BY <1>1, <2>4, <2>5, RestedStays
<1> QED
  BY <1>3, <1>4

LEMMA LobbyHandlersRested ==
    ASSUME SeatInv, EndRested, NEW p \in Participants, HandleMessageLobby(p)
    PROVE  EndRested'
<1>1. TypeOK
  BY DEF SeatInv, TypeInv
<1>2. session[p] = "open" /\ clentData[p].state = "lobby"
  BY SenderOpen DEF HandleMessageLobby, ReadyInLobby, Unready, Leave, QuitLobby
<1>3. CASE Unready(p)
  <2>1. \A q \in Participants : Calmer(q)
    BY <1>1, <1>2, <1>3 DEF Unready, Calmer, TypeOK, Clients, Seats
  <2> QED
    BY <1>1, <1>3, <2>1, CalmerRested DEF Unready
<1>4. CASE Leave(p)
  <2> DEFINE clients == [clentData EXCEPT ![p].state = "connected"]
  <2>1. /\ clients \in [Seats -> Clients] /\ \A q \in Seats : q # p => clients[q] = clentData[q]
        /\ clients[p].state # "session"
    BY <1>1 DEF TypeOK, Clients, ClientStates, Seats
  <2>2. HasLobby(p) /\ Vacate(p, clients) /\ UNCHANGED <<session, idReused>>
    BY <1>4 DEF Leave
  <2> HIDE DEF clients
  <2> QED
    BY <1>1, <2>1, <2>2, VacatedRested
<1>5. CASE QuitLobby(p)
  <2> DEFINE clients == Forget(p, clentData)
  <2>1. /\ clients \in [Seats -> Clients] /\ \A q \in Seats : q # p => clients[q] = clentData[q]
        /\ clients[p].state # "session"
    BY <1>1, ForgetType DEF TypeOK, Forget, SharedClient, Seats
  <2>2. \A q \in Participants : q # p => session'[q] = session[q]
    BY <1>1, <1>5 DEF QuitLobby, StopReading, TypeOK
  <2>3. HasLobby(p) /\ Vacate(p, clients) /\ UNCHANGED idReused
    BY <1>5 DEF QuitLobby
  <2> HIDE DEF clients
  <2> QED
    BY <1>1, <2>1, <2>2, <2>3, VacatedRested
<1> QED
  BY <1>3, <1>4, <1>5, ReadyInLobbyRested DEF HandleMessageLobby

(* The shot that ends a game leaves both of its players unready. *)
LEMMA WinRested ==
    ASSUME GamesInv, EndRested, NEW p \in Participants, NEW c \in Cells, Win(p, c)
    PROVE  EndRested'
<1> DEFINE id == clentData[p].lobby
           lobby == LobbyOf(p)
           enemy == GetEnemy(lobby, p)
           theirs == clentData[enemy].lobby
<1>1. /\ Playing(p, Turns) /\ HasLobby(p) /\ UNCHANGED <<session, idReused>>
      /\ SeatInv /\ TypeOK /\ id \in DOMAIN lobbies
  BY DEF Win, Playing, GamesInv, SeatInv, TypeInv, HasLobby
<1>2. CASE theirs \notin DOMAIN lobbies
  BY <1>1, <1>2, CalmerRested DEF Win, Calmer
<1>3. CASE theirs \in DOMAIN lobbies /\ ~idReused
  <2>1. /\ lobby \in Lobbies /\ lobby.p1 # lobby.p2 /\ p \in SeatsOf(lobby)
        /\ session[p] = "open"
    BY <1>1, <1>3, PlayingKept
  <2>2. theirs = id
    BY <1>1, <1>3, <2>1, WonInOne
  <2>3. PICK won : lobbies' = [i \in DOMAIN lobbies |-> IF i = id THEN won
                                                        ELSE IF i = theirs THEN EndGame(lobbies[i])
                                                        ELSE lobbies[i]]
    BY <1>3 DEF Win
  <2>4. SeatsOf(lobbies'[id]) = SeatsOf(lobby) /\ SeatsOf(lobby) \subseteq {p, enemy}
    <3>1. SeatsKept
      BY <1>1, WinTypeInv DEF SeatInv
    <3> QED
      BY <1>1, <2>1, <3>1 DEF SeatsKept, SeatsOf, GetEnemy, LobbyOf, Lobbies
  <2>5. clentData' = [clentData EXCEPT ![p].isReady = FALSE, ![enemy].isReady = FALSE]
    BY <1>3 DEF Win
  <2>6. enemy \in Seats
    BY <2>1, SeatType
  <2>7. ~clentData'[p].isReady /\ ~clentData'[enemy].isReady
    <3> HIDE DEF enemy
    <3> QED
      BY <1>1, <2>5, <2>6 DEF TypeOK, Clients, Seats
  <2>8. \A q \in Seats : /\ clentData'[q].state = clentData[q].state
                         /\ clentData'[q].isReady => clentData[q].isReady
    <3> HIDE DEF enemy
    <3> QED
      BY <1>1, <2>5, <2>6 DEF TypeOK, Clients, Seats
  <2>9. \A i \in DOMAIN lobbies : SeatsOf(lobbies[i]) \subseteq Seats
    BY <1>1 DEF TypeOK, Lobbies, SeatsOf
  <2>10. Rested(lobbies'[id], session', clentData')
    <3> HIDE DEF enemy, lobby, id
    <3> QED
      BY <2>4, <2>7 DEF Rested
  <2>11. \A i \in DOMAIN lobbies' : i # id => i \in DOMAIN lobbies /\ lobbies'[i] = lobbies[i]
    BY <2>2, <2>3
  <2> HIDE DEF enemy, lobby, id, theirs
  <2> QED
    BY <1>1, <2>8, <2>9, <2>10, <2>11, RestedStays
<1>4. CASE idReused
  BY <1>1, <1>4 DEF EndRested
<1> QED
  BY <1>2, <1>3, <1>4

LEMMA SetLobbyRested ==
    ASSUME TypeOK, EndRested, NEW p \in Participants, HasLobby(p), NEW new, new.state # "end",
           lobbies' = SetLobby(p, new), UNCHANGED <<clentData, session, idReused>>
    PROVE  EndRested'
<1>1. clentData[p].lobby \in DOMAIN lobbies
  BY DEF HasLobby
<1>2. /\ DOMAIN lobbies' = DOMAIN lobbies /\ lobbies'[clentData[p].lobby] = new
      /\ \A i \in DOMAIN lobbies' : i # clentData[p].lobby => lobbies'[i] = lobbies[i]
  BY <1>1 DEF SetLobby, TypeOK
<1> QED
  BY <1>2, RestedStays

LEMMA ContinueRested ==
    ASSUME TypeOK, EndRested, NEW p \in Participants, Continue(p)
    PROVE  EndRested'
<1> DEFINE id == clentData[p].lobby
           clients == [clentData EXCEPT ![p].state = "lobby"]
<1>1. id \in DOMAIN lobbies /\ lobbies[id] \in Lobbies /\ UNCHANGED <<session, idReused>>
  BY LobbyOfType DEF Continue, Playing, HasLobby, LobbyOf
<1>2. \/ UNCHANGED lobbies
      \/ lobbies' = [lobbies EXCEPT ![id] = [lobbies[id] EXCEPT !.state = "preparation"]]
  BY DEF Continue, SetLobby, LobbyOf
<1>3. clentData' = [clients EXCEPT ![p].isReady = FALSE]
  BY DEF Continue
<1>4. clentData'[p].state # "session" /\ \A q \in Participants : q # p => Calmer(q)
  BY <1>1, <1>3 DEF Calmer, TypeOK, Clients, Seats
<1>5. \A i \in DOMAIN lobbies' :
          \/ lobbies'[i].state # "end"
          \/ i \in DOMAIN lobbies /\ lobbies'[i] = lobbies[i]
  BY <1>1, <1>2 DEF TypeOK, Lobbies
<1> QED
  BY <1>1, <1>4, <1>5, SeatChangeRested

LEMMA SessionHandlersRested ==
    ASSUME GamesInv, EndRested, NEW p \in Participants, HandleMessageSession(p)
    PROVE  EndRested'
<1> DEFINE lobby == LobbyOf(p)
<1>1. TypeOK
  BY DEF GamesInv, SeatInv, TypeInv
<1>2. ASSUME NEW states, Playing(p, states)
      PROVE  HasLobby(p) /\ lobby \in Lobbies /\ lobby.state \in states
  BY <1>1, <1>2, LobbyOfType DEF Playing
<1>3. ASSUME NEW s \in Placements, PlaceShip(p, s) PROVE EndRested'
  <2> DEFINE new == SetMyField(lobby, p, SetShip(MyField(lobby, p), s))
  <2>1. /\ UNCHANGED <<clentData, session, idReused>>
        /\ UNCHANGED lobbies \/ lobbies' = SetLobby(p, new)
        /\ Playing(p, {"preparation"})
    BY <1>3 DEF PlaceShip
  <2>2. HasLobby(p) /\ lobby \in Lobbies /\ lobby.state = "preparation"
    BY <1>2, <2>1
  <2> HIDE DEF lobby
  <2>3. new.state = "preparation"
    BY <2>2 DEF SetMyField, Lobbies
  <2> HIDE DEF new
  <2> QED
    BY <1>1, <2>1, <2>2, <2>3, SetLobbyRested, CalmerRested DEF Calmer
<1>4. CASE ReadyToPlay(p)
  <2>1. /\ UNCHANGED <<clentData, session, idReused>> /\ Playing(p, {"preparation"})
        /\ \/ \E turn \in Turns : lobbies' = SetLobby(p, [MarkReady(lobby, p) EXCEPT !.state = turn])
           \/ lobbies' = SetLobby(p, MarkReady(lobby, p))
    BY <1>4 DEF ReadyToPlay
  <2>2. HasLobby(p) /\ lobby \in Lobbies /\ lobby.state = "preparation"
    BY <1>2, <2>1
  <2>3. /\ MarkReady(lobby, p).state = "preparation"
        /\ \A turn \in Turns : [MarkReady(lobby, p) EXCEPT !.state = turn].state # "end"
    <3> HIDE DEF lobby
    <3>1. MarkReady(lobby, p) \in Lobbies
      BY <2>2, GameStepType
    <3> QED
      BY <2>2, <3>1 DEF MarkReady, Lobbies, Turns
  <2> HIDE DEF lobby
  <2> QED
    BY <1>1, <2>1, <2>2, <2>3, SetLobbyRested
<1>5. ASSUME NEW c \in Cells, Shoot(p, c) PROVE EndRested'
  <2> DEFINE hit == SetTargetField(lobby, p, ShotField(TargetField(lobby, p), c))
  <2>1. /\ UNCHANGED <<clentData, session, idReused>> /\ Playing(p, Turns)
        /\ lobbies' = SetLobby(p, SwapState(hit, p)) \/ lobbies' = SetLobby(p, hit)
    BY <1>5 DEF Shoot
  <2>2. HasLobby(p) /\ lobby \in Lobbies /\ lobby.state \in Turns
    BY <1>2, <2>1
  <2> HIDE DEF lobby
  <2>3. hit.state \in Turns /\ hit \in Lobbies
    <3>1. ShotField(TargetField(lobby, p), c) \in Fields
      BY <2>2, FieldOfType, ShotFieldType
    <3>2. hit \in Lobbies
      BY <2>2, <3>1, SetFieldType
    <3> QED
      BY <2>2, <3>2 DEF SetTargetField, Lobbies
  <2> HIDE DEF hit
  <2>4. hit.state # "end" /\ SwapState(hit, p).state # "end"
    BY <2>3 DEF SwapState, Lobbies, Turns
  <2> QED
    BY <1>1, <2>1, <2>2, <2>4, SetLobbyRested
<1>6. CASE (\E c \in Cells : RepeatShot(p, c)) \/ WrongTurn(p) \/ Rebroadcast(p)
  BY <1>1, <1>6, CalmerRested DEF RepeatShot, WrongTurn, Rebroadcast, Calmer
<1>7. CASE Unexpected(p)
  BY <1>1, <1>7, CalmerRested, StopRested DEF Unexpected, Calmer
<1> QED
  BY <1>1, <1>3, <1>4, <1>5, <1>6, <1>7, WinRested, ContinueRested DEF HandleMessageSession

LEMMA NextPlayInv ==
    ASSUME PlayInv, OnlyReadErrors, [Next]_vars
    PROVE  PlayInv'
<1>1. GamesInv' /\ SeatInv /\ TypeOK
  BY NextGamesInv DEF PlayInv, GamesInv, SeatInv, TypeInv
<1>2. FieldsSound'
  BY <1>1, NextFieldsSound DEF PlayInv
<1>3. CASE UNCHANGED vars \/ \E p \in Participants : FollowDeadLobby(p)
  <2>1. EndRested'
    BY <1>1, <1>3, CalmerRested DEF PlayInv, vars, FollowDeadLobby, Calmer
  <2> QED
    BY <1>1, <1>2, <2>1 DEF PlayInv
<1>4. ASSUME NEW p \in Participants,
             \/ SessionEvent(p)
             \/ HandleMessageConnected(p)
             \/ HandleMessageLobby(p)
             \/ HandleMessageSession(p)
      PROVE  EndRested'
  BY <1>1, <1>4, SessionEventRested, ConnectedRested, LobbyHandlersRested, SessionHandlersRested
  DEF PlayInv
<1> QED
  BY <1>1, <1>2, <1>3, <1>4 DEF Next, PlayInv

LEMMA AlwaysPlayInv == OnlyReadErrors => (Spec => []PlayInv)
<1> SUFFICES ASSUME OnlyReadErrors PROVE Spec => []PlayInv
  OBVIOUS
<1>1. PlayInv /\ [Next]_vars => PlayInv'
  BY NextPlayInv
<1> QED
  BY InitPlayInv, <1>1, PTL DEF Spec

-----------------------------------------------------------------------------
(* The refinement.  What the Match shows of the watched lobby, now and after a step. *)
LEMMA ViewNow ==
    ASSUME ~Spoiled, Watched \in DOMAIN lobbies
    PROVE  LET lobby == lobbies[Watched]
           IN  /\ StageNow = IF NobodyPlays THEN "lobby" ELSE lobby.state
               /\ FreshNow = [i \in {1, 2} |-> Cells \ (IF i = 1 THEN lobby.field1.shot
                                                        ELSE lobby.field2.shot)]
               /\ AfloatNow = [i \in {1, 2} |-> IF i = 1 THEN lobby.field1.ship \ lobby.field1.shot
                                                ELSE lobby.field2.ship \ lobby.field2.shot]
               /\ ReadyNow = {i \in {1, 2} : IF i = 1 THEN lobby.ready1 ELSE lobby.ready2}
BY DEF StageNow, FreshNow, AfloatNow, ReadyNow, Underway, FieldOf, ReadyOf

LEMMA ViewNext ==
    ASSUME ~Spoiled', Watched \in DOMAIN lobbies'
    PROVE  LET lobby == lobbies'[Watched]
           IN  /\ StageNow' = IF NobodyPlays' THEN "lobby" ELSE lobby.state
               /\ FreshNow' = [i \in {1, 2} |-> Cells \ (IF i = 1 THEN lobby.field1.shot
                                                         ELSE lobby.field2.shot)]
               /\ AfloatNow' = [i \in {1, 2} |-> IF i = 1 THEN lobby.field1.ship \ lobby.field1.shot
                                                 ELSE lobby.field2.ship \ lobby.field2.shot]
               /\ ReadyNow' = {i \in {1, 2} : IF i = 1 THEN lobby.ready1 ELSE lobby.ready2}
BY DEF StageNow, FreshNow, AfloatNow, ReadyNow, Underway, FieldOf, ReadyOf

MatchStep == [M!MatchNext]_(M!match)

LEMMA SpoilsMatch ==
    ASSUME TypeOK, ~Spoiled, Spoiled'
    PROVE  MatchStep
<1>1. StageNow # "void"
  <2>1. Watched \in DOMAIN lobbies => lobbies[Watched].state # "void"
    BY DEF TypeOK, Lobbies, GameStates
  <2> QED
    BY <2>1 DEF StageNow
<1>2. /\ StageNow' = "void" /\ FreshNow' = [i \in {1, 2} |-> Cells]
      /\ AfloatNow' = [i \in {1, 2} |-> {}] /\ ReadyNow' = {}
  BY DEF StageNow, FreshNow, AfloatNow, ReadyNow, Underway
<1>3. M!Spoil
  BY <1>1, <1>2 DEF M!Spoil, M!EmptyBoards, M!Players
<1> QED
  BY <1>3 DEF MatchStep, M!MatchNext

LEMMA SpoiltStays ==
    ASSUME Spoiled, Spoiled'
    PROVE  MatchStep
BY DEF MatchStep, M!match, StageNow, FreshNow, AfloatNow, ReadyNow, Underway

LEMMA AwayStays ==
    ASSUME ~Spoiled, ~Spoiled', Watched \notin DOMAIN lobbies, Watched \notin DOMAIN lobbies'
    PROVE  MatchStep
BY DEF MatchStep, M!match, StageNow, FreshNow, AfloatNow, ReadyNow, Underway

(* Players come and go, or talk: the game stands as it is. *)
LEMMA GameStands ==
    ASSUME ~Spoiled, ~Spoiled', Watched \in DOMAIN lobbies, Watched \in DOMAIN lobbies',
           NobodyPlays' <=> NobodyPlays,
           lobbies'[Watched].state = lobbies[Watched].state,
           lobbies'[Watched].field1 = lobbies[Watched].field1,
           lobbies'[Watched].field2 = lobbies[Watched].field2,
           lobbies'[Watched].ready1 = lobbies[Watched].ready1,
           lobbies'[Watched].ready2 = lobbies[Watched].ready2
    PROVE  MatchStep
BY DEF MatchStep, M!match, StageNow, FreshNow, AfloatNow, ReadyNow, Underway, FieldOf, ReadyOf

-----------------------------------------------------------------------------
(* Once out of the Match's hands the lobby stays so: a number is never taken back, a
   fault is the last step, and nobody takes the seat of a player who is gone. *)
LEMMA ReusedStays ==
    ASSUME [Next]_vars, idReused
    PROVE  idReused'
BY DEF Next, vars, SessionEvent, Connect, ReadError, WriteError, Flushed,
   HandleMessageConnected, Create, Join, ConnectTo, Enter, Refuse, List, QuitConnected,
   HandleMessageLobby, ReadyInLobby, Unready, Leave, QuitLobby,
   HandleMessageSession, PlaceShip, ReadyToPlay, RepeatShot, Shoot, Win, WrongTurn,
   Rebroadcast, Continue, Unexpected, FollowDeadLobby

LEMMA FaultIsLast ==
    ASSUME [Next]_vars, fault # "none"
    PROVE  UNCHANGED vars
<1>1. ASSUME NEW p \in Participants PROVE ~SessionEvent(p) /\ ~FollowDeadLobby(p)
  BY DEF SessionEvent, Connect, ReadError, WriteError, Flushed, FollowDeadLobby, Handling
<1>2. ASSUME NEW p \in Participants
      PROVE  ~HandleMessageConnected(p) /\ ~HandleMessageLobby(p)
  BY DEF HandleMessageConnected, Create, Join, ConnectTo, Refuse, List, QuitConnected,
     HandleMessageLobby, ReadyInLobby, Unready, Leave, QuitLobby, Handling
<1>3. ASSUME NEW p \in Participants PROVE ~HandleMessageSession(p)
  BY DEF HandleMessageSession, PlaceShip, ReadyToPlay, RepeatShot, Shoot, Win, WrongTurn,
     Rebroadcast, Continue, Unexpected, Playing, Handling
<1> QED
  BY <1>1, <1>2, <1>3 DEF Next

Gone == {"flushing", "freed"}

LEMMA GoneStays ==
    ASSUME SeatInv, OnlyReadErrors, [Next]_vars, NEW q \in Participants, session[q] \in Gone
    PROVE  session'[q] \in Gone
<1>1. session \in [Participants -> Lives]
  BY DEF SeatInv, TypeInv, TypeOK
<1>2. ASSUME NEW p \in Participants, NEW writing \in BOOLEAN, StopReading(p, writing)
      PROVE  session'[q] \in Gone
  BY <1>1, <1>2 DEF StopReading, Gone
<1>3. ASSUME NEW p \in Participants, Connect(p) PROVE session'[q] \in Gone
  BY <1>1, <1>3 DEF Connect, OnlyReadErrors, Gone
<1>4. ASSUME NEW p \in Participants, WriteError(p) \/ Flushed(p) PROVE session'[q] \in Gone
  BY <1>1, <1>4 DEF WriteError, Flushed, OnlyReadErrors, Gone
<1>5. \/ UNCHANGED session
      \/ \E p \in Participants : \/ \E writing \in BOOLEAN : StopReading(p, writing)
                                 \/ Connect(p) \/ WriteError(p) \/ Flushed(p)
  BY DEF Next, vars, SessionEvent, ReadError,
     HandleMessageConnected, Create, Join, ConnectTo, Enter, Refuse, List, QuitConnected,
     HandleMessageLobby, ReadyInLobby, Unready, Leave, QuitLobby,
     HandleMessageSession, PlaceShip, ReadyToPlay, RepeatShot, Shoot, Win, WrongTurn,
     Rebroadcast, Continue, Unexpected, FollowDeadLobby
<1> QED
  BY <1>2, <1>3, <1>4, <1>5

LEMMA EntererKeepsSeats ==
    ASSUME TypeOK, NEW p \in Participants, HandleMessageConnected(p),
           NEW id \in DOMAIN lobbies
    PROVE  id \in DOMAIN lobbies' /\ SeatsOf(lobbies[id]) \subseteq SeatsOf(lobbies'[id])
<1>1. SeatsOf(lobbies[id]) \subseteq SeatsOf(AddParticipant(lobbies[id], p))
  <2>1. lobbies[id] \in Lobbies
    BY DEF TypeOK
  <2> QED
    BY <2>1, AddedSeat
<1>2. CASE Create(p)
  BY <1>1, <1>2 DEF Create
<1>3. CASE Join(p) \/ \E i \in Ids : ConnectTo(p, i)
  <2>1. PICK i \in FreeLobbies : lobbies' = [lobbies EXCEPT ![i] = AddParticipant(@, p)]
    BY <1>3 DEF Join, ConnectTo, Enter
  <2> QED
    BY <1>1, <2>1 DEF FreeLobbies, TypeOK
<1>4. CASE Refuse(p) \/ List(p) \/ QuitConnected(p)
  BY <1>4 DEF Refuse, List, QuitConnected
<1> QED
  BY <1>2, <1>3, <1>4 DEF HandleMessageConnected

LEMMA SeatRemains ==
    ASSUME SeatInv, [Next]_vars, NEW id \in DOMAIN lobbies, NEW q \in SeatsOf(lobbies[id]),
           ~Open(q)
    PROVE  id \in DOMAIN lobbies' /\ q \in SeatsOf(lobbies'[id])
<1>1. TypeInv /\ TypeOK
  BY DEF SeatInv, TypeInv
<1>2. SeatsKept => id \in DOMAIN lobbies' /\ q \in SeatsOf(lobbies'[id])
  BY DEF SeatsKept, SeatsOf
<1>3. CASE UNCHANGED vars
  BY <1>3 DEF vars
<1>4. ASSUME NEW p \in Participants, SessionEvent(p) \/ HandleMessageSession(p) \/ FollowDeadLobby(p)
      PROVE  SeatsKept
  BY <1>1, <1>4, SessionEventTypeInv, HandleMessageSessionTypeInv, SameLobbiesKeepSeats
  DEF FollowDeadLobby
<1>5. ASSUME NEW p \in Participants, HandleMessageConnected(p)
      PROVE  id \in DOMAIN lobbies' /\ q \in SeatsOf(lobbies'[id])
  BY <1>1, <1>5, EntererKeepsSeats
<1>6. ASSUME NEW p \in Participants, HandleMessageLobby(p)
      PROVE  id \in DOMAIN lobbies' /\ q \in SeatsOf(lobbies'[id])
  <2>1. CASE ReadyInLobby(p) \/ Unready(p)
    BY <1>1, <1>2, <2>1, ReadyInLobbyTypeInv, SameLobbiesKeepSeats DEF Unready
  <2>2. CASE Leave(p) \/ QuitLobby(p)
    <3> DEFINE left == RemoveParticipant(LobbyOf(p), p)
               mine == clentData[p].lobby
    <3>1. HasLobby(p) /\ Handling(p, "lobby") /\ \E clients : Vacate(p, clients)
      BY <2>2 DEF Leave, QuitLobby
    <3>2. q # p
      BY <3>1, SenderOpen DEF Open
    <3>3. /\ SeatsOf(left) = SeatsOf(LobbyOf(p)) \ {p}
          /\ IsEmpty(left) => SeatsOf(LobbyOf(p)) \subseteq {p}
      BY <1>1, <3>1, LobbyOfType, RemovedSeat
    <3>4. mine \in DOMAIN lobbies /\ LobbyOf(p) = lobbies[mine]
      BY <3>1 DEF HasLobby, LobbyOf
    <3>5. \/ IsEmpty(left) /\ lobbies' = [i \in DOMAIN lobbies \ {mine} |-> lobbies[i]]
          \/ lobbies' = [lobbies EXCEPT ![mine] = left]
      BY <3>1 DEF Vacate, SetLobby
    <3> HIDE DEF left, mine
    <3> QED
      BY <1>1, <3>2, <3>3, <3>4, <3>5 DEF TypeOK
  <2> QED
    BY <1>6, <2>1, <2>2 DEF HandleMessageLobby
<1> QED
  BY <1>2, <1>3, <1>4, <1>5, <1>6 DEF Next

LEMMA SpoiledStays ==
    ASSUME SeatInv, OnlyReadErrors, [Next]_vars, Spoiled
    PROVE  Spoiled'
<1>1. CASE idReused
  BY <1>1, ReusedStays DEF Spoiled
<1>2. CASE fault # "none"
  BY <1>2, FaultIsLast DEF Spoiled, vars
<1>3. CASE Watched \in DOMAIN lobbies /\ GhostIn(lobbies[Watched])
  <2>1. PICK q \in SeatsOf(lobbies[Watched]) : ~Open(q)
    BY <1>3 DEF GhostIn
  <2>2. q \in Participants /\ session[q] \in Gone
    <3>1. q \in Participants
      BY <1>3 DEF SeatInv, TypeInv, TypeOK, Lobbies, SeatsOf, Seats
    <3>2. session[q] \in Lives \ {"fresh", "open", "detached"}
      BY <1>3, <2>1, <3>1 DEF SeatInv, SeatsAccepted, NoneDetached, TypeInv, TypeOK, Open
    <3> QED
      BY <3>1, <3>2 DEF Lives, Gone
  <2>3. session'[q] # "open"
    BY <2>2, GoneStays DEF Gone
  <2>4. Watched \in DOMAIN lobbies' /\ q \in SeatsOf(lobbies'[Watched])
    BY <1>3, <2>1, SeatRemains
  <2> QED
    BY <2>3, <2>4 DEF Spoiled, GhostIn, Open
<1> QED
  BY <1>1, <1>2, <1>3 DEF Spoiled

-----------------------------------------------------------------------------
(* Steps of a lobby in the Match's hands. *)
LEMMA WatchedSeats ==
    ASSUME SeatInv, ~Spoiled, Watched \in DOMAIN lobbies, NEW q \in SeatsOf(lobbies[Watched])
    PROVE  /\ q \in Participants /\ session[q] = "open" /\ clentData[q].lobby = Watched
           /\ clentData[q].state \in {"lobby", "session"}
<1>1. q \in Participants /\ session[q] = "open"
  BY DEF SeatInv, TypeInv, TypeOK, Lobbies, SeatsOf, Seats, Spoiled, GhostIn, Open
<1>2. clentData[q].state # "connected" /\ clentData[q].lobby = Watched
  BY <1>1 DEF SeatInv, SeatsOwned, Open
<1> QED
  BY <1>1, <1>2 DEF SeatInv, TypeInv, TypeOK, Clients, ClientStates, Seats

LEMMA LobbyLeftAlone ==
    ASSUME SeatInv, ~Spoiled, ~Spoiled',
           Watched \in DOMAIN lobbies' <=> Watched \in DOMAIN lobbies,
           Watched \in DOMAIN lobbies =>
               /\ lobbies'[Watched] = lobbies[Watched]
               /\ \A q \in SeatsOf(lobbies[Watched]) :
                      clentData'[q].state = clentData[q].state
    PROVE  MatchStep
<1>1. CASE Watched \notin DOMAIN lobbies
  BY <1>1, AwayStays
<1>2. CASE Watched \in DOMAIN lobbies
  <2>1. NobodyPlays' <=> NobodyPlays
    BY <1>2 DEF NobodyPlays
  <2> QED
    BY <1>2, <2>1, GameStands
<1> QED
  BY <1>1, <1>2

(* One who has no seat in the lobby, or only talks, does not matter there. *)
LEMMA OutsiderStays ==
    ASSUME SeatInv, ~Spoiled, ~Spoiled', NEW p \in Participants, UNCHANGED lobbies,
           \A q \in Seats : q # p => clentData'[q].state = clentData[q].state,
           \/ clentData'[p].state = clentData[p].state
           \/ Watched \in DOMAIN lobbies => p \notin SeatsOf(lobbies[Watched])
    PROVE  MatchStep
<1>1. ASSUME Watched \in DOMAIN lobbies, NEW q \in SeatsOf(lobbies[Watched])
      PROVE  clentData'[q].state = clentData[q].state
  <2>1. q \in Seats
    BY <1>1, WatchedSeats DEF Seats
  <2> QED
    BY <1>1, <2>1
<1> QED
  BY <1>1, LobbyLeftAlone

(* A player who stops reading leaves his seat behind him. *)
LEMMA StopStays ==
    ASSUME SeatInv, ~Spoiled, ~Spoiled', NEW p \in Participants, NEW writing \in BOOLEAN,
           StopReading(p, writing), clentData' = Forget(p, clentData), UNCHANGED lobbies
    PROVE  MatchStep
<1>1. \A q \in Seats : q # p => clentData'[q].state = clentData[q].state
  BY DEF Forget, SeatInv, TypeInv, TypeOK
<1>2. session'[p] # "open"
  BY DEF StopReading, SeatInv, TypeInv, TypeOK
<1>3. Watched \in DOMAIN lobbies => p \notin SeatsOf(lobbies[Watched])
  BY <1>2 DEF Spoiled, GhostIn, Open
<1> QED
  BY <1>1, <1>3, OutsiderStays

LEMMA SessionEventPlays ==
    ASSUME SeatInv, OnlyReadErrors, ~Spoiled, ~Spoiled', NEW p \in Participants, SessionEvent(p)
    PROVE  MatchStep
<1>1. CASE ReadError(p)
  BY <1>1, StopStays DEF ReadError
<1>2. CASE Connect(p) \/ WriteError(p) \/ Flushed(p)
  <2>1. session[p] # "open" /\ UNCHANGED lobbies
    BY <1>2 DEF Connect, WriteError, Flushed, OnlyReadErrors
  <2>2. \A q \in Seats : q # p => clentData'[q].state = clentData[q].state
    BY <1>2 DEF Connect, WriteError, Flushed, Forget, SeatInv, TypeInv, TypeOK
  <2> QED
    BY <2>1, <2>2, OutsiderStays, WatchedSeats
<1> QED
  BY <1>1, <1>2 DEF SessionEvent

LEMMA ConnectedPlays ==
    ASSUME SeatInv, ~Spoiled, ~Spoiled', NEW p \in Participants, HandleMessageConnected(p)
    PROVE  MatchStep
<1>1. TypeOK
  BY DEF SeatInv, TypeInv
<1>2. session[p] = "open" /\ clentData[p].state = "connected"
  BY SenderOpen
  DEF HandleMessageConnected, Create, Join, ConnectTo, Enter, Refuse, List, QuitConnected
<1>3. Watched \in DOMAIN lobbies => p \notin SeatsOf(lobbies[Watched])
  BY <1>2, SitsInOne
<1>4. ASSUME NEW id, EnterLobby(p, id)
      PROVE  /\ clentData'[p].state = "lobby"
             /\ \A q \in Seats : q # p => clentData'[q].state = clentData[q].state
  BY <1>1, <1>4 DEF EnterLobby, TypeOK, Clients, Seats
<1>5. ASSUME NEW id, EnterLobby(p, id), Watched # id,
             Watched \in DOMAIN lobbies' <=> Watched \in DOMAIN lobbies,
             Watched \in DOMAIN lobbies => lobbies'[Watched] = lobbies[Watched]
      PROVE  MatchStep
  <2>1. ASSUME Watched \in DOMAIN lobbies, NEW q \in SeatsOf(lobbies[Watched])
        PROVE  clentData'[q].state = clentData[q].state
    BY <1>3, <1>4, <1>5, <2>1, WatchedSeats DEF Seats
  <2> QED
    BY <1>5, <2>1, LobbyLeftAlone
<1>6. CASE Create(p)
  <2> DEFINE id == lobbiesCount
             lobby == IF id \in DOMAIN lobbies THEN lobbies[id] ELSE NewLobby
  <2>1. /\ lobbies' = [i \in DOMAIN lobbies \cup {id} |->
                          IF i = id THEN AddParticipant(lobby, p) ELSE lobbies[i]]
        /\ EnterLobby(p, id) /\ idReused' = (idReused \/ id \in DOMAIN lobbies)
    BY <1>6 DEF Create
  <2>2. CASE Watched # id
    BY <1>5, <2>1, <2>2
  <2>3. CASE Watched = id
    <3>1. Watched \notin DOMAIN lobbies /\ Watched \in DOMAIN lobbies'
      BY <2>1, <2>3 DEF Spoiled
    <3>2. lobbies'[Watched] = AddParticipant(NewLobby, p)
      BY <2>1, <2>3, <3>1
    <3>3. lobbies'[Watched] = [NewLobby EXCEPT !.p1 = p]
      BY <3>2 DEF AddParticipant, NewLobby
    <3>4. /\ SeatsOf(lobbies'[Watched]) \subseteq {p}
          /\ lobbies'[Watched].field1 = EmptyField /\ lobbies'[Watched].field2 = EmptyField
          /\ lobbies'[Watched].ready1 = FALSE /\ lobbies'[Watched].ready2 = FALSE
      BY <3>3 DEF NewLobby, SeatsOf
    <3>5. NobodyPlays'
      BY <1>4, <2>1, <3>4 DEF NobodyPlays
    <3>6. /\ StageNow' = "lobby"
          /\ FreshNow' = [i \in {1, 2} |-> Cells]
          /\ AfloatNow' = [i \in {1, 2} |-> {}]
          /\ ReadyNow' = {}
      BY <3>1, <3>4, <3>5, ViewNext DEF EmptyField
    <3>7. /\ StageNow = "none" /\ FreshNow = [i \in {1, 2} |-> Cells]
          /\ AfloatNow = [i \in {1, 2} |-> {}] /\ ReadyNow = {}
      BY <3>1 DEF StageNow, FreshNow, AfloatNow, ReadyNow, Underway
    <3>8. M!Open
      BY <3>6, <3>7 DEF M!Open
    <3> QED
      BY <3>8 DEF MatchStep, M!MatchNext
  <2> QED
    BY <2>2, <2>3
<1>7. ASSUME NEW id \in FreeLobbies, NEW letter, Enter(p, id, letter)
      PROVE  MatchStep
  <2>1. /\ id \in DOMAIN lobbies /\ EnterLobby(p, id)
        /\ lobbies' = [lobbies EXCEPT ![id] = AddParticipant(lobbies[id], p)]
    BY <1>7 DEF FreeLobbies, Enter
  <2>2. CASE Watched # id
    BY <1>1, <1>5, <2>1, <2>2 DEF TypeOK
  <2>3. CASE Watched = id
    <3>1. /\ Watched \in DOMAIN lobbies /\ Watched \in DOMAIN lobbies'
          /\ lobbies'[Watched] = AddParticipant(lobbies[Watched], p)
          /\ lobbies[Watched] \in Lobbies /\ HasFreeSeat(lobbies[Watched])
      BY <1>1, <2>1, <2>3 DEF TypeOK, FreeLobbies
    <3>2. SeatsOf(lobbies'[Watched]) = SeatsOf(lobbies[Watched]) \cup {p}
      BY <3>1, AddedSeat
    <3>3. NobodyPlays' <=> NobodyPlays
      <4>1. \A q \in SeatsOf(lobbies[Watched]) : q # p /\ q \in Seats
        BY <1>3, <3>1, WatchedSeats DEF Seats
      <4> QED
        BY <1>4, <2>1, <3>2, <4>1 DEF NobodyPlays
    <3>4. /\ lobbies'[Watched].state = lobbies[Watched].state
          /\ lobbies'[Watched].field1 = lobbies[Watched].field1
          /\ lobbies'[Watched].field2 = lobbies[Watched].field2
          /\ lobbies'[Watched].ready1 = lobbies[Watched].ready1
          /\ lobbies'[Watched].ready2 = lobbies[Watched].ready2
      BY <3>1 DEF AddParticipant, Lobbies
    <3> QED
      BY <3>1, <3>3, <3>4, GameStands
  <2> QED
    BY <2>2, <2>3
<1>8. CASE Join(p) \/ \E id \in Ids : ConnectTo(p, id)
  BY <1>7, <1>8 DEF Join, ConnectTo
<1>9. CASE Refuse(p) \/ List(p)
  BY <1>9, OutsiderStays DEF Refuse, List
<1>10. CASE QuitConnected(p)
  BY <1>10, StopStays DEF QuitConnected
<1> QED
  BY <1>6, <1>8, <1>9, <1>10 DEF HandleMessageConnected

(* Nobody is ready to begin a game while he has not gone on from the last one. *)
LEMMA BeginsInLobby ==
    ASSUME PlayInv, ~Spoiled, NEW p \in Participants, ReadyInLobby(p),
           clentData[p].lobby = Watched,
           [clentData EXCEPT ![p].isReady = TRUE][GetEnemy(LobbyOf(p), p)].isReady
    PROVE  LET enemy == GetEnemy(LobbyOf(p), p)
           IN  /\ enemy \in Participants /\ enemy # p
               /\ Watched \in DOMAIN lobbies /\ LobbyOf(p) = lobbies[Watched]
               /\ SeatsOf(lobbies[Watched]) = {p, enemy}
               /\ ~lobbies[Watched].ready1 /\ ~lobbies[Watched].ready2
               /\ NobodyPlays
<1> DEFINE lobby == lobbies[Watched]
           enemy == GetEnemy(LobbyOf(p), p)
<1>1. GamesInv /\ SeatInv /\ TypeOK /\ ~idReused
  BY DEF PlayInv, GamesInv, SeatInv, TypeInv, Spoiled
<1>2. session[p] = "open" /\ clentData[p].state = "lobby" /\ HasLobby(p)
  BY <1>1, SenderOpen DEF ReadyInLobby
<1>3. /\ Watched \in DOMAIN lobbies /\ LobbyOf(p) = lobby /\ lobby \in Lobbies
      /\ p \in SeatsOf(lobby) /\ lobby.p1 # lobby.p2 /\ GameKept(lobby, session, clentData)
  BY <1>1, <1>2, SenderPlays DEF LobbyOf, HasLobby
<1>4. enemy \in Participants /\ enemy # p /\ Open(enemy) /\ enemy \in SeatsOf(lobby)
  BY <1>1, <1>3, ReadyEnemy
<1>5. SeatsOf(lobby) = {p, enemy}
  BY <1>3, <1>4 DEF SeatsOf, GetEnemy
<1>6. Waits(lobby, session, clentData)
  BY <1>2, <1>3 DEF Waits, OpenIn
<1>7. ~lobby.ready1 /\ ~lobby.ready2 /\ lobby.state \notin Turns
  BY <1>3, <1>6 DEF GameKept
<1>8. clentData[enemy].isReady
  <2> HIDE DEF enemy
  <2> QED
    BY <1>1, <1>4 DEF TypeOK, Clients, Seats, enemy
<1>9. clentData[enemy].state = "lobby"
  <2>1. clentData[enemy].state \in {"lobby", "session"}
    BY <1>1, <1>3, <1>4, WatchedSeats
  <2>2. ASSUME clentData[enemy].state = "session" PROVE FALSE
    <3>1. lobby.state # "preparation"
      BY <1>3, <1>4, <1>6, <2>2 DEF GameKept, OpenIn, Open
    <3>2. lobby.state = "end"
      BY <1>3, <1>7, <3>1 DEF Lobbies, GameStates, Turns
    <3> QED
      BY <1>1, <1>3, <1>4, <1>8, <2>2, <3>2 DEF PlayInv, EndRested, Rested, Open
  <2> QED
    BY <2>1, <2>2
<1>10. NobodyPlays
  BY <1>2, <1>5, <1>9 DEF NobodyPlays
<1> QED
  BY <1>3, <1>4, <1>5, <1>7, <1>10

LEMMA BeginPlays ==
    ASSUME PlayInv, ~Spoiled, ~Spoiled', NEW p \in Participants, ReadyInLobby(p),
           clentData[p].lobby = Watched,
           [clentData EXCEPT ![p].isReady = TRUE][GetEnemy(LobbyOf(p), p)].isReady
    PROVE  MatchStep
<1> DEFINE old == lobbies[Watched]
           new == lobbies'[Watched]
           enemy == GetEnemy(LobbyOf(p), p)
<1>1. SeatInv /\ TypeOK
  BY DEF PlayInv, GamesInv, SeatInv, TypeInv
<1>2. /\ Watched \in DOMAIN lobbies /\ LobbyOf(p) = old /\ SeatsOf(old) = {p, enemy}
      /\ ~old.ready1 /\ ~old.ready2 /\ NobodyPlays /\ p \in Participants
  BY BeginsInLobby
<1>3. lobbies' = SetLobby(p, StartSession(old)) /\ old \in Lobbies
  BY <1>1, <1>2 DEF ReadyInLobby, TypeOK
<1>4. Watched \in DOMAIN lobbies' /\ new = StartSession(old)
  BY <1>1, <1>2, <1>3 DEF SetLobby, TypeOK
<1> HIDE DEF new, old
<1>5. /\ new.state = "preparation"
      /\ new.field1.shot = {} /\ new.field1.ship = {}
      /\ new.field2.shot = {} /\ new.field2.ship = {}
      /\ new.ready1 = old.ready1 /\ new.ready2 = old.ready2
      /\ SeatsOf(new) = SeatsOf(old)
  BY <1>3, <1>4 DEF StartSession, Clear, Lobbies, Fields, SeatsOf
<1>6. ~NobodyPlays'
  <2>1. clentData'[p].state = "session"
    BY <1>1, ReadyEnemy DEF Seats
  <2> QED
    BY <1>2, <1>5, <2>1 DEF NobodyPlays, new
<1>7. /\ StageNow' = "preparation" /\ FreshNow' = [i \in {1, 2} |-> Cells]
      /\ AfloatNow' = [i \in {1, 2} |-> {}] /\ ReadyNow' = {}
  BY <1>2, <1>4, <1>5, <1>6, ViewNext DEF new
<1>8. StageNow = "lobby"
  BY <1>2, ViewNow
<1>9. M!Begin
  BY <1>7, <1>8 DEF M!Begin, M!EmptyBoards, M!Players
<1> QED
  BY <1>9 DEF MatchStep, M!MatchNext

LEMMA ReadyInLobbyPlays ==
    ASSUME PlayInv, ~Spoiled, ~Spoiled', NEW p \in Participants, ReadyInLobby(p)
    PROVE  MatchStep
<1> DEFINE enemy == GetEnemy(LobbyOf(p), p)
           clients == [clentData EXCEPT ![p].isReady = TRUE]
<1>1. SeatInv /\ TypeOK /\ HasLobby(p)
  BY DEF PlayInv, GamesInv, SeatInv, TypeInv, ReadyInLobby
<1>2. session[p] = "open" /\ clentData[p].state = "lobby"
  BY <1>1, SenderOpen DEF ReadyInLobby
<1>3. CASE ~clients[enemy].isReady
  <2>1. clentData' = clients /\ UNCHANGED lobbies
    BY <1>3 DEF ReadyInLobby
  <2>2. \A q \in Seats : clentData'[q].state = clentData[q].state
    BY <1>1, <2>1 DEF TypeOK, Clients
  <2> QED
    BY <1>1, <2>1, <2>2, OutsiderStays DEF Seats
<1>4. CASE clients[enemy].isReady /\ clentData[p].lobby = Watched
  BY <1>4, BeginPlays
<1>5. CASE clients[enemy].isReady /\ clentData[p].lobby # Watched
  <2>1. /\ enemy \in Participants /\ Open(enemy) /\ clentData[enemy].lobby = clentData[p].lobby
        /\ \A q \in Seats : q \notin {p, enemy} => clentData'[q] = clentData[q]
    BY <1>1, <1>5, ReadyEnemy
  <2> HIDE DEF enemy
  <2>2. \E new : lobbies' = SetLobby(p, new)
    BY <1>5 DEF ReadyInLobby, enemy
  <2>3. /\ Watched \in DOMAIN lobbies' <=> Watched \in DOMAIN lobbies
        /\ Watched \in DOMAIN lobbies => lobbies'[Watched] = lobbies[Watched]
    BY <1>1, <1>5, <2>2 DEF SetLobby, TypeOK
  <2>4. ASSUME Watched \in DOMAIN lobbies, NEW q \in SeatsOf(lobbies[Watched])
        PROVE  clentData'[q].state = clentData[q].state
    <3>1. q \in Participants /\ clentData[q].lobby = Watched
      BY <1>1, <2>4, WatchedSeats
    <3> QED
      BY <1>5, <2>1, <3>1 DEF Seats
  <2> QED
    BY <1>1, <2>3, <2>4, LobbyLeftAlone
<1> QED
  BY <1>3, <1>4, <1>5

LEMMA VacatedPlays ==
    ASSUME PlayInv, ~Spoiled, ~Spoiled', NEW p \in Participants, HasLobby(p),
           session[p] = "open", clentData[p].state = "lobby",
           NEW clients \in [Seats -> Clients], Vacate(p, clients),
           \A q \in Seats : q # p => clients[q] = clentData[q]
    PROVE  MatchStep
<1> DEFINE id == clentData[p].lobby
           left == RemoveParticipant(LobbyOf(p), p)
<1>1. SeatInv /\ TypeOK
  BY DEF PlayInv, GamesInv, SeatInv, TypeInv
<1>2. id \in DOMAIN lobbies /\ lobbies[id] = LobbyOf(p) /\ LobbyOf(p) \in Lobbies
  BY <1>1, LobbyOfType DEF HasLobby, LobbyOf
<1>3. \A q \in Seats : q # p => clentData'[q].state = clentData[q].state
  BY DEF Vacate, Clients
<1>4. /\ SeatsOf(left) = SeatsOf(LobbyOf(p)) \ {p}
      /\ IsEmpty(left) => SeatsOf(LobbyOf(p)) \subseteq {p}
  BY <1>2, RemovedSeat
<1>5. /\ left.state = LobbyOf(p).state
      /\ left.field1 = LobbyOf(p).field1 /\ left.field2 = LobbyOf(p).field2
      /\ left.ready1 = LobbyOf(p).ready1 /\ left.ready2 = LobbyOf(p).ready2
  BY <1>2 DEF RemoveParticipant, Lobbies
<1>6. \/ IsEmpty(left) /\ lobbies' = [i \in DOMAIN lobbies \ {id} |-> lobbies[i]]
      \/ lobbies' = [lobbies EXCEPT ![id] = left]
  BY DEF Vacate, SetLobby
<1> HIDE DEF left
<1>7. CASE id # Watched
  <2>1. /\ Watched \in DOMAIN lobbies' <=> Watched \in DOMAIN lobbies
        /\ Watched \in DOMAIN lobbies => lobbies'[Watched] = lobbies[Watched]
    BY <1>1, <1>6, <1>7 DEF TypeOK
  <2>2. ASSUME Watched \in DOMAIN lobbies, NEW q \in SeatsOf(lobbies[Watched])
        PROVE  clentData'[q].state = clentData[q].state
    BY <1>1, <1>3, <1>7, <2>2, WatchedSeats DEF Seats
  <2> QED
    BY <1>1, <2>1, <2>2, LobbyLeftAlone
<1>8. CASE id = Watched /\ lobbies' = [lobbies EXCEPT ![id] = left]
  <2>1. Watched \in DOMAIN lobbies /\ Watched \in DOMAIN lobbies' /\ lobbies'[Watched] = left
    BY <1>1, <1>2, <1>8 DEF TypeOK
  <2>2. NobodyPlays' <=> NobodyPlays
    <3>1. \A q \in SeatsOf(lobbies[Watched]) \ {p} : clentData'[q].state = clentData[q].state
      BY <1>1, <1>3, <2>1, WatchedSeats DEF Seats
    <3>2. SeatsOf(lobbies'[Watched]) = SeatsOf(lobbies[Watched]) \ {p}
      BY <1>2, <1>4, <1>8, <2>1
    <3> QED
      BY <3>1, <3>2 DEF NobodyPlays
  <2> QED
    BY <1>2, <1>5, <1>8, <2>1, <2>2, GameStands
<1>9. CASE id = Watched /\ IsEmpty(left) /\ lobbies' = [i \in DOMAIN lobbies \ {id} |-> lobbies[i]]
  <2>1. NobodyPlays /\ Watched \in DOMAIN lobbies /\ Watched \notin DOMAIN lobbies'
    BY <1>2, <1>4, <1>9 DEF NobodyPlays
  <2>2. StageNow = "lobby"
    BY <2>1, ViewNow
  <2>3. /\ StageNow' = "none" /\ FreshNow' = [i \in {1, 2} |-> Cells]
        /\ AfloatNow' = [i \in {1, 2} |-> {}] /\ ReadyNow' = {}
    BY <2>1 DEF StageNow, FreshNow, AfloatNow, ReadyNow, Underway
  <2>4. M!Close
    BY <2>2, <2>3 DEF M!Close, M!EmptyBoards, M!Players
  <2> QED
    BY <2>4 DEF MatchStep, M!MatchNext
<1> QED
  BY <1>6, <1>7, <1>8, <1>9

LEMMA LobbyHandlersPlay ==
    ASSUME PlayInv, ~Spoiled, ~Spoiled', NEW p \in Participants, HandleMessageLobby(p)
    PROVE  MatchStep
<1>1. SeatInv /\ TypeOK
  BY DEF PlayInv, GamesInv, SeatInv, TypeInv
<1>2. session[p] = "open" /\ clentData[p].state = "lobby"
  BY <1>1, SenderOpen DEF HandleMessageLobby, ReadyInLobby, Unready, Leave, QuitLobby
<1>3. CASE Unready(p)
  <2>1. \A q \in Seats : clentData'[q].state = clentData[q].state
    BY <1>1, <1>3 DEF Unready, TypeOK, Clients
  <2> QED
    BY <1>1, <1>3, <2>1, OutsiderStays DEF Unready, Seats
<1>4. CASE Leave(p) \/ QuitLobby(p)
  <2> DEFINE one == [clentData EXCEPT ![p].state = "connected"]
             two == Forget(p, clentData)
  <2>1. HasLobby(p) /\ (Vacate(p, one) \/ Vacate(p, two))
    BY <1>4 DEF Leave, QuitLobby
  <2>2. /\ one \in [Seats -> Clients] /\ \A q \in Seats : q # p => one[q] = clentData[q]
        /\ two \in [Seats -> Clients] /\ \A q \in Seats : q # p => two[q] = clentData[q]
    BY <1>1, ForgetType DEF TypeOK, Clients, ClientStates, Seats, Forget
  <2> HIDE DEF one, two
  <2> QED
    BY <1>2, <2>1, <2>2, VacatedPlays
<1> QED
  BY <1>3, <1>4, ReadyInLobbyPlays DEF HandleMessageLobby

-----------------------------------------------------------------------------
(* Moves of a player in the watched lobby; i is his number there. *)
Number(lobby, p) == IF lobby.p1 = p THEN 1 ELSE 2

LEMMA PlayerPlays ==
    ASSUME PlayInv, ~Spoiled, NEW p \in Participants, NEW states, Playing(p, states),
           clentData[p].lobby = Watched
    PROVE  LET lobby == lobbies[Watched]
           IN  /\ Watched \in DOMAIN lobbies /\ LobbyOf(p) = lobby /\ lobby \in Lobbies
               /\ HasLobby(p) /\ TypeOK /\ clentData[p].state = "session"
               /\ p \in SeatsOf(lobby) /\ lobby.p1 # lobby.p2 /\ lobby.state \in states
               /\ ~NobodyPlays /\ StageNow = lobby.state
               /\ lobby.state = "preparation" =>
                      lobby.field1.shot = {} /\ lobby.field2.shot = {}
<1>1. GamesInv /\ SeatInv /\ TypeOK /\ ~idReused
  BY DEF PlayInv, GamesInv, SeatInv, TypeInv, Spoiled
<1>2. HasLobby(p)
  BY DEF Playing
<1>3. /\ clentData[p].state = "session" /\ p \in SeatsOf(LobbyOf(p)) /\ LobbyOf(p) \in Lobbies
      /\ LobbyOf(p).p1 # LobbyOf(p).p2 /\ LobbyOf(p).state \in states
      /\ LobbyOf(p).state = "preparation" =>
             LobbyOf(p).field1.shot = {} /\ LobbyOf(p).field2.shot = {}
  BY <1>1, PlayingKept
<1>4. Watched \in DOMAIN lobbies /\ LobbyOf(p) = lobbies[Watched]
  BY <1>2 DEF HasLobby, LobbyOf
<1>5. ~NobodyPlays
  BY <1>3, <1>4 DEF NobodyPlays
<1> QED
  BY <1>1, <1>2, <1>3, <1>4, <1>5, ViewNow

(* The lobby after a move: it is still played in. *)
LEMMA Moved ==
    ASSUME TypeOK, ~Spoiled', NEW p \in Participants, HasLobby(p), clentData[p].lobby = Watched,
           p \in SeatsOf(lobbies[Watched]), clentData'[p].state = "session",
           NEW new, lobbies' = SetLobby(p, new),
           new.p1 = lobbies[Watched].p1, new.p2 = lobbies[Watched].p2
    PROVE  /\ Watched \in DOMAIN lobbies' /\ lobbies'[Watched] = new
           /\ StageNow' = new.state
           /\ FreshNow' = [i \in {1, 2} |-> Cells \ (IF i = 1 THEN new.field1.shot
                                                     ELSE new.field2.shot)]
           /\ AfloatNow' = [i \in {1, 2} |-> IF i = 1 THEN new.field1.ship \ new.field1.shot
                                             ELSE new.field2.ship \ new.field2.shot]
           /\ ReadyNow' = {i \in {1, 2} : IF i = 1 THEN new.ready1 ELSE new.ready2}
<1>1. Watched \in DOMAIN lobbies' /\ lobbies'[Watched] = new
  BY DEF SetLobby, HasLobby, TypeOK
<1>2. ~NobodyPlays'
  BY <1>1 DEF NobodyPlays, SeatsOf
<1> QED
  BY <1>1, <1>2, ViewNext

LEMMA PlacePlays ==
    ASSUME PlayInv, ~Spoiled, ~Spoiled', NEW p \in Participants, NEW s \in Placements,
           PlaceShip(p, s), clentData[p].lobby = Watched
    PROVE  MatchStep
<1> DEFINE lobby == lobbies[Watched]
           my == MyField(lobby, p)
           new == SetMyField(lobby, p, SetShip(my, s))
           me == Number(lobby, p)
           fleet == my.ship \cup ShipCells(s)
<1>1. /\ Watched \in DOMAIN lobbies /\ LobbyOf(p) = lobby /\ lobby \in Lobbies
      /\ HasLobby(p) /\ TypeOK /\ clentData[p].state = "session"
      /\ p \in SeatsOf(lobby) /\ lobby.state = "preparation" /\ StageNow = "preparation"
      /\ lobby.field1.shot = {} /\ lobby.field2.shot = {}
  BY PlayerPlays DEF PlaceShip
<1>2. CASE UNCHANGED lobbies
  <2>1. SeatInv /\ UNCHANGED clentData
    BY DEF PlayInv, GamesInv, PlaceShip
  <2> QED
    BY <1>2, <2>1, OutsiderStays
<1>3. CASE CanSetShip(my, s) /\ lobbies' = SetLobby(p, new)
  <2> HIDE DEF lobby
  <2>1. ShipCells(s) \subseteq Cells
    BY <1>3 DEF CanSetShip
  <2>2. /\ my \in Fields /\ my.shot = {} /\ SetShip(my, s).shot = {} /\ SetShip(my, s).ship = fleet
    BY <1>1 DEF MyField, SetShip, Lobbies, Fields
  <2>3. /\ new.p1 = lobby.p1 /\ new.p2 = lobby.p2 /\ new.state = lobby.state
        /\ new.ready1 = lobby.ready1 /\ new.ready2 = lobby.ready2
        /\ new.field1 = IF lobby.p1 = p THEN SetShip(my, s) ELSE lobby.field1
        /\ new.field2 = IF lobby.p1 = p THEN lobby.field2 ELSE SetShip(my, s)
    <3> HIDE DEF my
    <3> QED
      BY <1>1 DEF SetMyField, IsParticipant1, Lobbies
  <2> HIDE DEF new
  <2>4. /\ StageNow' = new.state
        /\ FreshNow' = [i \in {1, 2} |-> Cells \ (IF i = 1 THEN new.field1.shot
                                                  ELSE new.field2.shot)]
        /\ AfloatNow' = [i \in {1, 2} |-> IF i = 1 THEN new.field1.ship \ new.field1.shot
                                          ELSE new.field2.ship \ new.field2.shot]
        /\ ReadyNow' = {i \in {1, 2} : IF i = 1 THEN new.ready1 ELSE new.ready2}
    <3>1. UNCHANGED clentData
      BY DEF PlaceShip
    <3> QED
      BY <1>1, <1>3, <2>3, <3>1, Moved DEF lobby
  <2>5. /\ FreshNow = [i \in {1, 2} |-> Cells \ (IF i = 1 THEN lobby.field1.shot
                                                 ELSE lobby.field2.shot)]
        /\ AfloatNow = [i \in {1, 2} |-> IF i = 1 THEN lobby.field1.ship \ lobby.field1.shot
                                         ELSE lobby.field2.ship \ lobby.field2.shot]
        /\ ReadyNow = {i \in {1, 2} : IF i = 1 THEN lobby.ready1 ELSE lobby.ready2}
    BY <1>1, ViewNow DEF lobby
  <2>6. UNCHANGED <<StageNow, FreshNow, ReadyNow>>
    BY <1>1, <2>2, <2>3, <2>4, <2>5
  <2>7. me \in {1, 2} /\ FreshNow[me] = Cells /\ AfloatNow[me] = my.ship
    BY <1>1, <2>5 DEF Number, MyField, IsParticipant1
  <2>8. AfloatNow' = [AfloatNow EXCEPT ![me] = fleet]
    <3> HIDE DEF my, fleet
    <3>1. AfloatNow' = [i \in {1, 2} |-> IF i = me THEN fleet ELSE AfloatNow[i]]
      <4>1. fleet \ {} = fleet
        OBVIOUS
      <4>2. CASE lobby.p1 = p
        BY <2>2, <2>3, <2>4, <2>5, <4>1, <4>2 DEF Number
      <4>3. CASE lobby.p1 # p
        BY <2>2, <2>3, <2>4, <2>5, <4>1, <4>3 DEF Number
      <4> QED
        BY <4>2, <4>3
    <3> QED
      BY <2>5, <3>1
  <2>9. fleet \in SUBSET FreshNow[me] /\ AfloatNow[me] \subseteq fleet
    BY <2>1, <2>2, <2>7 DEF Fields
  <2> HIDE DEF me, fleet
  <2>10. M!Place(me)
    BY <1>1, <2>6, <2>8, <2>9 DEF M!Place
  <2> QED
    BY <2>7, <2>10 DEF MatchStep, M!MatchNext, M!Players
<1> QED
  BY <1>1, <1>2, <1>3 DEF PlaceShip

LEMMA ReadyPlays ==
    ASSUME PlayInv, ~Spoiled, ~Spoiled', NEW p \in Participants, ReadyToPlay(p),
           clentData[p].lobby = Watched
    PROVE  MatchStep
<1> DEFINE lobby == lobbies[Watched]
           marked == MarkReady(lobby, p)
           me == Number(lobby, p)
<1>1. /\ Watched \in DOMAIN lobbies /\ LobbyOf(p) = lobby /\ lobby \in Lobbies
      /\ HasLobby(p) /\ TypeOK /\ clentData[p].state = "session"
      /\ p \in SeatsOf(lobby) /\ lobby.p1 # lobby.p2
      /\ lobby.state = "preparation" /\ StageNow = "preparation"
  BY PlayerPlays DEF ReadyToPlay
<1>2. PICK turn \in GameStates :
          /\ lobbies' = SetLobby(p, [marked EXCEPT !.state = turn])
          /\ turn \in IF marked.ready1 /\ marked.ready2 THEN Turns ELSE {"preparation"}
  <2>1. marked \in Lobbies /\ marked.state = "preparation"
    <3> HIDE DEF lobby
    <3> QED
      BY <1>1, GameStepType DEF MarkReady, Lobbies
  <2>2. marked = [marked EXCEPT !.state = "preparation"]
    <3> HIDE DEF marked
    <3> QED
      BY <2>1 DEF Lobbies
  <2>3. \/ /\ marked.ready1 /\ marked.ready2
           /\ \E turn \in Turns : lobbies' = SetLobby(p, [marked EXCEPT !.state = turn])
        \/ ~(marked.ready1 /\ marked.ready2) /\ lobbies' = SetLobby(p, marked)
    BY <1>1 DEF ReadyToPlay
  <2> HIDE DEF marked
  <2> QED
    BY <2>2, <2>3 DEF GameStates, Turns
<1> DEFINE new == [marked EXCEPT !.state = turn]
<1> HIDE DEF lobby
<1>3. /\ new.p1 = lobby.p1 /\ new.p2 = lobby.p2 /\ new.state = turn
      /\ new.field1 = lobby.field1 /\ new.field2 = lobby.field2
      /\ new.ready1 = (lobby.ready1 \/ lobby.p1 = p)
      /\ new.ready2 = (lobby.ready2 \/ lobby.p2 = p)
      /\ marked.ready1 = new.ready1 /\ marked.ready2 = new.ready2
  BY <1>1 DEF MarkReady, IsParticipant1, IsParticipant2, Lobbies
<1> HIDE DEF new
<1>4. /\ StageNow' = new.state
      /\ FreshNow' = [i \in {1, 2} |-> Cells \ (IF i = 1 THEN new.field1.shot
                                                ELSE new.field2.shot)]
      /\ AfloatNow' = [i \in {1, 2} |-> IF i = 1 THEN new.field1.ship \ new.field1.shot
                                        ELSE new.field2.ship \ new.field2.shot]
      /\ ReadyNow' = {i \in {1, 2} : IF i = 1 THEN new.ready1 ELSE new.ready2}
  <2>1. UNCHANGED clentData
    BY DEF ReadyToPlay
  <2> QED
    BY <1>1, <1>2, <1>3, <2>1, Moved DEF lobby, new
<1>5. /\ FreshNow = [i \in {1, 2} |-> Cells \ (IF i = 1 THEN lobby.field1.shot
                                               ELSE lobby.field2.shot)]
      /\ AfloatNow = [i \in {1, 2} |-> IF i = 1 THEN lobby.field1.ship \ lobby.field1.shot
                                       ELSE lobby.field2.ship \ lobby.field2.shot]
      /\ ReadyNow = {i \in {1, 2} : IF i = 1 THEN lobby.ready1 ELSE lobby.ready2}
  BY <1>1, ViewNow DEF lobby
<1>6. UNCHANGED <<FreshNow, AfloatNow>>
  BY <1>3, <1>4, <1>5
<1>7. me \in {1, 2} /\ (me = 1 <=> lobby.p1 = p) /\ (me = 2 <=> lobby.p2 = p)
  BY <1>1 DEF Number, SeatsOf
<1> HIDE DEF me
<1>8. ReadyNow' = ReadyNow \cup {me}
  BY <1>3, <1>4, <1>5, <1>7
<1>9. ReadyNow' = {1, 2} <=> new.ready1 /\ new.ready2
  BY <1>4
<1>10. StageNow' \in IF ReadyNow' = {1, 2} THEN Turns ELSE {"preparation"}
  BY <1>2, <1>3, <1>4, <1>9
<1>11. M!MatchTurns = Turns
  BY DEF M!MatchTurns, M!Turn, M!Players, Turns
<1>12. M!SayReady(me)
  BY <1>1, <1>6, <1>8, <1>10, <1>11 DEF M!SayReady, M!Players
<1> QED
  BY <1>7, <1>12 DEF MatchStep, M!MatchNext, M!Players

(* A shot of the player to move is a Miss or a Hit. *)
LEMMA ShotPlays ==
    ASSUME PlayInv, ~Spoiled, ~Spoiled', NEW p \in Participants, NEW c \in Cells,
           Playing(p, Turns), clentData[p].lobby = Watched, IsMyTurn(LobbyOf(p), p),
           c \notin TargetField(LobbyOf(p), p).shot,
           clentData'[p].state = "session",
           NEW new, lobbies' = SetLobby(p, new),
           new.p1 = LobbyOf(p).p1, new.p2 = LobbyOf(p).p2,
           LET lobby == LobbyOf(p)
               shot == ShotField(TargetField(lobby, p), c)
               answer == ShotAnswer(TargetField(lobby, p), c)
           IN  /\ new.field1 = IF lobby.p1 = p THEN lobby.field1 ELSE shot
               /\ new.field2 = IF lobby.p1 = p THEN shot ELSE lobby.field2
               /\ new.state = IF answer = "g" THEN "end"
                              ELSE IF answer # "m" THEN lobby.state
                              ELSE IF lobby.p1 = p THEN "turn_2" ELSE "turn_1"
               /\ IF answer = "g" THEN ~new.ready1 /\ ~new.ready2
                  ELSE new.ready1 = lobby.ready1 /\ new.ready2 = lobby.ready2
    PROVE  MatchStep
<1> DEFINE lobby == lobbies[Watched]
           target == TargetField(lobby, p)
           shot == ShotField(target, c)
           answer == ShotAnswer(target, c)
           me == Number(lobby, p)
           other == M!Other(me)
<1>1. /\ Watched \in DOMAIN lobbies /\ LobbyOf(p) = lobby /\ lobby \in Lobbies
      /\ HasLobby(p) /\ TypeOK /\ p \in SeatsOf(lobby) /\ lobby.p1 # lobby.p2
      /\ lobby.state \in Turns /\ StageNow = lobby.state
  BY PlayerPlays
<1>2. /\ StageNow' = new.state
      /\ FreshNow' = [i \in {1, 2} |-> Cells \ (IF i = 1 THEN new.field1.shot
                                                ELSE new.field2.shot)]
      /\ AfloatNow' = [i \in {1, 2} |-> IF i = 1 THEN new.field1.ship \ new.field1.shot
                                        ELSE new.field2.ship \ new.field2.shot]
      /\ ReadyNow' = {i \in {1, 2} : IF i = 1 THEN new.ready1 ELSE new.ready2}
  BY <1>1, Moved
<1>3. /\ FreshNow = [i \in {1, 2} |-> Cells \ (IF i = 1 THEN lobby.field1.shot
                                               ELSE lobby.field2.shot)]
      /\ AfloatNow = [i \in {1, 2} |-> IF i = 1 THEN lobby.field1.ship \ lobby.field1.shot
                                       ELSE lobby.field2.ship \ lobby.field2.shot]
      /\ ReadyNow = {i \in {1, 2} : IF i = 1 THEN lobby.ready1 ELSE lobby.ready2}
  BY <1>1, ViewNow
<1>4. target \in Fields /\ FieldSound(target)
  BY <1>1 DEF PlayInv, FieldsSound, LobbySound, TargetField, Lobbies
<1>5. /\ shot \in Fields /\ shot.ship = target.ship
      /\ target.shot \cup {c} \subseteq shot.shot
      /\ shot.ship \ shot.shot = (target.ship \ target.shot) \ {c}
      /\ c \notin target.ship => shot.shot = target.shot \cup {c}
  BY <1>4, ShotTakesOne
<1>6. /\ answer = "m" <=> c \notin target.ship
      /\ answer = "g" <=> c \in target.ship /\ GameFinished(shot)
  BY DEF ShotAnswer
<1>7. c \notin target.shot /\ target = IF lobby.p1 = p THEN lobby.field2 ELSE lobby.field1
  BY <1>1 DEF TargetField, IsParticipant1
<1>8. /\ me \in {1, 2} /\ other \in {1, 2} /\ other # me
      /\ me = 1 <=> lobby.p1 = p /\ other = 2
      /\ other = 1 <=> lobby.p1 # p
      /\ StageNow = M!Turn(me)
      /\ M!Turn(other) = IF lobby.p1 = p THEN "turn_2" ELSE "turn_1"
  BY <1>1 DEF Number, SeatsOf, M!Other, M!Turn, IsMyTurn, IsParticipant1, IsParticipant2
<1>9. /\ new.field1 = IF lobby.p1 = p THEN lobby.field1 ELSE shot
      /\ new.field2 = IF lobby.p1 = p THEN shot ELSE lobby.field2
      /\ new.state = IF answer = "g" THEN "end"
                     ELSE IF answer # "m" THEN lobby.state
                     ELSE IF lobby.p1 = p THEN "turn_2" ELSE "turn_1"
      /\ IF answer = "g" THEN ~new.ready1 /\ ~new.ready2
         ELSE new.ready1 = lobby.ready1 /\ new.ready2 = lobby.ready2
  BY <1>1
<1> HIDE DEF lobby, target, shot, answer, me, other
<1>10. /\ FreshNow[other] = Cells \ target.shot
       /\ AfloatNow[other] = target.ship \ target.shot
  BY <1>3, <1>7, <1>8
<1>11. FreshNow' = [FreshNow EXCEPT ![other] = Cells \ shot.shot]
  BY <1>2, <1>3, <1>7, <1>8, <1>9
<1>12. AfloatNow' = [AfloatNow EXCEPT ![other] = (target.ship \ target.shot) \ {c}]
  BY <1>2, <1>3, <1>5, <1>7, <1>8, <1>9
<1>13. ASSUME answer # "g" PROVE UNCHANGED ReadyNow
  BY <1>2, <1>3, <1>9, <1>13
<1>14. CASE c \notin target.ship
  <2>1. FreshNow' = [FreshNow EXCEPT ![other] = FreshNow[other] \ {c}]
    <3>1. Cells \ shot.shot = (Cells \ target.shot) \ {c}
      BY <1>5, <1>14
    <3> QED
      BY <1>10, <1>11, <3>1
  <2>2. UNCHANGED AfloatNow
    <3>1. (target.ship \ target.shot) \ {c} = AfloatNow[other]
      BY <1>10, <1>14
    <3> QED
      BY <1>3, <1>12, <3>1
  <2>3. UNCHANGED ReadyNow /\ StageNow' = M!Turn(other)
    BY <1>2, <1>6, <1>8, <1>9, <1>13, <1>14
  <2>4. c \in FreshNow[other] \ AfloatNow[other]
    BY <1>7, <1>10, <1>14
  <2>5. M!Miss(me, c)
    BY <1>8, <2>1, <2>2, <2>3, <2>4 DEF M!Miss, other
  <2> QED
    BY <1>8, <2>5 DEF MatchStep, M!MatchNext, M!Players, M!Fire
<1>15. CASE c \in target.ship
  <2> DEFINE left == Cells \ shot.shot
  <2>1. c \in AfloatNow[other]
    BY <1>7, <1>10, <1>15
  <2>2. AfloatNow' = [AfloatNow EXCEPT ![other] = AfloatNow[other] \ {c}]
    BY <1>10, <1>12
  <2>3. AfloatNow'[other] = shot.ship \ shot.shot
    BY <1>3, <1>5, <1>8, <1>12
  <2>4. left \in SUBSET FreshNow[other] /\ AfloatNow'[other] \subseteq left /\ c \notin left
    BY <1>5, <1>10, <2>3 DEF Fields
  <2>5. FreshNow' = [FreshNow EXCEPT ![other] = left]
    BY <1>11
  <2>6. AfloatNow'[other] = {} <=> answer = "g"
    BY <1>6, <1>15, <2>3 DEF GameFinished
  <2>7. IF AfloatNow'[other] = {} THEN StageNow' = "end" /\ ReadyNow' = {}
        ELSE UNCHANGED <<StageNow, ReadyNow>>
    <3>1. CASE answer = "g"
      BY <1>2, <1>9, <2>6, <3>1
    <3>2. CASE answer # "g"
      BY <1>1, <1>2, <1>6, <1>9, <1>13, <1>15, <2>6, <3>2
    <3> QED
      BY <3>1, <3>2
  <2> HIDE DEF left
  <2>8. M!Hit(me, c)
    BY <1>8, <2>1, <2>2, <2>4, <2>5, <2>7 DEF M!Hit, other
  <2> QED
    BY <1>8, <2>8 DEF MatchStep, M!MatchNext, M!Players, M!Fire
<1> QED
  BY <1>14, <1>15

LEMMA ShootPlays ==
    ASSUME PlayInv, ~Spoiled, ~Spoiled', NEW p \in Participants, NEW c \in Cells, Shoot(p, c),
           clentData[p].lobby = Watched
    PROVE  MatchStep
<1> DEFINE lobby == LobbyOf(p)
           target == TargetField(lobby, p)
           shot == ShotField(target, c)
           answer == ShotAnswer(target, c)
           hit == SetTargetField(lobby, p, shot)
           new == IF answer = "m" THEN SwapState(hit, p) ELSE hit
<1>1. /\ Playing(p, Turns) /\ IsMyTurn(lobby, p) /\ c \notin target.shot /\ answer # "g"
      /\ lobbies' = SetLobby(p, new) /\ UNCHANGED clentData
  BY DEF Shoot
<1>2. lobby \in Lobbies /\ clentData[p].state = "session"
  BY <1>1, PlayerPlays
<1>3. target \in Fields /\ shot \in Fields /\ hit \in Lobbies
  <2>1. target \in Fields
    BY <1>2, FieldOfType
  <2> HIDE DEF target
  <2>2. shot \in Fields
    BY <2>1, ShotFieldType
  <2> HIDE DEF shot
  <2> QED
    BY <1>2, <2>1, <2>2, SetFieldType
<1> HIDE DEF shot, answer, target, lobby
<1>4. /\ hit.p1 = lobby.p1 /\ hit.p2 = lobby.p2 /\ hit.state = lobby.state
      /\ hit.ready1 = lobby.ready1 /\ hit.ready2 = lobby.ready2
      /\ hit.field1 = IF lobby.p1 = p THEN lobby.field1 ELSE shot
      /\ hit.field2 = IF lobby.p1 = p THEN shot ELSE lobby.field2
  BY <1>2 DEF SetTargetField, IsParticipant1, Lobbies
<1> HIDE DEF hit
<1>5. /\ new.p1 = lobby.p1 /\ new.p2 = lobby.p2
      /\ new.ready1 = lobby.ready1 /\ new.ready2 = lobby.ready2
      /\ new.field1 = hit.field1 /\ new.field2 = hit.field2
      /\ new.state = IF answer # "m" THEN lobby.state
                     ELSE IF lobby.p1 = p THEN "turn_2" ELSE "turn_1"
  BY <1>3, <1>4 DEF SwapState, IsParticipant1, Lobbies
<1> HIDE DEF new
<1> QED
  BY <1>1, <1>2, <1>4, <1>5, ShotPlays DEF lobby, target, shot, answer

LEMMA WinPlays ==
    ASSUME PlayInv, ~Spoiled, ~Spoiled', NEW p \in Participants, NEW c \in Cells, Win(p, c),
           clentData[p].lobby = Watched
    PROVE  MatchStep
<1> DEFINE lobby == LobbyOf(p)
           enemy == GetEnemy(lobby, p)
           theirs == clentData[enemy].lobby
           target == TargetField(lobby, p)
           shot == ShotField(target, c)
           hit == SetTargetField(lobby, p, shot)
           new == ResetReady(EndGame(hit))
<1>1. /\ Playing(p, Turns) /\ IsMyTurn(lobby, p) /\ c \notin target.shot
      /\ ShotAnswer(target, c) = "g"
  BY DEF Win
<1>2. /\ lobby \in Lobbies /\ clentData[p].state = "session" /\ HasLobby(p) /\ TypeOK
      /\ p \in SeatsOf(lobby) /\ lobby.p1 # lobby.p2
  BY <1>1, PlayerPlays
<1>3. SeatInv /\ session[p] = "open"
  BY <1>1, SenderOpen DEF Playing, PlayInv, GamesInv
<1>4. theirs \in DOMAIN lobbies
  BY DEF Win, Spoiled
<1>5. theirs = Watched
  BY <1>2, <1>3, <1>4, WonInOne
<1>6. /\ lobbies' = [id \in DOMAIN lobbies |-> IF id = Watched THEN new
                                               ELSE IF id = theirs THEN EndGame(lobbies[id])
                                               ELSE lobbies[id]]
      /\ clentData' = [clentData EXCEPT ![p].isReady = FALSE, ![enemy].isReady = FALSE]
  BY <1>4 DEF Win
<1>7. enemy \in Seats
  BY <1>2, SeatType
<1>8. clentData'[p].state = "session"
  <2> HIDE DEF enemy
  <2> QED
    BY <1>2, <1>6, <1>7 DEF TypeOK, Clients, Seats
<1>9. target \in Fields /\ shot \in Fields /\ hit \in Lobbies
  <2>1. target \in Fields
    BY <1>2, FieldOfType
  <2> HIDE DEF target
  <2>2. shot \in Fields
    BY <2>1, ShotFieldType
  <2> HIDE DEF shot
  <2> QED
    BY <1>2, <2>1, <2>2, SetFieldType
<1>10. lobbies' = SetLobby(p, new)
  <2> HIDE DEF new, theirs
  <2> QED
    BY <1>2, <1>5, <1>6 DEF SetLobby, TypeOK
<1> HIDE DEF shot, target, lobby
<1>11. /\ hit.p1 = lobby.p1 /\ hit.p2 = lobby.p2
       /\ hit.field1 = IF lobby.p1 = p THEN lobby.field1 ELSE shot
       /\ hit.field2 = IF lobby.p1 = p THEN shot ELSE lobby.field2
  BY <1>2 DEF SetTargetField, IsParticipant1, Lobbies
<1> HIDE DEF hit
<1>12. /\ new.p1 = lobby.p1 /\ new.p2 = lobby.p2
       /\ ~new.ready1 /\ ~new.ready2 /\ new.state = "end"
       /\ new.field1 = hit.field1 /\ new.field2 = hit.field2
  BY <1>9, <1>11 DEF ResetReady, EndGame, Lobbies
<1> HIDE DEF new
<1> QED
  BY <1>1, <1>8, <1>10, <1>11, <1>12, ShotPlays DEF lobby, target, shot

LEMMA ContinuePlays ==
    ASSUME PlayInv, ~Spoiled, ~Spoiled', NEW p \in Participants, Continue(p),
           clentData[p].lobby = Watched
    PROVE  MatchStep
<1> DEFINE old == lobbies[Watched]
           new == lobbies'[Watched]
           enemy == GetEnemy(LobbyOf(p), p)
           clients == [clentData EXCEPT ![p].state = "lobby"]
<1>1. /\ Watched \in DOMAIN lobbies /\ LobbyOf(p) = old /\ old \in Lobbies
      /\ HasLobby(p) /\ TypeOK /\ p \in SeatsOf(old) /\ old.p1 # old.p2
      /\ old.state = "end" /\ StageNow = "end"
  BY PlayerPlays DEF Continue
<1>2. SeatsOf(old) \subseteq {p, enemy} /\ enemy \in Seats /\ enemy # p
  BY <1>1, SeatType DEF SeatsOf, GetEnemy
<1>3. clentData' = [clients EXCEPT ![p].isReady = FALSE]
  BY DEF Continue
<1>4. /\ lobbies' = SetLobby(p, [old EXCEPT !.state = "preparation"])
            /\ clients[enemy].state = "lobby"
      \/ UNCHANGED lobbies
  BY <1>1 DEF Continue
<1>5. /\ Watched \in DOMAIN lobbies'
      /\ \/ new = [old EXCEPT !.state = "preparation"] /\ clients[enemy].state = "lobby"
         \/ new = old
  BY <1>1, <1>4 DEF SetLobby, TypeOK
<1>6. clentData'[p].state = "lobby" /\ clentData'[enemy].state = clients[enemy].state
  <2> HIDE DEF enemy
  <2> QED
    BY <1>1, <1>2, <1>3 DEF TypeOK, Clients, Seats
<1> HIDE DEF old, new, enemy, clients
<1>7. /\ SeatsOf(new) = SeatsOf(old)
      /\ new.field1 = old.field1 /\ new.field2 = old.field2
      /\ new.ready1 = old.ready1 /\ new.ready2 = old.ready2
      /\ new.state = "end" \/ clients[enemy].state = "lobby"
  BY <1>1, <1>5 DEF Lobbies, SeatsOf
<1>8. NobodyPlays' \/ new.state = "end"
  BY <1>2, <1>6, <1>7 DEF NobodyPlays, new
<1>9. UNCHANGED <<FreshNow, AfloatNow, ReadyNow>>
  <2>1. /\ FreshNow = [i \in {1, 2} |-> Cells \ (IF i = 1 THEN old.field1.shot
                                                 ELSE old.field2.shot)]
        /\ AfloatNow = [i \in {1, 2} |-> IF i = 1 THEN old.field1.ship \ old.field1.shot
                                         ELSE old.field2.ship \ old.field2.shot]
        /\ ReadyNow = {i \in {1, 2} : IF i = 1 THEN old.ready1 ELSE old.ready2}
    BY <1>1, ViewNow DEF old
  <2>2. /\ FreshNow' = [i \in {1, 2} |-> Cells \ (IF i = 1 THEN new.field1.shot
                                                  ELSE new.field2.shot)]
        /\ AfloatNow' = [i \in {1, 2} |-> IF i = 1 THEN new.field1.ship \ new.field1.shot
                                          ELSE new.field2.ship \ new.field2.shot]
        /\ ReadyNow' = {i \in {1, 2} : IF i = 1 THEN new.ready1 ELSE new.ready2}
    BY <1>5, ViewNext DEF new
  <2> QED
    BY <1>7, <2>1, <2>2
<1>10. StageNow' \in {"lobby", "end"}
  BY <1>5, <1>8, ViewNext DEF new
<1>11. M!Return \/ UNCHANGED M!match
  BY <1>1, <1>9, <1>10 DEF M!Return, M!match
<1> QED
  BY <1>11 DEF MatchStep, M!MatchNext

(* A handler whose sender plays in another lobby. *)
LEMMA ElsewherePlays ==
    ASSUME PlayInv, ~Spoiled, ~Spoiled', NEW p \in Participants, HandleMessageSession(p),
           clentData[p].lobby # Watched
    PROVE  MatchStep
<1>1. GamesInv /\ SeatInv /\ TypeOK /\ TypeInv /\ ~idReused
  BY DEF PlayInv, GamesInv, SeatInv, TypeInv, Spoiled
<1>2. Playing(p, GameStates) /\ HasLobby(p)
  BY DEF HandleMessageSession, PlaceShip, ReadyToPlay, RepeatShot, Shoot, Win, WrongTurn,
     Rebroadcast, Continue, Unexpected, Playing, GameStates, Turns
<1>3. /\ session[p] = "open" /\ p \in SeatsOf(LobbyOf(p)) /\ LobbyOf(p) \in Lobbies
      /\ LobbyOf(p).p1 # LobbyOf(p).p2
  BY <1>1, <1>2, PlayingKept
<1>4. Watched \in DOMAIN lobbies => p \notin SeatsOf(lobbies[Watched])
  BY <1>1, <1>3, SitsInOne
<1>5. \A q \in Seats : q # p => clentData'[q].state = clentData[q].state
  <2>1. CASE \E c \in Cells : Win(p, c)
    <3> DEFINE enemy == GetEnemy(LobbyOf(p), p)
    <3>1. \/ UNCHANGED clentData
          \/ clentData' = [clentData EXCEPT ![p].isReady = FALSE, ![enemy].isReady = FALSE]
      BY <2>1 DEF Win
    <3>2. enemy \in Seats
      BY <1>3, SeatType
    <3> HIDE DEF enemy
    <3>3. CASE clentData' = [clentData EXCEPT ![p].isReady = FALSE, ![enemy].isReady = FALSE]
      BY <1>1, <3>2, <3>3 DEF TypeOK, Clients
    <3> QED
      BY <3>1, <3>3
  <2>2. CASE Continue(p)
    BY <1>1, <2>2 DEF Continue, TypeOK
  <2>3. CASE Unexpected(p)
    BY <1>1, <2>3 DEF Unexpected, Forget, TypeOK
  <2> QED
    BY <2>1, <2>2, <2>3 DEF HandleMessageSession, PlaceShip, ReadyToPlay, RepeatShot, Shoot,
       WrongTurn, Rebroadcast
<1>6. /\ DOMAIN lobbies' = DOMAIN lobbies
      /\ Watched \in DOMAIN lobbies => lobbies'[Watched] = lobbies[Watched]
  <2>1. ASSUME NEW new, lobbies' = SetLobby(p, new)
        PROVE  /\ DOMAIN lobbies' = DOMAIN lobbies
               /\ Watched \in DOMAIN lobbies => lobbies'[Watched] = lobbies[Watched]
    BY <1>1, <2>1 DEF SetLobby, TypeOK
  <2>2. CASE \E c \in Cells : Win(p, c)
    <3> DEFINE theirs == clentData[GetEnemy(LobbyOf(p), p)].lobby
    <3>1. \/ UNCHANGED lobbies
          \/ /\ theirs \in DOMAIN lobbies
             /\ \E won : lobbies' = [id \in DOMAIN lobbies |->
                                        IF id = clentData[p].lobby THEN won
                                        ELSE IF id = theirs THEN EndGame(lobbies[id])
                                        ELSE lobbies[id]]
      BY <2>2 DEF Win
    <3>2. theirs \in DOMAIN lobbies => theirs = clentData[p].lobby
      BY <1>1, <1>2, <1>3, WonInOne
    <3> HIDE DEF theirs
    <3> QED
      BY <3>1, <3>2
  <2>3. CASE ~\E c \in Cells : Win(p, c)
    <3>1. UNCHANGED lobbies \/ \E new : lobbies' = SetLobby(p, new)
      BY <2>3 DEF HandleMessageSession, PlaceShip, ReadyToPlay, RepeatShot, Shoot, WrongTurn,
         Rebroadcast, Continue, Unexpected
    <3> QED
      BY <2>1, <3>1
  <2> QED
    BY <2>2, <2>3
<1>7. ASSUME Watched \in DOMAIN lobbies, NEW q \in SeatsOf(lobbies[Watched])
      PROVE  clentData'[q].state = clentData[q].state
  BY <1>1, <1>4, <1>5, <1>7, WatchedSeats DEF Seats
<1> QED
  BY <1>1, <1>6, <1>7, LobbyLeftAlone

LEMMA SessionHandlersPlay ==
    ASSUME PlayInv, ~Spoiled, ~Spoiled', NEW p \in Participants, HandleMessageSession(p)
    PROVE  MatchStep
<1>1. SeatInv
  BY DEF PlayInv, GamesInv
<1>2. CASE (\E c \in Cells : RepeatShot(p, c)) \/ WrongTurn(p) \/ Rebroadcast(p)
  <2>1. UNCHANGED <<lobbies, clentData>>
    BY <1>2 DEF RepeatShot, WrongTurn, Rebroadcast
  <2> QED
    BY <1>1, <2>1, OutsiderStays
<1>3. CASE Unexpected(p)
  BY <1>1, <1>3, OutsiderStays, StopStays DEF Unexpected
<1>4. CASE clentData[p].lobby # Watched
  BY <1>4, ElsewherePlays
<1> QED
  BY <1>2, <1>3, <1>4, PlacePlays, ReadyPlays, ShootPlays, WinPlays, ContinuePlays
  DEF HandleMessageSession

-----------------------------------------------------------------------------
LEMMA NextPlays ==
    ASSUME PlayInv, OnlyReadErrors, [Next]_vars
    PROVE  MatchStep
<1>1. SeatInv /\ TypeOK
  BY DEF PlayInv, GamesInv, SeatInv, TypeInv
<1>2. CASE Spoiled
  BY <1>1, <1>2, SpoiledStays, SpoiltStays
<1>3. CASE ~Spoiled /\ Spoiled'
  BY <1>1, <1>3, SpoilsMatch
<1>4. CASE ~Spoiled /\ ~Spoiled'
  <2>1. CASE UNCHANGED vars
    BY <1>1, <1>4, <2>1, LobbyLeftAlone DEF vars
  <2>2. ASSUME NEW p \in Participants, FollowDeadLobby(p) PROVE FALSE
    BY <1>4, <2>2 DEF FollowDeadLobby, Spoiled
  <2> QED
    BY <1>1, <1>4, <2>1, <2>2, SessionEventPlays, ConnectedPlays, LobbyHandlersPlay,
       SessionHandlersPlay DEF Next
<1> QED
  BY <1>2, <1>3, <1>4

LEMMA InitPlays == Init => M!MatchInit
<1> SUFFICES ASSUME Init PROVE M!MatchInit
  OBVIOUS
<1>1. ~Spoiled /\ Watched \notin DOMAIN lobbies
  BY DEF Init, Spoiled
<1> QED
  BY <1>1 DEF M!MatchInit, M!EmptyBoards, M!Players, StageNow, FreshNow, AfloatNow, ReadyNow,
     Underway

(* In each lobby the server plays a Match, whoever enters or leaves it or drops out, and
   whatever goes on in other lobbies: the safety half of PlaysOn. *)
THEOREM ServerIsMatch == OnlyReadErrors => (Spec => M!MatchSpec)
<1> SUFFICES ASSUME OnlyReadErrors PROVE Spec => M!MatchSpec
  OBVIOUS
<1>1. PlayInv /\ [Next]_vars => [M!MatchNext]_(M!match)
  BY NextPlays DEF MatchStep
<1>2. Spec => []PlayInv
  BY AlwaysPlayInv
<1> QED
  BY <1>1, <1>2, InitPlays, PTL DEF Spec, M!MatchSpec

-----------------------------------------------------------------------------
(* A lobby in which neither the boards nor the turns change has nothing to tell. *)
Untold(old, new) ==
    /\ old.state \in Turns => new.field1 = old.field1 /\ new.field2 = old.field2
    /\ old.state = "preparation" => new.state \notin Turns

NothingToTell == \A id \in DOMAIN lobbies \cap DOMAIN lobbies' : Untold(lobbies[id], lobbies'[id])

TellsBoth ==
    ~idReused' => \A id \in DOMAIN lobbies \cap DOMAIN lobbies' :
        BothTold(lobbies[id], lobbies'[id])

LEMMA UntoldTellsBoth == NothingToTell => TellsBoth
BY DEF NothingToTell, Untold, TellsBoth, BothTold, Fields2

LEMMA SameLobbiesUntold == UNCHANGED lobbies => NothingToTell
BY DEF NothingToTell, Untold, Turns

(* The sender's lobby changes. *)
LEMMA SetLobbyTells ==
    ASSUME TypeOK, NEW p \in Participants, HasLobby(p), NEW new, lobbies' = SetLobby(p, new)
    PROVE  /\ Untold(LobbyOf(p), new) => NothingToTell
           /\ BothTold(LobbyOf(p), new) => TellsBoth
<1>1. /\ DOMAIN lobbies' = DOMAIN lobbies
      /\ \A i \in DOMAIN lobbies :
             lobbies'[i] = IF i = clentData[p].lobby THEN new ELSE lobbies[i]
      /\ LobbyOf(p) = lobbies[clentData[p].lobby]
  BY DEF SetLobby, HasLobby, LobbyOf, TypeOK
<1>2. \A i \in DOMAIN lobbies : Untold(lobbies[i], lobbies[i]) /\ BothTold(lobbies[i], lobbies[i])
  BY DEF Untold, BothTold, Turns
<1> QED
  BY <1>1, <1>2 DEF NothingToTell, TellsBoth

LEMMA SeatChangeUntold ==
    ASSUME NEW lobby \in Lobbies, NEW p
    PROVE  Untold(lobby, AddParticipant(lobby, p)) /\ Untold(lobby, RemoveParticipant(lobby, p))
BY DEF AddParticipant, RemoveParticipant, Untold, Lobbies, Turns

LEMMA ConnectedTells ==
    ASSUME TypeOK, NEW p \in Participants, HandleMessageConnected(p)
    PROVE  TellsBoth
<1>1. CASE Create(p)
  <2>1. \A i \in DOMAIN lobbies \cap DOMAIN lobbies' : ~idReused' => lobbies'[i] = lobbies[i]
    BY <1>1 DEF Create
  <2> QED
    BY <2>1 DEF TellsBoth, BothTold, Turns
<1>2. ASSUME NEW id \in FreeLobbies, NEW letter, Enter(p, id, letter)
      PROVE  TellsBoth
  <2>1. \A i \in DOMAIN lobbies :
            lobbies'[i] = IF i = id THEN AddParticipant(lobbies[id], p) ELSE lobbies[i]
    BY <1>2 DEF Enter, TypeOK
  <2>2. Untold(lobbies[id], AddParticipant(lobbies[id], p))
    BY SeatChangeUntold DEF FreeLobbies, TypeOK
  <2>3. NothingToTell
    BY <2>1, <2>2 DEF NothingToTell, Untold, Turns
  <2> QED
    BY <2>3, UntoldTellsBoth
<1>3. CASE Join(p) \/ \E id \in Ids : ConnectTo(p, id)
  BY <1>2, <1>3 DEF Join, ConnectTo
<1>4. CASE Refuse(p) \/ List(p) \/ QuitConnected(p)
  BY <1>4, SameLobbiesUntold, UntoldTellsBoth DEF Refuse, List, QuitConnected
<1> QED
  BY <1>1, <1>3, <1>4 DEF HandleMessageConnected

(* Who becomes ready for a new game waits in a lobby where no turns are played. *)
LEMMA LobbyHandlersTell ==
    ASSUME GamesInv, NEW p \in Participants, HandleMessageLobby(p)
    PROVE  TellsBoth
<1>1. SeatInv /\ TypeOK
  BY DEF GamesInv, SeatInv, TypeInv
<1>2. CASE ReadyInLobby(p)
  <2>1. UNCHANGED lobbies \/ lobbies' = SetLobby(p, StartSession(LobbyOf(p)))
    BY <1>2 DEF ReadyInLobby
  <2>2. HasLobby(p) /\ LobbyOf(p) \in Lobbies /\ UNCHANGED idReused /\ Handling(p, "lobby")
    BY <1>1, <1>2, LobbyOfType DEF ReadyInLobby
  <2>3. ASSUME ~idReused PROVE LobbyOf(p).state \notin Turns
    <3>1. session[p] = "open" /\ clentData[p].state = "lobby"
      BY <1>1, <2>2, SenderOpen
    <3>2. p \in SeatsOf(LobbyOf(p)) /\ GameKept(LobbyOf(p), session, clentData)
      BY <2>3, <3>1, SenderPlays
    <3> QED
      BY <3>1, <3>2 DEF GameKept, Waits, OpenIn
  <2>4. StartSession(LobbyOf(p)).state = "preparation"
    BY <2>2 DEF StartSession, Lobbies
  <2>5. ~idReused => Untold(LobbyOf(p), StartSession(LobbyOf(p)))
    BY <2>3, <2>4 DEF Untold, Turns
  <2>6. ~idReused => NothingToTell
    BY <1>1, <2>1, <2>2, <2>5, SetLobbyTells, SameLobbiesUntold
  <2> QED
    BY <2>2, <2>6, UntoldTellsBoth DEF TellsBoth
<1>3. CASE Unready(p)
  BY <1>3, SameLobbiesUntold, UntoldTellsBoth DEF Unready
<1>4. ASSUME HasLobby(p), NEW clients, Vacate(p, clients) PROVE TellsBoth
  <2>1. \/ lobbies' = [i \in DOMAIN lobbies \ {clentData[p].lobby} |-> lobbies[i]]
        \/ lobbies' = SetLobby(p, RemoveParticipant(LobbyOf(p), p))
    BY <1>4 DEF Vacate
  <2>2. Untold(LobbyOf(p), RemoveParticipant(LobbyOf(p), p))
    BY <1>1, <1>4, LobbyOfType, SeatChangeUntold
  <2>3. NothingToTell
    <3>1. CASE lobbies' = [i \in DOMAIN lobbies \ {clentData[p].lobby} |-> lobbies[i]]
      BY <3>1 DEF NothingToTell, Untold, Turns
    <3>2. CASE lobbies' = SetLobby(p, RemoveParticipant(LobbyOf(p), p))
      BY <1>1, <1>4, <2>2, <3>2, SetLobbyTells
    <3> QED
      BY <2>1, <3>1, <3>2
  <2> QED
    BY <2>3, UntoldTellsBoth
<1> QED
  BY <1>2, <1>3, <1>4 DEF HandleMessageLobby, Leave, QuitLobby

LEMMA TwoLetters ==
    ASSUME NEW m, NEW n, NEW a, NEW b
    PROVE  /\ WriteMsg(m, a) \o WriteMsg(n, b) = <<[to |-> a, msg |-> m], [to |-> b, msg |-> n]>>
           /\ DOMAIN (WriteMsg(m, a) \o WriteMsg(n, b)) = {1, 2}
<1>1. WriteMsg(m, a) \o WriteMsg(n, b) = <<[to |-> a, msg |-> m], [to |-> b, msg |-> n]>>
  <2>1. ASSUME NEW u, NEW v PROVE <<u>> \o <<v>> = <<u, v>>
    <3> DEFINE S == {u, v}
    <3>1. /\ <<u>> \in Seq(S) /\ <<v>> \in Seq(S) /\ <<u, v>> \in Seq(S)
          /\ Len(<<u>>) = 1 /\ Len(<<v>>) = 1 /\ Len(<<u, v>>) = 2
          /\ <<u>>[1] = u /\ <<v>>[1] = v /\ <<u, v>>[1] = u /\ <<u, v>>[2] = v
      OBVIOUS
    <3> DEFINE w == <<u>> \o <<v>>
    <3>2. w \in Seq(S) /\ Len(w) = 2 /\ w[1] = u /\ w[2] = v
      <4> HIDE DEF S
      <4> QED
        BY <3>1, ConcatProperties
    <3>3. \A i \in 1 .. Len(w) : w[i] = <<u, v>>[i]
      BY <3>2
    <3> HIDE DEF w, S
    <3> QED
      BY <3>1, <3>2, <3>3, SeqEqual DEF w
  <2> QED
    BY <2>1 DEF WriteMsg
<1>2. \A u, v : DOMAIN <<u, v>> = {1, 2}
  OBVIOUS
<1> QED
  BY <1>1, <1>2

(* An answer to a shot is announced to the lobby. *)
LEMMA AnnouncedAlike ==
    ASSUME NEW msg, NEW lobby, Announce(msg, lobby)
    PROVE  ToldAlike(lobby)
<1>1. /\ sendMsg' = msg
      /\ sent' = <<[to |-> lobby.p1, msg |-> msg], [to |-> lobby.p2, msg |-> msg]>>
      /\ DOMAIN sent' = {1, 2}
  BY TwoLetters DEF Announce, Deliver, WriteLobby
<1>2. {sent'[i] : i \in DOMAIN sent'} = {sent'[1], sent'[2]}
  BY <1>1
<1> QED
  BY <1>1, <1>2 DEF ToldAlike

(* In the session, a shot is told alike to both, a start to each his part, and nothing
   else is to tell. *)
LEMMA SessionHandlersTell ==
    ASSUME TypeOK, NEW p \in Participants, HandleMessageSession(p)
    PROVE  TellsBoth
<1> DEFINE lobby == LobbyOf(p)
<1>1. HasLobby(p) /\ lobby \in Lobbies
  BY LobbyOfType
  DEF HandleMessageSession, Playing, PlaceShip, ReadyToPlay, RepeatShot, Shoot, Win, WrongTurn,
      Rebroadcast, Continue, Unexpected
<1>2. CASE \E s \in Placements : PlaceShip(p, s)
  <2>1. PICK s \in Placements : PlaceShip(p, s)
    BY <1>2
  <2> DEFINE new == SetMyField(lobby, p, SetShip(MyField(lobby, p), s))
  <2>2. UNCHANGED lobbies \/ lobbies' = SetLobby(p, new)
    BY <2>1 DEF PlaceShip
  <2>3. lobby.state = "preparation"
    BY <2>1 DEF PlaceShip, Playing
  <2>4. new.state = lobby.state
    BY <1>1 DEF SetMyField, Lobbies
  <2>5. Untold(lobby, new)
    BY <2>3, <2>4 DEF Untold, Turns
  <2> HIDE DEF new
  <2> QED
    BY <1>1, <2>2, <2>5, SetLobbyTells, SameLobbiesUntold, UntoldTellsBoth
<1>3. CASE ReadyToPlay(p)
  <2> DEFINE ready == MarkReady(lobby, p)
  <2>1. lobby.state = "preparation"
    BY <1>3 DEF ReadyToPlay, Playing
  <2>2. /\ ready.state = lobby.state /\ ready.p1 = lobby.p1 /\ ready.p2 = lobby.p2
        /\ ready \in Lobbies
    BY <1>1, GameStepType DEF MarkReady, Lobbies
  <2>3. CASE lobbies' = SetLobby(p, ready)
    <3>1. Untold(lobby, ready)
      BY <2>1, <2>2 DEF Untold, Turns
    <3> QED
      BY <1>1, <2>3, <3>1, SetLobbyTells, UntoldTellsBoth
  <2>4. ASSUME NEW turn \in Turns,
               lobbies' = SetLobby(p, [ready EXCEPT !.state = turn]),
               Deliver(WriteMsg(Say("f"), Mover([ready EXCEPT !.state = turn])) \o
                       WriteMsg(Say("s"), IF turn = "turn_1" THEN ready.p2 ELSE ready.p1))
        PROVE  TellsBoth
    <3> DEFINE new == [ready EXCEPT !.state = turn]
    <3>1. new.state = turn /\ new.p1 = ready.p1 /\ new.p2 = ready.p2
      BY <2>2 DEF Lobbies
    <3>2. (IF turn = "turn_1" THEN ready.p2 ELSE ready.p1) = GetEnemy(new, Mover(new))
      BY <3>1, <2>4 DEF GetEnemy, Mover, Turns
    <3>3. ToldTurns(new)
      <4> DEFINE first == Mover(new)
                 second == GetEnemy(new, first)
      <4>1. sent' = WriteMsg(Say("f"), first) \o WriteMsg(Say("s"), second)
        BY <2>4, <3>2 DEF Deliver
      <4> HIDE DEF first, second
      <4>2. sent' = <<[to |-> first, msg |-> Say("f")], [to |-> second, msg |-> Say("s")]>>
        BY <4>1, TwoLetters
      <4> QED
        BY <4>2 DEF ToldTurns, first, second
    <3>4. BothTold(lobby, new)
      BY <2>1, <3>3 DEF BothTold, Turns
    <3> HIDE DEF new
    <3> QED
      BY <1>1, <2>4, <3>4, SetLobbyTells DEF new
  <2> QED
    BY <1>3, <2>3, <2>4 DEF ReadyToPlay
<1>4. CASE \E c \in Cells : Shoot(p, c)
  <2>1. PICK c \in Cells : Shoot(p, c)
    BY <1>4
  <2> DEFINE answer == ShotAnswer(TargetField(lobby, p), c)
             hit == SetTargetField(lobby, p, ShotField(TargetField(lobby, p), c))
             new == IF answer = "m" THEN SwapState(hit, p) ELSE hit
  <2>2. /\ lobby.state \in Turns /\ lobbies' = SetLobby(p, new)
        /\ Announce(Answer(answer, c), lobby)
    BY <2>1 DEF Shoot, Playing
  <2>3. BothTold(lobby, new)
    BY <2>2, AnnouncedAlike DEF BothTold, Turns
  <2> HIDE DEF new
  <2> QED
    BY <1>1, <2>2, <2>3, SetLobbyTells
<1>5. CASE \E c \in Cells : Win(p, c)
  <2>1. PICK c \in Cells : Win(p, c)
    BY <1>5
  <2> DEFINE mine == clentData[p].lobby
             theirs == clentData[GetEnemy(lobby, p)].lobby
             won == ResetReady(EndGame(SetTargetField(lobby, p,
                                            ShotField(TargetField(lobby, p), c))))
  <2>2. lobby.state \in Turns /\ lobby = lobbies[mine]
    BY <2>1 DEF Win, Playing, LobbyOf
  <2>3. CASE UNCHANGED lobbies
    BY <2>3, SameLobbiesUntold, UntoldTellsBoth
  <2>4. CASE /\ lobbies' = [i \in DOMAIN lobbies |->
                               IF i = mine THEN won
                               ELSE IF i = theirs THEN EndGame(lobbies[i]) ELSE lobbies[i]]
             /\ Announce(Answer("g", c), lobby)
    <3>1. BothTold(lobby, won)
      BY <2>2, <2>4, AnnouncedAlike DEF BothTold, Turns
    <3>2. \A i \in DOMAIN lobbies : Untold(lobbies[i], EndGame(lobbies[i]))
      BY DEF Untold, EndGame, Turns, Lobbies, TypeOK
    <3>3. \A i \in DOMAIN lobbies : BothTold(lobbies[i], EndGame(lobbies[i]))
      BY <3>2 DEF BothTold, Untold, Fields2
    <3>4. \A i \in DOMAIN lobbies : BothTold(lobbies[i], lobbies[i])
      BY DEF BothTold, Turns
    <3> HIDE DEF won, theirs, mine, lobby
    <3> QED
      BY <2>2, <2>4, <3>1, <3>3, <3>4 DEF TellsBoth
  <2> QED
    BY <2>1, <2>3, <2>4 DEF Win
<1>6. CASE Continue(p)
  <2> DEFINE new == [lobby EXCEPT !.state = "preparation"]
  <2>1. UNCHANGED lobbies \/ lobbies' = SetLobby(p, new)
    BY <1>6 DEF Continue
  <2>2. lobby.state = "end"
    BY <1>6 DEF Continue, Playing
  <2>3. Untold(lobby, new)
    BY <2>2 DEF Untold, Turns
  <2> HIDE DEF new
  <2> QED
    BY <1>1, <2>1, <2>3, SetLobbyTells, SameLobbiesUntold, UntoldTellsBoth
<1>7. CASE (\E c \in Cells : RepeatShot(p, c)) \/ WrongTurn(p) \/ Rebroadcast(p) \/ Unexpected(p)
  BY <1>7, SameLobbiesUntold, UntoldTellsBoth DEF RepeatShot, WrongTurn, Rebroadcast, Unexpected
<1> QED
  BY <1>2, <1>3, <1>4, <1>5, <1>6, <1>7 DEF HandleMessageSession

LEMMA NextTells == GamesInv /\ [Next]_vars => TellsBoth
<1> SUFFICES ASSUME GamesInv, [Next]_vars PROVE TellsBoth
  OBVIOUS
<1>1. TypeOK
  BY DEF GamesInv, SeatInv, TypeInv
<1>2. CASE UNCHANGED vars
  BY <1>2, SameLobbiesUntold, UntoldTellsBoth DEF vars
<1>3. ASSUME NEW p \in Participants, SessionEvent(p) \/ FollowDeadLobby(p)
      PROVE  TellsBoth
  BY <1>3, SameLobbiesUntold, UntoldTellsBoth
  DEF SessionEvent, Connect, ReadError, WriteError, Flushed, FollowDeadLobby
<1> QED
  BY <1>1, <1>2, <1>3, ConnectedTells, LobbyHandlersTell, SessionHandlersTell DEF Next

(* Both seats of a lobby learn of every shot and of the start of the turns, whatever the
   players in it and in others send: no handler changes a game behind a player's back
   (server.cpp:129-139, 231-301). *)
THEOREM ServerBothAreTold == OnlyReadErrors => (Spec => BothAreTold)
<1> SUFFICES ASSUME OnlyReadErrors PROVE Spec => BothAreTold
  OBVIOUS
<1>1. GamesInv /\ [Next]_vars => TellsBoth
  BY NextTells
<1>2. Spec => []GamesInv
  BY AlwaysGamesInv
<1> QED
  BY <1>1, <1>2, PTL DEF Spec, BothAreTold, TellsBoth
-----------------------------------------------------------------------------
(* The invariant of a Match, and so of what the watched lobby shows. *)
LEMMA PlayerFacts ==
    /\ \A i \in M!Players : M!Other(i) \in M!Players /\ M!Turn(i) \in M!MatchTurns
    /\ M!MatchTurns = {"turn_1", "turn_2"}
  BY DEF M!Players, M!Other, M!Turn, M!MatchTurns

(* The boards between games, and of a match that is not looked at. *)
LEMMA EmptyIsConsistent ==
    ASSUME M!EmptyBoards(FreshNow', AfloatNow', ReadyNow'), StageNow' \in M!Stages \ M!MatchTurns,
           StageNow' # "end"
    PROVE  M!MatchConsistent'
<1>1. M!MatchTypeOK'
  BY DEF M!MatchTypeOK, M!EmptyBoards
<1>2. \A i \in M!Players : AfloatNow'[i] = {} /\ ReadyNow' = {}
  BY DEF M!EmptyBoards
<1> QED
  BY <1>1, <1>2 DEF M!MatchConsistent, M!EmptyBoards

LEMMA InitMatch == M!MatchInit => M!MatchConsistent
  BY DEF M!MatchInit, M!EmptyBoards, M!MatchConsistent, M!MatchTypeOK, M!Stages, M!MatchTurns, M!Turn

LEMMA PlaceMatch ==
    ASSUME M!MatchConsistent, NEW i \in M!Players, M!Place(i)
    PROVE  M!MatchConsistent'
<1>1. PICK fleet \in SUBSET FreshNow[i] : AfloatNow' = [AfloatNow EXCEPT ![i] = fleet]
  BY DEF M!Place
<1>2. FreshNow[i] \subseteq Cells
  BY DEF M!MatchConsistent, M!MatchTypeOK
<1>3. AfloatNow' \in [M!Players -> SUBSET Cells]
  BY <1>1, <1>2 DEF M!MatchConsistent, M!MatchTypeOK
<1>4. \A k \in M!Players : AfloatNow'[k] \subseteq FreshNow'[k]
  BY <1>1 DEF M!MatchConsistent, M!MatchTypeOK, M!Place
<1> QED
  BY <1>3, <1>4, PlayerFacts DEF M!MatchConsistent, M!MatchTypeOK, M!Place

LEMMA SayReadyMatch ==
    ASSUME M!MatchConsistent, NEW i \in M!Players, M!SayReady(i)
    PROVE  M!MatchConsistent'
<1>1. ReadyNow' \in SUBSET M!Players
  BY DEF M!SayReady, M!MatchConsistent, M!MatchTypeOK
<1>2. CASE ReadyNow' = M!Players
  <2>1. StageNow' \in M!MatchTurns
    BY <1>2 DEF M!SayReady
  <2> QED
    BY <1>1, <1>2, <2>1, PlayerFacts
    DEF M!SayReady, M!MatchConsistent, M!MatchTypeOK, M!Stages
<1>3. CASE ReadyNow' # M!Players
  <2>1. StageNow' = "preparation"
    BY <1>3 DEF M!SayReady
  <2> QED
    BY <1>1, <1>3, <2>1, PlayerFacts DEF M!SayReady, M!MatchConsistent, M!MatchTypeOK
<1> QED
  BY <1>2, <1>3

LEMMA MissMatch ==
    ASSUME M!MatchConsistent, NEW i \in M!Players, NEW c \in Cells, M!Miss(i, c)
    PROVE  M!MatchConsistent'
<1> DEFINE j == M!Other(i)
<1>1. j \in M!Players /\ M!Turn(i) \in M!MatchTurns /\ M!Turn(j) \in M!MatchTurns
  BY PlayerFacts
<1>2. /\ FreshNow' = [FreshNow EXCEPT ![j] = @ \ {c}] /\ c \notin AfloatNow[j]
      /\ StageNow = M!Turn(i) /\ StageNow' = M!Turn(j) /\ UNCHANGED <<AfloatNow, ReadyNow>>
  BY DEF M!Miss
<1>3. FreshNow' \in [M!Players -> SUBSET Cells]
  BY <1>1, <1>2 DEF M!MatchConsistent, M!MatchTypeOK
<1>4. \A k \in M!Players : AfloatNow'[k] \subseteq FreshNow'[k]
  BY <1>1, <1>2 DEF M!MatchConsistent, M!MatchTypeOK
<1>5. ReadyNow' = M!Players
  BY <1>1, <1>2 DEF M!MatchConsistent
<1> QED
  BY <1>1, <1>2, <1>3, <1>4, <1>5, PlayerFacts DEF M!MatchConsistent, M!MatchTypeOK, M!Stages

LEMMA HitMatch ==
    ASSUME M!MatchConsistent, NEW i \in M!Players, NEW c \in Cells, M!Hit(i, c)
    PROVE  M!MatchConsistent'
<1> DEFINE j == M!Other(i)
<1>1. j \in M!Players /\ M!Turn(i) \in M!MatchTurns
  BY PlayerFacts
<1>2. /\ StageNow = M!Turn(i)
      /\ AfloatNow' = [AfloatNow EXCEPT ![j] = @ \ {c}]
      /\ IF AfloatNow'[j] = {} THEN StageNow' = "end" /\ ReadyNow' = {}
         ELSE UNCHANGED <<StageNow, ReadyNow>>
  BY DEF M!Hit
<1>3. PICK left \in SUBSET FreshNow[j] :
          /\ AfloatNow'[j] \subseteq left
          /\ FreshNow' = [FreshNow EXCEPT ![j] = left]
  BY DEF M!Hit
<1>4. FreshNow[j] \subseteq Cells /\ AfloatNow[j] \subseteq Cells
  BY <1>1 DEF M!MatchConsistent, M!MatchTypeOK
<1>5. FreshNow' \in [M!Players -> SUBSET Cells] /\ AfloatNow' \in [M!Players -> SUBSET Cells]
  BY <1>1, <1>2, <1>3, <1>4 DEF M!MatchConsistent, M!MatchTypeOK
<1>6. \A k \in M!Players : AfloatNow'[k] \subseteq FreshNow'[k]
  BY <1>1, <1>2, <1>3 DEF M!MatchConsistent, M!MatchTypeOK
<1>7. ReadyNow = M!Players
  BY <1>1, <1>2 DEF M!MatchConsistent
<1>8. CASE AfloatNow'[j] = {}
  BY <1>1, <1>2, <1>5, <1>6, <1>8, PlayerFacts DEF M!MatchConsistent, M!MatchTypeOK, M!Stages
<1>9. CASE AfloatNow'[j] # {}
  BY <1>1, <1>2, <1>5, <1>6, <1>7, <1>9, PlayerFacts DEF M!MatchConsistent, M!MatchTypeOK, M!Stages
<1> QED
  BY <1>8, <1>9

LEMMA StepMatch == M!MatchConsistent /\ [M!MatchNext]_(M!match) => M!MatchConsistent'
<1> SUFFICES ASSUME M!MatchConsistent, [M!MatchNext]_(M!match) PROVE M!MatchConsistent'
  OBVIOUS
<1>1. CASE M!Open
  BY <1>1, PlayerFacts DEF M!Open, M!MatchConsistent, M!MatchTypeOK, M!Stages
<1>2. CASE M!Close
  BY <1>2, EmptyIsConsistent, PlayerFacts DEF M!Close, M!Stages
<1>3. CASE M!Begin
  BY <1>3, EmptyIsConsistent, PlayerFacts DEF M!Begin, M!Stages
<1>4. CASE M!Return
  BY <1>4, PlayerFacts DEF M!Return, M!MatchConsistent, M!MatchTypeOK, M!Stages
<1>5. CASE M!Spoil
  BY <1>5, EmptyIsConsistent, PlayerFacts DEF M!Spoil, M!Stages
<1>6. CASE \E i \in M!Players : M!Place(i) \/ M!SayReady(i) \/ M!Fire(i)
  BY <1>6, PlaceMatch, SayReadyMatch, MissMatch, HitMatch DEF M!Fire
<1>7. CASE UNCHANGED M!match
  BY <1>7 DEF M!match, M!MatchConsistent, M!MatchTypeOK
<1> QED
  BY <1>1, <1>2, <1>3, <1>4, <1>5, <1>6, <1>7 DEF M!MatchNext

LEMMA MatchIsConsistent == M!MatchSpec => []M!MatchConsistent
<1> QED
  BY InitMatch, StepMatch, PTL DEF M!MatchSpec

(* In every lobby of the server: turns are played only by two who are ready, the end
   finds a fleet sunk and nobody ready, and no ship is afloat on a cell that was
   shot (server.cpp:205-371). *)
THEOREM ServerKeepsMatch == OnlyReadErrors => (Spec => []M!MatchConsistent)
<1> QED
  BY ServerIsMatch, MatchIsConsistent, PTL
=============================================================================
