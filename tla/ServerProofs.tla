---------------------------- MODULE ServerProofs ----------------------------
(* Type correctness of Server and the safety of its seats and pointers, for any
   number of players and lobbies, every board and every choice of ships. *)
EXTENDS ServerLife, FieldProofs, FiniteSetTheorems, SequenceTheorems

-----------------------------------------------------------------------------
(* What the operators return. *)

LEMMA SayType == \A letter \in Letters : Say(letter) \in Messages
BY DEF Say, Messages

LEMMA AnswerType ==
    \A letter \in Letters, c \in Cells : Answer(letter, c) \in Messages
BY DEF Answer, Messages

LEMMA MailType ==
    ASSUME NEW msg \in Messages, NEW q \in Seats
    PROVE  WriteMsg(msg, q) \in Seq(Mail)
BY DEF WriteMsg, Mail

LEMMA WriteLobbyType ==
    ASSUME NEW msg \in Messages, NEW lobby \in Lobbies
    PROVE  WriteLobby(msg, lobby) \in Seq(Mail)
<1>1. lobby.p1 \in Seats /\ lobby.p2 \in Seats
  BY DEF Lobbies
<1> QED
  BY <1>1, MailType, ConcatProperties DEF WriteLobby

LEMMA DeliverType ==
    ASSUME NEW mail \in Seq(Mail), Deliver(mail)
    PROVE  sent' \in Seq(Mail) /\ fault' \in {"none", "session", "lobby"}
BY DEF Deliver

LEMMA ReplyType ==
    ASSUME NEW letter \in Letters, NEW p \in Participants, Reply(letter, p)
    PROVE  /\ sendMsg' \in Messages
           /\ sent' \in Seq(Mail)
           /\ fault' \in {"none", "session", "lobby"}
BY SayType, MailType, DeliverType DEF Reply, Seats

LEMMA AnnounceType ==
    ASSUME NEW msg \in Messages, NEW lobby \in Lobbies, Announce(msg, lobby)
    PROVE  /\ sendMsg' \in Messages
           /\ sent' \in Seq(Mail)
           /\ fault' \in {"none", "session", "lobby"}
BY WriteLobbyType, DeliverType DEF Announce

LEMMA EmptyMailType == <<>> \in Seq(Mail)
OBVIOUS

LEMMA NewLobbyType == NewLobby \in Lobbies
BY EmptyFieldType DEF NewLobby, Lobbies, Seats, GameStates

LEMMA SeatType ==
    ASSUME NEW lobby \in Lobbies, NEW p \in Participants
    PROVE  /\ AddParticipant(lobby, p) \in Lobbies
           /\ RemoveParticipant(lobby, p) \in Lobbies
           /\ GetEnemy(lobby, p) \in Seats
BY DEF AddParticipant, RemoveParticipant, GetEnemy, Lobbies, Seats

LEMMA LobbyOfType ==
    ASSUME TypeOK, NEW p \in Participants, HasLobby(p)
    PROVE  LobbyOf(p) \in Lobbies
BY DEF TypeOK, HasLobby, LobbyOf

LEMMA SetLobbyType ==
    ASSUME TypeOK, NEW p \in Participants, HasLobby(p), NEW lobby \in Lobbies
    PROVE  /\ DOMAIN SetLobby(p, lobby) = DOMAIN lobbies
           /\ SetLobby(p, lobby) \in [DOMAIN lobbies -> Lobbies]
BY DEF TypeOK, HasLobby, SetLobby

LEMMA FieldOfType ==
    ASSUME NEW lobby \in Lobbies, NEW p
    PROVE  MyField(lobby, p) \in Fields /\ TargetField(lobby, p) \in Fields
BY DEF MyField, TargetField, Lobbies

LEMMA SetFieldType ==
    ASSUME NEW lobby \in Lobbies, NEW p, NEW f \in Fields
    PROVE  SetMyField(lobby, p, f) \in Lobbies /\ SetTargetField(lobby, p, f) \in Lobbies
BY DEF SetMyField, SetTargetField, Lobbies

LEMMA GameStepType ==
    ASSUME NEW lobby \in Lobbies, NEW p
    PROVE  /\ SwapState(lobby, p) \in Lobbies
           /\ EndGame(lobby) \in Lobbies
           /\ ResetReady(lobby) \in Lobbies
           /\ StartSession(lobby) \in Lobbies
           /\ MarkReady(lobby, p) \in Lobbies
           /\ [lobby EXCEPT !.state = "preparation"] \in Lobbies
<1>1. lobby.field1 \in Fields /\ lobby.field2 \in Fields
  BY DEF Lobbies
<1>2. Clear(lobby.field1) \in Fields /\ Clear(lobby.field2) \in Fields
  BY <1>1, ClearType
<1>3. SwapState(lobby, p) \in Lobbies
  BY DEF SwapState, Lobbies, GameStates
<1>4. EndGame(lobby) \in Lobbies
  BY DEF EndGame, Lobbies, GameStates
<1>5. ResetReady(lobby) \in Lobbies
  BY DEF ResetReady, Lobbies
<1>6. StartSession(lobby) \in Lobbies
  BY <1>2 DEF StartSession, Lobbies, GameStates
<1>7. MarkReady(lobby, p) \in Lobbies
  BY DEF MarkReady, Lobbies, IsParticipant1, IsParticipant2
<1>8. [lobby EXCEPT !.state = "preparation"] \in Lobbies
  BY DEF Lobbies, GameStates
<1> QED
  BY <1>3, <1>4, <1>5, <1>6, <1>7, <1>8

LEMMA ForgetType ==
    ASSUME NEW clients \in [Seats -> Clients], NEW p \in Participants
    PROVE  Forget(p, clients) \in [Seats -> Clients]
BY DEF Forget, Clients, SharedClient, ClientStates, Seats

LEMMA StopReadingType ==
    ASSUME TypeOK, NEW p \in Participants, NEW writing \in BOOLEAN, StopReading(p, writing)
    PROVE  session' \in [Participants -> Lives]
BY DEF StopReading, TypeOK, Lives

LEMMA VacateType ==
    ASSUME TypeOK, NEW p \in Participants, HasLobby(p),
           NEW clients \in [Seats -> Clients], Vacate(p, clients)
    PROVE  /\ DOMAIN lobbies' \subseteq Ids
           /\ lobbies' \in [DOMAIN lobbies' -> Lobbies]
           /\ clentData' \in [Seats -> Clients]
<1> DEFINE id == clentData[p].lobby
           left == RemoveParticipant(LobbyOf(p), p)
<1>1. left \in Lobbies
  BY LobbyOfType, SeatType
<1>2. CASE IsEmpty(left)
  <2>1. lobbies' = [i \in DOMAIN lobbies \ {id} |-> lobbies[i]]
    BY <1>2 DEF Vacate
  <2>2. DOMAIN lobbies' \subseteq Ids /\ lobbies' \in [DOMAIN lobbies' -> Lobbies]
    BY <2>1 DEF TypeOK
  <2>3. clentData' = [q \in Seats |->
            IF clients[q].lobby = id THEN [clients[q] EXCEPT !.lobby = FreedLobby]
            ELSE clients[q]]
    BY <1>2 DEF Vacate
  <2>4. \A q \in Seats : [clients[q] EXCEPT !.lobby = FreedLobby] \in Clients
    BY DEF Clients
  <2> QED
    BY <2>2, <2>3, <2>4
<1>3. CASE ~IsEmpty(left)
  <2>1. lobbies' = SetLobby(p, left) /\ clentData' = clients
    BY <1>3 DEF Vacate
  <2> QED
    BY <1>1, <2>1, SetLobbyType DEF TypeOK
<1> QED
  BY <1>2, <1>3

-----------------------------------------------------------------------------
(* Type correctness, and with it the count of lobbies: that the count never
   falls below zero rests on there being no more lobbies than it says. *)

TypeInv == TypeOK /\ LobbiesCounted

(* The step changes no seat and erases and creates no lobby. *)
SeatsKept ==
    /\ DOMAIN lobbies' = DOMAIN lobbies
    /\ \A id \in DOMAIN lobbies :
           lobbies'[id].p1 = lobbies[id].p1 /\ lobbies'[id].p2 = lobbies[id].p2

LEMMA CountedIfSeatsKept ==
    ASSUME LobbiesCounted, SeatsKept, lobbiesCount' = lobbiesCount
    PROVE  LobbiesCounted'
BY DEF LobbiesCounted, SeatsKept, SeatsOf

LEMMA SetLobbyKeepsSeats ==
    ASSUME TypeOK, NEW p \in Participants, HasLobby(p), NEW lobby \in Lobbies,
           lobby.p1 = LobbyOf(p).p1, lobby.p2 = LobbyOf(p).p2,
           lobbies' = SetLobby(p, lobby)
    PROVE  SeatsKept
BY DEF TypeOK, HasLobby, SetLobby, LobbyOf, SeatsKept

LEMMA SameLobbiesKeepSeats == ASSUME UNCHANGED lobbies PROVE SeatsKept
BY DEF SeatsKept

(* The lobby a session handler writes back has the seats it had. *)
LEMMA FieldStepsKeepSeats ==
    ASSUME NEW lobby \in Lobbies, NEW p, NEW f
    PROVE  /\ SetMyField(lobby, p, f).p1 = lobby.p1 /\ SetMyField(lobby, p, f).p2 = lobby.p2
           /\ SetTargetField(lobby, p, f).p1 = lobby.p1
           /\ SetTargetField(lobby, p, f).p2 = lobby.p2
BY DEF SetMyField, SetTargetField, Lobbies

LEMMA GameStepsKeepSeats ==
    ASSUME NEW lobby \in Lobbies, NEW p
    PROVE  /\ SwapState(lobby, p).p1 = lobby.p1 /\ SwapState(lobby, p).p2 = lobby.p2
           /\ EndGame(lobby).p1 = lobby.p1 /\ EndGame(lobby).p2 = lobby.p2
           /\ ResetReady(lobby).p1 = lobby.p1 /\ ResetReady(lobby).p2 = lobby.p2
           /\ StartSession(lobby).p1 = lobby.p1 /\ StartSession(lobby).p2 = lobby.p2
           /\ MarkReady(lobby, p).p1 = lobby.p1 /\ MarkReady(lobby, p).p2 = lobby.p2
BY DEF SwapState, EndGame, ResetReady, StartSession, MarkReady, Lobbies

LEMMA IdsFinite == \A ids \in SUBSET Ids : IsFiniteSet(ids) /\ Cardinality(ids) \in Nat
<1>1. IsFiniteSet(Ids)
  BY ServerAssumption, FS_Interval DEF Ids
<1> QED
  BY <1>1, FS_Subset, FS_CardinalityType

LEMMA InitTypeInv == Init => TypeInv
<1> SUFFICES ASSUME Init PROVE TypeInv
  OBVIOUS
<1>1. SharedClient \in Clients
  BY DEF SharedClient, Clients, ClientStates
<1>2. Say("none") \in Messages
  BY SayType DEF Letters
<1>4. DOMAIN lobbies = {} /\ lobbies \in [{} -> Lobbies]
  BY DEF Init
<1>3. TypeOK
  <2>1. lobbiesCount \in 0 .. MaxLobbies
    BY ServerAssumption DEF Init
  <2>2. sent \in Seq(Mail)
    BY EmptyMailType DEF Init
  <2>3. clentData \in [Seats -> Clients] /\ session \in [Participants -> Lives]
    BY <1>1 DEF Init, Lives
  <2> QED
    BY <1>2, <1>4, <2>1, <2>2, <2>3 DEF Init, TypeOK
<1>5. LobbiesCounted
  BY <1>4, FS_EmptySet DEF Init, LobbiesCounted
<1> QED
  BY <1>3, <1>5 DEF TypeInv

LEMMA SessionEventTypeInv ==
    ASSUME TypeInv, NEW p \in Participants, SessionEvent(p)
    PROVE  TypeInv' /\ SeatsKept
<1>1. SharedClient \in Clients
  BY DEF SharedClient, Clients, ClientStates
<1>2. TypeOK
  BY DEF TypeInv
<1>3. Forget(p, clentData) \in [Seats -> Clients]
  BY <1>2, ForgetType DEF TypeOK
<1>4. CASE Connect(p)
  <2>1. TypeOK'
    BY <1>1, <1>2, <1>4, EmptyMailType DEF Connect, TypeOK, Lives, Seats
  <2> QED
    BY <1>4, <2>1, CountedIfSeatsKept, SameLobbiesKeepSeats DEF Connect, TypeInv
<1>5. CASE ReadError(p)
  <2>1. session' \in [Participants -> Lives]
    BY <1>2, <1>5, StopReadingType DEF ReadError
  <2>2. TypeOK'
    BY <1>2, <1>3, <1>5, <2>1, EmptyMailType DEF ReadError, TypeOK
  <2> QED
    BY <1>5, <2>2, CountedIfSeatsKept, SameLobbiesKeepSeats DEF ReadError, TypeInv
<1>6. CASE WriteError(p)
  <2>1. TypeOK'
    BY <1>2, <1>3, <1>6, EmptyMailType DEF WriteError, TypeOK, Lives
  <2> QED
    BY <1>6, <2>1, CountedIfSeatsKept, SameLobbiesKeepSeats DEF WriteError, TypeInv
<1>7. CASE Flushed(p)
  <2>1. TypeOK'
    BY <1>2, <1>7, EmptyMailType DEF Flushed, TypeOK, Lives
  <2> QED
    BY <1>7, <2>1, CountedIfSeatsKept, SameLobbiesKeepSeats DEF Flushed, TypeInv
<1> QED
  BY <1>4, <1>5, <1>6, <1>7 DEF SessionEvent

(* The three handlers of a connected client that give a seat. *)
LEMMA EnterTypeInv ==
    ASSUME TypeInv, NEW p \in Participants, NEW id \in FreeLobbies,
           NEW letter \in Letters, Enter(p, id, letter)
    PROVE  TypeInv'
<1>1. id \in DOMAIN lobbies /\ id \in Ids
  BY DEF FreeLobbies, TypeInv, TypeOK
<1>2. AddParticipant(lobbies[id], p) \in Lobbies
  BY <1>1, SeatType DEF TypeInv, TypeOK
<1>3. lobbies' \in [DOMAIN lobbies -> Lobbies] /\ DOMAIN lobbies' = DOMAIN lobbies
  BY <1>1, <1>2 DEF Enter, TypeInv, TypeOK
<1>4. clentData' \in [Seats -> Clients]
  BY <1>1 DEF Enter, EnterLobby, TypeInv, TypeOK, Clients, ClientStates, Seats
<1>5. TypeOK'
  BY <1>3, <1>4, ReplyType DEF Enter, TypeInv, TypeOK
<1>6. SeatsOf(AddParticipant(lobbies[id], p)) # {}
  BY <1>1, ServerAssumption DEF TypeInv, TypeOK, AddParticipant, SeatsOf, Lobbies, Seats
<1>7. \A i \in DOMAIN lobbies :
          lobbies'[i] = IF i = id THEN AddParticipant(lobbies[id], p) ELSE lobbies[i]
  BY <1>1 DEF Enter, TypeInv, TypeOK
<1>8. LobbiesCounted'
  BY <1>3, <1>6, <1>7 DEF LobbiesCounted, Enter, TypeInv
<1> QED
  BY <1>5, <1>8 DEF TypeInv

LEMMA CreateTypeInv ==
    ASSUME TypeInv, NEW p \in Participants, Create(p)
    PROVE  TypeInv'
<1> DEFINE id == lobbiesCount
           lobby == IF id \in DOMAIN lobbies THEN lobbies[id] ELSE NewLobby
           ids == DOMAIN lobbies \cup {id}
<1>1. TypeOK /\ LobbiesCounted
  BY DEF TypeInv
<1>2. id \in Ids
  BY <1>1, ServerAssumption DEF Create, TypeOK, Ids
<1>3. lobby \in Lobbies
  BY <1>1, NewLobbyType DEF TypeOK
<1>4. AddParticipant(lobby, p) \in Lobbies
  BY <1>3, SeatType
<1>5. lobbies' = [i \in ids |-> IF i = id THEN AddParticipant(lobby, p) ELSE lobbies[i]]
  BY DEF Create
<1>6. DOMAIN lobbies' = ids /\ ids \subseteq Ids /\ lobbies' \in [ids -> Lobbies]
  BY <1>1, <1>2, <1>4, <1>5 DEF TypeOK
<1>7. clentData' \in [Seats -> Clients]
  BY <1>1, <1>2 DEF Create, EnterLobby, TypeOK, Clients, ClientStates, Seats
<1>8. lobbiesCount' = lobbiesCount + 1 /\ lobbiesCount' \in 0 .. MaxLobbies
  BY <1>1, ServerAssumption DEF Create, TypeOK
<1>9. TypeOK'
  <2>1. sendMsg' \in Messages /\ sent' \in Seq(Mail) /\ fault' \in {"none", "session", "lobby"}
    BY ReplyType DEF Create, Letters
  <2>2. idReused' \in BOOLEAN /\ session' = session
    BY <1>1 DEF Create, TypeOK
  <2> QED
    BY <1>1, <1>6, <1>7, <1>8, <2>1, <2>2 DEF TypeOK
<1>10. Cardinality(ids) <= lobbiesCount'
  <2>1. IsFiniteSet(DOMAIN lobbies) /\ Cardinality(DOMAIN lobbies) \in Nat
    BY <1>1, IdsFinite DEF TypeOK
  <2>2. Cardinality(ids) <= Cardinality(DOMAIN lobbies) + 1
    BY <2>1, FS_AddElement
  <2>3. Cardinality(ids) \in Nat
    BY <1>6, IdsFinite
  <2> QED
    BY <1>1, <1>8, <2>1, <2>2, <2>3 DEF LobbiesCounted, TypeOK
<1>11. SeatsOf(AddParticipant(lobby, p)) # {}
  BY <1>3, ServerAssumption DEF AddParticipant, SeatsOf, Lobbies, Seats
<1>12. \A i \in ids : SeatsOf(lobbies'[i]) # {}
  BY <1>1, <1>5, <1>11 DEF LobbiesCounted
<1> QED
  BY <1>6, <1>9, <1>10, <1>12 DEF TypeInv, LobbiesCounted

LEMMA HandleMessageConnectedTypeInv ==
    ASSUME TypeInv, NEW p \in Participants, HandleMessageConnected(p)
    PROVE  TypeInv'
<1>1. TypeOK /\ LobbiesCounted
  BY DEF TypeInv
<1>2. CASE Create(p)
  BY <1>2, CreateTypeInv
<1>3. CASE Join(p)
  BY <1>3, EnterTypeInv DEF Join, Letters
<1>4. CASE \E id \in Ids : ConnectTo(p, id)
  BY <1>4, EnterTypeInv DEF ConnectTo, Letters
<1>5. CASE Refuse(p)
  <2>1. TypeOK'
    BY <1>1, <1>5, ReplyType DEF Refuse, TypeOK, Letters
  <2> QED
    BY <1>1, <1>5, <2>1, CountedIfSeatsKept, SameLobbiesKeepSeats DEF Refuse, TypeInv
<1>6. CASE List(p)
  <2>1. TypeOK'
    BY <1>1, <1>6, ReplyType DEF List, TypeOK, Letters
  <2> QED
    BY <1>1, <1>6, <2>1, CountedIfSeatsKept, SameLobbiesKeepSeats DEF List, TypeInv
<1>7. CASE QuitConnected(p)
  <2>1. TypeOK'
    BY <1>1, <1>7, ReplyType, ForgetType, StopReadingType DEF QuitConnected, TypeOK, Letters
  <2> QED
    BY <1>1, <1>7, <2>1, CountedIfSeatsKept, SameLobbiesKeepSeats DEF QuitConnected, TypeInv
<1> QED
  BY <1>2, <1>3, <1>4, <1>5, <1>6, <1>7 DEF HandleMessageConnected

(* Giving up a seat erases the lobby exactly when it was the last one. *)
LEMMA VacateCounted ==
    ASSUME TypeInv, NEW p \in Participants, HasLobby(p),
           NEW clients \in [Seats -> Clients], Vacate(p, clients)
    PROVE  /\ \A id \in DOMAIN lobbies' : SeatsOf(lobbies'[id]) # {}
           /\ IF IsEmpty(RemoveParticipant(LobbyOf(p), p))
              THEN Cardinality(DOMAIN lobbies') <= lobbiesCount - 1
              ELSE Cardinality(DOMAIN lobbies') <= lobbiesCount
<1> DEFINE id == clentData[p].lobby
           left == RemoveParticipant(LobbyOf(p), p)
<1>1. TypeOK /\ LobbiesCounted
  BY DEF TypeInv
<1>2. left \in Lobbies
  BY <1>1, LobbyOfType, SeatType
<1>3. CASE IsEmpty(left)
  <2>1. lobbies' = [i \in DOMAIN lobbies \ {id} |-> lobbies[i]]
    BY <1>3 DEF Vacate
  <2>2. IsFiniteSet(DOMAIN lobbies) /\ Cardinality(DOMAIN lobbies) \in Nat
    BY <1>1, IdsFinite DEF TypeOK
  <2>3. Cardinality(DOMAIN lobbies \ {id}) = Cardinality(DOMAIN lobbies) - 1
    BY <2>2, FS_RemoveElement DEF HasLobby
  <2>4. Cardinality(DOMAIN lobbies') <= lobbiesCount - 1
    BY <1>1, <2>1, <2>2, <2>3 DEF LobbiesCounted, TypeOK
  <2> QED
    BY <1>1, <1>3, <2>1, <2>4 DEF LobbiesCounted
<1>4. CASE ~IsEmpty(left)
  <2>1. lobbies' = SetLobby(p, left)
    BY <1>4 DEF Vacate
  <2>2. DOMAIN lobbies' = DOMAIN lobbies
    BY <1>1, <1>2, <2>1, SetLobbyType
  <2>3. \A i \in DOMAIN lobbies : lobbies'[i] = IF i = id THEN left ELSE lobbies[i]
    BY <2>1 DEF SetLobby
  <2>4. SeatsOf(left) # {}
    BY <1>2, <1>4 DEF IsEmpty, SeatsOf
  <2> QED
    BY <1>1, <1>4, <2>2, <2>3, <2>4 DEF LobbiesCounted
<1> QED
  BY <1>3, <1>4

LEMMA ReadyInLobbyTypeInv ==
    ASSUME TypeInv, NEW p \in Participants, ReadyInLobby(p)
    PROVE  TypeInv' /\ SeatsKept
<1> DEFINE lobby == LobbyOf(p)
           enemy == GetEnemy(lobby, p)
           clients == [clentData EXCEPT ![p].isReady = TRUE]
<1>1. TypeOK /\ LobbiesCounted /\ HasLobby(p)
  BY DEF TypeInv, ReadyInLobby
<1>2. lobby \in Lobbies /\ enemy \in Seats
  BY <1>1, LobbyOfType, SeatType
<1>3. clients \in [Seats -> Clients]
  BY <1>1 DEF TypeOK, Clients, Seats
<1>4. CASE clients[enemy].isReady
  <2>1. clentData' = [clients EXCEPT ![p].state = "session", ![enemy].state = "session"]
    BY <1>4 DEF ReadyInLobby
  <2> DEFINE one == [clients EXCEPT ![p].state = "session"]
  <2>2. clentData' \in [Seats -> Clients]
    <3>1. one \in [Seats -> Clients]
      BY <1>3 DEF Clients, ClientStates, Seats
    <3>2. clentData' = [one EXCEPT ![enemy].state = "session"]
      BY <2>1
    <3> HIDE DEF one
    <3> QED
      BY <1>2, <3>1, <3>2 DEF Clients, ClientStates
  <2>3. lobbies' = SetLobby(p, StartSession(lobby))
    BY <1>4 DEF ReadyInLobby
  <2>4. sendMsg' = Say("s") /\ Say("s") \in Messages /\ Say("r") \in Messages
    BY <1>4, SayType DEF ReadyInLobby, Letters
  <2>5. WriteMsg(Say("r"), p) \o WriteLobby(Say("s"), lobby) \in Seq(Mail)
    BY <1>2, <2>4, MailType, WriteLobbyType, ConcatProperties DEF Seats
  <2>6. sent' \in Seq(Mail) /\ fault' \in {"none", "session", "lobby"}
    BY <1>4, <2>5, DeliverType DEF ReadyInLobby
  <2>7. SeatsKept
    BY <1>1, <1>2, <2>3, GameStepType, GameStepsKeepSeats, SetLobbyKeepsSeats
  <2>8. DOMAIN lobbies' = DOMAIN lobbies /\ lobbies' \in [DOMAIN lobbies -> Lobbies]
    BY <1>1, <1>2, <2>3, GameStepType, SetLobbyType
  <2>9. TypeOK'
    BY <1>1, <2>2, <2>4, <2>6, <2>8 DEF TypeOK, ReadyInLobby
  <2> QED
    BY <1>1, <2>7, <2>9, CountedIfSeatsKept DEF ReadyInLobby, TypeInv
<1>5. CASE ~clients[enemy].isReady
  <2>1. clentData' = clients /\ Reply("r", p) /\ UNCHANGED lobbies
    BY <1>5 DEF ReadyInLobby
  <2>2. TypeOK'
    BY <1>1, <1>3, <2>1, ReplyType DEF TypeOK, ReadyInLobby, Letters
  <2> QED
    BY <1>1, <2>1, <2>2, CountedIfSeatsKept, SameLobbiesKeepSeats DEF ReadyInLobby, TypeInv
<1> QED
  BY <1>4, <1>5

LEMMA HandleMessageLobbyTypeInv ==
    ASSUME TypeInv, NEW p \in Participants, HandleMessageLobby(p)
    PROVE  TypeInv'
<1>1. TypeOK /\ LobbiesCounted
  BY DEF TypeInv
<1>2. CASE ReadyInLobby(p)
  BY <1>2, ReadyInLobbyTypeInv
<1>3. CASE Unready(p)
  <2>1. clentData' \in [Seats -> Clients]
    BY <1>1, <1>3 DEF Unready, TypeOK, Clients, Seats
  <2>2. TypeOK'
    BY <1>1, <1>3, <2>1, ReplyType DEF Unready, TypeOK, Letters
  <2> QED
    BY <1>1, <1>3, <2>2, CountedIfSeatsKept, SameLobbiesKeepSeats DEF Unready, TypeInv
<1>4. CASE Leave(p)
  <2> DEFINE clients == [clentData EXCEPT ![p].state = "connected"]
  <2>1. clients \in [Seats -> Clients]
    BY <1>1 DEF TypeOK, Clients, ClientStates, Seats
  <2>2. HasLobby(p) /\ Vacate(p, clients)
    BY <1>4 DEF Leave
  <2>3. TypeOK'
    BY <1>1, <1>4, <2>1, <2>2, VacateType, ReplyType DEF Leave, TypeOK, Letters
  <2>4. \A id \in DOMAIN lobbies' : SeatsOf(lobbies'[id]) # {}
    BY <2>1, <2>2, VacateCounted
  <2>5. Cardinality(DOMAIN lobbies') <= lobbiesCount
    <3>1. Cardinality(DOMAIN lobbies') \in Nat
      BY <2>3, IdsFinite DEF TypeOK
    <3>2. \/ Cardinality(DOMAIN lobbies') <= lobbiesCount - 1
          \/ Cardinality(DOMAIN lobbies') <= lobbiesCount
      BY <2>1, <2>2, VacateCounted
    <3>3. lobbiesCount \in 0 .. MaxLobbies
      BY <1>1 DEF TypeOK
    <3> QED
      BY <3>1, <3>2, <3>3, ServerAssumption
  <2> QED
    BY <1>4, <2>3, <2>4, <2>5 DEF Leave, TypeInv, LobbiesCounted
<1>5. CASE QuitLobby(p)
  <2>1. Forget(p, clentData) \in [Seats -> Clients]
    BY <1>1, ForgetType DEF TypeOK
  <2>2. HasLobby(p) /\ Vacate(p, Forget(p, clentData))
    BY <1>5 DEF QuitLobby
  <2>3. /\ DOMAIN lobbies' \subseteq Ids
        /\ lobbies' \in [DOMAIN lobbies' -> Lobbies]
        /\ clentData' \in [Seats -> Clients]
    BY <1>1, <2>1, <2>2, VacateType
  <2>4. /\ \A id \in DOMAIN lobbies' : SeatsOf(lobbies'[id]) # {}
        /\ IF IsEmpty(RemoveParticipant(LobbyOf(p), p))
           THEN Cardinality(DOMAIN lobbies') <= lobbiesCount - 1
           ELSE Cardinality(DOMAIN lobbies') <= lobbiesCount
    BY <2>1, <2>2, VacateCounted
  <2>5. Cardinality(DOMAIN lobbies') \in Nat
    BY <2>3, IdsFinite
  <2>6. Cardinality(DOMAIN lobbies') <= lobbiesCount'
    BY <1>5, <2>4 DEF QuitLobby
  <2>7. lobbiesCount' \in 0 .. MaxLobbies
    <3>1. lobbiesCount \in 0 .. MaxLobbies
      BY <1>1 DEF TypeOK
    <3>2. lobbiesCount' = IF IsEmpty(RemoveParticipant(LobbyOf(p), p))
                          THEN lobbiesCount - 1 ELSE lobbiesCount
      BY <1>5 DEF QuitLobby
    <3> QED
      BY <2>4, <2>5, <3>1, <3>2, ServerAssumption
  <2>8. session' \in [Participants -> Lives]
    BY <1>1, <1>5, StopReadingType DEF QuitLobby
  <2>9. TypeOK'
    BY <1>1, <1>5, <2>3, <2>7, <2>8, ReplyType DEF QuitLobby, TypeOK, Letters
  <2> QED
    BY <2>4, <2>6, <2>9 DEF TypeInv, LobbiesCounted
<1> QED
  BY <1>2, <1>3, <1>4, <1>5 DEF HandleMessageLobby

LEMMA FollowDeadLobbyTypeInv ==
    ASSUME TypeInv, NEW p \in Participants, FollowDeadLobby(p)
    PROVE  TypeInv'
<1>1. TypeOK'
  BY EmptyMailType DEF FollowDeadLobby, TypeInv, TypeOK
<1> QED
  BY <1>1, CountedIfSeatsKept, SameLobbiesKeepSeats DEF FollowDeadLobby, TypeInv

-----------------------------------------------------------------------------
(* The handlers of a session: none of them gives or takes a seat. *)

LEMMA PlaceShipTypeInv ==
    ASSUME TypeInv, NEW p \in Participants, NEW s \in Placements, PlaceShip(p, s)
    PROVE  TypeInv' /\ SeatsKept
<1> DEFINE lobby == LobbyOf(p)
           my == MyField(lobby, p)
           placed == SetMyField(lobby, p, SetShip(my, s))
<1>1. TypeOK /\ LobbiesCounted /\ HasLobby(p)
  BY DEF TypeInv, PlaceShip, Playing
<1>2. lobby \in Lobbies /\ my \in Fields
  BY <1>1, LobbyOfType, FieldOfType
<1>3. CASE CanSetShip(my, s)
  <2>1. lobbies' = SetLobby(p, placed) /\ Reply("d", p)
    BY <1>3 DEF PlaceShip
  <2>2. placed \in Lobbies /\ placed.p1 = lobby.p1 /\ placed.p2 = lobby.p2
    BY <1>2, <1>3, SetShipType, SetFieldType, FieldStepsKeepSeats
  <2>3. SeatsKept
    BY <1>1, <2>1, <2>2, SetLobbyKeepsSeats
  <2>4. DOMAIN lobbies' = DOMAIN lobbies /\ lobbies' \in [DOMAIN lobbies -> Lobbies]
    BY <1>1, <2>1, <2>2, SetLobbyType
  <2>5. TypeOK'
    BY <1>1, <2>1, <2>4, ReplyType DEF TypeOK, PlaceShip, Letters
  <2> QED
    BY <1>1, <2>3, <2>5, CountedIfSeatsKept DEF PlaceShip, TypeInv
<1>4. CASE ~CanSetShip(my, s)
  <2>1. Reply("f", p) /\ UNCHANGED lobbies
    BY <1>4 DEF PlaceShip
  <2>2. TypeOK'
    BY <1>1, <2>1, ReplyType DEF TypeOK, PlaceShip, Letters
  <2> QED
    BY <1>1, <2>1, <2>2, CountedIfSeatsKept, SameLobbiesKeepSeats DEF PlaceShip, TypeInv
<1> QED
  BY <1>3, <1>4

LEMMA ReadyToPlayTypeInv ==
    ASSUME TypeInv, NEW p \in Participants, ReadyToPlay(p)
    PROVE  TypeInv' /\ SeatsKept
<1> DEFINE old == LobbyOf(p)
           lobby == MarkReady(old, p)
<1>1. TypeOK /\ LobbiesCounted /\ HasLobby(p)
  BY DEF TypeInv, ReadyToPlay, Playing
<1>2. old \in Lobbies
  BY <1>1, LobbyOfType
<1>3. lobby \in Lobbies /\ lobby.p1 = old.p1 /\ lobby.p2 = old.p2
  BY <1>2, GameStepType, GameStepsKeepSeats
<1>4. CASE lobby.ready1 /\ lobby.ready2
  <2>1. PICK turn \in Turns :
            LET started == [lobby EXCEPT !.state = turn]
                first == Mover(started)
                second == IF turn = "turn_1" THEN lobby.p2 ELSE lobby.p1
            IN  /\ lobbies' = SetLobby(p, started)
                /\ sendMsg' = Say("s")
                /\ Deliver(WriteMsg(Say("f"), first) \o WriteMsg(Say("s"), second))
    BY <1>4 DEF ReadyToPlay
  <2> DEFINE started == [lobby EXCEPT !.state = turn]
             first == Mover(started)
             second == IF turn = "turn_1" THEN lobby.p2 ELSE lobby.p1
  <2>2. /\ started \in Lobbies
        /\ started.p1 = old.p1 /\ started.p2 = old.p2
        /\ first \in Seats /\ second \in Seats
    BY <1>3, <2>1 DEF Lobbies, Turns, GameStates, Mover
  <2>3. lobbies' = SetLobby(p, started)
    BY <2>1
  <2>4. SeatsKept
    BY <1>1, <2>2, <2>3, SetLobbyKeepsSeats
  <2>5. DOMAIN lobbies' = DOMAIN lobbies /\ lobbies' \in [DOMAIN lobbies -> Lobbies]
    BY <1>1, <2>2, <2>3, SetLobbyType
  <2>6. Say("f") \in Messages /\ Say("s") \in Messages /\ sendMsg' = Say("s")
    BY <2>1, SayType DEF Letters
  <2>7. WriteMsg(Say("f"), first) \o WriteMsg(Say("s"), second) \in Seq(Mail)
    BY <2>2, <2>6, MailType, ConcatProperties
  <2>8. sent' \in Seq(Mail) /\ fault' \in {"none", "session", "lobby"}
    BY <2>1, <2>7, DeliverType
  <2>9. TypeOK'
    BY <1>1, <2>5, <2>6, <2>8 DEF TypeOK, ReadyToPlay
  <2> QED
    BY <1>1, <2>4, <2>9, CountedIfSeatsKept DEF ReadyToPlay, TypeInv
<1>5. CASE ~(lobby.ready1 /\ lobby.ready2)
  <2>1. lobbies' = SetLobby(p, lobby) /\ sent' = <<>> /\ UNCHANGED <<sendMsg, fault>>
    BY <1>5 DEF ReadyToPlay
  <2>2. SeatsKept
    BY <1>1, <1>3, <2>1, SetLobbyKeepsSeats
  <2>3. DOMAIN lobbies' = DOMAIN lobbies /\ lobbies' \in [DOMAIN lobbies -> Lobbies]
    BY <1>1, <1>3, <2>1, SetLobbyType
  <2>4. TypeOK'
    BY <1>1, <2>1, <2>3, EmptyMailType DEF TypeOK, ReadyToPlay
  <2> QED
    BY <1>1, <2>2, <2>4, CountedIfSeatsKept DEF ReadyToPlay, TypeInv
<1> QED
  BY <1>4, <1>5

LEMMA ShootTypeInv ==
    ASSUME TypeInv, NEW p \in Participants, NEW c \in Cells, Shoot(p, c)
    PROVE  TypeInv' /\ SeatsKept
<1> DEFINE lobby == LobbyOf(p)
           target == TargetField(lobby, p)
           answer == ShotAnswer(target, c)
           hit == SetTargetField(lobby, p, ShotField(target, c))
           new == IF answer = "m" THEN SwapState(hit, p) ELSE hit
<1>1. TypeOK /\ LobbiesCounted /\ HasLobby(p)
  BY DEF TypeInv, Shoot, Playing
<1>2. lobby \in Lobbies /\ target \in Fields
  BY <1>1, LobbyOfType, FieldOfType
<1>3. hit \in Lobbies /\ hit.p1 = lobby.p1 /\ hit.p2 = lobby.p2
  BY <1>2, ShotFieldType, SetFieldType, FieldStepsKeepSeats
<1>4. new \in Lobbies /\ new.p1 = lobby.p1 /\ new.p2 = lobby.p2
  BY <1>3, GameStepType, GameStepsKeepSeats
<1>5. lobbies' = SetLobby(p, new) /\ Announce(Answer(answer, c), lobby)
  BY DEF Shoot
<1>6. Answer(answer, c) \in Messages
  BY AnswerType, ShotAnswerType DEF Letters
<1>7. SeatsKept
  BY <1>1, <1>4, <1>5, SetLobbyKeepsSeats
<1>8. DOMAIN lobbies' = DOMAIN lobbies /\ lobbies' \in [DOMAIN lobbies -> Lobbies]
  BY <1>1, <1>4, <1>5, SetLobbyType
<1>9. TypeOK'
  BY <1>1, <1>2, <1>5, <1>6, <1>8, AnnounceType DEF TypeOK, Shoot
<1> QED
  BY <1>1, <1>7, <1>9, CountedIfSeatsKept DEF Shoot, TypeInv

LEMMA WinTypeInv ==
    ASSUME TypeInv, NEW p \in Participants, NEW c \in Cells, Win(p, c)
    PROVE  TypeInv' /\ SeatsKept
<1> DEFINE lobby == LobbyOf(p)
           enemy == GetEnemy(lobby, p)
           target == TargetField(lobby, p)
           theirs == clentData[enemy].lobby
           shot == SetTargetField(lobby, p, ShotField(target, c))
           won == ResetReady(EndGame(shot))
<1>1. TypeOK /\ LobbiesCounted /\ HasLobby(p)
  BY DEF TypeInv, Win, Playing
<1>2. lobby \in Lobbies /\ target \in Fields /\ enemy \in Seats
  BY <1>1, LobbyOfType, FieldOfType, SeatType
<1>3. shot \in Lobbies /\ shot.p1 = lobby.p1 /\ shot.p2 = lobby.p2
  BY <1>2, ShotFieldType, SetFieldType, FieldStepsKeepSeats
<1>4. won \in Lobbies /\ won.p1 = lobby.p1 /\ won.p2 = lobby.p2
  BY <1>3, GameStepType, GameStepsKeepSeats
<1>5. CASE theirs \in DOMAIN lobbies
  <2>1. /\ lobbies' = [id \in DOMAIN lobbies |->
                          IF id = clentData[p].lobby THEN won
                          ELSE IF id = theirs THEN EndGame(lobbies[id])
                          ELSE lobbies[id]]
        /\ clentData' = [clentData EXCEPT ![p].isReady = FALSE, ![enemy].isReady = FALSE]
        /\ Announce(Answer("g", c), lobby)
    BY <1>5 DEF Win
  <2>2. \A id \in DOMAIN lobbies :
            /\ EndGame(lobbies[id]) \in Lobbies
            /\ EndGame(lobbies[id]).p1 = lobbies[id].p1
            /\ EndGame(lobbies[id]).p2 = lobbies[id].p2
    BY <1>1, GameStepType, GameStepsKeepSeats DEF TypeOK
  <2>3. DOMAIN lobbies' = DOMAIN lobbies /\ lobbies' \in [DOMAIN lobbies -> Lobbies]
    <3> HIDE DEF won, theirs
    <3> QED
      BY <1>1, <1>4, <2>1, <2>2 DEF TypeOK
  <2>4. SeatsKept
    <3> HIDE DEF won, theirs
    <3> QED
      BY <1>1, <1>4, <2>1, <2>2 DEF SeatsKept, LobbyOf
  <2>5. clentData' \in [Seats -> Clients]
    <3> DEFINE one == [clentData EXCEPT ![p].isReady = FALSE]
    <3>1. one \in [Seats -> Clients]
      BY <1>1 DEF TypeOK, Clients, Seats
    <3>2. clentData' = [one EXCEPT ![enemy].isReady = FALSE]
      BY <2>1
    <3> HIDE DEF one, enemy
    <3> QED
      BY <1>2, <3>1, <3>2 DEF Clients
  <2>6. Answer("g", c) \in Messages
    BY AnswerType DEF Letters
  <2>7. sendMsg' \in Messages /\ sent' \in Seq(Mail) /\ fault' \in {"none", "session", "lobby"}
    BY <1>2, <2>1, <2>6, AnnounceType
  <2>8. TypeOK'
    BY <1>1, <2>3, <2>5, <2>7 DEF TypeOK, Win
  <2> QED
    BY <1>1, <2>4, <2>8, CountedIfSeatsKept DEF Win, TypeInv
<1>6. CASE theirs \notin DOMAIN lobbies
  <2>1. fault' = "lobby" /\ sent' = <<>> /\ UNCHANGED <<lobbies, clentData, sendMsg>>
    BY <1>6 DEF Win
  <2>2. TypeOK'
    BY <1>1, <2>1, EmptyMailType DEF TypeOK, Win
  <2> QED
    BY <1>1, <2>1, <2>2, CountedIfSeatsKept, SameLobbiesKeepSeats DEF Win, TypeInv
<1> QED
  BY <1>5, <1>6

LEMMA ContinueTypeInv ==
    ASSUME TypeInv, NEW p \in Participants, Continue(p)
    PROVE  TypeInv' /\ SeatsKept
<1> DEFINE lobby == LobbyOf(p)
           clients == [clentData EXCEPT ![p].state = "lobby"]
           again == [lobby EXCEPT !.state = "preparation"]
<1>1. TypeOK /\ LobbiesCounted /\ HasLobby(p)
  BY DEF TypeInv, Continue, Playing
<1>2. lobby \in Lobbies
  BY <1>1, LobbyOfType
<1>3. again \in Lobbies /\ again.p1 = lobby.p1 /\ again.p2 = lobby.p2
  BY <1>2, GameStepType DEF Lobbies
<1>4. clients \in [Seats -> Clients]
  BY <1>1 DEF TypeOK, Clients, ClientStates, Seats
<1>5. clentData' \in [Seats -> Clients]
  <2>1. clentData' = [clients EXCEPT ![p].isReady = FALSE]
    BY DEF Continue
  <2> HIDE DEF clients
  <2> QED
    BY <1>4, <2>1 DEF Clients, Seats
<1>6. lobbies' = SetLobby(p, again) \/ lobbies' = lobbies
  BY DEF Continue
<1>7. SeatsKept
  BY <1>1, <1>3, <1>6, SetLobbyKeepsSeats, SameLobbiesKeepSeats
<1>8. DOMAIN lobbies' = DOMAIN lobbies /\ lobbies' \in [DOMAIN lobbies -> Lobbies]
  BY <1>1, <1>3, <1>6, SetLobbyType DEF TypeOK
<1>9. TypeOK'
  BY <1>1, <1>5, <1>8, ReplyType DEF TypeOK, Continue, Letters
<1> QED
  BY <1>1, <1>7, <1>9, CountedIfSeatsKept DEF Continue, TypeInv

LEMMA HandleMessageSessionTypeInv ==
    ASSUME TypeInv, NEW p \in Participants, HandleMessageSession(p)
    PROVE  TypeInv' /\ SeatsKept
<1>1. TypeOK /\ LobbiesCounted
  BY DEF TypeInv
<1>2. CASE \E s \in Placements : PlaceShip(p, s)
  BY <1>2, PlaceShipTypeInv
<1>3. CASE ReadyToPlay(p)
  BY <1>3, ReadyToPlayTypeInv
<1>4. CASE \E c \in Cells : RepeatShot(p, c)
  <2>1. TypeOK'
    BY <1>1, <1>4, ReplyType DEF RepeatShot, TypeOK, Letters
  <2> QED
    BY <1>1, <1>4, <2>1, CountedIfSeatsKept, SameLobbiesKeepSeats DEF RepeatShot, TypeInv
<1>5. CASE \E c \in Cells : Shoot(p, c)
  BY <1>5, ShootTypeInv
<1>6. CASE \E c \in Cells : Win(p, c)
  BY <1>6, WinTypeInv
<1>7. CASE WrongTurn(p)
  <2>1. TypeOK'
    BY <1>1, <1>7, ReplyType DEF WrongTurn, TypeOK, Letters
  <2> QED
    BY <1>1, <1>7, <2>1, CountedIfSeatsKept, SameLobbiesKeepSeats DEF WrongTurn, TypeInv
<1>8. CASE Rebroadcast(p)
  <2>1. LobbyOf(p) \in Lobbies
    BY <1>1, <1>8, LobbyOfType DEF Rebroadcast, Playing
  <2>2. sent' \in Seq(Mail) /\ fault' \in {"none", "session", "lobby"}
    BY <1>1, <1>8, <2>1, WriteLobbyType, DeliverType DEF Rebroadcast, TypeOK
  <2>3. TypeOK'
    BY <1>1, <1>8, <2>2 DEF Rebroadcast, TypeOK
  <2> QED
    BY <1>1, <1>8, <2>3, CountedIfSeatsKept, SameLobbiesKeepSeats DEF Rebroadcast, TypeInv
<1>9. CASE Continue(p)
  BY <1>9, ContinueTypeInv
<1>10. CASE Unexpected(p)
  <2>1. clentData' \in [Seats -> Clients] /\ session' \in [Participants -> Lives]
    BY <1>1, <1>10, ForgetType, StopReadingType DEF Unexpected, TypeOK
  <2>2. TypeOK'
    BY <1>1, <1>10, <2>1, ReplyType DEF Unexpected, TypeOK, Letters
  <2> QED
    BY <1>1, <1>10, <2>2, CountedIfSeatsKept, SameLobbiesKeepSeats DEF Unexpected, TypeInv
<1> QED
  BY <1>2, <1>3, <1>4, <1>5, <1>6, <1>7, <1>8, <1>9, <1>10 DEF HandleMessageSession

LEMMA NextTypeInv == TypeInv /\ [Next]_vars => TypeInv'
<1> SUFFICES ASSUME TypeInv, [Next]_vars PROVE TypeInv'
  OBVIOUS
<1>1. CASE UNCHANGED vars
  BY <1>1 DEF TypeInv, TypeOK, LobbiesCounted, vars
<1>2. CASE Next
  <2>1. PICK p \in Participants :
            \/ SessionEvent(p)
            \/ HandleMessageConnected(p)
            \/ HandleMessageLobby(p)
            \/ HandleMessageSession(p)
            \/ FollowDeadLobby(p)
    BY <1>2 DEF Next
  <2> QED
    BY <2>1, SessionEventTypeInv, HandleMessageConnectedTypeInv, HandleMessageLobbyTypeInv,
       HandleMessageSessionTypeInv, FollowDeadLobbyTypeInv
<1> QED
  BY <1>1, <1>2

LEMMA AlwaysTypeInv == Spec => []TypeInv
BY InitTypeInv, NextTypeInv, PTL DEF Spec

(* Every variable keeps its type: the count of lobbies never falls below zero
   although only some ways of leaving take one off. *)
THEOREM ServerTypeCorrect == Spec => []TypeOK
<1>1. TypeInv => TypeOK
  BY DEF TypeInv
<1> QED
  BY AlwaysTypeInv, <1>1, PTL

(* There are never more lobbies than counted, and none without a player. *)
THEOREM ServerLobbiesCounted == Spec => []LobbiesCounted
<1>1. TypeInv => LobbiesCounted
  BY DEF TypeInv
<1> QED
  BY AlwaysTypeInv, <1>1, PTL

-----------------------------------------------------------------------------
(* How sessions live: a step changes the life of one session at most. *)

LEMMA OthersLive ==
    ASSUME NEW q \in Participants, NEW life, session \in [Participants -> Lives],
           session' = [session EXCEPT ![q] = life],
           [L(q)!LifeNext]_(session[q])
    PROVE  \A p \in Participants : [L(p)!LifeNext]_(session[p])
<1> SUFFICES ASSUME NEW p \in Participants PROVE [L(p)!LifeNext]_(session[p])
  OBVIOUS
<1>1. CASE p = q
  BY <1>1
<1>2. CASE p # q
  BY <1>2
<1> QED
  BY <1>1, <1>2

(* Reading stops in a session that the server read from. *)
LEMMA StopLives ==
    ASSUME NEW q \in Participants, NEW writing \in BOOLEAN,
           session \in [Participants -> Lives],
           session[q] \in {"open", "detached"}, StopReading(q, writing)
    PROVE  \A p \in Participants : [L(p)!LifeNext]_(session[p])
<1> DEFINE life == IF writing /\ session[q] = "open" THEN "flushing" ELSE "freed"
<1>1. session' = [session EXCEPT ![q] = life]
  BY DEF StopReading
<1>2. session'[q] = life
  BY <1>1
<1>3. L(q)!Stop
  BY <1>2 DEF L!Stop
<1> QED
  BY <1>1, <1>3, OthersLive DEF L!LifeNext

LEMMA NextLives ==
    ASSUME TypeOK, [Next]_vars
    PROVE  \A p \in Participants : [L(p)!LifeNext]_(session[p])
<1>1. session \in [Participants -> Lives]
  BY DEF TypeOK
<1>2. CASE UNCHANGED session
  BY <1>2
<1>3. ASSUME NEW q \in Participants, Connect(q)
      PROVE  \A p \in Participants : [L(p)!LifeNext]_(session[p])
  <2>1. session' = [session EXCEPT ![q] = "open"]
    BY <1>3 DEF Connect
  <2>2. L(q)!Begin
    BY <1>1, <1>3, <2>1 DEF Connect, L!Begin
  <2> QED
    BY <1>1, <2>1, <2>2, OthersLive DEF L!LifeNext
<1>4. ASSUME NEW q \in Participants, ReadError(q)
      PROVE  \A p \in Participants : [L(p)!LifeNext]_(session[p])
  BY <1>1, <1>4, StopLives DEF ReadError
<1>5. ASSUME NEW q \in Participants, WriteError(q)
      PROVE  \A p \in Participants : [L(p)!LifeNext]_(session[p])
  <2> DEFINE life == IF session[q] = "open" THEN "detached" ELSE "freed"
  <2>1. session' = [session EXCEPT ![q] = life] /\ session[q] \in {"open", "flushing"}
    BY <1>5 DEF WriteError
  <2>2. L(q)!Lose
    BY <1>1, <2>1 DEF L!Lose
  <2> QED
    BY <1>1, <2>1, <2>2, OthersLive DEF L!LifeNext
<1>6. ASSUME NEW q \in Participants, Flushed(q)
      PROVE  \A p \in Participants : [L(p)!LifeNext]_(session[p])
  <2>1. session' = [session EXCEPT ![q] = "freed"] /\ session[q] = "flushing"
    BY <1>6 DEF Flushed
  <2>2. L(q)!Release
    BY <1>1, <2>1 DEF L!Release
  <2> QED
    BY <1>1, <2>1, <2>2, OthersLive DEF L!LifeNext
<1>7. ASSUME NEW q \in Participants, QuitConnected(q) \/ QuitLobby(q) \/ Unexpected(q)
      PROVE  \A p \in Participants : [L(p)!LifeNext]_(session[p])
  <2>1. UNCHANGED session \/ StopReading(q, TRUE)
    BY <1>7 DEF QuitConnected, QuitLobby, Unexpected
  <2>2. session[q] \in {"open", "detached"}
    BY <1>7 DEF QuitConnected, QuitLobby, Unexpected, Playing, Handling
  <2> QED
    BY <1>1, <1>2, <2>1, <2>2, StopLives
<1>8. ASSUME NEW q \in Participants, HandleMessageConnected(q), ~QuitConnected(q)
      PROVE  UNCHANGED session
  BY <1>8 DEF HandleMessageConnected, Create, Join, ConnectTo, Enter, Refuse, List
<1>9. ASSUME NEW q \in Participants, HandleMessageLobby(q), ~QuitLobby(q)
      PROVE  UNCHANGED session
  BY <1>9 DEF HandleMessageLobby, ReadyInLobby, Unready, Leave
<1>10. ASSUME NEW q \in Participants, HandleMessageSession(q), ~Unexpected(q)
       PROVE  UNCHANGED session
  BY <1>10
  DEF HandleMessageSession, PlaceShip, ReadyToPlay, RepeatShot, Shoot, Win, WrongTurn,
      Rebroadcast, Continue
<1>11. ASSUME NEW q \in Participants, FollowDeadLobby(q)
       PROVE  UNCHANGED session
  BY <1>11 DEF FollowDeadLobby
<1>12. CASE UNCHANGED vars
  BY <1>2, <1>12 DEF vars
<1>13. CASE Next
  BY <1>2, <1>3, <1>4, <1>5, <1>6, <1>7, <1>8, <1>9, <1>10, <1>11, <1>13
  DEF Next, SessionEvent
<1> QED
  BY <1>12, <1>13

(* However many players come and go, every session lives as one BoostSession does: what
   SessionProofs shows of the class is all that the server does to it. *)
THEOREM ServerSessionsLive == Spec => SessionsLive
<1>1. TypeOK /\ [Next]_vars => [\A p \in Participants : [L(p)!LifeNext]_(session[p])]_vars
  BY NextLives
<1> QED
  BY ServerTypeCorrect, <1>1, PTL DEF Spec, SessionsLive
-----------------------------------------------------------------------------
(* Who sits where: the pointers from a player's record to a lobby and from a
   lobby's seats to the players, when connections may end at any time but
   no write fails while a read is pending and no address is used twice. *)

(* GoneAreForgotten, under all mishaps: a step changes the record of a player who
   reads on, or puts the default record in its place. *)
Spared(q) ==
    \/ clentData'[q] = SharedClient
    \/ q \in Participants /\ session'[q] \in {"open", "detached"}
    \/ clentData'[q] = clentData[q] /\ (q # NoOne => session'[q] = session[q])

LEMMA SparedAreForgotten ==
    ASSUME GoneAreForgotten, \A q \in Seats : Spared(q)
    PROVE  GoneAreForgotten'
BY ServerAssumption DEF GoneAreForgotten, Spared, Seats

(* A step that leaves all records and sessions but those of a reader alone. *)
LEMMA ReaderSpared ==
    ASSUME NEW p \in Participants, session[p] \in {"open", "detached"}, UNCHANGED session,
           \A q \in Seats : q # p => clentData'[q] = clentData[q]
    PROVE  \A q \in Seats : Spared(q)
BY DEF Spared

LEMMA StopSpared ==
    ASSUME TypeOK, NEW p \in Participants, clentData' = Forget(p, clentData),
           \A q \in Participants : q # p => session'[q] = session[q]
    PROVE  \A q \in Seats : Spared(q)
BY DEF Spared, Forget, TypeOK, Seats

LEMMA ReadyInLobbySpared ==
    ASSUME TypeOK, GoneAreForgotten, NEW p \in Participants, ReadyInLobby(p)
    PROVE  \A q \in Seats : Spared(q)
<1> DEFINE enemy == GetEnemy(LobbyOf(p), p)
           clients == [clentData EXCEPT ![p].isReady = TRUE]
<1>1. session[p] \in {"open", "detached"} /\ UNCHANGED session
  BY DEF ReadyInLobby, Handling
<1>2. \A q \in Seats : q # p => clients[q] = clentData[q]
  BY DEF TypeOK
<1>3. clients \in [Seats -> Clients]
  BY DEF TypeOK, Clients, Seats
<1>4. CASE ~clients[enemy].isReady
  <2>1. clentData' = clients
    BY <1>4 DEF ReadyInLobby
  <2> QED
    BY <1>1, <1>2, <2>1, ReaderSpared
<1>5. CASE clients[enemy].isReady
  <2>1. clentData' = [clients EXCEPT ![p].state = "session", ![enemy].state = "session"]
    BY <1>5 DEF ReadyInLobby
  <2>2. \A q \in Seats : q \notin {p, enemy} => clentData'[q] = clentData[q]
    <3> HIDE DEF clients, enemy
    <3> QED
      BY <1>2, <1>3, <2>1
  <2>3. \A q \in Seats : q # p /\ clentData[q] = SharedClient => q # enemy
    BY <1>2, <1>5 DEF SharedClient
  <2>4. ASSUME NEW q \in Seats PROVE Spared(q)
    <3>1. CASE q = p
      BY <1>1, <3>1 DEF Spared
    <3>2. CASE q # p /\ q # enemy
      BY <1>1, <2>2, <3>2 DEF Spared
    <3>3. CASE q # p /\ q = enemy
      BY <1>1, <2>3, <3>3 DEF Spared, GoneAreForgotten, Seats
    <3> QED
      BY <3>1, <3>2, <3>3
  <2> QED
    BY <2>4
<1> QED
  BY <1>4, <1>5

(* Records that point at the erased lobby are not the default one. *)
LEMMA VacateSpared ==
    ASSUME TypeOK, GoneAreForgotten, NEW p \in Participants, HasLobby(p),
           NEW clients, Vacate(p, clients),
           \/ clients[p] = SharedClient
           \/ session'[p] \in {"open", "detached"},
           \A q \in Seats : q # p => clients[q] = clentData[q],
           \A q \in Participants : q # p => session'[q] = session[q]
    PROVE  \A q \in Seats : Spared(q)
<1>1. clentData[p].lobby # SharedClient.lobby
  BY ServerAssumption DEF TypeOK, HasLobby, SharedClient
<1>2. \A q \in Seats : clients[q].lobby # clentData[p].lobby => clentData'[q] = clients[q]
  BY DEF Vacate
<1>3. ASSUME NEW q \in Seats PROVE Spared(q)
  <2>1. CASE q = p
    BY <1>1, <1>2, <2>1 DEF Spared
  <2>2. CASE q # p /\ clients[q] = SharedClient
    BY <1>1, <1>2, <2>2 DEF Spared
  <2>3. CASE q # p /\ clients[q] # SharedClient
    BY <2>3 DEF Spared, GoneAreForgotten, Seats
  <2> QED
    BY <2>1, <2>2, <2>3
<1> QED
  BY <1>3

LEMMA WinSpared ==
    ASSUME TypeOK, GoneAreForgotten, NEW p \in Participants, NEW c \in Cells, Win(p, c)
    PROVE  \A q \in Seats : Spared(q)
<1> DEFINE enemy == GetEnemy(LobbyOf(p), p)
           one == [clentData EXCEPT ![p].isReady = FALSE]
<1>1. session[p] \in {"open", "detached"} /\ UNCHANGED session
  BY DEF Win, Playing, Handling
<1>2. clentData' = clentData \/ clentData' = [one EXCEPT ![enemy].isReady = FALSE]
  BY DEF Win
<1>3. one \in [Seats -> Clients] /\ \A q \in Seats : q # p => one[q] = clentData[q]
  BY DEF TypeOK, Clients, Seats
<1>4. \A r \in Clients : r.isReady = FALSE => [r EXCEPT !.isReady = FALSE] = r
  BY DEF Clients
<1>5. SharedClient.isReady = FALSE
  BY DEF SharedClient
<1> HIDE DEF one, enemy
<1>6. ASSUME NEW q \in Seats, q # p, clentData[q] = SharedClient
      PROVE  clentData'[q] = SharedClient
  <2>1. one[q] = SharedClient /\ one[q] \in Clients
    BY <1>3, <1>6
  <2> QED
    BY <1>2, <1>3, <1>4, <1>5, <1>6, <2>1
<1>7. ASSUME NEW q \in Seats PROVE Spared(q)
  BY <1>1, <1>6 DEF Spared, GoneAreForgotten, Seats
<1> QED
  BY <1>7

LEMMA NextGoneAreForgotten ==
    ASSUME TypeOK, GoneAreForgotten, [Next]_vars
    PROVE  GoneAreForgotten'
<1>1. CASE UNCHANGED vars
  BY <1>1 DEF vars, GoneAreForgotten
<1>2. ASSUME NEW p \in Participants, SessionEvent(p)
      PROVE  \A q \in Seats : Spared(q)
  <2>1. CASE Connect(p)
    BY <2>1 DEF Connect, Spared, TypeOK, Seats
  <2>2. CASE ReadError(p) \/ WriteError(p)
    <3>1. /\ clentData' = Forget(p, clentData)
          /\ \A q \in Participants : q # p => session'[q] = session[q]
      BY <2>2 DEF ReadError, WriteError, StopReading, TypeOK
    <3> QED
      BY <3>1, StopSpared
  <2>3. CASE Flushed(p)
    BY <2>3 DEF Flushed, Spared, TypeOK, Seats, GoneAreForgotten
  <2> QED
    BY <1>2, <2>1, <2>2, <2>3 DEF SessionEvent
<1>3. ASSUME NEW p \in Participants, HandleMessageConnected(p)
      PROVE  \A q \in Seats : Spared(q)
  <2>1. session[p] \in {"open", "detached"}
    BY <1>3 DEF HandleMessageConnected, Create, Join, ConnectTo, Refuse, List, QuitConnected,
       Handling
  <2>2. CASE QuitConnected(p)
    <3>1. /\ clentData' = Forget(p, clentData)
          /\ \A q \in Participants : q # p => session'[q] = session[q]
      BY <2>2 DEF QuitConnected, StopReading, TypeOK
    <3> QED
      BY <3>1, StopSpared
  <2>3. CASE ~QuitConnected(p)
    <3>1. UNCHANGED session /\ (UNCHANGED clentData \/ \E id : EnterLobby(p, id))
      BY <1>3, <2>3 DEF HandleMessageConnected, Create, Join, ConnectTo, Refuse, List, Enter
    <3>2. \A q \in Seats : q # p => clentData'[q] = clentData[q]
      BY <3>1 DEF EnterLobby, TypeOK
    <3> QED
      BY <2>1, <3>1, <3>2, ReaderSpared
  <2> QED
    BY <2>2, <2>3
<1>4. ASSUME NEW p \in Participants, HandleMessageLobby(p)
      PROVE  \A q \in Seats : Spared(q)
  <2>1. session[p] \in {"open", "detached"}
    BY <1>4 DEF HandleMessageLobby, ReadyInLobby, Unready, Leave, QuitLobby, Handling
  <2>2. CASE ReadyInLobby(p)
    BY <2>2, ReadyInLobbySpared
  <2>3. CASE Unready(p)
    BY <2>1, <2>3, ReaderSpared DEF Unready, TypeOK
  <2>4. CASE Leave(p)
    <3> DEFINE clients == [clentData EXCEPT ![p].state = "connected"]
    <3>1. HasLobby(p) /\ Vacate(p, clients) /\ UNCHANGED session
      BY <2>4 DEF Leave
    <3>2. \A q \in Seats : q # p => clients[q] = clentData[q]
      BY DEF TypeOK
    <3> HIDE DEF clients
    <3> QED
      BY <2>1, <3>1, <3>2, VacateSpared
  <2>5. CASE QuitLobby(p)
    <3> DEFINE clients == Forget(p, clentData)
    <3>1. HasLobby(p) /\ Vacate(p, clients)
      BY <2>5 DEF QuitLobby
    <3>2. clients[p] = SharedClient /\ \A q \in Seats : q # p => clients[q] = clentData[q]
      BY DEF TypeOK, Forget, Seats
    <3>3. \A q \in Participants : q # p => session'[q] = session[q]
      BY <2>5 DEF QuitLobby, StopReading, TypeOK
    <3> HIDE DEF clients
    <3> QED
      BY <3>1, <3>2, <3>3, VacateSpared
  <2> QED
    BY <1>4, <2>2, <2>3, <2>4, <2>5 DEF HandleMessageLobby
<1>5. ASSUME NEW p \in Participants, HandleMessageSession(p)
      PROVE  \A q \in Seats : Spared(q)
  <2>1. session[p] \in {"open", "detached"}
    BY <1>5 DEF HandleMessageSession, Playing, PlaceShip, ReadyToPlay, RepeatShot,
       Shoot, Win, WrongTurn, Rebroadcast, Continue, Unexpected, Handling
  <2>2. CASE \/ \E s \in Placements : PlaceShip(p, s)
             \/ ReadyToPlay(p)
             \/ \E c \in Cells : RepeatShot(p, c) \/ Shoot(p, c)
             \/ WrongTurn(p)
             \/ Rebroadcast(p)
    <3>1. UNCHANGED <<clentData, session>>
      BY <2>2 DEF PlaceShip, ReadyToPlay, RepeatShot, Shoot, WrongTurn, Rebroadcast
    <3> QED
      BY <2>1, <3>1, ReaderSpared
  <2>3. CASE \E c \in Cells : Win(p, c)
    BY <2>3, WinSpared
  <2>4. CASE Continue(p)
    <3>1. UNCHANGED session /\ \A q \in Seats : q # p => clentData'[q] = clentData[q]
      BY <2>4 DEF Continue, TypeOK
    <3> QED
      BY <2>1, <3>1, ReaderSpared
  <2>5. CASE Unexpected(p)
    <3>1. CASE UNCHANGED <<clentData, session>>
      BY <2>1, <3>1, ReaderSpared
    <3>2. CASE StopReading(p, TRUE) /\ clentData' = Forget(p, clentData)
      <4>1. \A q \in Participants : q # p => session'[q] = session[q]
        BY <3>2 DEF StopReading, TypeOK
      <4> QED
        BY <3>2, <4>1, StopSpared
    <3> QED
      BY <2>5, <3>1, <3>2 DEF Unexpected
  <2> QED
    BY <1>5, <2>2, <2>3, <2>4, <2>5 DEF HandleMessageSession
<1>6. ASSUME NEW p \in Participants, FollowDeadLobby(p)
      PROVE  \A q \in Seats : Spared(q)
  BY <1>6 DEF FollowDeadLobby, Spared, Seats
<1>7. CASE Next
  <2>1. \A q \in Seats : Spared(q)
    BY <1>2, <1>3, <1>4, <1>5, <1>6, <1>7 DEF Next
  <2> QED
    BY <2>1, SparedAreForgotten
<1> QED
  BY <1>1, <1>7

LEMMA InitGoneAreForgotten == Init => GoneAreForgotten
BY DEF Init, GoneAreForgotten

(* No game is ever started with a player who is gone or was never there, whatever
   fails and whichever address is used again. *)
THEOREM ServerGoneAreForgotten == Spec => []GoneAreForgotten
<1> DEFINE Inv == TypeInv /\ GoneAreForgotten
<1>1. Init => Inv
  BY InitTypeInv, InitGoneAreForgotten
<1>2. Inv /\ [Next]_vars => Inv'
  BY NextTypeInv, NextGoneAreForgotten DEF TypeInv
<1>3. Inv => GoneAreForgotten
  OBVIOUS
<1> QED
  BY <1>1, <1>2, <1>3, PTL DEF Spec

-----------------------------------------------------------------------------
(* From here on, connections may end at any time but no write fails while a read is
   pending and no address is used twice. *)
OnlyReadErrors == Mishaps \subseteq {"read_error"}

(* Seats name only sessions that were once accepted. *)
SeatsAccepted ==
    \A id \in DOMAIN lobbies : \A q \in SeatsOf(lobbies[id]) : session[q] # "fresh"

NoneDetached == \A q \in Participants : session[q] # "detached"

(* PlayersSeated is not inductive alone.  A ready player moves his enemy to the
   session: that the enemy has a seat follows from SeatsOwned, once
   GoneAreForgotten tells that a ready enemy is still there; and that an
   accepted session sits nowhere yet is SeatsAccepted. *)
SeatInv ==
    /\ TypeInv
    /\ SeatsAccepted
    /\ NoneDetached
    /\ GoneAreForgotten
    /\ SeatsOwned
    /\ PlayersSeated

LEMMA InitSeatInv == Init => SeatInv
<1> SUFFICES ASSUME Init PROVE SeatInv
  OBVIOUS
<1>1. TypeInv
  BY InitTypeInv
<1>2. DOMAIN lobbies = {}
  BY DEF Init
<1>3. NoneDetached /\ GoneAreForgotten
  BY DEF Init, NoneDetached, GoneAreForgotten
<1>4. SeatsAccepted /\ SeatsOwned
  BY <1>2 DEF SeatsAccepted, SeatsOwned
<1>5. PlayersSeated
  BY DEF Init, PlayersSeated, Seated, SharedClient, Seats
<1> QED
  BY <1>1, <1>3, <1>4, <1>5 DEF SeatInv

-----------------------------------------------------------------------------
(* Most steps leave every seat as it is, and leave each player either as he is,
   up to readiness and the difference between lobby and session, or gone. *)
Stays(q) ==
    /\ session'[q] = session[q]
    /\ clentData'[q].lobby = clentData[q].lobby
    /\ clentData'[q].state = "connected" <=> clentData[q].state = "connected"

Goes(q) ==
    /\ session'[q] \in {"flushing", "freed"}
    /\ session[q] # "fresh"
    /\ clentData'[q] = SharedClient

SeatsUndisturbed ==
    /\ SeatsKept
    /\ idReused' = idReused
    /\ \A q \in Participants : Stays(q) \/ Goes(q)

LEMMA UndisturbedSeatInv ==
    ASSUME SeatInv, TypeInv', GoneAreForgotten', SeatsUndisturbed
    PROVE  SeatInv'
<1>1. \A id \in DOMAIN lobbies' :
          id \in DOMAIN lobbies /\ SeatsOf(lobbies'[id]) = SeatsOf(lobbies[id])
  BY DEF SeatsUndisturbed, SeatsKept, SeatsOf
<1>2. \A id \in DOMAIN lobbies : SeatsOf(lobbies[id]) \subseteq Participants
  BY DEF SeatInv, TypeInv, TypeOK, Lobbies, Seats, SeatsOf
<1>3. SeatsAccepted'
  <2> SUFFICES ASSUME NEW id \in DOMAIN lobbies', NEW q \in SeatsOf(lobbies'[id])
               PROVE  session'[q] # "fresh"
    BY DEF SeatsAccepted
  <2>1. q \in Participants /\ session[q] # "fresh"
    BY <1>1, <1>2 DEF SeatInv, SeatsAccepted
  <2> QED
    BY <2>1 DEF SeatsUndisturbed, Stays, Goes
<1>4. NoneDetached'
  BY DEF SeatInv, NoneDetached, SeatsUndisturbed, Stays, Goes
<1>5. SeatsOwned'
  <2> SUFFICES ASSUME NEW id \in DOMAIN lobbies'
               PROVE  /\ \A q \in SeatsOf(lobbies'[id]) : Open(q)' =>
                             clentData'[q].state # "connected" /\ clentData'[q].lobby = id
                      /\ lobbies'[id].p1 = lobbies'[id].p2 => lobbies'[id].p1 = NoOne
    BY DEF SeatsOwned
  <2>1. ASSUME NEW q \in SeatsOf(lobbies'[id]), Open(q)'
        PROVE  clentData'[q].state # "connected" /\ clentData'[q].lobby = id
    <3>1. q \in Participants /\ q \in SeatsOf(lobbies[id]) /\ id \in DOMAIN lobbies
      BY <1>1, <1>2
    <3>2. Stays(q)
      BY <2>1, <3>1 DEF SeatsUndisturbed, Goes, Open
    <3>3. Open(q)
      BY <2>1, <3>2 DEF Stays, Open
    <3> QED
      BY <3>1, <3>2, <3>3 DEF SeatInv, SeatsOwned, Stays
  <2>2. lobbies'[id].p1 = lobbies'[id].p2 => lobbies'[id].p1 = NoOne
    BY DEF SeatsUndisturbed, SeatsKept, SeatInv, SeatsOwned
  <2> QED
    BY <2>1, <2>2
<1>6. PlayersSeated'
  <2> SUFFICES ASSUME ~idReused', NEW q \in Participants, clentData'[q].state # "connected"
               PROVE  /\ clentData'[q].lobby \in DOMAIN lobbies'
                      /\ q \in SeatsOf(lobbies'[clentData'[q].lobby])
    BY DEF PlayersSeated, Seated
  <2>1. Stays(q)
    BY DEF SeatsUndisturbed, Goes, SharedClient
  <2>2. clentData[q].lobby \in DOMAIN lobbies /\ q \in SeatsOf(lobbies[clentData[q].lobby])
    BY <2>1 DEF SeatInv, PlayersSeated, Seated, Stays, SeatsUndisturbed
  <2> QED
    BY <1>1, <2>1, <2>2 DEF Stays, SeatsUndisturbed, SeatsKept
<1> QED
  BY <1>3, <1>4, <1>5, <1>6 DEF SeatInv

(* The sender of a message still reads. *)
LEMMA SenderOpen ==
    ASSUME SeatInv, NEW p \in Participants, NEW state, Handling(p, state)
    PROVE  session[p] = "open" /\ clentData[p].state = state
BY DEF SeatInv, NoneDetached, Handling

(* A session that stops reading is forgotten, whoever else there is. *)
LEMMA StopIsUndisturbed ==
    ASSUME SeatInv, NEW p \in Participants, session[p] = "open",
           \E writing \in BOOLEAN : StopReading(p, writing),
           clentData' = Forget(p, clentData),
           UNCHANGED <<lobbies, idReused>>
    PROVE  SeatsUndisturbed
<1>1. TypeOK
  BY DEF SeatInv, TypeInv
<1>2. SeatsKept
  BY SameLobbiesKeepSeats
<1>3. Goes(p)
  BY <1>1 DEF StopReading, Forget, Goes, TypeOK, Seats
<1>4. \A q \in Participants : q # p => Stays(q)
  BY <1>1 DEF StopReading, Forget, Stays, TypeOK, Seats
<1> QED
  BY <1>2, <1>3, <1>4 DEF SeatsUndisturbed

(* Nor does a step that only changes what is in the lobbies. *)
LEMMA SameClientsUndisturbed ==
    ASSUME SeatsKept, UNCHANGED <<clentData, session, idReused>>
    PROVE  SeatsUndisturbed
BY DEF SeatsUndisturbed, Stays

LEMMA ConnectSeatInv ==
    ASSUME SeatInv, OnlyReadErrors, NEW p \in Participants, Connect(p), TypeInv', GoneAreForgotten'
    PROVE  SeatInv'
<1>1. session[p] = "fresh"
  BY DEF Connect, OnlyReadErrors
<1>2. TypeOK
  BY DEF SeatInv, TypeInv
<1>3. /\ session' = [session EXCEPT ![p] = "open"]
      /\ clentData' = [clentData EXCEPT ![p] = SharedClient]
      /\ UNCHANGED <<lobbies, idReused>>
  BY DEF Connect
<1>4. clentData[p] = SharedClient
  BY <1>1 DEF SeatInv, GoneAreForgotten, Seats
<1>5. UNCHANGED clentData
  BY <1>2, <1>3, <1>4 DEF TypeOK, Seats
<1>6. \A id \in DOMAIN lobbies : p \notin SeatsOf(lobbies[id])
  BY <1>1 DEF SeatInv, SeatsAccepted
<1>7. \A id \in DOMAIN lobbies : SeatsOf(lobbies[id]) \subseteq Participants
  BY <1>2 DEF TypeOK, Lobbies, Seats, SeatsOf
<1>8. \A q \in Participants : q # p => session'[q] = session[q]
  BY <1>2, <1>3 DEF TypeOK
<1>9. SeatsAccepted'
  BY <1>3, <1>6, <1>7, <1>8 DEF SeatInv, SeatsAccepted
<1>10. NoneDetached'
  BY <1>2, <1>3 DEF SeatInv, NoneDetached, TypeOK
<1>11. SeatsOwned'
  BY <1>3, <1>5, <1>6, <1>7, <1>8 DEF SeatInv, SeatsOwned, Open
<1>12. PlayersSeated'
  BY <1>3, <1>5 DEF SeatInv, PlayersSeated, Seated
<1> QED
  BY <1>9, <1>10, <1>11, <1>12 DEF SeatInv

LEMMA SessionEventSeatInv ==
    ASSUME SeatInv, OnlyReadErrors, NEW p \in Participants, SessionEvent(p), TypeInv', GoneAreForgotten'
    PROVE  SeatInv'
<1>1. TypeOK
  BY DEF SeatInv, TypeInv
<1>2. CASE Connect(p)
  BY <1>2, ConnectSeatInv
<1>3. CASE ReadError(p)
  <2>1. session[p] = "open"
    BY <1>3 DEF ReadError, SeatInv, NoneDetached
  <2>2. SeatsUndisturbed
    BY <1>3, <2>1, StopIsUndisturbed DEF ReadError
  <2> QED
    BY <2>2, UndisturbedSeatInv
<1>4. CASE WriteError(p)
  BY <1>4 DEF WriteError, OnlyReadErrors
<1>5. CASE Flushed(p)
  <2>1. clentData[p] = SharedClient
    BY <1>5 DEF Flushed, SeatInv, GoneAreForgotten, Seats
  <2>2. Goes(p)
    BY <1>1, <1>5, <2>1 DEF Flushed, Goes, TypeOK
  <2>3. \A q \in Participants : q # p => Stays(q)
    BY <1>1, <1>5 DEF Flushed, Stays, TypeOK
  <2>4. SeatsKept
    BY <1>5, SameLobbiesKeepSeats DEF Flushed
  <2>5. SeatsUndisturbed
    BY <1>5, <2>2, <2>3, <2>4 DEF Flushed, SeatsUndisturbed
  <2> QED
    BY <2>5, UndisturbedSeatInv
<1> QED
  BY <1>2, <1>3, <1>4, <1>5 DEF SessionEvent

-----------------------------------------------------------------------------
(* A connected player takes a seat. *)

(* What AddParticipant does to the set of seats. *)
LEMMA AddedSeat ==
    ASSUME NEW lobby \in Lobbies, NEW p \in Participants
    PROVE  /\ HasFreeSeat(lobby) =>
                  SeatsOf(AddParticipant(lobby, p)) = SeatsOf(lobby) \cup {p}
           /\ ~HasFreeSeat(lobby) => AddParticipant(lobby, p) = lobby
           /\ (p \notin SeatsOf(lobby) /\ (lobby.p1 = lobby.p2 => lobby.p1 = NoOne)) =>
                  (AddParticipant(lobby, p).p1 = AddParticipant(lobby, p).p2 =>
                      AddParticipant(lobby, p).p1 = NoOne)
<1>1. p # NoOne
  BY ServerAssumption
<1> QED
  BY <1>1 DEF AddParticipant, SeatsOf, HasFreeSeat, Lobbies

(* Entering a lobby, new or not: the common part of create, join and connect.
   lobby is what the map held, or the empty lobby. *)
LEMMA EnteredSeatInv ==
    ASSUME SeatInv, TypeInv', GoneAreForgotten', NEW p \in Participants, NEW id, NEW lobby \in Lobbies,
           session[p] = "open", clentData[p].state = "connected",
           id \in DOMAIN lobbies => lobby = lobbies[id],
           id \notin DOMAIN lobbies => lobby = NewLobby,
           DOMAIN lobbies' = DOMAIN lobbies \cup {id},
           \A i \in DOMAIN lobbies' :
               lobbies'[i] = IF i = id THEN AddParticipant(lobby, p) ELSE lobbies[i],
           EnterLobby(p, id), UNCHANGED session,
           ~idReused' => ~idReused /\ HasFreeSeat(lobby)
    PROVE  SeatInv'
<1>1. TypeOK
  BY DEF SeatInv, TypeInv
<1>2. \A i \in DOMAIN lobbies : p \notin SeatsOf(lobbies[i])
  BY DEF SeatInv, SeatsOwned, Open
<1>3. \A i \in DOMAIN lobbies : SeatsOf(lobbies[i]) \subseteq Participants
  BY <1>1 DEF TypeOK, Lobbies, Seats, SeatsOf
<1>4. /\ SeatsOf(lobby) \subseteq Participants /\ p \notin SeatsOf(lobby)
      /\ lobby.p1 = lobby.p2 => lobby.p1 = NoOne
      /\ \A q \in SeatsOf(lobby) : /\ session[q] # "fresh"
                                   /\ Open(q) => /\ clentData[q].state # "connected"
                                                 /\ clentData[q].lobby = id
  <2>1. CASE id \in DOMAIN lobbies
    BY <1>2, <1>3, <2>1 DEF SeatInv, SeatsAccepted, SeatsOwned
  <2>2. CASE id \notin DOMAIN lobbies
    BY <2>2 DEF NewLobby, SeatsOf
  <2> QED
    BY <2>1, <2>2
<1>5. /\ SeatsOf(lobbies'[id]) \subseteq SeatsOf(lobby) \cup {p}
      /\ SeatsOf(lobby) \subseteq SeatsOf(lobbies'[id])
      /\ HasFreeSeat(lobby) => p \in SeatsOf(lobbies'[id])
      /\ lobbies'[id].p1 = lobbies'[id].p2 => lobbies'[id].p1 = NoOne
  <2>1. lobbies'[id] = AddParticipant(lobby, p)
    OBVIOUS
  <2> QED
    BY <1>4, <2>1, AddedSeat
<1>6. /\ clentData'[p].state = "lobby" /\ clentData'[p].lobby = id
      /\ \A q \in Seats : q # p => clentData'[q] = clentData[q]
  BY <1>1 DEF EnterLobby, TypeOK, Clients, Seats
<1>7. SeatsAccepted'
  <2> SUFFICES ASSUME NEW i \in DOMAIN lobbies', NEW q \in SeatsOf(lobbies'[i])
               PROVE  session[q] # "fresh"
    BY DEF SeatsAccepted
  <2>1. CASE i = id
    BY <1>4, <1>5, <2>1
  <2>2. CASE i # id
    BY <2>2 DEF SeatInv, SeatsAccepted
  <2> QED
    BY <2>1, <2>2
<1>8. NoneDetached'
  BY DEF SeatInv, NoneDetached
<1>9. SeatsOwned'
  <2> SUFFICES ASSUME NEW i \in DOMAIN lobbies'
               PROVE  /\ \A q \in SeatsOf(lobbies'[i]) : Open(q)' =>
                             clentData'[q].state # "connected" /\ clentData'[q].lobby = i
                      /\ lobbies'[i].p1 = lobbies'[i].p2 => lobbies'[i].p1 = NoOne
    BY DEF SeatsOwned
  <2>1. CASE i = id
    <3>1. ASSUME NEW q \in SeatsOf(lobbies'[i]), Open(q)'
          PROVE  clentData'[q].state # "connected" /\ clentData'[q].lobby = i
      <4>1. CASE q = p
        BY <1>6, <2>1, <4>1
      <4>2. CASE q # p
        BY <1>4, <1>5, <1>6, <2>1, <3>1, <4>2 DEF Seats, Open
      <4> QED
        BY <4>1, <4>2
    <3> QED
      BY <1>5, <2>1, <3>1
  <2>2. CASE i # id
    <3>1. lobbies'[i] = lobbies[i] /\ i \in DOMAIN lobbies
      BY <2>2
    <3>2. ASSUME NEW q \in SeatsOf(lobbies'[i]), Open(q)'
          PROVE  clentData'[q].state # "connected" /\ clentData'[q].lobby = i
      <4>1. q # p /\ q \in Participants /\ Open(q)
        BY <1>2, <1>3, <3>1, <3>2 DEF Open
      <4> QED
        BY <1>6, <3>1, <3>2, <4>1 DEF SeatInv, SeatsOwned, Seats
    <3> QED
      BY <3>1, <3>2 DEF SeatInv, SeatsOwned
  <2> QED
    BY <2>1, <2>2
<1>10. PlayersSeated'
  <2> SUFFICES ASSUME ~idReused', NEW q \in Participants, clentData'[q].state # "connected"
               PROVE  /\ clentData'[q].lobby \in DOMAIN lobbies'
                      /\ q \in SeatsOf(lobbies'[clentData'[q].lobby])
    BY DEF PlayersSeated, Seated
  <2>1. CASE q = p
    BY <1>5, <1>6, <2>1
  <2>2. CASE q # p
    <3>1. clentData'[q] = clentData[q]
      BY <1>6, <2>2 DEF Seats
    <3>2. clentData[q].lobby \in DOMAIN lobbies /\ q \in SeatsOf(lobbies[clentData[q].lobby])
      BY <3>1 DEF SeatInv, PlayersSeated, Seated
    <3> QED
      BY <1>5, <3>1, <3>2
  <2> QED
    BY <2>1, <2>2
<1> QED
  BY <1>7, <1>8, <1>9, <1>10 DEF SeatInv

LEMMA HandleMessageConnectedSeatInv ==
    ASSUME SeatInv, NEW p \in Participants, HandleMessageConnected(p), TypeInv', GoneAreForgotten'
    PROVE  SeatInv'
<1>1. TypeOK
  BY DEF SeatInv, TypeInv
<1>2. session[p] = "open" /\ clentData[p].state = "connected"
  BY SenderOpen DEF HandleMessageConnected, Create, Join, ConnectTo, Refuse, List, QuitConnected
<1>3. CASE Create(p)
  <2> DEFINE id == lobbiesCount
             lobby == IF id \in DOMAIN lobbies THEN lobbies[id] ELSE NewLobby
  <2>1. lobby \in Lobbies
    BY <1>1, NewLobbyType DEF TypeOK
  <2>2. /\ lobbies' = [i \in DOMAIN lobbies \cup {id} |->
                          IF i = id THEN AddParticipant(lobby, p) ELSE lobbies[i]]
        /\ EnterLobby(p, id)
        /\ idReused' = (idReused \/ id \in DOMAIN lobbies)
        /\ UNCHANGED session
    BY <1>3 DEF Create
  <2>3. /\ DOMAIN lobbies' = DOMAIN lobbies \cup {id}
        /\ \A i \in DOMAIN lobbies' :
               lobbies'[i] = IF i = id THEN AddParticipant(lobby, p) ELSE lobbies[i]
    BY <2>2
  <2>4. ~idReused' => ~idReused /\ HasFreeSeat(lobby)
    BY <2>2 DEF HasFreeSeat, NewLobby
  <2>5. /\ id \in DOMAIN lobbies => lobby = lobbies[id]
        /\ id \notin DOMAIN lobbies => lobby = NewLobby
    OBVIOUS
  <2> HIDE DEF lobby, id
  <2> QED
    BY <1>2, <2>1, <2>2, <2>3, <2>4, <2>5, EnteredSeatInv
<1>4. ASSUME NEW id \in FreeLobbies, NEW letter, Enter(p, id, letter)
      PROVE  SeatInv'
  <2>1. id \in DOMAIN lobbies /\ lobbies[id] \in Lobbies /\ HasFreeSeat(lobbies[id])
    BY <1>1 DEF FreeLobbies, TypeOK
  <2>2. /\ lobbies' = [lobbies EXCEPT ![id] = AddParticipant(@, p)]
        /\ EnterLobby(p, id)
        /\ UNCHANGED <<session, idReused>>
    BY <1>4 DEF Enter
  <2>3. /\ DOMAIN lobbies' = DOMAIN lobbies \cup {id}
        /\ \A i \in DOMAIN lobbies' :
               lobbies'[i] = IF i = id THEN AddParticipant(lobbies[id], p) ELSE lobbies[i]
    BY <1>1, <2>1, <2>2 DEF TypeOK
  <2> QED
    BY <1>2, <2>1, <2>2, <2>3, EnteredSeatInv
<1>5. CASE Join(p)
  BY <1>4, <1>5 DEF Join
<1>6. CASE \E id \in Ids : ConnectTo(p, id)
  BY <1>4, <1>6 DEF ConnectTo
<1>7. CASE Refuse(p) \/ List(p)
  <2>1. SeatsUndisturbed
    BY <1>7, SameLobbiesKeepSeats, SameClientsUndisturbed DEF Refuse, List
  <2> QED
    BY <2>1, UndisturbedSeatInv
<1>8. CASE QuitConnected(p)
  <2>1. SeatsUndisturbed
    BY <1>2, <1>8, StopIsUndisturbed DEF QuitConnected
  <2> QED
    BY <2>1, UndisturbedSeatInv
<1> QED
  BY <1>3, <1>5, <1>6, <1>7, <1>8 DEF HandleMessageConnected

-----------------------------------------------------------------------------
(* A player leaves his seat. *)

(* What RemoveParticipant does to the set of seats. *)
LEMMA RemovedSeat ==
    ASSUME NEW lobby \in Lobbies, NEW p \in Participants
    PROVE  LET left == RemoveParticipant(lobby, p)
           IN  /\ SeatsOf(left) = SeatsOf(lobby) \ {p}
               /\ IsEmpty(left) => SeatsOf(lobby) \subseteq {p}
               /\ (lobby.p1 = lobby.p2 => lobby.p1 = NoOne) =>
                      (left.p1 = left.p2 => left.p1 = NoOne)
<1>1. p # NoOne
  BY ServerAssumption
<1> QED
  BY <1>1 DEF RemoveParticipant, SeatsOf, IsEmpty, Lobbies

(* Vacating a seat: the common part of leave and quit.  A lobby is erased only
   when nobody else sits in it, so the pointers that dangle belong to
   nobody with a seat. *)
LEMMA VacatedSeatInv ==
    ASSUME SeatInv, TypeInv', GoneAreForgotten', NEW p \in Participants, session[p] = "open", HasLobby(p),
           NEW clients \in [Seats -> Clients], Vacate(p, clients),
           clients[p].state = "connected",
           \A q \in Seats : q # p => clients[q] = clentData[q],
           \A q \in Participants : q # p => session'[q] = session[q],
           session'[p] \in {"open", "flushing", "freed"},
           UNCHANGED idReused
    PROVE  SeatInv'
<1> DEFINE id == clentData[p].lobby
           lobby == lobbies[id]
           left == RemoveParticipant(lobby, p)
<1>1. TypeOK
  BY DEF SeatInv, TypeInv
<1>2. lobby \in Lobbies /\ id \in DOMAIN lobbies /\ id \in Ids
  BY <1>1 DEF TypeOK, HasLobby
<1>3. \A i \in DOMAIN lobbies : i # id => p \notin SeatsOf(lobbies[i])
  BY DEF SeatInv, SeatsOwned, Open
<1>4. /\ SeatsOf(left) = SeatsOf(lobby) \ {p}
      /\ IsEmpty(left) => SeatsOf(lobby) \subseteq {p}
      /\ left.p1 = left.p2 => left.p1 = NoOne
  <2>1. lobby.p1 = lobby.p2 => lobby.p1 = NoOne
    BY <1>2 DEF SeatInv, SeatsOwned
  <2> HIDE DEF lobby
  <2> QED
    BY <1>2, <2>1, RemovedSeat
<1>5. /\ DOMAIN lobbies' = IF IsEmpty(left) THEN DOMAIN lobbies \ {id} ELSE DOMAIN lobbies
      /\ \A i \in DOMAIN lobbies' : lobbies'[i] = IF i = id THEN left ELSE lobbies[i]
      /\ clentData' = IF IsEmpty(left)
                      THEN [q \in Seats |->
                               IF clients[q].lobby = id
                               THEN [clients[q] EXCEPT !.lobby = FreedLobby]
                               ELSE clients[q]]
                      ELSE clients
  <2> HIDE DEF IsEmpty
  <2>1. CASE IsEmpty(left)
    BY <2>1, <1>2 DEF Vacate, LobbyOf
  <2>2. CASE ~IsEmpty(left)
    BY <1>1, <1>2, <2>2 DEF Vacate, LobbyOf, SetLobby, TypeOK
  <2> QED
    BY <2>1, <2>2
<1> HIDE DEF left
<1>6. \A i \in DOMAIN lobbies' :
          /\ i \in DOMAIN lobbies
          /\ SeatsOf(lobbies'[i]) = SeatsOf(lobbies[i]) \ {p}
          /\ lobbies'[i].p1 = lobbies'[i].p2 => lobbies'[i].p1 = NoOne
  BY <1>3, <1>4, <1>5 DEF SeatInv, SeatsOwned
<1>7. \A i \in DOMAIN lobbies : SeatsOf(lobbies[i]) \subseteq Participants
  BY <1>1 DEF TypeOK, Lobbies, Seats, SeatsOf
<1>8. \A q \in Seats : /\ clentData'[q].state = clients[q].state
                       /\ clients[q].lobby # id => clentData'[q] = clients[q]
                       /\ id \in DOMAIN lobbies' => clentData'[q] = clients[q]
  BY <1>5 DEF Clients
<1>9. SeatsAccepted'
  <2> SUFFICES ASSUME NEW i \in DOMAIN lobbies', NEW q \in SeatsOf(lobbies'[i])
               PROVE  session'[q] # "fresh"
    BY DEF SeatsAccepted
  <2> QED
    BY <1>6, <1>7 DEF SeatInv, SeatsAccepted
<1>10. NoneDetached'
  BY DEF SeatInv, NoneDetached
<1>11. SeatsOwned'
  <2> SUFFICES ASSUME NEW i \in DOMAIN lobbies', NEW q \in SeatsOf(lobbies'[i]), Open(q)'
               PROVE  clentData'[q].state # "connected" /\ clentData'[q].lobby = i
    BY <1>6 DEF SeatsOwned
  <2>1. q # p /\ q \in Participants /\ q \in SeatsOf(lobbies[i]) /\ i \in DOMAIN lobbies
    BY <1>6, <1>7
  <2>2. clients[q].state # "connected" /\ clients[q].lobby = i
    BY <2>1 DEF SeatInv, SeatsOwned, Open, Seats
  <2> QED
    BY <1>8, <2>1, <2>2 DEF Seats
<1>12. PlayersSeated'
  <2> SUFFICES ASSUME ~idReused', NEW q \in Participants, clentData'[q].state # "connected"
               PROVE  /\ clentData'[q].lobby \in DOMAIN lobbies'
                      /\ q \in SeatsOf(lobbies'[clentData'[q].lobby])
    BY DEF PlayersSeated, Seated
  <2>1. q # p
    BY <1>8 DEF Seats
  <2>2. clients[q] = clentData[q] /\ clentData'[q].state = clentData[q].state
    BY <1>8, <2>1 DEF Seats
  <2>3. clentData[q].lobby \in DOMAIN lobbies /\ q \in SeatsOf(lobbies[clentData[q].lobby])
    BY <2>2 DEF SeatInv, PlayersSeated, Seated
  <2>4. clentData[q].lobby \in DOMAIN lobbies'
    BY <1>4, <1>5, <2>1, <2>3
  <2>5. clentData'[q] = clentData[q]
    BY <1>8, <2>2, <2>4 DEF Seats
  <2> QED
    BY <1>6, <2>1, <2>3, <2>4, <2>5
<1> QED
  BY <1>9, <1>10, <1>11, <1>12 DEF SeatInv

-----------------------------------------------------------------------------
(* The other handlers move players between lobby and session, and change their
   readiness: of a player who is there. *)

(* Two players are moved to the session: the sender, and the other seat's player, who
   reads and sits in the same lobby. *)
LEMMA ReadyEnemy ==
    ASSUME SeatInv, NEW p \in Participants, ReadyInLobby(p),
           [clentData EXCEPT ![p].isReady = TRUE][GetEnemy(LobbyOf(p), p)].isReady
    PROVE  LET enemy == GetEnemy(LobbyOf(p), p)
           IN  /\ enemy \in Participants /\ enemy # p /\ Open(enemy)
               /\ enemy \in SeatsOf(LobbyOf(p))
               /\ clentData[enemy].state # "connected"
               /\ clentData[enemy].lobby = clentData[p].lobby
               /\ \A q \in Seats :
                      /\ clentData'[q].lobby = clentData[q].lobby
                      /\ q \notin {p, enemy} => clentData'[q] = clentData[q]
                      /\ q \in {p, enemy} => clentData'[q].state = "session"
<1> DEFINE lobby == LobbyOf(p)
           enemy == GetEnemy(lobby, p)
           clients == [clentData EXCEPT ![p].isReady = TRUE]
<1>1. TypeOK /\ HasLobby(p)
  BY DEF SeatInv, TypeInv, ReadyInLobby
<1>2. lobby \in Lobbies /\ clentData[p].lobby \in DOMAIN lobbies
  BY <1>1, LobbyOfType DEF HasLobby
<1>3. p # NoOne
  BY ServerAssumption
<1>4. enemy \in Seats /\ enemy # p /\ (enemy # NoOne => enemy \in SeatsOf(lobby))
  BY <1>2, <1>3 DEF GetEnemy, SeatsOf, Lobbies, SeatInv, SeatsOwned, LobbyOf
<1>5. clentData[enemy].isReady
  BY <1>1, <1>4 DEF TypeOK
<1>6. enemy \in Participants /\ Open(enemy)
  BY <1>4, <1>5 DEF SeatInv, GoneAreForgotten, NoneDetached, SharedClient, Seats, Open
<1>7. enemy \in SeatsOf(lobby)
  BY <1>4, <1>6, ServerAssumption
<1>8. clentData[enemy].state # "connected" /\ clentData[enemy].lobby = clentData[p].lobby
  BY <1>2, <1>6, <1>7 DEF SeatInv, SeatsOwned, LobbyOf
<1>9. clentData' = [clients EXCEPT ![p].state = "session", ![enemy].state = "session"]
  BY DEF ReadyInLobby
<1>10. \A q \in Seats : /\ clentData'[q].lobby = clentData[q].lobby
                        /\ q \notin {p, enemy} => clentData'[q] = clentData[q]
                        /\ q \in {p, enemy} => clentData'[q].state = "session"
  <2>1. clients \in [Seats -> Clients] /\ \A q \in Seats : clients[q].lobby = clentData[q].lobby
    BY <1>1 DEF TypeOK, Clients, Seats
  <2>2. \A q \in Seats : q # p => clients[q] = clentData[q]
    BY <1>1 DEF TypeOK
  <2>3. p \in Seats
    BY DEF Seats
  <2> HIDE DEF clients, enemy
  <2> QED
    BY <1>4, <1>9, <2>1, <2>2, <2>3 DEF Clients
<1> QED
  BY <1>4, <1>6, <1>7, <1>8, <1>10

LEMMA ReadyInLobbyUndisturbed ==
    ASSUME SeatInv, NEW p \in Participants, ReadyInLobby(p)
    PROVE  SeatsUndisturbed
<1> DEFINE enemy == GetEnemy(LobbyOf(p), p)
           clients == [clentData EXCEPT ![p].isReady = TRUE]
<1>1. TypeOK /\ session[p] = "open" /\ clentData[p].state = "lobby"
  BY SenderOpen DEF SeatInv, TypeInv, ReadyInLobby
<1>2. SeatsKept
  BY ReadyInLobbyTypeInv DEF SeatInv
<1>3. UNCHANGED <<session, idReused>>
  BY DEF ReadyInLobby
<1>4. CASE ~clients[enemy].isReady
  <2>1. clentData' = clients
    BY <1>4 DEF ReadyInLobby
  <2> QED
    BY <1>1, <1>2, <1>3, <2>1 DEF SeatsUndisturbed, Stays, TypeOK, Clients, Seats
<1>5. CASE clients[enemy].isReady
  <2>1. /\ clentData[enemy].state # "connected"
        /\ \A q \in Seats : /\ clentData'[q].lobby = clentData[q].lobby
                            /\ q \notin {p, enemy} => clentData'[q] = clentData[q]
                            /\ q \in {p, enemy} => clentData'[q].state = "session"
    BY <1>5, ReadyEnemy
  <2> HIDE DEF enemy
  <2>2. \A q \in Participants : Stays(q)
    BY <1>1, <1>3, <2>1 DEF Stays, Seats
  <2> QED
    BY <1>2, <1>3, <2>2 DEF SeatsUndisturbed
<1> QED
  BY <1>4, <1>5

LEMMA HandleMessageLobbySeatInv ==
    ASSUME SeatInv, NEW p \in Participants, HandleMessageLobby(p), TypeInv', GoneAreForgotten'
    PROVE  SeatInv'
<1>1. TypeOK
  BY DEF SeatInv, TypeInv
<1>2. session[p] = "open" /\ clentData[p].state = "lobby"
  BY SenderOpen DEF HandleMessageLobby, ReadyInLobby, Unready, Leave, QuitLobby
<1>3. p # NoOne
  BY ServerAssumption
<1>4. CASE ReadyInLobby(p)
  BY <1>4, ReadyInLobbyUndisturbed, UndisturbedSeatInv
<1>5. CASE Unready(p)
  <2>1. SeatsKept
    BY <1>5, SameLobbiesKeepSeats DEF Unready
  <2>2. SeatsUndisturbed
    BY <1>1, <1>2, <1>3, <1>5, <2>1 DEF Unready, SeatsUndisturbed, Stays, Open, TypeOK, Clients, Seats
  <2> QED
    BY <2>2, UndisturbedSeatInv
<1>6. CASE Leave(p)
  <2> DEFINE clients == [clentData EXCEPT ![p].state = "connected"]
  <2>1. clients \in [Seats -> Clients] /\ clients[p].state = "connected"
    BY <1>1 DEF TypeOK, Clients, ClientStates, Seats
  <2>2. \A q \in Seats : q # p => clients[q] = clentData[q]
    BY <1>1 DEF TypeOK
  <2>3. HasLobby(p) /\ Vacate(p, clients) /\ UNCHANGED <<session, idReused>>
    BY <1>6 DEF Leave
  <2> HIDE DEF clients
  <2> QED
    BY <1>2, <2>1, <2>2, <2>3, VacatedSeatInv
<1>7. CASE QuitLobby(p)
  <2> DEFINE clients == Forget(p, clentData)
  <2>1. clients \in [Seats -> Clients]
    BY <1>1, ForgetType DEF TypeOK
  <2>2. clients[p] = SharedClient /\ \A q \in Seats : q # p => clients[q] = clentData[q]
    BY <1>1 DEF TypeOK, Forget, Seats
  <2>3. /\ session'[p] \in {"flushing", "freed"}
        /\ \A q \in Participants : q # p => session'[q] = session[q]
    BY <1>1, <1>7 DEF QuitLobby, StopReading, TypeOK
  <2>4. HasLobby(p) /\ Vacate(p, clients) /\ UNCHANGED idReused
    BY <1>7 DEF QuitLobby
  <2>5. clients[p].state = "connected"
    BY <2>2 DEF SharedClient
  <2> HIDE DEF clients
  <2> QED
    BY <1>2, <2>1, <2>2, <2>3, <2>4, <2>5, VacatedSeatInv
<1> QED
  BY <1>4, <1>5, <1>6, <1>7 DEF HandleMessageLobby

LEMMA WinUndisturbed ==
    ASSUME SeatInv, NEW p \in Participants, NEW c \in Cells, Win(p, c), SeatsKept
    PROVE  SeatsUndisturbed
<1> DEFINE enemy == GetEnemy(LobbyOf(p), p)
           one == [clentData EXCEPT ![p].isReady = FALSE]
<1>1. TypeOK /\ UNCHANGED <<session, idReused>>
  BY DEF SeatInv, TypeInv, Win
<1>2. clentData' = clentData \/ clentData' = [one EXCEPT ![enemy].isReady = FALSE]
  BY DEF Win
<1>3. one \in [Seats -> Clients]
  BY <1>1 DEF TypeOK, Clients, Seats
<1>4. \A q \in Seats : /\ one[q].lobby = clentData[q].lobby
                       /\ one[q].state = clentData[q].state
  BY <1>1 DEF TypeOK, Clients
<1>5. \A q \in Seats : /\ clentData'[q].lobby = clentData[q].lobby
                       /\ clentData'[q].state = clentData[q].state
  <2> HIDE DEF one, enemy
  <2>1. CASE clentData' = clentData
    BY <2>1
  <2>2. CASE clentData' = [one EXCEPT ![enemy].isReady = FALSE]
    <3>1. ASSUME NEW q \in Seats
          PROVE  clentData'[q].lobby = one[q].lobby /\ clentData'[q].state = one[q].state
      <4>1. clentData'[q] = IF q = enemy THEN [one[q] EXCEPT !.isReady = FALSE] ELSE one[q]
        BY <1>3, <2>2
      <4>2. one[q] \in Clients
        BY <1>3
      <4> QED
        BY <4>1, <4>2 DEF Clients
    <3> QED
      BY <1>4, <3>1
  <2> QED
    BY <1>2, <2>1, <2>2
<1> QED
  BY <1>1, <1>5 DEF SeatsUndisturbed, Stays, Seats

LEMMA HandleMessageSessionSeatInv ==
    ASSUME SeatInv, NEW p \in Participants, HandleMessageSession(p), TypeInv', GoneAreForgotten'
    PROVE  SeatInv'
<1>1. TypeOK /\ SeatsKept
  BY HandleMessageSessionTypeInv DEF SeatInv, TypeInv
<1>2. session[p] = "open" /\ clentData[p].state = "session"
  BY SenderOpen DEF HandleMessageSession, Playing, PlaceShip, ReadyToPlay, RepeatShot,
     Shoot, Win, WrongTurn, Rebroadcast, Continue, Unexpected
<1>3. CASE \/ \E s \in Placements : PlaceShip(p, s)
           \/ ReadyToPlay(p)
           \/ \E c \in Cells : RepeatShot(p, c) \/ Shoot(p, c)
           \/ WrongTurn(p)
           \/ Rebroadcast(p)
  <2>1. UNCHANGED <<clentData, session, idReused>>
    BY <1>3 DEF PlaceShip, ReadyToPlay, RepeatShot, Shoot, WrongTurn, Rebroadcast
  <2> QED
    BY <1>1, <2>1, SameClientsUndisturbed, UndisturbedSeatInv
<1>4. CASE \E c \in Cells : Win(p, c)
  BY <1>1, <1>4, WinUndisturbed, UndisturbedSeatInv
<1>5. CASE Continue(p)
  <2>1. UNCHANGED <<session, idReused>>
    BY <1>5 DEF Continue
  <2>2. \A q \in Seats : /\ q # p => clentData'[q] = clentData[q]
                         /\ clentData'[q].lobby = clentData[q].lobby
                         /\ q = p => clentData'[q].state = "lobby"
    BY <1>1, <1>5 DEF Continue, TypeOK, Clients
  <2>3. SeatsUndisturbed
    BY <1>1, <1>2, <2>1, <2>2 DEF SeatsUndisturbed, Stays, Seats
  <2> QED
    BY <2>3, UndisturbedSeatInv
<1>6. CASE Unexpected(p)
  <2>1. CASE UNCHANGED <<clentData, session>>
    BY <1>1, <1>6, <2>1, SameClientsUndisturbed, UndisturbedSeatInv DEF Unexpected
  <2>2. CASE StopReading(p, TRUE) /\ clentData' = Forget(p, clentData)
    <3>1. SeatsUndisturbed
      BY <1>2, <1>6, <2>2, StopIsUndisturbed DEF Unexpected
    <3> QED
      BY <3>1, UndisturbedSeatInv
  <2> QED
    BY <1>6, <2>1, <2>2 DEF Unexpected
<1> QED
  BY <1>3, <1>4, <1>5, <1>6 DEF HandleMessageSession

-----------------------------------------------------------------------------
LEMMA NextSeatInv ==
    ASSUME SeatInv, OnlyReadErrors, [Next]_vars
    PROVE  SeatInv'
<1>1. TypeInv' /\ GoneAreForgotten'
  BY NextTypeInv, NextGoneAreForgotten DEF SeatInv, TypeInv
<1>2. CASE UNCHANGED vars
  BY <1>1, <1>2, SameLobbiesKeepSeats, SameClientsUndisturbed, UndisturbedSeatInv DEF vars
<1>3. CASE Next
  <2>1. PICK p \in Participants :
            \/ SessionEvent(p)
            \/ HandleMessageConnected(p)
            \/ HandleMessageLobby(p)
            \/ HandleMessageSession(p)
            \/ FollowDeadLobby(p)
    BY <1>3 DEF Next
  <2>2. CASE FollowDeadLobby(p)
    <3>1. SeatsUndisturbed
      BY <2>2, SameLobbiesKeepSeats, SameClientsUndisturbed DEF FollowDeadLobby
    <3> QED
      BY <1>1, <3>1, UndisturbedSeatInv
  <2> QED
    BY <1>1, <2>1, <2>2, SessionEventSeatInv, HandleMessageConnectedSeatInv,
       HandleMessageLobbySeatInv, HandleMessageSessionSeatInv
<1> QED
  BY <1>2, <1>3

(* OnlyReadErrors speaks of a constant, so it holds for good if it holds at all. *)
LEMMA AlwaysSeatInv == OnlyReadErrors => (Spec => []SeatInv)
<1> SUFFICES ASSUME OnlyReadErrors PROVE Spec => []SeatInv
  OBVIOUS
<1>1. SeatInv /\ [Next]_vars => SeatInv'
  BY NextSeatInv
<1> QED
  BY InitSeatInv, <1>1, PTL DEF Spec

(* However many players, lobbies and boards there are, a player past the connected
   state has his lobby and his seat in it, as long as no create met an
   existing lobby. *)
THEOREM ServerPlayersSeated == OnlyReadErrors => (Spec => []PlayersSeated)
<1>1. SeatInv => PlayersSeated
  BY DEF SeatInv
<1> QED
  BY AlwaysSeatInv, <1>1, PTL

(* Nobody who still reads sits in two lobbies, twice in one, or in one he left:
   this holds even after a lobby number was reused. *)
THEOREM ServerSeatsOwned == OnlyReadErrors => (Spec => []SeatsOwned)
<1>1. SeatInv => SeatsOwned
  BY DEF SeatInv
<1> QED
  BY AlwaysSeatInv, <1>1, PTL

-----------------------------------------------------------------------------
(* The games.  What keeps one lobby's game right speaks of who of its seats still
   reads, and of where their records say they are: life is the sessions, clients
   the records. *)
OpenIn(lobby, life, clients, state) ==
    \E q \in SeatsOf(lobby) : life[q] = "open" /\ clients[q].state = state

(* A seat is free, or somebody who sits there is not in the session. *)
Waits(lobby, life, clients) ==
    HasFreeSeat(lobby) \/ OpenIn(lobby, life, clients, "lobby")

Sunk(lobby) == \E f \in Fields2(lobby) : f.ship # {} /\ GameFinished(f)

(* Nothing that could start turns is left in a lobby that waits, and nobody could
   start them; turns begin on unshot fields and are played until one is sunk. *)
GameKept(lobby, life, clients) ==
    /\ Waits(lobby, life, clients) =>
           /\ ~lobby.ready1 /\ ~lobby.ready2 /\ lobby.state \notin Turns
           /\ lobby.state = "preparation" => ~OpenIn(lobby, life, clients, "session")
    /\ lobby.state = "preparation" /\ OpenIn(lobby, life, clients, "session") =>
           lobby.field1.shot = {} /\ lobby.field2.shot = {}
    /\ lobby.state \in Turns => lobby.ready1 /\ lobby.ready2 /\ ~Sunk(lobby)
    /\ lobby.state = "end" => ~lobby.ready1 /\ ~lobby.ready2 /\ Sunk(lobby)

GamesKept ==
    ~idReused => \A id \in DOMAIN lobbies : GameKept(lobbies[id], session, clentData)

GamesInv == SeatInv /\ GamesKept

LEMMA InitGamesInv == Init => GamesInv
<1>1. Init => DOMAIN lobbies = {}
  BY DEF Init
<1> QED
  BY <1>1, InitSeatInv DEF GamesInv, GamesKept

(* A player who goes away disturbs no game. *)
LEMMA QuieterKept ==
    ASSUME NEW lobby, NEW life, NEW clients, NEW life2, NEW clients2,
           GameKept(lobby, life, clients),
           \A q \in SeatsOf(lobby) : life2[q] = "open" =>
               life[q] = "open" /\ clients2[q].state = clients[q].state
    PROVE  GameKept(lobby, life2, clients2)
<1>1. \A state : OpenIn(lobby, life2, clients2, state) => OpenIn(lobby, life, clients, state)
  BY DEF OpenIn
<1>2. Waits(lobby, life2, clients2) => Waits(lobby, life, clients)
  BY <1>1 DEF Waits
<1> QED
  BY <1>1, <1>2 DEF GameKept

(* A step that changes at most the lobby id, and elsewhere at most sends players
   away. *)
LEMMA ElsewhereKept ==
    ASSUME GamesInv, ~idReused' => ~idReused, NEW id,
           ~idReused' /\ id \in DOMAIN lobbies' =>
               GameKept(lobbies'[id], session', clentData'),
           \A i \in DOMAIN lobbies' : i # id =>
               /\ i \in DOMAIN lobbies
               /\ lobbies'[i] = lobbies[i]
               /\ \A q \in SeatsOf(lobbies[i]) : session'[q] = "open" =>
                      session[q] = "open" /\ clentData'[q].state = clentData[q].state
    PROVE  GamesKept'
<1> SUFFICES ASSUME ~idReused', NEW i \in DOMAIN lobbies', i # id
             PROVE  GameKept(lobbies'[i], session', clentData')
  BY DEF GamesKept
<1>1. GameKept(lobbies[i], session, clentData)
  BY DEF GamesInv, GamesKept
<1> QED
  BY <1>1, QuieterKept

(* A step that changes no lobby. *)
LEMMA QuietKept ==
    ASSUME GamesInv, UNCHANGED <<lobbies, idReused>>,
           \A q \in Participants :
               \/ session[q] = "fresh"
               \/ session'[q] = "open" =>
                      session[q] = "open" /\ clentData'[q].state = clentData[q].state
    PROVE  GamesKept'
<1> SUFFICES ASSUME ~idReused', NEW i \in DOMAIN lobbies
             PROVE  GameKept(lobbies[i], session', clentData')
  BY DEF GamesKept
<1>1. GameKept(lobbies[i], session, clentData)
  BY DEF GamesInv, GamesKept
<1>2. \A q \in SeatsOf(lobbies[i]) : q \in Participants /\ session[q] # "fresh"
  BY DEF GamesInv, SeatInv, SeatsAccepted, TypeInv, TypeOK, Lobbies, Seats, SeatsOf
<1> QED
  BY <1>1, <1>2, QuieterKept

(* One who reads sits in no lobby but that of his record. *)
LEMMA SitsInOne ==
    ASSUME SeatInv, NEW q \in Participants, session[q] = "open",
           NEW i \in DOMAIN lobbies, i # clentData[q].lobby \/ clentData[q].state = "connected"
    PROVE  q \notin SeatsOf(lobbies[i])
BY DEF SeatInv, SeatsOwned, Open

(* The sender of a message past the connected state, and his lobby. *)
LEMMA SenderPlays ==
    ASSUME GamesInv, ~idReused, NEW p \in Participants, session[p] = "open",
           clentData[p].state # "connected"
    PROVE  /\ HasLobby(p) /\ LobbyOf(p) \in Lobbies /\ p \in SeatsOf(LobbyOf(p))
           /\ LobbyOf(p).p1 # LobbyOf(p).p2
           /\ GameKept(LobbyOf(p), session, clentData)
<1>1. HasLobby(p) /\ p \in SeatsOf(LobbyOf(p))
  BY DEF GamesInv, SeatInv, PlayersSeated, Seated, HasLobby, LobbyOf
<1>2. LobbyOf(p) \in Lobbies
  BY <1>1, LobbyOfType DEF GamesInv, SeatInv, TypeInv
<1>3. LobbyOf(p).p1 # LobbyOf(p).p2
  BY <1>1 DEF GamesInv, SeatInv, SeatsOwned, HasLobby, LobbyOf, SeatsOf
<1>4. GameKept(LobbyOf(p), session, clentData)
  BY <1>1 DEF GamesInv, GamesKept, HasLobby, LobbyOf
<1> QED
  BY <1>1, <1>2, <1>3, <1>4

(* Entering a lobby with a free seat, new or not: it waited before, or was not
   there, and waits now. *)
LEMMA EnteredKept ==
    ASSUME GamesInv, NEW p \in Participants, NEW id, NEW lobby \in Lobbies,
           session[p] = "open", clentData[p].state = "connected",
           id \in DOMAIN lobbies => lobby = lobbies[id],
           id \notin DOMAIN lobbies => lobby = NewLobby,
           DOMAIN lobbies' = DOMAIN lobbies \cup {id},
           \A i \in DOMAIN lobbies' :
               lobbies'[i] = IF i = id THEN AddParticipant(lobby, p) ELSE lobbies[i],
           EnterLobby(p, id), UNCHANGED session,
           ~idReused' => ~idReused /\ HasFreeSeat(lobby)
    PROVE  GamesKept'
<1> DEFINE new == AddParticipant(lobby, p)
<1>1. TypeOK
  BY DEF GamesInv, SeatInv, TypeInv
<1>2. /\ clentData'[p].state = "lobby"
      /\ \A q \in Seats : q # p => clentData'[q] = clentData[q]
  BY <1>1 DEF EnterLobby, TypeOK, Clients, Seats
<1>3. \A i \in DOMAIN lobbies : p \notin SeatsOf(lobbies[i]) /\ SeatsOf(lobbies[i]) \subseteq Seats
  BY <1>1, SitsInOne DEF GamesInv, TypeOK, Lobbies, Seats, SeatsOf
<1>4. ASSUME ~idReused' PROVE GameKept(new, session', clentData')
  <2>1. HasFreeSeat(lobby)
    BY <1>4
  <2>2. /\ SeatsOf(new) = SeatsOf(lobby) \cup {p}
        /\ new.state = lobby.state
        /\ new.ready1 = lobby.ready1 /\ new.ready2 = lobby.ready2
        /\ Fields2(new) = Fields2(lobby)
    <3>1. SeatsOf(new) = SeatsOf(lobby) \cup {p}
      BY <2>1, AddedSeat
    <3> QED
      BY <3>1 DEF AddParticipant, Lobbies, Fields2
  <2>3. CASE id \in DOMAIN lobbies
    <3>1. GameKept(lobby, session, clentData) /\ Waits(lobby, session, clentData)
      BY <1>4, <2>1, <2>3 DEF GamesInv, GamesKept, Waits
    <3>2. OpenIn(new, session', clentData', "session") => OpenIn(lobby, session, clentData, "session")
      BY <1>2, <1>3, <2>2, <2>3 DEF OpenIn
    <3> HIDE DEF new
    <3> QED
      BY <2>2, <3>1, <3>2 DEF GameKept, Sunk
  <2>4. CASE id \notin DOMAIN lobbies
    <3>1. /\ SeatsOf(new) = {p}
          /\ new.state = "preparation" /\ ~new.ready1 /\ ~new.ready2
      BY <2>2, <2>4 DEF NewLobby, SeatsOf
    <3>2. ~OpenIn(new, session', clentData', "session")
      BY <1>2, <3>1 DEF OpenIn
    <3> HIDE DEF new
    <3> QED
      BY <3>1, <3>2 DEF GameKept, Turns
  <2> QED
    BY <2>3, <2>4
<1>5. ASSUME NEW i \in DOMAIN lobbies', i # id
      PROVE  /\ i \in DOMAIN lobbies /\ lobbies'[i] = lobbies[i]
             /\ \A q \in SeatsOf(lobbies[i]) : session'[q] = "open" =>
                    session[q] = "open" /\ clentData'[q].state = clentData[q].state
  BY <1>2, <1>3, <1>5
<1>6. ~idReused' /\ id \in DOMAIN lobbies' => GameKept(lobbies'[id], session', clentData')
  BY <1>4
<1> HIDE DEF new
<1> QED
  BY <1>5, <1>6, ElsewhereKept

(* Vacating a seat: the lobby waited before, and if it is still there it waits. *)
LEMMA VacatedKept ==
    ASSUME GamesInv, NEW p \in Participants, session[p] = "open", clentData[p].state = "lobby",
           HasLobby(p), NEW clients \in [Seats -> Clients], Vacate(p, clients),
           \A q \in Seats : q # p => clients[q] = clentData[q],
           \A q \in Participants : q # p => session'[q] = session[q],
           UNCHANGED idReused
    PROVE  GamesKept'
<1> DEFINE id == clentData[p].lobby
           lobby == LobbyOf(p)
           left == RemoveParticipant(lobby, p)
<1>1. TypeOK
  BY DEF GamesInv, SeatInv, TypeInv
<1>2. id \in DOMAIN lobbies /\ lobby = lobbies[id] /\ lobby \in Lobbies
  BY <1>1, LobbyOfType DEF HasLobby, LobbyOf
<1>3. \A i \in DOMAIN lobbies : /\ SeatsOf(lobbies[i]) \subseteq Participants
                                /\ i # id => p \notin SeatsOf(lobbies[i])
  BY <1>1, SitsInOne DEF GamesInv, TypeOK, Lobbies, Seats, SeatsOf
<1>4. /\ DOMAIN lobbies' = IF IsEmpty(left) THEN DOMAIN lobbies \ {id} ELSE DOMAIN lobbies
      /\ \A i \in DOMAIN lobbies' : lobbies'[i] = IF i = id THEN left ELSE lobbies[i]
      /\ clentData' = IF IsEmpty(left)
                      THEN [q \in Seats |->
                               IF clients[q].lobby = id
                               THEN [clients[q] EXCEPT !.lobby = FreedLobby]
                               ELSE clients[q]]
                      ELSE clients
  <2> HIDE DEF IsEmpty
  <2>1. CASE IsEmpty(left)
    BY <1>2, <2>1 DEF Vacate
  <2>2. CASE ~IsEmpty(left)
    BY <1>1, <1>2, <2>2 DEF Vacate, SetLobby, TypeOK
  <2> QED
    BY <2>1, <2>2
<1>5. \A q \in Seats : clentData'[q].state = clients[q].state
  BY <1>4 DEF Clients
<1>6. \A q \in Participants : q # p =>
          session'[q] = session[q] /\ clentData'[q].state = clentData[q].state
  BY <1>5 DEF Seats
<1>7. ASSUME ~idReused' PROVE GameKept(left, session', clentData')
  <2>1. p \in SeatsOf(lobby) /\ GameKept(lobby, session, clentData)
    BY <1>7, SenderPlays
  <2>2. Waits(lobby, session, clentData)
    BY <2>1 DEF Waits, OpenIn
  <2>3. /\ SeatsOf(left) = SeatsOf(lobby) \ {p}
        /\ left.state = lobby.state
        /\ left.ready1 = lobby.ready1 /\ left.ready2 = lobby.ready2
        /\ Fields2(left) = Fields2(lobby)
    <3>1. SeatsOf(left) = SeatsOf(lobby) \ {p}
      <4> HIDE DEF lobby
      <4> QED
        BY <1>2, RemovedSeat
    <3> HIDE DEF lobby
    <3> QED
      BY <1>2, <3>1 DEF RemoveParticipant, Lobbies, Fields2
  <2>4. OpenIn(left, session', clentData', "session") => OpenIn(lobby, session, clentData, "session")
    BY <1>2, <1>3, <1>6, <2>3 DEF OpenIn
  <2> HIDE DEF left, lobby
  <2> QED
    BY <2>1, <2>2, <2>3, <2>4 DEF GameKept, Sunk
<1> HIDE DEF left
<1>8. ASSUME NEW i \in DOMAIN lobbies', i # id
      PROVE  /\ i \in DOMAIN lobbies /\ lobbies'[i] = lobbies[i]
             /\ \A q \in SeatsOf(lobbies[i]) : session'[q] = "open" =>
                    session[q] = "open" /\ clentData'[q].state = clentData[q].state
  BY <1>3, <1>4, <1>6, <1>8
<1>9. ~idReused' /\ id \in DOMAIN lobbies' => GameKept(lobbies'[id], session', clentData')
  BY <1>4, <1>7
<1> QED
  BY <1>8, <1>9, ElsewhereKept

-----------------------------------------------------------------------------
LEMMA ReadyInLobbyKept ==
    ASSUME GamesInv, NEW p \in Participants, ReadyInLobby(p)
    PROVE  GamesKept'
<1> DEFINE id == clentData[p].lobby
           lobby == LobbyOf(p)
           enemy == GetEnemy(lobby, p)
           clients == [clentData EXCEPT ![p].isReady = TRUE]
           new == StartSession(lobby)
<1>1. SeatInv /\ TypeOK /\ HasLobby(p) /\ UNCHANGED <<session, idReused>>
  BY DEF GamesInv, SeatInv, TypeInv, ReadyInLobby
<1>2. session[p] = "open" /\ clentData[p].state = "lobby"
  BY <1>1, SenderOpen DEF ReadyInLobby
<1>3. CASE ~clients[enemy].isReady
  <2>1. clentData' = clients /\ UNCHANGED lobbies
    BY <1>3 DEF ReadyInLobby
  <2>2. \A q \in Participants : clentData'[q].state = clentData[q].state
    BY <1>1, <2>1 DEF TypeOK, Clients, Seats
  <2> QED
    BY <1>1, <2>1, <2>2, QuietKept
<1>4. CASE clients[enemy].isReady
  <2>1. lobbies' = SetLobby(p, new)
    BY <1>4 DEF ReadyInLobby
  <2>2. /\ enemy \in Participants /\ enemy # p /\ Open(enemy)
        /\ enemy \in SeatsOf(lobby) /\ clentData[enemy].lobby = id
        /\ \A q \in Seats : /\ q \notin {p, enemy} => clentData'[q] = clentData[q]
                            /\ q \in {p, enemy} => clentData'[q].state = "session"
    BY <1>1, <1>4, ReadyEnemy
  <2>3. lobby \in Lobbies /\ new \in Lobbies /\ id \in DOMAIN lobbies
    BY <1>1, LobbyOfType, GameStepType DEF HasLobby
  <2>4. ASSUME ~idReused' PROVE GameKept(new, session', clentData')
    <3>1. p \in SeatsOf(lobby) /\ GameKept(lobby, session, clentData)
      BY <1>1, <1>2, <2>4, SenderPlays
    <3>2. /\ new.p1 = lobby.p1 /\ new.p2 = lobby.p2 /\ new.state = "preparation"
          /\ new.field1.shot = {} /\ new.field2.shot = {}
      <4> HIDE DEF lobby
      <4> QED
        BY <2>3 DEF StartSession, Clear, Lobbies, Fields
    <3>3. {new.p1, new.p2} = {p, enemy}
      <4> HIDE DEF enemy, lobby, new
      <4> QED
        BY <2>2, <3>1, <3>2 DEF SeatsOf
    <3>4. SeatsOf(new) = {p, enemy} /\ ~HasFreeSeat(new)
      BY <2>2, <3>3, ServerAssumption DEF SeatsOf, HasFreeSeat
    <3>5. ~Waits(new, session', clentData')
      <4> HIDE DEF enemy, new
      <4> QED
        BY <2>2, <3>4 DEF Waits, OpenIn, Seats
    <3> HIDE DEF new
    <3> QED
      BY <3>2, <3>5 DEF GameKept, Turns
  <2>5. /\ DOMAIN lobbies' = DOMAIN lobbies /\ lobbies'[id] = new
        /\ \A i \in DOMAIN lobbies' : i # id => lobbies'[i] = lobbies[i]
    <3> HIDE DEF new
    <3> QED
      BY <1>1, <2>1, <2>3 DEF SetLobby, TypeOK
  <2>6. ASSUME NEW i \in DOMAIN lobbies', i # id, NEW q \in SeatsOf(lobbies[i])
        PROVE  session[q] = "open" => clentData'[q].state = clentData[q].state
    <3>1. q # p /\ q # enemy
      BY <1>1, <1>2, <2>2, <2>5, <2>6, SitsInOne DEF Open
    <3>2. q \in Seats
      BY <1>1, <2>5 DEF TypeOK, Lobbies, SeatsOf
    <3> QED
      BY <2>2, <3>1, <3>2
  <2> HIDE DEF new, enemy, lobby
  <2> QED
    BY <1>1, <2>4, <2>5, <2>6, ElsewhereKept
<1> QED
  BY <1>3, <1>4

(* A handler that changes the sender's lobby and no record. *)
LEMMA SetLobbyKept ==
    ASSUME GamesInv, NEW p \in Participants, HasLobby(p), NEW new,
           lobbies' = SetLobby(p, new), UNCHANGED <<clentData, session, idReused>>,
           ~idReused => GameKept(new, session, clentData)
    PROVE  GamesKept'
<1>1. clentData[p].lobby \in DOMAIN lobbies
  BY DEF HasLobby
<1>2. /\ DOMAIN lobbies' = DOMAIN lobbies /\ lobbies'[clentData[p].lobby] = new
      /\ \A i \in DOMAIN lobbies' : i # clentData[p].lobby => lobbies'[i] = lobbies[i]
  BY <1>1 DEF SetLobby, GamesInv, SeatInv, TypeInv, TypeOK
<1> QED
  BY <1>2, ElsewhereKept

(* In a game that has not ended a player in the session waits for nobody. *)
LEMMA PlayingKept ==
    ASSUME GamesInv, ~idReused, NEW p \in Participants, NEW states, Playing(p, states)
    PROVE  /\ session[p] = "open" /\ clentData[p].state = "session"
           /\ p \in SeatsOf(LobbyOf(p)) /\ LobbyOf(p) \in Lobbies
           /\ LobbyOf(p).p1 # LobbyOf(p).p2
           /\ LobbyOf(p).state \in states
           /\ GameKept(LobbyOf(p), session, clentData)
           /\ LobbyOf(p).state # "end" => ~Waits(LobbyOf(p), session, clentData)
           /\ LobbyOf(p).state = "preparation" =>
                  LobbyOf(p).field1.shot = {} /\ LobbyOf(p).field2.shot = {}
<1>1. session[p] = "open" /\ clentData[p].state = "session" /\ LobbyOf(p).state \in states
  BY SenderOpen DEF GamesInv, Playing
<1>2. /\ p \in SeatsOf(LobbyOf(p)) /\ LobbyOf(p) \in Lobbies
      /\ LobbyOf(p).p1 # LobbyOf(p).p2
      /\ GameKept(LobbyOf(p), session, clentData)
  BY <1>1, SenderPlays
<1>3. OpenIn(LobbyOf(p), session, clentData, "session")
  BY <1>1, <1>2 DEF OpenIn
<1>4. LobbyOf(p).state \in {"preparation", "end"} \cup Turns
  BY <1>2 DEF Lobbies, GameStates, Turns
<1> QED
  BY <1>1, <1>2, <1>3, <1>4 DEF GameKept

LEMMA PlaceShipKept ==
    ASSUME GamesInv, NEW p \in Participants, NEW s \in Placements, PlaceShip(p, s)
    PROVE  GamesKept'
<1> DEFINE lobby == LobbyOf(p)
           my == MyField(lobby, p)
           new == SetMyField(lobby, p, SetShip(my, s))
<1>1. Playing(p, {"preparation"}) /\ HasLobby(p) /\ UNCHANGED <<clentData, session, idReused>>
  BY DEF PlaceShip, Playing
<1>2. CASE CanSetShip(my, s)
  <2>1. lobbies' = SetLobby(p, new)
    BY <1>2 DEF PlaceShip
  <2>2. ASSUME ~idReused PROVE GameKept(new, session, clentData)
    <3>1. /\ lobby \in Lobbies /\ lobby.state = "preparation"
          /\ ~Waits(lobby, session, clentData)
          /\ lobby.field1.shot = {} /\ lobby.field2.shot = {}
      BY <1>1, <2>2, PlayingKept
    <3> HIDE DEF lobby
    <3>2. /\ new.p1 = lobby.p1 /\ new.p2 = lobby.p2 /\ new.state = "preparation"
          /\ new.field1.shot = {} /\ new.field2.shot = {}
      <4>1. my \in Fields /\ my.shot = {}
        BY <3>1 DEF MyField, Lobbies
      <4>2. SetShip(my, s).shot = {}
        BY <4>1 DEF SetShip, Fields
      <4> QED
        BY <3>1, <4>2 DEF SetMyField, Lobbies
    <3>3. ~Waits(new, session, clentData)
      BY <3>1, <3>2 DEF Waits, OpenIn, HasFreeSeat, SeatsOf
    <3> HIDE DEF new
    <3> QED
      BY <3>2, <3>3 DEF GameKept, Turns
  <2> HIDE DEF new
  <2> QED
    BY <1>1, <2>1, <2>2, SetLobbyKept
<1>3. CASE ~CanSetShip(my, s)
  BY <1>1, <1>3, QuietKept DEF PlaceShip
<1> QED
  BY <1>2, <1>3

LEMMA ReadyToPlayKept ==
    ASSUME GamesInv, NEW p \in Participants, ReadyToPlay(p)
    PROVE  GamesKept'
<1> DEFINE lobby == LobbyOf(p)
           marked == MarkReady(lobby, p)
<1>1. Playing(p, {"preparation"}) /\ HasLobby(p) /\ UNCHANGED <<clentData, session, idReused>>
  BY DEF ReadyToPlay, Playing
<1>2. lobby \in Lobbies /\ marked \in Lobbies
  BY <1>1, LobbyOfType, GameStepType DEF GamesInv, SeatInv, TypeInv
<1>3. PICK state \in Turns \cup {"preparation"} :
          /\ lobbies' = SetLobby(p, [marked EXCEPT !.state = state])
          /\ state \in Turns => marked.ready1 /\ marked.ready2
  <2>1. CASE marked.ready1 /\ marked.ready2
    BY <2>1 DEF ReadyToPlay
  <2>2. CASE ~(marked.ready1 /\ marked.ready2)
    <3>1. lobbies' = SetLobby(p, marked) /\ lobby.state = "preparation"
      BY <1>1, <2>2 DEF ReadyToPlay, Playing
    <3>2. marked.state = "preparation"
      <4> HIDE DEF lobby
      <4> QED
        BY <1>2, <3>1 DEF MarkReady, Lobbies
    <3>3. [marked EXCEPT !.state = "preparation"] = marked
      <4> HIDE DEF marked
      <4> QED
        BY <1>2, <3>2 DEF Lobbies
    <3> HIDE DEF marked, lobby
    <3> QED
      BY <2>2, <3>1, <3>3 DEF Turns
  <2> QED
    BY <2>1, <2>2
<1> DEFINE new == [marked EXCEPT !.state = state]
<1>4. ASSUME ~idReused PROVE GameKept(new, session, clentData)
  <2>1. /\ lobby \in Lobbies /\ ~Waits(lobby, session, clentData)
        /\ lobby.state = "preparation"
        /\ lobby.field1.shot = {} /\ lobby.field2.shot = {}
    BY <1>1, <1>4, PlayingKept
  <2> HIDE DEF lobby
  <2>2. marked \in Lobbies /\ marked.p1 = lobby.p1 /\ marked.p2 = lobby.p2
        /\ marked.field1 = lobby.field1 /\ marked.field2 = lobby.field2
    BY <2>1, GameStepType DEF MarkReady, Lobbies
  <2> HIDE DEF marked
  <2>3. /\ new.p1 = lobby.p1 /\ new.p2 = lobby.p2 /\ new.state = state
        /\ new.field1 = lobby.field1 /\ new.field2 = lobby.field2
        /\ new.ready1 = marked.ready1 /\ new.ready2 = marked.ready2
    BY <2>2 DEF Lobbies
  <2>4. ~Waits(new, session, clentData)
    BY <2>1, <2>3 DEF Waits, OpenIn, HasFreeSeat, SeatsOf
  <2>5. ~Sunk(new)
    BY <2>1, <2>3 DEF Sunk, Fields2, GameFinished
  <2> HIDE DEF new
  <2> QED
    BY <1>3, <2>1, <2>3, <2>4, <2>5 DEF GameKept, Turns
<1> HIDE DEF new
<1>5. lobbies' = SetLobby(p, new)
  BY <1>3 DEF new
<1> QED
  BY <1>1, <1>4, <1>5, SetLobbyKept

LEMMA ShootKept ==
    ASSUME GamesInv, NEW p \in Participants, NEW c \in Cells, Shoot(p, c)
    PROVE  GamesKept'
<1> DEFINE lobby == LobbyOf(p)
           target == TargetField(lobby, p)
           answer == ShotAnswer(target, c)
           hit == SetTargetField(lobby, p, ShotField(target, c))
           new == IF answer = "m" THEN SwapState(hit, p) ELSE hit
<1>1. Playing(p, Turns) /\ HasLobby(p) /\ UNCHANGED <<clentData, session, idReused>>
  BY DEF Shoot, Playing
<1>2. lobbies' = SetLobby(p, new) /\ answer # "g"
  BY DEF Shoot
<1>3. ASSUME ~idReused PROVE GameKept(new, session, clentData)
  <2>1. /\ lobby \in Lobbies /\ lobby.state \in Turns
        /\ GameKept(lobby, session, clentData)
    BY <1>1, <1>3, PlayingKept
  <2>2. ~Waits(lobby, session, clentData)
    BY <2>1 DEF GameKept
  <2>3. /\ target \in Fields
        /\ ShotField(target, c).ship = target.ship
        /\ GameFinished(ShotField(target, c)) => GameFinished(target)
    <3>1. target \in Fields
      BY <2>1, FieldOfType
    <3> HIDE DEF target
    <3> QED
      BY <1>2, <3>1, ShotSinks
  <2> DEFINE shot == ShotField(target, c)
  <2>4. target \in Fields2(lobby) /\ ~(target.ship # {} /\ GameFinished(target))
    BY <2>1 DEF GameKept, Sunk, Fields2, TargetField
  <2>5. ~(shot.ship # {} /\ GameFinished(shot))
    BY <2>3, <2>4
  <2> HIDE DEF shot, answer, target, lobby
  <2>6. /\ hit.p1 = lobby.p1 /\ hit.p2 = lobby.p2 /\ hit.state = lobby.state
        /\ hit.ready1 = lobby.ready1 /\ hit.ready2 = lobby.ready2
        /\ Fields2(hit) \subseteq Fields2(lobby) \cup {shot}
    BY <2>1 DEF shot, SetTargetField, Lobbies, Fields2
  <2>7. hit \in Lobbies
    <3>1. shot \in Fields
      BY <2>3, ShotFieldType DEF shot
    <3> QED
      BY <2>1, <3>1, SetFieldType DEF shot
  <2> HIDE DEF hit
  <2>8. /\ new.p1 = lobby.p1 /\ new.p2 = lobby.p2 /\ new.state \in Turns
        /\ new.ready1 = lobby.ready1 /\ new.ready2 = lobby.ready2
        /\ Fields2(new) = Fields2(hit)
    BY <2>1, <2>6, <2>7 DEF SwapState, Lobbies, Fields2, Turns
  <2> HIDE DEF new
  <2>9. ~Sunk(new)
    BY <2>1, <2>5, <2>6, <2>8 DEF GameKept, Sunk
  <2>10. ~Waits(new, session, clentData)
    BY <2>2, <2>8 DEF Waits, OpenIn, HasFreeSeat, SeatsOf
  <2> QED
    BY <2>1, <2>8, <2>9, <2>10 DEF GameKept, Turns
<1> HIDE DEF new
<1> QED
  BY <1>1, <1>2, <1>3, SetLobbyKept

(* Whoever wins, the other seat's player, if his record names a lobby at all, is in
   the winner's: the end is written into one lobby. *)
LEMMA WonInOne ==
    ASSUME SeatInv, NEW p \in Participants, session[p] = "open", HasLobby(p),
           LobbyOf(p).p1 # LobbyOf(p).p2, p \in SeatsOf(LobbyOf(p)),
           clentData[GetEnemy(LobbyOf(p), p)].lobby \in DOMAIN lobbies
    PROVE  clentData[GetEnemy(LobbyOf(p), p)].lobby = clentData[p].lobby
<1> DEFINE lobby == LobbyOf(p)
           enemy == GetEnemy(lobby, p)
<1>1. clentData[p].lobby \in DOMAIN lobbies /\ lobby = lobbies[clentData[p].lobby]
  BY DEF HasLobby, LobbyOf
<1>2. lobby \in Lobbies
  BY LobbyOfType DEF SeatInv, TypeInv
<1>3. enemy \in Seats /\ (enemy # NoOne => enemy \in SeatsOf(lobby))
  BY <1>2 DEF GetEnemy, SeatsOf, Lobbies
<1>4. clentData[enemy] # SharedClient
  BY ServerAssumption DEF SharedClient, SeatInv, TypeInv, TypeOK
<1>5. enemy # NoOne /\ Open(enemy)
  BY <1>3, <1>4 DEF SeatInv, GoneAreForgotten, NoneDetached, Seats, Open
<1> QED
  BY <1>1, <1>3, <1>5 DEF SeatInv, SeatsOwned

LEMMA WinKept ==
    ASSUME GamesInv, NEW p \in Participants, NEW c \in Cells, Win(p, c)
    PROVE  GamesKept'
<1> DEFINE id == clentData[p].lobby
           lobby == LobbyOf(p)
           enemy == GetEnemy(lobby, p)
           target == TargetField(lobby, p)
           theirs == clentData[enemy].lobby
           shot == ShotField(target, c)
           hit == SetTargetField(lobby, p, shot)
           won == ResetReady(EndGame(hit))
<1>1. /\ Playing(p, Turns) /\ HasLobby(p) /\ UNCHANGED <<session, idReused>>
      /\ ShotAnswer(target, c) = "g"
  BY DEF Win, Playing
<1>2. SeatInv /\ TypeOK /\ id \in DOMAIN lobbies
  BY <1>1 DEF GamesInv, SeatInv, TypeInv, HasLobby
<1>3. \A q \in Seats : clentData'[q].state = clentData[q].state
  <2>1. SeatsKept
    BY <1>2, WinTypeInv DEF SeatInv
  <2>2. \A q \in Participants : session[q] = session'[q]
    BY <1>1
  <2> DEFINE one == [clentData EXCEPT ![p].isReady = FALSE]
  <2>3. clentData' = clentData \/ clentData' = [one EXCEPT ![enemy].isReady = FALSE]
    BY DEF Win
  <2>4. one \in [Seats -> Clients] /\ \A q \in Seats : one[q].state = clentData[q].state
    BY <1>2 DEF TypeOK, Clients, Seats
  <2> HIDE DEF one, enemy
  <2> QED
    BY <2>3, <2>4 DEF Clients
<1>4. CASE theirs \in DOMAIN lobbies
  <2>1. ASSUME ~idReused
        PROVE  /\ lobby \in Lobbies /\ lobby.state \in Turns
               /\ GameKept(lobby, session, clentData)
               /\ lobby.p1 # lobby.p2 /\ p \in SeatsOf(lobby) /\ session[p] = "open"
    BY <1>1, <2>1, PlayingKept
  <2>2. ASSUME ~idReused PROVE theirs = id
    BY <1>1, <1>2, <1>4, <2>1, <2>2, WonInOne
  <2>3. lobbies' = [i \in DOMAIN lobbies |->
                       IF i = id THEN won
                       ELSE IF i = theirs THEN EndGame(lobbies[i])
                       ELSE lobbies[i]]
    BY <1>4 DEF Win
  <2>4. ASSUME ~idReused PROVE GameKept(won, session', clentData')
    <3>1. target \in Fields /\ target \in {lobby.field1, lobby.field2}
      BY <2>1, <2>4, FieldOfType DEF TargetField
    <3>2. shot \in Fields /\ shot.ship # {} /\ GameFinished(shot)
      <4> HIDE DEF target
      <4> QED
        BY <1>1, <3>1, ShotSinks, ShotFieldType
    <3> HIDE DEF shot, target, lobby
    <3>3. hit \in Lobbies /\ shot \in {hit.field1, hit.field2}
      BY <2>1, <2>4, <3>2, SetFieldType DEF SetTargetField, Lobbies
    <3>4. hit.p1 = lobby.p1 /\ hit.p2 = lobby.p2
      BY <2>1, <2>4 DEF SetTargetField, Lobbies
    <3> HIDE DEF hit
    <3>5. /\ won.p1 = lobby.p1 /\ won.p2 = lobby.p2 /\ won.state = "end"
          /\ ~won.ready1 /\ ~won.ready2 /\ shot \in {won.field1, won.field2}
      BY <3>3, <3>4 DEF ResetReady, EndGame, Lobbies
    <3>6. Sunk(won)
      BY <3>2, <3>5 DEF Sunk, Fields2
    <3> HIDE DEF won
    <3> QED
      BY <3>5, <3>6 DEF GameKept, Turns
  <2> HIDE DEF won, theirs, lobby
  <2>5. /\ id \in DOMAIN lobbies' => lobbies'[id] = won
        /\ ~idReused => \A i \in DOMAIN lobbies' :
               i # id => i \in DOMAIN lobbies /\ lobbies'[i] = lobbies[i]
    BY <2>2, <2>3
  <2>6. CASE ~idReused
    <3>1. \A i \in DOMAIN lobbies' : SeatsOf(lobbies[i]) \subseteq Seats
      BY <1>2, <2>3 DEF TypeOK, Lobbies, SeatsOf
    <3> QED
      BY <1>1, <1>3, <2>4, <2>5, <2>6, <3>1, ElsewhereKept
  <2>7. CASE idReused
    BY <1>1, <2>7 DEF GamesKept
  <2> QED
    BY <2>6, <2>7
<1>5. CASE theirs \notin DOMAIN lobbies
  <2>1. UNCHANGED <<lobbies, clentData>>
    BY <1>5 DEF Win
  <2> QED
    BY <1>1, <2>1, QuietKept
<1> QED
  BY <1>4, <1>5

LEMMA ContinueKept ==
    ASSUME GamesInv, NEW p \in Participants, Continue(p)
    PROVE  GamesKept'
<1> DEFINE id == clentData[p].lobby
           lobby == LobbyOf(p)
           enemy == GetEnemy(lobby, p)
           clients == [clentData EXCEPT ![p].state = "lobby"]
           again == [lobby EXCEPT !.state = "preparation"]
           new == IF clients[enemy].state = "lobby" THEN again ELSE lobby
<1>1. Playing(p, {"end"}) /\ HasLobby(p) /\ UNCHANGED <<session, idReused>>
  BY DEF Continue, Playing
<1>2. SeatInv /\ TypeOK /\ id \in DOMAIN lobbies /\ lobby = lobbies[id] /\ lobby \in Lobbies
  BY <1>1, LobbyOfType DEF GamesInv, SeatInv, TypeInv, HasLobby, LobbyOf
<1>3. \A q \in Seats : /\ q # p => clentData'[q].state = clentData[q].state
                       /\ clients[q].state = clentData'[q].state
                       /\ q = p => clentData'[q].state = "lobby"
  <2>1. clentData' = [clients EXCEPT ![p].isReady = FALSE]
    BY DEF Continue
  <2>2. clients \in [Seats -> Clients]
    BY <1>2 DEF TypeOK, Clients, ClientStates, Seats
  <2>3. \A q \in Seats : /\ q # p => clients[q] = clentData[q]
                         /\ q = p => clients[q].state = "lobby"
    BY <1>2 DEF TypeOK, Clients
  <2> HIDE DEF clients
  <2> QED
    BY <2>1, <2>2, <2>3 DEF Clients
<1>4. lobbies' = SetLobby(p, new)
  <2>1. CASE clients[enemy].state = "lobby"
    BY <2>1 DEF Continue
  <2>2. CASE clients[enemy].state # "lobby"
    <3>1. UNCHANGED lobbies
      BY <2>2 DEF Continue
    <3>2. SetLobby(p, lobby) = lobbies
      BY <1>2 DEF SetLobby, TypeOK
    <3> QED
      BY <2>2, <3>1, <3>2
  <2> QED
    BY <2>1, <2>2
<1>5. ASSUME ~idReused PROVE GameKept(new, session', clentData')
  <2>1. /\ lobby.state = "end" /\ GameKept(lobby, session, clentData)
        /\ lobby.p1 # lobby.p2 /\ p \in SeatsOf(lobby)
    BY <1>1, <1>5, PlayingKept
  <2>2. ~lobby.ready1 /\ ~lobby.ready2 /\ Sunk(lobby)
    BY <2>1 DEF GameKept
  <2>3. CASE clients[enemy].state = "lobby"
    <3>1. enemy \in Seats /\ \A q \in SeatsOf(lobby) : q \in Seats /\ q \in {p, enemy}
      BY <1>2, <2>1 DEF GetEnemy, SeatsOf, Lobbies
    <3> HIDE DEF clients, enemy, lobby
    <3>2. \A q \in SeatsOf(lobby) : clentData'[q].state = "lobby"
      BY <1>3, <2>3, <3>1
    <3>3. /\ again.p1 = lobby.p1 /\ again.p2 = lobby.p2 /\ again.state = "preparation"
          /\ ~again.ready1 /\ ~again.ready2
      BY <1>2, <2>2 DEF Lobbies
    <3>4. ~OpenIn(again, session', clentData', "session")
      BY <3>2, <3>3 DEF OpenIn, SeatsOf
    <3>5. new = again
      BY <2>3
    <3> HIDE DEF again, new
    <3> QED
      BY <3>3, <3>4, <3>5 DEF GameKept, Turns
  <2>4. CASE clients[enemy].state # "lobby"
    BY <2>1, <2>2, <2>4 DEF GameKept, Turns
  <2> QED
    BY <2>3, <2>4
<1> HIDE DEF new, lobby, clients, enemy
<1>6. /\ DOMAIN lobbies' = DOMAIN lobbies /\ lobbies'[id] = new
      /\ \A i \in DOMAIN lobbies' : i # id => lobbies'[i] = lobbies[i]
  BY <1>2, <1>4 DEF SetLobby, TypeOK
<1>7. ASSUME NEW i \in DOMAIN lobbies', i # id, NEW q \in SeatsOf(lobbies[i])
      PROVE  clentData'[q].state = clentData[q].state
  <2>1. session[p] = "open"
    BY <1>1, <1>2, SenderOpen DEF Playing
  <2>2. q # p
    BY <1>2, <1>6, <1>7, <2>1, SitsInOne
  <2>3. q \in Seats
    BY <1>2, <1>6 DEF TypeOK, Lobbies, SeatsOf
  <2> QED
    BY <1>3, <2>2, <2>3
<1> QED
  BY <1>1, <1>5, <1>6, <1>7, ElsewhereKept

LEMMA SessionEventKept ==
    ASSUME GamesInv, OnlyReadErrors, NEW p \in Participants, SessionEvent(p)
    PROVE  GamesKept'
<1>1. TypeOK /\ UNCHANGED <<lobbies, idReused>> /\ session[p] # "detached"
  BY DEF GamesInv, SeatInv, TypeInv, NoneDetached, SessionEvent, Connect, ReadError, WriteError, Flushed
<1>2. \A q \in Participants : q # p =>
          session'[q] = session[q] /\ clentData'[q] = clentData[q]
  BY <1>1 DEF SessionEvent, Connect, ReadError, WriteError, Flushed, StopReading, Forget,
     TypeOK, Seats
<1>3. session[p] = "fresh" \/ session'[p] # "open"
  BY <1>1 DEF SessionEvent, Connect, ReadError, WriteError, Flushed, StopReading,
     OnlyReadErrors, TypeOK
<1> QED
  BY <1>1, <1>2, <1>3, QuietKept

(* A player who stops reading, with no lobby changed. *)
LEMMA StopKept ==
    ASSUME GamesInv, NEW p \in Participants, NEW writing \in BOOLEAN, StopReading(p, writing),
           clentData' = Forget(p, clentData), UNCHANGED <<lobbies, idReused>>
    PROVE  GamesKept'
<1>1. TypeOK
  BY DEF GamesInv, SeatInv, TypeInv
<1>2. session'[p] # "open"
  BY <1>1 DEF StopReading, TypeOK
<1>3. \A q \in Participants : q # p =>
          session'[q] = session[q] /\ clentData'[q] = clentData[q]
  BY <1>1 DEF StopReading, Forget, TypeOK, Seats
<1> QED
  BY <1>2, <1>3, QuietKept

LEMMA HandleMessageConnectedKept ==
    ASSUME GamesInv, NEW p \in Participants, HandleMessageConnected(p)
    PROVE  GamesKept'
<1>1. TypeOK
  BY DEF GamesInv, SeatInv, TypeInv
<1>2. session[p] = "open" /\ clentData[p].state = "connected"
  BY SenderOpen DEF GamesInv, HandleMessageConnected, Create, Join, ConnectTo, Refuse, List,
     QuitConnected
<1>3. CASE Create(p)
  <2> DEFINE id == lobbiesCount
             lobby == IF id \in DOMAIN lobbies THEN lobbies[id] ELSE NewLobby
  <2>1. lobby \in Lobbies
    BY <1>1, NewLobbyType DEF TypeOK
  <2>2. /\ lobbies' = [i \in DOMAIN lobbies \cup {id} |->
                          IF i = id THEN AddParticipant(lobby, p) ELSE lobbies[i]]
        /\ EnterLobby(p, id)
        /\ idReused' = (idReused \/ id \in DOMAIN lobbies)
        /\ UNCHANGED session
    BY <1>3 DEF Create
  <2>3. /\ DOMAIN lobbies' = DOMAIN lobbies \cup {id}
        /\ \A i \in DOMAIN lobbies' :
               lobbies'[i] = IF i = id THEN AddParticipant(lobby, p) ELSE lobbies[i]
    BY <2>2
  <2>4. ~idReused' => ~idReused /\ HasFreeSeat(lobby)
    BY <2>2 DEF HasFreeSeat, NewLobby
  <2>5. /\ id \in DOMAIN lobbies => lobby = lobbies[id]
        /\ id \notin DOMAIN lobbies => lobby = NewLobby
    OBVIOUS
  <2> HIDE DEF lobby, id
  <2> QED
    BY <1>2, <2>1, <2>2, <2>3, <2>4, <2>5, EnteredKept
<1>4. ASSUME NEW id \in FreeLobbies, NEW letter, Enter(p, id, letter)
      PROVE  GamesKept'
  <2>1. id \in DOMAIN lobbies /\ lobbies[id] \in Lobbies /\ HasFreeSeat(lobbies[id])
    BY <1>1 DEF FreeLobbies, TypeOK
  <2>2. /\ lobbies' = [lobbies EXCEPT ![id] = AddParticipant(@, p)]
        /\ EnterLobby(p, id)
        /\ UNCHANGED <<session, idReused>>
    BY <1>4 DEF Enter
  <2>3. /\ DOMAIN lobbies' = DOMAIN lobbies \cup {id}
        /\ \A i \in DOMAIN lobbies' :
               lobbies'[i] = IF i = id THEN AddParticipant(lobbies[id], p) ELSE lobbies[i]
    BY <1>1, <2>1, <2>2 DEF TypeOK
  <2> QED
    BY <1>2, <2>1, <2>2, <2>3, EnteredKept
<1>5. CASE Join(p)
  BY <1>4, <1>5 DEF Join
<1>6. CASE \E id \in Ids : ConnectTo(p, id)
  BY <1>4, <1>6 DEF ConnectTo
<1>7. CASE Refuse(p) \/ List(p)
  BY <1>7, QuietKept DEF Refuse, List
<1>8. CASE QuitConnected(p)
  BY <1>8, StopKept DEF QuitConnected
<1> QED
  BY <1>3, <1>5, <1>6, <1>7, <1>8 DEF HandleMessageConnected

LEMMA HandleMessageLobbyKept ==
    ASSUME GamesInv, NEW p \in Participants, HandleMessageLobby(p)
    PROVE  GamesKept'
<1>1. TypeOK
  BY DEF GamesInv, SeatInv, TypeInv
<1>2. session[p] = "open" /\ clentData[p].state = "lobby"
  BY SenderOpen DEF GamesInv, HandleMessageLobby, ReadyInLobby, Unready, Leave, QuitLobby
<1>3. CASE ReadyInLobby(p)
  BY <1>3, ReadyInLobbyKept
<1>4. CASE Unready(p)
  <2>1. \A q \in Participants : clentData'[q].state = clentData[q].state
    BY <1>1, <1>4 DEF Unready, TypeOK, Clients, Seats
  <2> QED
    BY <1>4, <2>1, QuietKept DEF Unready
<1>5. CASE Leave(p)
  <2> DEFINE clients == [clentData EXCEPT ![p].state = "connected"]
  <2>1. clients \in [Seats -> Clients] /\ \A q \in Seats : q # p => clients[q] = clentData[q]
    BY <1>1 DEF TypeOK, Clients, ClientStates, Seats
  <2>2. HasLobby(p) /\ Vacate(p, clients) /\ UNCHANGED <<session, idReused>>
    BY <1>5 DEF Leave
  <2> HIDE DEF clients
  <2> QED
    BY <1>2, <2>1, <2>2, VacatedKept
<1>6. CASE QuitLobby(p)
  <2> DEFINE clients == Forget(p, clentData)
  <2>1. clients \in [Seats -> Clients] /\ \A q \in Seats : q # p => clients[q] = clentData[q]
    BY <1>1, ForgetType DEF TypeOK, Forget
  <2>2. \A q \in Participants : q # p => session'[q] = session[q]
    BY <1>1, <1>6 DEF QuitLobby, StopReading, TypeOK
  <2>3. HasLobby(p) /\ Vacate(p, clients) /\ UNCHANGED idReused
    BY <1>6 DEF QuitLobby
  <2> HIDE DEF clients
  <2> QED
    BY <1>2, <2>1, <2>2, <2>3, VacatedKept
<1> QED
  BY <1>3, <1>4, <1>5, <1>6 DEF HandleMessageLobby

LEMMA HandleMessageSessionKept ==
    ASSUME GamesInv, NEW p \in Participants, HandleMessageSession(p)
    PROVE  GamesKept'
<1>1. CASE (\E c \in Cells : RepeatShot(p, c)) \/ WrongTurn(p) \/ Rebroadcast(p)
  BY <1>1, QuietKept DEF RepeatShot, WrongTurn, Rebroadcast
<1>2. CASE Unexpected(p)
  BY <1>2, QuietKept, StopKept DEF Unexpected
<1> QED
  BY <1>1, <1>2, PlaceShipKept, ReadyToPlayKept, ShootKept, WinKept, ContinueKept
  DEF HandleMessageSession

LEMMA NextGamesInv ==
    ASSUME GamesInv, OnlyReadErrors, [Next]_vars
    PROVE  GamesInv'
<1>1. SeatInv'
  BY NextSeatInv DEF GamesInv
<1>2. CASE UNCHANGED vars \/ \E p \in Participants : FollowDeadLobby(p)
  BY <1>1, <1>2, QuietKept DEF vars, FollowDeadLobby, GamesInv
<1>3. ASSUME NEW p \in Participants,
             \/ SessionEvent(p)
             \/ HandleMessageConnected(p)
             \/ HandleMessageLobby(p)
             \/ HandleMessageSession(p)
      PROVE  GamesKept'
  BY <1>3, SessionEventKept, HandleMessageConnectedKept, HandleMessageLobbyKept,
     HandleMessageSessionKept
<1> QED
  BY <1>1, <1>2, <1>3 DEF Next, GamesInv

LEMMA AlwaysGamesInv == OnlyReadErrors => (Spec => []GamesInv)
<1> SUFFICES ASSUME OnlyReadErrors PROVE Spec => []GamesInv
  OBVIOUS
<1>1. GamesInv /\ [Next]_vars => GamesInv'
  BY NextGamesInv
<1> QED
  BY InitGamesInv, <1>1, PTL DEF Spec

(* While turns are played both seats are taken, and whoever reads is in the session. *)
THEOREM ServerTurnsHaveTwoPlayers == OnlyReadErrors => (Spec => []TurnsHaveTwoPlayers)
<1>1. GamesInv => TurnsHaveTwoPlayers
  <2> SUFFICES ASSUME GamesInv, ~idReused, NEW id \in DOMAIN lobbies, lobbies[id].state \in Turns
               PROVE  /\ NoOne \notin {lobbies[id].p1, lobbies[id].p2}
                      /\ \A q \in SeatsOf(lobbies[id]) :
                             Open(q) => clentData[q].state = "session"
    BY DEF TurnsHaveTwoPlayers
  <2>1. ~Waits(lobbies[id], session, clentData)
    BY DEF GamesInv, GamesKept, GameKept
  <2>2. ASSUME NEW q \in SeatsOf(lobbies[id]), Open(q)
        PROVE  clentData[q].state = "session"
    <3>1. clentData[q].state # "connected" /\ clentData[q].state # "lobby"
      BY <2>1, <2>2 DEF GamesInv, SeatInv, SeatsOwned, Waits, OpenIn, Open
    <3>2. clentData[q] \in Clients
      BY DEF GamesInv, SeatInv, TypeInv, TypeOK, Lobbies, SeatsOf
    <3> QED
      BY <3>1, <3>2 DEF Clients, ClientStates
  <2> QED
    BY <2>1, <2>2 DEF Waits, HasFreeSeat
<1> QED
  BY AlwaysGamesInv, <1>1, PTL

(* A lobby in which a player waits holds nothing over from the last game that could
   start the turns early. *)
THEOREM ServerLobbyHoldsNoStaleStart == OnlyReadErrors => (Spec => []LobbyHoldsNoStaleStart)
<1>1. GamesInv => LobbyHoldsNoStaleStart
  BY DEF GamesInv, GamesKept, GameKept, Waits, OpenIn, LobbyHoldsNoStaleStart, Open
<1> QED
  BY AlwaysGamesInv, <1>1, PTL

(* Turns are played on fields of which none with ships is sunk, and end when one is. *)
THEOREM ServerEndMeansSunk == OnlyReadErrors => (Spec => []EndMeansSunk)
<1>1. GamesInv => EndMeansSunk
  BY DEF GamesInv, GamesKept, GameKept, Sunk, EndMeansSunk
<1> QED
  BY AlwaysGamesInv, <1>1, PTL

-----------------------------------------------------------------------------
(* Dead objects.  A delivery to one, two or three recipients finds one of them dead. *)
LEMMA DeadRecipient ==
    ASSUME NEW a, NEW m, NEW b, NEW n, NEW c, NEW k, fault' # "none"
    PROVE  /\ Deliver(WriteMsg(m, a)) => ~Alive(a)
           /\ Deliver(WriteMsg(m, a) \o WriteMsg(n, b)) => ~Alive(a) \/ ~Alive(b)
           /\ Deliver(WriteMsg(m, a) \o (WriteMsg(n, b) \o WriteMsg(k, c))) =>
                  ~Alive(a) \/ ~Alive(b) \/ ~Alive(c)
BY DEF Deliver, WriteMsg

(* What follows a dead object leaves the seats and sessions as they are, and the cause
   with them. *)
Cause ==
    \/ idReused
    \/ \E id \in DOMAIN lobbies :
          \E q \in SeatsOf(lobbies[id]) : ~Open(q) \/ clentData[q].lobby # id

LEMMA DeadSeatIsCause ==
    ASSUME NEW id \in DOMAIN lobbies, NEW q \in SeatsOf(lobbies[id]), ~Alive(q),
           SeatsKept, UNCHANGED session
    PROVE  Cause'
<1>1. q # NoOne /\ session'[q] # "open"
  BY DEF SeatsOf, Alive
<1>2. id \in DOMAIN lobbies' /\ q \in SeatsOf(lobbies'[id])
  BY DEF SeatsKept, SeatsOf
<1> QED
  BY <1>1, <1>2 DEF Cause, Open

(* Nobody but a seat of the sender's lobby is written to, and an empty seat only in a
   lobby that waits, where no handler writes to both. *)
LEMMA WrittenLobby ==
    ASSUME GamesInv, ~idReused, NEW p \in Participants, HasLobby(p),
           NEW q, q \in {LobbyOf(p).p1, LobbyOf(p).p2}, ~Alive(q),
           ~HasFreeSeat(LobbyOf(p)), SeatsKept, UNCHANGED session
    PROVE  Cause'
<1>1. q \in SeatsOf(LobbyOf(p))
  BY DEF SeatsOf, HasFreeSeat
<1> QED
  BY <1>1, DeadSeatIsCause DEF HasLobby, LobbyOf

LEMMA SenderAlive ==
    ASSUME SeatInv, NEW p \in Participants, NEW state, Handling(p, state)
    PROVE  /\ Alive(p) /\ fault = "none"
           /\ \A letter : Reply(letter, p) => fault' = "none"
<1>1. Alive(p) /\ fault = "none"
  BY ServerAssumption, SenderOpen DEF Alive, Handling
<1>2. \A m : Deliver(WriteMsg(m, p)) /\ fault' # "none" => ~Alive(p)
  BY DeadRecipient
<1> QED
  BY <1>1, <1>2 DEF Reply

LEMMA PlayingFault ==
    ASSUME GamesInv, ~idReused, NEW p \in Participants, HandleMessageSession(p), fault' # "none"
    PROVE  Cause'
<1>1. SeatInv /\ SeatsKept
  BY HandleMessageSessionTypeInv DEF GamesInv, SeatInv
<1>2. /\ HasLobby(p) /\ Handling(p, "session")
      /\ LobbyOf(p).state \in GameStates
      /\ Playing(p, GameStates)
  BY DEF HandleMessageSession, PlaceShip, ReadyToPlay, RepeatShot, Shoot, Win, WrongTurn,
     Rebroadcast, Continue, Unexpected, Playing, GameStates, Turns
<1>3. /\ fault = "none"
      /\ \A letter : ~Reply(letter, p)
  BY <1>1, <1>2, SenderAlive
<1>4. LobbyOf(p).state # "end" => ~HasFreeSeat(LobbyOf(p))
  BY <1>2, PlayingKept DEF Waits
<1>5. ASSUME NEW c \in Cells, Win(p, c), clentData[GetEnemy(LobbyOf(p), p)].lobby \notin DOMAIN lobbies
      PROVE  Cause'
  <2> DEFINE enemy == GetEnemy(LobbyOf(p), p)
  <2>1. enemy \in SeatsOf(LobbyOf(p)) /\ UNCHANGED <<lobbies, clentData, session>>
    BY <1>4, <1>5 DEF Win, Playing, GetEnemy, SeatsOf, HasFreeSeat, Turns
  <2> HIDE DEF enemy
  <2>2. clentData[enemy].lobby # clentData[p].lobby
    BY <1>2, <1>5 DEF HasLobby, enemy
  <2> QED
    BY <1>2, <2>1, <2>2 DEF Cause, HasLobby, LobbyOf
<1>6. CASE \/ ReadyToPlay(p)
           \/ \E c \in Cells : Shoot(p, c)
           \/ \E c \in Cells : Win(p, c)
           \/ Rebroadcast(p)
  <2>1. UNCHANGED session /\ LobbyOf(p).state # "end"
    BY <1>6 DEF ReadyToPlay, Shoot, Win, Rebroadcast, Playing, Turns
  <2>2. CASE \E q \in {LobbyOf(p).p1, LobbyOf(p).p2} : ~Alive(q)
    BY <1>1, <1>2, <1>4, <2>1, <2>2, WrittenLobby
  <2>3. CASE ~\E q \in {LobbyOf(p).p1, LobbyOf(p).p2} : ~Alive(q)
    <3>1. \A m : ~Deliver(WriteLobby(m, LobbyOf(p)))
      BY <2>3, DeadRecipient DEF WriteLobby
    <3>2. CASE \E c \in Cells : Shoot(p, c)
      BY <3>1, <3>2 DEF Shoot, Announce
    <3>3. CASE Rebroadcast(p)
      BY <3>1, <3>3 DEF Rebroadcast
    <3>4. CASE \E c \in Cells : Win(p, c)
      BY <1>5, <3>1, <3>4 DEF Win, Announce
    <3>5. CASE ReadyToPlay(p)
      <4> DEFINE lobby == MarkReady(LobbyOf(p), p)
      <4>1. lobby.p1 = LobbyOf(p).p1 /\ lobby.p2 = LobbyOf(p).p2
        BY <1>2, LobbyOfType, GameStepsKeepSeats DEF GamesInv, SeatInv, TypeInv
      <4>2. PICK turn \in Turns :
                LET started == [lobby EXCEPT !.state = turn]
                    first == Mover(started)
                    second == IF turn = "turn_1" THEN lobby.p2 ELSE lobby.p1
                IN  Deliver(WriteMsg(Say("f"), first) \o WriteMsg(Say("s"), second))
        BY <1>3, <3>5 DEF ReadyToPlay
      <4> DEFINE first == Mover([lobby EXCEPT !.state = turn])
                 second == IF turn = "turn_1" THEN lobby.p2 ELSE lobby.p1
      <4>3. first \in {lobby.p1, lobby.p2} /\ second \in {lobby.p1, lobby.p2}
        BY DEF Mover, MarkReady
      <4> HIDE DEF first, second, lobby
      <4>4. Deliver(WriteMsg(Say("f"), first) \o WriteMsg(Say("s"), second))
        BY <4>2 DEF first, second
      <4> QED
        BY <2>3, <4>1, <4>3, <4>4, DeadRecipient
    <3> QED
      BY <1>6, <3>2, <3>3, <3>4, <3>5
  <2> QED
    BY <2>2, <2>3
<1> QED
  BY <1>3, <1>6 DEF HandleMessageSession, PlaceShip, RepeatShot, WrongTurn, Continue, Unexpected

LEMMA ReadyInLobbyFault ==
    ASSUME GamesInv, ~idReused, NEW p \in Participants, ReadyInLobby(p)
    PROVE  fault' = "none" \/ Cause'
<1> DEFINE lobby == LobbyOf(p)
           enemy == GetEnemy(lobby, p)
           clients == [clentData EXCEPT ![p].isReady = TRUE]
<1>1. SeatInv /\ TypeOK /\ HasLobby(p) /\ Handling(p, "lobby")
  BY DEF GamesInv, SeatInv, TypeInv, ReadyInLobby
<1>2. Alive(p) /\ \A letter : Reply(letter, p) => fault' = "none"
  BY <1>1, SenderAlive
<1>3. CASE ~clients[enemy].isReady
  BY <1>2, <1>3 DEF ReadyInLobby
<1>4. CASE clients[enemy].isReady
  <2>1. enemy \in Participants /\ Open(enemy) /\ enemy # p
    BY <1>1, <1>4, ReadyEnemy
  <2>2. p \in SeatsOf(lobby)
    BY <1>1, SenderPlays, SenderOpen
  <2>3. {lobby.p1, lobby.p2} = {p, enemy}
    BY <2>1, <2>2 DEF GetEnemy, SeatsOf
  <2>4. Alive(enemy)
    BY <2>1, ServerAssumption DEF Alive, Open
  <2>5. Deliver(WriteMsg(Say("r"), p) \o WriteLobby(Say("s"), lobby))
    BY <1>4 DEF ReadyInLobby
  <2> HIDE DEF enemy, lobby
  <2>6. lobby.p1 \in {p, enemy} /\ lobby.p2 \in {p, enemy}
    BY <2>3
  <2> QED
    BY <1>2, <2>4, <2>5, <2>6, DeadRecipient DEF WriteLobby
<1> QED
  BY <1>3, <1>4

LEMMA NextFault ==
    ASSUME GamesInv, FaultsHaveCause, [Next]_vars
    PROVE  FaultsHaveCause'
<1>1. CASE UNCHANGED vars
  BY <1>1 DEF vars, FaultsHaveCause, SeatsOf, Open
<1>2. idReused => idReused'
  BY DEF Next, vars, SessionEvent, Connect, ReadError, WriteError, Flushed,
     HandleMessageConnected, Create, Join, ConnectTo, Enter, Refuse, List, QuitConnected,
     HandleMessageLobby, ReadyInLobby, Unready, Leave, QuitLobby,
     HandleMessageSession, PlaceShip, ReadyToPlay, RepeatShot, Shoot, Win, WrongTurn,
     Rebroadcast, Continue, Unexpected, FollowDeadLobby
<1>3. ASSUME NEW p \in Participants, ~idReused,
             \/ SessionEvent(p)
             \/ HandleMessageConnected(p)
             \/ HandleMessageLobby(p)
             \/ HandleMessageSession(p)
             \/ FollowDeadLobby(p)
      PROVE  fault' = "none" \/ Cause'
  <2>1. CASE SessionEvent(p)
    BY <2>1 DEF SessionEvent, Connect, ReadError, WriteError, Flushed
  <2>2. CASE HandleMessageConnected(p)
    <3>1. Handling(p, "connected") /\ \E letter : Reply(letter, p)
      BY <2>2 DEF HandleMessageConnected, Create, Join, ConnectTo, Enter, Refuse, List,
         QuitConnected
    <3> QED
      BY <3>1, SenderAlive DEF GamesInv
  <2>3. CASE HandleMessageLobby(p)
    <3>1. Handling(p, "lobby") /\ (ReadyInLobby(p) \/ \E letter : Reply(letter, p))
      BY <2>3 DEF HandleMessageLobby, ReadyInLobby, Unready, Leave, QuitLobby
    <3> QED
      BY <1>3, <3>1, SenderAlive, ReadyInLobbyFault DEF GamesInv
  <2>4. CASE HandleMessageSession(p)
    BY <1>3, <2>4, PlayingFault
  <2>5. CASE FollowDeadLobby(p)
    <3>1. \E state \in {"lobby", "session"} : Handling(p, state)
      BY <2>5 DEF FollowDeadLobby
    <3>2. session[p] = "open" /\ clentData[p].state # "connected"
      BY <3>1, SenderOpen DEF GamesInv
    <3> QED
      BY <1>3, <2>5, <3>2, SenderPlays DEF FollowDeadLobby
  <2> QED
    BY <1>3, <2>1, <2>2, <2>3, <2>4, <2>5
<1>4. CASE Next
  BY <1>2, <1>3, <1>4 DEF Next, FaultsHaveCause, Cause
<1> QED
  BY <1>1, <1>4

(* The server follows a dead object only after a number was reused, or while a seat
   names a player who is gone or whose record is elsewhere. *)
THEOREM ServerFaultsHaveCause == OnlyReadErrors => (Spec => []FaultsHaveCause)
<1> SUFFICES ASSUME OnlyReadErrors PROVE Spec => []FaultsHaveCause
  OBVIOUS
<1>1. Init => FaultsHaveCause
  BY DEF Init, FaultsHaveCause
<1>2. GamesInv /\ FaultsHaveCause /\ [Next]_vars => FaultsHaveCause'
  BY NextFault
<1>3. Spec => []GamesInv
  BY AlwaysGamesInv
<1> QED
  BY <1>1, <1>2, <1>3, PTL DEF Spec

-----------------------------------------------------------------------------
(* The ships of both boards stand alone: what a hit takes from a fleet follows. *)
LobbySound(lobby) == FieldSound(lobby.field1) /\ FieldSound(lobby.field2)

FieldsSound == \A id \in DOMAIN lobbies : LobbySound(lobbies[id])

(* Steps that leave all boards alone, whoever enters or leaves a lobby. *)
LEMMA AddedSound ==
    ASSUME NEW lobby \in Lobbies, NEW p, LobbySound(lobby)
    PROVE  LobbySound(AddParticipant(lobby, p)) /\ LobbySound(RemoveParticipant(lobby, p))
BY DEF AddParticipant, RemoveParticipant, LobbySound, Lobbies

LEMMA ConnectedSound ==
    ASSUME TypeOK, FieldsSound, NEW p \in Participants, HandleMessageConnected(p)
    PROVE  FieldsSound'
<1>1. CASE Create(p)
  <2> DEFINE lobby == IF lobbiesCount \in DOMAIN lobbies THEN lobbies[lobbiesCount]
                      ELSE NewLobby
  <2>1. lobby \in Lobbies
    BY NewLobbyType DEF TypeOK
  <2>2. LobbySound(lobby)
    BY NothingIsSound DEF FieldsSound, LobbySound, NewLobby, EmptyField
  <2>3. lobbies' = [i \in DOMAIN lobbies \cup {lobbiesCount} |->
                       IF i = lobbiesCount THEN AddParticipant(lobby, p) ELSE lobbies[i]]
    BY <1>1 DEF Create
  <2> HIDE DEF lobby
  <2> QED
    BY <2>1, <2>2, <2>3, AddedSound DEF FieldsSound
<1>2. ASSUME NEW id \in FreeLobbies, NEW letter, Enter(p, id, letter)
      PROVE  FieldsSound'
  <2>1. id \in DOMAIN lobbies /\ lobbies[id] \in Lobbies
    BY DEF FreeLobbies, TypeOK
  <2>2. lobbies' = [lobbies EXCEPT ![id] = AddParticipant(@, p)]
    BY <1>2 DEF Enter
  <2> QED
    BY <2>1, <2>2, AddedSound DEF FieldsSound, TypeOK
<1>3. CASE Join(p) \/ \E id \in Ids : ConnectTo(p, id)
  BY <1>2, <1>3 DEF Join, ConnectTo
<1>4. CASE Refuse(p) \/ List(p) \/ QuitConnected(p)
  BY <1>4 DEF Refuse, List, QuitConnected, FieldsSound
<1> QED
  BY <1>1, <1>3, <1>4 DEF HandleMessageConnected

(* The sender's lobby changes, and its boards stay sound. *)
LEMMA SetLobbySound ==
    ASSUME TypeOK, FieldsSound, NEW p \in Participants, HasLobby(p), NEW new, LobbySound(new),
           lobbies' = SetLobby(p, new)
    PROVE  FieldsSound'
BY DEF FieldsSound, SetLobby, HasLobby, TypeOK

LEMMA LobbyOfSound ==
    ASSUME TypeOK, FieldsSound, NEW p \in Participants, HasLobby(p)
    PROVE  LobbyOf(p) \in Lobbies /\ LobbySound(LobbyOf(p))
BY LobbyOfType DEF FieldsSound, HasLobby, LobbyOf

LEMMA LobbySoundSteps ==
    ASSUME NEW lobby \in Lobbies, LobbySound(lobby), NEW p
    PROVE  /\ LobbySound(StartSession(lobby)) /\ LobbySound(SwapState(lobby, p))
           /\ LobbySound(EndGame(lobby)) /\ LobbySound(ResetReady(lobby))
           /\ LobbySound(MarkReady(lobby, p))
           /\ \A state : LobbySound([lobby EXCEPT !.state = state])
<1>1. Clear(lobby.field1).ship = {} /\ Clear(lobby.field2).ship = {}
  BY DEF Clear, Lobbies, Fields
<1>2. LobbySound(StartSession(lobby))
  BY <1>1, NothingIsSound DEF StartSession, LobbySound, Lobbies
<1> QED
  BY <1>2 DEF SwapState, EndGame, ResetReady, MarkReady, LobbySound, Lobbies

LEMMA LobbyHandlersSound ==
    ASSUME TypeOK, FieldsSound, NEW p \in Participants, HandleMessageLobby(p)
    PROVE  FieldsSound'
<1>1. CASE ReadyInLobby(p)
  <2>1. HasLobby(p)
    BY <1>1 DEF ReadyInLobby
  <2>2. lobbies' = SetLobby(p, StartSession(LobbyOf(p))) \/ UNCHANGED lobbies
    BY <1>1 DEF ReadyInLobby
  <2>3. LobbySound(StartSession(LobbyOf(p)))
    BY <2>1, LobbyOfSound, LobbySoundSteps
  <2> QED
    BY <2>1, <2>2, <2>3, SetLobbySound DEF FieldsSound
<1>2. CASE Unready(p)
  BY <1>2 DEF Unready, FieldsSound
<1>3. ASSUME HasLobby(p), NEW clients, Vacate(p, clients) PROVE FieldsSound'
  <2>1. \/ lobbies' = [i \in DOMAIN lobbies \ {clentData[p].lobby} |-> lobbies[i]]
        \/ lobbies' = SetLobby(p, RemoveParticipant(LobbyOf(p), p))
    BY <1>3 DEF Vacate
  <2>2. LobbySound(RemoveParticipant(LobbyOf(p), p))
    BY <1>3, LobbyOfSound, AddedSound
  <2> QED
    BY <1>3, <2>1, <2>2, SetLobbySound DEF FieldsSound
<1> QED
  BY <1>1, <1>2, <1>3 DEF HandleMessageLobby, Leave, QuitLobby

LEMMA SessionHandlersSound ==
    ASSUME TypeOK, FieldsSound, NEW p \in Participants, HandleMessageSession(p)
    PROVE  FieldsSound'
<1> DEFINE lobby == LobbyOf(p)
<1>1. HasLobby(p) /\ lobby \in Lobbies /\ LobbySound(lobby)
  BY LobbyOfSound
  DEF HandleMessageSession, Playing, PlaceShip, ReadyToPlay, RepeatShot, Shoot, Win, WrongTurn,
      Rebroadcast, Continue, Unexpected
<1>2. CASE \E s \in Placements : PlaceShip(p, s)
  <2>1. PICK s \in Placements : PlaceShip(p, s)
    BY <1>2
  <2> DEFINE my == MyField(lobby, p)
             new == SetMyField(lobby, p, SetShip(my, s))
  <2>2. \/ CanSetShip(my, s) /\ lobbies' = SetLobby(p, new)
        \/ UNCHANGED lobbies
    BY <2>1 DEF PlaceShip
  <2> HIDE DEF lobby
  <2>3. ASSUME CanSetShip(my, s) PROVE LobbySound(new)
    <3>1. my \in Fields /\ FieldSound(my)
      BY <1>1 DEF MyField, LobbySound, Lobbies
    <3>2. s \in Ships
      BY ServerAssumption DEF Ships
    <3>3. FieldSound(SetShip(my, s))
      BY <2>3, <3>1, <3>2, PlacedIsSound
    <3> QED
      BY <1>1, <3>3 DEF SetMyField, LobbySound, Lobbies
  <2> HIDE DEF new, my
  <2> QED
    BY <1>1, <2>2, <2>3, SetLobbySound DEF FieldsSound
<1>3. CASE ReadyToPlay(p)
  <2>1. \/ \E turn \in Turns : lobbies' = SetLobby(p, [MarkReady(lobby, p) EXCEPT !.state = turn])
        \/ lobbies' = SetLobby(p, MarkReady(lobby, p))
    BY <1>3 DEF ReadyToPlay
  <2>2. MarkReady(lobby, p) \in Lobbies /\ LobbySound(MarkReady(lobby, p))
    BY <1>1, GameStepType, LobbySoundSteps
  <2>3. \A turn : LobbySound([MarkReady(lobby, p) EXCEPT !.state = turn])
    BY <2>2, LobbySoundSteps
  <2> HIDE DEF lobby
  <2> QED
    BY <1>1, <2>1, <2>2, <2>3, SetLobbySound
<1>4. ASSUME NEW c \in Cells
      PROVE  LET hit == SetTargetField(lobby, p, ShotField(TargetField(lobby, p), c))
             IN  hit \in Lobbies /\ LobbySound(hit)
  <2> HIDE DEF lobby
  <2>1. TargetField(lobby, p) \in Fields /\ FieldSound(TargetField(lobby, p))
    BY <1>1 DEF TargetField, LobbySound, Lobbies
  <2>2. /\ ShotField(TargetField(lobby, p), c) \in Fields
        /\ FieldSound(ShotField(TargetField(lobby, p), c))
    BY <2>1, ShotTakesOne
  <2> QED
    BY <1>1, <2>2, SetFieldType DEF SetTargetField, LobbySound, Lobbies
<1>5. CASE \E c \in Cells : Shoot(p, c)
  <2>1. PICK c \in Cells : Shoot(p, c)
    BY <1>5
  <2> DEFINE hit == SetTargetField(lobby, p, ShotField(TargetField(lobby, p), c))
  <2>2. lobbies' = SetLobby(p, SwapState(hit, p)) \/ lobbies' = SetLobby(p, hit)
    BY <2>1 DEF Shoot
  <2>3. LobbySound(hit) /\ LobbySound(SwapState(hit, p))
    BY <1>4, LobbySoundSteps
  <2> HIDE DEF hit
  <2> QED
    BY <1>1, <2>2, <2>3, SetLobbySound
<1>6. CASE \E c \in Cells : Win(p, c)
  <2>1. PICK c \in Cells : Win(p, c)
    BY <1>6
  <2> DEFINE hit == SetTargetField(lobby, p, ShotField(TargetField(lobby, p), c))
             won == ResetReady(EndGame(hit))
             theirs == clentData[GetEnemy(lobby, p)].lobby
  <2>2. \/ UNCHANGED lobbies
        \/ lobbies' = [id \in DOMAIN lobbies |->
                          IF id = clentData[p].lobby THEN won
                          ELSE IF id = theirs THEN EndGame(lobbies[id]) ELSE lobbies[id]]
    BY <2>1 DEF Win
  <2>3. LobbySound(won)
    BY <1>4, GameStepType, LobbySoundSteps
  <2>4. \A id \in DOMAIN lobbies : LobbySound(EndGame(lobbies[id]))
    BY LobbySoundSteps DEF TypeOK, FieldsSound
  <2> HIDE DEF won, theirs
  <2> QED
    BY <2>2, <2>3, <2>4 DEF FieldsSound
<1>7. CASE Continue(p)
  <2>1. \/ UNCHANGED lobbies
        \/ lobbies' = SetLobby(p, [lobby EXCEPT !.state = "preparation"])
    BY <1>7 DEF Continue
  <2>2. LobbySound([lobby EXCEPT !.state = "preparation"])
    BY <1>1, LobbySoundSteps
  <2> QED
    BY <1>1, <2>1, <2>2, SetLobbySound DEF FieldsSound
<1>8. CASE (\E c \in Cells : RepeatShot(p, c)) \/ WrongTurn(p) \/ Rebroadcast(p) \/ Unexpected(p)
  BY <1>8 DEF RepeatShot, WrongTurn, Rebroadcast, Unexpected, FieldsSound
<1> QED
  BY <1>2, <1>3, <1>5, <1>6, <1>7, <1>8 DEF HandleMessageSession

LEMMA NextFieldsSound ==
    ASSUME TypeOK, FieldsSound, [Next]_vars
    PROVE  FieldsSound'
<1>1. CASE UNCHANGED vars
  BY <1>1 DEF vars, FieldsSound
<1>2. ASSUME NEW p \in Participants, SessionEvent(p) \/ FollowDeadLobby(p)
      PROVE  FieldsSound'
  BY <1>2
  DEF SessionEvent, Connect, ReadError, WriteError, Flushed, FollowDeadLobby, FieldsSound
<1> QED
  BY <1>1, <1>2, ConnectedSound, LobbyHandlersSound, SessionHandlersSound DEF Next
-----------------------------------------------------------------------------
(* Two players.  A quit that empties a lobby while another one is open takes the
   count back to a number that may still be in use (server.cpp:28-31, 167-171), and
   the next create hands that number out again.  With two players nobody is
   left to do so: the other lobby is the other player's own, and closes when
   he leaves it. *)
TwoPlayers == \E a, b : Participants \subseteq {a, b}

MayCreate(q) == session[q] \in {"fresh", "open"}

(* A number that is still to be given out belongs, if to any lobby, to one where
   the only player who could ask for it sits alone. *)
NumberKept(id) ==
    id < lobbiesCount \/ \A q \in Participants : MayCreate(q) => SeatsOf(lobbies[id]) = {q}

NumbersKept == \A id \in DOMAIN lobbies : NumberKept(id)

PairInv == SeatInv /\ NumbersKept /\ ~idReused

(* One who is open and has no seat is not the one who sits alone. *)
LEMMA AskerCounted ==
    ASSUME PairInv, NEW p \in Participants, session[p] = "open", clentData[p].state = "connected"
    PROVE  \A id \in DOMAIN lobbies : id < lobbiesCount
<1> SUFFICES ASSUME NEW id \in DOMAIN lobbies, ~(id < lobbiesCount)
             PROVE  FALSE
  OBVIOUS
<1>1. SeatsOf(lobbies[id]) = {p}
  BY DEF PairInv, NumbersKept, NumberKept, MayCreate
<1> QED
  BY <1>1 DEF PairInv, SeatInv, SeatsOwned, Open

(* A step that leaves the seats and the count alone, and lets nobody in. *)
LEMMA SameNumbersKept ==
    ASSUME NumbersKept, SeatsKept, lobbiesCount' = lobbiesCount,
           \A q \in Participants : MayCreate(q)' => MayCreate(q)
    PROVE  NumbersKept'
<1> SUFFICES ASSUME NEW id \in DOMAIN lobbies', ~(id < lobbiesCount),
                    NEW q \in Participants, MayCreate(q)'
             PROVE  SeatsOf(lobbies'[id]) = {q}
  BY DEF NumbersKept, NumberKept
<1>1. id \in DOMAIN lobbies /\ SeatsOf(lobbies'[id]) = SeatsOf(lobbies[id])
  BY DEF SeatsKept, SeatsOf
<1> QED
  BY <1>1 DEF NumbersKept, NumberKept

LEMMA StopLetsIn ==
    ASSUME TypeOK, NEW p \in Participants, NEW writing, StopReading(p, writing)
    PROVE  \A q \in Participants : /\ MayCreate(q)' => MayCreate(q) /\ q # p
                                   /\ q # p => session'[q] = session[q]
BY DEF StopReading, TypeOK, MayCreate

LEMMA SessionEventNumbers ==
    ASSUME PairInv, OnlyReadErrors, NEW p \in Participants, SessionEvent(p)
    PROVE  NumbersKept' /\ ~idReused'
<1>1. TypeOK /\ ~idReused /\ NumbersKept
  BY DEF PairInv, SeatInv, TypeInv
<1>2. UNCHANGED <<lobbies, lobbiesCount, idReused>>
  BY DEF SessionEvent, Connect, ReadError, WriteError, Flushed
<1>3. \A q \in Participants : MayCreate(q)' => MayCreate(q)
  BY <1>1 DEF SessionEvent, Connect, ReadError, WriteError, Flushed, StopReading, MayCreate,
     OnlyReadErrors, TypeOK
<1> QED
  BY <1>1, <1>2, <1>3, SameLobbiesKeepSeats, SameNumbersKept

LEMMA ConnectedNumbers ==
    ASSUME PairInv, NEW p \in Participants, HandleMessageConnected(p), TypeInv'
    PROVE  NumbersKept' /\ ~idReused'
<1>1. TypeOK /\ ~idReused /\ NumbersKept
  BY DEF PairInv, SeatInv, TypeInv
<1>2. session[p] = "open" /\ clentData[p].state = "connected"
  BY SenderOpen DEF HandleMessageConnected, Create, Join, ConnectTo, Refuse, List,
     QuitConnected, PairInv
<1>3. \A id \in DOMAIN lobbies : id < lobbiesCount
  BY <1>2, AskerCounted
<1>4. CASE Create(p)
  <2>1. /\ DOMAIN lobbies' = DOMAIN lobbies \cup {lobbiesCount}
        /\ idReused' = (idReused \/ lobbiesCount \in DOMAIN lobbies)
        /\ lobbiesCount' = lobbiesCount + 1
    BY <1>4 DEF Create
  <2>2. lobbiesCount \in Int /\ DOMAIN lobbies \subseteq Int
    BY <1>1, ServerAssumption DEF TypeOK, Ids
  <2>3. \A id \in DOMAIN lobbies' : id < lobbiesCount'
    BY <1>3, <2>1, <2>2
  <2>4. lobbiesCount \notin DOMAIN lobbies
    BY <1>3, <2>2
  <2>5. ~idReused'
    BY <1>1, <2>1, <2>4
  <2> QED
    BY <2>3, <2>5 DEF NumbersKept, NumberKept
<1>5. CASE Join(p) \/ \E id \in Ids : ConnectTo(p, id)
  <2>1. PICK id \in DOMAIN lobbies, letter \in Letters : Enter(p, id, letter)
    BY <1>5 DEF Join, ConnectTo, FreeLobbies, Letters
  <2>2. DOMAIN lobbies' = DOMAIN lobbies /\ UNCHANGED <<lobbiesCount, idReused>>
    BY <2>1 DEF Enter
  <2> QED
    BY <1>1, <1>3, <2>2 DEF NumbersKept, NumberKept
<1>6. CASE Refuse(p) \/ List(p)
  <2>1. UNCHANGED <<lobbies, lobbiesCount, session, idReused>>
    BY <1>6 DEF Refuse, List
  <2> QED
    BY <1>1, <2>1, SameLobbiesKeepSeats, SameNumbersKept DEF MayCreate
<1>7. CASE QuitConnected(p)
  <2>1. StopReading(p, TRUE) /\ UNCHANGED <<lobbies, lobbiesCount, idReused>>
    BY <1>7 DEF QuitConnected
  <2> QED
    BY <1>1, <2>1, SameLobbiesKeepSeats, StopLetsIn, SameNumbersKept
<1> QED
  BY <1>4, <1>5, <1>6, <1>7 DEF HandleMessageConnected

(* What a lobby is left with, and that all numbers given out stay below the count. *)
LEMMA VacatedNumbers ==
    ASSUME PairInv, NEW p \in Participants, session[p] = "open", HasLobby(p),
           NEW clients, Vacate(p, clients), TypeInv', NEW i \in DOMAIN lobbies'
    PROVE  /\ i \in DOMAIN lobbies /\ i < lobbiesCount
           /\ SeatsOf(lobbies'[i]) = SeatsOf(lobbies[i]) \ {p}
           /\ SeatsOf(lobbies'[i]) # {}
<1> DEFINE id == clentData[p].lobby
           left == RemoveParticipant(lobbies[id], p)
<1>1. TypeOK /\ id \in DOMAIN lobbies /\ lobbies[id] \in Lobbies
  BY DEF PairInv, SeatInv, TypeInv, TypeOK, HasLobby
<1>2. \A k \in DOMAIN lobbies : k # id => p \notin SeatsOf(lobbies[k])
  BY DEF PairInv, SeatInv, SeatsOwned, Open
<1>3. SeatsOf(left) = SeatsOf(lobbies[id]) \ {p}
  <2> DEFINE lobby == lobbies[id]
  <2> HIDE DEF lobby
  <2>1. SeatsOf(RemoveParticipant(lobby, p)) = SeatsOf(lobby) \ {p}
    BY <1>1, RemovedSeat DEF lobby
  <2> QED
    BY <2>1 DEF lobby
<1>4. /\ DOMAIN lobbies' \subseteq DOMAIN lobbies
      /\ \A k \in DOMAIN lobbies' : lobbies'[k] = IF k = id THEN left ELSE lobbies[k]
  <2> HIDE DEF IsEmpty
  <2>1. CASE IsEmpty(left)
    BY <2>1, <1>1 DEF Vacate, LobbyOf
  <2>2. CASE ~IsEmpty(left)
    BY <1>1, <2>2 DEF Vacate, LobbyOf, SetLobby, TypeOK
  <2> QED
    BY <2>1, <2>2
<1> HIDE DEF left, id
<1>5. i \in DOMAIN lobbies /\ SeatsOf(lobbies'[i]) = SeatsOf(lobbies[i]) \ {p}
  BY <1>2, <1>3, <1>4
<1>6. SeatsOf(lobbies'[i]) # {}
  BY DEF TypeInv, LobbiesCounted
<1>7. i < lobbiesCount \/ SeatsOf(lobbies[i]) = {p}
  BY <1>5 DEF PairInv, NumbersKept, NumberKept, MayCreate
<1> QED
  BY <1>5, <1>6, <1>7

LEMMA LobbyNumbers ==
    ASSUME TwoPlayers, PairInv, NEW p \in Participants, HandleMessageLobby(p), TypeInv'
    PROVE  NumbersKept' /\ ~idReused'
<1>1. TypeOK /\ TypeInv /\ ~idReused /\ NumbersKept
  BY DEF PairInv, SeatInv, TypeInv
<1>2. session[p] = "open"
  BY SenderOpen DEF HandleMessageLobby, ReadyInLobby, Unready, Leave, QuitLobby, PairInv
<1>3. CASE ReadyInLobby(p) \/ Unready(p)
  <2>1. UNCHANGED <<lobbiesCount, session, idReused>>
    BY <1>3 DEF ReadyInLobby, Unready
  <2>2. SeatsKept
    <3>1. CASE UNCHANGED lobbies
      BY <3>1, SameLobbiesKeepSeats
    <3>2. CASE lobbies' = SetLobby(p, StartSession(LobbyOf(p))) /\ HasLobby(p)
      <4> DEFINE new == StartSession(LobbyOf(p))
      <4>1. LobbyOf(p) \in Lobbies
        BY <1>1, <3>2, LobbyOfType
      <4>2. new \in Lobbies /\ new.p1 = LobbyOf(p).p1 /\ new.p2 = LobbyOf(p).p2
        BY <4>1, GameStepsKeepSeats, GameStepType
      <4> HIDE DEF new
      <4> QED
        BY <1>1, <3>2, <4>2, SetLobbyKeepsSeats DEF new
    <3> QED
      BY <1>3, <3>1, <3>2 DEF ReadyInLobby, Unready
  <2> QED
    BY <1>1, <2>1, <2>2, SameNumbersKept DEF MayCreate
<1>4. CASE Leave(p)
  <2>1. /\ HasLobby(p) /\ Vacate(p, [clentData EXCEPT ![p].state = "connected"])
        /\ UNCHANGED <<lobbiesCount, idReused>>
    BY <1>4 DEF Leave
  <2>2. \A i \in DOMAIN lobbies' : i < lobbiesCount
    BY <1>2, <2>1, VacatedNumbers
  <2> QED
    BY <1>1, <2>1, <2>2 DEF NumbersKept, NumberKept
<1>5. CASE QuitLobby(p)
  <2>1. HasLobby(p) /\ Vacate(p, Forget(p, clentData)) /\ StopReading(p, TRUE) /\ UNCHANGED idReused
    BY <1>5 DEF QuitLobby
  <2>2. ASSUME NEW i \in DOMAIN lobbies', NEW q \in Participants, MayCreate(q)'
        PROVE  SeatsOf(lobbies'[i]) = {q}
    <3>1. /\ SeatsOf(lobbies'[i]) \subseteq Participants \ {p}
          /\ SeatsOf(lobbies'[i]) # {}
      <4>1. /\ i \in DOMAIN lobbies
            /\ SeatsOf(lobbies'[i]) = SeatsOf(lobbies[i]) \ {p}
            /\ SeatsOf(lobbies'[i]) # {}
        BY <1>2, <2>1, VacatedNumbers
      <4>2. SeatsOf(lobbies[i]) \subseteq Participants
        BY <1>1, <4>1 DEF TypeOK, Lobbies, Seats, SeatsOf
      <4> QED
        BY <4>1, <4>2
    <3>2. q # p
      BY <1>1, <2>1, <2>2, StopLetsIn
    <3>3. Participants \ {p} = {q}
      BY <3>2 DEF TwoPlayers
    <3> QED
      BY <3>1, <3>3
  <2> QED
    BY <1>1, <2>1, <2>2 DEF NumbersKept, NumberKept
<1> QED
  BY <1>3, <1>4, <1>5 DEF HandleMessageLobby

LEMMA SessionNumbers ==
    ASSUME PairInv, NEW p \in Participants, HandleMessageSession(p)
    PROVE  NumbersKept' /\ ~idReused'
<1>1. TypeOK /\ ~idReused /\ NumbersKept /\ SeatsKept
  BY HandleMessageSessionTypeInv DEF PairInv, SeatInv, TypeInv
<1>2. UNCHANGED <<lobbiesCount, idReused>>
  BY DEF HandleMessageSession, PlaceShip, ReadyToPlay, RepeatShot, Shoot, Win, WrongTurn,
     Rebroadcast, Continue, Unexpected
<1>3. UNCHANGED session \/ StopReading(p, TRUE)
  BY DEF HandleMessageSession, PlaceShip, ReadyToPlay, RepeatShot, Shoot, Win, WrongTurn,
     Rebroadcast, Continue, Unexpected
<1>4. \A q \in Participants : MayCreate(q)' => MayCreate(q)
  BY <1>1, <1>3, StopLetsIn DEF MayCreate
<1> QED
  BY <1>1, <1>2, <1>4, SameNumbersKept

LEMMA NextPairInv ==
    ASSUME TwoPlayers, OnlyReadErrors, PairInv, [Next]_vars
    PROVE  PairInv'
<1>1. SeatInv'
  BY NextSeatInv DEF PairInv
<1>2. TypeInv'
  BY <1>1 DEF SeatInv
<1>3. CASE UNCHANGED vars
  BY <1>1, <1>3 DEF vars, PairInv, NumbersKept, NumberKept, MayCreate
<1>4. CASE Next
  <2>1. PICK p \in Participants :
            \/ SessionEvent(p)
            \/ HandleMessageConnected(p)
            \/ HandleMessageLobby(p)
            \/ HandleMessageSession(p)
            \/ FollowDeadLobby(p)
    BY <1>4 DEF Next
  <2>2. CASE FollowDeadLobby(p)
    <3>1. UNCHANGED <<lobbies, lobbiesCount, session, idReused>>
      BY <2>2 DEF FollowDeadLobby
    <3> QED
      BY <1>1, <3>1 DEF PairInv, NumbersKept, NumberKept, MayCreate
  <2>3. NumbersKept' /\ ~idReused'
    BY <1>1, <1>2, <2>1, <2>2, SessionEventNumbers, ConnectedNumbers, LobbyNumbers, SessionNumbers
       DEF PairInv
  <2> QED
    BY <1>1, <2>3 DEF PairInv
<1> QED
  BY <1>3, <1>4

LEMMA InitPairInv == Init => PairInv
<1> SUFFICES ASSUME Init PROVE PairInv
  OBVIOUS
<1>1. ~idReused /\ DOMAIN lobbies = {}
  BY DEF Init
<1> QED
  BY <1>1, InitSeatInv DEF PairInv, NumbersKept

LEMMA AlwaysPairInv == TwoPlayers /\ OnlyReadErrors => (Spec => []PairInv)
<1> SUFFICES ASSUME TwoPlayers, OnlyReadErrors PROVE Spec => []PairInv
  OBVIOUS
<1>1. PairInv /\ [Next]_vars => PairInv'
  BY NextPairInv
<1> QED
  BY InitPairInv, <1>1, PTL DEF Spec

(* With two players no lobby number is ever given out twice, although the
   server's count of lobbies goes down with a quit: the hazard needs a third
   player (server.cpp:28-31, 167-171). *)
THEOREM ServerPairNeverReuses == TwoPlayers /\ OnlyReadErrors => (Spec => []~idReused)
<1>1. PairInv => ~idReused
  BY DEF PairInv
<1> QED
  BY AlwaysPairInv, <1>1, PTL
=============================================================================
