---------------------------- MODULE SystemProofs ----------------------------
(* The server with its clients: that the server in it is the Server proved about, and
   that the messages on their way to a careful player's client never surprise it and lead
   it to what the server has; and, of two players, that their own fields are the server's. *)
EXTENDS ServerProofs, System, SequenceTheorems

-----------------------------------------------------------------------------
(* What a client is told, as far as it decides about what it can be told next: its own
   field and the message box of client.cpp:215 are left out. *)
Seen(c) == [c EXCEPT !.m_my = EmptyField, !.serverError = FALSE]

Said == {msg \in Messages : msg.letter \in ShotAnswers => msg.cell \in Cells}

(* A message heard without an exception. *)
Heard(before, msg, after) == after = Seen(Hear(before, msg)) /\ after.program = "running"

(* A client that hears a whole channel. *)
Course(channel, from, to) ==
    \E t \in [0 .. Len(channel) -> ClientPrograms] :
        /\ t[0] = from /\ t[Len(channel)] = to
        /\ \A i \in 1 .. Len(channel) : Heard(t[i - 1], channel[i], t[i])

LEMMA CourseOfNone ==
    ASSUME NEW c \in ClientPrograms
    PROVE  \A d : Course(<<>>, c, d) <=> d = c
<1>1. Len(<<>>) = 0 /\ 1 .. 0 = {}
  OBVIOUS
<1>2. ASSUME NEW d, d = c PROVE Course(<<>>, c, d)
  <2> DEFINE t == [i \in 0 .. 0 |-> c]
  <2>1. t \in [0 .. 0 -> ClientPrograms] /\ t[0] = c
    OBVIOUS
  <2> HIDE DEF t
  <2> QED
    BY <1>1, <1>2, <2>1 DEF Course
<1> QED
  BY <1>1, <1>2 DEF Course

LEMMA CourseOn ==
    ASSUME NEW channel \in Seq(Said), NEW c, NEW d, Course(channel, c, d),
           NEW msg \in Said, NEW e \in ClientPrograms, Heard(d, msg, e)
    PROVE  Course(channel \o <<msg>>, c, e)
<1> DEFINE n == Len(channel)
           longer == Append(channel, msg)
<1>1. PICK t \in [0 .. n -> ClientPrograms] :
          /\ t[0] = c /\ t[n] = d
          /\ \A i \in 1 .. n : Heard(t[i - 1], channel[i], t[i])
  BY DEF Course
<1>2. n \in Nat /\ Len(longer) = n + 1 /\ channel \o <<msg>> = longer
  BY AppendProperties, LenProperties, AppendIsConcat
<1>3. longer[n + 1] = msg /\ \A i \in 1 .. n : longer[i] = channel[i]
  BY AppendProperties
<1> DEFINE u == [i \in 0 .. n + 1 |-> IF i = n + 1 THEN e ELSE t[i]]
<1>4. u \in [0 .. n + 1 -> ClientPrograms] /\ u[n + 1] = e
  BY <1>2
<1>5. \A i \in 0 .. n : u[i] = t[i]
  BY <1>2
<1> HIDE DEF u, longer
<1>6. \A i \in 1 .. n + 1 : Heard(u[i - 1], longer[i], u[i])
  <2> SUFFICES ASSUME NEW i \in 1 .. n + 1 PROVE Heard(u[i - 1], longer[i], u[i])
    OBVIOUS
  <2>1. CASE i = n + 1
    <3>1. u[i - 1] = d
      BY <1>1, <1>2, <1>5, <2>1
    <3> QED
      BY <1>3, <1>4, <2>1, <3>1
  <2>2. CASE i # n + 1
    <3>1. i \in 1 .. n /\ u[i - 1] = t[i - 1] /\ u[i] = t[i]
      BY <1>2, <1>5, <2>2
    <3> QED
      BY <1>1, <1>3, <3>1
  <2> QED
    BY <2>1, <2>2
<1>7. u[0] = c
  BY <1>1, <1>2, <1>5
<1> QED
  BY <1>2, <1>4, <1>6, <1>7 DEF Course

LEMMA CourseRest ==
    ASSUME NEW channel \in Seq(Said), channel # <<>>, NEW c, NEW d, Course(channel, c, d)
    PROVE  \E b \in ClientPrograms : Heard(c, Head(channel), b) /\ Course(Tail(channel), b, d)
<1> DEFINE n == Len(channel)
           rest == Tail(channel)
<1>1. PICK t \in [0 .. n -> ClientPrograms] :
          /\ t[0] = c /\ t[n] = d
          /\ \A i \in 1 .. n : Heard(t[i - 1], channel[i], t[i])
  BY DEF Course
<1>2. n \in Nat /\ n >= 1 /\ Len(rest) = n - 1 /\ Head(channel) = channel[1]
  BY HeadTailProperties, LenProperties, EmptySeq
<1>3. \A i \in 1 .. n - 1 : rest[i] = channel[i + 1]
  BY <1>2, HeadTailProperties
<1> DEFINE u == [i \in 0 .. n - 1 |-> t[i + 1]]
<1>4. u \in [0 .. n - 1 -> ClientPrograms] /\ \A i \in 0 .. n - 1 : u[i] = t[i + 1]
  BY <1>2
<1> HIDE DEF u, rest
<1>5. \A i \in 1 .. n - 1 : Heard(u[i - 1], rest[i], u[i])
  <2> SUFFICES ASSUME NEW i \in 1 .. n - 1 PROVE Heard(u[i - 1], rest[i], u[i])
    OBVIOUS
  <2>1. u[i - 1] = t[i] /\ u[i] = t[i + 1] /\ i + 1 \in 1 .. n /\ rest[i] = channel[i + 1]
    BY <1>2, <1>3, <1>4
  <2>2. Heard(t[i + 1 - 1], channel[i + 1], t[i + 1])
    BY <1>1, <2>1
  <2> QED
    BY <1>2, <2>1, <2>2
<1>6. u[0] = t[1] /\ u[n - 1] = d /\ t[1] \in ClientPrograms
  BY <1>1, <1>2, <1>4
<1>7. Course(rest, t[1], d)
  BY <1>2, <1>4, <1>5, <1>6 DEF Course
<1>8. Heard(c, Head(channel), t[1])
  BY <1>1, <1>2
<1> QED
  BY <1>6, <1>7, <1>8 DEF rest

-----------------------------------------------------------------------------
(* The server in the system. *)

(* What a line makes the server do is one of its handlers. *)
LEMMA ObeyIsHandled ==
    ASSUME NEW p \in Participants, NEW line \in Lines, Obey(p, line)
    PROVE  \/ HandleMessageConnected(p) \/ HandleMessageLobby(p)
           \/ HandleMessageSession(p) \/ FollowDeadLobby(p)
<1>1. line \in LineRecords
  BY SystemAssumption
<1>2. CASE ObeyConnected(p, line)
  <2>1. line.id \in Ids
    BY <1>1 DEF LineRecords
  <2> QED
    BY <1>2, <2>1 DEF ObeyConnected, HandleMessageConnected
<1>3. CASE ObeyLobby(p, line)
  BY <1>3 DEF ObeyLobby, HandleMessageLobby
<1>4. CASE ObeySession(p, line)
  <2>1. /\ line.word = "ship" => line.ship \in Placements
        /\ line.word = "shot" => line.cell \in Cells
    BY SystemAssumption
  <2>2. /\ IsPlacement(line) => line.ship \in Placements
        /\ IsShot(line) => line.cell \in Cells
    BY <2>1 DEF IsPlacement, IsShot
  <2> QED
    BY <1>4, <2>2 DEF ObeySession, HandleMessageSession
<1> QED
  BY <1>2, <1>3, <1>4 DEF Obey

LEMMA HeadOfLines ==
    ASSUME NEW q \in Seq(Lines), q # <<>>
    PROVE  Head(q) \in Lines /\ Tail(q) \in Seq(Lines)
BY HeadTailProperties

LEMMA SysNextIsServer ==
    ASSUME toServer \in [Participants -> Seq(Lines)], [SysNext]_sysVars
    PROVE  [Next]_vars
<1>1. CASE UNCHANGED sysVars
  BY <1>1 DEF sysVars
<1>2. ASSUME NEW p \in Participants,
             \/ \E line \in Lines : Press(p, line)
             \/ Act(p) \/ Receive(p) \/ Close(p)
      PROVE  UNCHANGED vars
  BY <1>2 DEF Press, Act, Receive, Close
<1>3. ASSUME NEW p \in Participants, Accept(p) \/ Disconnect(p) \/ Flush(p)
      PROVE  Next
  BY <1>3 DEF Accept, Disconnect, Flush, Next, SessionEvent
<1>4. ASSUME NEW p \in Participants, Serve(p)
      PROVE  [Next]_vars
  <2>1. Head(toServer[p]) \in Lines
    BY <1>4, HeadOfLines DEF Serve
  <2>2. Obey(p, Head(toServer[p])) => Next
    BY <2>1, ObeyIsHandled DEF Next
  <2>3. Drop(p, Head(toServer[p])) => UNCHANGED vars
    BY DEF Drop
  <2> QED
    BY <1>4, <2>2, <2>3 DEF Serve
<1> QED
  BY <1>1, <1>2, <1>3, <1>4 DEF SysNext

(* A message that carries a cell whenever it answers a shot: the buffer never holds any
   other, so that even what is sent to a lobby a second time is one. *)
Worded == sendMsg \in Said /\ \A i \in DOMAIN sent : sent[i].msg \in Said

LEMMA SaySaid ==
    \A letter \in Letters \ ShotAnswers : Say(letter) \in Said
BY SayType DEF Say, Said

LEMMA AnswerSaid ==
    \A letter \in Letters, c \in Cells : Answer(letter, c) \in Said
BY AnswerType DEF Answer, Said

LEMMA ReplyWorded ==
    ASSUME NEW letter \in Letters \ ShotAnswers, NEW p, Reply(letter, p)
    PROVE  Worded'
BY SaySaid DEF Reply, Deliver, WriteMsg, Worded

LEMMA ToldSaid ==
    ASSUME NEW a, NEW m \in Said, NEW b, NEW n \in Said, NEW c, NEW k \in Said
    PROVE  /\ \A i \in DOMAIN (WriteMsg(m, a) \o WriteMsg(n, b)) :
                  (WriteMsg(m, a) \o WriteMsg(n, b))[i].msg \in Said
           /\ \A i \in DOMAIN (WriteMsg(m, a) \o (WriteMsg(n, b) \o WriteMsg(k, c))) :
                  (WriteMsg(m, a) \o (WriteMsg(n, b) \o WriteMsg(k, c)))[i].msg \in Said
BY DEF WriteMsg

LEMMA NextWorded ==
    ASSUME TypeOK, Worded, [Next]_vars
    PROVE  Worded'
<1>1. CASE UNCHANGED vars
  BY <1>1 DEF vars, Worded
<1>2. {"none", "c", "j", "i", "r", "l", "q", "u", "s", "f", "d", "continue"}
          \subseteq Letters \ ShotAnswers
  BY DEF Letters, ShotAnswers
<1>3. ASSUME NEW p \in Participants, SessionEvent(p) \/ FollowDeadLobby(p)
      PROVE  Worded'
  BY <1>3 DEF SessionEvent, Connect, ReadError, WriteError, Flushed, FollowDeadLobby, Worded
<1>4. ASSUME NEW p \in Participants, HandleMessageConnected(p)
      PROVE  Worded'
  BY <1>2, <1>4, ReplyWorded
  DEF HandleMessageConnected, Create, Join, ConnectTo, Enter, Refuse, List, QuitConnected
<1>5. ASSUME NEW p \in Participants, ReadyInLobby(p)
      PROVE  Worded'
  <2>1. Say("r") \in Said /\ Say("s") \in Said
    BY <1>2, SaySaid
  <2>2. CASE Reply("r", p)
    BY <1>2, <2>2, ReplyWorded
  <2>3. CASE /\ sendMsg' = Say("s")
             /\ sent' = WriteMsg(Say("r"), p) \o WriteLobby(Say("s"), LobbyOf(p))
    BY <2>1, <2>3, ToldSaid DEF WriteLobby, Worded
  <2> QED
    BY <1>5, <2>2, <2>3 DEF ReadyInLobby, Deliver
<1>6. ASSUME NEW p \in Participants, Unready(p) \/ Leave(p) \/ QuitLobby(p)
      PROVE  Worded'
  BY <1>2, <1>6, ReplyWorded DEF Unready, Leave, QuitLobby
<1>7. ASSUME NEW msg \in Said, NEW lobby, Deliver(WriteLobby(msg, lobby)),
             sendMsg' = msg
      PROVE  Worded'
  BY <1>7, ToldSaid DEF Deliver, WriteLobby, Worded
<1>8. ASSUME NEW p \in Participants, NEW c \in Cells, Shoot(p, c) \/ Win(p, c)
      PROVE  Worded'
  <2>1. \A letter \in ShotAnswers : Answer(letter, c) \in Said
    BY AnswerSaid DEF ShotAnswers, Letters
  <2>2. ShotAnswer(TargetField(LobbyOf(p), p), c) \in ShotAnswers /\ "g" \in ShotAnswers
    BY ShotAnswerType DEF ShotAnswers
  <2>3. CASE Shoot(p, c)
    BY <1>7, <2>1, <2>2, <2>3 DEF Shoot, Announce
  <2>4. CASE Win(p, c)
    <3>1. CASE Announce(Answer("g", c), LobbyOf(p))
      BY <1>7, <2>1, <2>2, <3>1 DEF Announce
    <3>2. CASE sent' = <<>> /\ UNCHANGED sendMsg
      BY <3>2 DEF Worded
    <3> QED
      BY <2>4, <3>1, <3>2 DEF Win
  <2> QED
    BY <1>8, <2>3, <2>4
<1>9. ASSUME NEW p \in Participants, ReadyToPlay(p)
      PROVE  Worded'
  <2>1. Say("f") \in Said /\ Say("s") \in Said
    BY <1>2, SaySaid
  <2>2. CASE sent' = <<>> /\ UNCHANGED sendMsg
    BY <2>2 DEF Worded
  <2>3. CASE /\ sendMsg' = Say("s")
             /\ \E a, b : sent' = WriteMsg(Say("f"), a) \o WriteMsg(Say("s"), b)
    BY <2>1, <2>3, ToldSaid DEF Worded
  <2> QED
    BY <1>9, <2>2, <2>3 DEF ReadyToPlay, Deliver
<1>10. ASSUME NEW p \in Participants,
              \/ \E s \in Placements : PlaceShip(p, s)
              \/ \E c \in Cells : RepeatShot(p, c)
              \/ WrongTurn(p) \/ Continue(p) \/ Unexpected(p)
       PROVE  Worded'
  BY <1>2, <1>10, ReplyWorded DEF PlaceShip, RepeatShot, WrongTurn, Continue, Unexpected
<1>11. ASSUME NEW p \in Participants, Rebroadcast(p)
       PROVE  Worded'
  BY <1>7, <1>11 DEF Rebroadcast, Worded
<1>12. CASE Next
  BY <1>3, <1>4, <1>5, <1>6, <1>8, <1>9, <1>10, <1>11, <1>12
  DEF Next, HandleMessageLobby, HandleMessageSession
<1> QED
  BY <1>1, <1>12

-----------------------------------------------------------------------------
(* The messages of one recipient.  A set of numbers has an n-th smallest for every n
   up to its size. *)
LEMMA NthOfNumbers ==
    ASSUME NEW last \in Nat, NEW S \in SUBSET (1 .. last)
    PROVE  /\ IsFiniteSet(S) /\ Cardinality(S) \in Nat
           /\ \A n \in 1 .. Cardinality(S) :
                  \E i \in S : Cardinality({j \in S : j <= i}) = n
<1> DEFINE Ranked(A) ==
               /\ IsFiniteSet(A) /\ Cardinality(A) \in Nat
               /\ \A n \in 1 .. Cardinality(A) :
                      \E i \in A : Cardinality({j \in A : j <= i}) = n
           T == {k \in Nat : \A A \in SUBSET (1 .. k) : Ranked(A)}
<1>1. 0 \in T
  <2> SUFFICES ASSUME NEW A \in SUBSET (1 .. 0) PROVE Ranked(A)
    OBVIOUS
  <2>1. A = {}
    OBVIOUS
  <2> QED
    BY <2>1, FS_EmptySet
<1>2. ASSUME NEW k \in Nat, k \in T PROVE k + 1 \in T
  <2> SUFFICES ASSUME NEW A \in SUBSET (1 .. k + 1) PROVE Ranked(A)
    OBVIOUS
  <2> DEFINE B == A \ {k + 1}
  <2>1. B \in SUBSET (1 .. k)
    OBVIOUS
  <2>2. Ranked(B)
    BY <1>2, <2>1
  <2>3. CASE k + 1 \notin A
    <3>1. B = A
      BY <2>3
    <3> QED
      BY <2>2, <3>1
  <2>4. CASE k + 1 \in A
    <3>1. A = B \cup {k + 1} /\ k + 1 \notin B
      BY <2>4
    <3> HIDE DEF B
    <3>2. IsFiniteSet(A) /\ Cardinality(A) = Cardinality(B) + 1
      BY <2>2, <3>1, FS_AddElement
    <3>3. ASSUME NEW n \in 1 .. Cardinality(A)
          PROVE  \E i \in A : Cardinality({j \in A : j <= i}) = n
      <4>1. CASE n \in 1 .. Cardinality(B)
        <5>1. PICK i \in B : Cardinality({j \in B : j <= i}) = n
          BY <2>2, <4>1
        <5>2. i \in 1 .. k
          BY <2>1
        <5>3. {j \in A : j <= i} = {j \in B : j <= i}
          BY <3>1, <5>2
        <5> QED
          BY <3>1, <5>1, <5>3
      <4>2. CASE n = Cardinality(A)
        <5>1. \A j \in A : j <= k + 1
          OBVIOUS
        <5>2. {j \in A : j <= k + 1} = A
          BY <5>1, Zenon
        <5> QED
          BY <3>1, <4>2, <5>2
      <4> QED
        BY <2>2, <3>2, <3>3, <4>1, <4>2
    <3> QED
      BY <2>2, <3>2, <3>3
  <2> QED
    BY <2>3, <2>4
<1> HIDE DEF T
<1>3. T \in SUBSET Nat
  BY DEF T
<1>4. 0 .. last \subseteq T
  BY <1>1, <1>2, <1>3, EveryTurn
<1>5. last \in T
  BY <1>4
<1> QED
  BY <1>5 DEF T

LEMMA MailForType ==
    ASSUME TypeOK', Worded', NEW q \in Participants
    PROVE  MailFor(q) \in Seq(Said)
<1> DEFINE mine == {i \in DOMAIN sent' : sent'[i].to = q}
           N(n) == CHOOSE i \in mine : Cardinality({j \in mine : j <= i}) = n
<1>1. Len(sent') \in Nat /\ mine \in SUBSET (1 .. Len(sent'))
  BY LenProperties DEF TypeOK
<1>2. /\ Cardinality(mine) \in Nat
      /\ \A n \in 1 .. Cardinality(mine) : N(n) \in mine
  <2> HIDE DEF mine
  <2> QED
    BY <1>1, NthOfNumbers
<1>3. \A i \in mine : sent'[i].msg \in Said
  BY DEF Worded
<1>4. MailFor(q) = [n \in 1 .. Cardinality(mine) |-> sent'[N(n)].msg]
  BY DEF MailFor
<1> HIDE DEF mine, N
<1>5. [n \in 1 .. Cardinality(mine) |-> sent'[N(n)].msg] \in [1 .. Cardinality(mine) -> Said]
  BY <1>2, <1>3
<1> QED
  BY <1>2, <1>4, <1>5, SeqDef

-----------------------------------------------------------------------------
(* The client's operators. *)

LEMMA HearType ==
    ASSUME NEW c \in ClientPrograms, NEW msg \in Said
    PROVE  Hear(c, msg) \in ClientPrograms
<1> USE DEF ClientPrograms, EgsValues
<1>1. Throw(c) \in ClientPrograms
  BY DEF Throw
<1>2. EnterSession(c) \in ClientPrograms
  BY ClearType DEF EnterSession
<1>3. msg.letter \in ShotAnswers =>
          /\ CopyAnswer(c.m_my, msg.cell, msg.letter) \in Fields
          /\ CopyAnswer(c.m_en, msg.cell, msg.letter) \in Fields
  BY CopyAnswerType DEF Said, ShotAnswers
<1>4. HearConnected(c, msg) \in ClientPrograms
  BY <1>1 DEF HearConnected
<1>5. HearLobby(c, msg) \in ClientPrograms
  BY <1>1, <1>2 DEF HearLobby
<1>6. HearPreparation(c, msg) \in ClientPrograms
  BY DEF HearPreparation, HearStart
<1>7. HearMyTurn(c, msg) \in ClientPrograms
  BY <1>1, <1>3 DEF HearMyTurn, AfterAnswer
<1>8. HearEnemyTurn(c, msg) \in ClientPrograms
  BY <1>1, <1>3 DEF HearEnemyTurn, AfterAnswer
<1>9. HearEnd(c, msg) \in ClientPrograms
  BY DEF HearEnd
<1> QED
  BY <1>4, <1>5, <1>6, <1>7, <1>8, <1>9 DEF Hear

LEMMA TypedType ==
    ASSUME NEW c \in ClientPrograms, NEW line
    PROVE  Typed(c, line) \in ClientPrograms
<1>1. PlacesShip(c, line) => SetShip(c.m_my, line.ship) \in Fields
  BY SetShipType DEF PlacesShip, ClientPrograms
<1> QED
  BY <1>1 DEF Typed, ClientPrograms

-----------------------------------------------------------------------------
(* Types.  A client takes in only what a message brings: that an answer to a shot always
   comes with a cell of the board is what keeps its fields fields. *)
SystemTypeInv ==
    /\ TypeInv
    /\ Worded
    /\ client \in [Participants -> ClientPrograms]
    /\ pressed \in [Participants -> Lines \cup {NoLine}]
    /\ toServer \in [Participants -> Seq(Lines)]
    /\ toClient \in [Participants -> Seq(Said)]

LEMMA InitSystemTypeInv == SysInit => SystemTypeInv
<1> SUFFICES ASSUME SysInit PROVE SystemTypeInv
  OBVIOUS
<1>1. TypeInv
  BY InitTypeInv DEF SysInit
<1>2. Say("none") \in Said
  BY SaySaid DEF Letters, ShotAnswers
<1>3. Worded
  BY <1>2 DEF SysInit, Init, Worded
<1>4. \A g \in InitialGameStates : NewClient(g) \in ClientPrograms
  BY ClientAssumption, EmptyFieldType DEF NewClient, ClientPrograms
<1>5. client \in [Participants -> ClientPrograms]
  BY <1>4 DEF SysInit
<1> QED
  BY <1>1, <1>3, <1>5 DEF SysInit, SystemTypeInv

LEMMA NextSystemTypeInv ==
    ASSUME SystemTypeInv, [SysNext]_sysVars
    PROVE  SystemTypeInv'
<1> USE DEF SystemTypeInv
<1>1. TypeInv' /\ Worded' /\ TypeOK'
  <2>1. [Next]_vars
    BY SysNextIsServer
  <2> QED
    BY <2>1, NextTypeInv, NextWorded DEF TypeInv
<1>2. CASE UNCHANGED sysVars
  BY <1>1, <1>2 DEF sysVars, ends
<1>3. ASSUME NEW p \in Participants, Accept(p) \/ Flush(p) PROVE SystemTypeInv'
  BY <1>1, <1>3 DEF Accept, Flush, ends
<1>4. ASSUME NEW p \in Participants, NEW line \in Lines, Press(p, line) PROVE SystemTypeInv'
  BY <1>1, <1>4 DEF Press
<1>5. ASSUME NEW p \in Participants, Act(p) PROVE SystemTypeInv'
  <2> DEFINE line == pressed[p]
  <2>1. line \in Lines
    BY <1>5 DEF Act
  <2>2. Append(toServer[p], line) \in Seq(Lines)
    BY <2>1, AppendProperties
  <2>3. toServer' \in [Participants -> Seq(Lines)]
    BY <1>5, <2>2 DEF Act
  <2>4. Typed(client[p], line) \in ClientPrograms
    BY TypedType
  <2>5. [client[p] EXCEPT !.program = "closed"] \in ClientPrograms
    BY DEF ClientPrograms
  <2>6. client' \in [Participants -> ClientPrograms]
    BY <1>5, <2>4, <2>5 DEF Act
  <2> QED
    BY <1>1, <1>5, <2>3, <2>6 DEF Act
<1>6. ASSUME NEW p \in Participants, Serve(p) PROVE SystemTypeInv'
  <2>1. toServer' \in [Participants -> Seq(Lines)]
    BY <1>6, HeadOfLines DEF Serve
  <2>2. toClient' \in [Participants -> Seq(Said)]
    <3>1. CASE Posted
      <4>1. ASSUME NEW q \in Participants PROVE toClient[q] \o MailFor(q) \in Seq(Said)
        BY <1>1, MailForType, ConcatProperties
      <4> QED
        BY <3>1, <4>1 DEF Posted
    <3>2. CASE UNCHANGED toClient
      BY <3>2
    <3> QED
      BY <1>6, <3>1, <3>2 DEF Serve, Drop
  <2> QED
    BY <1>1, <1>6, <2>1, <2>2 DEF Serve
<1>7. ASSUME NEW p \in Participants, Receive(p) PROVE SystemTypeInv'
  <2>1. Head(toClient[p]) \in Said /\ Tail(toClient[p]) \in Seq(Said)
    BY <1>7, HeadTailProperties DEF Receive
  <2>2. Hear(client[p], Head(toClient[p])) \in ClientPrograms
    BY <2>1, HearType
  <2> QED
    BY <1>1, <1>7, <2>1, <2>2 DEF Receive
<1>8. ASSUME NEW p \in Participants, Close(p) PROVE SystemTypeInv'
  BY <1>1, <1>8 DEF Close, ClientPrograms
<1>9. ASSUME NEW p \in Participants, Disconnect(p) PROVE SystemTypeInv'
  BY <1>1, <1>9 DEF Disconnect
<1> QED
  BY <1>2, <1>3, <1>4, <1>5, <1>6, <1>7, <1>8, <1>9 DEF SysNext

LEMMA AlwaysSystemTypeInv == SysSpec => []SystemTypeInv
BY InitSystemTypeInv, NextSystemTypeInv, PTL DEF SysSpec

(* Every record of every client, and every channel, keeps its type. *)
THEOREM SystemTypeCorrect == SysSpec => []SystemTypeOK
<1>1. SystemTypeInv => SystemTypeOK
  <2> SUFFICES ASSUME SystemTypeInv PROVE toClient \in [Participants -> Seq(Messages)]
    BY DEF SystemTypeInv, SystemTypeOK
  <2>1. Seq(Said) \subseteq Seq(Messages)
    BY SeqMonotonic DEF Said
  <2> QED
    BY <2>1 DEF SystemTypeInv
<1> QED
  BY AlwaysSystemTypeInv, <1>1, PTL

(* The server of the system is the Server of the theorems: all they say of it holds here,
   with any clients at the other end. *)
THEOREM SystemIsServer == SysSpec => Spec
<1>1. SysInit => Init
  BY DEF SysInit
<1>2. SystemTypeInv /\ [SysNext]_sysVars => [Next]_vars
  BY SysNextIsServer DEF SystemTypeInv
<1> QED
  BY AlwaysSystemTypeInv, <1>1, <1>2, PTL DEF SysSpec, Spec

-----------------------------------------------------------------------------
(* A client hears the same with and without what Seen leaves out. *)
LEMMA SeenHear ==
    ASSUME NEW c \in ClientPrograms, NEW msg \in Said
    PROVE  Seen(Hear(Seen(c), msg)) = Seen(Hear(c, msg))
<1> DEFINE s == Seen(c)
<1>1. /\ s \in ClientPrograms
      /\ s.state = c.state /\ s.gameState = c.gameState /\ s.ready = c.ready
      /\ s.second_turn = c.second_turn /\ s.lobbyReady = c.lobbyReady /\ s.m_en = c.m_en
      /\ s.program = c.program
  BY EmptyFieldType DEF Seen, ClientPrograms
<1>2. ASSUME NEW a \in ClientPrograms, NEW b \in ClientPrograms,
             a.state = b.state, a.gameState = b.gameState, a.ready = b.ready,
             a.second_turn = b.second_turn, a.lobbyReady = b.lobbyReady, a.m_en = b.m_en,
             a.program = b.program
      PROVE  Seen(a) = Seen(b)
  BY <1>2 DEF Seen, ClientPrograms
<1>3. Hear(s, msg) \in ClientPrograms /\ Hear(c, msg) \in ClientPrograms
  BY <1>1, HearType
<1> HIDE DEF s
<1> SUFFICES LET a == Hear(s, msg)
                 b == Hear(c, msg)
             IN  /\ a.state = b.state /\ a.gameState = b.gameState /\ a.ready = b.ready
                 /\ a.second_turn = b.second_turn /\ a.lobbyReady = b.lobbyReady
                 /\ a.m_en = b.m_en /\ a.program = b.program
  BY <1>2, <1>3 DEF s
<1> USE <1>1 DEF ClientPrograms, EgsValues, Throw
<1>4. CASE c.state = "connected"
  BY <1>4 DEF Hear, HearConnected
<1>5. CASE c.state = "lobby"
  BY <1>5 DEF Hear, HearLobby, EnterSession
<1>6. CASE c.state = "session" /\ c.gameState = "preparation"
  BY <1>6 DEF Hear, HearPreparation, HearStart
<1>7. CASE c.state = "session" /\ c.gameState = "my_turn"
  BY <1>7 DEF Hear, HearMyTurn
<1>8. CASE c.state = "session" /\ c.gameState = "enemy_turn"
  BY <1>8 DEF Hear, HearEnemyTurn
<1>9. CASE c.state = "session" /\ c.gameState = "end"
  BY <1>9 DEF Hear, HearEnd
<1>10. CASE c.state = "session" /\ c.gameState = "garbage"
  BY <1>10 DEF Hear
<1> QED
  BY <1>4, <1>5, <1>6, <1>7, <1>8, <1>9, <1>10

-----------------------------------------------------------------------------
(* What the server holds of one player: the life of his session, his record, and, while
   he is in the session, whose turn it is for him, whether he is ready, and what has
   been found out about the enemy's board. *)
Desks ==
    [life : Lives, state : ClientStates, ready : BOOLEAN, flag : BOOLEAN,
     game : {"preparation", "my_turn", "enemy_turn", "end"},
     hits : SUBSET Cells, shots : SUBSET Cells]

InPreparation(d) == d.state = "session" /\ d.game = "preparation"

InTurns(d) == d.state = "session" /\ d.game \in {"my_turn", "enemy_turn"}

Gathered(d) ==
    [d EXCEPT !.state = "session", !.game = "preparation", !.flag = FALSE,
              !.hits = {}, !.shots = {}]

Left(d) ==
    [d EXCEPT !.state = "lobby", !.ready = FALSE, !.game = "preparation", !.flag = FALSE,
              !.hits = {}, !.shots = {}]

AfterShot(d, game) ==
    IF game = "end" THEN [d EXCEPT !.game = game, !.flag = FALSE, !.ready = FALSE]
    ELSE [d EXCEPT !.game = game]

(* What becomes of a player's desk when he is told something he did not ask for: the game
   is called, the turns begin, the enemy has shot. *)
Called(d, msg, e) ==
    d.state = "lobby" /\ d.ready /\ msg = Say("s") /\ e = Gathered(d)

Begun(d, msg, e) ==
    /\ InPreparation(d) /\ d.flag
    /\ \/ msg = Say("f") /\ e = [d EXCEPT !.game = "my_turn"]
       \/ msg = Say("s") /\ e = [d EXCEPT !.game = "enemy_turn"]

Struck(d, msg, e) ==
    /\ d.state = "session" /\ d.game = "enemy_turn"
    /\ msg.letter \in ShotAnswers
    /\ e = AfterShot(d, AfterAnswer(msg.letter, "enemy_turn", "my_turn"))

Notified(d, msg, e) == Called(d, msg, e) \/ Begun(d, msg, e) \/ Struck(d, msg, e)

(* What becomes of it when he is answered. *)
Gone(e) == e.life \notin {"fresh", "open"}

AnsweredConnected(d, msg, e) ==
    /\ d.state = "connected"
    /\ \/ msg \in {Say("c"), Say("j"), Say("i")} /\ e = [d EXCEPT !.state = "lobby"]
       \/ msg \in {Say("r"), Say("l")} /\ e = d
       \/ msg = Say("q") /\ Gone(e)

AnsweredLobby(d, msg, e) ==
    /\ d.state = "lobby"
    /\ \/ msg = Say("r") /\ e = [d EXCEPT !.ready = TRUE]
       \/ msg = Say("u") /\ e = [d EXCEPT !.ready = FALSE]
       \/ msg = Say("l") /\ e = [d EXCEPT !.state = "connected"]
       \/ msg = Say("q") /\ Gone(e)

AnsweredPreparation(d, line, msg, e) ==
    /\ InPreparation(d) /\ line.word # "ready"
    /\ \/ msg \in {Say("d"), Say("f")} /\ e = d
       \/ msg = Say("f") /\ Gone(e)

AnsweredShot(d, msg, e) ==
    /\ d.state = "session" /\ d.game = "my_turn"
    /\ msg.letter \in ShotAnswers
    /\ \E f \in Fields :
           /\ f.ship = d.hits /\ f.shot = d.shots
           /\ LET g == CopyAnswer(f, msg.cell, msg.letter)
                  after == AfterShot(d, AfterAnswer(msg.letter, "my_turn", "enemy_turn"))
              IN  e = [after EXCEPT !.hits = g.ship, !.shots = g.shot]

AnsweredTurns(d, msg, e) ==
    \/ InTurns(d) /\ msg = Say("f") /\ e = d
    \/ AnsweredShot(d, msg, e)

AnsweredEnd(d, msg, e) ==
    /\ d.state = "session" /\ d.game = "end"
    /\ \/ msg = Say("continue") /\ e = Left(d)
       \/ msg = Say("f") /\ (e = d \/ Gone(e))

Answered(d, line, msg, e) ==
    \/ AnsweredConnected(d, msg, e) \/ AnsweredLobby(d, msg, e)
    \/ AnsweredPreparation(d, line, msg, e)
    \/ AnsweredTurns(d, msg, e) \/ AnsweredEnd(d, msg, e)

(* A line that is not answered: it is dropped, or meets a dead object, or is the "ready" of
   the first of the two. *)
Recorded(d, line, e) ==
    \/ (d.state # "session" \/ InTurns(d)) /\ e = d
    \/ InPreparation(d) /\ line.word = "ready" /\ e = [d EXCEPT !.flag = TRUE]

-----------------------------------------------------------------------------
(* What the client will believe when it has heard all that is on its way is what the
   server holds. *)
Agrees(w, c, d) ==
    /\ w.state = d.state
    /\ w.state # "session" =>
           w.lobbyReady = d.ready /\ w.gameState = "preparation" /\ ~w.ready
    /\ w.state = "session" =>
           /\ ~w.lobbyReady /\ w.gameState = d.game
           /\ d.game = "preparation" /\ w.ready => AwaitsTurns(c)
           /\ w.m_en.ship = d.hits /\ w.m_en.shot = d.shots

(* A message heard as the desk changes leaves no exception, and agreement. *)
Understood(w, msg, c, e) ==
    /\ Hear(w, msg).program = "running"
    /\ e.life = "open" => Agrees(Seen(Hear(w, msg)), c, e)

LEMMA SeenParts ==
    ASSUME NEW c \in ClientPrograms
    PROVE  LET s == Seen(c)
           IN  /\ s \in ClientPrograms
               /\ s.state = c.state /\ s.gameState = c.gameState /\ s.ready = c.ready
               /\ s.second_turn = c.second_turn /\ s.lobbyReady = c.lobbyReady
               /\ s.m_en = c.m_en /\ s.program = c.program
BY EmptyFieldType DEF Seen, ClientPrograms

LEMMA NotifiedUnderstood ==
    ASSUME NEW w \in ClientPrograms, w.program = "running", NEW c, NEW d \in Desks,
           Agrees(w, c, d), NEW msg \in Said, NEW e, Notified(d, msg, e),
           InPreparation(d) /\ d.flag => w.ready
    PROVE  Understood(w, msg, c, e)
<1> DEFINE h == Hear(w, msg)
           s == Seen(h)
<1>1. /\ h \in ClientPrograms
      /\ s.state = h.state /\ s.gameState = h.gameState /\ s.ready = h.ready
      /\ s.lobbyReady = h.lobbyReady /\ s.m_en = h.m_en
  BY HearType, SeenParts
<1> HIDE DEF h, s
<1> SUFFICES h.program = "running" /\ Agrees(s, c, e)
  BY DEF Understood, h, s
<1> USE DEF Agrees, Desks, ClientPrograms
<1>2. CASE Called(d, msg, e)
  <2>1. h = EnterSession(w)
    BY <1>2 DEF h, Called, Hear, HearLobby, FirstLetter, Say
  <2>2. h.m_en.ship = {} /\ h.m_en.shot = {}
    BY <2>1 DEF EnterSession, Clear, Fields
  <2> QED
    BY <1>1, <1>2, <2>1, <2>2 DEF Called, Gathered, EnterSession
<1>3. CASE Begun(d, msg, e)
  <2>1. h = HearStart(w, msg)
    BY <1>3 DEF h, Begun, InPreparation, Hear, HearPreparation
  <2> QED
    BY <1>1, <1>3, <2>1 DEF Begun, InPreparation, HearStart, FirstLetter, Say
<1>4. CASE Struck(d, msg, e)
  <2>1. h = HearEnemyTurn(w, msg)
    BY <1>4 DEF h, Struck, Hear
  <2>2. /\ h.gameState = AfterAnswer(msg.letter, "enemy_turn", "my_turn")
        /\ h.state = w.state /\ h.m_en = w.m_en /\ h.program = w.program
        /\ h.lobbyReady = w.lobbyReady /\ h.ready = w.ready
    <3>1. h = [w EXCEPT !.m_my = CopyAnswer(@, msg.cell, msg.letter),
                        !.gameState = AfterAnswer(msg.letter, "enemy_turn", "my_turn")]
      BY <1>4, <2>1 DEF Struck, HearEnemyTurn, ShotAnswers
    <3> QED
      BY <3>1
  <2>3. AfterAnswer(msg.letter, "enemy_turn", "my_turn") \in {"my_turn", "enemy_turn", "end"}
    BY DEF AfterAnswer
  <2> QED
    BY <1>1, <1>4, <2>2, <2>3 DEF Struck, AfterShot
<1> QED
  BY <1>2, <1>3, <1>4 DEF Notified

(* Two copies that know the same of a field know the same after an answer. *)
LEMMA CopiesAlike ==
    ASSUME NEW f \in Fields, NEW g \in Fields, f.ship = g.ship, f.shot = g.shot,
           NEW cell \in Cells, NEW letter \in ShotAnswers
    PROVE  /\ CopyAnswer(f, cell, letter).ship = CopyAnswer(g, cell, letter).ship
           /\ CopyAnswer(f, cell, letter).shot = CopyAnswer(g, cell, letter).shot
<1>1. /\ MarkHit(f, cell).ship = MarkHit(g, cell).ship
      /\ MarkHit(f, cell).shot = MarkHit(g, cell).shot
  BY DEF MarkHit, Fields
<1>2. MarkHit(f, cell) \in Fields /\ MarkHit(g, cell) \in Fields
  BY DEF MarkHit, Fields
<1>3. ASSUME NEW a \in Fields, NEW b \in Fields, a.ship = b.ship, a.shot = b.shot
      PROVE  Kill(a, cell).ship = Kill(b, cell).ship /\ Kill(a, cell).shot = Kill(b, cell).shot
  <2>1. /\ \A n : StepBack(a, n) = StepBack(b, n)
        /\ \A n : StepForward(a, n) = StepForward(b, n)
    BY <1>3 DEF StepBack, StepForward, StepIn
  <2>2. ShipStart(a, cell) = ShipStart(b, cell)
    BY <2>1 DEF ShipStart
  <2>3. Walked(a, cell) = Walked(b, cell)
    BY <1>3, <2>1, <2>2 DEF Walked
  <2> QED
    BY <1>3, <2>3 DEF Kill, Fields
<1>4. MarkMiss(f, cell).ship = MarkMiss(g, cell).ship /\ MarkMiss(f, cell).shot = MarkMiss(g, cell).shot
  BY DEF MarkMiss, Fields
<1> QED
  BY <1>1, <1>2, <1>3, <1>4 DEF CopyAnswer, ShotAnswers

LEMMA AnsweredUnderstood ==
    ASSUME NEW w \in ClientPrograms, w.program = "running", NEW c, NEW d \in Desks,
           Agrees(w, c, d), NEW msg \in Said, NEW line, NEW e, Answered(d, line, msg, e),
           InPreparation(d) => ~w.ready
    PROVE  Understood(w, msg, c, e)
<1> DEFINE h == Hear(w, msg)
           s == Seen(h)
<1>1. /\ h \in ClientPrograms
      /\ s.state = h.state /\ s.gameState = h.gameState /\ s.ready = h.ready
      /\ s.lobbyReady = h.lobbyReady /\ s.m_en = h.m_en
  BY HearType, SeenParts
<1> HIDE DEF h, s
<1> SUFFICES h.program = "running" /\ (e.life = "open" => Agrees(s, c, e))
  BY DEF Understood, h, s
<1> USE DEF Agrees, Desks, ClientPrograms, Gone
<1>2. CASE AnsweredConnected(d, msg, e)
  <2>1. h = HearConnected(w, msg)
    BY <1>2 DEF h, AnsweredConnected, Hear
  <2> QED
    BY <1>1, <1>2, <2>1 DEF AnsweredConnected, HearConnected, FirstLetter, Say
<1>3. CASE AnsweredLobby(d, msg, e)
  <2>1. h = HearLobby(w, msg)
    BY <1>3 DEF h, AnsweredLobby, Hear
  <2>2. CASE msg = Say("r") /\ e = [d EXCEPT !.ready = TRUE]
    <3>1. h = [w EXCEPT !.lobbyReady = TRUE]
      BY <2>1, <2>2 DEF HearLobby, FirstLetter, Say
    <3> QED
      BY <1>1, <1>3, <2>2, <3>1 DEF AnsweredLobby
  <2>3. CASE msg = Say("u") /\ e = [d EXCEPT !.ready = FALSE]
    <3>1. h = [w EXCEPT !.lobbyReady = FALSE]
      BY <2>1, <2>3 DEF HearLobby, FirstLetter, Say
    <3> QED
      BY <1>1, <1>3, <2>3, <3>1 DEF AnsweredLobby
  <2>4. CASE msg = Say("l") /\ e = [d EXCEPT !.state = "connected"]
    <3>1. h = [w EXCEPT !.state = "connected"]
      BY <2>1, <2>4 DEF HearLobby, FirstLetter, Say
    <3> QED
      BY <1>1, <1>3, <2>4, <3>1 DEF AnsweredLobby
  <2>5. CASE msg = Say("q") /\ Gone(e)
    <3>1. h = w
      BY <2>1, <2>5 DEF HearLobby, FirstLetter, Say
    <3> QED
      BY <1>1, <2>5, <3>1
  <2> QED
    BY <1>3, <2>2, <2>3, <2>4, <2>5 DEF AnsweredLobby
<1>4. CASE AnsweredPreparation(d, line, msg, e)
  <2>1. h = [w EXCEPT !.serverError = @ \/ FirstLetter(msg) = "f"]
    BY <1>4 DEF h, AnsweredPreparation, InPreparation, Hear, HearPreparation
  <2> QED
    BY <1>1, <1>4, <2>1 DEF AnsweredPreparation, InPreparation
<1>5. CASE InTurns(d) /\ msg = Say("f") /\ e = d
  <2>1. h = w
    BY <1>5 DEF h, InTurns, Hear, HearMyTurn, HearEnemyTurn, Say, ShotAnswers
  <2> QED
    BY <1>1, <1>5, <2>1
<1>6. CASE AnsweredShot(d, msg, e)
  <2>1. h = HearMyTurn(w, msg)
    BY <1>6 DEF h, AnsweredShot, Hear
  <2>2. /\ h.gameState = AfterAnswer(msg.letter, "my_turn", "enemy_turn")
        /\ h.m_en = CopyAnswer(w.m_en, msg.cell, msg.letter)
        /\ h.state = w.state /\ h.program = w.program
        /\ h.lobbyReady = w.lobbyReady /\ h.ready = w.ready
    <3>1. h = [w EXCEPT !.m_en = CopyAnswer(@, msg.cell, msg.letter),
                        !.gameState = AfterAnswer(msg.letter, "my_turn", "enemy_turn")]
      BY <1>6, <2>1 DEF AnsweredShot, HearMyTurn, ShotAnswers
    <3> QED
      BY <3>1
  <2>3. AfterAnswer(msg.letter, "my_turn", "enemy_turn") \in {"my_turn", "enemy_turn", "end"}
    BY DEF AfterAnswer
  <2>4. PICK f \in Fields :
           /\ f.ship = d.hits /\ f.shot = d.shots
           /\ LET g == CopyAnswer(f, msg.cell, msg.letter)
                  after == AfterShot(d, AfterAnswer(msg.letter, "my_turn", "enemy_turn"))
              IN  e = [after EXCEPT !.hits = g.ship, !.shots = g.shot]
    BY <1>6 DEF AnsweredShot
  <2>5. msg.cell \in Cells /\ msg.letter \in ShotAnswers /\ w.m_en \in Fields
    BY <1>6 DEF AnsweredShot, Said
  <2>6. /\ h.m_en.ship = CopyAnswer(f, msg.cell, msg.letter).ship
        /\ h.m_en.shot = CopyAnswer(f, msg.cell, msg.letter).shot
    BY <1>6, <2>2, <2>4, <2>5, CopiesAlike DEF AnsweredShot
  <2>7. /\ e.life = d.life /\ e.state = d.state
        /\ e.game = AfterAnswer(msg.letter, "my_turn", "enemy_turn")
        /\ e.hits = CopyAnswer(f, msg.cell, msg.letter).ship
        /\ e.shots = CopyAnswer(f, msg.cell, msg.letter).shot
    BY <2>4 DEF AfterShot
  <2> QED
    BY <1>1, <1>6, <2>2, <2>3, <2>6, <2>7 DEF AnsweredShot
<1>7. CASE AnsweredEnd(d, msg, e)
  <2>1. h = HearEnd(w, msg)
    BY <1>7 DEF h, AnsweredEnd, Hear
  <2>2. CASE msg = Say("continue") /\ e = Left(d)
    <3>1. h = [w EXCEPT !.gameState = "preparation", !.state = "lobby", !.ready = FALSE]
      BY <2>1, <2>2 DEF HearEnd, Say
    <3> QED
      BY <1>1, <1>7, <2>2, <3>1 DEF AnsweredEnd, Left
  <2>3. CASE msg = Say("f") /\ (e = d \/ Gone(e))
    <3>1. h = w
      BY <2>1, <2>3 DEF HearEnd, Say
    <3> QED
      BY <1>1, <1>7, <2>3, <3>1 DEF AnsweredEnd
  <2> QED
    BY <1>7, <2>2, <2>3 DEF AnsweredEnd
<1> QED
  BY <1>2, <1>3, <1>4, <1>5, <1>6, <1>7 DEF Answered, AnsweredTurns

-----------------------------------------------------------------------------
(* One player: his client c, the line pr of his button, the lines ts on their way to the
   server, the messages tc on their way to him, and his desk d. *)

MaySayReady(c) ==
    \/ c.state = "lobby" /\ ~c.lobbyReady
    \/ c.state = "session" /\ c.gameState = "preparation" /\ ~c.ready

(* Nothing is left over from a game in a client that is not in the session. *)
Rested(c) == c.state # "session" => c.gameState = "preparation" /\ ~c.ready

(* One who is ready has sent no more; in the turns he has sent only shots; and he has
   said that he is ready at most once, and last in the preparation. *)
LinesFit(ts, d) ==
    /\ InPreparation(d) /\ d.flag => ts = <<>>
    /\ InTurns(d) => \A i \in DOMAIN ts : ts[i].word = "shot"
    /\ \A i \in DOMAIN ts : ts[i].word = "ready" =>
           /\ i = 1
           /\ \/ InPreparation(d) /\ ~d.flag /\ Len(ts) = 1
              \/ d.state = "lobby" /\ ~d.ready

(* One who awaits the turns has nothing under way but his "ready", and is told nothing but
   that they begin; in the turns his client awaits them or plays. *)
ClientFits(c, pr, ts, tc, d) ==
    /\ AwaitsTurns(c) =>
           /\ pr = NoLine /\ d.state = "session"
           /\ d.game = "preparation" =>
                  tc = <<>> /\ (IF d.flag THEN ts = <<>> ELSE ts # <<>> /\ ts[1].word = "ready")
           /\ d.game # "preparation" => ts = <<>>
    /\ InPreparation(d) /\ d.flag => AwaitsTurns(c)
    /\ InTurns(d) =>
           /\ c.state = "session"
           /\ AwaitsTurns(c) \/ c.gameState \in {"my_turn", "enemy_turn"}
           /\ \A i \in DOMAIN tc : tc[i].letter \notin {"g", "continue"}
    /\ (\E i \in DOMAIN ts : ts[i].word = "ready") =>
           AwaitsTurns(c) \/ (c.state = "lobby" /\ tc = <<>>)

Follows(c, tc, d) ==
    \E w \in ClientPrograms :
        /\ Course(tc, Seen(c), w) /\ w.program = "running"
        /\ d.life = "open" => Agrees(w, c, d)

PressedFits(c, pr, ts, tc) ==
    pr # NoLine => (pr.word = "ready" => ts = <<>> /\ tc = <<>> /\ MaySayReady(c))

DeskFits(ts, d) ==
    LinesFit(ts, d) /\ (d.state = "session" /\ d.game = "end" => ~d.ready)

RunningFits(c, pr, ts, tc, d) ==
    /\ Rested(c)
    /\ PressedFits(c, pr, ts, tc)
    /\ Follows(c, tc, d)
    /\ d.life = "open" => ClientFits(c, pr, ts, tc, d)

Good(c, pr, ts, tc, d) ==
    /\ d.life = "fresh" =>
           c = NewClient("preparation") /\ pr = NoLine /\ ts = <<>> /\ tc = <<>>
    /\ d.life = "open" => DeskFits(ts, d)
    /\ c.program # "thrown"
    /\ c.program = "running" => RunningFits(c, pr, ts, tc, d)

(* A player in the middle of a run; the steps of the two programs and of the wires keep
   it so. *)
Player(c, pr, ts, tc, d) ==
    /\ c \in ClientPrograms /\ pr \in Lines \cup {NoLine}
    /\ ts \in Seq(Lines) /\ tc \in Seq(Said) /\ d \in Desks
    /\ Good(c, pr, ts, tc, d)

LEMMA SeqParts ==
    ASSUME NEW S, NEW q \in Seq(S)
    PROVE  /\ Len(q) \in Nat /\ DOMAIN q = 1 .. Len(q)
           /\ q # <<>> => /\ Len(q) >= 1 /\ 1 \in DOMAIN q /\ q[1] = Head(q)
                          /\ Head(q) \in S /\ Tail(q) \in Seq(S)
                          /\ Len(Tail(q)) = Len(q) - 1
                          /\ \A i \in DOMAIN Tail(q) :
                                 i + 1 \in DOMAIN q /\ Tail(q)[i] = q[i + 1] /\ i + 1 # 1
           /\ \A s \in S : /\ Append(q, s) \in Seq(S) /\ Len(Append(q, s)) = Len(q) + 1
                           /\ DOMAIN Append(q, s) = 1 .. Len(q) + 1
                           /\ \A i \in 1 .. Len(q) : Append(q, s)[i] = q[i]
                           /\ Append(q, s)[Len(q) + 1] = s
                           /\ q \o <<s>> = Append(q, s)
<1>1. Len(q) \in Nat /\ DOMAIN q = 1 .. Len(q)
  BY LenProperties
<1>2. ASSUME q # <<>>
      PROVE  /\ Len(q) >= 1 /\ 1 \in DOMAIN q /\ q[1] = Head(q)
             /\ Head(q) \in S /\ Tail(q) \in Seq(S)
             /\ Len(Tail(q)) = Len(q) - 1
             /\ \A i \in DOMAIN Tail(q) :
                    i + 1 \in DOMAIN q /\ Tail(q)[i] = q[i + 1] /\ i + 1 # 1
  <2>1. Len(q) >= 1 /\ 1 \in DOMAIN q /\ q[1] = Head(q)
    BY <1>1, <1>2, EmptySeq
  <2>2. Head(q) \in S /\ Tail(q) \in Seq(S) /\ Len(Tail(q)) = Len(q) - 1
    BY <1>2, HeadTailProperties
  <2>3. \A i \in 1 .. Len(Tail(q)) : Tail(q)[i] = q[i + 1]
    BY <1>2, HeadTailProperties
  <2>4. DOMAIN Tail(q) = 1 .. Len(q) - 1
    BY <2>2, LenProperties
  <2> QED
    BY <1>1, <2>1, <2>2, <2>3, <2>4
<1>3. ASSUME NEW s \in S
      PROVE  /\ Append(q, s) \in Seq(S) /\ Len(Append(q, s)) = Len(q) + 1
             /\ DOMAIN Append(q, s) = 1 .. Len(q) + 1
             /\ \A i \in 1 .. Len(q) : Append(q, s)[i] = q[i]
             /\ Append(q, s)[Len(q) + 1] = s
             /\ q \o <<s>> = Append(q, s)
  <2>1. Append(q, s) \in Seq(S) /\ Len(Append(q, s)) = Len(q) + 1
    BY AppendProperties
  <2>2. DOMAIN Append(q, s) = 1 .. Len(q) + 1
    BY <2>1, LenProperties
  <2> QED
    BY <2>1, <2>2, AppendProperties, AppendIsConcat
<1> QED
  BY <1>1, <1>2, <1>3

(* The player presses: one who awaits the turns does not, and says that he is ready only
   when nothing is under way. *)
LEMMA PressFits ==
    ASSUME Careful, NEW c, NEW ts, NEW tc, NEW d, Player(c, NoLine, ts, tc, d),
           NEW line \in Lines, c.program = "running", d.life = "open",
           line.word = "ready" => ts = <<>> /\ tc = <<>>,
           ~AwaitsTurns(c), line.word \in OfferedWords(c)
    PROVE  Player(c, line, ts, tc, d)
<1>1. c \in ClientPrograms /\ Good(c, NoLine, ts, tc, d)
  BY DEF Player
<1>2. line.word = "ready" => MaySayReady(c)
  BY <1>1 DEF OfferedWords, ButtonWords, ShotWords, MaySayReady, AwaitsTurns, ClientPrograms
<1>3. Good(c, line, ts, tc, d)
  BY <1>1, <1>2 DEF Good, RunningFits, PressedFits, ClientFits
<1> QED
  BY <1>3 DEF Player

(* The io thread hears the next message. *)
LEMMA HearKeepsWaiting ==
    ASSUME NEW c \in ClientPrograms, NEW msg \in Said, Rested(c)
    PROVE  LET h == Hear(c, msg)
           IN  /\ Rested(h) /\ ~(AwaitsTurns(h) /\ h.program = "running")
               /\ (/\ c.state = "session" /\ msg.letter \notin {"g", "continue"}
                   /\ AwaitsTurns(c) \/ c.gameState \in {"my_turn", "enemy_turn"}) =>
                      h.state = "session" /\ h.gameState \in {"my_turn", "enemy_turn"}
BY DEF Hear, HearConnected, HearLobby, EnterSession, HearPreparation, HearStart, HearMyTurn,
   HearEnemyTurn, AfterAnswer, HearEnd, Throw, Rested, AwaitsTurns, ClientPrograms, EgsValues

LEMMA ReceiveFits ==
    ASSUME NEW c, NEW pr, NEW ts, NEW tc, NEW d, Player(c, pr, ts, tc, d),
           c.program = "running", tc # <<>>
    PROVE  Player(Hear(c, Head(tc)), pr, ts, Tail(tc), d)
<1> DEFINE msg == Head(tc)
           h == Hear(c, msg)
           rest == Tail(tc)
<1>1. /\ c \in ClientPrograms /\ pr \in Lines \cup {NoLine} /\ ts \in Seq(Lines)
      /\ tc \in Seq(Said) /\ d \in Desks
      /\ Rested(c) /\ PressedFits(c, pr, ts, tc) /\ Follows(c, tc, d)
      /\ d.life = "open" => DeskFits(ts, d) /\ ClientFits(c, pr, ts, tc, d)
      /\ d.life # "fresh"
  BY DEF Player, Good, RunningFits
<1>2. /\ msg \in Said /\ rest \in Seq(Said) /\ msg = tc[1] /\ 1 \in DOMAIN tc
      /\ \A i \in DOMAIN rest : i + 1 \in DOMAIN tc /\ rest[i] = tc[i + 1]
  BY <1>1, SeqParts
<1>3. h \in ClientPrograms
  BY <1>1, <1>2, HearType
<1>4. PICK w \in ClientPrograms :
          /\ Course(tc, Seen(c), w) /\ w.program = "running"
          /\ d.life = "open" => Agrees(w, c, d)
  BY <1>1 DEF Follows
<1>5. PICK b \in ClientPrograms : Heard(Seen(c), msg, b) /\ Course(rest, b, w)
  BY <1>1, <1>4, CourseRest
<1>6. b = Seen(h) /\ h.program = "running"
  BY <1>1, <1>2, <1>3, <1>5, SeenHear, SeenParts DEF Heard
<1>7. /\ Rested(h) /\ ~AwaitsTurns(h)
      /\ (/\ c.state = "session" /\ msg.letter \notin {"g", "continue"}
          /\ AwaitsTurns(c) \/ c.gameState \in {"my_turn", "enemy_turn"}) =>
             h.state = "session" /\ h.gameState \in {"my_turn", "enemy_turn"}
  BY <1>1, <1>2, <1>6, HearKeepsWaiting
<1> HIDE DEF msg, h, rest
<1>8. PressedFits(h, pr, ts, rest)
  BY <1>1 DEF PressedFits
<1>9. ASSUME d.life = "open" PROVE ~(InPreparation(d) /\ AwaitsTurns(c))
  BY <1>1, <1>9 DEF ClientFits, InPreparation
<1>10. Follows(h, rest, d)
  <2>1. d.life = "open" => Agrees(w, h, d)
    BY <1>4, <1>9 DEF Agrees, InPreparation
  <2> QED
    BY <1>4, <1>5, <1>6, <2>1 DEF Follows
<1>11. ASSUME d.life = "open" PROVE ClientFits(h, pr, ts, rest, d)
  <2>1. ClientFits(c, pr, ts, tc, d) /\ DeskFits(ts, d)
    BY <1>1, <1>11
  <2>2. ~(InPreparation(d) /\ d.flag)
    BY <1>9, <1>11, <2>1 DEF ClientFits
  <2>3. InTurns(d) =>
           /\ h.state = "session" /\ h.gameState \in {"my_turn", "enemy_turn"}
           /\ \A i \in DOMAIN rest : rest[i].letter \notin {"g", "continue"}
    BY <1>2, <1>7, <2>1 DEF ClientFits
  <2>4. ~\E i \in DOMAIN ts : ts[i].word = "ready"
    <3> SUFFICES ASSUME NEW i \in DOMAIN ts, ts[i].word = "ready" PROVE FALSE
      OBVIOUS
    <3>1. AwaitsTurns(c)
      BY <2>1 DEF ClientFits
    <3>2. ts # <<>>
      OBVIOUS
    <3>3. d.state = "session" /\ d.game = "preparation"
      BY <2>1, <3>1, <3>2 DEF ClientFits
    <3> QED
      BY <1>9, <1>11, <3>1, <3>3 DEF InPreparation
  <2> QED
    BY <1>7, <2>2, <2>3, <2>4 DEF ClientFits
<1>12. Good(h, pr, ts, rest, d)
  BY <1>1, <1>6, <1>7, <1>8, <1>10, <1>11 DEF Good, RunningFits
<1> QED
  BY <1>1, <1>2, <1>3, <1>12 DEF Player, h, rest

(* The client acts on a button: what it sends the server can still take. *)
LEMMA ActFits ==
    ASSUME NEW c, NEW line \in Lines, NEW ts, NEW tc, NEW d, Player(c, line, ts, tc, d),
           c.program = "running",
           NEW ts2, ts2 = IF Sends(c, line) THEN Append(ts, line) ELSE ts,
           NEW h, h = IF line.word = "quit" THEN [c EXCEPT !.program = "closed"]
                      ELSE Typed(c, line)
    PROVE  Player(h, NoLine, ts2, tc, d)
<1>1. /\ c \in ClientPrograms /\ ts \in Seq(Lines) /\ tc \in Seq(Said) /\ d \in Desks
      /\ Rested(c) /\ PressedFits(c, line, ts, tc) /\ Follows(c, tc, d)
      /\ d.life = "open" => DeskFits(ts, d) /\ ClientFits(c, line, ts, tc, d)
      /\ line # NoLine /\ line.word \in Words
  BY SystemAssumption DEF Player, Good, RunningFits, LineRecords
<1>2. d.life # "fresh"
  BY <1>1 DEF Player, Good
<1>3. h \in ClientPrograms /\ ts2 \in Seq(Lines)
  BY <1>1, TypedType, AppendProperties DEF ClientPrograms
<1>4. CASE line.word # "ready"
  <2>1. h.program = "running" => h = Typed(c, line)
    BY <1>1 DEF ClientPrograms
  <2>2. /\ h.state = c.state /\ h.gameState = c.gameState /\ h.ready = c.ready
        /\ h.lobbyReady = c.lobbyReady /\ h.program # "thrown"
    BY <1>1, <1>4 DEF Typed, SaysReady, ClientPrograms
  <2>3. h.program = "running" => Seen(h) = Seen(c)
    BY <1>1, <1>4, <2>1 DEF Seen, Typed, SaysReady, ClientPrograms
  <2>4. AwaitsTurns(h) <=> AwaitsTurns(c)
    BY <2>2 DEF AwaitsTurns
  <2>5. Rested(h)
    BY <1>1, <2>2 DEF Rested
  <2>6. h.program = "running" => Follows(h, tc, d)
    BY <1>1, <2>3, <2>4 DEF Follows, Agrees
  <2>7. ASSUME d.life = "open" PROVE ~AwaitsTurns(c)
    BY <1>1, <2>7 DEF ClientFits
  <2>8. ASSUME d.life = "open"
        PROVE  DeskFits(ts2, d) /\ ClientFits(h, NoLine, ts2, tc, d)
    <3>1. DeskFits(ts, d) /\ ClientFits(c, line, ts, tc, d) /\ ~AwaitsTurns(c)
      BY <1>1, <2>7, <2>8
    <3>2. CASE ~Sends(c, line)
      BY <2>2, <2>4, <3>1, <3>2 DEF ClientFits
    <3>3. CASE Sends(c, line)
      <4>1. /\ ts2 = Append(ts, line) /\ Len(ts) \in Nat /\ DOMAIN ts = 1 .. Len(ts)
            /\ Len(ts2) = Len(ts) + 1 /\ DOMAIN ts2 = 1 .. Len(ts) + 1
            /\ (\A i \in 1 .. Len(ts) : ts2[i] = ts[i]) /\ ts2[Len(ts) + 1] = line
        BY <1>1, <3>3, SeqParts
      <4>2. ~(InPreparation(d) /\ d.flag)
        BY <3>1 DEF ClientFits
      <4>3. InTurns(d) => line.word = "shot"
        BY <1>1, <3>1, <3>3 DEF ClientFits, Sends, PlacesShip, SaysReady
      <4>4. ASSUME NEW i \in DOMAIN ts2, ts2[i].word = "ready"
            PROVE  /\ i \in DOMAIN ts /\ ts[i].word = "ready" /\ i = 1
                   /\ d.state = "lobby" /\ ~d.ready /\ c.state = "lobby" /\ tc = <<>>
        <5>1. i \in DOMAIN ts /\ ts[i].word = "ready"
          BY <1>4, <4>1, <4>4
        <5>2. c.state = "lobby" /\ tc = <<>>
          BY <3>1, <5>1 DEF ClientFits
        <5>3. PICK w \in ClientPrograms : Course(tc, Seen(c), w) /\ Agrees(w, c, d)
          BY <1>1, <2>8 DEF Follows
        <5>4. w = Seen(c)
          BY <1>1, <5>2, <5>3, CourseOfNone, SeenParts
        <5>5. d.state = "lobby"
          BY <1>1, <5>2, <5>3, <5>4, SeenParts DEF Agrees
        <5> QED
          BY <3>1, <5>1, <5>2, <5>5 DEF DeskFits, LinesFit, InPreparation
      <4>5. InTurns(d) => \A i \in DOMAIN ts2 : ts2[i].word = "shot"
        <5> SUFFICES ASSUME InTurns(d), NEW i \in 1 .. Len(ts) + 1 PROVE ts2[i].word = "shot"
          BY <4>1
        <5>1. \A j \in 1 .. Len(ts) : ts[j].word = "shot"
          BY <3>1, <4>1 DEF DeskFits, LinesFit
        <5> QED
          BY <4>1, <4>3, <5>1
      <4>6. DeskFits(ts2, d)
        BY <3>1, <4>2, <4>4, <4>5 DEF DeskFits, LinesFit
      <4>7. ClientFits(h, NoLine, ts2, tc, d)
        <5>1. ~AwaitsTurns(h)
          BY <2>4, <3>1
        <5>2. InTurns(d) =>
                 /\ h.state = "session"
                 /\ h.gameState \in {"my_turn", "enemy_turn"}
                 /\ \A i \in DOMAIN tc : tc[i].letter \notin {"g", "continue"}
          BY <2>2, <3>1 DEF ClientFits
        <5>3. (\E i \in DOMAIN ts2 : ts2[i].word = "ready") => h.state = "lobby" /\ tc = <<>>
          BY <2>2, <4>4
        <5> QED
          BY <4>2, <5>1, <5>2, <5>3 DEF ClientFits
      <4> QED
        BY <4>6, <4>7
    <3> QED
      BY <3>2, <3>3
  <2>9. Good(h, NoLine, ts2, tc, d)
    BY <1>2, <2>2, <2>5, <2>6, <2>8 DEF Good, RunningFits, PressedFits
  <2> QED
    BY <1>1, <1>3, <2>9 DEF Player
<1>5. CASE line.word = "ready"
  <2>1. ts = <<>> /\ tc = <<>> /\ MaySayReady(c)
    BY <1>1, <1>5 DEF PressedFits
  <2>2. h = Typed(c, line)
    BY <1>5
  <2>3. CASE ~Sends(c, line)
    <3>1. h = c /\ ts2 = ts
      BY <1>1, <1>5, <2>2, <2>3 DEF Sends, Typed, PlacesShip
    <3> QED
      BY <1>1, <1>2, <1>3, <3>1 DEF Player, Good, RunningFits, PressedFits, ClientFits
  <2>4. CASE Sends(c, line)
    <3>1. /\ ts2 \in Seq(Lines) /\ Len(ts2) = 1 /\ DOMAIN ts2 = 1 .. 1 /\ ts2[1] = line
          /\ ts2 # <<>>
      <4>1. Len(ts) = 0
        BY <2>1
      <4> QED
        BY <1>1, <1>3, <2>4, <4>1, SeqParts
    <3>2. /\ h.state = c.state /\ h.gameState = c.gameState /\ h.lobbyReady = c.lobbyReady
          /\ h.program = "running" /\ h.m_en = c.m_en
          /\ c.state = "session" => h.ready
          /\ c.state # "session" => h.ready = c.ready
      BY <1>1, <1>5, <2>1, <2>2, <2>4
      DEF Typed, Sends, MaySayReady, PlacesShip, SaysReady, ClientPrograms
    <3>3. Rested(h)
      BY <1>1, <3>2 DEF Rested
    <3>4. Course(tc, Seen(h), Seen(h)) /\ Seen(h) \in ClientPrograms
      BY <1>3, <2>1, CourseOfNone, SeenParts
    <3>5. d.life = "open" => Agrees(Seen(c), c, d)
      BY <1>1, <2>1, CourseOfNone, SeenParts DEF Follows
    <3>6. c.state = "session" => AwaitsTurns(h)
      BY <2>1, <3>2 DEF AwaitsTurns, MaySayReady
    <3>7. d.life = "open" => Agrees(Seen(h), h, d)
      <4>1. /\ Seen(h).state = h.state /\ Seen(h).lobbyReady = h.lobbyReady
            /\ Seen(h).gameState = h.gameState /\ Seen(h).ready = h.ready
            /\ Seen(h).m_en = h.m_en
        BY <1>3, SeenParts
      <4>2. /\ Seen(c).state = c.state /\ Seen(c).lobbyReady = c.lobbyReady
            /\ Seen(c).gameState = c.gameState /\ Seen(c).ready = c.ready
            /\ Seen(c).m_en = c.m_en
        BY <1>1, SeenParts
      <4> QED
        BY <3>2, <3>5, <3>6, <4>1, <4>2 DEF Agrees
    <3>8. Follows(h, tc, d)
      BY <1>3, <3>2, <3>4, <3>7, SeenParts DEF Follows
    <3>9. ASSUME d.life = "open"
          PROVE  DeskFits(ts2, d) /\ ClientFits(h, NoLine, ts2, tc, d)
      <4>1. ClientFits(c, line, ts, tc, d) /\ DeskFits(ts, d) /\ Agrees(Seen(c), c, d)
        BY <1>1, <3>5, <3>9
      <4>2. ~AwaitsTurns(c)
        BY <1>1, <4>1 DEF ClientFits
      <4>3. /\ d.state = c.state
            /\ c.state = "lobby" => ~d.ready
            /\ c.state = "session" => d.game = "preparation"
        <5>1. /\ Seen(c).state = c.state /\ Seen(c).lobbyReady = c.lobbyReady
              /\ Seen(c).gameState = c.gameState
          BY <1>1, SeenParts
        <5> QED
          BY <2>1, <4>1, <5>1 DEF Agrees, MaySayReady
      <4>4. ~(InPreparation(d) /\ d.flag)
        BY <4>1, <4>2 DEF ClientFits
      <4>5. InPreparation(d) \/ (d.state = "lobby" /\ ~d.ready)
        <5>1. CASE c.state = "lobby"
          BY <4>3, <5>1
        <5>2. CASE c.state = "session"
          BY <4>3, <5>2 DEF InPreparation
        <5> QED
          BY <2>1, <5>1, <5>2 DEF MaySayReady
      <4>6. ~InTurns(d)
        BY <4>5 DEF InTurns, InPreparation
      <4>7. DeskFits(ts2, d)
        BY <3>1, <4>1, <4>4, <4>5, <4>6 DEF DeskFits, LinesFit, InPreparation
      <4>8. ClientFits(h, NoLine, ts2, tc, d)
        BY <1>5, <2>1, <3>1, <3>2, <3>6, <4>3, <4>4, <4>5, <4>6
        DEF ClientFits, InPreparation, AwaitsTurns
      <4> QED
        BY <4>7, <4>8
    <3>10. Good(h, NoLine, ts2, tc, d)
      BY <1>2, <3>2, <3>3, <3>8, <3>9 DEF Good, RunningFits, PressedFits
    <3> QED
      BY <1>1, <1>3, <3>10 DEF Player
  <2> QED
    BY <2>3, <2>4
<1> QED
  BY <1>4, <1>5

-----------------------------------------------------------------------------
(* A message joins those on their way to a client that runs. *)
Sent(c, tc, msg) == IF c.program = "running" THEN tc \o <<msg>> ELSE tc

LEMMA UnderstoodFollows ==
    ASSUME NEW c \in ClientPrograms, NEW tc \in Seq(Said), NEW msg \in Said, NEW e,
           NEW w \in ClientPrograms, Course(tc, Seen(c), w), Understood(w, msg, c, e)
    PROVE  Follows(c, tc \o <<msg>>, e)
<1> DEFINE h == Hear(w, msg)
           b == Seen(h)
<1>1. h \in ClientPrograms
  BY HearType
<1>2. b \in ClientPrograms /\ b.program = "running"
  BY <1>1, SeenParts DEF Understood
<1>3. Heard(w, msg, b)
  BY <1>2 DEF Heard
<1>4. Course(tc \o <<msg>>, Seen(c), b)
  BY <1>2, <1>3, CourseOn
<1>5. e.life = "open" => Agrees(b, c, e)
  BY DEF Understood
<1> QED
  BY <1>2, <1>4, <1>5 DEF Follows

LEMMA NotifiedType ==
    ASSUME NEW d \in Desks, NEW msg, NEW e, Notified(d, msg, e)
    PROVE  e \in Desks /\ e.life = d.life /\ e.state = "session"
<1>1. AfterAnswer(msg.letter, "enemy_turn", "my_turn") \in {"my_turn", "enemy_turn", "end"}
  BY DEF AfterAnswer
<1> QED
  BY <1>1
  DEF Notified, Called, Begun, Struck, Gathered, AfterShot, InPreparation, Desks, ClientStates

LEMMA NotifiedDeskFits ==
    ASSUME NEW d \in Desks, NEW msg, NEW e, Notified(d, msg, e), NEW ts \in Seq(Lines),
           DeskFits(ts, d)
    PROVE  DeskFits(ts, e)
<1> USE DEF Desks
<1>1. CASE Called(d, msg, e)
  <2>1. ~\E i \in DOMAIN ts : ts[i].word = "ready"
    BY <1>1 DEF DeskFits, LinesFit, Called, InPreparation
  <2>2. InPreparation(e) /\ ~e.flag
    BY <1>1 DEF Called, Gathered, InPreparation
  <2> QED
    BY <2>1, <2>2 DEF DeskFits, LinesFit, InPreparation, InTurns
<1>2. CASE Begun(d, msg, e)
  <2>1. ts = <<>> /\ DOMAIN ts = {}
    BY <1>2 DEF DeskFits, LinesFit, Begun
  <2>2. e.game \in {"my_turn", "enemy_turn"}
    BY <1>2 DEF Begun
  <2> QED
    BY <2>1, <2>2 DEF DeskFits, LinesFit
<1>3. CASE Struck(d, msg, e)
  <2>1. \A i \in DOMAIN ts : ts[i].word = "shot"
    BY <1>3 DEF DeskFits, LinesFit, Struck, InTurns
  <2>2. e.game \in {"my_turn", "enemy_turn", "end"} /\ (e.game = "end" => ~e.ready)
    BY <1>3 DEF Struck, AfterShot, AfterAnswer
  <2> QED
    BY <2>1, <2>2 DEF DeskFits, LinesFit, InPreparation
<1> QED
  BY <1>1, <1>2, <1>3 DEF Notified

(* What a client of which nothing is under way believes is what the server holds. *)
LEMMA QuietAgrees ==
    ASSUME NEW c \in ClientPrograms, NEW d, d.life = "open", Follows(c, <<>>, d)
    PROVE  Agrees(Seen(c), c, d)
<1>1. PICK w : Course(<<>>, Seen(c), w) /\ Agrees(w, c, d)
  BY DEF Follows
<1>2. w = Seen(c)
  BY <1>1, CourseOfNone, SeenParts
<1> QED
  BY <1>1, <1>2

LEMMA NotifiedFits ==
    ASSUME NEW c, NEW pr, NEW ts, NEW tc, NEW d, Player(c, pr, ts, tc, d), d.life = "open",
           NEW msg \in Said, NEW e, Notified(d, msg, e)
    PROVE  Player(c, pr, ts, Sent(c, tc, msg), e)
<1> DEFINE tc2 == Sent(c, tc, msg)
<1>1. /\ c \in ClientPrograms /\ pr \in Lines \cup {NoLine} /\ ts \in Seq(Lines)
      /\ tc \in Seq(Said) /\ d \in Desks /\ DeskFits(ts, d) /\ c.program # "thrown"
      /\ c.program = "running" => RunningFits(c, pr, ts, tc, d)
  BY DEF Player, Good
<1>2. e \in Desks /\ e.life = "open" /\ e.state = "session"
  BY <1>1, NotifiedType
<1>3. DeskFits(ts, e)
  BY <1>1, NotifiedDeskFits
<1>4. CASE c.program # "running"
  BY <1>1, <1>2, <1>3, <1>4 DEF Sent, Player, Good
<1>5. CASE c.program = "running"
  <2>1. /\ Rested(c) /\ PressedFits(c, pr, ts, tc) /\ Follows(c, tc, d)
        /\ ClientFits(c, pr, ts, tc, d)
    BY <1>1, <1>5 DEF RunningFits
  <2>2. tc2 = tc \o <<msg>>
    BY <1>5 DEF Sent
  <2>3. /\ tc2 \in Seq(Said)
        /\ \A i \in DOMAIN tc2 : (i \in DOMAIN tc /\ tc2[i] = tc[i]) \/ tc2[i] = msg
    <3> HIDE DEF tc2
    <3>1. /\ tc2 = Append(tc, msg) /\ Append(tc, msg) \in Seq(Said) /\ DOMAIN tc = 1 .. Len(tc)
          /\ Len(tc) \in Nat /\ DOMAIN tc2 = 1 .. Len(tc) + 1
          /\ \A i \in 1 .. Len(tc) : tc2[i] = tc[i]
          /\ tc2[Len(tc) + 1] = msg
      BY <1>1, <2>2, SeqParts
    <3> QED
      BY <3>1
  <2>4. PICK w \in ClientPrograms :
            Course(tc, Seen(c), w) /\ w.program = "running" /\ Agrees(w, c, d)
    BY <2>1 DEF Follows
  <2>5. InPreparation(d) /\ d.flag => AwaitsTurns(c) /\ ts = <<>> /\ tc = <<>> /\ pr = NoLine
    BY <2>1 DEF ClientFits, InPreparation
  <2>6. InPreparation(d) /\ d.flag => w.ready
    <3>1. tc = <<>> => w = Seen(c)
      BY <1>1, <2>4, CourseOfNone, SeenParts
    <3> QED
      BY <1>1, <2>5, <3>1, SeenParts DEF AwaitsTurns
  <2>7. Understood(w, msg, c, e)
    BY <1>1, <2>4, <2>6, NotifiedUnderstood
  <2>8. Follows(c, tc2, e)
    BY <1>1, <2>2, <2>4, <2>7, UnderstoodFollows
  <2> HIDE DEF tc2
  <2>9. tc = <<>> => Agrees(Seen(c), c, d)
    BY <1>1, <2>1, QuietAgrees
  <2>10. PressedFits(c, pr, ts, tc2)
    <3> SUFFICES ASSUME pr # NoLine, pr.word = "ready" PROVE FALSE
      BY DEF PressedFits
    <3>1. tc = <<>> /\ MaySayReady(c) /\ Agrees(Seen(c), c, d)
      BY <2>1, <2>9 DEF PressedFits
    <3>2. /\ Seen(c).state = c.state /\ Seen(c).lobbyReady = c.lobbyReady
          /\ Seen(c).gameState = c.gameState
      BY <1>1, SeenParts
    <3>3. CASE Called(d, msg, e)
      BY <3>1, <3>2, <3>3 DEF Called, MaySayReady, Agrees
    <3>4. CASE Begun(d, msg, e)
      BY <2>5, <3>4 DEF Begun
    <3>5. CASE Struck(d, msg, e)
      BY <3>1, <3>2, <3>5 DEF Struck, MaySayReady, Agrees
    <3> QED
      BY <3>3, <3>4, <3>5 DEF Notified
  <2>11. ClientFits(c, pr, ts, tc2, e)
    <3>1. CASE Called(d, msg, e)
      <4>1. ~AwaitsTurns(c)
        BY <2>1, <3>1 DEF Called, ClientFits
      <4>2. ~\E i \in DOMAIN ts : ts[i].word = "ready"
        BY <1>1, <3>1 DEF DeskFits, LinesFit, Called, InPreparation
      <4>3. ~e.flag /\ ~InTurns(e)
        BY <1>1, <3>1 DEF Called, Gathered, InTurns, Desks
      <4> QED
        BY <4>1, <4>2, <4>3 DEF ClientFits
    <3>2. CASE Begun(d, msg, e)
      <4>1. AwaitsTurns(c) /\ ts = <<>> /\ tc = <<>> /\ pr = NoLine /\ c.state = "session"
        BY <2>5, <3>2 DEF Begun, AwaitsTurns
      <4>2. e.game \in {"my_turn", "enemy_turn"} /\ e.game # "preparation"
        BY <1>1, <3>2 DEF Begun, Desks
      <4>3. \A i \in DOMAIN tc2 : tc2[i].letter \notin {"g", "continue"}
        <5>1. msg.letter \in {"f", "s"}
          BY <3>2 DEF Begun, Say
        <5>2. DOMAIN tc = {}
          BY <4>1
        <5> QED
          BY <2>3, <5>1, <5>2
      <4>4. ~\E i \in DOMAIN ts : ts[i].word = "ready"
        BY <4>1
      <4> QED
        BY <1>2, <4>1, <4>2, <4>3, <4>4 DEF ClientFits, InPreparation
    <3>3. CASE Struck(d, msg, e)
      <4>1. InTurns(d) /\ d.game # "preparation" /\ msg.letter \in ShotAnswers
        BY <3>3 DEF Struck, InTurns
      <4>2. /\ e.game \in {"my_turn", "enemy_turn", "end"}
            /\ InTurns(e) => msg.letter # "g"
        BY <1>1, <3>3 DEF Struck, AfterShot, AfterAnswer, InTurns, Desks
      <4>3. InTurns(e) => \A i \in DOMAIN tc2 : tc2[i].letter \notin {"g", "continue"}
        BY <2>1, <2>3, <4>1, <4>2 DEF ClientFits, ShotAnswers
      <4>4. ~\E i \in DOMAIN ts : ts[i].word = "ready"
        BY <1>1, <4>1 DEF DeskFits, LinesFit
      <4> QED
        BY <1>2, <2>1, <4>1, <4>2, <4>3, <4>4 DEF ClientFits, InPreparation
    <3> QED
      BY <3>1, <3>2, <3>3 DEF Notified
  <2>12. RunningFits(c, pr, ts, tc2, e)
    BY <2>1, <2>8, <2>10, <2>11 DEF RunningFits, tc2
  <2> QED
    BY <1>1, <1>2, <1>3, <2>3, <2>12 DEF Player, Good, tc2
<1> QED
  BY <1>4, <1>5

LEMMA AnsweredParts ==
    ASSUME NEW d \in Desks, NEW line, NEW msg, NEW e \in Desks, Answered(d, line, msg, e)
    PROVE  /\ Gone(e) \/ e.life = d.life
           /\ InPreparation(d) => line.word # "ready"
           /\ ~Gone(e) => /\ InPreparation(e) => InPreparation(d) /\ e.flag = d.flag
                          /\ InTurns(e) => InTurns(d) /\ msg.letter \notin {"g", "continue"}
                          /\ e.state = "session" /\ e.game = "end" =>
                                 ~e.ready \/ (d.state = "session" /\ d.game = "end" /\ e = d)
<1> USE DEF InPreparation, InTurns, Say
<1>1. CASE AnsweredConnected(d, msg, e)
  BY <1>1 DEF AnsweredConnected, Desks
<1>2. CASE AnsweredLobby(d, msg, e)
  BY <1>2 DEF AnsweredLobby, Desks
<1>3. CASE AnsweredPreparation(d, line, msg, e)
  BY <1>3 DEF AnsweredPreparation, Desks
<1>4. CASE InTurns(d) /\ msg = Say("f") /\ e = d
  BY <1>4
<1>5. CASE AnsweredShot(d, msg, e)
  <2> DEFINE after == AfterAnswer(msg.letter, "my_turn", "enemy_turn")
  <2>1. PICK f \in Fields :
            LET g == CopyAnswer(f, msg.cell, msg.letter)
            IN  e = [AfterShot(d, after) EXCEPT !.hits = g.ship, !.shots = g.shot]
    BY <1>5 DEF AnsweredShot
  <2>2. /\ e.life = d.life /\ e.state = d.state /\ e.game = after
        /\ e.game = "end" => ~e.ready
    BY <2>1 DEF AfterShot, Desks
  <2>3. after # "preparation" /\ (after # "end" => msg.letter # "g")
    BY DEF AfterAnswer
  <2>4. msg.letter # "continue"
    BY <1>5 DEF AnsweredShot, ShotAnswers
  <2> HIDE DEF after
  <2> QED
    BY <1>5, <2>2, <2>3, <2>4 DEF AnsweredShot
<1>6. CASE AnsweredEnd(d, msg, e)
  BY <1>6 DEF AnsweredEnd, Left, Desks
<1> QED
  BY <1>1, <1>2, <1>3, <1>4, <1>5, <1>6 DEF Answered, AnsweredTurns

LEMMA AnsweredFits ==
    ASSUME NEW c, NEW pr, NEW ts, NEW tc, NEW d, Player(c, pr, ts, tc, d), d.life = "open",
           ts # <<>>, NEW msg \in Said, NEW e \in Desks, Answered(d, Head(ts), msg, e)
    PROVE  Player(c, pr, Tail(ts), Sent(c, tc, msg), e)
<1> DEFINE tc2 == Sent(c, tc, msg)
           rest == Tail(ts)
<1>1. /\ c \in ClientPrograms /\ pr \in Lines \cup {NoLine} /\ ts \in Seq(Lines)
      /\ tc \in Seq(Said) /\ d \in Desks /\ DeskFits(ts, d) /\ c.program # "thrown"
      /\ c.program = "running" => RunningFits(c, pr, ts, tc, d)
  BY DEF Player, Good
<1>2. /\ rest \in Seq(Lines) /\ ts[1] = Head(ts)
      /\ \A i \in DOMAIN rest :
             i + 1 \in DOMAIN ts /\ rest[i] = ts[i + 1] /\ i + 1 # 1
  BY <1>1, SeqParts
<1>3. ~\E i \in DOMAIN rest : rest[i].word = "ready"
  BY <1>1, <1>2 DEF DeskFits, LinesFit
<1>4. /\ Gone(e) \/ e.life = d.life
      /\ InPreparation(d) => ts[1].word # "ready"
      /\ ~Gone(e) => /\ InPreparation(e) => InPreparation(d) /\ e.flag = d.flag
                     /\ InTurns(e) => InTurns(d) /\ msg.letter \notin {"g", "continue"}
                     /\ e.state = "session" /\ e.game = "end" =>
                            ~e.ready \/ (d.state = "session" /\ d.game = "end" /\ e = d)
  BY <1>1, <1>2, AnsweredParts
<1>5. e.life # "fresh" /\ (e.life = "open" => ~Gone(e))
  BY <1>4 DEF Gone
<1> HIDE DEF rest
<1>6. ~(InPreparation(d) /\ d.flag)
  BY <1>1 DEF DeskFits, LinesFit
<1>7. ASSUME e.life = "open" PROVE DeskFits(rest, e)
  <2>1. InTurns(e) => \A i \in DOMAIN rest : rest[i].word = "shot"
    BY <1>1, <1>2, <1>4, <1>5, <1>7 DEF DeskFits, LinesFit
  <2>2. ~(InPreparation(e) /\ e.flag)
    BY <1>4, <1>5, <1>6, <1>7
  <2>3. e.state = "session" /\ e.game = "end" => ~e.ready
    BY <1>1, <1>4, <1>5, <1>7 DEF DeskFits
  <2> QED
    BY <1>3, <2>1, <2>2, <2>3 DEF DeskFits, LinesFit
<1>8. CASE c.program # "running"
  BY <1>1, <1>2, <1>5, <1>7, <1>8 DEF Sent, Player, Good, rest
<1>9. CASE c.program = "running"
  <2>1. /\ Rested(c) /\ PressedFits(c, pr, ts, tc) /\ Follows(c, tc, d)
        /\ ClientFits(c, pr, ts, tc, d)
    BY <1>1, <1>9 DEF RunningFits
  <2>2. tc2 = tc \o <<msg>>
    BY <1>9 DEF Sent
  <2>3. /\ tc2 \in Seq(Said)
        /\ \A i \in DOMAIN tc2 : (i \in DOMAIN tc /\ tc2[i] = tc[i]) \/ tc2[i] = msg
    <3> HIDE DEF tc2
    <3>1. /\ tc2 = Append(tc, msg) /\ Append(tc, msg) \in Seq(Said) /\ DOMAIN tc = 1 .. Len(tc)
          /\ Len(tc) \in Nat /\ DOMAIN tc2 = 1 .. Len(tc) + 1
          /\ \A i \in 1 .. Len(tc) : tc2[i] = tc[i]
          /\ tc2[Len(tc) + 1] = msg
      BY <1>1, <2>2, SeqParts
    <3> QED
      BY <3>1
  <2>4. ~AwaitsTurns(c)
    BY <1>4, <1>6, <2>1 DEF ClientFits, InPreparation
  <2>5. PICK w \in ClientPrograms :
            Course(tc, Seen(c), w) /\ w.program = "running" /\ Agrees(w, c, d)
    BY <2>1 DEF Follows
  <2>6. InPreparation(d) => ~w.ready
    BY <2>4, <2>5 DEF Agrees, InPreparation
  <2>7. Understood(w, msg, c, e)
    BY <1>1, <2>5, <2>6, AnsweredUnderstood
  <2>8. Follows(c, tc2, e)
    BY <1>1, <2>2, <2>5, <2>7, UnderstoodFollows
  <2> HIDE DEF tc2
  <2>9. PressedFits(c, pr, rest, tc2)
    BY <2>1 DEF PressedFits
  <2>10. ASSUME e.life = "open" PROVE ClientFits(c, pr, rest, tc2, e)
    <3>1. ~(InPreparation(e) /\ e.flag)
      BY <1>4, <1>5, <1>6, <2>10
    <3>2. InTurns(e) =>
             /\ c.state = "session"
             /\ AwaitsTurns(c) \/ c.gameState \in {"my_turn", "enemy_turn"}
             /\ \A i \in DOMAIN tc2 : tc2[i].letter \notin {"g", "continue"}
      BY <1>4, <1>5, <2>1, <2>3, <2>10 DEF ClientFits
    <3> QED
      BY <1>3, <2>4, <3>1, <3>2 DEF ClientFits
  <2>11. RunningFits(c, pr, rest, tc2, e)
    BY <2>1, <2>8, <2>9, <2>10 DEF RunningFits
  <2> QED
    BY <1>1, <1>2, <1>5, <1>7, <2>3, <2>11 DEF Player, Good, tc2, rest
<1> QED
  BY <1>8, <1>9

LEMMA RecordedFits ==
    ASSUME NEW c, NEW pr, NEW ts, NEW tc, NEW d, Player(c, pr, ts, tc, d), d.life = "open",
           ts # <<>>, NEW e, Recorded(d, Head(ts), e)
    PROVE  Player(c, pr, Tail(ts), tc, e)
<1> DEFINE rest == Tail(ts)
<1>1. /\ c \in ClientPrograms /\ pr \in Lines \cup {NoLine} /\ ts \in Seq(Lines)
      /\ tc \in Seq(Said) /\ d \in Desks /\ DeskFits(ts, d) /\ c.program # "thrown"
      /\ c.program = "running" => RunningFits(c, pr, ts, tc, d)
  BY DEF Player, Good
<1>2. /\ rest \in Seq(Lines) /\ ts[1] = Head(ts) /\ 1 \in DOMAIN ts
      /\ Len(rest) = Len(ts) - 1
      /\ \A i \in DOMAIN rest :
             i + 1 \in DOMAIN ts /\ rest[i] = ts[i + 1] /\ i + 1 # 1
  BY <1>1, SeqParts
<1>3. ~\E i \in DOMAIN rest : rest[i].word = "ready"
  BY <1>1, <1>2 DEF DeskFits, LinesFit
<1>4. e \in Desks /\ e.life = "open"
  BY <1>1 DEF Recorded, Desks
<1>5. ~(InPreparation(d) /\ d.flag)
  BY <1>1 DEF DeskFits, LinesFit
<1>6. CASE (d.state # "session" \/ InTurns(d)) /\ e = d
  <2>1. ~InPreparation(d)
    BY <1>6 DEF InPreparation, InTurns
  <2>2. InTurns(d) => \A i \in DOMAIN rest : rest[i].word = "shot"
    BY <1>1, <1>2 DEF DeskFits, LinesFit
  <2> HIDE DEF rest
  <2>3. DeskFits(rest, e)
    BY <1>1, <1>3, <1>6, <2>1, <2>2 DEF DeskFits, LinesFit
  <2>4. ASSUME c.program = "running" PROVE RunningFits(c, pr, rest, tc, e)
    <3>1. /\ Rested(c) /\ PressedFits(c, pr, ts, tc) /\ Follows(c, tc, d)
          /\ ClientFits(c, pr, ts, tc, d)
      BY <1>1, <2>4 DEF RunningFits
    <3>2. ~AwaitsTurns(c)
      BY <1>6, <3>1 DEF ClientFits, InTurns
    <3>3. PressedFits(c, pr, rest, tc)
      BY <3>1 DEF PressedFits
    <3>4. ClientFits(c, pr, rest, tc, e)
      BY <1>3, <1>6, <2>1, <3>1, <3>2 DEF ClientFits
    <3> QED
      BY <1>6, <3>1, <3>3, <3>4 DEF RunningFits
  <2> QED
    BY <1>1, <1>2, <1>4, <2>3, <2>4 DEF Player, Good, rest
<1>7. CASE /\ InPreparation(d) /\ ts[1].word = "ready"
           /\ e = [d EXCEPT !.flag = TRUE]
  <2>1. Len(ts) = 1
    BY <1>1, <1>2, <1>7 DEF DeskFits, LinesFit, InPreparation
  <2>2. rest = <<>> /\ DOMAIN rest = {}
    <3>1. Len(rest) = 0
      BY <1>2, <2>1
    <3> HIDE DEF rest
    <3> QED
      BY <1>2, <3>1, EmptySeq
  <2> HIDE DEF rest
  <2>3. InPreparation(e) /\ e.flag /\ e.state = d.state /\ e.game = d.game /\ ~InTurns(e)
        /\ e.ready = d.ready /\ e.hits = d.hits /\ e.shots = d.shots
    BY <1>1, <1>7 DEF InPreparation, InTurns, Desks
  <2>4. DeskFits(rest, e)
    BY <2>2, <2>3 DEF DeskFits, LinesFit, InPreparation
  <2>5. ASSUME c.program = "running" PROVE RunningFits(c, pr, rest, tc, e)
    <3>1. /\ Rested(c) /\ PressedFits(c, pr, ts, tc) /\ Follows(c, tc, d)
          /\ ClientFits(c, pr, ts, tc, d)
      BY <1>1, <2>5 DEF RunningFits
    <3>2. AwaitsTurns(c)
      <4> SUFFICES ASSUME c.state = "lobby", tc = <<>> PROVE FALSE
        BY <1>2, <1>7, <3>1 DEF ClientFits
      <4>1. Agrees(Seen(c), c, d)
        BY <1>1, <3>1, QuietAgrees
      <4> QED
        BY <1>1, <1>7, <4>1, SeenParts DEF Agrees, InPreparation
    <3>3. pr = NoLine /\ tc = <<>>
      BY <1>7, <3>1, <3>2 DEF ClientFits, InPreparation
    <3>4. Follows(c, tc, e)
      BY <2>3, <3>1 DEF Follows, Agrees
    <3>5. PressedFits(c, pr, rest, tc)
      BY <3>3 DEF PressedFits
    <3>6. ClientFits(c, pr, rest, tc, e)
      BY <2>2, <2>3, <3>2, <3>3 DEF ClientFits, InPreparation
    <3> QED
      BY <3>1, <3>4, <3>5, <3>6 DEF RunningFits
  <2> QED
    BY <1>1, <1>2, <1>4, <2>4, <2>5 DEF Player, Good, rest
<1> QED
  BY <1>2, <1>6, <1>7 DEF Recorded

-----------------------------------------------------------------------------
(* Whom the handlers write to. *)
LEMMA Tuples ==
    ASSUME NEW x, NEW y
    PROVE  /\ [n \in 1 .. 1 |-> x] = <<x>>
           /\ [n \in 1 .. 2 |-> IF n = 1 THEN x ELSE y] = <<x, y>>
<1> DEFINE f == [n \in 1 .. 2 |-> IF n = 1 THEN x ELSE y]
           g == <<x, y>>
<1>1. f \in Seq({x, y}) /\ Len(f) = 2
  BY IsASeq
<1>2. g \in Seq({x, y}) /\ Len(g) = 2
  OBVIOUS
<1>3. f[1] = g[1] /\ f[2] = g[2]
  OBVIOUS
<1>4. \A i \in 1 .. 2 : i = 1 \/ i = 2
  OBVIOUS
<1> HIDE DEF f, g
<1>5. \A i \in 1 .. Len(f) : f[i] = g[i]
  BY <1>1, <1>3, <1>4
<1>6. f = g
  BY <1>1, <1>2, <1>5, SeqEqual
<1>7. [n \in 1 .. 1 |-> x] = <<x>>
  OBVIOUS
<1> QED
  BY <1>6, <1>7 DEF f, g

LEMMA MailNone ==
    ASSUME NEW q, \A i \in DOMAIN sent' : sent'[i].to # q
    PROVE  MailFor(q) = <<>>
<1> DEFINE mine == {i \in DOMAIN sent' : sent'[i].to = q}
           N(n) == CHOOSE i \in mine : Cardinality({j \in mine : j <= i}) = n
<1>1. mine = {}
  OBVIOUS
<1>2. MailFor(q) = [n \in 1 .. Cardinality(mine) |-> sent'[N(n)].msg]
  BY DEF MailFor
<1> HIDE DEF mine, N
<1>3. 1 .. Cardinality(mine) = {}
  BY <1>1, FS_EmptySet
<1> QED
  BY <1>2, <1>3

LEMMA MailOne ==
    ASSUME NEW q, NEW k \in DOMAIN sent', sent'[k].to = q, k \in Nat,
           \A i \in DOMAIN sent' : i # k => sent'[i].to # q
    PROVE  MailFor(q) = <<sent'[k].msg>>
<1> DEFINE mine == {i \in DOMAIN sent' : sent'[i].to = q}
           N(n) == CHOOSE i \in mine : Cardinality({j \in mine : j <= i}) = n
<1>1. mine = {k}
  OBVIOUS
<1>2. Cardinality(mine) = 1
  BY <1>1, FS_Singleton
<1>3. {j \in mine : j <= k} = {k}
  BY <1>1
<1>4. N(1) = k
  BY <1>1, <1>3, FS_Singleton
<1>5. MailFor(q) = [n \in 1 .. Cardinality(mine) |-> sent'[N(n)].msg]
  BY DEF MailFor
<1> HIDE DEF mine, N
<1>6. MailFor(q) = [n \in 1 .. 1 |-> sent'[k].msg]
  <2>1. \A n \in 1 .. 1 : n = 1
    OBVIOUS
  <2>2. [n \in 1 .. 1 |-> sent'[N(n)].msg] = [n \in 1 .. 1 |-> sent'[k].msg]
    BY <1>4, <2>1
  <2> QED
    BY <1>2, <1>5, <2>2
<1> QED
  BY <1>6, Tuples

LEMMA MailTwo ==
    ASSUME NEW q, NEW j \in DOMAIN sent', NEW k \in DOMAIN sent', j \in Nat, k \in Nat, j < k,
           sent'[j].to = q, sent'[k].to = q,
           \A i \in DOMAIN sent' : i # j /\ i # k => sent'[i].to # q
    PROVE  MailFor(q) = <<sent'[j].msg, sent'[k].msg>>
<1> DEFINE mine == {i \in DOMAIN sent' : sent'[i].to = q}
           N(n) == CHOOSE i \in mine : Cardinality({h \in mine : h <= i}) = n
<1>1. mine = {j, k}
  OBVIOUS
<1>2. Cardinality(mine) = 2
  <2> HIDE DEF mine
  <2> DEFINE S == {j}
  <2>1. IsFiniteSet(S) /\ Cardinality(S) = 1
    BY FS_Singleton
  <2>2. k \notin S /\ mine = S \cup {k}
    BY <1>1
  <2> HIDE DEF S
  <2>3. Cardinality(S \cup {k}) = 1 + 1
    BY <2>1, <2>2, FS_AddElement
  <2> QED
    BY <2>2, <2>3
<1>3. {h \in mine : h <= j} = {j} /\ {h \in mine : h <= k} = mine
  BY <1>1
<1>4. Cardinality({h \in mine : h <= j}) = 1 /\ Cardinality({h \in mine : h <= k}) = 2
  BY <1>2, <1>3, FS_Singleton
<1>5. N(1) = j /\ N(2) = k
  <2> HIDE DEF mine
  <2> QED
    BY <1>1, <1>4
<1>6. MailFor(q) = [n \in 1 .. Cardinality(mine) |-> sent'[N(n)].msg]
  BY DEF MailFor
<1> HIDE DEF mine, N
<1>7. MailFor(q) = [n \in 1 .. 2 |-> IF n = 1 THEN sent'[j].msg ELSE sent'[k].msg]
  <2>1. \A n \in 1 .. 2 : n = 1 \/ n = 2
    OBVIOUS
  <2>2. [n \in 1 .. 2 |-> sent'[N(n)].msg]
            = [n \in 1 .. 2 |-> IF n = 1 THEN sent'[j].msg ELSE sent'[k].msg]
    BY <1>5, <2>1
  <2> QED
    BY <1>2, <1>6, <2>2
<1> QED
  BY <1>7, Tuples

LEMMA NoMail == ASSUME sent' = <<>> PROVE \A q : MailFor(q) = <<>>
BY MailNone

LEMMA ReplyMail ==
    ASSUME NEW letter, NEW p, Reply(letter, p)
    PROVE  MailFor(p) = <<Say(letter)>> /\ \A q : q # p => MailFor(q) = <<>>
<1>1. sent' = <<[to |-> p, msg |-> Say(letter)]>>
  BY DEF Reply, Deliver, WriteMsg
<1>2. DOMAIN sent' = {1} /\ sent'[1].to = p /\ sent'[1].msg = Say(letter)
  BY <1>1
<1>3. MailFor(p) = <<sent'[1].msg>>
  BY <1>2, MailOne
<1> QED
  BY <1>2, <1>3, MailNone

LEMMA TwoMails ==
    ASSUME NEW a, NEW m, NEW b, NEW n, a # b, Deliver(WriteMsg(m, a) \o WriteMsg(n, b))
    PROVE  /\ MailFor(a) = <<m>> /\ MailFor(b) = <<n>>
           /\ \A q : q \notin {a, b} => MailFor(q) = <<>>
<1>1. sent' = <<[to |-> a, msg |-> m]>> \o <<[to |-> b, msg |-> n]>>
  BY DEF Deliver, WriteMsg
<1>2. /\ DOMAIN sent' = {1, 2}
      /\ sent'[1].to = a /\ sent'[1].msg = m /\ sent'[2].to = b /\ sent'[2].msg = n
  BY <1>1
<1>3. MailFor(a) = <<sent'[1].msg>>
  BY <1>2, MailOne
<1>4. MailFor(b) = <<sent'[2].msg>>
  BY <1>2, MailOne
<1> QED
  BY <1>2, <1>3, <1>4, MailNone

LEMMA ThreeMails ==
    ASSUME NEW p, NEW m, NEW n, NEW a, NEW b, a # b, p \in {a, b},
           Deliver(WriteMsg(m, p) \o (WriteMsg(n, a) \o WriteMsg(n, b)))
    PROVE  /\ MailFor(p) = <<m, n>>
           /\ \A q : q \in {a, b} /\ q # p => MailFor(q) = <<n>>
           /\ \A q : q \notin {a, b} => MailFor(q) = <<>>
<1>1. sent' = <<[to |-> p, msg |-> m]>> \o
                  (<<[to |-> a, msg |-> n]>> \o <<[to |-> b, msg |-> n]>>)
  BY DEF Deliver, WriteMsg
<1>2. /\ DOMAIN sent' = {1, 2, 3}
      /\ sent'[1].to = p /\ sent'[2].to = a /\ sent'[3].to = b
      /\ sent'[1].msg = m /\ sent'[2].msg = n /\ sent'[3].msg = n
  BY <1>1
<1>3. CASE p = a
  <2>1. MailFor(p) = <<sent'[1].msg, sent'[2].msg>>
    BY <1>2, <1>3, MailTwo
  <2>2. MailFor(b) = <<sent'[3].msg>>
    BY <1>2, <1>3, MailOne
  <2> QED
    BY <1>2, <1>3, <2>1, <2>2, MailNone
<1>4. CASE p = b
  <2>1. MailFor(p) = <<sent'[1].msg, sent'[3].msg>>
    BY <1>2, <1>4, MailTwo
  <2>2. MailFor(a) = <<sent'[2].msg>>
    BY <1>2, <1>4, MailOne
  <2> QED
    BY <1>2, <1>4, <2>1, <2>2, MailNone
<1> QED
  BY <1>3, <1>4

(* What the server holds of a player's game, and of him. *)
NoGame == [flag |-> FALSE, game |-> "preparation", hits |-> {}, shots |-> {}]

GameFor(lobby, q) ==
    LET target == TargetField(lobby, q)
    IN  [flag |-> ReadyFlag(lobby, q), game |-> GameStateFor(lobby, q),
         hits |-> target.ship \cap target.shot, shots |-> target.shot]

DeskOf(life, record, g) ==
    [life |-> life, state |-> record.state, ready |-> record.isReady,
     flag |-> g.flag, game |-> g.game, hits |-> g.hits, shots |-> g.shots]

GameAt(record, lobby, q) == IF record.state = "session" THEN GameFor(lobby, q) ELSE NoGame

Desk(q) == DeskOf(session[q], clentData[q], GameAt(clentData[q], LobbyOf(q), q))

LEMMA DeskNext ==
    ASSUME NEW q
    PROVE  Desk(q)' = DeskOf(session'[q], clentData'[q],
                             GameAt(clentData'[q], lobbies'[clentData'[q].lobby], q))
BY DEF Desk, LobbyOf

LEMMA GameForType ==
    ASSUME NEW lobby \in Lobbies, NEW q
    PROVE  GameFor(lobby, q) \in [flag : BOOLEAN, hits : SUBSET Cells, shots : SUBSET Cells,
                                  game : {"preparation", "my_turn", "enemy_turn", "end"}]
<1>1. TargetField(lobby, q) \in Fields
  BY FieldOfType
<1>2. TargetField(lobby, q).ship \in SUBSET Cells /\ TargetField(lobby, q).shot \in SUBSET Cells
  BY <1>1 DEF Fields
<1>3. ReadyFlag(lobby, q) \in BOOLEAN
  BY DEF ReadyFlag, Lobbies
<1>4. GameStateFor(lobby, q) \in {"preparation", "my_turn", "enemy_turn", "end"}
  BY DEF GameStateFor, Lobbies, GameStates, Turns
<1> QED
  BY <1>2, <1>3, <1>4 DEF GameFor

LEMMA DeskOfType ==
    ASSUME NEW life \in Lives, NEW record \in Clients, NEW lobby, NEW q,
           record.state = "session" => lobby \in Lobbies
    PROVE  DeskOf(life, record, GameAt(record, lobby, q)) \in Desks
<1>1. GameAt(record, lobby, q) \in [flag : BOOLEAN, hits : SUBSET Cells, shots : SUBSET Cells,
                                  game : {"preparation", "my_turn", "enemy_turn", "end"}]
  BY GameForType DEF GameAt, NoGame
<1> QED
  BY <1>1 DEF DeskOf, Desks, Clients

(* Nobody's desk changes but by what he is told. *)
LEMMA DeskKept ==
    ASSUME NEW q, session'[q] = session[q],
           clentData'[q].state = clentData[q].state, clentData'[q].isReady = clentData[q].isReady,
           clentData[q].state = "session" =>
               GameFor(lobbies'[clentData'[q].lobby], q) = GameFor(LobbyOf(q), q)
    PROVE  Desk(q)' = Desk(q)
BY DeskNext DEF Desk, DeskOf, GameAt

(* A seat in a game that cannot go on, and from which nobody can start one. *)
Silenced(lobby, q) ==
    q \in SeatsOf(lobby) => lobby.state \notin Turns /\ ~ReadyFlag(lobby, q)

Silent(q) == \A id \in DOMAIN lobbies : Silenced(lobbies[id], q)

(* What a handler may do to a player who did not send the line. *)
Undisturbed(q) == MailFor(q) = <<>> /\ Desk(q)' = Desk(q)

Spoken(q) ==
    \/ Undisturbed(q)
    \/ /\ Open(q)
       /\ \E msg \in Said : MailFor(q) = <<msg>> /\ Notified(Desk(q), msg, Desk(q)')
    \/ session[q] \notin {"fresh", "open"} /\ session'[q] = session[q] /\ ~Silent(q)

(* And what to the one who did. *)
Served(p, line) ==
    \/ MailFor(p) = <<>> /\ Recorded(Desk(p), line, Desk(p)')
    \/ \E msg \in Said :
           /\ MailFor(p) = <<msg>>
           /\ \/ Answered(Desk(p), line, msg, Desk(p)')
              \/ \E mid \in Desks : /\ mid.life = "open"
                                    /\ Recorded(Desk(p), line, mid)
                                    /\ Notified(mid, msg, Desk(p)')
    \/ \E msg, told \in Said :
           /\ MailFor(p) = <<msg, told>>
           /\ \E mid \in Desks : /\ mid.life = "open"
                                 /\ Answered(Desk(p), line, msg, mid)
                                 /\ Notified(mid, told, Desk(p)')

Handled(p, line) == Served(p, line) /\ \A q \in Participants : q # p => Spoken(q)

(* A step in which his record and his game stay as they are. *)
Bystander(q) ==
    /\ session'[q] = session[q]
    /\ session[q] = "open" =>
           /\ clentData'[q].state = clentData[q].state
           /\ clentData'[q].isReady = clentData[q].isReady
           /\ clentData[q].state = "session" =>
                  GameFor(lobbies'[clentData'[q].lobby], q) = GameFor(LobbyOf(q), q)

Aside(p) == \A q \in Participants : q # p => Bystander(q)

LEMMA NotOpenForgotten ==
    ASSUME SeatInv, NEW q \in Participants, session[q] # "open"
    PROVE  clentData[q] = SharedClient
BY DEF SeatInv, NoneDetached, GoneAreForgotten, Seats

LEMMA BystanderKept ==
    ASSUME GamesInv, GamesInv', NEW q \in Participants, Bystander(q)
    PROVE  Desk(q)' = Desk(q)
<1>1. CASE session[q] = "open"
  BY <1>1, DeskKept DEF Bystander
<1>2. CASE session[q] # "open"
  <2>1. clentData[q] = SharedClient
    BY <1>2, NotOpenForgotten DEF GamesInv
  <2>2. session'[q] = session[q]
    BY DEF Bystander
  <2>3. clentData'[q] = SharedClient
    BY <1>2, <2>2 DEF GamesInv, SeatInv, NoneDetached, GoneAreForgotten, Seats
  <2> QED
    BY <2>1, <2>2, <2>3, DeskKept DEF SharedClient
<1> QED
  BY <1>1, <1>2

LEMMA AsideKept ==
    ASSUME GamesInv, GamesInv', NEW p, Aside(p), NEW q \in Participants, q # p
    PROVE  Desk(q)' = Desk(q)
BY BystanderKept DEF Aside

LEMMA ReplyHandled ==
    ASSUME GamesInv, GamesInv', NEW p \in Participants, NEW line,
           NEW letter \in Letters \ ShotAnswers, Reply(letter, p), Aside(p),
           Answered(Desk(p), line, Say(letter), Desk(p)')
    PROVE  Handled(p, line)
<1>1. MailFor(p) = <<Say(letter)>> /\ \A q : q # p => MailFor(q) = <<>>
  BY ReplyMail
<1>2. Say(letter) \in Said
  BY SaySaid
<1>3. Served(p, line)
  BY <1>1, <1>2 DEF Served
<1>4. \A q \in Participants : q # p => Undisturbed(q)
  BY <1>1, AsideKept DEF Undisturbed
<1> QED
  BY <1>3, <1>4 DEF Handled, Spoken

LEMMA UnansweredHandled ==
    ASSUME GamesInv, GamesInv', NEW p \in Participants, NEW line, sent' = <<>>, Aside(p),
           Recorded(Desk(p), line, Desk(p)')
    PROVE  Handled(p, line)
<1>1. \A q : MailFor(q) = <<>>
  BY NoMail
<1>2. \A q \in Participants : q # p => Undisturbed(q)
  BY <1>1, AsideKept DEF Undisturbed
<1> QED
  BY <1>1, <1>2 DEF Handled, Spoken, Served

(* The parts of a desk. *)
LEMMA DeskParts ==
    ASSUME NEW q
    PROVE  /\ Desk(q).life = session[q] /\ Desk(q).state = clentData[q].state
           /\ Desk(q).ready = clentData[q].isReady
           /\ clentData[q].state = "session" =>
                  /\ Desk(q).flag = ReadyFlag(LobbyOf(q), q)
                  /\ Desk(q).game = GameStateFor(LobbyOf(q), q)
                  /\ Desk(q).hits = TargetField(LobbyOf(q), q).ship
                                        \cap TargetField(LobbyOf(q), q).shot
                  /\ Desk(q).shots = TargetField(LobbyOf(q), q).shot
           /\ clentData[q].state # "session" =>
                  /\ ~Desk(q).flag /\ Desk(q).game = "preparation"
                  /\ Desk(q).hits = {} /\ Desk(q).shots = {}
BY DEF Desk, DeskOf, GameAt, GameFor, NoGame

LEMMA DeskPartsNext ==
    ASSUME NEW q
    PROVE  LET e == Desk(q)'
               lobby == lobbies'[clentData'[q].lobby]
           IN  /\ e.life = session'[q] /\ e.state = clentData'[q].state
               /\ e.ready = clentData'[q].isReady
               /\ clentData'[q].state = "session" =>
                      /\ e.flag = ReadyFlag(lobby, q)
                      /\ e.game = GameStateFor(lobby, q)
                      /\ e.hits = TargetField(lobby, q).ship \cap TargetField(lobby, q).shot
                      /\ e.shots = TargetField(lobby, q).shot
               /\ clentData'[q].state # "session" =>
                      ~e.flag /\ e.game = "preparation" /\ e.hits = {} /\ e.shots = {}
BY DeskNext DEF DeskOf, GameAt, GameFor, NoGame

LEMMA SameDesk ==
    ASSUME NEW d \in Desks, NEW e \in Desks,
           d.life = e.life, d.state = e.state, d.ready = e.ready, d.flag = e.flag,
           d.game = e.game, d.hits = e.hits, d.shots = e.shots
    PROVE  d = e
BY DEF Desks

LEMMA DeskType ==
    ASSUME GamesInv, ~idReused, NEW q \in Participants
    PROVE  Desk(q) \in Desks
<1>1. TypeOK
  BY DEF GamesInv, SeatInv, TypeInv
<1>2. clentData[q].state = "session" => LobbyOf(q) \in Lobbies
  <2> SUFFICES ASSUME clentData[q].state = "session" PROVE LobbyOf(q) \in Lobbies
    OBVIOUS
  <2>1. clentData[q].lobby \in DOMAIN lobbies
    BY DEF GamesInv, SeatInv, PlayersSeated, Seated
  <2> QED
    BY <1>1, <2>1, LobbyOfType DEF HasLobby
<1>3. session[q] \in Lives /\ clentData[q] \in Clients
  BY <1>1 DEF TypeOK, Seats
<1> QED
  BY <1>2, <1>3, DeskOfType DEF Desk

LEMMA DeskTypeNext ==
    ASSUME GamesInv', ~idReused', NEW q \in Participants
    PROVE  Desk(q)' \in Desks
<1> DEFINE lobby == lobbies'[clentData'[q].lobby]
<1>1. TypeOK'
  BY DEF GamesInv, SeatInv, TypeInv
<1>2. clentData'[q].state = "session" => lobby \in Lobbies
  <2> SUFFICES ASSUME clentData'[q].state = "session" PROVE lobby \in Lobbies
    OBVIOUS
  <2>1. clentData'[q].lobby \in DOMAIN lobbies'
    BY DEF GamesInv, SeatInv, PlayersSeated, Seated
  <2> QED
    BY <1>1, <2>1 DEF TypeOK
<1>3. session'[q] \in Lives /\ clentData'[q] \in Clients
  BY <1>1 DEF TypeOK, Seats
<1> HIDE DEF lobby
<1>4. DeskOf(session'[q], clentData'[q], GameAt(clentData'[q], lobby, q)) \in Desks
  BY <1>2, <1>3, DeskOfType
<1> QED
  BY <1>4, DeskNext DEF lobby

(* Where no lobby changes, only the sender's record can. *)
LEMMA QuietAside ==
    ASSUME NEW p, UNCHANGED lobbies,
           \A q \in Participants : q # p =>
               session'[q] = session[q] /\ clentData'[q] = clentData[q]
    PROVE  Aside(p)
BY DEF Aside, Bystander, LobbyOf

LEMMA SameStateDesk ==
    ASSUME UNCHANGED <<lobbies, clentData, session>>
    PROVE  \A q : Desk(q)' = Desk(q)
BY DEF Desk, LobbyOf

LEMMA StopAside ==
    ASSUME TypeOK, NEW p \in Participants, UNCHANGED lobbies, StopReading(p, TRUE),
           clentData' = Forget(p, clentData)
    PROVE  Aside(p) /\ Gone(Desk(p)')
<1>1. \A q \in Participants : q # p => session'[q] = session[q] /\ clentData'[q] = clentData[q]
  BY DEF StopReading, Forget, TypeOK, Seats
<1>2. session'[p] \in {"flushing", "freed"}
  BY DEF StopReading, TypeOK
<1>3. Desk(p)'.life = session'[p]
  BY DeskPartsNext
<1> QED
  BY <1>1, <1>2, <1>3, QuietAside DEF Gone

LEMMA SpokenLetters ==
    {"c", "j", "i", "r", "l", "q", "u", "s", "f", "d", "continue"} \subseteq Letters \ ShotAnswers
BY DEF Letters, ShotAnswers

LEMMA RefuseHandled ==
    ASSUME GamesInv, GamesInv', NEW p \in Participants, NEW line, Refuse(p) \/ List(p)
    PROVE  Handled(p, line)
<1>1. clentData[p].state = "connected" /\ UNCHANGED <<lobbies, clentData, session>>
  BY DEF Refuse, List, Handling
<1>2. Desk(p)' = Desk(p) /\ Desk(p).state = "connected"
  BY <1>1, SameStateDesk, DeskParts
<1>3. Aside(p)
  BY <1>1, QuietAside
<1>4. PICK letter \in {"r", "l"} : Reply(letter, p)
  BY DEF Refuse, List
<1>5. Answered(Desk(p), line, Say(letter), Desk(p)')
  BY <1>2 DEF Answered, AnsweredConnected
<1> QED
  BY <1>3, <1>4, <1>5, ReplyHandled, SpokenLetters

LEMMA QuitConnectedHandled ==
    ASSUME GamesInv, GamesInv', NEW p \in Participants, NEW line, QuitConnected(p)
    PROVE  Handled(p, line)
<1>1. TypeOK
  BY DEF GamesInv, SeatInv, TypeInv
<1>2. clentData[p].state = "connected" /\ Reply("q", p)
  BY DEF QuitConnected, Handling
<1>3. Aside(p) /\ Gone(Desk(p)')
  BY <1>1, StopAside DEF QuitConnected
<1>4. Answered(Desk(p), line, Say("q"), Desk(p)')
  BY <1>2, <1>3, DeskParts DEF Answered, AnsweredConnected
<1> QED
  BY <1>2, <1>3, <1>4, ReplyHandled, SpokenLetters

LEMMA UnreadyHandled ==
    ASSUME GamesInv, GamesInv', ~idReused, ~idReused', NEW p \in Participants, NEW line, Unready(p)
    PROVE  Handled(p, line)
<1>1. TypeOK
  BY DEF GamesInv, SeatInv, TypeInv
<1>2. /\ clentData[p].state = "lobby" /\ Reply("u", p)
      /\ UNCHANGED <<lobbies, session>>
      /\ clentData' = [clentData EXCEPT ![p].isReady = FALSE]
  BY DEF Unready, Handling
<1>3. Aside(p)
  BY <1>1, <1>2, QuietAside DEF TypeOK, Seats
<1>4. clentData'[p].state = "lobby" /\ clentData'[p].isReady = FALSE
  BY <1>1, <1>2 DEF TypeOK, Clients, Seats
<1>5. Desk(p) \in Desks /\ Desk(p)' \in Desks
  BY DeskType, DeskTypeNext
<1>6. [Desk(p) EXCEPT !.ready = FALSE] \in Desks
  BY <1>5 DEF Desks
<1>7. Desk(p)' = [Desk(p) EXCEPT !.ready = FALSE]
  <2> DEFINE d == Desk(p)
             e == Desk(p)'
  <2>1. /\ e.life = d.life /\ e.state = d.state /\ e.ready = FALSE /\ e.flag = d.flag
        /\ e.game = d.game /\ e.hits = d.hits /\ e.shots = d.shots
    <3>1. d.flag = FALSE /\ e.flag = FALSE
      BY <1>2, <1>4, <1>5, DeskParts, DeskPartsNext DEF Desks
    <3> QED
      BY <1>2, <1>4, <3>1, DeskParts, DeskPartsNext
  <2>2. d \in Desks /\ e \in Desks
    BY <1>5
  <2> HIDE DEF d, e
  <2>3. e = [d EXCEPT !.ready = FALSE]
    BY <2>1, <2>2 DEF Desks
  <2> QED
    BY <2>3 DEF d, e
<1>8. Answered(Desk(p), line, Say("u"), Desk(p)')
  BY <1>2, <1>7, DeskParts DEF Answered, AnsweredLobby
<1> QED
  BY <1>2, <1>3, <1>8, ReplyHandled, SpokenLetters

(* The turns as the sender sees them. *)
LEMMA TurnsAtDesk ==
    ASSUME GamesInv, ~idReused, NEW p \in Participants, Playing(p, Turns)
    PROVE  /\ InTurns(Desk(p)) /\ Desk(p).state = "session" /\ Desk(p).life = "open"
           /\ IsMyTurn(LobbyOf(p), p) => Desk(p).game = "my_turn"
<1> DEFINE lobby == LobbyOf(p)
<1>1. /\ session[p] = "open" /\ clentData[p].state = "session"
      /\ p \in SeatsOf(lobby) /\ lobby \in Lobbies /\ lobby.p1 # lobby.p2
      /\ lobby.state \in Turns
  BY PlayingKept
<1>2. GameStateFor(lobby, p) = IF Mover(lobby) = p THEN "my_turn" ELSE "enemy_turn"
  BY <1>1 DEF GameStateFor
<1>3. IsMyTurn(lobby, p) => Mover(lobby) = p
  BY <1>1 DEF IsMyTurn, IsParticipant1, IsParticipant2, Mover, Turns
<1>4. Desk(p).game = GameStateFor(lobby, p) /\ Desk(p).state = "session" /\ Desk(p).life = "open"
  BY <1>1, DeskParts
<1> QED
  BY <1>2, <1>3, <1>4 DEF InTurns

LEMMA WrongTurnHandled ==
    ASSUME GamesInv, GamesInv', ~idReused, NEW p \in Participants, NEW line,
           WrongTurn(p) \/ \E c \in Cells : RepeatShot(p, c)
    PROVE  Handled(p, line)
<1>1. Playing(p, Turns) /\ Reply("f", p) /\ UNCHANGED <<lobbies, clentData, session>>
  BY DEF WrongTurn, RepeatShot
<1>2. Desk(p)' = Desk(p) /\ Aside(p)
  BY <1>1, SameStateDesk, QuietAside
<1>3. InTurns(Desk(p))
  BY <1>1, TurnsAtDesk
<1>4. Answered(Desk(p), line, Say("f"), Desk(p)')
  BY <1>2, <1>3 DEF Answered, AnsweredTurns
<1> QED
  BY <1>1, <1>2, <1>4, ReplyHandled, SpokenLetters

LEMMA UnexpectedHandled ==
    ASSUME GamesInv, GamesInv', ~idReused, NEW p \in Participants, NEW line, Unexpected(p),
           LobbyOf(p).state = "preparation" => line.word # "ready"
    PROVE  Handled(p, line)
<1>1. TypeOK
  BY DEF GamesInv, SeatInv, TypeInv
<1>2. /\ Playing(p, {"preparation", "end"}) /\ Reply("f", p) /\ UNCHANGED lobbies
      /\ \/ UNCHANGED <<clentData, session>>
         \/ StopReading(p, TRUE) /\ clentData' = Forget(p, clentData)
  BY DEF Unexpected
<1>3. /\ Desk(p).state = "session" /\ Desk(p).game = LobbyOf(p).state
      /\ Desk(p).game \in {"preparation", "end"}
  <2>1. /\ clentData[p].state = "session" /\ LobbyOf(p).state \in {"preparation", "end"}
    BY <1>2, PlayingKept
  <2>2. GameStateFor(LobbyOf(p), p) = LobbyOf(p).state
    BY <2>1 DEF GameStateFor, Turns
  <2>3. Desk(p).game = GameStateFor(LobbyOf(p), p) /\ Desk(p).state = "session"
    BY <2>1, DeskParts
  <2> QED
    BY <2>1, <2>2, <2>3
<1>4. CASE UNCHANGED <<clentData, session>>
  <2>1. Desk(p)' = Desk(p) /\ Aside(p)
    BY <1>2, <1>4, SameStateDesk, QuietAside
  <2>2. Answered(Desk(p), line, Say("f"), Desk(p)')
    BY <1>3, <2>1 DEF Answered, AnsweredPreparation, AnsweredEnd, InPreparation
  <2> QED
    BY <1>2, <2>1, <2>2, ReplyHandled, SpokenLetters
<1>5. CASE StopReading(p, TRUE) /\ clentData' = Forget(p, clentData)
  <2>1. Aside(p) /\ Gone(Desk(p)')
    BY <1>1, <1>2, <1>5, StopAside
  <2>2. Answered(Desk(p), line, Say("f"), Desk(p)')
    BY <1>3, <2>1 DEF Answered, AnsweredPreparation, AnsweredEnd, InPreparation
  <2> QED
    BY <1>2, <2>1, <2>2, ReplyHandled, SpokenLetters
<1> QED
  BY <1>2, <1>4, <1>5

(* A pointer dangles only after a lobby number was reused. *)
LEMMA NoDeadLobby ==
    ASSUME GamesInv, ~idReused, NEW p \in Participants
    PROVE  ~FollowDeadLobby(p)
BY DEF FollowDeadLobby, Handling, GamesInv, SeatInv, PlayersSeated, Seated, HasLobby

(* A player outside the session is only his record. *)
LEMMA OutsideDesk ==
    ASSUME GamesInv, GamesInv', ~idReused, ~idReused', NEW p \in Participants,
           session'[p] = session[p],
           clentData[p].state # "session", clentData'[p].state # "session"
    PROVE  Desk(p)' = [Desk(p) EXCEPT !.state = clentData'[p].state,
                                      !.ready = clentData'[p].isReady]
<1> DEFINE d == Desk(p)
           e == Desk(p)'
<1>1. d \in Desks /\ e \in Desks
  BY DeskType, DeskTypeNext
<1>2. /\ d.flag = FALSE /\ d.game = "preparation" /\ d.hits = {} /\ d.shots = {}
      /\ e.flag = FALSE /\ e.game = "preparation" /\ e.hits = {} /\ e.shots = {}
      /\ e.life = d.life /\ e.state = clentData'[p].state /\ e.ready = clentData'[p].isReady
  BY <1>1, DeskParts, DeskPartsNext DEF Desks
<1> HIDE DEF d, e
<1>3. e = [d EXCEPT !.state = clentData'[p].state, !.ready = clentData'[p].isReady]
  BY <1>1, <1>2 DEF Desks
<1> QED
  BY <1>3 DEF d, e

LEMMA SameGame ==
    ASSUME NEW lobby, NEW new, NEW q, new.p1 = q <=> lobby.p1 = q,
           new.field1 = lobby.field1, new.field2 = lobby.field2,
           new.ready1 = lobby.ready1, new.ready2 = lobby.ready2,
           new.state = lobby.state, lobby.state \notin Turns
    PROVE  GameFor(new, q) = GameFor(lobby, q)
BY DEF GameFor, TargetField, ReadyFlag, GameStateFor, IsParticipant1

LEMMA AddedGame ==
    ASSUME NEW lobby \in Lobbies, NEW p \in Participants, NEW q \in Participants, q # p,
           q \in SeatsOf(lobby), HasFreeSeat(lobby), lobby.state \notin Turns
    PROVE  GameFor(AddParticipant(lobby, p), q) = GameFor(lobby, q)
<1> DEFINE new == AddParticipant(lobby, p)
<1>1. q # NoOne
  BY ServerAssumption
<1>2. new.p1 = q <=> lobby.p1 = q
  BY <1>1 DEF AddParticipant, Lobbies
<1>3. /\ new.field1 = lobby.field1 /\ new.field2 = lobby.field2
      /\ new.ready1 = lobby.ready1 /\ new.ready2 = lobby.ready2
      /\ new.state = lobby.state
  BY DEF AddParticipant, Lobbies
<1> HIDE DEF new
<1>4. GameFor(new, q) = GameFor(lobby, q)
  BY <1>2, <1>3, SameGame
<1> QED
  BY <1>4 DEF new

LEMMA RemovedGame ==
    ASSUME NEW lobby \in Lobbies, NEW p \in Participants, NEW q \in Participants, q # p,
           lobby.state \notin Turns
    PROVE  GameFor(RemoveParticipant(lobby, p), q) = GameFor(lobby, q)
<1> DEFINE new == RemoveParticipant(lobby, p)
<1>1. q # NoOne
  BY ServerAssumption
<1>2. new.p1 = q <=> lobby.p1 = q
  BY <1>1 DEF RemoveParticipant, Lobbies
<1>3. /\ new.field1 = lobby.field1 /\ new.field2 = lobby.field2
      /\ new.ready1 = lobby.ready1 /\ new.ready2 = lobby.ready2
      /\ new.state = lobby.state
  BY DEF RemoveParticipant, Lobbies
<1> HIDE DEF new
<1>4. GameFor(new, q) = GameFor(lobby, q)
  BY <1>2, <1>3, SameGame
<1> QED
  BY <1>4 DEF new

(* Another player who reads, and is in the session, sits in his own lobby. *)
LEMMA OtherSits ==
    ASSUME GamesInv, ~idReused, NEW q \in Participants, session[q] = "open",
           clentData[q].state = "session"
    PROVE  /\ clentData[q].lobby \in DOMAIN lobbies
           /\ LobbyOf(q) = lobbies[clentData[q].lobby] /\ LobbyOf(q) \in Lobbies
           /\ q \in SeatsOf(LobbyOf(q)) /\ LobbyOf(q).p1 # LobbyOf(q).p2
           /\ GameKept(LobbyOf(q), session, clentData)
BY SenderPlays DEF HasLobby, LobbyOf

LEMMA EnteredHandled ==
    ASSUME GamesInv, GamesInv', ~idReused, ~idReused', NEW p \in Participants, NEW line,
           NEW id, NEW lobby, session[p] = "open", clentData[p].state = "connected",
           id \in DOMAIN lobbies => lobby = lobbies[id], HasFreeSeat(lobby),
           DOMAIN lobbies' = DOMAIN lobbies \cup {id},
           \A i \in DOMAIN lobbies' :
               lobbies'[i] = IF i = id THEN AddParticipant(lobby, p) ELSE lobbies[i],
           EnterLobby(p, id), UNCHANGED session,
           NEW letter \in {"c", "j", "i"}, Reply(letter, p)
    PROVE  Handled(p, line)
<1>1. TypeOK
  BY DEF GamesInv, SeatInv, TypeInv
<1>2. /\ clentData'[p].state = "lobby" /\ clentData'[p].isReady = clentData[p].isReady
      /\ \A q \in Participants : q # p => clentData'[q] = clentData[q]
  BY <1>1 DEF EnterLobby, TypeOK, Clients, Seats
<1>3. ASSUME NEW q \in Participants, q # p, session[q] = "open", clentData[q].state = "session"
      PROVE  GameFor(lobbies'[clentData[q].lobby], q) = GameFor(LobbyOf(q), q)
  <2>1. /\ clentData[q].lobby \in DOMAIN lobbies
        /\ LobbyOf(q) = lobbies[clentData[q].lobby] /\ LobbyOf(q) \in Lobbies
        /\ q \in SeatsOf(LobbyOf(q))
        /\ GameKept(LobbyOf(q), session, clentData)
    BY <1>3, OtherSits
  <2>2. CASE clentData[q].lobby = id
    <3>1. LobbyOf(q) = lobby /\ lobbies'[id] = AddParticipant(lobby, p)
      BY <2>1, <2>2
    <3>2. lobby.state \notin Turns
      BY <2>1, <3>1 DEF GameKept, Waits
    <3> QED
      BY <1>3, <2>1, <2>2, <3>1, <3>2, AddedGame
  <2>3. CASE clentData[q].lobby # id
    BY <2>1, <2>3
  <2> QED
    BY <2>2, <2>3
<1>4. Aside(p)
  BY <1>2, <1>3 DEF Aside, Bystander
<1>5. Desk(p)' = [Desk(p) EXCEPT !.state = clentData'[p].state, !.ready = clentData'[p].isReady]
  BY <1>2, OutsideDesk
<1>6. Desk(p) \in Desks /\ Desk(p).state = "connected" /\ Desk(p).ready = clentData'[p].isReady
  BY <1>2, DeskType, DeskParts
<1>7. Desk(p)' = [Desk(p) EXCEPT !.state = "lobby"]
  BY <1>2, <1>5, <1>6 DEF Desks
<1>8. Answered(Desk(p), line, Say(letter), Desk(p)')
  BY <1>6, <1>7 DEF Answered, AnsweredConnected
<1> QED
  BY <1>4, <1>8, ReplyHandled, SpokenLetters

LEMMA CreateHandled ==
    ASSUME GamesInv, GamesInv', ~idReused, ~idReused', NEW p \in Participants, NEW line, Create(p)
    PROVE  Handled(p, line)
<1> DEFINE id == lobbiesCount
           lobby == IF id \in DOMAIN lobbies THEN lobbies[id] ELSE NewLobby
<1>1. session[p] = "open" /\ clentData[p].state = "connected"
  BY SenderOpen DEF GamesInv, Create
<1>2. /\ lobbies' = [i \in DOMAIN lobbies \cup {id} |->
                        IF i = id THEN AddParticipant(lobby, p) ELSE lobbies[i]]
      /\ EnterLobby(p, id) /\ Reply("c", p)
      /\ id \notin DOMAIN lobbies
      /\ UNCHANGED session
  BY DEF Create
<1>3. /\ DOMAIN lobbies' = DOMAIN lobbies \cup {id}
      /\ \A i \in DOMAIN lobbies' :
             lobbies'[i] = IF i = id THEN AddParticipant(lobby, p) ELSE lobbies[i]
  BY <1>2
<1>4. HasFreeSeat(lobby) /\ (id \in DOMAIN lobbies => lobby = lobbies[id])
  BY <1>2 DEF HasFreeSeat, NewLobby
<1> HIDE DEF lobby, id
<1> QED
  BY <1>1, <1>2, <1>3, <1>4, EnteredHandled

LEMMA EnterHandled ==
    ASSUME GamesInv, GamesInv', ~idReused, ~idReused', NEW p \in Participants, NEW line,
           Handling(p, "connected"), NEW id \in FreeLobbies, NEW letter \in {"j", "i"},
           Enter(p, id, letter)
    PROVE  Handled(p, line)
<1>1. session[p] = "open" /\ clentData[p].state = "connected" /\ TypeOK
  BY SenderOpen DEF GamesInv, SeatInv, TypeInv
<1>2. id \in DOMAIN lobbies /\ HasFreeSeat(lobbies[id])
  BY DEF FreeLobbies
<1>3. /\ lobbies' = [lobbies EXCEPT ![id] = AddParticipant(@, p)]
      /\ EnterLobby(p, id) /\ Reply(letter, p)
      /\ UNCHANGED <<session, idReused>>
  BY DEF Enter
<1>4. /\ DOMAIN lobbies' = DOMAIN lobbies \cup {id}
      /\ \A i \in DOMAIN lobbies' :
             lobbies'[i] = IF i = id THEN AddParticipant(lobbies[id], p) ELSE lobbies[i]
  BY <1>1, <1>2, <1>3 DEF TypeOK
<1> QED
  BY <1>1, <1>2, <1>3, <1>4, EnteredHandled

(* Both ways out of a lobby: a seat of a lobby that waits is given up. *)
LEMMA VacatedAside ==
    ASSUME GamesInv, GamesInv', ~idReused, NEW p \in Participants, session[p] = "open",
           clentData[p].state = "lobby", HasLobby(p), NEW clients \in [Seats -> Clients],
           Vacate(p, clients), \A q \in Seats : q # p => clients[q] = clentData[q],
           \A q \in Participants : q # p => session'[q] = session[q]
    PROVE  /\ Aside(p) /\ clentData'[p].state = clients[p].state
           /\ clentData'[p].isReady = clients[p].isReady
<1> DEFINE id == clentData[p].lobby
           lobby == LobbyOf(p)
           left == RemoveParticipant(lobby, p)
<1>1. TypeOK
  BY DEF GamesInv, SeatInv, TypeInv
<1>2. /\ id \in DOMAIN lobbies /\ lobby = lobbies[id] /\ lobby \in Lobbies
      /\ p \in SeatsOf(lobby) /\ GameKept(lobby, session, clentData)
  BY SenderPlays DEF HasLobby, LobbyOf
<1>3. lobby.state \notin Turns
  BY <1>2 DEF GameKept, Waits, OpenIn
<1>4. /\ \A i \in DOMAIN lobbies' : lobbies'[i] = IF i = id THEN left ELSE lobbies[i]
      /\ DOMAIN lobbies' = IF IsEmpty(left) THEN DOMAIN lobbies \ {id} ELSE DOMAIN lobbies
      /\ clentData' = IF IsEmpty(left)
                      THEN [q \in Seats |->
                               IF clients[q].lobby = id
                               THEN [clients[q] EXCEPT !.lobby = FreedLobby]
                               ELSE clients[q]]
                      ELSE clients
  <2> HIDE DEF IsEmpty
  <2>1. CASE IsEmpty(left)
    BY <1>2, <2>1 DEF Vacate
  <2>2. CASE ~IsEmpty(left)
    BY <1>1, <1>2, <2>2 DEF Vacate, SetLobby, TypeOK
  <2> QED
    BY <2>1, <2>2
<1>5. clentData'[p].state = clients[p].state /\ clentData'[p].isReady = clients[p].isReady
  <2>1. p \in Seats /\ clients[p] \in Clients
    BY DEF Seats
  <2> HIDE DEF left, id
  <2> QED
    BY <1>4, <2>1 DEF Clients
<1>6. IsEmpty(left) => SeatsOf(lobby) \subseteq {p}
  <2> HIDE DEF lobby, IsEmpty
  <2> QED
    BY <1>2, RemovedSeat
<1>7. ASSUME NEW q \in Participants, q # p, session[q] = "open"
      PROVE  /\ clentData'[q].state = clentData[q].state
             /\ clentData'[q].isReady = clentData[q].isReady
             /\ clentData[q].state = "session" =>
                    GameFor(lobbies'[clentData'[q].lobby], q) = GameFor(LobbyOf(q), q)
  <2>1. q \in Seats /\ clients[q] \in Clients /\ clients[q] = clentData[q]
    BY <1>7 DEF Seats
  <2>2. /\ clentData'[q].state = clentData[q].state
        /\ clentData'[q].isReady = clentData[q].isReady
    <3> HIDE DEF left, id
    <3> QED
      BY <1>4, <2>1 DEF Clients
  <2>3. ASSUME clentData[q].state = "session"
        PROVE  GameFor(lobbies'[clentData'[q].lobby], q) = GameFor(LobbyOf(q), q)
    <3>1. /\ clentData[q].lobby \in DOMAIN lobbies
          /\ LobbyOf(q) = lobbies[clentData[q].lobby] /\ q \in SeatsOf(LobbyOf(q))
      BY <1>7, <2>3, OtherSits
    <3>2. CASE clentData[q].lobby = id
      <4>1. LobbyOf(q) = lobby
        BY <1>2, <3>1, <3>2
      <4>2. ~IsEmpty(left)
        BY <1>6, <1>7, <3>1, <4>1
      <4>3. clentData'[q].lobby = id /\ id \in DOMAIN lobbies' /\ lobbies'[id] = left
        <5> HIDE DEF left, id, IsEmpty
        <5> QED
          BY <1>2, <1>4, <2>1, <3>2, <4>2
      <4>4. GameFor(left, q) = GameFor(lobby, q)
        <5> HIDE DEF lobby
        <5> QED
          BY <1>2, <1>3, <1>7, RemovedGame
      <4> HIDE DEF left, lobby, id
      <4> QED
        BY <4>1, <4>3, <4>4
    <3>3. CASE clentData[q].lobby # id
      <4>1. clentData'[q].lobby = clentData[q].lobby
        <5> HIDE DEF left, id, IsEmpty
        <5> QED
          BY <1>4, <2>1, <3>3
      <4>2. lobbies'[clentData[q].lobby] = lobbies[clentData[q].lobby]
        <5> HIDE DEF left, id, IsEmpty
        <5> QED
          BY <1>4, <3>1, <3>3
      <4> QED
        BY <3>1, <4>1, <4>2
    <3> QED
      BY <3>2, <3>3
  <2> QED
    BY <2>2, <2>3
<1>8. \A q \in Participants : q # p => session'[q] = session[q]
  OBVIOUS
<1> QED
  BY <1>5, <1>7, <1>8 DEF Aside, Bystander

LEMMA LeaveHandled ==
    ASSUME GamesInv, GamesInv', ~idReused, ~idReused', NEW p \in Participants, NEW line, Leave(p)
    PROVE  Handled(p, line)
<1> DEFINE clients == [clentData EXCEPT ![p].state = "connected"]
<1>1. TypeOK /\ session[p] = "open" /\ clentData[p].state = "lobby"
  BY SenderOpen DEF GamesInv, SeatInv, TypeInv, Leave
<1>2. HasLobby(p) /\ Vacate(p, clients) /\ Reply("l", p) /\ UNCHANGED session
  BY DEF Leave
<1>3. /\ clients \in [Seats -> Clients] /\ \A q \in Seats : q # p => clients[q] = clentData[q]
      /\ clients[p].state = "connected" /\ clients[p].isReady = clentData[p].isReady
  BY <1>1 DEF TypeOK, Clients, ClientStates, Seats
<1> HIDE DEF clients
<1>4. Aside(p) /\ clentData'[p].state = "connected" /\ clentData'[p].isReady = clentData[p].isReady
  BY <1>1, <1>2, <1>3, VacatedAside
<1>5. Desk(p)' = [Desk(p) EXCEPT !.state = clentData'[p].state, !.ready = clentData'[p].isReady]
  BY <1>1, <1>2, <1>4, OutsideDesk
<1>6. Desk(p) \in Desks /\ Desk(p).state = "lobby" /\ Desk(p).ready = clentData'[p].isReady
  BY <1>1, <1>4, DeskType, DeskParts
<1>7. Desk(p)' = [Desk(p) EXCEPT !.state = "connected"]
  BY <1>4, <1>5, <1>6 DEF Desks
<1>8. Answered(Desk(p), line, Say("l"), Desk(p)')
  BY <1>6, <1>7 DEF Answered, AnsweredLobby
<1> QED
  BY <1>2, <1>4, <1>8, ReplyHandled, SpokenLetters

LEMMA QuitLobbyHandled ==
    ASSUME GamesInv, GamesInv', ~idReused, NEW p \in Participants, NEW line, QuitLobby(p)
    PROVE  Handled(p, line)
<1> DEFINE clients == Forget(p, clentData)
<1>1. TypeOK /\ session[p] = "open" /\ clentData[p].state = "lobby"
  BY SenderOpen DEF GamesInv, SeatInv, TypeInv, QuitLobby
<1>2. HasLobby(p) /\ Vacate(p, clients) /\ Reply("q", p) /\ StopReading(p, TRUE)
  BY DEF QuitLobby
<1>3. clients \in [Seats -> Clients] /\ \A q \in Seats : q # p => clients[q] = clentData[q]
  BY <1>1, ForgetType DEF TypeOK, Forget
<1>4. \A q \in Participants : q # p => session'[q] = session[q]
  BY <1>1, <1>2 DEF StopReading, TypeOK
<1> HIDE DEF clients
<1>5. Aside(p)
  BY <1>1, <1>2, <1>3, <1>4, VacatedAside
<1>6. session'[p] \in {"flushing", "freed"}
  BY <1>1, <1>2 DEF StopReading, TypeOK
<1>7. Gone(Desk(p)') /\ Desk(p).state = "lobby"
  BY <1>1, <1>6, DeskParts, DeskPartsNext DEF Gone
<1>8. Answered(Desk(p), line, Say("q"), Desk(p)')
  BY <1>7 DEF Answered, AnsweredLobby
<1> QED
  BY <1>2, <1>5, <1>8, ReplyHandled, SpokenLetters

(* The first of the two says that he is ready, and his enemy is not. *)
LEMMA ReadyAloneHandled ==
    ASSUME GamesInv, GamesInv', ~idReused, ~idReused', NEW p \in Participants, NEW line,
           ReadyInLobby(p),
           ~[clentData EXCEPT ![p].isReady = TRUE][GetEnemy(LobbyOf(p), p)].isReady
    PROVE  Handled(p, line)
<1>1. TypeOK /\ session[p] = "open" /\ clentData[p].state = "lobby"
  BY SenderOpen DEF GamesInv, SeatInv, TypeInv, ReadyInLobby
<1>2. /\ clentData' = [clentData EXCEPT ![p].isReady = TRUE]
      /\ Reply("r", p) /\ UNCHANGED <<lobbies, session>>
  BY DEF ReadyInLobby
<1>3. /\ clentData'[p].state = "lobby" /\ clentData'[p].isReady = TRUE
      /\ \A q \in Participants : q # p => clentData'[q] = clentData[q]
  BY <1>1, <1>2 DEF TypeOK, Clients, Seats
<1>4. Aside(p)
  BY <1>2, <1>3, QuietAside
<1>5. Desk(p)' = [Desk(p) EXCEPT !.state = clentData'[p].state, !.ready = clentData'[p].isReady]
  BY <1>1, <1>2, <1>3, OutsideDesk
<1>6. Desk(p) \in Desks /\ Desk(p).state = "lobby"
  BY <1>1, DeskType, DeskParts
<1>7. Desk(p)' = [Desk(p) EXCEPT !.ready = TRUE]
  BY <1>3, <1>5, <1>6 DEF Desks
<1>8. Answered(Desk(p), line, Say("r"), Desk(p)')
  BY <1>6, <1>7 DEF Answered, AnsweredLobby
<1> QED
  BY <1>2, <1>4, <1>8, ReplyHandled, SpokenLetters

(* One who sits elsewhere, or for whom the game stays as it was, when the sender's lobby
   changes. *)
LEMMA LobbyBystander ==
    ASSUME GamesInv, ~idReused, NEW p \in Participants, HasLobby(p), NEW new,
           lobbies' = SetLobby(p, new), NEW q \in Participants,
           q \in SeatsOf(LobbyOf(p)) => GameFor(new, q) = GameFor(LobbyOf(p), q),
           session'[q] = session[q], clentData'[q] = clentData[q]
    PROVE  Bystander(q)
<1> SUFFICES ASSUME session[q] = "open", clentData[q].state = "session"
             PROVE  GameFor(lobbies'[clentData[q].lobby], q) = GameFor(LobbyOf(q), q)
  BY DEF Bystander
<1>1. clentData[q].lobby \in DOMAIN lobbies /\ LobbyOf(q) = lobbies[clentData[q].lobby]
      /\ q \in SeatsOf(LobbyOf(q))
  BY OtherSits
<1>2. CASE clentData[q].lobby = clentData[p].lobby
  <2>1. LobbyOf(q) = LobbyOf(p)
    BY <1>2 DEF LobbyOf
  <2>2. lobbies'[clentData[q].lobby] = new
    BY <1>1, <1>2 DEF SetLobby, GamesInv, SeatInv, TypeInv, TypeOK
  <2> QED
    BY <1>1, <2>1, <2>2
<1>3. CASE clentData[q].lobby # clentData[p].lobby
  BY <1>1, <1>3 DEF SetLobby, GamesInv, SeatInv, TypeInv, TypeOK
<1> QED
  BY <1>2, <1>3

LEMMA SetLobbyAt ==
    ASSUME TypeOK, NEW p, HasLobby(p), NEW new, lobbies' = SetLobby(p, new)
    PROVE  lobbies'[clentData[p].lobby] = new
BY DEF SetLobby, HasLobby, TypeOK

(* Both are in the lobby when a game is called: one who is still in a game that ended
   is not ready. *)
RestedAtEnd ==
    \A q \in Participants :
        session[q] = "open" /\ Desk(q).state = "session" /\ Desk(q).game = "end" => ~Desk(q).ready

LEMMA EnemyInLobby ==
    ASSUME GamesInv, ~idReused, RestedAtEnd, NEW p \in Participants, ReadyInLobby(p),
           [clentData EXCEPT ![p].isReady = TRUE][GetEnemy(LobbyOf(p), p)].isReady
    PROVE  LET lobby == LobbyOf(p)
               enemy == GetEnemy(lobby, p)
           IN  /\ session[p] = "open" /\ clentData[p].state = "lobby"
               /\ lobby \in Lobbies /\ lobby.p1 # lobby.p2
               /\ {lobby.p1, lobby.p2} = {p, enemy} /\ SeatsOf(lobby) = {p, enemy}
               /\ enemy \in Participants /\ enemy # p /\ session[enemy] = "open"
               /\ clentData[enemy].state = "lobby" /\ clentData[enemy].isReady = TRUE
               /\ clentData[enemy].lobby = clentData[p].lobby
               /\ ~lobby.ready1 /\ ~lobby.ready2
<1> DEFINE lobby == LobbyOf(p)
           enemy == GetEnemy(lobby, p)
<1>1. TypeOK /\ session[p] = "open" /\ clentData[p].state = "lobby"
  BY SenderOpen DEF GamesInv, SeatInv, TypeInv, ReadyInLobby
<1>2. /\ lobby \in Lobbies /\ p \in SeatsOf(lobby) /\ lobby.p1 # lobby.p2
      /\ GameKept(lobby, session, clentData)
  BY <1>1, SenderPlays
<1>3. /\ enemy \in Participants /\ enemy # p /\ session[enemy] = "open"
      /\ enemy \in SeatsOf(lobby) /\ clentData[enemy].state # "connected"
      /\ clentData[enemy].lobby = clentData[p].lobby
  BY ReadyEnemy DEF GamesInv, Open
<1>4. clentData[enemy].isReady = TRUE
  BY <1>1, <1>3 DEF TypeOK, Clients, Seats
<1>5. Waits(lobby, session, clentData)
  BY <1>1, <1>2 DEF Waits, OpenIn
<1>6. ~lobby.ready1 /\ ~lobby.ready2 /\ lobby.state \notin Turns
  BY <1>2, <1>5 DEF GameKept
<1>7. {lobby.p1, lobby.p2} = {p, enemy} /\ SeatsOf(lobby) = {p, enemy}
  <2> HIDE DEF enemy, lobby
  <2>1. p # NoOne /\ enemy # NoOne
    BY <1>3, ServerAssumption
  <2> QED
    BY <1>2, <1>3, <2>1 DEF SeatsOf
<1>8. clentData[enemy].state # "session"
  <2> SUFFICES ASSUME clentData[enemy].state = "session" PROVE FALSE
    OBVIOUS
  <2>1. OpenIn(lobby, session, clentData, "session")
    BY <1>3 DEF OpenIn
  <2>2. lobby.state = "end"
    BY <1>2, <1>5, <1>6, <2>1 DEF GameKept, Lobbies, GameStates, Turns
  <2>3. LobbyOf(enemy) = lobby
    BY <1>3 DEF LobbyOf
  <2>4. GameStateFor(lobby, enemy) = "end"
    BY <2>2 DEF GameStateFor, Turns
  <2>5. Desk(enemy).game = "end" /\ Desk(enemy).state = "session" /\ Desk(enemy).ready = TRUE
    <3> HIDE DEF enemy, lobby
    <3> QED
      BY <1>4, <2>3, <2>4, DeskParts
  <2> HIDE DEF enemy, lobby
  <2> QED
    BY <1>3, <2>5 DEF RestedAtEnd
<1>9. clentData[enemy].state = "lobby"
  BY <1>1, <1>3, <1>8 DEF TypeOK, Clients, ClientStates, Seats
<1> QED
  BY <1>1, <1>2, <1>3, <1>4, <1>6, <1>7, <1>9

(* What the call of a game does to either desk. *)
LEMMA GatheredDesk ==
    ASSUME GamesInv, GamesInv', ~idReused, ~idReused', NEW q \in Participants,
           NEW lobby \in Lobbies, ~lobby.ready1, ~lobby.ready2,
           session'[q] = session[q],
           clentData'[q].state = "session", clentData'[q].isReady = TRUE,
           lobbies'[clentData'[q].lobby] = StartSession(lobby)
    PROVE  Desk(q)' = Gathered([Desk(q) EXCEPT !.ready = TRUE])
<1> DEFINE new == StartSession(lobby)
           d == Desk(q)
           e == Desk(q)'
<1>1. /\ new.field1.ship = {} /\ new.field1.shot = {}
      /\ new.field2.ship = {} /\ new.field2.shot = {}
      /\ new.ready1 = FALSE /\ new.ready2 = FALSE /\ new.state = "preparation"
  BY DEF StartSession, Clear, Lobbies, Fields
<1>2. d \in Desks /\ e \in Desks
  BY DeskType, DeskTypeNext
<1> HIDE DEF new
<1>3. /\ ReadyFlag(new, q) = FALSE /\ GameStateFor(new, q) = "preparation"
      /\ TargetField(new, q).ship = {} /\ TargetField(new, q).shot = {}
  BY <1>1 DEF ReadyFlag, GameStateFor, TargetField, Turns
<1>4. /\ e.life = session'[q] /\ e.state = "session" /\ e.ready = TRUE
      /\ e.flag = ReadyFlag(new, q) /\ e.game = GameStateFor(new, q)
      /\ e.hits = TargetField(new, q).ship \cap TargetField(new, q).shot
      /\ e.shots = TargetField(new, q).shot
  BY DeskPartsNext DEF new
<1>5. d.life = session[q]
  BY DeskParts
<1> HIDE DEF d, e
<1>6. e = Gathered([d EXCEPT !.ready = TRUE])
  BY <1>2, <1>3, <1>4, <1>5 DEF Gathered, Desks
<1> QED
  BY <1>6 DEF d, e

LEMMA ReadyBothHandled ==
    ASSUME GamesInv, GamesInv', ~idReused, ~idReused', RestedAtEnd, NEW p \in Participants,
           NEW line, ReadyInLobby(p),
           [clentData EXCEPT ![p].isReady = TRUE][GetEnemy(LobbyOf(p), p)].isReady
    PROVE  Handled(p, line)
<1> DEFINE id == clentData[p].lobby
           lobby == LobbyOf(p)
           clients == [clentData EXCEPT ![p].isReady = TRUE]
           new == StartSession(lobby)
           mid == [Desk(p) EXCEPT !.ready = TRUE]
<1>0. PICK enemy \in Participants : enemy = GetEnemy(lobby, p)
  BY EnemyInLobby
<1>1. TypeOK /\ HasLobby(p)
  BY DEF GamesInv, SeatInv, TypeInv, ReadyInLobby
<1>2. /\ session[p] = "open" /\ clentData[p].state = "lobby"
      /\ lobby \in Lobbies /\ lobby.p1 # lobby.p2
      /\ {lobby.p1, lobby.p2} = {p, enemy} /\ SeatsOf(lobby) = {p, enemy}
      /\ enemy \in Participants /\ enemy # p /\ session[enemy] = "open"
      /\ clentData[enemy].state = "lobby" /\ clentData[enemy].isReady = TRUE
      /\ clentData[enemy].lobby = id
      /\ ~lobby.ready1 /\ ~lobby.ready2
  BY <1>0, EnemyInLobby
<1>3. /\ clentData' = [clients EXCEPT ![p].state = "session", ![enemy].state = "session"]
      /\ lobbies' = SetLobby(p, new)
      /\ Deliver(WriteMsg(Say("r"), p) \o WriteLobby(Say("s"), lobby))
      /\ UNCHANGED session
  BY <1>0 DEF ReadyInLobby
<1>4. lobbies'[id] = new
  BY <1>1, <1>3, SetLobbyAt
<1>5. /\ \A q \in {p, enemy} : /\ clentData'[q].state = "session" /\ clentData'[q].isReady = TRUE
                               /\ clentData'[q].lobby = id
      /\ \A q \in Participants : q \notin {p, enemy} => clentData'[q] = clentData[q]
  <2>1. clients \in [Seats -> Clients] /\ p \in Seats /\ enemy \in Seats
    BY <1>1, <1>2 DEF TypeOK, Clients, Seats
  <2>2. /\ clients[p].isReady = TRUE /\ clients[enemy].isReady = TRUE
        /\ clients[p].lobby = id /\ clients[enemy].lobby = id
        /\ \A q \in Participants : q # p => clients[q] = clentData[q]
    BY <1>1, <1>2 DEF TypeOK, Clients, Seats
  <2> HIDE DEF clients, id
  <2> QED
    BY <1>2, <1>3, <2>1, <2>2 DEF Clients, Seats
<1>6. \A q \in {p, enemy} : Desk(q)' = Gathered([Desk(q) EXCEPT !.ready = TRUE])
  <2> SUFFICES ASSUME NEW q \in {p, enemy}
               PROVE  Desk(q)' = Gathered([Desk(q) EXCEPT !.ready = TRUE])
    OBVIOUS
  <2>1. q \in Participants /\ session'[q] = session[q]
    BY <1>2, <1>3
  <2>2. clentData'[q].state = "session" /\ clentData'[q].isReady = TRUE
        /\ lobbies'[clentData'[q].lobby] = StartSession(lobby)
    BY <1>4, <1>5
  <2> HIDE DEF lobby
  <2> QED
    BY <1>2, <2>1, <2>2, GatheredDesk
<1>7. /\ MailFor(p) = <<Say("r"), Say("s")>>
      /\ MailFor(enemy) = <<Say("s")>>
      /\ \A q : q \notin {p, enemy} => MailFor(q) = <<>>
  <2>1. Deliver(WriteMsg(Say("r"), p) \o (WriteMsg(Say("s"), lobby.p1) \o WriteMsg(Say("s"), lobby.p2)))
    BY <1>3 DEF WriteLobby
  <2>2. p \in {lobby.p1, lobby.p2} /\ enemy \in {lobby.p1, lobby.p2} /\ enemy # p
    BY <1>2
  <2> HIDE DEF lobby
  <2>3. /\ MailFor(p) = <<Say("r"), Say("s")>>
        /\ \A q : q \in {lobby.p1, lobby.p2} /\ q # p => MailFor(q) = <<Say("s")>>
        /\ \A q : q \notin {lobby.p1, lobby.p2} => MailFor(q) = <<>>
    BY <1>2, <2>1, <2>2, ThreeMails
  <2> QED
    BY <1>2, <2>2, <2>3
<1>8. Say("r") \in Said /\ Say("s") \in Said
  BY SaySaid, SpokenLetters
<1>9. /\ Desk(p) \in Desks /\ Desk(enemy) \in Desks
      /\ Desk(p).state = "lobby" /\ Desk(enemy).state = "lobby"
      /\ Desk(p).life = "open" /\ Desk(enemy).ready = TRUE
  <2> HIDE DEF lobby
  <2> QED
    BY <1>2, DeskType, DeskParts
<1>10. /\ mid \in Desks /\ mid.life = "open" /\ mid.state = "lobby" /\ mid.ready
       /\ Answered(Desk(p), line, Say("r"), mid)
  BY <1>9 DEF Desks, Answered, AnsweredLobby
<1>11. Notified(mid, Say("s"), Desk(p)')
  BY <1>6, <1>10 DEF Notified, Called
<1>12. Notified(Desk(enemy), Say("s"), Desk(enemy)')
  <2>1. [Desk(enemy) EXCEPT !.ready = TRUE] = Desk(enemy)
    BY <1>9 DEF Desks
  <2>2. Desk(enemy)' = Gathered(Desk(enemy))
    BY <1>6, <2>1
  <2> QED
    BY <1>9, <2>2 DEF Notified, Called, Desks
<1>13. ASSUME NEW q \in Participants, q \notin {p, enemy} PROVE Undisturbed(q)
  <2>1. q \notin SeatsOf(LobbyOf(p)) /\ session'[q] = session[q] /\ clentData'[q] = clentData[q]
    BY <1>2, <1>3, <1>5, <1>13
  <2>2. Bystander(q)
    BY <1>1, <1>3, <2>1, LobbyBystander
  <2> QED
    BY <1>7, <1>13, <2>2, BystanderKept DEF Undisturbed
<1> HIDE DEF mid, lobby, new, clients, id
<1>14. Served(p, line)
  BY <1>7, <1>8, <1>10, <1>11 DEF Served
<1>15. Spoken(enemy)
  BY <1>2, <1>7, <1>8, <1>12 DEF Spoken, Open
<1> QED
  BY <1>13, <1>14, <1>15 DEF Handled, Spoken

(* The two seats of a game that has not ended. *)
LEMMA TwoSeats ==
    ASSUME GamesInv, ~idReused, NEW p \in Participants, NEW states, Playing(p, states),
           LobbyOf(p).state # "end"
    PROVE  \E enemy \in Participants :
               /\ enemy = GetEnemy(LobbyOf(p), p) /\ enemy # p
               /\ {LobbyOf(p).p1, LobbyOf(p).p2} = {p, enemy}
               /\ SeatsOf(LobbyOf(p)) = {p, enemy}
               /\ LobbyOf(p).p1 = p => LobbyOf(p).p2 = enemy
               /\ LobbyOf(p).p1 # p => LobbyOf(p).p1 = enemy /\ LobbyOf(p).p2 = p
               /\ session[enemy] # "fresh"
               /\ session[enemy] = "open" =>
                      /\ clentData[enemy].state = "session"
                      /\ clentData[enemy].lobby = clentData[p].lobby
                      /\ LobbyOf(enemy) = LobbyOf(p)
<1> DEFINE lobby == LobbyOf(p)
           enemy == GetEnemy(lobby, p)
<1>1. TypeOK /\ HasLobby(p)
  BY DEF GamesInv, SeatInv, TypeInv, Playing
<1>2. /\ p \in SeatsOf(lobby) /\ lobby \in Lobbies /\ lobby.p1 # lobby.p2
      /\ ~Waits(lobby, session, clentData)
  BY PlayingKept
<1>3. /\ {lobby.p1, lobby.p2} = {p, enemy} /\ SeatsOf(lobby) = {p, enemy}
      /\ enemy \in Participants /\ enemy # p
      /\ lobby.p1 = p => lobby.p2 = enemy
      /\ lobby.p1 # p => lobby.p1 = enemy /\ lobby.p2 = p
  <2>1. NoOne \notin {lobby.p1, lobby.p2}
    BY <1>2 DEF Waits, HasFreeSeat
  <2> HIDE DEF lobby
  <2> QED
    BY <1>2, <2>1 DEF SeatsOf, GetEnemy, Lobbies, Seats
<1>4. clentData[p].lobby \in DOMAIN lobbies /\ lobbies[clentData[p].lobby] = lobby
  BY <1>1 DEF HasLobby, LobbyOf
<1>5. session[enemy] # "fresh"
  BY <1>3, <1>4 DEF GamesInv, SeatInv, SeatsAccepted
<1>6. ASSUME session[enemy] = "open"
      PROVE  /\ clentData[enemy].state = "session"
             /\ clentData[enemy].lobby = clentData[p].lobby
             /\ LobbyOf(enemy) = lobby
  <2>1. clentData[enemy].state # "connected" /\ clentData[enemy].lobby = clentData[p].lobby
    BY <1>3, <1>4, <1>6 DEF GamesInv, SeatInv, SeatsOwned, Open
  <2>2. clentData[enemy].state # "lobby"
    BY <1>2, <1>3, <1>6 DEF Waits, OpenIn
  <2>3. clentData[enemy].state \in ClientStates
    BY <1>1, <1>3 DEF TypeOK, Clients, Seats
  <2>4. LobbyOf(enemy) = lobby
    BY <2>1 DEF LobbyOf
  <2> QED
    BY <2>1, <2>2, <2>3, <2>4 DEF ClientStates
<1> QED
  BY <1>3, <1>5, <1>6

(* The desk of one who plays in the sender's lobby, before and after. *)
LEMMA SessionDesk ==
    ASSUME GamesInv, GamesInv', ~idReused, ~idReused', NEW p \in Participants, HasLobby(p),
           NEW new, lobbies' = SetLobby(p, new), NEW q \in Participants,
           clentData[q].state = "session", clentData[q].lobby = clentData[p].lobby,
           session'[q] = session[q], clentData'[q] = clentData[q]
    PROVE  LET d == Desk(q)
               e == Desk(q)'
               lobby == LobbyOf(p)
           IN  /\ d \in Desks /\ e \in Desks /\ e.life = d.life /\ d.life = session[q]
               /\ d.state = "session" /\ e.state = "session" /\ e.ready = d.ready
               /\ d.flag = ReadyFlag(lobby, q) /\ e.flag = ReadyFlag(new, q)
               /\ d.game = GameStateFor(lobby, q) /\ e.game = GameStateFor(new, q)
               /\ d.hits = TargetField(lobby, q).ship \cap TargetField(lobby, q).shot
               /\ d.shots = TargetField(lobby, q).shot
               /\ e.hits = TargetField(new, q).ship \cap TargetField(new, q).shot
               /\ e.shots = TargetField(new, q).shot
<1>1. LobbyOf(q) = LobbyOf(p)
  BY DEF LobbyOf
<1>2. lobbies'[clentData'[q].lobby] = new
  BY SetLobbyAt DEF GamesInv, SeatInv, TypeInv
<1>3. Desk(q) \in Desks /\ Desk(q)' \in Desks
  BY DeskType, DeskTypeNext
<1>4. /\ Desk(q).life = session[q] /\ Desk(q).state = "session"
      /\ Desk(q).ready = clentData[q].isReady
      /\ Desk(q).flag = ReadyFlag(LobbyOf(p), q)
      /\ Desk(q).game = GameStateFor(LobbyOf(p), q)
      /\ Desk(q).hits = TargetField(LobbyOf(p), q).ship \cap TargetField(LobbyOf(p), q).shot
      /\ Desk(q).shots = TargetField(LobbyOf(p), q).shot
  BY <1>1, DeskParts
<1>5. /\ Desk(q)'.life = session[q] /\ Desk(q)'.state = "session"
      /\ Desk(q)'.ready = clentData[q].isReady
      /\ Desk(q)'.flag = ReadyFlag(new, q)
      /\ Desk(q)'.game = GameStateFor(new, q)
      /\ Desk(q)'.hits = TargetField(new, q).ship \cap TargetField(new, q).shot
      /\ Desk(q)'.shots = TargetField(new, q).shot
  BY <1>2, DeskPartsNext
<1> QED
  BY <1>3, <1>4, <1>5

LEMMA PlaceShipHandled ==
    ASSUME GamesInv, GamesInv', ~idReused, ~idReused', NEW p \in Participants, NEW line,
           line.word # "ready", NEW s \in Placements, PlaceShip(p, s)
    PROVE  Handled(p, line)
<1> DEFINE lobby == LobbyOf(p)
           my == MyField(lobby, p)
           new == SetMyField(lobby, p, SetShip(my, s))
<1>1. Playing(p, {"preparation"}) /\ HasLobby(p) /\ UNCHANGED <<clentData, session>>
  BY DEF PlaceShip, Playing
<1>2. /\ clentData[p].state = "session" /\ lobby \in Lobbies /\ lobby.state = "preparation"
      /\ lobby.field1.shot = {} /\ lobby.field2.shot = {}
  BY <1>1, PlayingKept
<1>3. InPreparation(Desk(p))
  BY <1>2, DeskParts DEF InPreparation, GameStateFor, Turns
<1>4. CASE CanSetShip(my, s)
  <2>1. lobbies' = SetLobby(p, new) /\ Reply("d", p)
    BY <1>4 DEF PlaceShip
  <2>2. ASSUME NEW q PROVE GameFor(new, q) = GameFor(lobby, q)
    <3> HIDE DEF lobby
    <3>1. SetShip(my, s).shot = {}
      BY <1>2 DEF SetShip, MyField, Lobbies, Fields
    <3>2. /\ new.p1 = lobby.p1 /\ new.p2 = lobby.p2 /\ new.state = "preparation"
          /\ new.field1.shot = {} /\ new.field2.shot = {}
          /\ new.ready1 = lobby.ready1 /\ new.ready2 = lobby.ready2
      BY <1>2, <3>1 DEF SetMyField, Lobbies
    <3> HIDE DEF new
    <3> QED
      BY <1>2, <3>2
      DEF GameFor, TargetField, ReadyFlag, GameStateFor, IsParticipant1, Turns
  <2> HIDE DEF new
  <2>3. \A q \in Participants : Bystander(q)
    BY <1>1, <2>1, <2>2, LobbyBystander
  <2>4. Aside(p) /\ Desk(p)' = Desk(p)
    BY <2>3, BystanderKept DEF Aside
  <2>5. Answered(Desk(p), line, Say("d"), Desk(p)')
    BY <1>3, <2>4 DEF Answered, AnsweredPreparation
  <2> QED
    BY <2>1, <2>4, <2>5, ReplyHandled, SpokenLetters
<1>5. CASE ~CanSetShip(my, s)
  <2>1. Reply("f", p) /\ UNCHANGED lobbies
    BY <1>5 DEF PlaceShip
  <2>2. Aside(p) /\ Desk(p)' = Desk(p)
    BY <1>1, <2>1, QuietAside, SameStateDesk
  <2>3. Answered(Desk(p), line, Say("f"), Desk(p)')
    BY <1>3, <2>2 DEF Answered, AnsweredPreparation
  <2> QED
    BY <2>1, <2>2, <2>3, ReplyHandled, SpokenLetters
<1> QED
  BY <1>4, <1>5

LEMMA MarkedReady ==
    ASSUME NEW lobby \in Lobbies, NEW p \in Participants, NEW enemy \in Participants,
           enemy # p, {lobby.p1, lobby.p2} = {p, enemy}
    PROVE  /\ MarkReady(lobby, p).p1 = lobby.p1 /\ MarkReady(lobby, p).p2 = lobby.p2
           /\ MarkReady(lobby, p).state = lobby.state
           /\ ReadyFlag(MarkReady(lobby, p), p) = TRUE
           /\ ReadyFlag(MarkReady(lobby, p), enemy) = ReadyFlag(lobby, enemy)
           /\ TargetField(MarkReady(lobby, p), p) = TargetField(lobby, p)
           /\ TargetField(MarkReady(lobby, p), enemy) = TargetField(lobby, enemy)
           /\ MarkReady(lobby, p).ready1 /\ MarkReady(lobby, p).ready2 =>
                  ReadyFlag(lobby, enemy) = TRUE
<1>1. /\ (lobby.p1 = p /\ lobby.p2 = enemy) \/ (lobby.p1 = enemy /\ lobby.p2 = p)
      /\ lobby.ready1 \in BOOLEAN /\ lobby.ready2 \in BOOLEAN
  BY DEF Lobbies
<1> QED
  BY <1>1 DEF MarkReady, Lobbies, ReadyFlag, TargetField, IsParticipant1, IsParticipant2

LEMMA ReadyFirstHandled ==
    ASSUME GamesInv, GamesInv', ~idReused, ~idReused', NEW p \in Participants, NEW line,
           line.word = "ready", ReadyToPlay(p),
           ~(MarkReady(LobbyOf(p), p).ready1 /\ MarkReady(LobbyOf(p), p).ready2)
    PROVE  Handled(p, line)
<1> DEFINE lobby == LobbyOf(p)
           new == MarkReady(lobby, p)
           d == Desk(p)
           e == Desk(p)'
<1>1. /\ Playing(p, {"preparation"}) /\ HasLobby(p) /\ UNCHANGED <<clentData, session>>
      /\ lobbies' = SetLobby(p, new) /\ sent' = <<>>
  BY DEF ReadyToPlay, Playing
<1>2. clentData[p].state = "session" /\ lobby \in Lobbies /\ lobby.state = "preparation"
  BY <1>1, PlayingKept
<1>3. PICK enemy \in Participants :
          enemy # p /\ {lobby.p1, lobby.p2} = {p, enemy} /\ SeatsOf(lobby) = {p, enemy}
  BY <1>1, <1>2, TwoSeats
<1>4. /\ new.p1 = lobby.p1 /\ new.p2 = lobby.p2 /\ new.state = "preparation"
      /\ ReadyFlag(new, p) = TRUE /\ ReadyFlag(new, enemy) = ReadyFlag(lobby, enemy)
      /\ TargetField(new, p) = TargetField(lobby, p)
      /\ TargetField(new, enemy) = TargetField(lobby, enemy)
  <2> HIDE DEF lobby, d, e
  <2>1. lobby \in Lobbies /\ enemy # p /\ {lobby.p1, lobby.p2} = {p, enemy}
    BY <1>2, <1>3
  <2> QED
    BY <1>2, <2>1, MarkedReady
<1>5. \A q : GameStateFor(new, q) = "preparation" /\ GameStateFor(lobby, q) = "preparation"
  <2> HIDE DEF new
  <2> QED
    BY <1>2, <1>4 DEF GameStateFor, Turns
<1>6. GameFor(new, enemy) = GameFor(lobby, enemy)
  <2> HIDE DEF new, lobby
  <2> QED
    BY <1>4, <1>5 DEF GameFor
<1>7. Aside(p)
  <2> SUFFICES ASSUME NEW q \in Participants, q # p PROVE Bystander(q)
    BY DEF Aside
  <2>1. q \in SeatsOf(LobbyOf(p)) => GameFor(new, q) = GameFor(LobbyOf(p), q)
    BY <1>3, <1>6
  <2> HIDE DEF new
  <2> QED
    BY <1>1, <2>1, LobbyBystander
<1> HIDE DEF new
<1>8. /\ d \in Desks /\ e \in Desks /\ e.life = d.life
      /\ d.state = "session" /\ e.state = "session" /\ e.ready = d.ready
      /\ d.game = "preparation" /\ e.game = "preparation" /\ e.flag = TRUE
      /\ e.hits = d.hits /\ e.shots = d.shots
  <2>1. /\ d \in Desks /\ e \in Desks /\ e.life = d.life
        /\ d.state = "session" /\ e.state = "session" /\ e.ready = d.ready
        /\ e.flag = ReadyFlag(new, p)
        /\ d.game = GameStateFor(lobby, p) /\ e.game = GameStateFor(new, p)
        /\ d.hits = TargetField(lobby, p).ship \cap TargetField(lobby, p).shot
        /\ d.shots = TargetField(lobby, p).shot
        /\ e.hits = TargetField(new, p).ship \cap TargetField(new, p).shot
        /\ e.shots = TargetField(new, p).shot
    BY <1>1, <1>2, SessionDesk
  <2> HIDE DEF d, e
  <2> QED
    BY <1>4, <1>5, <2>1
<1> HIDE DEF d, e
<1>9. Recorded(d, line, e)
  BY <1>8 DEF Recorded, InPreparation, Desks
<1>10. Recorded(Desk(p), line, Desk(p)')
  BY <1>9 DEF d, e
<1> QED
  BY <1>1, <1>7, <1>10, UnansweredHandled

(* How the turns begin for one whose flag is set. *)
LEMMA BegunDesk ==
    ASSUME NEW d \in Desks, NEW e \in Desks, NEW first \in BOOLEAN, e.life = d.life,
           d.state = "session", e.state = "session", e.ready = d.ready, d.flag = TRUE, e.flag = TRUE,
           d.game = "preparation", e.game = IF first THEN "my_turn" ELSE "enemy_turn",
           e.hits = d.hits, e.shots = d.shots
    PROVE  Begun(d, IF first THEN Say("f") ELSE Say("s"), e)
<1>1. e = [d EXCEPT !.game = IF first THEN "my_turn" ELSE "enemy_turn"]
  BY DEF Desks
<1> QED
  BY <1>1 DEF Begun, InPreparation

LEMMA SeatNotSilent ==
    ASSUME NEW q, NEW id \in DOMAIN lobbies, q \in SeatsOf(lobbies[id]),
           lobbies[id].state \in Turns \/ ReadyFlag(lobbies[id], q)
    PROVE  ~Silent(q)
BY DEF Silent, Silenced

LEMMA ReadySecondHandled ==
    ASSUME GamesInv, GamesInv', ~idReused, ~idReused', NEW p \in Participants, NEW line,
           line.word = "ready", ReadyToPlay(p),
           MarkReady(LobbyOf(p), p).ready1 /\ MarkReady(LobbyOf(p), p).ready2
    PROVE  Handled(p, line)
<1> DEFINE lobby == LobbyOf(p)
           marked == MarkReady(lobby, p)
           Started(turn) == [marked EXCEPT !.state = turn]
<1>1. /\ Playing(p, {"preparation"}) /\ HasLobby(p) /\ UNCHANGED <<clentData, session>>
  BY DEF ReadyToPlay, Playing
<1>2. /\ session[p] = "open" /\ clentData[p].state = "session" /\ lobby \in Lobbies
      /\ lobby.state = "preparation"
  BY <1>1, PlayingKept
<1>3. PICK enemy \in Participants :
          /\ enemy # p /\ {lobby.p1, lobby.p2} = {p, enemy} /\ SeatsOf(lobby) = {p, enemy}
          /\ session[enemy] # "fresh"
          /\ session[enemy] = "open" =>
                clentData[enemy].state = "session" /\ clentData[enemy].lobby = clentData[p].lobby
  BY <1>1, <1>2, TwoSeats
<1>4. /\ marked.p1 = lobby.p1 /\ marked.p2 = lobby.p2
      /\ ReadyFlag(marked, p) = TRUE /\ ReadyFlag(marked, enemy) = ReadyFlag(lobby, enemy)
      /\ TargetField(marked, p) = TargetField(lobby, p)
      /\ TargetField(marked, enemy) = TargetField(lobby, enemy)
      /\ ReadyFlag(lobby, enemy) = TRUE
  <2>1. lobby \in Lobbies /\ enemy # p /\ {lobby.p1, lobby.p2} = {p, enemy}
    BY <1>2, <1>3
  <2>2. marked.ready1 /\ marked.ready2
    OBVIOUS
  <2> HIDE DEF lobby
  <2> QED
    BY <2>1, <2>2, MarkedReady
<1>5. PICK turn \in Turns :
          /\ lobbies' = SetLobby(p, Started(turn))
          /\ Deliver(WriteMsg(Say("f"), Mover(Started(turn)))
                     \o WriteMsg(Say("s"), IF turn = "turn_1" THEN marked.p2 ELSE marked.p1))
  <2> HIDE DEF marked
  <2>1. marked.ready1 /\ marked.ready2
    BY DEF marked
  <2> QED
    BY <2>1 DEF ReadyToPlay, marked
<1> DEFINE new == Started(turn)
           first == Mover(new)
           second == IF turn = "turn_1" THEN marked.p2 ELSE marked.p1
           d == Desk(p)
           e == Desk(p)'
           mid == [Desk(p) EXCEPT !.flag = TRUE]
<1>6. /\ new.p1 = lobby.p1 /\ new.p2 = lobby.p2 /\ new.state = turn
      /\ \A q : ReadyFlag(new, q) = ReadyFlag(marked, q)
      /\ \A q : TargetField(new, q) = TargetField(marked, q)
  <2>1. marked \in Lobbies
    <3> HIDE DEF lobby
    <3> QED
      BY <1>2, GameStepType
  <2>2. /\ new.p1 = marked.p1 /\ new.p2 = marked.p2 /\ new.state = turn
        /\ new.field1 = marked.field1 /\ new.field2 = marked.field2
        /\ new.ready1 = marked.ready1 /\ new.ready2 = marked.ready2
    <3> HIDE DEF marked
    <3> QED
      BY <2>1 DEF Lobbies
  <2> HIDE DEF new, marked, lobby
  <2> QED
    BY <1>4, <2>2 DEF ReadyFlag, TargetField, IsParticipant1
<1> HIDE DEF new, marked
<1>7. /\ {first, second} = {p, enemy} /\ first # second
      /\ \A q : GameStateFor(new, q) = IF q = first THEN "my_turn" ELSE "enemy_turn"
      /\ \A q : GameStateFor(lobby, q) = "preparation"
  <2> HIDE DEF lobby
  <2> QED
    BY <1>2, <1>3, <1>4, <1>6 DEF Mover, GameStateFor, Turns
<1>8. Deliver(WriteMsg(Say("f"), first) \o WriteMsg(Say("s"), second))
  BY <1>5 DEF new
<1> HIDE DEF first, second
<1>9. /\ \A q \in {p, enemy} : MailFor(q) = <<IF q = first THEN Say("f") ELSE Say("s")>>
      /\ \A q : q \notin {p, enemy} => MailFor(q) = <<>>
  <2>1. /\ MailFor(first) = <<Say("f")>> /\ MailFor(second) = <<Say("s")>>
        /\ \A q : q \notin {first, second} => MailFor(q) = <<>>
    BY <1>7, <1>8, TwoMails
  <2>2. \A q \in {p, enemy} : q = first \/ (q = second /\ q # first)
    BY <1>7
  <2> QED
    BY <1>7, <2>1, <2>2
<1>10. Say("f") \in Said /\ Say("s") \in Said
  BY SaySaid, SpokenLetters
<1>11. lobbies' = SetLobby(p, new)
  BY <1>5 DEF new
<1>12. /\ d \in Desks /\ e \in Desks /\ e.life = d.life /\ d.life = "open"
       /\ d.state = "session" /\ e.state = "session" /\ e.ready = d.ready
       /\ e.flag = TRUE
       /\ d.game = "preparation" /\ e.game = IF p = first THEN "my_turn" ELSE "enemy_turn"
       /\ e.hits = d.hits /\ e.shots = d.shots
  <2>1. /\ d \in Desks /\ e \in Desks /\ e.life = d.life /\ d.life = session[p]
        /\ d.state = "session" /\ e.state = "session" /\ e.ready = d.ready
        /\ e.flag = ReadyFlag(new, p)
        /\ d.game = GameStateFor(lobby, p) /\ e.game = GameStateFor(new, p)
        /\ d.hits = TargetField(lobby, p).ship \cap TargetField(lobby, p).shot
        /\ d.shots = TargetField(lobby, p).shot
        /\ e.hits = TargetField(new, p).ship \cap TargetField(new, p).shot
        /\ e.shots = TargetField(new, p).shot
    BY <1>1, <1>2, <1>11, SessionDesk
  <2> HIDE DEF d, e
  <2> QED
    BY <1>2, <1>4, <1>6, <1>7, <2>1
<1>13. Served(p, line)
  <2> HIDE DEF d, e
  <2> DEFINE md == [d EXCEPT !.flag = TRUE]
             msg == IF p = first THEN Say("f") ELSE Say("s")
  <2>1. /\ md \in Desks /\ md.life = "open" /\ md.state = "session" /\ md.ready = d.ready
        /\ md.flag = TRUE /\ md.game = "preparation" /\ md.hits = d.hits /\ md.shots = d.shots
    BY <1>12 DEF Desks
  <2>2. Recorded(d, line, md)
    BY <1>12 DEF Recorded, InPreparation
  <2> HIDE DEF md
  <2>3. Notified(md, msg, e)
    <3>1. (p = first) \in BOOLEAN
      OBVIOUS
    <3>2. Begun(md, msg, e)
      BY <1>12, <2>1, <3>1, BegunDesk
    <3> QED
      BY <3>2 DEF Notified
  <2>4. MailFor(p) = <<msg>> /\ msg \in Said
    BY <1>9, <1>10
  <2> HIDE DEF msg
  <2> QED
    BY <2>1, <2>2, <2>3, <2>4 DEF Served, d, e
<1>14. ASSUME session[enemy] = "open" PROVE Spoken(enemy)
  <2> DEFINE dd == Desk(enemy)
             ee == Desk(enemy)'
             msg == IF enemy = first THEN Say("f") ELSE Say("s")
  <2>1. /\ dd \in Desks /\ ee \in Desks /\ ee.life = dd.life
        /\ dd.state = "session" /\ ee.state = "session" /\ ee.ready = dd.ready
        /\ dd.flag = ReadyFlag(lobby, enemy) /\ ee.flag = ReadyFlag(new, enemy)
        /\ dd.game = GameStateFor(lobby, enemy) /\ ee.game = GameStateFor(new, enemy)
        /\ dd.hits = TargetField(lobby, enemy).ship \cap TargetField(lobby, enemy).shot
        /\ dd.shots = TargetField(lobby, enemy).shot
        /\ ee.hits = TargetField(new, enemy).ship \cap TargetField(new, enemy).shot
        /\ ee.shots = TargetField(new, enemy).shot
    BY <1>1, <1>3, <1>11, <1>14, SessionDesk
  <2> HIDE DEF dd, ee
  <2>2. /\ dd.flag = TRUE /\ ee.flag = TRUE /\ dd.game = "preparation"
        /\ ee.game = IF enemy = first THEN "my_turn" ELSE "enemy_turn"
        /\ ee.hits = dd.hits /\ ee.shots = dd.shots
    BY <1>4, <1>6, <1>7, <2>1
  <2>3. Notified(dd, msg, ee)
    <3>1. (enemy = first) \in BOOLEAN
      OBVIOUS
    <3>2. Begun(dd, msg, ee)
      BY <2>1, <2>2, <3>1, BegunDesk
    <3> QED
      BY <3>2 DEF Notified
  <2>4. MailFor(enemy) = <<msg>> /\ msg \in Said
    BY <1>9, <1>10
  <2> HIDE DEF msg
  <2> QED
    BY <1>14, <2>3, <2>4 DEF Spoken, Open, dd, ee
<1>15. ASSUME session[enemy] # "open" PROVE Spoken(enemy)
  <2>1. ~Silent(enemy)
    BY <1>1, <1>3, <1>4, SeatNotSilent DEF HasLobby, LobbyOf
  <2> QED
    BY <1>1, <1>3, <1>15, <2>1 DEF Spoken
<1>16. ASSUME NEW q \in Participants, q \notin {p, enemy} PROVE Undisturbed(q)
  <2>1. Bystander(q)
    BY <1>1, <1>3, <1>11, <1>16, LobbyBystander
  <2> QED
    BY <1>9, <1>16, <2>1, BystanderKept DEF Undisturbed
<1> HIDE DEF d, e, mid, lobby
<1> QED
  BY <1>13, <1>14, <1>15, <1>16 DEF Handled, Spoken

(* A copy that shows what was found out about a field shows it after the next answer. *)
LEMMA CopySees ==
    ASSUME NEW f \in Fields, FieldSound(f), NEW v \in Fields, NEW c \in Cells,
           v.shot = f.shot, v.ship = f.ship \cap f.shot, c \notin f.shot
    PROVE  /\ CopyAnswer(v, c, ShotAnswer(f, c)).shot = ShotField(f, c).shot
           /\ CopyAnswer(v, c, ShotAnswer(f, c)).ship =
                  ShotField(f, c).ship \cap ShotField(f, c).shot
<1> DEFINE g == ShotField(f, c)
           w == CopyAnswer(v, c, ShotAnswer(f, c))
<1>1. g.ship = f.ship
  BY ShotSinks
<1>2. CASE c \notin f.ship
  <2>1. ShotAnswer(f, c) = "m" /\ g = MarkShot(f, c)
    BY <1>2 DEF ShotAnswer, ShotField
  <2>2. g.shot = f.shot \cup {c}
    BY <2>1 DEF MarkShot, Fields
  <2>3. w.shot = v.shot \cup {c} /\ w.ship = v.ship \ {c}
    BY <2>1 DEF CopyAnswer, MarkMiss, Fields
  <2> HIDE DEF g, w
  <2> QED
    BY <1>1, <1>2, <2>2, <2>3 DEF g, w
<1>3. CASE c \in f.ship
  <2>1. PICK s \in Ships : LoneShip(f, s) /\ c \in ShipCells(s)
    BY <1>3 DEF FieldSound
  <2> DEFINE A == ShipCells(s)
             killed == A \subseteq f.shot \cup {c}
  <2>2. /\ CheckKill(MarkShot(f, c), c) <=> killed
        /\ g.shot = f.shot \cup {c} \cup (IF killed THEN Surroundings(A) \cap Cells ELSE {})
    BY <2>1, ShotAtLoneShip
  <2>3. A \subseteq f.ship /\ f.ship \subseteq Cells
    BY <2>1 DEF LoneShip, Fields
  <2>4. ShotAnswer(f, c) = "g" => killed
    <3> SUFFICES ASSUME ShotAnswer(f, c) = "g", ~killed PROVE FALSE
      OBVIOUS
    <3>1. g.ship \subseteq g.shot
      BY ShotSinks DEF GameFinished
    <3>2. g.shot = f.shot \cup {c}
      BY <2>2
    <3> HIDE DEF g
    <3> QED
      BY <1>1, <2>3, <3>1, <3>2
  <2>5. /\ killed  => ShotAnswer(f, c) \in {"k", "g"}
        /\ ~killed => ShotAnswer(f, c) = "h"
    <3> HIDE DEF killed
    <3> QED
      BY <1>3, <2>2, <2>4 DEF ShotAnswer
  <2> DEFINE hit == MarkHit(v, c)
  <2>6. hit.ship = v.ship \cup {c} /\ hit.shot = v.shot \cup {c}
    BY DEF MarkHit, Fields
  <2>7. CASE ~killed
    <3>1. w = hit
      BY <2>5, <2>7 DEF CopyAnswer
    <3>2. g.shot = f.shot \cup {c}
      BY <2>2, <2>7
    <3> HIDE DEF g, w, hit
    <3>3. w.shot = g.shot /\ w.ship = g.ship \cap g.shot
      BY <1>1, <1>3, <2>6, <3>1, <3>2
    <3> QED
      BY <3>3 DEF g, w
  <2>8. CASE killed
    <3>1. A \subseteq hit.ship /\ hit.ship \subseteq f.ship
      BY <1>3, <2>3, <2>6, <2>8
    <3>2. LoneShip(hit, s)
      <4> HIDE DEF hit
      <4> QED
        BY <2>1, <3>1 DEF LoneShip
    <3>3. Walked(hit, c) = A
      <4> HIDE DEF hit
      <4> QED
        BY <2>1, <3>2, WalkedIsTheShip
    <3>4. w = Kill(hit, c)
      BY <2>5, <2>8 DEF CopyAnswer
    <3>5. w.ship = hit.ship /\ w.shot = hit.shot \cup (Surroundings(A) \cap Cells)
      BY <3>3, <3>4 DEF Kill, MarkHit, Fields
    <3>6. ASSUME NEW d \in f.ship, d \in Surroundings(A) PROVE d \in A
      <4>1. PICK e \in A : d \in Around(e)
        BY <3>6 DEF Surroundings
      <4>2. e \in Int \X Int
        BY <2>3, FieldAssumption DEF Cells
      <4>3. Touching(e, d)
        BY <4>1, <4>2, AroundTouches
      <4> QED
        BY <2>1, <4>3 DEF LoneShip
    <3>7. g.shot = f.shot \cup {c} \cup (Surroundings(A) \cap Cells)
      BY <2>2, <2>8
    <3> HIDE DEF g, w, hit, A
    <3>8. w.shot = g.shot /\ w.ship = g.ship \cap g.shot
      BY <1>1, <1>3, <2>3, <2>6, <2>8, <3>5, <3>6, <3>7 DEF killed
    <3> QED
      BY <3>8 DEF g, w
  <2> QED
    BY <2>7, <2>8
<1> QED
  BY <1>2, <1>3

(* Both players' desks in the turns, where the flags are set. *)
LEMMA AnnouncedMail ==
    ASSUME NEW msg, NEW lobby, NEW p, NEW enemy, p # enemy, {lobby.p1, lobby.p2} = {p, enemy},
           Announce(msg, lobby)
    PROVE  /\ MailFor(p) = <<msg>> /\ MailFor(enemy) = <<msg>>
           /\ \A q : q \notin {p, enemy} => MailFor(q) = <<>>
<1>1. lobby.p1 # lobby.p2
  OBVIOUS
<1>2. Deliver(WriteMsg(msg, lobby.p1) \o WriteMsg(msg, lobby.p2))
  BY DEF Announce, WriteLobby
<1>3. /\ MailFor(lobby.p1) = <<msg>> /\ MailFor(lobby.p2) = <<msg>>
      /\ \A q : q \notin {lobby.p1, lobby.p2} => MailFor(q) = <<>>
  BY <1>1, <1>2, TwoMails
<1>4. (lobby.p1 = p /\ lobby.p2 = enemy) \/ (lobby.p1 = enemy /\ lobby.p2 = p)
  OBVIOUS
<1> QED
  BY <1>3, <1>4

(* The lobby after a shot that does not end the game, as both see it. *)
AfterHit(lobby, p, shot, swap) ==
    LET hit == SetTargetField(lobby, p, shot)
    IN  IF swap THEN SwapState(hit, p) ELSE hit

LEMMA HitLobby ==
    ASSUME NEW lobby \in Lobbies, NEW p \in Participants, NEW enemy \in Participants, enemy # p,
           lobby.p1 = p => lobby.p2 = enemy, lobby.p1 # p => lobby.p1 = enemy /\ lobby.p2 = p,
           lobby.state \in Turns, IsMyTurn(lobby, p), NEW shot \in Fields, NEW swap \in BOOLEAN
    PROVE  /\ \A q : ReadyFlag(AfterHit(lobby, p, shot, swap), q) = ReadyFlag(lobby, q)
           /\ TargetField(AfterHit(lobby, p, shot, swap), p) = shot
           /\ TargetField(AfterHit(lobby, p, shot, swap), enemy) = TargetField(lobby, enemy)
           /\ GameStateFor(lobby, p) = "my_turn" /\ GameStateFor(lobby, enemy) = "enemy_turn"
           /\ GameStateFor(AfterHit(lobby, p, shot, swap), p) =
                  IF swap THEN "enemy_turn" ELSE "my_turn"
           /\ GameStateFor(AfterHit(lobby, p, shot, swap), enemy) =
                  IF swap THEN "my_turn" ELSE "enemy_turn"
<1> DEFINE new == AfterHit(lobby, p, shot, swap)
<1>1. CASE lobby.p1 = p
  <2>1. lobby.state = "turn_1" /\ lobby.p2 = enemy
    BY <1>1 DEF IsMyTurn, IsParticipant1, IsParticipant2, Turns
  <2>2. /\ new.p1 = p /\ new.p2 = enemy
        /\ new.field1 = lobby.field1 /\ new.field2 = shot
        /\ new.ready1 = lobby.ready1 /\ new.ready2 = lobby.ready2
        /\ new.state = IF swap THEN "turn_2" ELSE "turn_1"
    BY <1>1, <2>1 DEF AfterHit, SetTargetField, SwapState, IsParticipant1, Lobbies
  <2> HIDE DEF new
  <2>3. /\ \A q : ReadyFlag(new, q) = ReadyFlag(lobby, q)
        /\ TargetField(new, p) = shot /\ TargetField(new, enemy) = TargetField(lobby, enemy)
        /\ GameStateFor(lobby, p) = "my_turn" /\ GameStateFor(lobby, enemy) = "enemy_turn"
        /\ GameStateFor(new, p) = IF swap THEN "enemy_turn" ELSE "my_turn"
        /\ GameStateFor(new, enemy) = IF swap THEN "my_turn" ELSE "enemy_turn"
    BY <1>1, <2>1, <2>2
    DEF ReadyFlag, TargetField, IsParticipant1, GameStateFor, Mover, Turns
  <2> QED
    BY <2>3 DEF new
<1>2. CASE lobby.p1 # p
  <2>1. lobby.state = "turn_2" /\ lobby.p1 = enemy /\ lobby.p2 = p
    BY <1>2 DEF IsMyTurn, IsParticipant1, IsParticipant2, Turns
  <2>2. /\ new.p1 = enemy /\ new.p2 = p
        /\ new.field2 = lobby.field2 /\ new.field1 = shot
        /\ new.ready1 = lobby.ready1 /\ new.ready2 = lobby.ready2
        /\ new.state = IF swap THEN "turn_1" ELSE "turn_2"
    BY <1>2, <2>1 DEF AfterHit, SetTargetField, SwapState, IsParticipant1, Lobbies
  <2> HIDE DEF new
  <2>3. /\ \A q : ReadyFlag(new, q) = ReadyFlag(lobby, q)
        /\ TargetField(new, p) = shot /\ TargetField(new, enemy) = TargetField(lobby, enemy)
        /\ GameStateFor(lobby, p) = "my_turn" /\ GameStateFor(lobby, enemy) = "enemy_turn"
        /\ GameStateFor(new, p) = IF swap THEN "enemy_turn" ELSE "my_turn"
        /\ GameStateFor(new, enemy) = IF swap THEN "my_turn" ELSE "enemy_turn"
    BY <1>2, <2>1, <2>2
    DEF ReadyFlag, TargetField, IsParticipant1, GameStateFor, Mover, Turns
  <2> QED
    BY <2>3 DEF new
<1> QED
  BY <1>1, <1>2

(* The shooter's desk, and the other's. *)
LEMMA ShooterDesk ==
    ASSUME NEW d \in Desks, NEW e \in Desks, NEW f \in Fields, FieldSound(f), NEW c \in Cells,
           c \notin f.shot, e.life = d.life, d.state = "session", e.state = "session",
           d.game = "my_turn",
           e.game = AfterAnswer(ShotAnswer(f, c), "my_turn", "enemy_turn"),
           e.game # "end" => e.ready = d.ready /\ e.flag = d.flag,
           e.game = "end" => ~e.ready /\ ~e.flag,
           d.hits = f.ship \cap f.shot, d.shots = f.shot,
           e.hits = ShotField(f, c).ship \cap ShotField(f, c).shot, e.shots = ShotField(f, c).shot
    PROVE  AnsweredShot(d, Answer(ShotAnswer(f, c), c), e)
<1> DEFINE v == [f EXCEPT !.ship = f.ship \cap f.shot]
           g == CopyAnswer(v, c, ShotAnswer(f, c))
           msg == Answer(ShotAnswer(f, c), c)
<1>1. v \in Fields /\ v.ship = d.hits /\ v.shot = d.shots
  BY DEF Fields
<1>2. msg.letter = ShotAnswer(f, c) /\ msg.cell = c /\ msg.letter \in ShotAnswers
  BY ShotAnswerType DEF Answer, ShotAnswers
<1> HIDE DEF v, msg
<1>3. g.shot = e.shots /\ g.ship = e.hits
  BY <1>1, CopySees
<1> HIDE DEF g
<1>4. e.ready \in BOOLEAN /\ e.flag \in BOOLEAN
  BY DEF Desks
<1>5. e = [AfterShot(d, e.game) EXCEPT !.hits = g.ship, !.shots = g.shot]
  <2>1. CASE e.game = "end"
    <3>1. e.ready = FALSE /\ e.flag = FALSE
      BY <1>4, <2>1
    <3> QED
      BY <1>3, <2>1, <3>1 DEF AfterShot, Desks
  <2>2. CASE e.game # "end"
    BY <1>3, <2>2 DEF AfterShot, Desks
  <2> QED
    BY <2>1, <2>2
<1>6. AnsweredShot(d, msg, e)
  <2>1. e.game = AfterAnswer(msg.letter, "my_turn", "enemy_turn")
    BY <1>2
  <2>2. g = CopyAnswer(v, msg.cell, msg.letter)
    BY <1>2 DEF g
  <2>3. e = [AfterShot(d, AfterAnswer(msg.letter, "my_turn", "enemy_turn"))
               EXCEPT !.hits = CopyAnswer(v, msg.cell, msg.letter).ship,
                      !.shots = CopyAnswer(v, msg.cell, msg.letter).shot]
    BY <1>5, <2>1, <2>2
  <2> QED
    BY <1>1, <1>2, <2>3 DEF AnsweredShot
<1> QED
  BY <1>6 DEF msg

LEMMA StruckDesk ==
    ASSUME NEW d \in Desks, NEW e \in Desks, NEW letter \in ShotAnswers, NEW c,
           e.life = d.life, d.state = "session", e.state = "session", d.game = "enemy_turn",
           e.game = AfterAnswer(letter, "enemy_turn", "my_turn"),
           e.game # "end" => e.ready = d.ready /\ e.flag = d.flag,
           e.game = "end" => ~e.ready /\ ~e.flag,
           e.hits = d.hits, e.shots = d.shots
    PROVE  Notified(d, Answer(letter, c), e)
<1>1. Answer(letter, c).letter = letter
  BY DEF Answer
<1>2. e.ready \in BOOLEAN /\ e.flag \in BOOLEAN
  BY DEF Desks
<1>3. e = AfterShot(d, e.game)
  <2>1. CASE e.game = "end"
    <3>1. e.ready = FALSE /\ e.flag = FALSE
      BY <1>2, <2>1
    <3> QED
      BY <2>1, <3>1 DEF AfterShot, Desks
  <2>2. CASE e.game # "end"
    BY <2>2 DEF AfterShot, Desks
  <2> QED
    BY <2>1, <2>2
<1> QED
  BY <1>1, <1>3 DEF Notified, Struck

LEMMA AnswerToShot ==
    ASSUME NEW f, NEW c \in Cells
    PROVE  Answer(ShotAnswer(f, c), c) \in Said /\ ShotAnswer(f, c) \in ShotAnswers
<1>1. ShotAnswer(f, c) \in {"m", "h", "k", "g"}
  BY ShotAnswerType
<1>2. \A a \in {"m", "h", "k", "g"} : a \in Letters /\ a \in ShotAnswers
  BY DEF Letters, ShotAnswers
<1>3. \A a \in {"m", "h", "k", "g"} : Answer(a, c) \in Said
  BY <1>2, AnswerSaid
<1> QED
  BY <1>1, <1>2, <1>3

LEMMA ShootHandled ==
    ASSUME GamesInv, GamesInv', FieldsSound, ~idReused, ~idReused', NEW p \in Participants,
           NEW line, NEW c \in Cells, Shoot(p, c)
    PROVE  Handled(p, line)
<1> DEFINE lobby == LobbyOf(p)
           target == TargetField(lobby, p)
           answer == ShotAnswer(target, c)
           shot == ShotField(target, c)
           swap == answer = "m"
           new == AfterHit(lobby, p, shot, swap)
           msg == Answer(answer, c)
           d == Desk(p)
           e == Desk(p)'
<1>1. /\ Playing(p, Turns) /\ HasLobby(p) /\ UNCHANGED <<clentData, session>>
      /\ IsMyTurn(lobby, p) /\ c \notin target.shot /\ answer # "g"
      /\ lobbies' = SetLobby(p, new) /\ Announce(msg, lobby)
  BY DEF Shoot, Playing, AfterHit
<1>2. /\ session[p] = "open" /\ clentData[p].state = "session" /\ lobby \in Lobbies
      /\ lobby.state \in Turns /\ lobby.state # "end"
  BY <1>1, PlayingKept DEF Turns
<1>3. PICK enemy \in Participants :
          /\ enemy # p /\ {lobby.p1, lobby.p2} = {p, enemy} /\ SeatsOf(lobby) = {p, enemy}
          /\ lobby.p1 = p => lobby.p2 = enemy
          /\ lobby.p1 # p => lobby.p1 = enemy /\ lobby.p2 = p
          /\ session[enemy] # "fresh"
          /\ session[enemy] = "open" =>
                clentData[enemy].state = "session" /\ clentData[enemy].lobby = clentData[p].lobby
  BY <1>1, <1>2, TwoSeats
<1>4. target \in Fields /\ FieldSound(target) /\ shot \in Fields
  <2>1. LobbySound(lobby)
    BY <1>1 DEF HasLobby, LobbyOf, FieldsSound
  <2>2. target \in Fields
    BY <1>2, FieldOfType
  <2>3. FieldSound(target)
    BY <2>1 DEF LobbySound, TargetField
  <2> HIDE DEF target
  <2> QED
    BY <2>2, <2>3, ShotFieldType
<1>5. msg \in Said /\ answer \in ShotAnswers /\ answer \in {"m", "h", "k", "g"}
  <2> HIDE DEF target
  <2> QED
    BY AnswerToShot, ShotAnswerType
<1>6. /\ MailFor(p) = <<msg>> /\ MailFor(enemy) = <<msg>>
      /\ \A q : q \notin {p, enemy} => MailFor(q) = <<>>
  <2> HIDE DEF msg, lobby
  <2> QED
    BY <1>1, <1>3, AnnouncedMail
<1>7. /\ \A q : ReadyFlag(new, q) = ReadyFlag(lobby, q)
      /\ TargetField(new, p) = shot
      /\ TargetField(new, enemy) = TargetField(lobby, enemy)
      /\ GameStateFor(lobby, p) = "my_turn" /\ GameStateFor(lobby, enemy) = "enemy_turn"
      /\ GameStateFor(new, p) = AfterAnswer(answer, "my_turn", "enemy_turn")
      /\ GameStateFor(new, enemy) = AfterAnswer(answer, "enemy_turn", "my_turn")
      /\ AfterAnswer(answer, "my_turn", "enemy_turn") # "end"
      /\ AfterAnswer(answer, "enemy_turn", "my_turn") # "end"
  <2>1. swap \in BOOLEAN
    OBVIOUS
  <2> HIDE DEF swap, shot, lobby
  <2>2. /\ \A q : ReadyFlag(new, q) = ReadyFlag(lobby, q)
        /\ TargetField(new, p) = shot
        /\ TargetField(new, enemy) = TargetField(lobby, enemy)
        /\ GameStateFor(lobby, p) = "my_turn" /\ GameStateFor(lobby, enemy) = "enemy_turn"
        /\ GameStateFor(new, p) = IF swap THEN "enemy_turn" ELSE "my_turn"
        /\ GameStateFor(new, enemy) = IF swap THEN "my_turn" ELSE "enemy_turn"
    BY <1>1, <1>2, <1>3, <1>4, <2>1, HitLobby
  <2> HIDE DEF new, answer
  <2> QED
    BY <1>1, <2>2 DEF AfterAnswer, swap
<1> HIDE DEF new
<1>8. Served(p, line)
  <2>1. /\ d \in Desks /\ e \in Desks /\ e.life = d.life
        /\ d.state = "session" /\ e.state = "session" /\ e.ready = d.ready
        /\ d.flag = ReadyFlag(lobby, p) /\ e.flag = ReadyFlag(new, p)
        /\ d.game = GameStateFor(lobby, p) /\ e.game = GameStateFor(new, p)
        /\ d.hits = TargetField(lobby, p).ship \cap TargetField(lobby, p).shot
        /\ d.shots = TargetField(lobby, p).shot
        /\ e.hits = TargetField(new, p).ship \cap TargetField(new, p).shot
        /\ e.shots = TargetField(new, p).shot
    BY <1>1, <1>2, SessionDesk
  <2>2. /\ d.game = "my_turn" /\ e.game = AfterAnswer(ShotAnswer(target, c), "my_turn", "enemy_turn")
        /\ e.game # "end" /\ e.flag = d.flag
        /\ d.hits = target.ship \cap target.shot /\ d.shots = target.shot
        /\ e.hits = ShotField(target, c).ship \cap ShotField(target, c).shot
        /\ e.shots = ShotField(target, c).shot
    <3> HIDE DEF d, e
    <3> QED
      BY <1>7, <2>1
  <2> HIDE DEF d, e, target
  <2>3. AnsweredShot(d, msg, e)
    BY <1>1, <1>4, <2>1, <2>2, ShooterDesk
  <2> HIDE DEF msg
  <2>4. Answered(d, line, msg, e)
    BY <2>3 DEF Answered, AnsweredTurns
  <2> QED
    BY <1>5, <1>6, <2>4 DEF Served, d, e
<1>9. ASSUME session[enemy] = "open" PROVE Spoken(enemy)
  <2> DEFINE dd == Desk(enemy)
             ee == Desk(enemy)'
  <2>1. /\ dd \in Desks /\ ee \in Desks /\ ee.life = dd.life
        /\ dd.state = "session" /\ ee.state = "session" /\ ee.ready = dd.ready
        /\ dd.flag = ReadyFlag(lobby, enemy) /\ ee.flag = ReadyFlag(new, enemy)
        /\ dd.game = GameStateFor(lobby, enemy) /\ ee.game = GameStateFor(new, enemy)
        /\ dd.hits = TargetField(lobby, enemy).ship \cap TargetField(lobby, enemy).shot
        /\ dd.shots = TargetField(lobby, enemy).shot
        /\ ee.hits = TargetField(new, enemy).ship \cap TargetField(new, enemy).shot
        /\ ee.shots = TargetField(new, enemy).shot
    BY <1>1, <1>3, <1>9, SessionDesk
  <2>2. /\ dd.game = "enemy_turn" /\ ee.game = AfterAnswer(answer, "enemy_turn", "my_turn")
        /\ ee.game # "end" /\ ee.flag = dd.flag /\ ee.hits = dd.hits /\ ee.shots = dd.shots
    <3> HIDE DEF dd, ee, answer
    <3> QED
      BY <1>7, <2>1
  <2> HIDE DEF dd, ee, answer
  <2>3. Notified(dd, msg, ee)
    BY <1>5, <2>1, <2>2, StruckDesk
  <2> HIDE DEF msg
  <2> QED
    BY <1>5, <1>6, <1>9, <2>3 DEF Spoken, Open, dd, ee
<1>10. ASSUME session[enemy] # "open" PROVE Spoken(enemy)
  <2>1. ~Silent(enemy)
    BY <1>1, <1>2, <1>3, SeatNotSilent DEF HasLobby, LobbyOf
  <2> QED
    BY <1>1, <1>3, <1>10, <2>1 DEF Spoken
<1>11. ASSUME NEW q \in Participants, q \notin {p, enemy} PROVE Undisturbed(q)
  <2>1. Bystander(q)
    BY <1>1, <1>3, <1>11, LobbyBystander
  <2> QED
    BY <1>6, <1>11, <2>1, BystanderKept DEF Undisturbed
<1> HIDE DEF d, e, lobby, msg
<1> QED
  BY <1>8, <1>9, <1>10, <1>11 DEF Handled, Spoken

(* The lobby after the shot that ends the game, as both see it. *)
Won(lobby, p, shot) == ResetReady(EndGame(SetTargetField(lobby, p, shot)))

LEMMA WonLobby ==
    ASSUME NEW lobby \in Lobbies, NEW p \in Participants, NEW enemy \in Participants, enemy # p,
           lobby.p1 = p => lobby.p2 = enemy, lobby.p1 # p => lobby.p1 = enemy /\ lobby.p2 = p,
           lobby.state \in Turns, IsMyTurn(lobby, p), NEW shot \in Fields
    PROVE  /\ \A q : ReadyFlag(Won(lobby, p, shot), q) = FALSE
           /\ \A q : GameStateFor(Won(lobby, p, shot), q) = "end"
           /\ TargetField(Won(lobby, p, shot), p) = shot
           /\ TargetField(Won(lobby, p, shot), enemy) = TargetField(lobby, enemy)
           /\ GameStateFor(lobby, p) = "my_turn" /\ GameStateFor(lobby, enemy) = "enemy_turn"
<1> DEFINE new == Won(lobby, p, shot)
<1>1. CASE lobby.p1 = p
  <2>1. lobby.state = "turn_1" /\ lobby.p2 = enemy
    BY <1>1 DEF IsMyTurn, IsParticipant1, IsParticipant2, Turns
  <2>2. /\ new.p1 = p /\ new.p2 = enemy
        /\ new.field1 = lobby.field1 /\ new.field2 = shot
        /\ new.ready1 = FALSE /\ new.ready2 = FALSE /\ new.state = "end"
    BY <1>1, <2>1 DEF Won, ResetReady, EndGame, SetTargetField, IsParticipant1, Lobbies
  <2> HIDE DEF new
  <2>3. /\ \A q : ReadyFlag(new, q) = FALSE
        /\ \A q : GameStateFor(new, q) = "end"
        /\ TargetField(new, p) = shot /\ TargetField(new, enemy) = TargetField(lobby, enemy)
        /\ GameStateFor(lobby, p) = "my_turn" /\ GameStateFor(lobby, enemy) = "enemy_turn"
    BY <1>1, <2>1, <2>2
    DEF ReadyFlag, TargetField, IsParticipant1, GameStateFor, Mover, Turns
  <2> QED
    BY <2>3 DEF new
<1>2. CASE lobby.p1 # p
  <2>1. lobby.state = "turn_2" /\ lobby.p1 = enemy /\ lobby.p2 = p
    BY <1>2 DEF IsMyTurn, IsParticipant1, IsParticipant2, Turns
  <2>2. /\ new.p1 = enemy /\ new.p2 = p
        /\ new.field2 = lobby.field2 /\ new.field1 = shot
        /\ new.ready1 = FALSE /\ new.ready2 = FALSE /\ new.state = "end"
    BY <1>2, <2>1 DEF Won, ResetReady, EndGame, SetTargetField, IsParticipant1, Lobbies
  <2> HIDE DEF new
  <2>3. /\ \A q : ReadyFlag(new, q) = FALSE
        /\ \A q : GameStateFor(new, q) = "end"
        /\ TargetField(new, p) = shot /\ TargetField(new, enemy) = TargetField(lobby, enemy)
        /\ GameStateFor(lobby, p) = "my_turn" /\ GameStateFor(lobby, enemy) = "enemy_turn"
    BY <1>2, <2>1, <2>2
    DEF ReadyFlag, TargetField, IsParticipant1, GameStateFor, Mover, Turns
  <2> QED
    BY <2>3 DEF new
<1> QED
  BY <1>1, <1>2

(* A desk in the session when the game of the lobby is over. *)
LEMMA WonDesk ==
    ASSUME GamesInv, GamesInv', ~idReused, ~idReused', NEW p \in Participants, HasLobby(p),
           NEW q \in Participants,
           clentData[q].state = "session", clentData[q].lobby = clentData[p].lobby,
           session'[q] = session[q], clentData'[q].state = "session",
           clentData'[q].lobby = clentData[p].lobby, clentData'[q].isReady = FALSE
    PROVE  LET d == Desk(q)
               e == Desk(q)'
               lobby == LobbyOf(p)
               new == lobbies'[clentData[p].lobby]
           IN  /\ d \in Desks /\ e \in Desks /\ e.life = d.life
               /\ d.state = "session" /\ e.state = "session" /\ e.ready = FALSE
               /\ d.game = GameStateFor(lobby, q) /\ e.flag = ReadyFlag(new, q)
               /\ e.game = GameStateFor(new, q)
               /\ d.hits = TargetField(lobby, q).ship \cap TargetField(lobby, q).shot
               /\ d.shots = TargetField(lobby, q).shot
               /\ e.hits = TargetField(new, q).ship \cap TargetField(new, q).shot
               /\ e.shots = TargetField(new, q).shot
<1> DEFINE new == lobbies'[clentData[p].lobby]
<1>1. LobbyOf(q) = LobbyOf(p)
  BY DEF LobbyOf
<1>2. lobbies'[clentData'[q].lobby] = new
  OBVIOUS
<1>3. Desk(q) \in Desks /\ Desk(q)' \in Desks
  BY DeskType, DeskTypeNext
<1>4. /\ Desk(q)'.life = session'[q] /\ Desk(q)'.state = clentData'[q].state
      /\ Desk(q)'.ready = clentData'[q].isReady
      /\ Desk(q)'.flag = ReadyFlag(new, q) /\ Desk(q)'.game = GameStateFor(new, q)
      /\ Desk(q)'.hits = TargetField(new, q).ship \cap TargetField(new, q).shot
      /\ Desk(q)'.shots = TargetField(new, q).shot
  <2> DEFINE e == Desk(q)'
             at == lobbies'[clentData'[q].lobby]
  <2>1. /\ e.life = session'[q] /\ e.state = clentData'[q].state
        /\ e.ready = clentData'[q].isReady
        /\ e.flag = ReadyFlag(at, q) /\ e.game = GameStateFor(at, q)
        /\ e.hits = TargetField(at, q).ship \cap TargetField(at, q).shot
        /\ e.shots = TargetField(at, q).shot
    BY DeskPartsNext
  <2>2. at = new
    BY <1>2
  <2> HIDE DEF e, at
  <2>3. /\ e.life = session'[q] /\ e.state = clentData'[q].state
        /\ e.ready = clentData'[q].isReady
        /\ e.flag = ReadyFlag(new, q) /\ e.game = GameStateFor(new, q)
        /\ e.hits = TargetField(new, q).ship \cap TargetField(new, q).shot
        /\ e.shots = TargetField(new, q).shot
    BY <2>1, <2>2
  <2> QED
    BY <2>3 DEF e
<1>5. /\ Desk(q).life = session[q] /\ Desk(q).state = clentData[q].state
      /\ Desk(q).game = GameStateFor(LobbyOf(p), q)
      /\ Desk(q).hits = TargetField(LobbyOf(p), q).ship \cap TargetField(LobbyOf(p), q).shot
      /\ Desk(q).shots = TargetField(LobbyOf(p), q).shot
  BY <1>1, DeskParts
<1> QED
  BY <1>3, <1>4, <1>5

LEMMA WinHandled ==
    ASSUME GamesInv, GamesInv', FieldsSound, ~idReused, ~idReused', NEW p \in Participants,
           NEW line, NEW c \in Cells, Win(p, c)
    PROVE  Handled(p, line)
<1> DEFINE lobby == LobbyOf(p)
           target == TargetField(lobby, p)
           shot == ShotField(target, c)
           new == Won(lobby, p, shot)
           theirs == clentData[GetEnemy(lobby, p)].lobby
           msg == Answer("g", c)
<1>1. /\ Playing(p, Turns) /\ HasLobby(p) /\ UNCHANGED session
      /\ IsMyTurn(lobby, p) /\ c \notin target.shot /\ ShotAnswer(target, c) = "g"
  BY DEF Win, Playing
<1>2. /\ session[p] = "open" /\ clentData[p].state = "session" /\ lobby \in Lobbies
      /\ lobby.state \in Turns /\ lobby.state # "end"
  BY <1>1, PlayingKept DEF Turns
<1>3. PICK enemy \in Participants :
          /\ enemy = GetEnemy(lobby, p)
          /\ enemy # p /\ {lobby.p1, lobby.p2} = {p, enemy} /\ SeatsOf(lobby) = {p, enemy}
          /\ lobby.p1 = p => lobby.p2 = enemy
          /\ lobby.p1 # p => lobby.p1 = enemy /\ lobby.p2 = p
          /\ session[enemy] # "fresh"
          /\ session[enemy] = "open" =>
                clentData[enemy].state = "session" /\ clentData[enemy].lobby = clentData[p].lobby
  BY <1>1, <1>2, TwoSeats
<1>4. CASE theirs \notin DOMAIN lobbies
  <2>1. sent' = <<>> /\ UNCHANGED <<lobbies, clentData, session>>
    BY <1>4 DEF Win
  <2>2. Aside(p)
    BY <2>1, QuietAside
  <2>3. InTurns(Desk(p)) /\ Desk(p)' = Desk(p)
    BY <1>1, <2>1, TurnsAtDesk, SameStateDesk
  <2>4. Recorded(Desk(p), line, Desk(p)')
    BY <2>3 DEF Recorded
  <2> QED
    BY <2>1, <2>2, <2>4, UnansweredHandled
<1>5. CASE theirs \in DOMAIN lobbies
  <2>1. session[enemy] = "open" /\ theirs = clentData[p].lobby
    <3>1. theirs = clentData[enemy].lobby
      BY <1>3
    <3>2. ASSUME session[enemy] # "open" PROVE FALSE
      <4>1. theirs = NoLobby
        BY <3>1, <3>2, NotOpenForgotten DEF GamesInv, SharedClient
      <4>2. DOMAIN lobbies \subseteq Ids
        BY DEF GamesInv, SeatInv, TypeInv, TypeOK
      <4> QED
        BY <1>5, <4>1, <4>2, ServerAssumption
    <3> QED
      BY <1>3, <3>1, <3>2
  <2>2. /\ lobbies' = [id \in DOMAIN lobbies |->
                         IF id = clentData[p].lobby THEN new
                         ELSE IF id = theirs THEN EndGame(lobbies[id])
                         ELSE lobbies[id]]
        /\ clentData' = [clentData EXCEPT ![p].isReady = FALSE, ![enemy].isReady = FALSE]
        /\ Announce(msg, lobby)
    BY <1>3, <1>5 DEF Win, Won
  <2>3. /\ lobbies'[clentData[p].lobby] = new
        /\ \A id \in DOMAIN lobbies : id # clentData[p].lobby => lobbies'[id] = lobbies[id]
    <3> HIDE DEF new
    <3> QED
      BY <1>1, <2>1, <2>2 DEF HasLobby
  <2>4. /\ clentData'[p].state = "session" /\ clentData'[p].lobby = clentData[p].lobby
        /\ clentData'[p].isReady = FALSE
        /\ clentData'[enemy].state = "session" /\ clentData'[enemy].lobby = clentData[p].lobby
        /\ clentData'[enemy].isReady = FALSE
        /\ \A q \in Participants : q \notin {p, enemy} => clentData'[q] = clentData[q]
    <3>1. clentData \in [Seats -> Clients]
      BY DEF GamesInv, SeatInv, TypeInv, TypeOK
    <3> QED
      BY <1>2, <1>3, <2>1, <2>2, <3>1 DEF Seats, Clients
  <2>5. target \in Fields /\ FieldSound(target) /\ shot \in Fields
    <3>1. LobbySound(lobby)
      BY <1>1 DEF HasLobby, LobbyOf, FieldsSound
    <3>2. target \in Fields
      BY <1>2, FieldOfType
    <3>3. FieldSound(target)
      BY <3>1 DEF LobbySound, TargetField
    <3> HIDE DEF target
    <3> QED
      BY <3>2, <3>3, ShotFieldType
  <2>6. msg \in Said /\ "g" \in ShotAnswers /\ msg = Answer(ShotAnswer(target, c), c)
    BY <1>1, AnswerSaid DEF ShotAnswers, Letters
  <2>7. /\ MailFor(p) = <<msg>> /\ MailFor(enemy) = <<msg>>
        /\ \A q : q \notin {p, enemy} => MailFor(q) = <<>>
    <3> HIDE DEF msg, lobby
    <3> QED
      BY <1>3, <2>2, AnnouncedMail
  <2>8. /\ \A q : ReadyFlag(new, q) = FALSE
        /\ \A q : GameStateFor(new, q) = "end"
        /\ TargetField(new, p) = shot
        /\ TargetField(new, enemy) = TargetField(lobby, enemy)
        /\ GameStateFor(lobby, p) = "my_turn" /\ GameStateFor(lobby, enemy) = "enemy_turn"
    <3>1. /\ lobby \in Lobbies /\ enemy \in Participants /\ enemy # p
          /\ lobby.p1 = p => lobby.p2 = enemy
          /\ lobby.p1 # p => lobby.p1 = enemy /\ lobby.p2 = p
          /\ lobby.state \in Turns /\ IsMyTurn(lobby, p) /\ shot \in Fields
      BY <1>1, <1>2, <1>3, <2>5
    <3> HIDE DEF shot, lobby
    <3> QED
      BY <3>1, WonLobby
  <2> HIDE DEF new
  <2>9. Served(p, line)
    <3> DEFINE d == Desk(p)
               e == Desk(p)'
    <3>1. /\ d \in Desks /\ e \in Desks /\ e.life = d.life
          /\ d.state = "session" /\ e.state = "session" /\ e.ready = FALSE
          /\ d.game = GameStateFor(lobby, p) /\ e.flag = ReadyFlag(new, p)
          /\ e.game = GameStateFor(new, p)
          /\ d.hits = TargetField(lobby, p).ship \cap TargetField(lobby, p).shot
          /\ d.shots = TargetField(lobby, p).shot
          /\ e.hits = TargetField(new, p).ship \cap TargetField(new, p).shot
          /\ e.shots = TargetField(new, p).shot
      <4>1. /\ HasLobby(p) /\ lobbies'[clentData[p].lobby] = new
            /\ clentData[p].state = "session" /\ clentData[p].lobby = clentData[p].lobby
            /\ session'[p] = session[p] /\ clentData'[p].state = "session"
            /\ clentData'[p].lobby = clentData[p].lobby /\ clentData'[p].isReady = FALSE
        BY <1>1, <1>2, <2>3, <2>4
      <4> DEFINE at == lobbies'[clentData[p].lobby]
      <4>2. /\ d \in Desks /\ e \in Desks /\ e.life = d.life
            /\ d.state = "session" /\ e.state = "session" /\ e.ready = FALSE
            /\ d.game = GameStateFor(lobby, p) /\ e.flag = ReadyFlag(at, p)
            /\ e.game = GameStateFor(at, p)
            /\ d.hits = TargetField(lobby, p).ship \cap TargetField(lobby, p).shot
            /\ d.shots = TargetField(lobby, p).shot
            /\ e.hits = TargetField(at, p).ship \cap TargetField(at, p).shot
            /\ e.shots = TargetField(at, p).shot
        BY <4>1, WonDesk
      <4>3. at = new
        BY <4>1
      <4> HIDE DEF d, e, at
      <4> QED
        BY <4>2, <4>3
    <3>2. /\ d.game = "my_turn" /\ e.game = AfterAnswer(ShotAnswer(target, c), "my_turn", "enemy_turn")
          /\ e.game = "end" /\ e.flag = FALSE
          /\ d.hits = target.ship \cap target.shot /\ d.shots = target.shot
          /\ e.hits = ShotField(target, c).ship \cap ShotField(target, c).shot
          /\ e.shots = ShotField(target, c).shot
      <4>1. AfterAnswer(ShotAnswer(target, c), "my_turn", "enemy_turn") = "end"
        BY <1>1 DEF AfterAnswer
      <4> HIDE DEF d, e
      <4> QED
        BY <2>8, <3>1, <4>1
    <3> HIDE DEF d, e, target
    <3>3. AnsweredShot(d, msg, e)
      BY <1>1, <2>5, <2>6, <3>1, <3>2, ShooterDesk
    <3> HIDE DEF msg
    <3>4. Answered(d, line, msg, e)
      BY <3>3 DEF Answered, AnsweredTurns
    <3> QED
      BY <2>6, <2>7, <3>4 DEF Served, d, e
  <2>10. Spoken(enemy)
    <3> DEFINE d == Desk(enemy)
               e == Desk(enemy)'
    <3>1. /\ d \in Desks /\ e \in Desks /\ e.life = d.life
          /\ d.state = "session" /\ e.state = "session" /\ e.ready = FALSE
          /\ d.game = GameStateFor(lobby, enemy) /\ e.flag = ReadyFlag(new, enemy)
          /\ e.game = GameStateFor(new, enemy)
          /\ d.hits = TargetField(lobby, enemy).ship \cap TargetField(lobby, enemy).shot
          /\ d.shots = TargetField(lobby, enemy).shot
          /\ e.hits = TargetField(new, enemy).ship \cap TargetField(new, enemy).shot
          /\ e.shots = TargetField(new, enemy).shot
      <4>1. /\ HasLobby(p) /\ lobbies'[clentData[p].lobby] = new
            /\ clentData[enemy].state = "session" /\ clentData[enemy].lobby = clentData[p].lobby
            /\ session'[enemy] = session[enemy] /\ clentData'[enemy].state = "session"
            /\ clentData'[enemy].lobby = clentData[p].lobby /\ clentData'[enemy].isReady = FALSE
        BY <1>1, <1>3, <2>1, <2>3, <2>4
      <4> DEFINE at == lobbies'[clentData[p].lobby]
      <4>2. /\ d \in Desks /\ e \in Desks /\ e.life = d.life
            /\ d.state = "session" /\ e.state = "session" /\ e.ready = FALSE
            /\ d.game = GameStateFor(lobby, enemy) /\ e.flag = ReadyFlag(at, enemy)
            /\ e.game = GameStateFor(at, enemy)
            /\ d.hits = TargetField(lobby, enemy).ship \cap TargetField(lobby, enemy).shot
            /\ d.shots = TargetField(lobby, enemy).shot
            /\ e.hits = TargetField(at, enemy).ship \cap TargetField(at, enemy).shot
            /\ e.shots = TargetField(at, enemy).shot
        BY <4>1, WonDesk
      <4>3. at = new
        BY <4>1
      <4> HIDE DEF d, e, at
      <4> QED
        BY <4>2, <4>3
    <3>2. /\ d.game = "enemy_turn" /\ e.game = AfterAnswer("g", "enemy_turn", "my_turn")
          /\ e.game = "end" /\ e.flag = FALSE /\ e.hits = d.hits /\ e.shots = d.shots
      <4>1. AfterAnswer("g", "enemy_turn", "my_turn") = "end"
        BY DEF AfterAnswer
      <4> HIDE DEF d, e
      <4> QED
        BY <2>8, <3>1, <4>1
    <3> HIDE DEF d, e
    <3>3. Notified(d, msg, e)
      BY <2>6, <3>1, <3>2, StruckDesk
    <3> HIDE DEF msg
    <3> QED
      BY <2>1, <2>6, <2>7, <3>3 DEF Spoken, Open, d, e
  <2>11. ASSUME NEW q \in Participants, q \notin {p, enemy} PROVE Undisturbed(q)
    <3>1. Bystander(q)
      <4>1. session'[q] = session[q] /\ clentData'[q] = clentData[q]
        BY <1>1, <2>4, <2>11
      <4>2. ASSUME session[q] = "open", clentData[q].state = "session"
            PROVE  lobbies'[clentData'[q].lobby] = LobbyOf(q)
        <5>1. clentData[q].lobby \in DOMAIN lobbies /\ q \in SeatsOf(LobbyOf(q))
          BY <4>2, OtherSits
        <5>2. clentData[q].lobby # clentData[p].lobby
          BY <1>3, <2>11, <5>1 DEF LobbyOf
        <5> QED
          BY <2>3, <4>1, <5>1, <5>2 DEF LobbyOf
      <4> QED
        BY <4>1, <4>2 DEF Bystander
    <3> QED
      BY <2>7, <2>11, <3>1, BystanderKept DEF Undisturbed
  <2> HIDE DEF lobby, msg
  <2> QED
    BY <2>9, <2>10, <2>11 DEF Handled, Spoken
<1> QED
  BY <1>4, <1>5

LEMMA ContinueHandled ==
    ASSUME GamesInv, GamesInv', ~idReused, ~idReused', NEW p \in Participants, NEW line,
           Continue(p)
    PROVE  Handled(p, line)
<1> DEFINE lobby == LobbyOf(p)
           enemy == GetEnemy(lobby, p)
           new == [lobby EXCEPT !.state = "preparation"]
           d == Desk(p)
           e == Desk(p)'
<1>1. /\ session[p] = "open" /\ clentData[p].state = "session" /\ HasLobby(p)
      /\ lobby.state = "end" /\ UNCHANGED session
      /\ Reply("continue", p)
  BY PlayingKept DEF Continue, Playing
<1>2. TypeOK
  BY DEF GamesInv, SeatInv, TypeInv
<1>3. p \in SeatsOf(lobby) /\ lobby \in Lobbies
  BY <1>1, OtherSits
<1>4. enemy \in Seats
  BY <1>3 DEF GetEnemy, Lobbies
<1>5. /\ clentData'[p].state = "lobby" /\ clentData'[p].isReady = FALSE
      /\ \A q \in Participants : q # p => clentData'[q] = clentData[q]
  BY <1>2 DEF Continue, TypeOK, Seats, Clients
<1>6. \/ lobbies' = lobbies
      \/ lobbies' = SetLobby(p, new)
         /\ [clentData EXCEPT ![p].state = "lobby"][enemy].state = "lobby"
  BY DEF Continue
<1>7. Aside(p)
  <2> SUFFICES ASSUME NEW q \in Participants, q # p, session[q] = "open",
                      clentData[q].state = "session"
               PROVE  lobbies'[clentData[q].lobby] = LobbyOf(q)
    BY <1>1, <1>5 DEF Aside, Bystander
  <2>1. /\ clentData[q].lobby \in DOMAIN lobbies /\ q \in SeatsOf(LobbyOf(q))
        /\ LobbyOf(q) = lobbies[clentData[q].lobby]
    BY OtherSits
  <2>2. CASE lobbies' = lobbies
    BY <2>1, <2>2
  <2>3. CASE /\ lobbies' = SetLobby(p, new)
             /\ [clentData EXCEPT ![p].state = "lobby"][enemy].state = "lobby"
    <3>1. clentData[q].lobby # clentData[p].lobby
      <4> SUFFICES ASSUME clentData[q].lobby = clentData[p].lobby PROVE FALSE
        OBVIOUS
      <4>1. q \in SeatsOf(lobby)
        BY <2>1 DEF LobbyOf
      <4>2. enemy = q
        BY <1>3, <4>1 DEF GetEnemy, SeatsOf
      <4> HIDE DEF enemy
      <4> QED
        BY <1>2, <2>3, <4>2 DEF TypeOK, Seats, Clients
    <3> HIDE DEF new
    <3> QED
      BY <1>1, <2>1, <2>3, <3>1 DEF SetLobby, HasLobby
  <2> QED
    BY <1>6, <2>2, <2>3
<1>8. d \in Desks /\ e \in Desks
  BY DeskType, DeskTypeNext
<1>9. /\ d.state = "session" /\ d.game = "end" /\ d.life = "open"
  <2>1. GameStateFor(lobby, p) = "end"
    BY <1>1 DEF GameStateFor, Turns
  <2> QED
    BY <1>1, <2>1, DeskParts
<1>10. e = Left(d)
  <2>1. /\ e.life = d.life /\ e.state = "lobby" /\ e.ready = FALSE /\ ~e.flag
        /\ e.game = "preparation" /\ e.hits = {} /\ e.shots = {}
    BY <1>1, <1>5, DeskParts, DeskPartsNext
  <2> HIDE DEF d, e
  <2>2. Left(d) \in Desks
    BY <1>8 DEF Left, Desks, ClientStates
  <2>3. e.flag = FALSE
    BY <1>8, <2>1 DEF Desks
  <2>4. /\ Left(d).life = d.life /\ Left(d).state = "lobby" /\ Left(d).ready = FALSE
        /\ Left(d).flag = FALSE /\ Left(d).game = "preparation"
        /\ Left(d).hits = {} /\ Left(d).shots = {}
    BY <1>8 DEF Left, Desks
  <2> QED
    BY <1>8, <2>1, <2>2, <2>3, <2>4, SameDesk
<1>11. Answered(d, line, Say("continue"), e)
  <2> HIDE DEF d, e
  <2> QED
    BY <1>9, <1>10 DEF Answered, AnsweredEnd
<1>12. "continue" \in Letters \ ShotAnswers
  BY SpokenLetters
<1> HIDE DEF lobby, enemy, new
<1> QED
  BY <1>1, <1>7, <1>11, <1>12, ReplyHandled

(* Whatever a line makes the server do: the handler tells the players what
   happens to their desks, unless the player to move sends what is no shot (Rebroadcast). *)
LEMMA ConnectedHandled ==
    ASSUME GamesInv, GamesInv', ~idReused, ~idReused', NEW p \in Participants, NEW line,
           ObeyConnected(p, line)
    PROVE  Handled(p, line)
<1>1. CASE Create(p)
  BY <1>1, CreateHandled
<1>2. CASE Join(p)
  <2>1. PICK id \in FreeLobbies : Enter(p, id, "j")
    BY <1>2 DEF Join
  <2>2. Handling(p, "connected")
    BY <1>2 DEF Join
  <2> QED
    BY <2>1, <2>2, EnterHandled
<1>3. CASE ConnectTo(p, line.id)
  <2>1. Handling(p, "connected") /\ line.id \in FreeLobbies /\ Enter(p, line.id, "i")
    BY <1>3 DEF ConnectTo
  <2> QED
    BY <2>1, EnterHandled
<1>4. CASE Refuse(p) \/ List(p)
  BY <1>4, RefuseHandled
<1>5. CASE QuitConnected(p)
  BY <1>5, QuitConnectedHandled
<1> QED
  BY <1>1, <1>2, <1>3, <1>4, <1>5 DEF ObeyConnected

LEMMA LobbyHandled ==
    ASSUME GamesInv, GamesInv', RestedAtEnd, ~idReused, ~idReused', NEW p \in Participants,
           NEW line, ObeyLobby(p, line)
    PROVE  Handled(p, line)
<1>1. CASE ReadyInLobby(p)
  BY <1>1, ReadyAloneHandled, ReadyBothHandled
<1>2. CASE Unready(p)
  BY <1>2, UnreadyHandled
<1>3. CASE Leave(p)
  BY <1>3, LeaveHandled
<1>4. CASE QuitLobby(p)
  BY <1>4, QuitLobbyHandled
<1> QED
  BY <1>1, <1>2, <1>3, <1>4 DEF ObeyLobby

LEMMA SessionHandled ==
    ASSUME GamesInv, GamesInv', FieldsSound, ~idReused, ~idReused', NEW p \in Participants,
           NEW line \in Lines, ObeySession(p, line), InTurns(Desk(p)) => IsShot(line)
    PROVE  Handled(p, line)
<1>1. CASE IsPlacement(line) /\ PlaceShip(p, line.ship)
  <2>1. line.ship \in Placements /\ line.word # "ready"
    BY <1>1, SystemAssumption DEF IsPlacement
  <2> QED
    BY <1>1, <2>1, PlaceShipHandled
<1>2. CASE line.word = "ready" /\ ReadyToPlay(p)
  BY <1>2, ReadyFirstHandled, ReadySecondHandled
<1>3. CASE IsShot(line) /\ (RepeatShot(p, line.cell) \/ Shoot(p, line.cell) \/ Win(p, line.cell))
  <2>1. CASE RepeatShot(p, line.cell)
    <3>1. line.cell \in Cells
      BY <1>3, SystemAssumption DEF IsShot
    <3> QED
      BY <2>1, <3>1, WrongTurnHandled
  <2>2. line.cell \in Cells
    BY <1>3, SystemAssumption DEF IsShot
  <2>3. CASE Shoot(p, line.cell)
    BY <2>2, <2>3, ShootHandled
  <2>4. CASE Win(p, line.cell)
    BY <2>2, <2>4, WinHandled
  <2> QED
    BY <1>3, <2>1, <2>3, <2>4
<1>4. CASE WrongTurn(p)
  BY <1>4, WrongTurnHandled
<1>5. CASE ~IsShot(line) /\ Rebroadcast(p)
  BY <1>5, TurnsAtDesk DEF Rebroadcast
<1>6. CASE Continue(p)
  BY <1>6, ContinueHandled
<1>7. CASE /\ Handling(p, "session") /\ HasLobby(p)
           /\ LobbyOf(p).state = "preparation" => ~IsPlacement(line) /\ line.word # "ready"
           /\ LobbyOf(p).state = "end" => line.word # "continue"
           /\ Unexpected(p)
  BY <1>7, UnexpectedHandled
<1> QED
  BY <1>1, <1>2, <1>3, <1>4, <1>5, <1>6, <1>7 DEF ObeySession

LEMMA ObeyHandled ==
    ASSUME GamesInv, GamesInv', FieldsSound, RestedAtEnd, ~idReused, ~idReused',
           NEW p \in Participants, NEW line \in Lines, Obey(p, line),
           InTurns(Desk(p)) => IsShot(line)
    PROVE  Handled(p, line)
BY ConnectedHandled, LobbyHandled, SessionHandled, NoDeadLobby DEF Obey

-----------------------------------------------------------------------------
(* Two messages sent one after the other are the two sent together. *)
LEMMA SentTwo ==
    ASSUME NEW S, NEW q \in Seq(S), NEW m \in S, NEW n \in S
    PROVE  (q \o <<m>>) \o <<n>> = q \o <<m, n>>
<1> DEFINE a == (q \o <<m>>) \o <<n>>
           b == q \o <<m, n>>
<1>1. <<m>> \in Seq(S) /\ <<n>> \in Seq(S) /\ <<m, n>> \in Seq(S)
  OBVIOUS
<1>2. /\ Len(<<m>>) = 1 /\ Len(<<n>>) = 1 /\ Len(<<m, n>>) = 2
      /\ <<m>>[1] = m /\ <<n>>[1] = n /\ <<m, n>>[1] = m /\ <<m, n>>[2] = n
  OBVIOUS
<1>3. /\ q \o <<m>> \in Seq(S) /\ Len(q \o <<m>>) = Len(q) + 1
      /\ \A i \in 1 .. Len(q) + 1 : (q \o <<m>>)[i] = IF i <= Len(q) THEN q[i] ELSE <<m>>[i - Len(q)]
  BY <1>1, <1>2, ConcatProperties
<1>4. /\ a \in Seq(S) /\ Len(a) = Len(q) + 2
      /\ \A i \in 1 .. Len(q) + 2 :
             a[i] = IF i <= Len(q) + 1 THEN (q \o <<m>>)[i] ELSE <<n>>[i - (Len(q) + 1)]
  <2>1. Len(q) \in Nat
    BY LenProperties
  <2>2. /\ a \in Seq(S) /\ Len(a) = Len(q \o <<m>>) + Len(<<n>>)
        /\ \A i \in 1 .. Len(q \o <<m>>) + Len(<<n>>) :
               a[i] = IF i <= Len(q \o <<m>>) THEN (q \o <<m>>)[i]
                      ELSE <<n>>[i - Len(q \o <<m>>)]
    BY <1>1, <1>3, ConcatProperties
  <2>3. Len(q \o <<m>>) + Len(<<n>>) = Len(q) + 2 /\ Len(q \o <<m>>) = Len(q) + 1
    BY <1>2, <1>3, <2>1
  <2> HIDE DEF a
  <2> QED
    BY <2>2, <2>3
<1>5. /\ b \in Seq(S) /\ Len(b) = Len(q) + 2
      /\ \A i \in 1 .. Len(q) + 2 : b[i] = IF i <= Len(q) THEN q[i] ELSE <<m, n>>[i - Len(q)]
  BY <1>1, <1>2, ConcatProperties
<1>6. Len(q) \in Nat
  BY LenProperties
<1> HIDE DEF a, b
<1>7. ASSUME NEW i \in 1 .. Len(a) PROVE a[i] = b[i]
  <2>1. CASE i <= Len(q)
    BY <1>3, <1>4, <1>5, <1>6, <2>1
  <2>2. CASE i = Len(q) + 1
    <3>1. a[i] = (q \o <<m>>)[i] /\ b[i] = <<m, n>>[i - Len(q)] /\ i - Len(q) = 1
      BY <1>4, <1>5, <1>6, <2>2
    <3>2. (q \o <<m>>)[i] = <<m>>[i - Len(q)]
      BY <1>3, <1>6, <2>2
    <3> QED
      BY <1>2, <3>1, <3>2
  <2>3. CASE i = Len(q) + 2
    <3>1. /\ a[i] = <<n>>[i - (Len(q) + 1)] /\ b[i] = <<m, n>>[i - Len(q)]
          /\ i - Len(q) = 2 /\ i - (Len(q) + 1) = 1
      BY <1>4, <1>5, <1>6, <2>3
    <3> QED
      BY <1>2, <3>1
  <2>4. i = Len(q) + 2 \/ i = Len(q) + 1 \/ i <= Len(q)
    BY <1>4, <1>6
  <2> QED
    BY <2>1, <2>2, <2>3, <2>4
<1>8. a = b
  BY <1>4, <1>5, <1>7, SeqEqual
<1> QED
  BY <1>8 DEF a, b

(* A handler's messages reach the player's channel while his client runs. *)
Grown(c, tc, mail) == IF c.program = "running" THEN tc \o mail ELSE tc

LEMMA ServedFits ==
    ASSUME NEW p \in Participants, session[p] = "open", Desk(p)' \in Desks,
           NEW c, NEW pr, NEW ts, NEW tc, Player(c, pr, ts, tc, Desk(p)), ts # <<>>,
           Served(p, Head(ts))
    PROVE  Player(c, pr, Tail(ts), Grown(c, tc, MailFor(p)), Desk(p)')
<1> DEFINE d == Desk(p)
           e == Desk(p)'
           line == Head(ts)
<1>1. d.life = "open" /\ tc \in Seq(Said) /\ e \in Desks /\ Player(c, pr, ts, tc, d)
  BY DeskParts DEF Player
<1>2. \/ MailFor(p) = <<>> /\ Recorded(d, line, e)
      \/ \E msg \in Said : MailFor(p) = <<msg>> /\ Answered(d, line, msg, e)
      \/ \E msg \in Said, mid \in Desks :
             /\ MailFor(p) = <<msg>> /\ mid.life = "open"
             /\ Recorded(d, line, mid) /\ Notified(mid, msg, e)
      \/ \E msg \in Said, told \in Said, mid \in Desks :
             /\ MailFor(p) = <<msg, told>> /\ mid.life = "open"
             /\ Answered(d, line, msg, mid) /\ Notified(mid, told, e)
  BY DEF Served
<1> HIDE DEF d, e
<1>3. CASE MailFor(p) = <<>> /\ Recorded(d, line, e)
  <2>1. Player(c, pr, Tail(ts), tc, e)
    BY <1>1, <1>3, RecordedFits
  <2>2. Grown(c, tc, MailFor(p)) = tc
    BY <1>1, <1>3, ConcatEmptySeq DEF Grown
  <2> QED
    BY <2>1, <2>2 DEF e
<1>4. ASSUME NEW msg \in Said, MailFor(p) = <<msg>>, Answered(d, line, msg, e)
      PROVE  Player(c, pr, Tail(ts), Grown(c, tc, MailFor(p)), e)
  <2>1. Player(c, pr, Tail(ts), Sent(c, tc, msg), e)
    BY <1>1, <1>4, AnsweredFits
  <2> QED
    BY <1>4, <2>1 DEF Grown, Sent
<1>5. ASSUME NEW msg \in Said, NEW mid \in Desks, MailFor(p) = <<msg>>, mid.life = "open",
             Recorded(d, line, mid), Notified(mid, msg, e)
      PROVE  Player(c, pr, Tail(ts), Grown(c, tc, MailFor(p)), e)
  <2>1. Player(c, pr, Tail(ts), tc, mid)
    BY <1>1, <1>5, RecordedFits
  <2>2. Player(c, pr, Tail(ts), Sent(c, tc, msg), e)
    BY <1>5, <2>1, NotifiedFits
  <2> QED
    BY <1>5, <2>2 DEF Grown, Sent
<1>6. ASSUME NEW msg \in Said, NEW told \in Said, NEW mid \in Desks,
             MailFor(p) = <<msg, told>>, mid.life = "open",
             Answered(d, line, msg, mid), Notified(mid, told, e)
      PROVE  Player(c, pr, Tail(ts), Grown(c, tc, MailFor(p)), e)
  <2>1. Player(c, pr, Tail(ts), Sent(c, tc, msg), mid)
    BY <1>1, <1>6, AnsweredFits
  <2>2. Player(c, pr, Tail(ts), Sent(c, Sent(c, tc, msg), told), e)
    <3> DEFINE now == Sent(c, tc, msg)
               rest == Tail(ts)
    <3>1. Player(c, pr, rest, now, mid)
      BY <2>1
    <3>2. mid.life = "open" /\ told \in Said /\ Notified(mid, told, e)
      BY <1>6
    <3> HIDE DEF now, rest
    <3>3. Player(c, pr, rest, Sent(c, now, told), e)
      BY <3>1, <3>2, NotifiedFits
    <3> QED
      BY <3>3 DEF now, rest
  <2>3. Sent(c, Sent(c, tc, msg), told) = Grown(c, tc, MailFor(p))
    <3>1. (tc \o <<msg>>) \o <<told>> = tc \o <<msg, told>>
      BY <1>1, <1>6, SentTwo
    <3> QED
      BY <1>6, <3>1, Zenon DEF Sent, Grown
  <2> QED
    BY <2>2, <2>3
<1>7. Player(c, pr, Tail(ts), Grown(c, tc, MailFor(p)), e)
  BY <1>2, <1>3, <1>4, <1>5, <1>6 DEF e
<1> QED
  BY <1>7 DEF e

LEMMA SpokenFits ==
    ASSUME NEW q \in Participants, Desk(q)' \in Desks,
           NEW c, NEW pr, NEW ts, NEW tc, Player(c, pr, ts, tc, Desk(q)),
           c.program = "running" /\ ~Open(q) => Silent(q), Spoken(q)
    PROVE  Player(c, pr, ts, Grown(c, tc, MailFor(q)), Desk(q)')
<1> DEFINE d == Desk(q)
           e == Desk(q)'
<1>1. tc \in Seq(Said) /\ e \in Desks /\ Player(c, pr, ts, tc, d) /\ d.life = session[q]
  BY DeskParts DEF Player
<1>2. CASE Undisturbed(q)
  <2>1. MailFor(q) = <<>> /\ e = d
    BY <1>2 DEF Undisturbed
  <2>2. Grown(c, tc, MailFor(q)) = tc
    BY <1>1, <2>1, ConcatEmptySeq DEF Grown
  <2> HIDE DEF d, e
  <2>3. Player(c, pr, ts, Grown(c, tc, MailFor(q)), e)
    BY <1>1, <2>1, <2>2
  <2> QED
    BY <2>3 DEF e
<1>3. CASE /\ Open(q)
           /\ \E msg \in Said : MailFor(q) = <<msg>> /\ Notified(d, msg, e)
  <2>1. PICK msg \in Said : MailFor(q) = <<msg>> /\ Notified(d, msg, e)
    BY <1>3
  <2>2. d.life = "open"
    BY <1>1, <1>3 DEF Open
  <2> HIDE DEF d, e
  <2>3. Player(c, pr, ts, Sent(c, tc, msg), e)
    BY <1>1, <2>1, <2>2, NotifiedFits
  <2>4. Player(c, pr, ts, Grown(c, tc, MailFor(q)), e)
    BY <2>1, <2>3 DEF Grown, Sent
  <2> QED
    BY <2>4 DEF e
<1>4. CASE session[q] \notin {"fresh", "open"} /\ session'[q] = session[q] /\ ~Silent(q)
  <2>1. c.program # "running" /\ d.life \notin {"fresh", "open"}
    BY <1>1, <1>4 DEF Open
  <2>2. e.life = d.life
    BY <1>4, DeskParts, DeskPartsNext
  <2> HIDE DEF d, e
  <2>3. Good(c, pr, ts, tc, e)
    BY <1>1, <2>1, <2>2 DEF Player, Good
  <2>4. Player(c, pr, ts, Grown(c, tc, MailFor(q)), e)
    BY <1>1, <2>1, <2>3 DEF Player, Grown
  <2> QED
    BY <2>4 DEF e
<1> QED
  BY <1>2, <1>3, <1>4 DEF Spoken

(* A seat whose player is gone stays silent: nobody can say for him that he is ready. *)
LEMMA OthersSilent ==
    ASSUME NEW q, Silent(q), NEW id,
           \A i \in DOMAIN lobbies' : i # id => i \in DOMAIN lobbies /\ lobbies'[i] = lobbies[i],
           id \in DOMAIN lobbies' => Silenced(lobbies'[id], q)
    PROVE  Silent(q)'
BY DEF Silent

LEMMA SetSilent ==
    ASSUME TypeOK, NEW q, Silent(q), NEW p, HasLobby(p), NEW new,
           lobbies' = SetLobby(p, new), Silenced(LobbyOf(p), q) => Silenced(new, q)
    PROVE  Silent(q)'
<1>1. /\ DOMAIN lobbies' = DOMAIN lobbies /\ lobbies'[clentData[p].lobby] = new
      /\ \A i \in DOMAIN lobbies : i # clentData[p].lobby => lobbies'[i] = lobbies[i]
  BY DEF SetLobby, TypeOK, HasLobby
<1>2. Silenced(LobbyOf(p), q)
  BY DEF Silent, HasLobby, LobbyOf
<1> QED
  BY <1>1, <1>2, OthersSilent

LEMMA SameSilent ==
    ASSUME NEW q, Silent(q), UNCHANGED lobbies
    PROVE  Silent(q)'
BY DEF Silent

LEMMA AddedSilent ==
    ASSUME NEW lobby \in Lobbies, NEW p \in Participants, NEW q \in Participants, q # p,
           Silenced(lobby, q)
    PROVE  Silenced(AddParticipant(lobby, p), q)
BY ServerAssumption
DEF Silenced, AddParticipant, SeatsOf, ReadyFlag, IsParticipant1, Lobbies

LEMMA RemovedSilent ==
    ASSUME NEW lobby \in Lobbies, NEW p \in Participants, NEW q \in Participants, q # p,
           Silenced(lobby, q)
    PROVE  Silenced(RemoveParticipant(lobby, p), q)
BY ServerAssumption
DEF Silenced, RemoveParticipant, SeatsOf, ReadyFlag, IsParticipant1, Lobbies

LEMMA ConnectedSilent ==
    ASSUME GamesInv, ~idReused, ~idReused', NEW p \in Participants, NEW q \in Participants,
           q # p, Silent(q), NEW line, ObeyConnected(p, line)
    PROVE  Silent(q)'
<1>1. TypeOK
  BY DEF GamesInv, SeatInv, TypeInv
<1>2. CASE Create(p)
  <2> DEFINE id == lobbiesCount
  <2>1. /\ id \notin DOMAIN lobbies /\ DOMAIN lobbies' = DOMAIN lobbies \cup {id}
        /\ lobbies' = [i \in DOMAIN lobbies \cup {id} |->
                          IF i = id THEN AddParticipant(NewLobby, p) ELSE lobbies[i]]
    BY <1>2 DEF Create
  <2>2. Silenced(AddParticipant(NewLobby, p), q)
    BY NewLobbyType, AddedSilent, ServerAssumption DEF Silenced, NewLobby, SeatsOf
  <2> HIDE DEF id
  <2> QED
    BY <2>1, <2>2, OthersSilent
<1>3. ASSUME NEW id \in FreeLobbies, NEW letter, Enter(p, id, letter) PROVE Silent(q)'
  <2>1. id \in DOMAIN lobbies /\ lobbies[id] \in Lobbies
    BY <1>1 DEF FreeLobbies, TypeOK
  <2>2. /\ DOMAIN lobbies' = DOMAIN lobbies /\ lobbies'[id] = AddParticipant(lobbies[id], p)
        /\ \A i \in DOMAIN lobbies : i # id => lobbies'[i] = lobbies[i]
    BY <1>1, <1>3, <2>1 DEF Enter, TypeOK
  <2>3. Silenced(lobbies'[id], q)
    BY <2>1, <2>2, AddedSilent DEF Silent
  <2> QED
    BY <2>2, <2>3, OthersSilent
<1>4. CASE Join(p)
  BY <1>3, <1>4 DEF Join
<1>5. CASE ConnectTo(p, line.id)
  BY <1>3, <1>5 DEF ConnectTo
<1>6. CASE Refuse(p) \/ List(p) \/ QuitConnected(p)
  BY <1>6, SameSilent DEF Refuse, List, QuitConnected
<1> QED
  BY <1>2, <1>4, <1>5, <1>6 DEF ObeyConnected

LEMMA VacatedSilent ==
    ASSUME TypeOK, NEW p \in Participants, NEW q \in Participants, q # p, Silent(q),
           HasLobby(p), NEW clients, Vacate(p, clients)
    PROVE  Silent(q)'
<1>1. CASE IsEmpty(RemoveParticipant(LobbyOf(p), p))
  <2>1. lobbies' = [i \in DOMAIN lobbies \ {clentData[p].lobby} |-> lobbies[i]]
    BY <1>1 DEF Vacate
  <2> QED
    BY <2>1 DEF Silent
<1>2. CASE ~IsEmpty(RemoveParticipant(LobbyOf(p), p))
  <2>1. lobbies' = SetLobby(p, RemoveParticipant(LobbyOf(p), p))
    BY <1>2 DEF Vacate
  <2>2. LobbyOf(p) \in Lobbies
    BY LobbyOfType
  <2> QED
    BY <2>1, <2>2, RemovedSilent, SetSilent
<1> QED
  BY <1>1, <1>2

LEMMA LobbySilent ==
    ASSUME GamesInv, NEW p \in Participants, NEW q \in Participants,
           q # p, Silent(q), NEW line, ObeyLobby(p, line)
    PROVE  Silent(q)'
<1>1. TypeOK
  BY DEF GamesInv, SeatInv, TypeInv
<1>2. CASE ReadyInLobby(p)
  <2>1. HasLobby(p) /\ (UNCHANGED lobbies \/ lobbies' = SetLobby(p, StartSession(LobbyOf(p))))
    BY <1>2 DEF ReadyInLobby
  <2>2. LobbyOf(p) \in Lobbies
    BY <1>1, <2>1, LobbyOfType
  <2>3. Silenced(LobbyOf(p), q) => Silenced(StartSession(LobbyOf(p)), q)
    BY <2>2 DEF Silenced, StartSession, SeatsOf, ReadyFlag, IsParticipant1, Lobbies, Turns
  <2> QED
    BY <1>1, <2>1, <2>3, SameSilent, SetSilent
<1>3. CASE Unready(p)
  BY <1>3, SameSilent DEF Unready
<1>4. CASE Leave(p)
  <2>1. HasLobby(p) /\ \E clients : Vacate(p, clients)
    BY <1>4 DEF Leave
  <2> QED
    BY <1>1, <2>1, VacatedSilent
<1>5. CASE QuitLobby(p)
  <2>1. HasLobby(p) /\ \E clients : Vacate(p, clients)
    BY <1>5 DEF QuitLobby
  <2> QED
    BY <1>1, <2>1, VacatedSilent
<1> QED
  BY <1>2, <1>3, <1>4, <1>5 DEF ObeyLobby

LEMMA MarkSilent ==
    ASSUME NEW lobby \in Lobbies, NEW p, NEW q \in Participants, q # p, Silenced(lobby, q)
    PROVE  /\ Silenced(MarkReady(lobby, p), q)
           /\ MarkReady(lobby, p).ready1 /\ MarkReady(lobby, p).ready2 =>
                  q \notin SeatsOf(lobby)
           /\ SeatsOf(MarkReady(lobby, p)) = SeatsOf(lobby)
BY DEF MarkReady, Silenced, SeatsOf, ReadyFlag, IsParticipant1, IsParticipant2, Lobbies

LEMMA SessionSilent ==
    ASSUME GamesInv, ~idReused, NEW p \in Participants, NEW q \in Participants,
           q # p, Silent(q), NEW line, ObeySession(p, line)
    PROVE  Silent(q)'
<1> DEFINE lobby == LobbyOf(p)
<1>1. TypeOK
  BY DEF GamesInv, SeatInv, TypeInv
<1>2. HasLobby(p) => lobby \in Lobbies /\ Silenced(lobby, q)
  BY <1>1, LobbyOfType DEF Silent, HasLobby, LobbyOf
<1>3. CASE PlaceShip(p, line.ship)
  <2> DEFINE new == SetMyField(lobby, p, SetShip(MyField(lobby, p), line.ship))
  <2>1. HasLobby(p) /\ (UNCHANGED lobbies \/ lobbies' = SetLobby(p, new))
    BY <1>3 DEF PlaceShip, Playing
  <2>2. Silenced(new, q)
    BY <1>2, <2>1 DEF Silenced, SetMyField, SeatsOf, ReadyFlag, IsParticipant1, Lobbies, Turns
  <2> HIDE DEF new, lobby
  <2> QED
    BY <1>1, <2>1, <2>2, SameSilent, SetSilent
<1>4. CASE ReadyToPlay(p)
  <2> DEFINE new == MarkReady(lobby, p)
  <2>1. HasLobby(p)
    BY <1>4 DEF ReadyToPlay, Playing
  <2>2. /\ Silenced(new, q) /\ SeatsOf(new) = SeatsOf(lobby)
        /\ new.ready1 /\ new.ready2 => q \notin SeatsOf(lobby)
    BY <1>2, <2>1, MarkSilent
  <2>3. CASE new.ready1 /\ new.ready2
    <3>1. PICK turn \in Turns : lobbies' = SetLobby(p, [new EXCEPT !.state = turn])
      BY <1>4, <2>3 DEF ReadyToPlay
    <3>2. SeatsOf([new EXCEPT !.state = turn]) = SeatsOf(new)
      BY <1>2, <2>1 DEF SeatsOf, MarkReady, Lobbies
    <3>3. Silenced([new EXCEPT !.state = turn], q)
      BY <2>2, <2>3, <3>2 DEF Silenced
    <3> HIDE DEF new, lobby
    <3> QED
      BY <1>1, <2>1, <3>1, <3>3, SetSilent
  <2>4. CASE ~(new.ready1 /\ new.ready2)
    <3>1. lobbies' = SetLobby(p, new)
      BY <1>4, <2>4 DEF ReadyToPlay
    <3> HIDE DEF new, lobby
    <3> QED
      BY <1>1, <2>1, <2>2, <3>1, SetSilent
  <2> QED
    BY <2>3, <2>4
<1>5. CASE Shoot(p, line.cell)
  <2> DEFINE target == TargetField(lobby, p)
             new == AfterHit(lobby, p, ShotField(target, line.cell),
                             ShotAnswer(target, line.cell) = "m")
  <2>1. HasLobby(p) /\ lobby.state \in Turns /\ lobbies' = SetLobby(p, new)
    BY <1>5 DEF Shoot, Playing, AfterHit
  <2>2. q \notin SeatsOf(lobby)
    BY <1>2, <2>1 DEF Silenced
  <2>3. SeatsOf(new) = SeatsOf(lobby)
    BY <1>2, <2>1 DEF SeatsOf, AfterHit, SetTargetField, SwapState, Lobbies
  <2>4. Silenced(new, q)
    BY <2>2, <2>3 DEF Silenced
  <2> HIDE DEF new, lobby
  <2> QED
    BY <1>1, <2>1, <2>4, SetSilent
<1>6. CASE Win(p, line.cell)
  <2> DEFINE new == Won(lobby, p, ShotField(TargetField(lobby, p), line.cell))
             theirs == clentData[GetEnemy(lobby, p)].lobby
  <2>1. HasLobby(p) /\ lobby.state \in Turns
    BY <1>6 DEF Win, Playing
  <2>2. q \notin SeatsOf(lobby)
    BY <1>2, <2>1 DEF Silenced
  <2>3. SeatsOf(new) = SeatsOf(lobby)
    BY <1>2, <2>1 DEF SeatsOf, Won, ResetReady, EndGame, SetTargetField, Lobbies
  <2>4. Silenced(new, q)
    BY <2>2, <2>3 DEF Silenced
  <2>5. CASE theirs \notin DOMAIN lobbies
    BY <1>6, <2>5, SameSilent DEF Win
  <2>6. CASE theirs \in DOMAIN lobbies
    <3>1. lobbies' = [id \in DOMAIN lobbies |->
                        IF id = clentData[p].lobby THEN new
                        ELSE IF id = theirs THEN EndGame(lobbies[id])
                        ELSE lobbies[id]]
      BY <1>6, <2>6 DEF Win, Won
    <3>2. \A id \in DOMAIN lobbies : Silenced(EndGame(lobbies[id]), q)
      <4> SUFFICES ASSUME NEW id \in DOMAIN lobbies PROVE Silenced(EndGame(lobbies[id]), q)
        OBVIOUS
      <4>1. lobbies[id] \in Lobbies /\ Silenced(lobbies[id], q)
        BY <1>1 DEF TypeOK, Silent
      <4> QED
        BY <4>1 DEF Silenced, EndGame, SeatsOf, ReadyFlag, IsParticipant1, Lobbies, Turns
    <3> HIDE DEF new, theirs, lobby
    <3> SUFFICES ASSUME NEW id \in DOMAIN lobbies' PROVE Silenced(lobbies'[id], q)
      BY DEF Silent
    <3> QED
      BY <2>4, <3>1, <3>2 DEF Silent
  <2> QED
    BY <2>5, <2>6
<1>7. CASE Continue(p)
  <2> DEFINE new == [lobby EXCEPT !.state = "preparation"]
  <2>1. HasLobby(p) /\ (UNCHANGED lobbies \/ lobbies' = SetLobby(p, new))
    BY <1>7 DEF Continue, Playing
  <2>2. Silenced(new, q)
    BY <1>2, <2>1 DEF Silenced, SeatsOf, ReadyFlag, IsParticipant1, Lobbies, Turns
  <2> HIDE DEF new, lobby
  <2> QED
    BY <1>1, <2>1, <2>2, SameSilent, SetSilent
<1>8. CASE RepeatShot(p, line.cell) \/ WrongTurn(p) \/ Rebroadcast(p) \/ Unexpected(p)
  BY <1>8, SameSilent DEF RepeatShot, WrongTurn, Rebroadcast, Unexpected
<1> QED
  BY <1>3, <1>4, <1>5, <1>6, <1>7, <1>8 DEF ObeySession

LEMMA ObeySilent ==
    ASSUME GamesInv, ~idReused, ~idReused', NEW p \in Participants, NEW q \in Participants,
           q # p, Silent(q), NEW line, Obey(p, line)
    PROVE  Silent(q)'
BY ConnectedSilent, LobbySilent, SessionSilent, NoDeadLobby DEF Obey

(* One who goes leaves no seat from which a game could begin. *)
LEMMA LeaverSilent ==
    ASSUME GamesInv, ~idReused, NEW p \in Participants, NEW line, Obey(p, line),
           InPreparation(Desk(p)) => ~Desk(p).flag, session'[p] # session[p]
    PROVE  Silent(p)'
<1>1. TypeOK
  BY DEF GamesInv, SeatInv, TypeInv
<1>2. SeatsOwned
  BY DEF GamesInv, SeatInv
<1>3. QuitConnected(p) \/ QuitLobby(p) \/ Unexpected(p)
  BY NoDeadLobby
  DEF Obey, ObeyConnected, ObeyLobby, ObeySession, Create, Join, ConnectTo, Enter, Refuse, List,
      ReadyInLobby, Unready, Leave, PlaceShip, ReadyToPlay, RepeatShot, Shoot, Win, WrongTurn,
      Rebroadcast, Continue
<1>4. session[p] = "open"
  BY <1>3, SenderOpen DEF QuitConnected, QuitLobby, Unexpected, Playing, GamesInv
<1>5. \A id \in DOMAIN lobbies : p \in SeatsOf(lobbies[id]) =>
          clentData[p].state # "connected" /\ clentData[p].lobby = id
  BY <1>2, <1>4 DEF SeatsOwned, Open
<1>6. CASE QuitConnected(p)
  <2>1. clentData[p].state = "connected" /\ UNCHANGED lobbies
    BY <1>6 DEF QuitConnected, Handling
  <2> QED
    BY <1>5, <2>1 DEF Silent, Silenced
<1>7. CASE QuitLobby(p)
  <2> DEFINE new == RemoveParticipant(LobbyOf(p), p)
  <2>1. HasLobby(p) /\ LobbyOf(p) \in Lobbies /\ \E clients : Vacate(p, clients)
    BY <1>1, <1>7, LobbyOfType DEF QuitLobby
  <2>2. p \notin SeatsOf(new)
    BY <2>1, ServerAssumption DEF RemoveParticipant, SeatsOf, Lobbies
  <2>3. \A id \in DOMAIN lobbies' :
            \/ id # clentData[p].lobby /\ id \in DOMAIN lobbies /\ lobbies'[id] = lobbies[id]
            \/ lobbies'[id] = new
    <3>1. CASE IsEmpty(new)
      BY <2>1, <3>1 DEF Vacate
    <3>2. CASE ~IsEmpty(new)
      <4>1. lobbies' = SetLobby(p, new)
        BY <2>1, <3>2 DEF Vacate
      <4> HIDE DEF new
      <4> QED
        BY <1>1, <2>1, <4>1 DEF SetLobby, HasLobby, TypeOK
    <3> QED
      BY <3>1, <3>2
  <2> HIDE DEF new
  <2>4. ASSUME NEW id \in DOMAIN lobbies' PROVE p \notin SeatsOf(lobbies'[id])
    BY <1>5, <2>2, <2>3
  <2> QED
    BY <2>4 DEF Silent, Silenced
<1>8. CASE Unexpected(p)
  <2>1. /\ clentData[p].state = "session" /\ LobbyOf(p).state \in {"preparation", "end"}
        /\ p \in SeatsOf(LobbyOf(p)) /\ GameKept(LobbyOf(p), session, clentData)
        /\ UNCHANGED lobbies /\ LobbyOf(p) \in Lobbies
    BY <1>8, PlayingKept DEF Unexpected
  <2>2. ~ReadyFlag(LobbyOf(p), p)
    <3>1. CASE LobbyOf(p).state = "preparation"
      <4>1. InPreparation(Desk(p)) /\ Desk(p).flag = ReadyFlag(LobbyOf(p), p)
        BY <2>1, <3>1, DeskParts DEF InPreparation, GameStateFor, Turns
      <4> QED
        BY <4>1
    <3>2. CASE LobbyOf(p).state = "end"
      BY <2>1, <3>2 DEF GameKept, ReadyFlag
    <3> QED
      BY <2>1, <3>1, <3>2
  <2>3. Silenced(LobbyOf(p), p)
    BY <2>1, <2>2 DEF Silenced, Turns
  <2>4. ASSUME NEW id \in DOMAIN lobbies PROVE Silenced(lobbies[id], p)
    BY <1>5, <2>3 DEF Silenced, LobbyOf
  <2> QED
    BY <2>1, <2>4 DEF Silent
<1> QED
  BY <1>3, <1>6, <1>7, <1>8

(* The inductive invariant of the whole system. *)
PlayerAt(q) == Player(client[q], pressed[q], toServer[q], toClient[q], Desk(q))

SilentAt(q) == Running(q) /\ ~Open(q) => Silent(q)

PlayersFit == \A q \in Participants : PlayerAt(q) /\ SilentAt(q)

SysInv == SystemTypeInv /\ GamesInv /\ FieldsSound /\ (~idReused => PlayersFit)

(* The window puts a blank between the numbers of every line (Main.cpp:294). *)
LinesSpaced == \A line \in Lines : line.spaced

(* Careful players of the window, clients that start in the preparation, and a network that
   fails only in the server's reads. *)
Patient == Careful /\ LinesSpaced /\ OnlyReadErrors /\ InitialGameStates = {"preparation"}

LEMMA ReusedStays ==
    ASSUME [Next]_vars, ~idReused'
    PROVE  ~idReused
BY DEF Next, vars, SessionEvent, Connect, ReadError, WriteError, Flushed,
   HandleMessageConnected, Create, Join, ConnectTo, Enter, Refuse, List, QuitConnected,
   HandleMessageLobby, ReadyInLobby, Unready, Leave, QuitLobby,
   HandleMessageSession, PlaceShip, ReadyToPlay, RepeatShot, Shoot, Win, WrongTurn,
   Rebroadcast, Continue, Unexpected, FollowDeadLobby

(* A step of the two programs of p and of his wires. *)
LEMMA ClientStepFits ==
    ASSUME PlayersFit, UNCHANGED vars, NEW p \in Participants, PlayerAt(p)',
           Running(p)' => Running(p),
           \A q \in Participants : q # p =>
               /\ client'[q] = client[q] /\ pressed'[q] = pressed[q]
               /\ toServer'[q] = toServer[q] /\ toClient'[q] = toClient[q]
    PROVE  PlayersFit'
<1> SUFFICES ASSUME NEW q \in Participants PROVE PlayerAt(q)' /\ SilentAt(q)'
  BY DEF PlayersFit
<1>1. UNCHANGED <<lobbies, clentData, session>>
  BY DEF vars
<1>2. Desk(q)' = Desk(q) /\ (Silent(q)' <=> Silent(q)) /\ (Open(q)' <=> Open(q))
  BY <1>1, SameStateDesk DEF Silent, Open
<1>3. PlayerAt(q) /\ SilentAt(q)
  BY DEF PlayersFit
<1>4. SilentAt(q)'
  <2>1. Running(q)' => Running(q)
    BY DEF Running
  <2> QED
    BY <1>2, <1>3, <2>1 DEF SilentAt
<1>5. CASE q = p
  BY <1>4, <1>5
<1>6. CASE q # p
  <2>1. /\ client'[q] = client[q] /\ pressed'[q] = pressed[q]
        /\ toServer'[q] = toServer[q] /\ toClient'[q] = toClient[q]
    BY <1>6
  <2>2. PlayerAt(q)'
    BY <1>2, <1>3, <2>1 DEF PlayerAt
  <2> QED
    BY <1>4, <2>2
<1> QED
  BY <1>5, <1>6

LEMMA PressStep ==
    ASSUME SystemTypeInv, Careful, PlayersFit, NEW p \in Participants, NEW line \in Lines,
           Press(p, line)
    PROVE  PlayersFit'
<1>1. /\ client \in [Participants -> ClientPrograms]
      /\ pressed \in [Participants -> Lines \cup {NoLine}]
  BY DEF SystemTypeInv
<1>2. /\ pressed[p] = NoLine /\ client[p].program = "running" /\ session[p] = "open"
      /\ line.word \in OfferedWords(client[p]) /\ ~AwaitsTurns(client[p])
      /\ line.word = "ready" => toServer[p] = <<>> /\ toClient[p] = <<>>
      /\ UNCHANGED <<vars, client, toServer, toClient>>
  BY DEF Press, MayPress, Running, Open, Quiet
<1>3. pressed'[p] = line /\ \A q \in Participants : q # p => pressed'[q] = pressed[q]
  BY <1>1 DEF Press
<1>4. Player(client[p], NoLine, toServer[p], toClient[p], Desk(p)) /\ Desk(p).life = "open"
  BY <1>2, DeskParts DEF PlayersFit, PlayerAt
<1>5. Player(client[p], line, toServer[p], toClient[p], Desk(p))
  BY <1>2, <1>4, PressFits
<1>6. Desk(p)' = Desk(p)
  BY <1>2, SameStateDesk DEF vars
<1>7. PlayerAt(p)'
  BY <1>2, <1>3, <1>5, <1>6 DEF PlayerAt
<1> QED
  BY <1>2, <1>3, <1>7, ClientStepFits DEF Running

LEMMA ActStep ==
    ASSUME SystemTypeInv, PlayersFit, NEW p \in Participants, Act(p)
    PROVE  PlayersFit'
<1> DEFINE line == pressed[p]
           now == client[p]
           h == IF line.word = "quit" THEN [now EXCEPT !.program = "closed"] ELSE Typed(now, line)
           ts2 == IF Sends(now, line) THEN Append(toServer[p], line) ELSE toServer[p]
<1>1. /\ client \in [Participants -> ClientPrograms]
      /\ pressed \in [Participants -> Lines \cup {NoLine}]
      /\ toServer \in [Participants -> Seq(Lines)]
  BY DEF SystemTypeInv
<1>2. /\ line \in Lines /\ now.program = "running" /\ UNCHANGED <<vars, toClient>>
      /\ pressed' = [pressed EXCEPT ![p] = NoLine]
      /\ client' = [client EXCEPT ![p] = h]
      /\ toServer' = IF Sends(now, line) THEN [toServer EXCEPT ![p] = Append(@, line)]
                     ELSE toServer
  BY <1>1 DEF Act, Running
<1> HIDE DEF h
<1>3. client'[p] = h /\ pressed'[p] = NoLine /\ toServer'[p] = ts2
  BY <1>1, <1>2
<1>4. \A q \in Participants : q # p =>
          client'[q] = client[q] /\ pressed'[q] = pressed[q] /\ toServer'[q] = toServer[q]
  BY <1>1, <1>2
<1>5. Player(now, line, toServer[p], toClient[p], Desk(p))
  BY DEF PlayersFit, PlayerAt
<1>6. Player(h, NoLine, ts2, toClient[p], Desk(p))
  BY <1>2, <1>5, ActFits DEF h
<1>7. Desk(p)' = Desk(p)
  BY <1>2, SameStateDesk DEF vars
<1>8. PlayerAt(p)'
  BY <1>2, <1>3, <1>6, <1>7 DEF PlayerAt
<1> QED
  BY <1>2, <1>4, <1>8, ClientStepFits DEF Running

LEMMA ReceiveStep ==
    ASSUME SystemTypeInv, PlayersFit, NEW p \in Participants, Receive(p)
    PROVE  PlayersFit'
<1>1. /\ client \in [Participants -> ClientPrograms]
      /\ toClient \in [Participants -> Seq(Said)]
  BY DEF SystemTypeInv
<1>2. /\ client[p].program = "running" /\ toClient[p] # <<>>
      /\ UNCHANGED <<vars, pressed, toServer>>
      /\ client'[p] = Hear(client[p], Head(toClient[p])) /\ toClient'[p] = Tail(toClient[p])
      /\ \A q \in Participants : q # p => client'[q] = client[q] /\ toClient'[q] = toClient[q]
  BY <1>1 DEF Receive, Running
<1>3. Player(client[p], pressed[p], toServer[p], toClient[p], Desk(p))
  BY DEF PlayersFit, PlayerAt
<1>4. Player(client'[p], pressed[p], toServer[p], toClient'[p], Desk(p))
  BY <1>2, <1>3, ReceiveFits
<1>5. Desk(p)' = Desk(p)
  BY <1>2, SameStateDesk DEF vars
<1>6. PlayerAt(p)'
  BY <1>2, <1>4, <1>5 DEF PlayerAt
<1> QED
  BY <1>2, <1>6, ClientStepFits DEF Running

LEMMA CloseStep ==
    ASSUME SystemTypeInv, PlayersFit, NEW p \in Participants, Close(p)
    PROVE  PlayersFit'
<1> DEFINE c == client[p]
           h == [c EXCEPT !.program = "closed"]
           d == Desk(p)
<1>1. client \in [Participants -> ClientPrograms]
  BY DEF SystemTypeInv
<1>2. /\ session[p] = "open" /\ UNCHANGED <<vars, pressed, toServer, toClient>>
      /\ client' = [client EXCEPT ![p] = h]
  BY DEF Close, Running, Open
<1>3. h \in ClientPrograms /\ h.program = "closed"
  BY <1>1 DEF ClientPrograms
<1> HIDE DEF h
<1>4. client'[p] = h /\ \A q \in Participants : q # p => client'[q] = client[q]
  BY <1>1, <1>2
<1>5. Player(c, pressed[p], toServer[p], toClient[p], d) /\ d.life = "open"
  BY <1>2, DeskParts DEF PlayersFit, PlayerAt
<1>6. Player(h, pressed[p], toServer[p], toClient[p], d)
  <2> HIDE DEF d
  <2> QED
    BY <1>3, <1>5 DEF Player, Good
<1>7. Desk(p)' = Desk(p)
  BY <1>2, SameStateDesk DEF vars
<1>8. PlayerAt(p)'
  BY <1>2, <1>4, <1>6, <1>7 DEF PlayerAt
<1>9. ~Running(p)'
  BY <1>3, <1>4 DEF Running
<1> QED
  BY <1>2, <1>4, <1>8, <1>9, ClientStepFits

(* A client that has just been accepted. *)
LEMMA FreshFits ==
    ASSUME InitialGameStates = {"preparation"}, NEW e \in Desks, e.life \in {"fresh", "open"},
           e.state = "connected", e.ready = FALSE, e.flag = FALSE, e.game = "preparation",
           e.hits = {}, e.shots = {}
    PROVE  Player(NewClient("preparation"), NoLine, <<>>, <<>>, e)
<1> DEFINE c == NewClient("preparation")
<1>1. /\ c \in ClientPrograms /\ c.state = "connected" /\ c.gameState = "preparation"
      /\ c.ready = FALSE /\ c.lobbyReady = FALSE /\ c.program = "running"
  BY EmptyFieldType DEF NewClient, ClientPrograms, EgsValues
<1>2. <<>> \in Seq(Lines) /\ <<>> \in Seq(Said) /\ DOMAIN <<>> = {}
  OBVIOUS
<1>3. \A i \in DOMAIN <<>> : FALSE
  BY <1>2
<1>4. Seen(c) \in ClientPrograms /\ Seen(c).program = "running" /\ Course(<<>>, Seen(c), Seen(c))
  BY <1>1, SeenParts, CourseOfNone
<1>5. Agrees(Seen(c), c, e)
  BY <1>1, SeenParts DEF Agrees
<1> USE DEF NewClient
<1> HIDE DEF c
<1>6. Follows(c, <<>>, e)
  BY <1>4, <1>5 DEF Follows
<1>7. Rested(c) /\ PressedFits(c, NoLine, <<>>, <<>>) /\ DeskFits(<<>>, e)
  BY <1>1, <1>3 DEF Rested, PressedFits, DeskFits, LinesFit, InPreparation, InTurns
<1>8. ClientFits(c, NoLine, <<>>, <<>>, e)
  BY <1>1, <1>3 DEF ClientFits, AwaitsTurns, InPreparation, InTurns
<1>9. Good(c, NoLine, <<>>, <<>>, e)
  BY <1>1, <1>6, <1>7, <1>8 DEF Good, RunningFits, c
<1>10. Player(c, NoLine, <<>>, <<>>, e)
  BY <1>1, <1>2, <1>9 DEF Player
<1> QED
  BY <1>10 DEF c

(* A step that changes the session of one player, and no game. *)
LEMMA OthersUndisturbed ==
    ASSUME GamesInv, GamesInv', PlayersFit, NEW p \in Participants, UNCHANGED lobbies,
           \A q \in Participants : q # p =>
               /\ session'[q] = session[q] /\ clentData'[q] = clentData[q]
               /\ client'[q] = client[q] /\ pressed'[q] = pressed[q]
               /\ toServer'[q] = toServer[q] /\ toClient'[q] = toClient[q],
           PlayerAt(p)', SilentAt(p)'
    PROVE  PlayersFit'
<1> SUFFICES ASSUME NEW q \in Participants, q # p PROVE PlayerAt(q)' /\ SilentAt(q)'
  BY DEF PlayersFit
<1>1. Desk(q)' = Desk(q)
  BY QuietAside, AsideKept
<1>2. PlayerAt(q) /\ SilentAt(q)
  BY DEF PlayersFit
<1>3. PlayerAt(q)'
  BY <1>1, <1>2 DEF PlayerAt
<1>4. (Silent(q)' <=> Silent(q)) /\ (Open(q)' <=> Open(q)) /\ (Running(q)' <=> Running(q))
  BY DEF Silent, Open, Running
<1> QED
  BY <1>2, <1>3, <1>4 DEF SilentAt

LEMMA AcceptStep ==
    ASSUME GamesInv, GamesInv', ~idReused, ~idReused', OnlyReadErrors,
           InitialGameStates = {"preparation"}, PlayersFit, NEW p \in Participants, Accept(p)
    PROVE  PlayersFit'
<1> DEFINE e == Desk(p)'
<1>1. TypeOK
  BY DEF GamesInv, SeatInv, TypeInv
<1>2. /\ session[p] = "fresh" /\ session'[p] = "open" /\ clentData'[p] = SharedClient
      /\ UNCHANGED <<lobbies, client, pressed, toServer, toClient>>
      /\ \A q \in Participants : q # p => session'[q] = session[q] /\ clentData'[q] = clentData[q]
  BY <1>1 DEF Accept, ends, Connect, OnlyReadErrors, TypeOK, Seats
<1>3. Desk(p).life = "fresh"
  BY <1>2, DeskParts
<1>4. /\ client[p] = NewClient("preparation") /\ pressed[p] = NoLine
      /\ toServer[p] = <<>> /\ toClient[p] = <<>>
  BY <1>3 DEF PlayersFit, PlayerAt, Player, Good
<1>5. e \in Desks
  BY DeskTypeNext
<1>6. /\ e.life = "open" /\ e.state = "connected" /\ e.ready = FALSE /\ ~e.flag
      /\ e.game = "preparation" /\ e.hits = {} /\ e.shots = {}
  BY <1>2, DeskPartsNext DEF SharedClient
<1> HIDE DEF e
<1>7. e.flag = FALSE
  BY <1>5, <1>6 DEF Desks
<1>8. Player(NewClient("preparation"), NoLine, <<>>, <<>>, e)
  BY <1>5, <1>6, <1>7, FreshFits
<1>9. PlayerAt(p)'
  BY <1>2, <1>4, <1>8 DEF PlayerAt, e
<1>10. SilentAt(p)'
  BY <1>2 DEF SilentAt, Open
<1> QED
  BY <1>2, <1>9, <1>10, OthersUndisturbed

LEMMA DisconnectStep ==
    ASSUME SystemTypeInv, GamesInv, GamesInv', ~idReused, ~idReused', PlayersFit,
           NEW p \in Participants, Disconnect(p)
    PROVE  PlayersFit'
<1> DEFINE d == Desk(p)
           e == Desk(p)'
<1>1. TypeOK /\ toServer \in [Participants -> Seq(Lines)] /\ toClient \in [Participants -> Seq(Said)]
  BY DEF SystemTypeInv, TypeInv
<1>2. /\ ~Running(p) /\ session'[p] \in {"flushing", "freed"}
      /\ UNCHANGED <<lobbies, client, pressed>>
      /\ toServer'[p] = <<>> /\ toClient'[p] = <<>>
      /\ \A q \in Participants : q # p =>
             /\ session'[q] = session[q] /\ clentData'[q] = clentData[q]
             /\ toServer'[q] = toServer[q] /\ toClient'[q] = toClient[q]
  BY <1>1 DEF Disconnect, ReadError, StopReading, Forget, TypeOK, Seats
<1>3. e \in Desks /\ e.life = session'[p]
  BY DeskTypeNext, DeskPartsNext
<1>4. Player(client[p], pressed[p], toServer[p], toClient[p], d)
  BY DEF PlayersFit, PlayerAt
<1> HIDE DEF d, e
<1>5. Player(client[p], pressed[p], <<>>, <<>>, e)
  <2>1. client[p].program # "running" /\ e.life \notin {"fresh", "open"}
    BY <1>2, <1>3 DEF Running
  <2> QED
    BY <1>3, <1>4, <2>1 DEF Player, Good
<1>6. PlayerAt(p)'
  BY <1>2, <1>5 DEF PlayerAt, e
<1>7. SilentAt(p)'
  BY <1>2 DEF SilentAt, Running
<1> QED
  BY <1>2, <1>6, <1>7, OthersUndisturbed

LEMMA FlushStep ==
    ASSUME GamesInv, GamesInv', ~idReused, ~idReused', PlayersFit,
           NEW p \in Participants, Flush(p)
    PROVE  PlayersFit'
<1> DEFINE d == Desk(p)
           e == Desk(p)'
<1>1. TypeOK
  BY DEF GamesInv, SeatInv, TypeInv
<1>2. /\ session[p] = "flushing" /\ session'[p] = "freed"
      /\ UNCHANGED <<lobbies, clentData, client, pressed, toServer, toClient>>
      /\ \A q \in Participants : q # p => session'[q] = session[q]
  BY <1>1 DEF Flush, Flushed, ends, TypeOK
<1>3. e \in Desks /\ e.life = session'[p] /\ d.life = session[p]
  BY DeskTypeNext, DeskParts, DeskPartsNext
<1>4. Player(client[p], pressed[p], toServer[p], toClient[p], d)
  BY DEF PlayersFit, PlayerAt
<1> HIDE DEF d, e
<1>5. Player(client[p], pressed[p], toServer[p], toClient[p], e)
  <2>1. e.life \notin {"fresh", "open"} /\ d.life \notin {"fresh", "open"}
    BY <1>2, <1>3
  <2> QED
    BY <1>3, <1>4, <2>1 DEF Player, Good, RunningFits, Follows
<1>6. PlayerAt(p)'
  BY <1>2, <1>5 DEF PlayerAt, e
<1>7. SilentAt(p)'
  BY <1>2 DEF PlayersFit, SilentAt, Running, Open, Silent
<1> QED
  BY <1>2, <1>6, <1>7, OthersUndisturbed

(* A handler touches the session of none but its sender. *)
LEMMA OthersStay ==
    ASSUME TypeOK, NEW p \in Participants, NEW line, Obey(p, line),
           NEW q \in Participants, q # p
    PROVE  session'[q] = session[q]
<1>1. UNCHANGED session \/ StopReading(p, TRUE)
  BY DEF Obey, ObeyConnected, ObeyLobby, ObeySession, Create, Join, ConnectTo, Enter, Refuse,
     List, QuitConnected, ReadyInLobby, Unready, Leave, QuitLobby, PlaceShip, ReadyToPlay,
     RepeatShot, Shoot, Win, WrongTurn, Rebroadcast, Continue, Unexpected, FollowDeadLobby
<1> QED
  BY <1>1 DEF StopReading, TypeOK

LEMMA ObeyFromOpen ==
    ASSUME GamesInv, NEW p \in Participants, NEW line, Obey(p, line) \/ Drop(p, line)
    PROVE  session[p] = "open"
<1>1. \E state : Handling(p, state)
  BY DEF Obey, Drop, ObeyConnected, ObeyLobby, ObeySession, Create, Join, ConnectTo, Refuse,
     List, QuitConnected, ReadyInLobby, Unready, Leave, QuitLobby, Playing, PlaceShip,
     ReadyToPlay, RepeatShot, Shoot, Win, WrongTurn, Rebroadcast, Continue, FollowDeadLobby
<1> QED
  BY <1>1, SenderOpen DEF GamesInv

LEMMA PlayersRest ==
    ASSUME PlayersFit
    PROVE  RestedAtEnd
<1> SUFFICES ASSUME NEW q \in Participants, session[q] = "open",
                    Desk(q).state = "session", Desk(q).game = "end"
             PROVE  ~Desk(q).ready
  BY DEF RestedAtEnd
<1>1. Desk(q).life = "open"
  BY DeskParts
<1> QED
  BY <1>1 DEF PlayersFit, PlayerAt, Player, Good, DeskFits

LEMMA ServeStep ==
    ASSUME SystemTypeInv, GamesInv, GamesInv', FieldsSound, ~idReused, ~idReused', LinesSpaced,
           PlayersFit, NEW p \in Participants, Serve(p)
    PROVE  PlayersFit'
<1> DEFINE line == Head(toServer[p])
           d == Desk(p)
<1>1. /\ TypeOK /\ toServer \in [Participants -> Seq(Lines)]
      /\ toClient \in [Participants -> Seq(Said)]
  BY DEF SystemTypeInv, TypeInv
<1>2. /\ toServer[p] # <<>> /\ UNCHANGED <<client, pressed>>
      /\ toServer'[p] = Tail(toServer[p])
      /\ \A q \in Participants : q # p => toServer'[q] = toServer[q]
      /\ \/ Obey(p, line) /\ Posted
         \/ Drop(p, line)
  BY <1>1 DEF Serve
<1>3. session[p] = "open" /\ d.life = "open"
  BY <1>2, ObeyFromOpen, DeskParts
<1>4. Player(client[p], pressed[p], toServer[p], toClient[p], d)
  BY DEF PlayersFit, PlayerAt
<1>5. /\ line \in Lines /\ 1 \in DOMAIN toServer[p] /\ toServer[p][1] = line
      /\ LinesFit(toServer[p], d)
  BY <1>1, <1>2, <1>3, <1>4, SeqParts DEF Player, Good, DeskFits
<1> HIDE DEF line
<1>6. CASE Obey(p, line) /\ Posted
  <2>1. InTurns(d) => IsShot(line)
    BY <1>5 DEF LinesFit, IsShot, LinesSpaced
  <2>2. InPreparation(d) => ~d.flag
    BY <1>2, <1>5 DEF LinesFit
  <2>3. Handled(p, line)
    BY <1>5, <1>6, <2>1, PlayersRest, ObeyHandled
  <2>4. \A q \in Participants : toClient'[q] = Grown(client[q], toClient[q], MailFor(q))
    BY <1>6 DEF Posted, Running, Grown
  <2>5. PlayerAt(p)'
    <3>1. Served(p, Head(toServer[p])) /\ Desk(p)' \in Desks
      BY <2>3, DeskTypeNext DEF Handled, line
    <3>2. Player(client[p], pressed[p], Tail(toServer[p]),
                 Grown(client[p], toClient[p], MailFor(p)), Desk(p)')
      BY <1>2, <1>3, <1>4, <3>1, ServedFits
    <3> QED
      BY <1>2, <2>4, <3>2 DEF PlayerAt
  <2>6. SilentAt(p)'
    <3>1. session'[p] # session[p] => Silent(p)'
      BY <1>6, <2>2, LeaverSilent
    <3> QED
      BY <1>3, <3>1 DEF SilentAt, Open
  <2>7. ASSUME NEW q \in Participants, q # p PROVE PlayerAt(q)' /\ SilentAt(q)'
    <3>1. PlayerAt(q) /\ SilentAt(q)
      BY DEF PlayersFit
    <3>2. Spoken(q) /\ Desk(q)' \in Desks
      BY <2>3, <2>7, DeskTypeNext DEF Handled
    <3>3. client[q].program = "running" /\ ~Open(q) => Silent(q)
      BY <3>1 DEF SilentAt, Running
    <3>4. Player(client[q], pressed[q], toServer[q],
                 Grown(client[q], toClient[q], MailFor(q)), Desk(q)')
      BY <3>1, <3>2, <3>3, SpokenFits DEF PlayerAt
    <3>5. PlayerAt(q)'
      BY <1>2, <2>4, <2>7, <3>4 DEF PlayerAt
    <3>6. session'[q] = session[q]
      BY <1>1, <1>6, <2>7, OthersStay
    <3>7. Silent(q) => Silent(q)'
      BY <1>6, <2>7, ObeySilent
    <3>8. SilentAt(q)'
      BY <1>2, <3>1, <3>6, <3>7 DEF SilentAt, Running, Open
    <3> QED
      BY <3>5, <3>8
  <2> QED
    BY <2>5, <2>6, <2>7 DEF PlayersFit
<1>7. CASE Drop(p, line)
  <2>1. /\ UNCHANGED <<lobbies, clentData, session, toClient>>
        /\ clentData[p].state # "session"
    BY <1>7 DEF Drop, vars, Handling
  <2>2. d.state # "session" /\ Desk(p)' = d
    BY <2>1, DeskParts, SameStateDesk
  <2> HIDE DEF d
  <2>3. Recorded(d, Head(toServer[p]), d)
    BY <2>2 DEF Recorded
  <2>4. Player(client[p], pressed[p], Tail(toServer[p]), toClient[p], d)
    BY <1>2, <1>3, <1>4, <2>3, RecordedFits
  <2>5. PlayerAt(p)'
    BY <1>2, <2>1, <2>2, <2>4 DEF PlayerAt
  <2>6. SilentAt(p)'
    BY <1>3, <2>1 DEF SilentAt, Open
  <2> QED
    BY <1>2, <2>1, <2>5, <2>6, OthersUndisturbed
<1> QED
  BY <1>2, <1>6, <1>7

LEMMA InitSysInv == Patient /\ SysInit => SysInv
<1> SUFFICES ASSUME Patient, SysInit PROVE SysInv
  OBVIOUS
<1>1. SystemTypeInv /\ GamesInv
  BY InitSystemTypeInv, InitGamesInv DEF SysInit
<1>2. FieldsSound
  BY DEF SysInit, Init, FieldsSound
<1>3. ASSUME NEW q \in Participants PROVE PlayerAt(q) /\ SilentAt(q)
  <2>1. /\ client[q] = NewClient("preparation") /\ pressed[q] = NoLine
        /\ toServer[q] = <<>> /\ toClient[q] = <<>>
        /\ session[q] = "fresh" /\ clentData[q] = SharedClient /\ ~idReused
    BY DEF SysInit, Init, Patient, Seats
  <2>2. Desk(q) \in Desks
    BY <1>1, <2>1, DeskType
  <2>3. /\ Desk(q).life = "fresh" /\ Desk(q).state = "connected" /\ Desk(q).ready = FALSE
        /\ ~Desk(q).flag /\ Desk(q).game = "preparation"
        /\ Desk(q).hits = {} /\ Desk(q).shots = {}
    BY <2>1, DeskParts DEF SharedClient
  <2>4. Desk(q).flag = FALSE
    BY <2>2, <2>3 DEF Desks
  <2>5. PlayerAt(q)
    BY <2>1, <2>2, <2>3, <2>4, FreshFits DEF PlayerAt, Patient
  <2>6. Silent(q)
    BY DEF SysInit, Init, Silent
  <2> QED
    BY <2>5, <2>6 DEF SilentAt
<1> QED
  BY <1>1, <1>2, <1>3 DEF SysInv, PlayersFit

LEMMA NextSysInv ==
    ASSUME Patient, SysInv, [SysNext]_sysVars
    PROVE  SysInv'
<1>1. SystemTypeInv /\ GamesInv /\ FieldsSound /\ Careful /\ LinesSpaced /\ OnlyReadErrors
      /\ InitialGameStates = {"preparation"} /\ TypeOK
  BY DEF Patient, SysInv, SystemTypeInv, TypeInv
<1>2. [Next]_vars
  BY <1>1, SysNextIsServer DEF SystemTypeInv
<1>3. SystemTypeInv' /\ GamesInv' /\ FieldsSound'
  BY <1>1, <1>2, NextSystemTypeInv, NextGamesInv, NextFieldsSound
<1>4. ASSUME ~idReused' PROVE PlayersFit'
  <2>1. ~idReused /\ PlayersFit
    BY <1>2, <1>4, ReusedStays DEF SysInv
  <2>2. CASE UNCHANGED sysVars
    <3>1. UNCHANGED <<vars, client, pressed, toServer, toClient>>
      BY <2>2 DEF sysVars, ends
    <3>2. \A q : Desk(q)' = Desk(q)
      BY <3>1, SameStateDesk DEF vars
    <3>3. \A q \in Participants : PlayerAt(q)' /\ SilentAt(q)'
      BY <2>1, <3>1, <3>2 DEF PlayersFit, PlayerAt, SilentAt, Silent, Running, Open, vars
    <3> QED
      BY <3>3 DEF PlayersFit
  <2>3. ASSUME NEW p \in Participants,
               Accept(p) \/ Disconnect(p) \/ Flush(p) \/ Serve(p)
        PROVE  PlayersFit'
    BY <1>1, <1>3, <1>4, <2>1, <2>3, AcceptStep, DisconnectStep, FlushStep, ServeStep
  <2>4. ASSUME NEW p \in Participants,
               (\E line \in Lines : Press(p, line)) \/ Act(p) \/ Receive(p) \/ Close(p)
        PROVE  PlayersFit'
    BY <1>1, <2>1, <2>4, PressStep, ActStep, ReceiveStep, CloseStep
  <2> QED
    BY <2>2, <2>3, <2>4 DEF SysNext
<1> QED
  BY <1>3, <1>4 DEF SysInv

(* No client is told anything it answers with "Wrong message received?" (client.cpp:93, 160,
   264, 310), for any number of players and lobbies and however commands and answers cross, if
   players wait where the code does not make them (Main.cpp:499) and only reads fail. After a
   lobby's number was used twice (server.cpp:29) nothing is said. *)
THEOREM SystemNoClientThrows == Patient => (SysSpec => [](~idReused => NoClientThrows))
<1> SUFFICES ASSUME Patient PROVE SysSpec => [](~idReused => NoClientThrows)
  OBVIOUS
<1>1. SysInit => SysInv
  BY InitSysInv
<1>2. SysInv /\ [SysNext]_sysVars => SysInv'
  BY NextSysInv
<1>3. SysInv => (~idReused => NoClientThrows)
  BY DEF SysInv, PlayersFit, PlayerAt, Player, Good, NoClientThrows
<1> QED
  BY <1>1, <1>2, <1>3, PTL DEF SysSpec
(* Where nothing is under way, what the client would believe after its channel is what it
   believes now. *)
LEMMA IdleAgrees ==
    ASSUME NEW p \in Participants, PlayerAt(p), Idle(p)
    PROVE  /\ Agrees(Seen(client[p]), client[p], Desk(p))
           /\ ClientFits(client[p], NoLine, <<>>, <<>>, Desk(p))
           /\ client[p] \in ClientPrograms /\ Desk(p) \in Desks
<1>1. /\ client[p].program = "running" /\ session[p] = "open"
      /\ toServer[p] = <<>> /\ toClient[p] = <<>> /\ pressed[p] = NoLine
  BY DEF Idle, Running, Open, Quiet
<1>2. Player(client[p], NoLine, <<>>, <<>>, Desk(p))
  BY <1>1 DEF PlayerAt
<1>3. Desk(p).life = "open"
  BY <1>1, DeskParts
<1>4. /\ client[p] \in ClientPrograms /\ Desk(p) \in Desks
      /\ Follows(client[p], <<>>, Desk(p))
      /\ ClientFits(client[p], NoLine, <<>>, <<>>, Desk(p))
  BY <1>1, <1>2, <1>3 DEF Player, Good, RunningFits
<1> QED
  BY <1>3, <1>4, QuietAgrees

LEMMA PlayersAgree ==
    ASSUME NEW p \in Participants, PlayerAt(p), Idle(p)
    PROVE  /\ SeesPlace(p)
           /\ client[p].state = "session" =>
                  SeesTurns(p, LobbyOf(p)) /\ SeesEnemy(p, LobbyOf(p))
<1> DEFINE c == client[p]
           s == Seen(c)
           d == Desk(p)
<1>1. /\ Agrees(s, c, d) /\ ClientFits(c, NoLine, <<>>, <<>>, d)
      /\ c \in ClientPrograms /\ d \in Desks
  BY IdleAgrees
<1>2. /\ s.state = c.state /\ s.gameState = c.gameState /\ s.ready = c.ready
      /\ s.lobbyReady = c.lobbyReady /\ s.m_en = c.m_en
  BY <1>1, SeenParts
<1>3. d.state = clentData[p].state /\ d.ready = clentData[p].isReady
  BY DeskParts
<1>4. SeesPlace(p)
  <2>1. c.state = d.state
    BY <1>1, <1>2 DEF Agrees
  <2>2. c.state = "lobby" => c.lobbyReady = d.ready
    BY <1>1, <1>2 DEF Agrees
  <2> QED
    BY <1>3, <2>1, <2>2 DEF SeesPlace
<1>5. ASSUME c.state = "session"
      PROVE  SeesTurns(p, LobbyOf(p)) /\ SeesEnemy(p, LobbyOf(p))
  <2>1. /\ d.state = "session" /\ c.gameState = d.game
        /\ c.m_en.ship = d.hits /\ c.m_en.shot = d.shots
    BY <1>1, <1>2, <1>5 DEF Agrees
  <2>2. /\ d.flag = ReadyFlag(LobbyOf(p), p) /\ d.game = GameStateFor(LobbyOf(p), p)
        /\ d.hits = TargetField(LobbyOf(p), p).ship \cap TargetField(LobbyOf(p), p).shot
        /\ d.shots = TargetField(LobbyOf(p), p).shot
    BY <1>3, <2>1, DeskParts
  <2>3. d.game = "preparation" => c.ready = d.flag
    <3>1. d.game = "preparation" /\ d.flag => AwaitsTurns(c)
      BY <1>1, <2>1 DEF ClientFits, InPreparation
    <3>2. d.game = "preparation" /\ AwaitsTurns(c) => d.flag
      BY <1>1 DEF ClientFits
    <3>3. d.game = "preparation" => (AwaitsTurns(c) <=> c.ready)
      BY <1>5, <2>1 DEF AwaitsTurns
    <3>4. c.ready \in BOOLEAN /\ d.flag \in BOOLEAN
      BY <1>1 DEF ClientPrograms, Desks
    <3> QED
      BY <3>1, <3>2, <3>3, <3>4
  <2>4. LobbyOf(p).state = "preparation" => d.game = "preparation"
    BY <2>2 DEF GameStateFor, Turns
  <2>5. SeesTurns(p, LobbyOf(p))
    BY <2>1, <2>2, <2>3, <2>4 DEF SeesTurns
  <2>6. SeesEnemy(p, LobbyOf(p))
    BY <2>1, <2>2 DEF SeesEnemy
  <2> QED
    BY <2>5, <2>6
<1> QED
  BY <1>4, <1>5

(* Once nothing is under way between a player and the server, his client shows the place he
   is in, whether he is ready, whose turn it is and every shot he has fired, with the ships
   he has hit: what crosses on the wires (HandleMessageSession of both programs) leads the
   two apart for a while only. As with NoClientThrows, for any number of players. *)
THEOREM SystemClientsAgree == Patient => (SysSpec => []ClientsAgree)
<1> SUFFICES ASSUME Patient PROVE SysSpec => []ClientsAgree
  OBVIOUS
<1>1. SysInit => SysInv
  BY InitSysInv
<1>2. SysInv /\ [SysNext]_sysVars => SysInv'
  BY NextSysInv
<1>3. SysInv => ClientsAgree
  BY PlayersAgree DEF SysInv, PlayersFit, ClientsAgree
<1> QED
  BY <1>1, <1>2, <1>3, PTL DEF SysSpec

-----------------------------------------------------------------------------
(* A player's own field. His client puts a ship there before the server has read the line,
   and marks the enemy's shots by what it is told of them: the two fields agree once the
   lines on their way are taken and the messages on their way are heard. *)

(* The client hears a whole channel, its own field included. *)
Hears(before, msg, after) == after = Hear(before, msg)

Hearing(channel, from, to) ==
    \E t \in [0 .. Len(channel) -> ClientPrograms] :
        /\ t[0] = from /\ t[Len(channel)] = to
        /\ \A i \in 1 .. Len(channel) : Hears(t[i - 1], channel[i], t[i])

(* The server takes the lines of a queue: the ships among them go onto the field. *)
Lays(before, line, after) ==
    IF line.word = "ship"
    THEN CanSetShip(before, line.ship) /\ after = SetShip(before, line.ship)
    ELSE after = before

Laid(queue, from, to) ==
    \E t \in [0 .. Len(queue) -> Fields] :
        /\ t[0] = from /\ t[Len(queue)] = to
        /\ \A i \in 1 .. Len(queue) : Lays(t[i - 1], queue[i], t[i])

LEMMA HearingOfNone ==
    ASSUME NEW c \in ClientPrograms
    PROVE  \A d : Hearing(<<>>, c, d) <=> d = c
<1>1. Len(<<>>) = 0 /\ 1 .. 0 = {}
  OBVIOUS
<1>2. ASSUME NEW d, d = c PROVE Hearing(<<>>, c, d)
  <2> DEFINE t == [i \in 0 .. 0 |-> c]
  <2>1. t \in [0 .. 0 -> ClientPrograms] /\ t[0] = c
    OBVIOUS
  <2> HIDE DEF t
  <2> QED
    BY <1>1, <1>2, <2>1 DEF Hearing
<1> QED
  BY <1>1, <1>2 DEF Hearing

LEMMA HearingOn ==
    ASSUME NEW channel \in Seq(Said), NEW c, NEW d, Hearing(channel, c, d),
           NEW msg \in Said, NEW e \in ClientPrograms, Hears(d, msg, e)
    PROVE  Hearing(channel \o <<msg>>, c, e)
<1> DEFINE n == Len(channel)
           longer == Append(channel, msg)
<1>1. PICK t \in [0 .. n -> ClientPrograms] :
          /\ t[0] = c /\ t[n] = d
          /\ \A i \in 1 .. n : Hears(t[i - 1], channel[i], t[i])
  BY DEF Hearing
<1>2. n \in Nat /\ Len(longer) = n + 1 /\ channel \o <<msg>> = longer
  BY AppendProperties, LenProperties, AppendIsConcat
<1>3. longer[n + 1] = msg /\ \A i \in 1 .. n : longer[i] = channel[i]
  BY AppendProperties
<1> DEFINE u == [i \in 0 .. n + 1 |-> IF i = n + 1 THEN e ELSE t[i]]
<1>4. u \in [0 .. n + 1 -> ClientPrograms] /\ u[n + 1] = e
  BY <1>2
<1>5. \A i \in 0 .. n : u[i] = t[i]
  BY <1>2
<1> HIDE DEF u, longer
<1>6. \A i \in 1 .. n + 1 : Hears(u[i - 1], longer[i], u[i])
  <2> SUFFICES ASSUME NEW i \in 1 .. n + 1 PROVE Hears(u[i - 1], longer[i], u[i])
    OBVIOUS
  <2>1. CASE i = n + 1
    <3>1. u[i - 1] = d
      BY <1>1, <1>2, <1>5, <2>1
    <3> QED
      BY <1>3, <1>4, <2>1, <3>1
  <2>2. CASE i # n + 1
    <3>1. i \in 1 .. n /\ u[i - 1] = t[i - 1] /\ u[i] = t[i]
      BY <1>2, <1>5, <2>2
    <3> QED
      BY <1>1, <1>3, <3>1
  <2> QED
    BY <2>1, <2>2
<1>7. u[0] = c
  BY <1>1, <1>2, <1>5
<1> QED
  BY <1>2, <1>4, <1>6, <1>7 DEF Hearing

LEMMA HearingRest ==
    ASSUME NEW channel \in Seq(Said), channel # <<>>, NEW c, NEW d, Hearing(channel, c, d)
    PROVE  \E b \in ClientPrograms : Hears(c, Head(channel), b) /\ Hearing(Tail(channel), b, d)
<1> DEFINE n == Len(channel)
           rest == Tail(channel)
<1>1. PICK t \in [0 .. n -> ClientPrograms] :
          /\ t[0] = c /\ t[n] = d
          /\ \A i \in 1 .. n : Hears(t[i - 1], channel[i], t[i])
  BY DEF Hearing
<1>2. n \in Nat /\ n >= 1 /\ Len(rest) = n - 1 /\ Head(channel) = channel[1]
  BY HeadTailProperties, LenProperties, EmptySeq
<1>3. \A i \in 1 .. n - 1 : rest[i] = channel[i + 1]
  BY <1>2, HeadTailProperties
<1> DEFINE u == [i \in 0 .. n - 1 |-> t[i + 1]]
<1>4. u \in [0 .. n - 1 -> ClientPrograms] /\ \A i \in 0 .. n - 1 : u[i] = t[i + 1]
  BY <1>2
<1> HIDE DEF u, rest
<1>5. \A i \in 1 .. n - 1 : Hears(u[i - 1], rest[i], u[i])
  <2> SUFFICES ASSUME NEW i \in 1 .. n - 1 PROVE Hears(u[i - 1], rest[i], u[i])
    OBVIOUS
  <2>1. u[i - 1] = t[i] /\ u[i] = t[i + 1] /\ i + 1 \in 1 .. n /\ rest[i] = channel[i + 1]
    BY <1>2, <1>3, <1>4
  <2>2. Hears(t[i + 1 - 1], channel[i + 1], t[i + 1])
    BY <1>1, <2>1
  <2> QED
    BY <1>2, <2>1, <2>2
<1>6. u[0] = t[1] /\ u[n - 1] = d /\ t[1] \in ClientPrograms
  BY <1>1, <1>2, <1>4
<1>7. Hearing(rest, t[1], d)
  BY <1>2, <1>4, <1>5, <1>6 DEF Hearing
<1>8. Hears(c, Head(channel), t[1])
  BY <1>1, <1>2
<1> QED
  BY <1>6, <1>7, <1>8 DEF rest

LEMMA LaidOfNone ==
    ASSUME NEW c \in Fields
    PROVE  \A d : Laid(<<>>, c, d) <=> d = c
<1>1. Len(<<>>) = 0 /\ 1 .. 0 = {}
  OBVIOUS
<1>2. ASSUME NEW d, d = c PROVE Laid(<<>>, c, d)
  <2> DEFINE t == [i \in 0 .. 0 |-> c]
  <2>1. t \in [0 .. 0 -> Fields] /\ t[0] = c
    OBVIOUS
  <2> HIDE DEF t
  <2> QED
    BY <1>1, <1>2, <2>1 DEF Laid
<1> QED
  BY <1>1, <1>2 DEF Laid

LEMMA LaidOn ==
    ASSUME NEW queue \in Seq(Lines), NEW c, NEW d, Laid(queue, c, d),
           NEW line \in Lines, NEW e \in Fields, Lays(d, line, e)
    PROVE  Laid(queue \o <<line>>, c, e)
<1> DEFINE n == Len(queue)
           longer == Append(queue, line)
<1>1. PICK t \in [0 .. n -> Fields] :
          /\ t[0] = c /\ t[n] = d
          /\ \A i \in 1 .. n : Lays(t[i - 1], queue[i], t[i])
  BY DEF Laid
<1>2. n \in Nat /\ Len(longer) = n + 1 /\ queue \o <<line>> = longer
  BY AppendProperties, LenProperties, AppendIsConcat
<1>3. longer[n + 1] = line /\ \A i \in 1 .. n : longer[i] = queue[i]
  BY AppendProperties
<1> DEFINE u == [i \in 0 .. n + 1 |-> IF i = n + 1 THEN e ELSE t[i]]
<1>4. u \in [0 .. n + 1 -> Fields] /\ u[n + 1] = e
  BY <1>2
<1>5. \A i \in 0 .. n : u[i] = t[i]
  BY <1>2
<1> HIDE DEF u, longer
<1>6. \A i \in 1 .. n + 1 : Lays(u[i - 1], longer[i], u[i])
  <2> SUFFICES ASSUME NEW i \in 1 .. n + 1 PROVE Lays(u[i - 1], longer[i], u[i])
    OBVIOUS
  <2>1. CASE i = n + 1
    <3>1. u[i - 1] = d
      BY <1>1, <1>2, <1>5, <2>1
    <3> QED
      BY <1>3, <1>4, <2>1, <3>1
  <2>2. CASE i # n + 1
    <3>1. i \in 1 .. n /\ u[i - 1] = t[i - 1] /\ u[i] = t[i]
      BY <1>2, <1>5, <2>2
    <3> QED
      BY <1>1, <1>3, <3>1
  <2> QED
    BY <2>1, <2>2
<1>7. u[0] = c
  BY <1>1, <1>2, <1>5
<1> QED
  BY <1>2, <1>4, <1>6, <1>7 DEF Laid

LEMMA LaidRest ==
    ASSUME NEW queue \in Seq(Lines), queue # <<>>, NEW c, NEW d, Laid(queue, c, d)
    PROVE  \E b \in Fields : Lays(c, Head(queue), b) /\ Laid(Tail(queue), b, d)
<1> DEFINE n == Len(queue)
           rest == Tail(queue)
<1>1. PICK t \in [0 .. n -> Fields] :
          /\ t[0] = c /\ t[n] = d
          /\ \A i \in 1 .. n : Lays(t[i - 1], queue[i], t[i])
  BY DEF Laid
<1>2. n \in Nat /\ n >= 1 /\ Len(rest) = n - 1 /\ Head(queue) = queue[1]
  BY HeadTailProperties, LenProperties, EmptySeq
<1>3. \A i \in 1 .. n - 1 : rest[i] = queue[i + 1]
  BY <1>2, HeadTailProperties
<1> DEFINE u == [i \in 0 .. n - 1 |-> t[i + 1]]
<1>4. u \in [0 .. n - 1 -> Fields] /\ \A i \in 0 .. n - 1 : u[i] = t[i + 1]
  BY <1>2
<1> HIDE DEF u, rest
<1>5. \A i \in 1 .. n - 1 : Lays(u[i - 1], rest[i], u[i])
  <2> SUFFICES ASSUME NEW i \in 1 .. n - 1 PROVE Lays(u[i - 1], rest[i], u[i])
    OBVIOUS
  <2>1. u[i - 1] = t[i] /\ u[i] = t[i + 1] /\ i + 1 \in 1 .. n /\ rest[i] = queue[i + 1]
    BY <1>2, <1>3, <1>4
  <2>2. Lays(t[i + 1 - 1], queue[i + 1], t[i + 1])
    BY <1>1, <2>1
  <2> QED
    BY <1>2, <2>1, <2>2
<1>6. u[0] = t[1] /\ u[n - 1] = d /\ t[1] \in Fields
  BY <1>1, <1>2, <1>4
<1>7. Laid(rest, t[1], d)
  BY <1>2, <1>4, <1>5, <1>6 DEF Laid
<1>8. Lays(c, Head(queue), t[1])
  BY <1>1, <1>2
<1> QED
  BY <1>6, <1>7, <1>8 DEF rest

-----------------------------------------------------------------------------

(* What is seen of the end of a channel does not depend on the player's own field. *)
LEMMA HearingSeen ==
    ASSUME NEW channel \in Seq(Said), NEW c \in ClientPrograms, NEW v, Hearing(channel, c, v),
           NEW w, Course(channel, Seen(c), w)
    PROVE  v \in ClientPrograms /\ w = Seen(v)
<1> DEFINE n == Len(channel)
<1>1. PICK u \in [0 .. n -> ClientPrograms] :
          /\ u[0] = c /\ u[n] = v
          /\ \A i \in 1 .. n : Hears(u[i - 1], channel[i], u[i])
  BY DEF Hearing
<1>2. PICK t \in [0 .. n -> ClientPrograms] :
          /\ t[0] = Seen(c) /\ t[n] = w
          /\ \A i \in 1 .. n : Heard(t[i - 1], channel[i], t[i])
  BY DEF Course
<1>3. n \in Nat /\ \A i \in 1 .. n : channel[i] \in Said
  BY LenProperties, ElementOfSeq
<1> DEFINE T == {i \in Nat : i <= n => t[i] = Seen(u[i])}
<1>4. 0 \in T
  BY <1>1, <1>2
<1>5. ASSUME NEW i \in Nat, i < n, i \in T PROVE i + 1 \in T
  <2>1. /\ i + 1 \in Nat /\ i + 1 \in 1 .. n /\ i + 1 - 1 = i /\ u[i] \in ClientPrograms /\ t[i] = Seen(u[i])
        /\ channel[i + 1] \in Said
    BY <1>1, <1>3, <1>5
  <2>2. Hears(u[i], channel[i + 1], u[i + 1]) /\ Heard(t[i], channel[i + 1], t[i + 1])
    BY <1>1, <1>2, <2>1
  <2>3. t[i + 1] = Seen(Hear(Seen(u[i]), channel[i + 1])) /\ u[i + 1] = Hear(u[i], channel[i + 1])
    BY <2>1, <2>2 DEF Hears, Heard
  <2>4. Seen(Hear(Seen(u[i]), channel[i + 1])) = Seen(Hear(u[i], channel[i + 1]))
    BY <2>1, SeenHear
  <2> QED
    BY <2>3, <2>4
<1>6. 0 .. n \subseteq T
  <2>1. T \in SUBSET Nat
    OBVIOUS
  <2> HIDE DEF T
  <2> QED
    BY <1>3, <1>4, <1>5, <2>1, EveryTurn
<1> QED
  BY <1>1, <1>2, <1>3, <1>6

(* One who may still place ships: nothing he is told touches his field. *)
Preparing(c) == c.state = "session" /\ c.gameState = "preparation" /\ ~c.ready

LEMMA PreparingHears ==
    ASSUME NEW c \in ClientPrograms, Preparing(c), NEW msg \in Said, NEW m \in Fields
    PROVE  /\ Hear(c, msg) \in ClientPrograms /\ Preparing(Hear(c, msg))
           /\ Hear(c, msg).m_my = c.m_my
           /\ [c EXCEPT !.m_my = m] \in ClientPrograms
           /\ Hear([c EXCEPT !.m_my = m], msg) = [Hear(c, msg) EXCEPT !.m_my = m]
<1> DEFINE d == [c EXCEPT !.m_my = m]
<1>1. /\ d \in ClientPrograms /\ Preparing(d) /\ d.m_my = m
      /\ d.serverError = c.serverError
  BY DEF ClientPrograms, Preparing
<1>2. /\ Hear(c, msg) = [c EXCEPT !.serverError = @ \/ FirstLetter(msg) = "f"]
      /\ Hear(d, msg) = [d EXCEPT !.serverError = @ \/ FirstLetter(msg) = "f"]
  BY <1>1 DEF Hear, HearPreparation, Preparing
<1>3. Hear(c, msg) \in ClientPrograms
  BY HearType
<1>4. Preparing(Hear(c, msg)) /\ Hear(c, msg).m_my = c.m_my
  BY <1>2 DEF Preparing, ClientPrograms
<1>5. Hear(d, msg) = [Hear(c, msg) EXCEPT !.m_my = m]
  BY <1>2 DEF ClientPrograms
<1> QED
  BY <1>1, <1>3, <1>4, <1>5

LEMMA HearingStill ==
    ASSUME NEW channel \in Seq(Said), NEW c \in ClientPrograms, Preparing(c),
           NEW v, Hearing(channel, c, v), NEW m \in Fields
    PROVE  /\ v \in ClientPrograms /\ Preparing(v) /\ v.m_my = c.m_my
           /\ [v EXCEPT !.m_my = m] \in ClientPrograms
           /\ Hearing(channel, [c EXCEPT !.m_my = m], [v EXCEPT !.m_my = m])
<1> DEFINE n == Len(channel)
<1>1. PICK u \in [0 .. n -> ClientPrograms] :
          /\ u[0] = c /\ u[n] = v
          /\ \A i \in 1 .. n : Hears(u[i - 1], channel[i], u[i])
  BY DEF Hearing
<1>2. n \in Nat /\ \A i \in 1 .. n : channel[i] \in Said
  BY LenProperties, ElementOfSeq
<1> DEFINE T == {i \in Nat : i <= n => Preparing(u[i]) /\ u[i].m_my = c.m_my}
<1>3. 0 \in T
  BY <1>1
<1>4. ASSUME NEW i \in Nat, i < n, i \in T PROVE i + 1 \in T
  <2>1. /\ i + 1 \in Nat /\ i + 1 \in 1 .. n /\ i + 1 - 1 = i /\ u[i] \in ClientPrograms
        /\ Preparing(u[i]) /\ u[i].m_my = c.m_my /\ channel[i + 1] \in Said
    BY <1>1, <1>2, <1>4
  <2>2. Hears(u[i], channel[i + 1], u[i + 1])
    BY <1>1, <2>1
  <2>3. u[i + 1] = Hear(u[i], channel[i + 1])
    BY <2>2 DEF Hears
  <2> QED
    BY <2>1, <2>3, PreparingHears
<1>5. 0 .. n \subseteq T
  <2>1. T \in SUBSET Nat
    OBVIOUS
  <2> HIDE DEF T
  <2> QED
    BY <1>2, <1>3, <1>4, <2>1, EveryTurn
<1>6. \A i \in 0 .. n : u[i] \in ClientPrograms /\ Preparing(u[i]) /\ u[i].m_my = c.m_my
  BY <1>1, <1>2, <1>5
<1> DEFINE t == [i \in 0 .. n |-> [u[i] EXCEPT !.m_my = m]]
<1>7. t \in [0 .. n -> ClientPrograms]
  <2> SUFFICES ASSUME NEW i \in 0 .. n PROVE [u[i] EXCEPT !.m_my = m] \in ClientPrograms
    OBVIOUS
  <2> QED
    BY <1>6 DEF ClientPrograms
<1>8. \A i \in 0 .. n : t[i] = [u[i] EXCEPT !.m_my = m]
  OBVIOUS
<1> HIDE DEF t, T
<1>9. ASSUME NEW i \in 1 .. n PROVE Hears(t[i - 1], channel[i], t[i])
  <2>1. i - 1 \in 0 .. n /\ i \in 0 .. n /\ channel[i] \in Said
    BY <1>2
  <2>2. u[i] = Hear(u[i - 1], channel[i])
    BY <1>1 DEF Hears
  <2>3. Hear([u[i - 1] EXCEPT !.m_my = m], channel[i])
            = [Hear(u[i - 1], channel[i]) EXCEPT !.m_my = m]
    BY <1>6, <2>1, PreparingHears
  <2> QED
    BY <1>8, <2>1, <2>2, <2>3 DEF Hears
<1>10. 0 \in 0 .. n /\ n \in 0 .. n
  BY <1>2
<1>11. t[0] = [c EXCEPT !.m_my = m] /\ t[n] = [v EXCEPT !.m_my = m]
  BY <1>1, <1>8, <1>10
<1>12. [v EXCEPT !.m_my = m] \in ClientPrograms
  BY <1>7, <1>10, <1>11
<1>13. v \in ClientPrograms /\ Preparing(v) /\ v.m_my = c.m_my
  BY <1>1, <1>6, <1>10
<1>14. Hearing(channel, [c EXCEPT !.m_my = m], [v EXCEPT !.m_my = m])
  BY <1>7, <1>9, <1>11 DEF Hearing
<1> QED
  BY <1>12, <1>13, <1>14

(* The counters of a field with those of another as a bound. *)
Below(f, m) == \A l \in Lengths : f.placed[l] <= m.placed[l]

LEMMA BelowTransitive ==
    ASSUME NEW f \in Fields, NEW g \in Fields, NEW m \in Fields, Below(f, g), Below(g, m)
    PROVE  Below(f, m)
<1> SUFFICES ASSUME NEW l \in Lengths PROVE f.placed[l] <= m.placed[l]
  BY DEF Below
<1>1. f.placed[l] \in Nat /\ g.placed[l] \in Nat /\ m.placed[l] \in Nat
  BY DEF Fields
<1> QED
  BY <1>1 DEF Below

LEMMA LaysGrows ==
    ASSUME NEW f \in Fields, NEW line \in Lines, NEW g, Lays(f, line, g)
    PROVE  g \in Fields /\ Below(f, g)
<1>1. CASE line.word # "ship"
  BY <1>1 DEF Lays, Below, Fields
<1>2. CASE line.word = "ship"
  <2> DEFINE s == line.ship
  <2>1. CanSetShip(f, s) /\ g = SetShip(f, s)
    BY <1>2 DEF Lays
  <2>2. g \in Fields
    BY <2>1, SetShipType
  <2>3. s.length \in Lengths /\ f.placed \in [Lengths -> Nat]
        /\ g.placed = [f.placed EXCEPT ![s.length] = @ + 1]
    BY <2>1 DEF CanSetShip, Fields, SetShip
  <2>4. Below(f, g)
    BY <2>3 DEF Below
  <2> QED
    BY <2>2, <2>4
<1> QED
  BY <1>1, <1>2

LEMMA LaidGrows ==
    ASSUME NEW queue \in Seq(Lines), NEW f \in Fields, NEW g, Laid(queue, f, g)
    PROVE  g \in Fields /\ Below(f, g)
<1> DEFINE n == Len(queue)
<1>1. PICK t \in [0 .. n -> Fields] :
          /\ t[0] = f /\ t[n] = g
          /\ \A i \in 1 .. n : Lays(t[i - 1], queue[i], t[i])
  BY DEF Laid
<1>2. n \in Nat /\ \A i \in 1 .. n : queue[i] \in Lines
  BY LenProperties, ElementOfSeq
<1> DEFINE T == {i \in Nat : i <= n => Below(f, t[i])}
<1>3. 0 \in T
  BY <1>1 DEF Below, Fields
<1>4. ASSUME NEW i \in Nat, i < n, i \in T PROVE i + 1 \in T
  <2>1. /\ i + 1 \in Nat /\ i + 1 \in 1 .. n /\ i + 1 - 1 = i /\ t[i] \in Fields /\ Below(f, t[i])
        /\ queue[i + 1] \in Lines
    BY <1>1, <1>2, <1>4
  <2>2. Lays(t[i], queue[i + 1], t[i + 1])
    BY <1>1, <2>1
  <2>3. t[i + 1] \in Fields /\ Below(t[i], t[i + 1])
    BY <2>1, <2>2, LaysGrows
  <2> QED
    BY <2>1, <2>3, BelowTransitive
<1>5. 0 .. n \subseteq T
  <2>1. T \in SUBSET Nat
    OBVIOUS
  <2> HIDE DEF T
  <2> QED
    BY <1>2, <1>3, <1>4, <2>1, EveryTurn
<1> QED
  BY <1>1, <1>2, <1>5

(* Lines that change no field on the server. *)
NoShips(queue) == \A i \in DOMAIN queue : queue[i].word # "ship"

LEMMA LaidStill ==
    ASSUME NEW queue \in Seq(Lines), NoShips(queue), NEW f \in Fields
    PROVE  \A g : Laid(queue, f, g) <=> g = f
<1> DEFINE n == Len(queue)
<1>1. n \in Nat /\ \A i \in 1 .. n : queue[i].word # "ship"
  BY LenProperties, SeqParts DEF NoShips
<1>2. ASSUME NEW g, Laid(queue, f, g) PROVE g = f
  <2>1. PICK t \in [0 .. n -> Fields] :
            /\ t[0] = f /\ t[n] = g
            /\ \A i \in 1 .. n : Lays(t[i - 1], queue[i], t[i])
    BY <1>2 DEF Laid
  <2> DEFINE T == {i \in Nat : i <= n => t[i] = f}
  <2>2. 0 \in T
    BY <2>1
  <2>3. ASSUME NEW i \in Nat, i < n, i \in T PROVE i + 1 \in T
    <3>1. i + 1 \in Nat /\ i + 1 \in 1 .. n /\ i + 1 - 1 = i /\ t[i] = f
      BY <1>1, <2>3
    <3>2. Lays(t[i], queue[i + 1], t[i + 1]) /\ queue[i + 1].word # "ship"
      BY <1>1, <2>1, <3>1
    <3> QED
      BY <3>1, <3>2 DEF Lays
  <2>4. 0 .. n \subseteq T
    <3>1. T \in SUBSET Nat
      OBVIOUS
    <3> HIDE DEF T
    <3> QED
      BY <1>1, <2>2, <2>3, <3>1, EveryTurn
  <2> QED
    BY <1>1, <2>1, <2>4
<1>3. Laid(queue, f, f)
  <2> DEFINE t == [i \in 0 .. n |-> f]
  <2>1. /\ t \in [0 .. n -> Fields] /\ t[0] = f /\ t[n] = f
        /\ \A i \in 1 .. n : t[i] = f /\ t[i - 1] = f
    BY <1>1
  <2> HIDE DEF t
  <2>2. \A i \in 1 .. n : Lays(t[i - 1], queue[i], t[i])
    BY <1>1, <2>1 DEF Lays
  <2> QED
    BY <2>1, <2>2 DEF Laid
<1> QED
  BY <1>2, <1>3

(* No more ships of a length than are allowed. *)
Bounded(m) == \A l \in Lengths : m.placed[l] <= Quota[l]

(* Ships are on their way only while the server will still place them. *)
ShipsFit(ts, d) == \A i \in DOMAIN ts : ts[i].word = "ship" => InPreparation(d)

(* Of the server's field f, after the lines ts, and of the client v after all it is to hear. *)
Shows(c, ts, v, f) ==
    \E g \in Fields :
        /\ Laid(ts, f, g) /\ Below(g, c.m_my)
        /\ c.program = "running" => v.m_my.ship = g.ship /\ v.m_my.shot = g.shot

(* In a session the server will take every ship on its way, and the two fields will be the
   same; the client has counted at least as many ships as the server will, and never more
   than allowed. *)
Own(c, pr, ts, tc, d, f) ==
    /\ Bounded(c.m_my)
    /\ c.program = "running" /\ pr # NoLine /\ pr.word = "ship" => Preparing(c)
    /\ d.life = "open" => ShipsFit(ts, d)
    /\ \E v \in ClientPrograms :
           /\ c.program = "running" => Hearing(tc, c, v)
           /\ d.life = "open" /\ d.state = "session" => Shows(c, ts, v, f)

LEMMA CopyKeepsPlaced ==
    ASSUME NEW f \in Fields, NEW cell, NEW letter \in ShotAnswers
    PROVE  CopyAnswer(f, cell, letter).placed = f.placed
BY DEF CopyAnswer, MarkMiss, MarkHit, Kill, Fields, ShotAnswers

LEMMA HearKeepsPlaced ==
    ASSUME NEW c \in ClientPrograms, NEW msg \in Said
    PROVE  Hear(c, msg).m_my.placed = c.m_my.placed
<1>1. c.m_my \in Fields /\ \A m : [c EXCEPT !.m_my = m].m_my = m
  BY DEF ClientPrograms
<1>2. Clear(c.m_my).placed = c.m_my.placed
  BY <1>1 DEF Clear, Fields
<1>3. CASE c.state = "connected"
  BY <1>3 DEF Hear, HearConnected, Throw, ClientPrograms
<1>4. CASE c.state = "lobby"
  BY <1>2, <1>4 DEF Hear, HearLobby, EnterSession, Throw, ClientPrograms
<1>5. CASE c.state = "session" /\ c.gameState = "preparation"
  BY <1>5 DEF Hear, HearPreparation, HearStart, ClientPrograms
<1>6. CASE c.state = "session" /\ c.gameState = "my_turn"
  BY <1>6 DEF Hear, HearMyTurn, Throw, ClientPrograms
<1>7. CASE c.state = "session" /\ c.gameState = "enemy_turn"
  <2>1. Hear(c, msg) = HearEnemyTurn(c, msg)
    BY <1>7 DEF Hear
  <2>2. CASE msg.letter \in ShotAnswers
    <3>1. HearEnemyTurn(c, msg) =
              [c EXCEPT !.m_my = CopyAnswer(c.m_my, msg.cell, msg.letter),
                        !.gameState = AfterAnswer(msg.letter, "enemy_turn", "my_turn")]
      BY <2>2 DEF HearEnemyTurn, ShotAnswers
    <3>2. Hear(c, msg).m_my = CopyAnswer(c.m_my, msg.cell, msg.letter)
      BY <2>1, <3>1 DEF ClientPrograms
    <3> QED
      BY <1>1, <2>2, <3>2, CopyKeepsPlaced
  <2>3. CASE msg.letter \notin ShotAnswers
    BY <2>1, <2>3 DEF HearEnemyTurn, Throw, ClientPrograms
  <2> QED
    BY <2>2, <2>3
<1>8. CASE c.state = "session" /\ c.gameState = "end"
  BY <1>8 DEF Hear, HearEnd, ClientPrograms
<1>9. CASE c.state = "session" /\ c.gameState = "garbage"
  BY <1>9 DEF Hear, HearEnd, ClientPrograms
<1> QED
  BY <1>3, <1>4, <1>5, <1>6, <1>7, <1>8, <1>9 DEF ClientPrograms, EgsValues

(* What the client will believe of the place and the game when it has heard all it is to
   hear is what the server does. *)
LEMMA HearingAgrees ==
    ASSUME NEW c, NEW pr, NEW ts, NEW tc, NEW d, Player(c, pr, ts, tc, d),
           c.program = "running", NEW v \in ClientPrograms, Hearing(tc, c, v)
    PROVE  /\ v.program = "running"
           /\ d.life = "open" => /\ v.state = d.state
                                 /\ v.state = "session" => v.gameState = d.game
                                 /\ d.game = "preparation" /\ v.state = "session" /\ v.ready =>
                                        AwaitsTurns(c)
<1>1. /\ c \in ClientPrograms /\ tc \in Seq(Said) /\ Follows(c, tc, d)
  BY DEF Player, Good, RunningFits
<1>2. PICK w \in ClientPrograms :
          /\ Course(tc, Seen(c), w) /\ w.program = "running"
          /\ d.life = "open" => Agrees(w, c, d)
  BY <1>1 DEF Follows
<1>3. w = Seen(v)
  BY <1>1, <1>2, HearingSeen
<1>4. /\ w.state = v.state /\ w.gameState = v.gameState /\ w.ready = v.ready
      /\ w.program = v.program
  BY <1>3, SeenParts
<1> QED
  BY <1>2, <1>4 DEF Agrees

LEMMA PressOwn ==
    ASSUME NEW c \in ClientPrograms, NEW ts, NEW tc, NEW d, NEW f, Own(c, NoLine, ts, tc, d, f),
           NEW line, ~AwaitsTurns(c), line.word \in OfferedWords(c)
    PROVE  Own(c, line, ts, tc, d, f)
<1>1. line.word = "ship" => Preparing(c)
  BY DEF OfferedWords, ButtonWords, ShotWords, AwaitsTurns, Preparing, ClientPrograms
<1> QED
  BY <1>1 DEF Own

LEMMA ReceiveOwn ==
    ASSUME NEW c \in ClientPrograms, NEW pr, NEW ts, NEW tc \in Seq(Said), NEW d, NEW f,
           Own(c, pr, ts, tc, d, f), c.program = "running", tc # <<>>
    PROVE  Own(Hear(c, Head(tc)), pr, ts, Tail(tc), d, f)
<1> DEFINE h == Hear(c, Head(tc))
<1>1. Head(tc) \in Said
  BY SeqParts
<1>2. h \in ClientPrograms /\ h.m_my.placed = c.m_my.placed
  BY <1>1, HearType, HearKeepsPlaced
<1>3. PICK v \in ClientPrograms :
          /\ Hearing(tc, c, v)
          /\ d.life = "open" /\ d.state = "session" => Shows(c, ts, v, f)
  BY DEF Own
<1>4. PICK b \in ClientPrograms : Hears(c, Head(tc), b) /\ Hearing(Tail(tc), b, v)
  BY <1>3, HearingRest
<1>5. b = h
  BY <1>4 DEF Hears
<1>6. Preparing(c) => Preparing(h)
  BY <1>1, PreparingHears DEF ClientPrograms
<1> HIDE DEF h
<1>7. \A g : Below(g, c.m_my) => Below(g, h.m_my)
  BY <1>2 DEF Below
<1>8. Shows(c, ts, v, f) => Shows(h, ts, v, f)
  BY <1>7 DEF Shows
<1>9. Bounded(h.m_my) /\ (pr # NoLine /\ pr.word = "ship" => Preparing(h))
      /\ (d.life = "open" => ShipsFit(ts, d))
  BY <1>2, <1>6 DEF Own, Bounded
<1>10. Own(h, pr, ts, Tail(tc), d, f)
  BY <1>3, <1>4, <1>5, <1>8, <1>9 DEF Own
<1> QED
  BY <1>10 DEF h

LEMMA CloseOwn ==
    ASSUME NEW c \in ClientPrograms, NEW pr, NEW ts, NEW tc, NEW d, NEW f,
           Own(c, pr, ts, tc, d, f)
    PROVE  Own([c EXCEPT !.program = "closed"], pr, ts, tc, d, f)
<1> DEFINE h == [c EXCEPT !.program = "closed"]
<1>1. h.m_my = c.m_my /\ h.program # "running"
  BY DEF ClientPrograms
<1> HIDE DEF h
<1>2. PICK v \in ClientPrograms :
          d.life = "open" /\ d.state = "session" => Shows(c, ts, v, f)
  BY DEF Own
<1>3. Shows(c, ts, v, f) => Shows(h, ts, v, f)
  BY <1>1 DEF Shows
<1>4. Own(h, pr, ts, tc, d, f)
  BY <1>1, <1>2, <1>3 DEF Own
<1> QED
  BY <1>4 DEF h

LEMMA OffOwn ==
    ASSUME NEW c \in ClientPrograms, c.program # "running", Bounded(c.m_my), NEW pr, NEW ts,
           NEW tc, NEW d, d.life # "open", NEW f
    PROVE  Own(c, pr, ts, tc, d, f)
BY DEF Own

(* A line that is no ship changes nothing of it. *)
LEMMA LineOwn ==
    ASSUME NEW c \in ClientPrograms, NEW line \in Lines, line.word # "ship",
           NEW ts \in Seq(Lines), NEW tc, NEW d, NEW f,
           d.life = "open" /\ d.state = "session" => f \in Fields,
           Own(c, line, ts, tc, d, f), NEW ts2 \in {ts, Append(ts, line)},
           NEW h \in ClientPrograms, h.m_my = c.m_my,
           h.program = "running" =>
               /\ c.program = "running"
               /\ \A v \in ClientPrograms : Hearing(tc, c, v) =>
                      \E w \in ClientPrograms : Hearing(tc, h, w) /\ w.m_my = v.m_my
    PROVE  Own(h, NoLine, ts2, tc, d, f)
<1>1. PICK v \in ClientPrograms :
          /\ c.program = "running" => Hearing(tc, c, v)
          /\ d.life = "open" /\ d.state = "session" => Shows(c, ts, v, f)
  BY DEF Own
<1>2. PICK w \in ClientPrograms :
          h.program = "running" => Hearing(tc, h, w) /\ w.m_my = v.m_my
  BY <1>1
<1>3. d.life = "open" => ShipsFit(ts2, d)
  <2>1. DOMAIN ts = 1 .. Len(ts) /\ Len(ts) \in Nat
        /\ DOMAIN Append(ts, line) = 1 .. Len(ts) + 1
        /\ (\A i \in 1 .. Len(ts) : Append(ts, line)[i] = ts[i])
        /\ Append(ts, line)[Len(ts) + 1] = line
    BY SeqParts
  <2>2. d.life = "open" => ShipsFit(ts, d)
    BY DEF Own
  <2> HIDE DEF Own
  <2>3. \A i \in 1 .. Len(ts) + 1 : i \in 1 .. Len(ts) \/ i = Len(ts) + 1
    BY <2>1
  <2>4. d.life = "open" => ShipsFit(Append(ts, line), d)
    BY <2>1, <2>2, <2>3 DEF ShipsFit
  <2> QED
    BY <2>2, <2>4
<1>4. ASSUME d.life = "open", d.state = "session" PROVE Shows(h, ts2, w, f)
  <2>1. PICK g \in Fields :
            /\ Laid(ts, f, g) /\ Below(g, c.m_my)
            /\ c.program = "running" => v.m_my.ship = g.ship /\ v.m_my.shot = g.shot
    BY <1>1, <1>4 DEF Shows
  <2>2. Lays(g, line, g)
    BY DEF Lays
  <2>3. Laid(ts \o <<line>>, f, g) /\ ts \o <<line>> = Append(ts, line)
    BY <2>1, <2>2, LaidOn, SeqParts
  <2>4. Laid(ts2, f, g)
    BY <2>1, <2>3
  <2>5. Below(g, h.m_my)
    BY <2>1
  <2> QED
    BY <1>2, <2>1, <2>4, <2>5 DEF Shows
<1>5. Bounded(h.m_my)
  BY DEF Own
<1> QED
  BY <1>2, <1>3, <1>4, <1>5 DEF Own

(* The ship goes onto the client's field before the server has the line. *)
LEMMA ShipOwn ==
    ASSUME NEW c, NEW line \in Lines, NEW ts, NEW tc, NEW d, Player(c, line, ts, tc, d),
           c.program = "running", line.word = "ship", NEW f,
           d.life = "open" /\ d.state = "session" => f \in Fields,
           Own(c, line, ts, tc, d, f), PlacesShip(c, line)
    PROVE  Own([c EXCEPT !.m_my = SetShip(@, line.ship)], NoLine, Append(ts, line), tc, d, f)
<1> DEFINE s == line.ship
           m == SetShip(c.m_my, s)
           h == [c EXCEPT !.m_my = m]
<1>1. /\ c \in ClientPrograms /\ ts \in Seq(Lines) /\ tc \in Seq(Said) /\ c.m_my \in Fields
      /\ CanSetShip(c.m_my, s)
  BY DEF Player, PlacesShip, ClientPrograms
<1>2. Preparing(c) /\ Bounded(c.m_my)
  BY SystemAssumption DEF Own
<1>3. m \in Fields
  BY <1>1, SetShipType
<1>4. h \in ClientPrograms /\ h.m_my = m
  BY <1>1, <1>3 DEF ClientPrograms
<1>5. PICK v \in ClientPrograms :
          /\ Hearing(tc, c, v)
          /\ d.life = "open" /\ d.state = "session" => Shows(c, ts, v, f)
  BY DEF Own
<1> HIDE DEF m
<1>6. /\ Preparing(v) /\ v.m_my = c.m_my /\ [v EXCEPT !.m_my = m] \in ClientPrograms
      /\ Hearing(tc, h, [v EXCEPT !.m_my = m])
  BY <1>1, <1>2, <1>3, <1>5, HearingStill
<1>7. d.life = "open" => InPreparation(d)
  BY <1>5, <1>6, HearingAgrees DEF InPreparation, Preparing
<1>8. /\ s.length \in Lengths /\ c.m_my.placed \in [Lengths -> Nat]
      /\ c.m_my.placed[s.length] # Quota[s.length]
      /\ m.placed = [c.m_my.placed EXCEPT ![s.length] = @ + 1]
      /\ m.ship = c.m_my.ship \cup ShipCells(s) /\ m.shot = c.m_my.shot
      /\ Quota \in [Lengths -> Nat]
  BY <1>1, FieldAssumption DEF CanSetShip, Fields, SetShip, m
<1>9. Bounded(m)
  BY <1>2, <1>8 DEF Bounded
<1>10. d.life = "open" => ShipsFit(Append(ts, line), d)
  BY <1>7 DEF ShipsFit
<1>11. ASSUME d.life = "open", d.state = "session"
       PROVE  Shows(h, Append(ts, line), [v EXCEPT !.m_my = m], f)
  <2>1. PICK g \in Fields :
            /\ Laid(ts, f, g) /\ Below(g, c.m_my)
            /\ v.m_my.ship = g.ship /\ v.m_my.shot = g.shot
    BY <1>5, <1>11 DEF Shows
  <2> DEFINE g2 == SetShip(g, s)
  <2>2. g.placed \in [Lengths -> Nat] /\ g.placed[s.length] <= c.m_my.placed[s.length]
    BY <1>8, <2>1 DEF Fields, Below
  <2>3. g.placed[s.length] # Quota[s.length]
    BY <1>2, <1>8, <2>2 DEF Bounded
  <2>4. CanSetShip(g, s)
    BY <1>1, <1>6, <2>1, <2>3 DEF CanSetShip
  <2>5. g2 \in Fields
    BY <2>4, SetShipType
  <2>6. g2.ship = g.ship \cup ShipCells(s) /\ g2.shot = g.shot
        /\ g2.placed = [g.placed EXCEPT ![s.length] = @ + 1]
    BY DEF SetShip, Fields
  <2> HIDE DEF g2
  <2>7. Below(g2, m)
    BY <1>8, <2>1, <2>2, <2>6 DEF Below
  <2>8. Lays(g, line, g2)
    BY <2>4 DEF Lays, g2
  <2>9. Laid(ts \o <<line>>, f, g2) /\ ts \o <<line>> = Append(ts, line)
    BY <1>1, <2>1, <2>5, <2>8, LaidOn, SeqParts
  <2>10. [v EXCEPT !.m_my = m].m_my = m
    BY <1>5 DEF ClientPrograms
  <2>11. m.ship = g2.ship /\ m.shot = g2.shot
    BY <1>6, <1>8, <2>1, <2>6
  <2> HIDE DEF h
  <2> QED
    BY <1>4, <2>5, <2>7, <2>9, <2>10, <2>11 DEF Shows
<1> HIDE DEF h
<1>12. Own(h, NoLine, Append(ts, line), tc, d, f)
  BY <1>4, <1>6, <1>9, <1>10, <1>11 DEF Own
<1> QED
  BY <1>12 DEF h, m

LEMMA ActOwn ==
    ASSUME NEW c, NEW line \in Lines, NEW ts, NEW tc, NEW d, Player(c, line, ts, tc, d),
           c.program = "running", NEW f,
           d.life = "open" /\ d.state = "session" => f \in Fields,
           Own(c, line, ts, tc, d, f),
           NEW ts2, ts2 = IF Sends(c, line) THEN Append(ts, line) ELSE ts,
           NEW h, h = IF line.word = "quit" THEN [c EXCEPT !.program = "closed"]
                      ELSE Typed(c, line)
    PROVE  Own(h, NoLine, ts2, tc, d, f)
<1>1. /\ c \in ClientPrograms /\ ts \in Seq(Lines) /\ tc \in Seq(Said)
      /\ ts2 \in {ts, Append(ts, line)}
      /\ PressedFits(c, line, ts, tc) /\ line # NoLine
  BY SystemAssumption DEF Player, Good, RunningFits
<1>2. CASE line.word = "quit"
  <2>1. h \in ClientPrograms /\ h.m_my = c.m_my /\ h.program # "running"
    BY <1>1, <1>2 DEF ClientPrograms
  <2> QED
    BY <1>1, <1>2, <2>1, LineOwn
<1>3. CASE line.word = "ship"
  <2>1. Preparing(c)
    BY <1>1, <1>3 DEF Own
  <2>2. CASE PlacesShip(c, line)
    <3>1. ts2 = Append(ts, line) /\ h = [c EXCEPT !.m_my = SetShip(@, line.ship)]
      BY <1>3, <2>1, <2>2 DEF Sends, Typed, Preparing
    <3> QED
      BY <1>3, <2>2, <3>1, ShipOwn
  <2>3. CASE ~PlacesShip(c, line)
    <3>1. ts2 = ts /\ h = c
      BY <1>3, <2>1, <2>3 DEF Sends, Typed, Preparing, SaysReady
    <3> QED
      BY <3>1 DEF Own
  <2> QED
    BY <2>2, <2>3
<1>4. CASE line.word \notin {"quit", "ship"}
  <2>1. CASE c.state = "session" /\ c.gameState = "preparation" /\ SaysReady(c, line)
    <3>1. /\ h = [c EXCEPT !.ready = TRUE] /\ tc = <<>>
      BY <1>1, <1>4, <2>1 DEF Typed, PlacesShip, SaysReady, PressedFits
    <3>2. h \in ClientPrograms /\ h.m_my = c.m_my /\ h.program = c.program
      BY <1>1, <3>1 DEF ClientPrograms
    <3>3. Hearing(tc, h, h) /\ \A v : Hearing(tc, c, v) => v = c
      BY <1>1, <3>1, <3>2, HearingOfNone
    <3> QED
      BY <1>1, <1>4, <3>2, <3>3, LineOwn
  <2>2. CASE ~(c.state = "session" /\ c.gameState = "preparation" /\ SaysReady(c, line))
    <3>1. h = c
      BY <1>4, <2>2 DEF Typed, PlacesShip
    <3> QED
      BY <1>1, <1>4, <3>1, LineOwn
  <2> QED
    BY <2>1, <2>2
<1> QED
  BY <1>2, <1>3, <1>4

(* Only the enemy's shots and the call to a game change the client's own field. *)
LEMMA HushedHears ==
    ASSUME NEW v \in ClientPrograms, v.state = "session", NEW msg \in Said,
           msg.letter \in ShotAnswers => v.gameState = "my_turn"
    PROVE  Hear(v, msg).m_my = v.m_my
<1>1. CASE v.gameState = "preparation"
  BY <1>1 DEF Hear, HearPreparation, HearStart, ClientPrograms
<1>2. CASE v.gameState = "my_turn"
  BY <1>2 DEF Hear, HearMyTurn, Throw, ClientPrograms
<1>3. CASE v.gameState = "enemy_turn"
  <2>1. msg.letter \notin ShotAnswers /\ Hear(v, msg) = HearEnemyTurn(v, msg)
    BY <1>3 DEF Hear
  <2> QED
    BY <2>1 DEF HearEnemyTurn, Throw, ClientPrograms
<1>4. CASE v.gameState = "end"
  BY <1>4 DEF Hear, HearEnd, ClientPrograms
<1>5. CASE v.gameState = "garbage"
  BY <1>5 DEF Hear, HearEnd, ClientPrograms
<1> QED
  BY <1>1, <1>2, <1>3, <1>4, <1>5 DEF ClientPrograms, EgsValues

LEMMA CalledHears ==
    ASSUME NEW v \in ClientPrograms, v.state = "lobby"
    PROVE  LET r == Hear(v, Say("r"))
               s == Hear(v, Say("s"))
           IN  /\ r \in ClientPrograms /\ r.state = "lobby"
               /\ s \in ClientPrograms /\ s.m_my.ship = {} /\ s.m_my.shot = {}
<1>1. Say("r") \in Said /\ Say("s") \in Said
  BY SaySaid DEF ShotAnswers, Letters
<1>2. Hear(v, Say("r")) \in ClientPrograms /\ Hear(v, Say("s")) \in ClientPrograms
  BY <1>1, HearType
<1>3. Hear(v, Say("r")) = [v EXCEPT !.lobbyReady = TRUE]
  BY DEF Hear, HearLobby, FirstLetter, Say
<1>4. Hear(v, Say("s")) = EnterSession(v)
  BY DEF Hear, HearLobby, FirstLetter, Say
<1>5. Clear(v.m_my).ship = {} /\ Clear(v.m_my).shot = {}
  BY DEF Clear, ClientPrograms, Fields
<1>6. EnterSession(v).m_my = Clear(v.m_my)
  BY DEF EnterSession, ClientPrograms
<1> QED
  BY <1>2, <1>3, <1>4, <1>5, <1>6 DEF ClientPrograms

(* What the enemy's shot does to the field, its answer does to the field's copy. *)
LEMMA AnswerIsShot ==
    ASSUME NEW f \in Fields, NEW cell \in Cells
    PROVE  CopyAnswer(f, cell, ShotAnswer(f, cell)) = ShotField(f, cell)
<1> DEFINE marked == MarkShot(f, cell)
<1>1. CASE cell \notin f.ship
  <2>1. ShotAnswer(f, cell) = "m" /\ ShotField(f, cell) = marked
    BY <1>1 DEF ShotAnswer, ShotField
  <2>2. MarkMiss(f, cell) = marked
    BY <1>1 DEF MarkMiss, MarkShot, Fields
  <2> QED
    BY <2>1, <2>2 DEF CopyAnswer
<1>2. CASE cell \in f.ship
  <2>1. MarkHit(f, cell) = marked
    BY <1>2 DEF MarkHit, MarkShot, Fields
  <2>2. CASE CheckKill(marked, cell)
    <3>1. ShotAnswer(f, cell) \in {"k", "g"} /\ ShotField(f, cell) = Kill(marked, cell)
      BY <1>2, <2>2 DEF ShotAnswer, ShotField
    <3> QED
      BY <2>1, <3>1 DEF CopyAnswer
  <2>3. CASE ~CheckKill(marked, cell)
    <3>1. ShotField(f, cell) = marked
      BY <2>3 DEF ShotField
    <3>2. ~GameFinished(marked)
      <4>1. Walked(marked, cell) \subseteq marked.ship
        BY DEF Walked
      <4> QED
        BY <2>3, <4>1 DEF CheckKill, GameFinished
    <3>3. ShotAnswer(f, cell) = "h"
      BY <1>2, <2>3, <3>1, <3>2 DEF ShotAnswer
    <3> QED
      BY <2>1, <3>1, <3>3 DEF CopyAnswer
  <2> QED
    BY <2>2, <2>3
<1> QED
  BY <1>1, <1>2

LEMMA StruckHears ==
    ASSUME NEW v \in ClientPrograms, v.state = "session", v.gameState = "enemy_turn",
           NEW f \in Fields, v.m_my.ship = f.ship, v.m_my.shot = f.shot, NEW cell \in Cells
    PROVE  LET h == Hear(v, Answer(ShotAnswer(f, cell), cell))
               g == ShotField(f, cell)
           IN  h \in ClientPrograms /\ h.m_my.ship = g.ship /\ h.m_my.shot = g.shot
<1> DEFINE letter == ShotAnswer(f, cell)
           msg == Answer(letter, cell)
<1>1. msg \in Said /\ letter \in ShotAnswers /\ msg.letter = letter /\ msg.cell = cell
  BY AnswerToShot DEF Answer
<1> HIDE DEF letter, msg
<1>2. Hear(v, msg) = HearEnemyTurn(v, msg)
  BY DEF Hear
<1>3. HearEnemyTurn(v, msg) =
          [v EXCEPT !.m_my = CopyAnswer(v.m_my, msg.cell, msg.letter),
                    !.gameState = AfterAnswer(msg.letter, "enemy_turn", "my_turn")]
  BY <1>1 DEF HearEnemyTurn, ShotAnswers
<1>4. Hear(v, msg).m_my = CopyAnswer(v.m_my, cell, letter)
  BY <1>1, <1>2, <1>3 DEF ClientPrograms
<1>5. v.m_my \in Fields
  BY DEF ClientPrograms
<1>6. /\ CopyAnswer(v.m_my, cell, letter).ship = CopyAnswer(f, cell, letter).ship
      /\ CopyAnswer(v.m_my, cell, letter).shot = CopyAnswer(f, cell, letter).shot
  BY <1>1, <1>5, CopiesAlike
<1>7. CopyAnswer(f, cell, letter) = ShotField(f, cell)
  BY AnswerIsShot DEF letter
<1>8. Hear(v, msg) \in ClientPrograms
  BY <1>1, HearType
<1> QED
  BY <1>4, <1>6, <1>7, <1>8 DEF letter, msg

(* What a handler may tell a player of a session without touching his field. *)
Told(d, mail) ==
    \/ mail = <<>>
    \/ \E msg \in Said : mail = <<msg>> /\ (msg.letter \in ShotAnswers => d.game = "my_turn")

(* The game is called, and the server clears the field. *)
CalledOwn(d, mail, f, f2) ==
    /\ d.state = "lobby" /\ f2 = Clear(f)
    /\ mail = <<Say("s")>> \/ mail = <<Say("r"), Say("s")>>

(* The enemy has shot. *)
StruckOwn(d, mail, f, f2) ==
    /\ d.state = "session" /\ d.game = "enemy_turn"
    /\ \E cell \in Cells :
           f2 = ShotField(f, cell) /\ mail = <<Answer(ShotAnswer(f, cell), cell)>>

LEMMA GrownHears ==
    ASSUME NEW c \in ClientPrograms, NEW tc \in Seq(Said), NEW v \in ClientPrograms,
           c.program = "running", Hearing(tc, c, v), NEW msg \in Said
    PROVE  /\ Grown(c, tc, <<>>) = tc
           /\ Grown(c, tc, <<msg>>) \in Seq(Said)
           /\ Hearing(Grown(c, tc, <<msg>>), c, Hear(v, msg)) /\ Hear(v, msg) \in ClientPrograms
           /\ \A told \in Said :
                  /\ Hearing(Grown(c, tc, <<msg, told>>), c, Hear(Hear(v, msg), told))
                  /\ Hear(Hear(v, msg), told) \in ClientPrograms
<1>1. Grown(c, tc, <<>>) = tc /\ Grown(c, tc, <<msg>>) = tc \o <<msg>>
  BY ConcatEmptySeq DEF Grown
<1>2. Hear(v, msg) \in ClientPrograms /\ Hears(v, msg, Hear(v, msg))
  BY HearType DEF Hears
<1>3. Hearing(tc \o <<msg>>, c, Hear(v, msg))
  BY <1>2, HearingOn
<1>4. tc \o <<msg>> \in Seq(Said)
  BY SeqParts
<1>5. ASSUME NEW told \in Said
      PROVE  /\ Hearing(Grown(c, tc, <<msg, told>>), c, Hear(Hear(v, msg), told))
             /\ Hear(Hear(v, msg), told) \in ClientPrograms
  <2> DEFINE h == Hear(v, msg)
             longer == tc \o <<msg>>
  <2>1. h \in ClientPrograms /\ longer \in Seq(Said) /\ Hearing(longer, c, h)
    BY <1>2, <1>3, <1>4
  <2>2. Hear(h, told) \in ClientPrograms /\ Hears(h, told, Hear(h, told))
    BY <2>1, HearType DEF Hears
  <2>3. longer \o <<told>> = tc \o <<msg, told>>
    BY SentTwo
  <2> HIDE DEF longer, h
  <2>4. Hearing(longer \o <<told>>, c, Hear(h, told))
    BY <2>1, <2>2, HearingOn
  <2> QED
    BY <2>2, <2>3, <2>4 DEF Grown, h
<1> QED
  BY <1>1, <1>2, <1>3, <1>4, <1>5

Short(mail) ==
    \/ mail = <<>>
    \/ \E msg \in Said : mail = <<msg>>
    \/ \E msg, told \in Said : mail = <<msg, told>>

LEMMA ShortHears ==
    ASSUME NEW c \in ClientPrograms, NEW tc \in Seq(Said), NEW v \in ClientPrograms,
           c.program = "running" => Hearing(tc, c, v), NEW mail, Short(mail)
    PROVE  \E w \in ClientPrograms : c.program = "running" => Hearing(Grown(c, tc, mail), c, w)
<1>1. CASE c.program # "running"
  BY <1>1
<1>2. CASE c.program = "running"
  <2>1. CASE mail = <<>>
    <3>1. Grown(c, tc, mail) = tc
      BY <2>1, ConcatEmptySeq DEF Grown
    <3> QED
      BY <1>2, <3>1
  <2>2. CASE mail # <<>>
    <3>1. PICK msg \in Said : mail = <<msg>> \/ \E told \in Said : mail = <<msg, told>>
      BY <2>2 DEF Short
    <3>2. /\ Hearing(Grown(c, tc, <<msg>>), c, Hear(v, msg)) /\ Hear(v, msg) \in ClientPrograms
          /\ \A told \in Said :
                 /\ Hearing(Grown(c, tc, <<msg, told>>), c, Hear(Hear(v, msg), told))
                 /\ Hear(Hear(v, msg), told) \in ClientPrograms
      BY <1>2, GrownHears
    <3> QED
      BY <3>1, <3>2
  <2> QED
    BY <2>1, <2>2
<1> QED
  BY <1>1, <1>2

LEMMA ToldHears ==
    ASSUME NEW c \in ClientPrograms, NEW tc \in Seq(Said), NEW v \in ClientPrograms,
           c.program = "running", Hearing(tc, c, v), NEW d, v.state = "session",
           v.gameState = d.game, NEW mail, Told(d, mail)
    PROVE  \E w \in ClientPrograms : Hearing(Grown(c, tc, mail), c, w) /\ w.m_my = v.m_my
<1>1. CASE mail = <<>>
  <2>1. Grown(c, tc, mail) = tc
    BY <1>1, ConcatEmptySeq DEF Grown
  <2> QED
    BY <2>1
<1>2. CASE mail # <<>>
  <2>1. PICK msg \in Said : mail = <<msg>> /\ (msg.letter \in ShotAnswers => d.game = "my_turn")
    BY <1>2 DEF Told
  <2>2. Hearing(Grown(c, tc, mail), c, Hear(v, msg)) /\ Hear(v, msg) \in ClientPrograms
    BY <2>1, GrownHears
  <2>3. Hear(v, msg).m_my = v.m_my
    BY <2>1, HushedHears
  <2> QED
    BY <2>2, <2>3
<1> QED
  BY <1>1, <1>2

(* The last that a client is to hear when its player is called, or struck. *)
LEMMA CalledShows ==
    ASSUME NEW c, NEW pr, NEW ts, NEW tc, NEW d, Player(c, pr, ts, tc, d), d.life = "open",
           NEW v \in ClientPrograms, c.program = "running" => Hearing(tc, c, v),
           NEW f \in Fields, NEW mail, NEW f2, CalledOwn(d, mail, f, f2), Below(f, c.m_my),
           NEW ts2 \in Seq(Lines), NoShips(ts2)
    PROVE  \E w \in ClientPrograms :
               /\ c.program = "running" => Hearing(Grown(c, tc, mail), c, w)
               /\ Shows(c, ts2, w, f2)
<1>1. /\ c \in ClientPrograms /\ tc \in Seq(Said) /\ c.m_my \in Fields
  BY DEF Player, ClientPrograms
<1>2. /\ f2 \in Fields /\ f2.ship = {} /\ f2.shot = {} /\ f2.placed = f.placed
  BY DEF CalledOwn, Clear, Fields
<1>3. Laid(ts2, f2, f2) /\ Below(f2, c.m_my)
  BY <1>2, LaidStill DEF Below
<1>4. CASE c.program # "running"
  BY <1>2, <1>3, <1>4 DEF Shows
<1>5. CASE c.program = "running"
  <2>1. v.state = "lobby"
    BY <1>5, HearingAgrees DEF CalledOwn
  <2>2. Say("r") \in Said /\ Say("s") \in Said
    BY SaySaid DEF ShotAnswers, Letters
  <2>3. PICK u \in ClientPrograms :
            /\ u.state = "lobby" /\ Hearing(Grown(c, tc, mail), c, Hear(u, Say("s")))
    <3>1. CASE mail = <<Say("s")>>
      BY <1>1, <1>5, <2>1, <2>2, <3>1, GrownHears
    <3>2. CASE mail = <<Say("r"), Say("s")>>
      <4>1. Hearing(Grown(c, tc, mail), c, Hear(Hear(v, Say("r")), Say("s")))
        BY <1>1, <1>5, <2>2, <3>2, GrownHears
      <4> QED
        BY <2>1, <4>1, CalledHears
    <3> QED
      BY <3>1, <3>2 DEF CalledOwn
  <2>4. /\ Hear(u, Say("s")) \in ClientPrograms
        /\ Hear(u, Say("s")).m_my.ship = {} /\ Hear(u, Say("s")).m_my.shot = {}
    BY <2>3, CalledHears
  <2> QED
    BY <1>2, <1>3, <2>3, <2>4 DEF Shows
<1> QED
  BY <1>4, <1>5

LEMMA StruckShows ==
    ASSUME NEW c, NEW pr, NEW ts, NEW tc, NEW d, Player(c, pr, ts, tc, d), d.life = "open",
           NEW v \in ClientPrograms, c.program = "running" => Hearing(tc, c, v),
           NEW f \in Fields, NEW mail, NEW f2, StruckOwn(d, mail, f, f2), Shows(c, ts, v, f),
           NoShips(ts), NEW ts2 \in Seq(Lines), NoShips(ts2)
    PROVE  \E w \in ClientPrograms :
               /\ c.program = "running" => Hearing(Grown(c, tc, mail), c, w)
               /\ Shows(c, ts2, w, f2)
<1>1. /\ c \in ClientPrograms /\ tc \in Seq(Said) /\ ts \in Seq(Lines) /\ c.m_my \in Fields
  BY DEF Player, ClientPrograms
<1>2. PICK cell \in Cells :
          f2 = ShotField(f, cell) /\ mail = <<Answer(ShotAnswer(f, cell), cell)>>
  BY DEF StruckOwn
<1>3. f2 \in Fields /\ f2.placed = f.placed
  BY <1>2, ShotFieldType DEF ShotField, Kill, MarkShot, Fields
<1>4. PICK g \in Fields :
          /\ Laid(ts, f, g) /\ Below(g, c.m_my)
          /\ c.program = "running" => v.m_my.ship = g.ship /\ v.m_my.shot = g.shot
  BY DEF Shows
<1>5. g = f
  BY <1>1, <1>4, LaidStill
<1>6. Laid(ts2, f2, f2) /\ Below(f2, c.m_my)
  BY <1>3, <1>4, <1>5, LaidStill DEF Below
<1>7. CASE c.program # "running"
  BY <1>3, <1>6, <1>7 DEF Shows
<1>8. CASE c.program = "running"
  <2> DEFINE msg == Answer(ShotAnswer(f, cell), cell)
  <2>1. v.state = "session" /\ v.gameState = "enemy_turn"
    BY <1>8, HearingAgrees DEF StruckOwn
  <2>2. Hear(v, msg) \in ClientPrograms
        /\ Hear(v, msg).m_my.ship = f2.ship /\ Hear(v, msg).m_my.shot = f2.shot
    BY <1>2, <1>4, <1>5, <1>8, <2>1, StruckHears
  <2>3. msg \in Said
    BY AnswerToShot
  <2>4. Hearing(Grown(c, tc, mail), c, Hear(v, msg))
    BY <1>1, <1>2, <1>8, <2>3, GrownHears
  <2> HIDE DEF msg
  <2> QED
    BY <1>3, <1>6, <2>2, <2>4 DEF Shows
<1> QED
  BY <1>7, <1>8

(* The server has taken the first line of the queue, or none. *)
Taken(ts, f, ts2, f2) ==
    \/ ts2 = ts /\ f2 = f
    \/ ts # <<>> /\ ts2 = Tail(ts) /\ Lays(f, Head(ts), f2)

LEMMA TakenShows ==
    ASSUME NEW c, NEW pr, NEW ts, NEW tc, NEW d, Player(c, pr, ts, tc, d), d.life = "open",
           d.state = "session",
           NEW v \in ClientPrograms, c.program = "running" => Hearing(tc, c, v),
           NEW f \in Fields, NEW mail, Told(d, mail), Shows(c, ts, v, f), NEW ts2, NEW f2,
           Taken(ts, f, ts2, f2)
    PROVE  \E w \in ClientPrograms :
               /\ c.program = "running" => Hearing(Grown(c, tc, mail), c, w)
               /\ Shows(c, ts2, w, f2)
<1>1. /\ c \in ClientPrograms /\ tc \in Seq(Said) /\ ts \in Seq(Lines) /\ c.m_my \in Fields
  BY DEF Player, ClientPrograms
<1>2. PICK g \in Fields :
          /\ Laid(ts, f, g) /\ Below(g, c.m_my)
          /\ c.program = "running" => v.m_my.ship = g.ship /\ v.m_my.shot = g.shot
  BY DEF Shows
<1>3. Laid(ts2, f2, g)
  <2>1. CASE ts2 = ts /\ f2 = f
    BY <1>2, <2>1
  <2>2. CASE ts # <<>> /\ ts2 = Tail(ts) /\ Lays(f, Head(ts), f2)
    <3>1. PICK b \in Fields : Lays(f, Head(ts), b) /\ Laid(Tail(ts), b, g)
      BY <1>1, <1>2, <2>2, LaidRest
    <3>2. b = f2
      BY <2>2, <3>1 DEF Lays
    <3> QED
      BY <2>2, <3>1, <3>2
  <2> QED
    BY <2>1, <2>2 DEF Taken
<1>4. CASE c.program # "running"
  BY <1>2, <1>3, <1>4 DEF Shows
<1>5. CASE c.program = "running"
  <2>1. v.state = "session" /\ v.gameState = d.game
    BY <1>5, HearingAgrees
  <2>2. PICK w \in ClientPrograms : Hearing(Grown(c, tc, mail), c, w) /\ w.m_my = v.m_my
    BY <1>1, <1>5, <2>1, ToldHears
  <2> QED
    BY <1>2, <1>3, <1>5, <2>2 DEF Shows
<1> QED
  BY <1>4, <1>5

(* A player in the preparation stays there, or the turns begin. *)
PrepLeads(d, e) ==
    InPreparation(d) /\ e.life = "open" => InPreparation(e) \/ InTurns(e)

LEMMA NotifiedLeads ==
    ASSUME NEW d \in Desks, NEW msg, NEW e, Notified(d, msg, e)
    PROVE  PrepLeads(d, e)
<1> SUFFICES ASSUME InPreparation(d) PROVE InTurns(e)
  BY DEF PrepLeads
<1>1. d.state = "session" /\ d.game = "preparation"
  BY DEF InPreparation
<1>2. Begun(d, msg, e)
  BY <1>1 DEF Notified, Called, Struck
<1> QED
  BY <1>1, <1>2 DEF Begun, InTurns, Desks

LEMMA AnsweredLeads ==
    ASSUME NEW d, NEW line, NEW msg, NEW e, Answered(d, line, msg, e), InPreparation(d)
    PROVE  e = d \/ Gone(e)
<1>1. d.state = "session" /\ d.game = "preparation"
  BY DEF InPreparation
<1>2. AnsweredPreparation(d, line, msg, e)
  BY <1>1 DEF Answered, AnsweredConnected, AnsweredLobby, AnsweredTurns, AnsweredShot, InTurns,
     AnsweredEnd
<1> QED
  BY <1>2 DEF AnsweredPreparation

LEMMA RecordedLeads ==
    ASSUME NEW d \in Desks, NEW line, NEW e, Recorded(d, line, e), InPreparation(d)
    PROVE  InPreparation(e)
BY DEF Recorded, InPreparation, InTurns, Desks

LEMMA ServedLeads ==
    ASSUME NEW p, NEW line, Desk(p) \in Desks, Served(p, line)
    PROVE  PrepLeads(Desk(p), Desk(p)')
<1> DEFINE d == Desk(p)
           e == Desk(p)'
<1>1. d \in Desks
  OBVIOUS
<1>2. \/ Recorded(d, line, e)
      \/ \E msg \in Said : \/ Answered(d, line, msg, e)
                          \/ \E mid \in Desks : /\ mid.life = "open"
                                                /\ Recorded(d, line, mid)
                                                /\ Notified(mid, msg, e)
      \/ \E msg, told \in Said : \E mid \in Desks :
             mid.life = "open" /\ Answered(d, line, msg, mid) /\ Notified(mid, told, e)
  BY DEF Served
<1> HIDE DEF d, e
<1>3. PrepLeads(d, e)
  <2> SUFFICES ASSUME InPreparation(d), e.life = "open" PROVE InPreparation(e) \/ InTurns(e)
    BY DEF PrepLeads
  <2>1. ASSUME NEW mid \in Desks, InPreparation(mid), NEW msg, Notified(mid, msg, e)
        PROVE  InPreparation(e) \/ InTurns(e)
    BY <2>1, NotifiedLeads DEF PrepLeads
  <2>2. CASE Recorded(d, line, e)
    BY <1>1, <2>2, RecordedLeads
  <2>3. ASSUME NEW msg, Answered(d, line, msg, e) PROVE InPreparation(e)
    BY <2>3, AnsweredLeads DEF Gone
  <2>4. ASSUME NEW msg, NEW mid \in Desks, Recorded(d, line, mid), Notified(mid, msg, e)
        PROVE  InPreparation(e) \/ InTurns(e)
    BY <1>1, <2>1, <2>4, RecordedLeads
  <2>5. ASSUME NEW msg, NEW told, NEW mid \in Desks, mid.life = "open",
               Answered(d, line, msg, mid), Notified(mid, told, e)
        PROVE  InPreparation(e) \/ InTurns(e)
    <3>1. mid = d
      BY <2>5, AnsweredLeads DEF Gone
    <3> QED
      BY <2>1, <2>5, <3>1
  <2> QED
    BY <1>2, <2>2, <2>3, <2>4, <2>5
<1> QED
  BY <1>3 DEF d, e

LEMMA SpokenLeads ==
    ASSUME NEW q, Desk(q) \in Desks, Spoken(q)
    PROVE  PrepLeads(Desk(q), Desk(q)')
<1> DEFINE d == Desk(q)
           e == Desk(q)'
<1>1. d \in Desks /\ e.life = session'[q]
  BY DeskPartsNext
<1>2. e = d \/ (\E msg : Notified(d, msg, e)) \/ e.life # "open"
  BY <1>1 DEF Spoken, Undisturbed
<1> HIDE DEF d, e
<1>3. PrepLeads(d, e)
  BY <1>1, <1>2, NotifiedLeads DEF PrepLeads
<1> QED
  BY <1>3 DEF d, e

LEMMA TailNoShips ==
    ASSUME NEW ts \in Seq(Lines), ts # <<>>, NoShips(ts)
    PROVE  NoShips(Tail(ts)) /\ Tail(ts) \in Seq(Lines)
BY SeqParts DEF NoShips

(* What a handler does to the field of one who is in the session after it. *)
OwnStep(d, mail, ts, ts2, f, f2) ==
    \/ d.state = "session" /\ Told(d, mail) /\ Taken(ts, f, ts2, f2)
    \/ CalledOwn(d, mail, f, f2)
    \/ StruckOwn(d, mail, f, f2)

LEMMA ServedOwn ==
    ASSUME NEW c, NEW pr, NEW ts, NEW tc, NEW d, Player(c, pr, ts, tc, d), d.life = "open",
           NEW f, Own(c, pr, ts, tc, d, f),
           d.state # "connected" => f \in Fields /\ Below(f, c.m_my),
           NEW mail, Short(mail), NEW ts2, ts2 = ts \/ (ts # <<>> /\ ts2 = Tail(ts)),
           NEW e, Player(c, pr, ts2, Grown(c, tc, mail), e), PrepLeads(d, e),
           NEW f2, e.life = "open" /\ e.state = "session" => OwnStep(d, mail, ts, ts2, f, f2)
    PROVE  Own(c, pr, ts2, Grown(c, tc, mail), e, f2)
<1>1. /\ c \in ClientPrograms /\ tc \in Seq(Said) /\ ts \in Seq(Lines) /\ ts2 \in Seq(Lines)
      /\ d \in Desks
  BY DEF Player
<1>2. Bounded(c.m_my) /\ (c.program = "running" /\ pr # NoLine /\ pr.word = "ship" => Preparing(c))
  BY DEF Own
<1>3. ShipsFit(ts, d)
  BY DEF Own
<1>4. ~InPreparation(d) => NoShips(ts) /\ NoShips(ts2)
  <2> SUFFICES ASSUME ~InPreparation(d) PROVE NoShips(ts) /\ NoShips(ts2)
    OBVIOUS
  <2>1. NoShips(ts)
    BY <1>3 DEF NoShips, ShipsFit
  <2> QED
    BY <1>1, <2>1, TailNoShips
<1>5. ASSUME e.life = "open" PROVE ShipsFit(ts2, e)
  <2>1. CASE ~InPreparation(d)
    BY <1>4, <2>1 DEF NoShips, ShipsFit
  <2>2. CASE InPreparation(d) /\ InPreparation(e)
    BY <2>2 DEF ShipsFit
  <2>3. CASE InPreparation(d) /\ InTurns(e)
    <3>1. LinesFit(ts2, e)
      BY <1>5 DEF Player, Good, DeskFits
    <3> QED
      BY <2>3, <3>1 DEF LinesFit, ShipsFit
  <2> QED
    BY <1>5, <2>1, <2>2, <2>3 DEF PrepLeads
<1>6. PICK v \in ClientPrograms :
          /\ c.program = "running" => Hearing(tc, c, v)
          /\ d.state = "session" => Shows(c, ts, v, f)
  BY DEF Own
<1>7. \E w \in ClientPrograms :
          /\ c.program = "running" => Hearing(Grown(c, tc, mail), c, w)
          /\ e.life = "open" /\ e.state = "session" => Shows(c, ts2, w, f2)
  <2>1. CASE ~(e.life = "open" /\ e.state = "session")
    BY <1>1, <1>6, <2>1, ShortHears
  <2>2. CASE d.state = "session" /\ Told(d, mail) /\ Taken(ts, f, ts2, f2)
    <3>1. Shows(c, ts, v, f) /\ f \in Fields
      BY <1>6, <2>2
    <3> QED
      BY <1>6, <2>2, <3>1, TakenShows
  <2>3. CASE CalledOwn(d, mail, f, f2)
    <3>1. d.state = "lobby"
      BY <2>3 DEF CalledOwn
    <3>2. f \in Fields /\ Below(f, c.m_my) /\ NoShips(ts2)
      BY <1>4, <3>1 DEF InPreparation
    <3> QED
      BY <1>1, <1>6, <2>3, <3>2, CalledShows
  <2>4. CASE StruckOwn(d, mail, f, f2)
    <3>1. d.state = "session" /\ d.game = "enemy_turn"
      BY <2>4 DEF StruckOwn
    <3>2. f \in Fields /\ NoShips(ts) /\ NoShips(ts2) /\ Shows(c, ts, v, f)
      BY <1>4, <1>6, <3>1 DEF InPreparation
    <3> QED
      BY <1>1, <1>6, <2>4, <3>2, StruckShows
  <2> QED
    BY <2>1, <2>2, <2>3, <2>4 DEF OwnStep
<1> QED
  BY <1>2, <1>5, <1>7 DEF Own

(* The server's field of q. *)
OwnField(q) == MyField(LobbyOf(q), q)

(* In the session after the step, and there it matters. *)
Enters(q) == session'[q] = "open" /\ clentData'[q].state = "session"

(* His field is cleared, or shot at. *)
Stirred(q) ==
    \/ CalledOwn(Desk(q), MailFor(q), OwnField(q), OwnField(q)')
    \/ StruckOwn(Desk(q), MailFor(q), OwnField(q), OwnField(q)')

(* What a handler does to the field of its sender, and of another player. *)
FieldServed(p, line) ==
    Enters(p) =>
        \/ /\ clentData[p].state = "session" /\ Told(Desk(p), MailFor(p))
           /\ Lays(OwnField(p), line, OwnField(p)')
        \/ Stirred(p)

FieldSpoken(q) ==
    Enters(q) =>
        \/ /\ clentData[q].state = "session" /\ Told(Desk(q), MailFor(q))
           /\ OwnField(q)' = OwnField(q)
        \/ Stirred(q)

FieldHandled(p, line) ==
    FieldServed(p, line) /\ \A q \in Participants : q # p => FieldSpoken(q)

(* In the session after the step only if before, and with the field as it was. *)
KeptField(q) ==
    Enters(q) => clentData[q].state = "session" /\ OwnField(q)' = OwnField(q)

LEMMA OwnFieldNext ==
    ASSUME NEW q
    PROVE  OwnField(q)' = MyField(lobbies'[clentData'[q].lobby], q)
BY DEF OwnField, LobbyOf

LEMMA CalmHandled ==
    ASSUME NEW p \in Participants, NEW line, Enters(p) => line.word # "ship",
           \A q \in Participants : KeptField(q) /\ Told(Desk(q), MailFor(q))
    PROVE  FieldHandled(p, line)
BY DEF FieldHandled, FieldServed, FieldSpoken, KeptField, Lays

LEMMA ReplyTold ==
    ASSUME NEW letter \in Letters \ ShotAnswers, NEW p, Reply(letter, p)
    PROVE  \A q \in Participants : Told(Desk(q), MailFor(q))
<1>1. MailFor(p) = <<Say(letter)>> /\ \A q : q # p => MailFor(q) = <<>>
  BY ReplyMail
<1>2. Say(letter) \in Said /\ Say(letter).letter \notin ShotAnswers
  BY SaySaid DEF Say
<1>3. Told(Desk(p), MailFor(p))
  BY <1>1, <1>2 DEF Told
<1> QED
  BY <1>1, <1>3 DEF Told

LEMMA NoneTold ==
    ASSUME sent' = <<>>
    PROVE  \A q \in Participants : Told(Desk(q), MailFor(q))
BY NoMail DEF Told

(* Where no lobby changes, no field does. *)
LEMMA QuietFields ==
    ASSUME UNCHANGED lobbies, NEW q,
           clentData'[q].state = "session" =>
               clentData[q].state = "session" /\ clentData'[q].lobby = clentData[q].lobby
    PROVE  KeptField(q)
BY OwnFieldNext DEF KeptField, Enters, OwnField, LobbyOf

LEMMA ConnectedFields ==
    ASSUME GamesInv, ~idReused, ~idReused', NEW p \in Participants, NEW line,
           ObeyConnected(p, line)
    PROVE  FieldHandled(p, line)
<1>1. TypeOK
  BY DEF GamesInv, SeatInv, TypeInv
<1>2. session[p] = "open" /\ clentData[p].state = "connected"
  <2>1. Handling(p, "connected")
    BY DEF ObeyConnected, Create, Join, ConnectTo, Refuse, List, QuitConnected
  <2> QED
    BY <2>1, SenderOpen DEF GamesInv
<1>3. /\ clentData'[p].state # "session"
      /\ \A q \in Participants : q # p => clentData'[q] = clentData[q]
  <2>1. \/ UNCHANGED clentData
        \/ clentData' = Forget(p, clentData)
        \/ \E id : EnterLobby(p, id)
    BY DEF ObeyConnected, Create, Join, ConnectTo, Enter, Refuse, List, QuitConnected
  <2>2. CASE UNCHANGED clentData
    BY <1>2, <2>2
  <2>3. CASE clentData' = Forget(p, clentData)
    BY <1>1, <2>3 DEF Forget, SharedClient, TypeOK, Seats
  <2>4. CASE \E id : EnterLobby(p, id)
    BY <1>1, <2>4 DEF EnterLobby, TypeOK, Clients, Seats
  <2> QED
    BY <2>1, <2>2, <2>3, <2>4
<1>4. \A i \in DOMAIN lobbies :
          \/ lobbies'[i] = lobbies[i]
          \/ HasFreeSeat(lobbies[i]) /\ lobbies'[i] = AddParticipant(lobbies[i], p)
  <2>1. CASE Create(p)
    <3>1. lobbiesCount \notin DOMAIN lobbies
      BY <2>1 DEF Create
    <3> QED
      BY <2>1, <3>1 DEF Create
  <2>2. ASSUME NEW id \in FreeLobbies, NEW letter, Enter(p, id, letter)
        PROVE  \A i \in DOMAIN lobbies :
                   \/ lobbies'[i] = lobbies[i]
                   \/ HasFreeSeat(lobbies[i]) /\ lobbies'[i] = AddParticipant(lobbies[i], p)
    BY <1>1, <2>2 DEF Enter, FreeLobbies, TypeOK
  <2>3. CASE Join(p) \/ ConnectTo(p, line.id)
    BY <2>2, <2>3 DEF Join, ConnectTo
  <2>4. CASE Refuse(p) \/ List(p) \/ QuitConnected(p)
    BY <2>4 DEF Refuse, List, QuitConnected
  <2> QED
    BY <2>1, <2>3, <2>4 DEF ObeyConnected
<1>5. ASSUME NEW q \in Participants PROVE KeptField(q)
  <2> SUFFICES ASSUME Enters(q)
               PROVE  clentData[q].state = "session" /\ OwnField(q)' = OwnField(q)
    BY DEF KeptField
  <2>1. q # p /\ clentData'[q] = clentData[q] /\ clentData[q].state = "session"
    BY <1>3 DEF Enters
  <2>2. session[q] = "open"
    <3>1. UNCHANGED session \/ StopReading(p, TRUE)
      BY DEF ObeyConnected, Create, Join, ConnectTo, Enter, Refuse, List, QuitConnected
    <3> QED
      BY <1>1, <2>1, <3>1 DEF Enters, StopReading, TypeOK
  <2>3. /\ clentData[q].lobby \in DOMAIN lobbies
        /\ LobbyOf(q) = lobbies[clentData[q].lobby] /\ LobbyOf(q) \in Lobbies
        /\ q \in SeatsOf(LobbyOf(q))
    BY <2>1, <2>2, OtherSits
  <2>4. MyField(lobbies'[clentData[q].lobby], q) = MyField(LobbyOf(q), q)
    <3>1. CASE lobbies'[clentData[q].lobby] = LobbyOf(q)
      BY <3>1
    <3>2. CASE /\ HasFreeSeat(LobbyOf(q))
               /\ lobbies'[clentData[q].lobby] = AddParticipant(LobbyOf(q), p)
      <4>1. MyField(AddParticipant(LobbyOf(q), p), q) = MyField(LobbyOf(q), q)
        <5>1. q # NoOne
          BY ServerAssumption
        <5> QED
          BY <2>1, <2>3, <5>1 DEF MyField, AddParticipant, IsParticipant1, Lobbies
      <4> QED
        BY <3>2, <4>1
    <3> QED
      BY <1>4, <2>3, <3>1, <3>2
  <2> QED
    BY <2>1, <2>4, OwnFieldNext DEF OwnField
<1>6. \A q \in Participants : Told(Desk(q), MailFor(q))
  <2>1. \E letter \in {"c", "j", "i", "r", "l", "q"} : Reply(letter, p)
    BY DEF ObeyConnected, Create, Join, ConnectTo, Enter, Refuse, List, QuitConnected
  <2> QED
    BY <2>1, ReplyTold, SpokenLetters
<1>7. ~Enters(p)
  BY <1>3 DEF Enters
<1> QED
  BY <1>5, <1>6, <1>7, CalmHandled

(* The field of one who stays in the session, when the sender's lobby changes but not
   the field. *)
LEMMA SetKept ==
    ASSUME GamesInv, ~idReused, NEW p \in Participants, HasLobby(p), NEW new,
           lobbies' = SetLobby(p, new), NEW q \in Participants, session'[q] = session[q],
           clentData'[q].state = "session" =>
               clentData[q].state = "session" /\ clentData'[q].lobby = clentData[q].lobby,
           q \in SeatsOf(LobbyOf(p)) => MyField(new, q) = MyField(LobbyOf(p), q)
    PROVE  KeptField(q)
<1> SUFFICES ASSUME Enters(q)
             PROVE  clentData[q].state = "session" /\ OwnField(q)' = OwnField(q)
  BY DEF KeptField
<1>1. /\ clentData[q].state = "session" /\ clentData'[q].lobby = clentData[q].lobby
      /\ session[q] = "open"
  BY DEF Enters
<1>2. /\ clentData[q].lobby \in DOMAIN lobbies
      /\ LobbyOf(q) = lobbies[clentData[q].lobby] /\ q \in SeatsOf(LobbyOf(q))
  BY <1>1, OtherSits
<1>3. MyField(lobbies'[clentData[q].lobby], q) = MyField(LobbyOf(q), q)
  <2>1. CASE clentData[q].lobby = clentData[p].lobby
    <3>1. LobbyOf(q) = LobbyOf(p)
      BY <2>1 DEF LobbyOf
    <3>2. lobbies'[clentData[q].lobby] = new
      BY <1>2, <2>1 DEF SetLobby, GamesInv, SeatInv, TypeInv, TypeOK
    <3> QED
      BY <1>2, <3>1, <3>2
  <2>2. CASE clentData[q].lobby # clentData[p].lobby
    BY <1>2, <2>2 DEF SetLobby, GamesInv, SeatInv, TypeInv, TypeOK
  <2> QED
    BY <2>1, <2>2
<1> QED
  BY <1>1, <1>3, OwnFieldNext DEF OwnField

LEMMA VacatedFields ==
    ASSUME GamesInv, ~idReused, NEW p \in Participants, session[p] = "open",
           clentData[p].state = "lobby", HasLobby(p), NEW clients \in [Seats -> Clients],
           Vacate(p, clients), \A q \in Seats : q # p => clients[q] = clentData[q],
           \A q \in Participants : q # p => session'[q] = session[q],
           NEW q \in Participants, q # p
    PROVE  KeptField(q)
<1> DEFINE id == clentData[p].lobby
           lobby == LobbyOf(p)
           left == RemoveParticipant(lobby, p)
<1> SUFFICES ASSUME Enters(q)
             PROVE  clentData[q].state = "session" /\ OwnField(q)' = OwnField(q)
  BY DEF KeptField
<1>1. TypeOK /\ session[q] = "open" /\ clentData'[q].state = "session"
  BY DEF GamesInv, SeatInv, TypeInv, Enters
<1>2. /\ id \in DOMAIN lobbies /\ lobby = lobbies[id] /\ lobby \in Lobbies
      /\ p \in SeatsOf(lobby)
  BY SenderPlays DEF HasLobby, LobbyOf
<1>3. q \in Seats /\ clients[q] \in Clients /\ clients[q] = clentData[q]
  BY DEF Seats
<1>4. /\ \A i \in DOMAIN lobbies' : lobbies'[i] = IF i = id THEN left ELSE lobbies[i]
      /\ DOMAIN lobbies' = IF IsEmpty(left) THEN DOMAIN lobbies \ {id} ELSE DOMAIN lobbies
      /\ clentData'[q] = IF IsEmpty(left) /\ clentData[q].lobby = id
                         THEN [clentData[q] EXCEPT !.lobby = FreedLobby]
                         ELSE clentData[q]
  <2> HIDE DEF IsEmpty
  <2>1. CASE IsEmpty(left)
    BY <1>2, <1>3, <2>1 DEF Vacate
  <2>2. CASE ~IsEmpty(left)
    BY <1>1, <1>2, <1>3, <2>2 DEF Vacate, SetLobby, TypeOK
  <2> QED
    BY <2>1, <2>2
<1>5. clentData[q].state = "session"
  <2> HIDE DEF left, id
  <2> QED
    BY <1>1, <1>3, <1>4 DEF Clients
<1>6. /\ clentData[q].lobby \in DOMAIN lobbies
      /\ LobbyOf(q) = lobbies[clentData[q].lobby] /\ q \in SeatsOf(LobbyOf(q))
  BY <1>1, <1>5, OtherSits
<1>7. CASE clentData[q].lobby = id
  <2>1. LobbyOf(q) = lobby
    BY <1>2, <1>6, <1>7
  <2>2. ~IsEmpty(left)
    <3>1. IsEmpty(left) => SeatsOf(lobby) \subseteq {p}
      <4> HIDE DEF lobby, IsEmpty
      <4> QED
        BY <1>2, RemovedSeat
    <3> QED
      BY <1>6, <2>1, <3>1
  <2>3. clentData'[q].lobby = id /\ id \in DOMAIN lobbies' /\ lobbies'[id] = left
    <3> HIDE DEF left, id, IsEmpty
    <3> QED
      BY <1>2, <1>4, <1>7, <2>2
  <2>4. MyField(left, q) = MyField(lobby, q)
    <3> HIDE DEF lobby
    <3>1. q # NoOne
      BY ServerAssumption
    <3> QED
      BY <1>2, <3>1 DEF MyField, RemoveParticipant, IsParticipant1, Lobbies
  <2> HIDE DEF left, lobby, id
  <2> QED
    BY <1>5, <2>1, <2>3, <2>4, OwnFieldNext DEF OwnField
<1>8. CASE clentData[q].lobby # id
  <2>1. clentData'[q].lobby = clentData[q].lobby
        /\ lobbies'[clentData[q].lobby] = lobbies[clentData[q].lobby]
    <3> HIDE DEF left, id, IsEmpty
    <3> QED
      BY <1>4, <1>6, <1>8
  <2> QED
    BY <1>5, <1>6, <2>1, OwnFieldNext DEF OwnField
<1> QED
  BY <1>7, <1>8

LEMMA CallFields ==
    ASSUME GamesInv, GamesInv', ~idReused, ~idReused', RestedAtEnd, NEW p \in Participants,
           NEW line, ReadyInLobby(p),
           [clentData EXCEPT ![p].isReady = TRUE][GetEnemy(LobbyOf(p), p)].isReady
    PROVE  FieldHandled(p, line)
<1> DEFINE id == clentData[p].lobby
           lobby == LobbyOf(p)
           clients == [clentData EXCEPT ![p].isReady = TRUE]
           new == StartSession(lobby)
<1>0. PICK enemy \in Participants : enemy = GetEnemy(lobby, p)
  BY EnemyInLobby
<1>1. TypeOK /\ HasLobby(p)
  BY DEF GamesInv, SeatInv, TypeInv, ReadyInLobby
<1>2. /\ clentData[p].state = "lobby" /\ clentData[enemy].state = "lobby"
      /\ lobby \in Lobbies /\ lobby.p1 # lobby.p2
      /\ {lobby.p1, lobby.p2} = {p, enemy} /\ SeatsOf(lobby) = {p, enemy}
      /\ enemy # p /\ clentData[enemy].lobby = id
  BY <1>0, EnemyInLobby
<1>3. /\ clentData' = [clients EXCEPT ![p].state = "session", ![enemy].state = "session"]
      /\ lobbies' = SetLobby(p, new)
      /\ Deliver(WriteMsg(Say("r"), p) \o WriteLobby(Say("s"), lobby))
      /\ UNCHANGED session
  BY <1>0 DEF ReadyInLobby
<1>4. lobbies'[id] = new
  BY <1>1, <1>3, SetLobbyAt
<1>5. /\ \A q \in {p, enemy} : clentData'[q].lobby = id
      /\ \A q \in Participants : q \notin {p, enemy} => clentData'[q] = clentData[q]
  <2>1. clients \in [Seats -> Clients] /\ p \in Seats /\ enemy \in Seats
    BY <1>1 DEF TypeOK, Clients, Seats
  <2>2. /\ clients[p].lobby = id /\ clients[enemy].lobby = id
        /\ \A q \in Participants : q # p => clients[q] = clentData[q]
    BY <1>1, <1>2 DEF TypeOK, Clients, Seats
  <2> HIDE DEF clients, id
  <2> QED
    BY <1>2, <1>3, <2>1, <2>2 DEF Clients, Seats
<1>6. ASSUME NEW q \in {p, enemy} PROVE OwnField(q)' = Clear(OwnField(q))
  <2>1. clentData[q].lobby = id /\ lobbies'[clentData'[q].lobby] = new
    BY <1>2, <1>4, <1>5
  <2>2. LobbyOf(q) = lobby
    BY <2>1 DEF LobbyOf
  <2>3. MyField(new, q) = Clear(MyField(lobby, q))
    <3> HIDE DEF lobby
    <3> QED
      BY <1>2 DEF MyField, StartSession, IsParticipant1, Lobbies
  <2> HIDE DEF new, lobby
  <2> QED
    BY <2>1, <2>2, <2>3, OwnFieldNext DEF OwnField
<1>7. /\ MailFor(p) = <<Say("r"), Say("s")>> /\ MailFor(enemy) = <<Say("s")>>
      /\ \A q : q \notin {p, enemy} => MailFor(q) = <<>>
  <2>1. Deliver(WriteMsg(Say("r"), p) \o (WriteMsg(Say("s"), lobby.p1) \o WriteMsg(Say("s"), lobby.p2)))
    BY <1>3 DEF WriteLobby
  <2>2. p \in {lobby.p1, lobby.p2} /\ enemy \in {lobby.p1, lobby.p2} /\ enemy # p
    BY <1>2
  <2> HIDE DEF lobby
  <2>3. /\ MailFor(p) = <<Say("r"), Say("s")>>
        /\ \A q : q \in {lobby.p1, lobby.p2} /\ q # p => MailFor(q) = <<Say("s")>>
        /\ \A q : q \notin {lobby.p1, lobby.p2} => MailFor(q) = <<>>
    BY <1>2, <2>1, <2>2, ThreeMails
  <2> QED
    BY <1>2, <2>2, <2>3
<1>8. Desk(p).state = "lobby" /\ Desk(enemy).state = "lobby"
  BY <1>2, DeskParts
<1>9. Stirred(p) /\ Stirred(enemy)
  BY <1>6, <1>7, <1>8 DEF Stirred, CalledOwn
<1>10. ASSUME NEW q \in Participants, q \notin {p, enemy} PROVE KeptField(q)
  <2>1. q \notin SeatsOf(LobbyOf(p)) /\ session'[q] = session[q] /\ clentData'[q] = clentData[q]
    BY <1>2, <1>3, <1>5, <1>10
  <2> HIDE DEF new
  <2> QED
    BY <1>1, <1>3, <2>1, SetKept
<1> HIDE DEF lobby, new, clients, id
<1>11. FieldServed(p, line) /\ FieldSpoken(enemy)
  BY <1>9 DEF FieldServed, FieldSpoken
<1>12. \A q \in Participants : q \notin {p, enemy} => FieldSpoken(q)
  BY <1>7, <1>10 DEF FieldSpoken, KeptField, Told
<1> QED
  BY <1>11, <1>12 DEF FieldHandled

LEMMA LobbyFields ==
    ASSUME GamesInv, GamesInv', ~idReused, ~idReused', RestedAtEnd, NEW p \in Participants,
           NEW line, ObeyLobby(p, line)
    PROVE  FieldHandled(p, line)
<1>1. TypeOK /\ session[p] = "open" /\ clentData[p].state = "lobby"
  BY SenderOpen
  DEF GamesInv, SeatInv, TypeInv, ObeyLobby, ReadyInLobby, Unready, Leave, QuitLobby
<1>2. CASE Unready(p)
  <2>1. ~Enters(p) /\ \A q \in Participants : q # p => clentData'[q] = clentData[q]
    BY <1>1, <1>2 DEF Unready, TypeOK, Clients, Seats, Enters
  <2>2. \A q \in Participants : KeptField(q)
    BY <1>2, <2>1, QuietFields DEF Unready, KeptField
  <2>3. \A q \in Participants : Told(Desk(q), MailFor(q))
    BY <1>2, ReplyTold, SpokenLetters DEF Unready
  <2> QED
    BY <2>1, <2>2, <2>3, CalmHandled
<1>3. CASE ReadyInLobby(p)
  <2>1. CASE [clentData EXCEPT ![p].isReady = TRUE][GetEnemy(LobbyOf(p), p)].isReady
    BY <1>3, <2>1, CallFields
  <2>2. CASE ~[clentData EXCEPT ![p].isReady = TRUE][GetEnemy(LobbyOf(p), p)].isReady
    <3>1. /\ clentData' = [clentData EXCEPT ![p].isReady = TRUE]
          /\ Reply("r", p) /\ UNCHANGED <<lobbies, session>>
      BY <1>3, <2>2 DEF ReadyInLobby
    <3>2. ~Enters(p) /\ \A q \in Participants : q # p => clentData'[q] = clentData[q]
      BY <1>1, <3>1 DEF TypeOK, Clients, Seats, Enters
    <3>3. \A q \in Participants : KeptField(q)
      BY <3>1, <3>2, QuietFields DEF KeptField
    <3>4. \A q \in Participants : Told(Desk(q), MailFor(q))
      BY <3>1, ReplyTold, SpokenLetters
    <3> QED
      BY <3>2, <3>3, <3>4, CalmHandled
  <2> QED
    BY <2>1, <2>2
<1>4. ASSUME NEW clients \in [Seats -> Clients], HasLobby(p), Vacate(p, clients),
             \A q \in Seats : q # p => clients[q] = clentData[q],
             \A q \in Participants : q # p => session'[q] = session[q],
             clients[p].state # "session",
             NEW letter \in {"l", "q"}, Reply(letter, p)
      PROVE  FieldHandled(p, line)
  <2>1. ~Enters(p)
    <3>1. p \in Seats /\ clients[p] \in Clients
      BY DEF Seats
    <3>2. clentData'[p].state = clients[p].state
      <4> HIDE DEF IsEmpty
      <4> QED
        BY <1>4, <3>1 DEF Vacate, Clients
    <3> QED
      BY <1>4, <3>2 DEF Enters
  <2>2. \A q \in Participants : KeptField(q)
    <3>1. \A q \in Participants : q # p => KeptField(q)
      BY <1>1, <1>4, VacatedFields
    <3> QED
      BY <2>1, <3>1 DEF KeptField
  <2>3. \A q \in Participants : Told(Desk(q), MailFor(q))
    BY <1>4, ReplyTold, SpokenLetters
  <2> QED
    BY <2>1, <2>2, <2>3, CalmHandled
<1>5. CASE Leave(p)
  <2> DEFINE clients == [clentData EXCEPT ![p].state = "connected"]
  <2>1. /\ clients \in [Seats -> Clients] /\ \A q \in Seats : q # p => clients[q] = clentData[q]
        /\ clients[p].state # "session"
    BY <1>1 DEF TypeOK, Clients, ClientStates, Seats
  <2>2. HasLobby(p) /\ Vacate(p, clients) /\ Reply("l", p) /\ UNCHANGED session
    BY <1>5 DEF Leave
  <2> HIDE DEF clients
  <2> QED
    BY <1>4, <2>1, <2>2
<1>6. CASE QuitLobby(p)
  <2> DEFINE clients == Forget(p, clentData)
  <2>1. /\ clients \in [Seats -> Clients] /\ \A q \in Seats : q # p => clients[q] = clentData[q]
        /\ clients[p].state # "session"
    BY <1>1, ForgetType DEF TypeOK, Forget, SharedClient, Seats
  <2>2. HasLobby(p) /\ Vacate(p, clients) /\ Reply("q", p)
    BY <1>6 DEF QuitLobby
  <2>3. \A q \in Participants : q # p => session'[q] = session[q]
    BY <1>1, <1>6 DEF QuitLobby, StopReading, TypeOK
  <2> HIDE DEF clients
  <2> QED
    BY <1>4, <2>1, <2>2, <2>3
<1> QED
  BY <1>2, <1>3, <1>5, <1>6 DEF ObeyLobby

LEMMA PlaceFields ==
    ASSUME GamesInv, GamesInv', ~idReused, ~idReused', NEW p \in Participants, NEW line,
           line.word = "ship", PlaceShip(p, line.ship), CanSetShip(OwnField(p), line.ship)
    PROVE  FieldHandled(p, line)
<1> DEFINE lobby == LobbyOf(p)
           ship == SetShip(MyField(lobby, p), line.ship)
           new == SetMyField(lobby, p, ship)
<1>1. Playing(p, {"preparation"}) /\ HasLobby(p) /\ UNCHANGED <<clentData, session>>
  BY DEF PlaceShip, Playing
<1>2. /\ clentData[p].state = "session" /\ lobby \in Lobbies /\ p \in SeatsOf(lobby)
      /\ lobby.p1 # lobby.p2 /\ TypeOK
  BY <1>1, PlayingKept DEF GamesInv, SeatInv, TypeInv
<1>3. lobbies' = SetLobby(p, new) /\ Reply("d", p)
  BY DEF PlaceShip, OwnField
<1>4. \A q \in Participants : Told(Desk(q), MailFor(q))
  BY <1>3, ReplyTold, SpokenLetters
<1>5. OwnField(p)' = SetShip(OwnField(p), line.ship)
  <2>1. lobbies'[clentData'[p].lobby] = new
    <3> HIDE DEF new
    <3> QED
      BY <1>1, <1>2, <1>3, SetLobbyAt
  <2>2. MyField(new, p) = ship
    <3> HIDE DEF lobby, ship
    <3> QED
      BY <1>2 DEF MyField, SetMyField, IsParticipant1, Lobbies
  <2> HIDE DEF new
  <2> QED
    BY <2>1, <2>2, OwnFieldNext DEF OwnField
<1>6. ASSUME NEW q \in Participants, q # p PROVE KeptField(q)
  <2>1. q \in SeatsOf(lobby) => MyField(new, q) = MyField(lobby, q)
    <3> HIDE DEF lobby, ship
    <3> QED
      BY <1>2, <1>6 DEF MyField, SetMyField, IsParticipant1, Lobbies, SeatsOf
  <2> HIDE DEF new
  <2> QED
    BY <1>1, <1>3, <2>1, SetKept
<1>7. FieldServed(p, line)
  BY <1>2, <1>4, <1>5 DEF FieldServed, Lays
<1> QED
  BY <1>4, <1>6, <1>7 DEF FieldHandled, FieldSpoken, KeptField

LEMMA ReadyFields ==
    ASSUME GamesInv, ~idReused, NEW p \in Participants, NEW line, line.word # "ship",
           ReadyToPlay(p)
    PROVE  FieldHandled(p, line)
<1> DEFINE lobby == LobbyOf(p)
           marked == MarkReady(lobby, p)
<1>1. Playing(p, {"preparation"}) /\ HasLobby(p) /\ UNCHANGED <<clentData, session>>
  BY DEF ReadyToPlay, Playing
<1>2. lobby \in Lobbies /\ lobby.p1 # lobby.p2
  BY <1>1, PlayingKept
<1>3. marked \in Lobbies /\ marked.p1 = lobby.p1 /\ marked.p2 = lobby.p2
      /\ marked.field1 = lobby.field1 /\ marked.field2 = lobby.field2
  <2> HIDE DEF lobby
  <2>1. marked \in Lobbies
    BY <1>2, GameStepType
  <2> QED
    BY <1>2, <2>1 DEF MarkReady, Lobbies
<1>4. ASSUME NEW new, lobbies' = SetLobby(p, new), \A q : MyField(new, q) = MyField(lobby, q),
             \A q \in Participants : Told(Desk(q), MailFor(q))
      PROVE  FieldHandled(p, line)
  <2>1. \A q \in Participants : KeptField(q)
    <3> HIDE DEF marked
    <3> QED
      BY <1>1, <1>4, SetKept
  <2> QED
    BY <1>4, <2>1, CalmHandled
<1>5. CASE marked.ready1 /\ marked.ready2
  <2> DEFINE Started(turn) == [marked EXCEPT !.state = turn]
  <2>1. PICK turn \in Turns :
            /\ lobbies' = SetLobby(p, Started(turn))
            /\ Deliver(WriteMsg(Say("f"), Mover(Started(turn)))
                       \o WriteMsg(Say("s"), IF turn = "turn_1" THEN marked.p2 ELSE marked.p1))
    <3> HIDE DEF marked
    <3> QED
      BY <1>5 DEF ReadyToPlay, marked
  <2> DEFINE new == Started(turn)
             first == Mover(new)
             second == IF turn = "turn_1" THEN marked.p2 ELSE marked.p1
  <2>2. /\ new.p1 = lobby.p1 /\ new.p2 = lobby.p2 /\ new.state = turn
        /\ new.field1 = lobby.field1 /\ new.field2 = lobby.field2
    <3> HIDE DEF marked, lobby
    <3> QED
      BY <1>3 DEF Lobbies
  <2>3. Deliver(WriteMsg(Say("f"), first) \o WriteMsg(Say("s"), second))
    BY <2>1
  <2> HIDE DEF new
  <2>4. first # second
    <3> HIDE DEF marked, lobby
    <3> QED
      BY <1>2, <1>3, <2>2 DEF Mover, Turns
  <2>5. \A q : MyField(new, q) = MyField(lobby, q)
    BY <2>2 DEF MyField, IsParticipant1
  <2> HIDE DEF first, second
  <2>6. \A q : \/ MailFor(q) = <<>> \/ MailFor(q) = <<Say("f")>> \/ MailFor(q) = <<Say("s")>>
    BY <2>3, <2>4, TwoMails
  <2>7. \A q \in Participants : Told(Desk(q), MailFor(q))
    <3>1. \A letter \in {"f", "s"} : Say(letter) \in Said /\ Say(letter).letter \notin ShotAnswers
      BY SaySaid, SpokenLetters DEF Say
    <3> QED
      BY <2>6, <3>1 DEF Told
  <2>8. lobbies' = SetLobby(p, new)
    BY <2>1 DEF new
  <2> HIDE DEF marked, lobby
  <2> QED
    BY <1>4, <2>5, <2>7, <2>8
<1>6. CASE ~(marked.ready1 /\ marked.ready2)
  <2>1. lobbies' = SetLobby(p, marked) /\ sent' = <<>>
    BY <1>6 DEF ReadyToPlay
  <2>2. \A q : MyField(marked, q) = MyField(lobby, q)
    BY <1>3 DEF MyField, IsParticipant1
  <2>3. \A q \in Participants : Told(Desk(q), MailFor(q))
    BY <2>1, NoneTold
  <2> HIDE DEF marked, lobby
  <2> QED
    BY <1>4, <2>1, <2>2, <2>3
<1> QED
  BY <1>5, <1>6

LEMMA AnnouncedSeats ==
    ASSUME GamesInv, ~idReused, NEW p \in Participants, Playing(p, Turns),
           NEW msg, Announce(msg, LobbyOf(p))
    PROVE  \A q : MailFor(q) = IF q \in SeatsOf(LobbyOf(p)) THEN <<msg>> ELSE <<>>
<1>1. LobbyOf(p).state # "end"
  BY PlayingKept DEF Turns
<1>2. PICK enemy \in Participants :
          /\ p # enemy /\ {LobbyOf(p).p1, LobbyOf(p).p2} = {p, enemy}
          /\ SeatsOf(LobbyOf(p)) = {p, enemy}
  BY <1>1, TwoSeats
<1>3. /\ MailFor(p) = <<msg>> /\ MailFor(enemy) = <<msg>>
      /\ \A q : q \notin {p, enemy} => MailFor(q) = <<>>
  BY <1>2, AnnouncedMail
<1> QED
  BY <1>2, <1>3

(* A shot is told both, and strikes the field of the one who did not fire it. *)
LEMMA StruckFields ==
    ASSUME GamesInv, ~idReused, NEW p \in Participants, NEW line, line.word # "ship",
           NEW c \in Cells, Playing(p, Turns), IsMyTurn(LobbyOf(p), p), UNCHANGED session,
           \A q \in Participants :
               clentData'[q].state = clentData[q].state /\ clentData'[q].lobby = clentData[q].lobby,
           \A id \in DOMAIN lobbies : id # clentData[p].lobby => lobbies'[id] = lobbies[id],
           MyField(lobbies'[clentData[p].lobby], p) = MyField(LobbyOf(p), p),
           \A q \in SeatsOf(LobbyOf(p)) : q # p =>
               MyField(lobbies'[clentData[p].lobby], q) = ShotField(MyField(LobbyOf(p), q), c),
           \A q : MailFor(q) = IF q \in SeatsOf(LobbyOf(p))
                              THEN <<Answer(ShotAnswer(TargetField(LobbyOf(p), p), c), c)>>
                              ELSE <<>>
    PROVE  FieldHandled(p, line)
<1> DEFINE lobby == LobbyOf(p)
           target == TargetField(lobby, p)
           answer == ShotAnswer(target, c)
           msg == Answer(answer, c)
<1>1. /\ clentData[p].state = "session" /\ lobby \in Lobbies /\ lobby.state \in Turns
      /\ lobby.state # "end"
  BY PlayingKept DEF Turns
<1>2. PICK enemy \in Participants :
          /\ enemy # p /\ {lobby.p1, lobby.p2} = {p, enemy} /\ SeatsOf(lobby) = {p, enemy}
          /\ lobby.p1 = p => lobby.p2 = enemy
          /\ lobby.p1 # p => lobby.p1 = enemy /\ lobby.p2 = p
          /\ session[enemy] = "open" =>
                /\ clentData[enemy].state = "session"
                /\ clentData[enemy].lobby = clentData[p].lobby
                /\ LobbyOf(enemy) = lobby
  BY <1>1, TwoSeats
<1>3. /\ MailFor(p) = <<msg>> /\ MailFor(enemy) = <<msg>>
      /\ \A q : q \notin {p, enemy} => MailFor(q) = <<>>
  BY <1>2
<1>4. msg \in Said
  <2> HIDE DEF target
  <2> QED
    BY AnswerToShot
<1>5. /\ target = MyField(lobby, enemy) /\ Desk(p).game = "my_turn"
      /\ session[enemy] = "open" =>
             Desk(enemy).state = "session" /\ Desk(enemy).game = "enemy_turn"
  <2>1. target = MyField(lobby, enemy)
    BY <1>2 DEF TargetField, MyField, IsParticipant1
  <2>2. GameStateFor(lobby, enemy) = "enemy_turn"
    <3> HIDE DEF lobby
    <3>1. IsMyTurn(lobby, p)
      BY DEF lobby
    <3> QED
      BY <1>1, <1>2, <3>1
      DEF GameStateFor, IsMyTurn, IsParticipant1, IsParticipant2, Mover, Turns
  <2>3. session[enemy] = "open" =>
             Desk(enemy).state = "session" /\ Desk(enemy).game = "enemy_turn"
    BY <1>2, <2>2, DeskParts
  <2> QED
    BY <2>1, <2>3, TurnsAtDesk
<1>6. ASSUME NEW q \in Participants, q # enemy PROVE FieldSpoken(q)
  <2> SUFFICES ASSUME Enters(q)
               PROVE  /\ clentData[q].state = "session" /\ Told(Desk(q), MailFor(q))
                      /\ OwnField(q)' = OwnField(q)
    BY DEF FieldSpoken
  <2>1. clentData[q].state = "session" /\ session[q] = "open"
    BY DEF Enters
  <2>2. /\ clentData[q].lobby \in DOMAIN lobbies /\ q \in SeatsOf(LobbyOf(q))
        /\ LobbyOf(q) = lobbies[clentData[q].lobby]
    BY <2>1, OtherSits
  <2>3. Told(Desk(q), MailFor(q))
    <3> HIDE DEF msg
    <3> QED
      BY <1>3, <1>4, <1>5, <1>6 DEF Told
  <2>4. OwnField(q)' = OwnField(q)
    <3>1. CASE q = p
      BY <3>1, OwnFieldNext DEF OwnField
    <3>2. CASE q # p
      <4>1. clentData[q].lobby # clentData[p].lobby
        <5>1. q \notin SeatsOf(lobby)
          BY <1>2, <1>6, <3>2
        <5> QED
          BY <2>2, <5>1 DEF LobbyOf
      <4> QED
        BY <2>2, <4>1, OwnFieldNext DEF OwnField
    <3> QED
      BY <3>1, <3>2
  <2> QED
    BY <2>1, <2>3, <2>4
<1>7. FieldServed(p, line)
  BY <1>2, <1>6 DEF FieldSpoken, FieldServed, Lays
<1>8. ASSUME Enters(enemy) PROVE Stirred(enemy)
  <2>1. session[enemy] = "open"
    BY <1>8 DEF Enters
  <2>2. OwnField(enemy) = target
    BY <1>2, <1>5, <2>1 DEF OwnField
  <2>3. OwnField(enemy)' = ShotField(target, c)
    BY <1>2, <1>5, <2>1, OwnFieldNext
  <2>4. StruckOwn(Desk(enemy), MailFor(enemy), OwnField(enemy), OwnField(enemy)')
    BY <1>3, <1>5, <2>1, <2>2, <2>3 DEF StruckOwn
  <2> QED
    BY <2>4 DEF Stirred
<1> HIDE DEF lobby, msg
<1> QED
  BY <1>6, <1>7, <1>8 DEF FieldHandled, FieldSpoken

(* The field of either player of a lobby after a shot. *)
ShotKept(lobby, p, shot, new) ==
    /\ MyField(new, p) = MyField(lobby, p)
    /\ \A q \in SeatsOf(lobby) : q # p =>
           MyField(new, q) = shot /\ TargetField(lobby, p) = MyField(lobby, q)

LEMMA HitKept ==
    ASSUME NEW lobby \in Lobbies, lobby.p1 # lobby.p2, NEW p \in SeatsOf(lobby),
           NEW shot \in Fields, NEW swap \in BOOLEAN
    PROVE  ShotKept(lobby, p, shot, AfterHit(lobby, p, shot, swap))
<1> DEFINE new == AfterHit(lobby, p, shot, swap)
<1>1. /\ new.p1 = lobby.p1 /\ new.p2 = lobby.p2
      /\ new.field1 = IF lobby.p1 = p THEN lobby.field1 ELSE shot
      /\ new.field2 = IF lobby.p1 = p THEN shot ELSE lobby.field2
  BY DEF AfterHit, SetTargetField, SwapState, IsParticipant1, Lobbies
<1>2. \A q \in SeatsOf(lobby) : q # p => (lobby.p1 = p <=> lobby.p1 # q)
  BY DEF SeatsOf
<1> HIDE DEF new
<1>3. ShotKept(lobby, p, shot, new)
  BY <1>1, <1>2 DEF ShotKept, MyField, TargetField, IsParticipant1
<1> QED
  BY <1>3 DEF new

LEMMA WonKept ==
    ASSUME NEW lobby \in Lobbies, lobby.p1 # lobby.p2, NEW p \in SeatsOf(lobby),
           NEW shot \in Fields
    PROVE  ShotKept(lobby, p, shot, Won(lobby, p, shot))
<1> DEFINE new == Won(lobby, p, shot)
<1>1. /\ new.p1 = lobby.p1 /\ new.p2 = lobby.p2
      /\ new.field1 = IF lobby.p1 = p THEN lobby.field1 ELSE shot
      /\ new.field2 = IF lobby.p1 = p THEN shot ELSE lobby.field2
  BY DEF Won, ResetReady, EndGame, SetTargetField, IsParticipant1, Lobbies
<1>2. \A q \in SeatsOf(lobby) : q # p => (lobby.p1 = p <=> lobby.p1 # q)
  BY DEF SeatsOf
<1> HIDE DEF new
<1>3. ShotKept(lobby, p, shot, new)
  BY <1>1, <1>2 DEF ShotKept, MyField, TargetField, IsParticipant1
<1> QED
  BY <1>3 DEF new

LEMMA ShootFields ==
    ASSUME GamesInv, ~idReused, NEW p \in Participants, NEW line, line.word # "ship",
           NEW c \in Cells, Shoot(p, c)
    PROVE  FieldHandled(p, line)
<1> DEFINE lobby == LobbyOf(p)
           target == TargetField(lobby, p)
           answer == ShotAnswer(target, c)
           shot == ShotField(target, c)
           swap == answer = "m"
           new == AfterHit(lobby, p, shot, swap)
<1>1. /\ Playing(p, Turns) /\ HasLobby(p) /\ UNCHANGED <<clentData, session>>
      /\ IsMyTurn(lobby, p)
      /\ lobbies' = SetLobby(p, new) /\ Announce(Answer(answer, c), lobby)
  BY DEF Shoot, Playing, AfterHit
<1>2. lobby \in Lobbies /\ lobby.p1 # lobby.p2 /\ p \in SeatsOf(lobby) /\ TypeOK
  BY <1>1, PlayingKept DEF GamesInv, SeatInv, TypeInv
<1>3. shot \in Fields
  <2>1. target \in Fields
    BY <1>2, FieldOfType
  <2> HIDE DEF target
  <2> QED
    BY <2>1, ShotFieldType
<1>4. ShotKept(lobby, p, shot, new)
  <2>1. swap \in BOOLEAN
    OBVIOUS
  <2> HIDE DEF lobby, shot, swap
  <2> QED
    BY <1>2, <1>3, <2>1, HitKept
<1> HIDE DEF new
<1>5. /\ lobbies'[clentData[p].lobby] = new
      /\ \A id \in DOMAIN lobbies : id # clentData[p].lobby => lobbies'[id] = lobbies[id]
  BY <1>1, <1>2, SetLobbyAt DEF SetLobby, TypeOK
<1>6. /\ MyField(lobbies'[clentData[p].lobby], p) = MyField(LobbyOf(p), p)
      /\ \A q \in SeatsOf(LobbyOf(p)) : q # p =>
             MyField(lobbies'[clentData[p].lobby], q) = ShotField(MyField(LobbyOf(p), q), c)
  BY <1>4, <1>5 DEF ShotKept
<1>7. \A q : MailFor(q) = IF q \in SeatsOf(lobby) THEN <<Answer(answer, c)>> ELSE <<>>
  BY <1>1, AnnouncedSeats
<1> QED
  BY <1>1, <1>5, <1>6, <1>7, StruckFields

LEMMA WinFields ==
    ASSUME GamesInv, ~idReused, NEW p \in Participants, NEW line, line.word # "ship",
           NEW c \in Cells, Win(p, c)
    PROVE  FieldHandled(p, line)
<1> DEFINE lobby == LobbyOf(p)
           target == TargetField(lobby, p)
           shot == ShotField(target, c)
           new == Won(lobby, p, shot)
           theirs == clentData[GetEnemy(lobby, p)].lobby
<1>1. /\ Playing(p, Turns) /\ HasLobby(p) /\ UNCHANGED session
      /\ IsMyTurn(lobby, p) /\ ShotAnswer(target, c) = "g"
  BY DEF Win, Playing
<1>2. /\ lobby \in Lobbies /\ lobby.p1 # lobby.p2 /\ p \in SeatsOf(lobby)
      /\ lobby.state \in Turns /\ lobby.state # "end" /\ TypeOK
  BY <1>1, PlayingKept DEF Turns, GamesInv, SeatInv, TypeInv
<1>3. PICK enemy \in Participants :
          /\ enemy = GetEnemy(lobby, p) /\ enemy # p
          /\ session[enemy] = "open" => clentData[enemy].lobby = clentData[p].lobby
  BY <1>1, <1>2, TwoSeats
<1>4. CASE theirs \notin DOMAIN lobbies
  <2>1. sent' = <<>> /\ UNCHANGED <<lobbies, clentData, session>>
    BY <1>4 DEF Win
  <2> QED
    BY <2>1, NoneTold, QuietFields, CalmHandled
<1>5. CASE theirs \in DOMAIN lobbies
  <2>1. theirs = clentData[p].lobby
    <3>1. theirs = clentData[enemy].lobby
      BY <1>3
    <3>2. ASSUME session[enemy] # "open" PROVE FALSE
      <4>1. theirs = NoLobby
        BY <3>1, <3>2, NotOpenForgotten DEF GamesInv, SharedClient
      <4>2. DOMAIN lobbies \subseteq Ids
        BY <1>2 DEF TypeOK
      <4> QED
        BY <1>5, <4>1, <4>2, ServerAssumption
    <3> QED
      BY <1>3, <3>1, <3>2
  <2>2. /\ lobbies' = [id \in DOMAIN lobbies |->
                         IF id = clentData[p].lobby THEN new
                         ELSE IF id = theirs THEN EndGame(lobbies[id])
                         ELSE lobbies[id]]
        /\ clentData' = [clentData EXCEPT ![p].isReady = FALSE, ![enemy].isReady = FALSE]
        /\ Announce(Answer(ShotAnswer(target, c), c), lobby)
    BY <1>1, <1>3, <1>5 DEF Win, Won
  <2>3. shot \in Fields
    <3>1. target \in Fields
      BY <1>2, FieldOfType
    <3> HIDE DEF target
    <3> QED
      BY <3>1, ShotFieldType
  <2>4. ShotKept(lobby, p, shot, new)
    <3> HIDE DEF lobby, shot
    <3> QED
      BY <1>2, <2>3, WonKept
  <2> HIDE DEF new
  <2>5. /\ lobbies'[clentData[p].lobby] = new
        /\ \A id \in DOMAIN lobbies : id # clentData[p].lobby => lobbies'[id] = lobbies[id]
    BY <1>1, <2>1, <2>2 DEF HasLobby
  <2>6. /\ MyField(lobbies'[clentData[p].lobby], p) = MyField(LobbyOf(p), p)
        /\ \A q \in SeatsOf(LobbyOf(p)) : q # p =>
               MyField(lobbies'[clentData[p].lobby], q) = ShotField(MyField(LobbyOf(p), q), c)
    BY <2>4, <2>5 DEF ShotKept
  <2>7. \A q \in Participants :
            clentData'[q].state = clentData[q].state /\ clentData'[q].lobby = clentData[q].lobby
    BY <1>2, <2>2 DEF TypeOK, Seats, Clients
  <2>8. \A q : MailFor(q) = IF q \in SeatsOf(lobby)
                            THEN <<Answer(ShotAnswer(target, c), c)>> ELSE <<>>
    BY <1>1, <2>2, AnnouncedSeats
  <2> QED
    BY <1>1, <2>5, <2>6, <2>7, <2>8, StruckFields
<1> QED
  BY <1>4, <1>5

LEMMA ContinueFields ==
    ASSUME GamesInv, ~idReused, NEW p \in Participants, NEW line, Continue(p)
    PROVE  FieldHandled(p, line)
<1> DEFINE lobby == LobbyOf(p)
           new == [lobby EXCEPT !.state = "preparation"]
<1>1. /\ HasLobby(p) /\ UNCHANGED session /\ Reply("continue", p) /\ TypeOK
      /\ \/ lobbies' = lobbies
         \/ lobbies' = SetLobby(p, new)
  BY DEF Continue, Playing, GamesInv, SeatInv, TypeInv
<1>2. lobby \in Lobbies
  BY PlayingKept DEF Continue
<1>3. ~Enters(p) /\ \A q \in Participants : q # p => clentData'[q] = clentData[q]
  BY <1>1 DEF Continue, TypeOK, Seats, Clients, Enters
<1>4. \A q : MyField(new, q) = MyField(lobby, q)
  <2> HIDE DEF lobby
  <2> QED
    BY <1>2 DEF MyField, IsParticipant1, Lobbies
<1> HIDE DEF new
<1>5. \A q \in Participants : q # p => KeptField(q)
  <2>1. CASE lobbies' = lobbies
    BY <1>3, <2>1, QuietFields
  <2>2. CASE lobbies' = SetLobby(p, new)
    BY <1>1, <1>3, <1>4, <2>2, SetKept
  <2> QED
    BY <1>1, <2>1, <2>2
<1>6. \A q \in Participants : Told(Desk(q), MailFor(q))
  BY <1>1, ReplyTold, SpokenLetters
<1> QED
  BY <1>3, <1>5, <1>6, CalmHandled DEF KeptField

LEMMA ReplyFields ==
    ASSUME NEW p \in Participants, NEW line, line.word # "ship", UNCHANGED lobbies,
           Reply("f", p), UNCHANGED clentData
    PROVE  FieldHandled(p, line)
<1>1. \A q \in Participants : KeptField(q)
  BY QuietFields
<1>2. \A q \in Participants : Told(Desk(q), MailFor(q))
  BY ReplyTold, SpokenLetters
<1> QED
  BY <1>1, <1>2, CalmHandled

LEMMA UnexpectedFields ==
    ASSUME GamesInv, NEW p \in Participants, NEW line, line.word # "ship", Unexpected(p)
    PROVE  FieldHandled(p, line)
<1>1. CASE UNCHANGED clentData
  BY <1>1, ReplyFields DEF Unexpected
<1>2. CASE StopReading(p, TRUE) /\ clentData' = Forget(p, clentData)
  <2>1. ~Enters(p) /\ \A q \in Participants : q # p => clentData'[q] = clentData[q]
    BY <1>2 DEF Forget, SharedClient, GamesInv, SeatInv, TypeInv, TypeOK, Seats, Enters
  <2>2. \A q \in Participants : KeptField(q)
    BY <2>1, QuietFields DEF Unexpected, KeptField
  <2>3. \A q \in Participants : Told(Desk(q), MailFor(q))
    BY ReplyTold, SpokenLetters DEF Unexpected
  <2> QED
    BY <2>1, <2>2, <2>3, CalmHandled
<1> QED
  BY <1>1, <1>2 DEF Unexpected

(* Every line the server reads: a ship it reads in the preparation, where it fits. *)
ShipReadable(p, line) ==
    line.word = "ship" =>
        /\ line.spaced /\ InPreparation(Desk(p)) /\ CanSetShip(OwnField(p), line.ship)

LEMMA PreparationLobby ==
    ASSUME NEW p, InPreparation(Desk(p))
    PROVE  clentData[p].state = "session" /\ LobbyOf(p).state = "preparation"
<1>1. clentData[p].state = "session" /\ Desk(p).game = GameStateFor(LobbyOf(p), p)
  BY DeskParts DEF InPreparation
<1>2. GameStateFor(LobbyOf(p), p) = "preparation"
  BY <1>1 DEF InPreparation
<1> QED
  BY <1>1, <1>2 DEF GameStateFor

LEMMA SessionFields ==
    ASSUME GamesInv, GamesInv', ~idReused, ~idReused', NEW p \in Participants,
           NEW line \in Lines, ObeySession(p, line), InTurns(Desk(p)) => IsShot(line),
           ShipReadable(p, line)
    PROVE  FieldHandled(p, line)
<1>1. line.word = "ship" => /\ IsPlacement(line) /\ LobbyOf(p).state = "preparation"
                            /\ CanSetShip(OwnField(p), line.ship)
  BY PreparationLobby DEF ShipReadable, IsPlacement
<1>2. line.word = "ship" => PlaceShip(p, line.ship)
  BY <1>1 DEF ObeySession, IsPlacement, IsShot, RepeatShot, Shoot, Win, WrongTurn, Rebroadcast,
      Continue, Playing, Turns
<1>3. CASE line.word = "ship"
  BY <1>1, <1>2, <1>3, PlaceFields
<1>4. CASE line.word # "ship"
  <2>1. CASE ReadyToPlay(p)
    BY <1>4, <2>1, ReadyFields
  <2>2. CASE (IsShot(line) /\ RepeatShot(p, line.cell)) \/ WrongTurn(p)
    BY <1>4, <2>2, ReplyFields DEF RepeatShot, WrongTurn
  <2>3. CASE IsShot(line) /\ (Shoot(p, line.cell) \/ Win(p, line.cell))
    <3>1. line.cell \in Cells
      BY <2>3, SystemAssumption DEF IsShot
    <3> QED
      BY <1>4, <2>3, <3>1, ShootFields, WinFields
  <2>4. CASE ~IsShot(line) /\ Rebroadcast(p)
    BY <2>4, TurnsAtDesk DEF Rebroadcast
  <2>5. CASE Continue(p)
    BY <2>5, ContinueFields
  <2>6. CASE Unexpected(p)
    BY <1>4, <2>6, UnexpectedFields
  <2> QED
    BY <1>4, <2>1, <2>2, <2>3, <2>4, <2>5, <2>6 DEF ObeySession, IsPlacement
<1> QED
  BY <1>3, <1>4

LEMMA ObeyFields ==
    ASSUME GamesInv, GamesInv', RestedAtEnd, ~idReused, ~idReused',
           NEW p \in Participants, NEW line \in Lines, Obey(p, line),
           InTurns(Desk(p)) => IsShot(line), ShipReadable(p, line)
    PROVE  FieldHandled(p, line)
BY ConnectedFields, LobbyFields, SessionFields, NoDeadLobby DEF Obey

(* Two players and the counters of ships. Nothing takes a field's counters back (field.hpp,
   Clear keeps them), neither between games nor when the seat is given up. That no server
   field counts more ships than the client of whoever may next play on it rests on there
   being two players: a free seat beside an enemy is one that its next player has left, or
   nobody. *)
Claim(lobby, q, m) ==
    /\ lobby.p1 = q \/ (lobby.p1 = NoOne /\ lobby.p2 # q) => Below(lobby.field1, m)
    /\ lobby.p2 = q \/ (lobby.p2 = NoOne /\ lobby.p1 # q) => Below(lobby.field2, m)

Claims == \A id \in DOMAIN lobbies : \A q \in Participants : Claim(lobbies[id], q, client[q].m_my)

(* The same players and counters. *)
SamePlaced(lobby, new) ==
    /\ new.p1 = lobby.p1 /\ new.p2 = lobby.p2
    /\ new.field1.placed = lobby.field1.placed /\ new.field2.placed = lobby.field2.placed

LEMMA SamePlacedClaim ==
    ASSUME NEW lobby, NEW new, SamePlaced(lobby, new), NEW q, NEW m, Claim(lobby, q, m)
    PROVE  Claim(new, q, m)
BY DEF SamePlaced, Claim, Below

LEMMA ClaimGrows ==
    ASSUME NEW lobby \in Lobbies, NEW q, NEW m \in Fields, NEW n \in Fields, Claim(lobby, q, m),
           Below(m, n)
    PROVE  Claim(lobby, q, n)
<1>1. lobby.field1 \in Fields /\ lobby.field2 \in Fields
  BY DEF Lobbies
<1> QED
  BY <1>1, BelowTransitive DEF Claim

LEMMA NewLobbyClaim ==
    ASSUME NEW q, NEW m \in Fields
    PROVE  Claim(NewLobby, q, m)
<1>1. Below(EmptyField, m)
  BY DEF EmptyField, Below, Fields
<1> QED
  BY <1>1 DEF Claim, NewLobby

LEMMA AddedClaim ==
    ASSUME NEW lobby \in Lobbies, NEW p \in Participants, p \notin SeatsOf(lobby),
           NEW q \in Participants, NEW m, Claim(lobby, q, m)
    PROVE  Claim(AddParticipant(lobby, p), q, m)
<1>1. p # NoOne /\ q # NoOne
  BY ServerAssumption
<1>2. lobby.p1 # p /\ lobby.p2 # p
  BY <1>1 DEF SeatsOf
<1> DEFINE new == AddParticipant(lobby, p)
<1>3. /\ new.field1 = lobby.field1 /\ new.field2 = lobby.field2
      /\ new.p1 = IF lobby.p1 = NoOne THEN p ELSE lobby.p1
      /\ new.p2 = IF lobby.p1 # NoOne /\ lobby.p2 = NoOne THEN p ELSE lobby.p2
  BY DEF AddParticipant, Lobbies
<1> HIDE DEF new
<1>4. Claim(new, q, m)
  BY <1>1, <1>2, <1>3 DEF Claim
<1> QED
  BY <1>4 DEF new

LEMMA RemovedClaim ==
    ASSUME TwoPlayers, NEW lobby \in Lobbies, lobby.p1 = lobby.p2 => lobby.p1 = NoOne,
           NEW p \in Participants, ~IsEmpty(RemoveParticipant(lobby, p)),
           NEW q \in Participants, NEW m, Claim(lobby, q, m)
    PROVE  Claim(RemoveParticipant(lobby, p), q, m)
<1>1. p # NoOne /\ q # NoOne
  BY ServerAssumption
<1> DEFINE new == RemoveParticipant(lobby, p)
<1>2. /\ new.field1 = lobby.field1 /\ new.field2 = lobby.field2
      /\ new.p1 = IF lobby.p1 = p THEN NoOne ELSE lobby.p1
      /\ new.p2 = IF lobby.p2 = p THEN NoOne ELSE lobby.p2
  BY DEF RemoveParticipant, Lobbies
<1>3. new.p1 # NoOne \/ new.p2 # NoOne
  BY DEF IsEmpty
<1>4. p = q \/ (lobby.p1 \in {NoOne, p, q} /\ lobby.p2 \in {NoOne, p, q})
  BY DEF TwoPlayers, Lobbies, Seats
<1> HIDE DEF new
<1>5. Claim(new, q, m)
  BY <1>1, <1>2, <1>3, <1>4 DEF Claim
<1> QED
  BY <1>5 DEF new

(* A ship on the field of p. *)
LEMMA LaidClaim ==
    ASSUME NEW lobby \in Lobbies, lobby.p1 # lobby.p2, NEW p \in SeatsOf(lobby), NEW f,
           NEW q, NEW m, Claim(lobby, q, m), q = p => Below(f, m)
    PROVE  Claim(SetMyField(lobby, p, f), q, m)
<1> DEFINE new == SetMyField(lobby, p, f)
<1>1. /\ new.p1 = lobby.p1 /\ new.p2 = lobby.p2
      /\ new.field1 = IF lobby.p1 = p THEN f ELSE lobby.field1
      /\ new.field2 = IF lobby.p1 = p THEN lobby.field2 ELSE f
  BY DEF SetMyField, IsParticipant1, Lobbies
<1>2. p # NoOne /\ (lobby.p1 = p \/ lobby.p2 = p)
  BY DEF SeatsOf
<1> HIDE DEF new
<1>3. Claim(new, q, m)
  BY <1>1, <1>2 DEF Claim
<1> QED
  BY <1>3 DEF new

-----------------------------------------------------------------------------
LEMMA MapClaims ==
    ASSUME Claims, UNCHANGED client,
           \A id \in DOMAIN lobbies' : id \in DOMAIN lobbies /\ SamePlaced(lobbies[id], lobbies'[id])
    PROVE  Claims'
BY SamePlacedClaim DEF Claims

LEMMA SameClaims ==
    ASSUME Claims, UNCHANGED <<lobbies, client>>
    PROVE  Claims'
BY DEF Claims

LEMMA SetClaims ==
    ASSUME TypeOK, Claims, UNCHANGED client, NEW p \in Participants, HasLobby(p),
           NEW new, \A q \in Participants : Claim(new, q, client[q].m_my),
           lobbies' = SetLobby(p, new)
    PROVE  Claims'
<1>1. /\ DOMAIN lobbies' = DOMAIN lobbies
      /\ \A id \in DOMAIN lobbies : lobbies'[id] = new \/ lobbies'[id] = lobbies[id]
  BY DEF SetLobby, HasLobby, TypeOK
<1> QED
  BY <1>1 DEF Claims

LEMMA SetSameClaims ==
    ASSUME TypeOK, Claims, UNCHANGED client, NEW p \in Participants, HasLobby(p),
           NEW new, SamePlaced(LobbyOf(p), new), lobbies' = SetLobby(p, new)
    PROVE  Claims'
<1>1. \A q \in Participants : Claim(LobbyOf(p), q, client[q].m_my)
  BY DEF Claims, HasLobby, LobbyOf
<1>2. \A q \in Participants : Claim(new, q, client[q].m_my)
  BY <1>1, SamePlacedClaim
<1> QED
  BY <1>2, SetClaims

LEMMA ConnectedClaims ==
    ASSUME SystemTypeInv, GamesInv, ~idReused', Claims, UNCHANGED client, NEW p \in Participants,
           NEW line, ObeyConnected(p, line)
    PROVE  Claims'
<1>1. TypeOK /\ SeatInv /\ client \in [Participants -> ClientPrograms]
  BY DEF GamesInv, SeatInv, TypeInv, SystemTypeInv
<1>2. \A q \in Participants : client[q].m_my \in Fields
  BY <1>1 DEF ClientPrograms
<1>3. CASE Create(p)
  <2> DEFINE id == lobbiesCount
  <2>1. /\ id \notin DOMAIN lobbies /\ DOMAIN lobbies' = DOMAIN lobbies \cup {id}
        /\ lobbies' = [i \in DOMAIN lobbies \cup {id} |->
                          IF i = id THEN AddParticipant(NewLobby, p) ELSE lobbies[i]]
    BY <1>3 DEF Create
  <2>2. p \notin SeatsOf(NewLobby)
    BY DEF SeatsOf, NewLobby
  <2>3. \A q \in Participants : Claim(AddParticipant(NewLobby, p), q, client[q].m_my)
    BY <1>2, <2>2, NewLobbyType, NewLobbyClaim, AddedClaim
  <2> HIDE DEF id
  <2> QED
    BY <2>1, <2>3 DEF Claims
<1>4. ASSUME NEW id \in FreeLobbies, NEW letter, Handling(p, "connected"), Enter(p, id, letter)
      PROVE  Claims'
  <2>1. id \in DOMAIN lobbies /\ lobbies[id] \in Lobbies
    BY <1>1 DEF FreeLobbies, TypeOK
  <2>2. p \notin SeatsOf(lobbies[id])
    BY <1>1, <1>4, <2>1, SenderOpen, SitsInOne
  <2>3. /\ DOMAIN lobbies' = DOMAIN lobbies /\ lobbies'[id] = AddParticipant(lobbies[id], p)
        /\ \A i \in DOMAIN lobbies : i # id => lobbies'[i] = lobbies[i]
    BY <1>1, <1>4, <2>1 DEF Enter, TypeOK
  <2>4. \A q \in Participants : Claim(lobbies'[id], q, client[q].m_my)
    BY <2>1, <2>2, <2>3, AddedClaim DEF Claims
  <2> QED
    BY <2>3, <2>4 DEF Claims
<1>5. CASE Join(p)
  BY <1>4, <1>5 DEF Join
<1>6. CASE ConnectTo(p, line.id)
  BY <1>4, <1>6 DEF ConnectTo
<1>7. CASE Refuse(p) \/ List(p) \/ QuitConnected(p)
  BY <1>7, SameClaims DEF Refuse, List, QuitConnected
<1> QED
  BY <1>3, <1>5, <1>6, <1>7 DEF ObeyConnected

LEMMA VacatedClaims ==
    ASSUME TwoPlayers, GamesInv, Claims, UNCHANGED client, NEW p \in Participants,
           HasLobby(p), NEW clients, Vacate(p, clients)
    PROVE  Claims'
<1> DEFINE lobby == LobbyOf(p)
<1>1. TypeOK /\ SeatsOwned
  BY DEF GamesInv, SeatInv, TypeInv
<1>2. /\ lobby \in Lobbies /\ (lobby.p1 = lobby.p2 => lobby.p1 = NoOne)
      /\ \A q \in Participants : Claim(lobby, q, client[q].m_my)
  BY <1>1, LobbyOfType DEF SeatsOwned, HasLobby, LobbyOf, Claims
<1>3. CASE IsEmpty(RemoveParticipant(lobby, p))
  <2>1. lobbies' = [i \in DOMAIN lobbies \ {clentData[p].lobby} |-> lobbies[i]]
    BY <1>3 DEF Vacate
  <2> QED
    BY <2>1 DEF Claims
<1>4. CASE ~IsEmpty(RemoveParticipant(lobby, p))
  <2> DEFINE new == RemoveParticipant(lobby, p)
  <2>1. lobbies' = SetLobby(p, new)
    BY <1>4 DEF Vacate
  <2> HIDE DEF lobby
  <2>2. \A q \in Participants : Claim(new, q, client[q].m_my)
    BY <1>2, <1>4, RemovedClaim
  <2> HIDE DEF new
  <2> QED
    BY <1>1, <2>1, <2>2, SetClaims
<1> QED
  BY <1>3, <1>4

LEMMA ClearPlaced == \A f \in Fields : Clear(f).placed = f.placed
BY DEF Clear, Fields

LEMMA LobbyClaims ==
    ASSUME TwoPlayers, GamesInv, Claims, UNCHANGED client, NEW p \in Participants, NEW line,
           ObeyLobby(p, line)
    PROVE  Claims'
<1>1. TypeOK
  BY DEF GamesInv, SeatInv, TypeInv
<1>2. CASE ReadyInLobby(p)
  <2> DEFINE new == StartSession(LobbyOf(p))
  <2>1. HasLobby(p) /\ (UNCHANGED lobbies \/ lobbies' = SetLobby(p, new))
    BY <1>2 DEF ReadyInLobby
  <2>2. LobbyOf(p) \in Lobbies
    BY <1>1, <2>1, LobbyOfType
  <2>3. SamePlaced(LobbyOf(p), new)
    BY <2>2, ClearPlaced DEF SamePlaced, StartSession, Lobbies
  <2> HIDE DEF new
  <2> QED
    BY <1>1, <2>1, <2>3, SameClaims, SetSameClaims
<1>3. CASE Unready(p)
  BY <1>3, SameClaims DEF Unready
<1>4. CASE Leave(p)
  <2>1. HasLobby(p) /\ \E clients : Vacate(p, clients)
    BY <1>4 DEF Leave
  <2> QED
    BY <2>1, VacatedClaims
<1>5. CASE QuitLobby(p)
  <2>1. HasLobby(p) /\ \E clients : Vacate(p, clients)
    BY <1>5 DEF QuitLobby
  <2> QED
    BY <2>1, VacatedClaims
<1> QED
  BY <1>2, <1>3, <1>4, <1>5 DEF ObeyLobby

(* The counters of a field after a shot. *)
LEMMA ShotPlaced ==
    ASSUME NEW f \in Fields, NEW c
    PROVE  ShotField(f, c).placed = f.placed
BY DEF ShotField, MarkShot, Kill, Fields

LEMMA TargetPlaced ==
    ASSUME NEW lobby \in Lobbies, NEW p, NEW f, f.placed = TargetField(lobby, p).placed
    PROVE  SamePlaced(lobby, SetTargetField(lobby, p, f))
BY DEF SamePlaced, SetTargetField, TargetField, IsParticipant1, Lobbies

(* What the server lays on the field of p is not more than his client has counted. *)
Counted(p, line) ==
    line.word = "ship" /\ CanSetShip(OwnField(p), line.ship) =>
        Below(SetShip(OwnField(p), line.ship), client[p].m_my)

LEMMA PlaceClaims ==
    ASSUME GamesInv, ~idReused, Claims, UNCHANGED client, NEW p \in Participants, NEW line,
           IsPlacement(line), PlaceShip(p, line.ship), Counted(p, line)
    PROVE  Claims'
<1> DEFINE lobby == LobbyOf(p)
           new == SetMyField(lobby, p, SetShip(MyField(lobby, p), line.ship))
<1>1. /\ HasLobby(p) /\ lobby \in Lobbies /\ lobby.p1 # lobby.p2 /\ p \in SeatsOf(lobby) /\ TypeOK
  BY PlayingKept DEF PlaceShip, Playing, GamesInv, SeatInv, TypeInv
<1>2. \A q \in Participants : Claim(lobby, q, client[q].m_my)
  BY <1>1 DEF HasLobby, LobbyOf, Claims
<1>3. CASE CanSetShip(MyField(lobby, p), line.ship)
  <2> DEFINE f == SetShip(MyField(lobby, p), line.ship)
  <2>1. lobbies' = SetLobby(p, new)
    BY <1>3 DEF PlaceShip
  <2>2. Below(f, client[p].m_my)
    BY <1>3 DEF Counted, OwnField, IsPlacement
  <2> HIDE DEF lobby, f
  <2>3. \A q \in Participants : Claim(SetMyField(lobby, p, f), q, client[q].m_my)
    BY <1>1, <1>2, <2>2, LaidClaim
  <2>4. \A q \in Participants : Claim(new, q, client[q].m_my)
    BY <2>3 DEF f
  <2> HIDE DEF new
  <2> QED
    BY <1>1, <2>1, <2>4, SetClaims
<1>4. CASE ~CanSetShip(MyField(lobby, p), line.ship)
  BY <1>4, SameClaims DEF PlaceShip
<1> QED
  BY <1>3, <1>4

LEMMA SessionClaims ==
    ASSUME GamesInv, ~idReused, Claims, UNCHANGED client, NEW p \in Participants, NEW line,
           ObeySession(p, line), Counted(p, line)
    PROVE  Claims'
<1> DEFINE lobby == LobbyOf(p)
<1>1. TypeOK
  BY DEF GamesInv, SeatInv, TypeInv
<1>2. HasLobby(p) => lobby \in Lobbies
  BY <1>1, LobbyOfType
<1>3. CASE IsPlacement(line) /\ PlaceShip(p, line.ship)
  BY <1>3, PlaceClaims
<1>4. CASE ReadyToPlay(p)
  <2> DEFINE new == MarkReady(lobby, p)
  <2>1. HasLobby(p)
    BY <1>4 DEF ReadyToPlay, Playing
  <2>2. SamePlaced(lobby, new) /\ \A turn : SamePlaced(lobby, [new EXCEPT !.state = turn])
    BY <1>2, <2>1 DEF SamePlaced, MarkReady, Lobbies
  <2>3. CASE new.ready1 /\ new.ready2
    <3>1. PICK turn \in Turns : lobbies' = SetLobby(p, [new EXCEPT !.state = turn])
      BY <1>4, <2>3 DEF ReadyToPlay
    <3> DEFINE begun == [new EXCEPT !.state = turn]
    <3>2. SamePlaced(lobby, begun) /\ lobbies' = SetLobby(p, begun)
      BY <2>2, <3>1
    <3> HIDE DEF begun, new
    <3> QED
      BY <1>1, <2>1, <3>2, SetSameClaims
  <2>4. CASE ~(new.ready1 /\ new.ready2)
    <3>1. lobbies' = SetLobby(p, new)
      BY <1>4, <2>4 DEF ReadyToPlay
    <3> HIDE DEF new
    <3> QED
      BY <1>1, <2>1, <2>2, <3>1, SetSameClaims
  <2> QED
    BY <2>3, <2>4
<1>5. CASE Shoot(p, line.cell)
  <2> DEFINE target == TargetField(lobby, p)
             hit == SetTargetField(lobby, p, ShotField(target, line.cell))
             new == IF ShotAnswer(target, line.cell) = "m" THEN SwapState(hit, p) ELSE hit
  <2>1. HasLobby(p) /\ lobbies' = SetLobby(p, new)
    BY <1>5 DEF Shoot, Playing
  <2>2. target \in Fields
    BY <1>2, <2>1, FieldOfType
  <2>3. SamePlaced(lobby, hit)
    BY <1>2, <2>1, <2>2, ShotPlaced, TargetPlaced
  <2>4. hit.p1 = lobby.p1 => SamePlaced(hit, SwapState(hit, p))
    BY <1>2, <2>1 DEF SamePlaced, SwapState, SetTargetField, Lobbies
  <2> HIDE DEF hit
  <2>5. SamePlaced(lobby, new)
    BY <2>3, <2>4 DEF SamePlaced
  <2> HIDE DEF new
  <2> QED
    BY <1>1, <2>1, <2>5, SetSameClaims
<1>6. CASE Win(p, line.cell)
  <2> DEFINE target == TargetField(lobby, p)
             hit == SetTargetField(lobby, p, ShotField(target, line.cell))
             new == ResetReady(EndGame(hit))
             theirs == clentData[GetEnemy(lobby, p)].lobby
  <2>1. HasLobby(p)
    BY <1>6 DEF Win, Playing
  <2>2. target \in Fields
    BY <1>2, <2>1, FieldOfType
  <2>3. SamePlaced(lobby, hit)
    BY <1>2, <2>1, <2>2, ShotPlaced, TargetPlaced
  <2>4. SamePlaced(hit, new)
    BY <1>2, <2>1 DEF SamePlaced, ResetReady, EndGame, SetTargetField, Lobbies
  <2>5. SamePlaced(lobby, new)
    <3> HIDE DEF new, hit
    <3> QED
      BY <2>3, <2>4 DEF SamePlaced
  <2>6. CASE theirs \notin DOMAIN lobbies
    BY <1>6, <2>6, SameClaims DEF Win
  <2>7. CASE theirs \in DOMAIN lobbies
    <3>1. lobbies' = [id \in DOMAIN lobbies |->
                        IF id = clentData[p].lobby THEN new
                        ELSE IF id = theirs THEN EndGame(lobbies[id])
                        ELSE lobbies[id]]
      BY <1>6, <2>7 DEF Win
    <3>2. \A id \in DOMAIN lobbies : SamePlaced(lobbies[id], EndGame(lobbies[id]))
      <4> SUFFICES ASSUME NEW id \in DOMAIN lobbies
                   PROVE  SamePlaced(lobbies[id], EndGame(lobbies[id]))
        OBVIOUS
      <4>1. lobbies[id] \in Lobbies
        BY <1>1 DEF TypeOK
      <4> QED
        BY <4>1 DEF SamePlaced, EndGame, Lobbies
    <3>3. \A id \in DOMAIN lobbies : SamePlaced(lobbies[id], lobbies[id])
      BY DEF SamePlaced
    <3>4. \A id \in DOMAIN lobbies : id = clentData[p].lobby => lobby = lobbies[id]
      BY DEF LobbyOf
    <3> HIDE DEF new, theirs, lobby
    <3>5. \A id \in DOMAIN lobbies' :
              id \in DOMAIN lobbies /\ SamePlaced(lobbies[id], lobbies'[id])
      BY <2>5, <3>1, <3>2, <3>3, <3>4
    <3> QED
      BY <3>5, MapClaims
  <2> QED
    BY <2>6, <2>7
<1>7. CASE Continue(p)
  <2> DEFINE new == [lobby EXCEPT !.state = "preparation"]
  <2>1. HasLobby(p) /\ (UNCHANGED lobbies \/ lobbies' = SetLobby(p, new))
    BY <1>7 DEF Continue, Playing
  <2>2. SamePlaced(lobby, new)
    BY <1>2, <2>1 DEF SamePlaced, Lobbies
  <2> HIDE DEF new
  <2> QED
    BY <1>1, <2>1, <2>2, SameClaims, SetSameClaims
<1>8. CASE RepeatShot(p, line.cell) \/ WrongTurn(p) \/ Rebroadcast(p) \/ Unexpected(p)
  BY <1>8, SameClaims DEF RepeatShot, WrongTurn, Rebroadcast, Unexpected
<1> QED
  BY <1>3, <1>4, <1>5, <1>6, <1>7, <1>8 DEF ObeySession

LEMMA ObeyClaims ==
    ASSUME TwoPlayers, SystemTypeInv, GamesInv, ~idReused, ~idReused', Claims, UNCHANGED client,
           NEW p \in Participants, NEW line, Obey(p, line), Counted(p, line)
    PROVE  Claims'
BY ConnectedClaims, LobbyClaims, SessionClaims, SameClaims DEF Obey, FollowDeadLobby

(* A step of one client: his counters never fall. *)
LEMMA ClientClaims ==
    ASSUME SystemTypeInv, SystemTypeInv', Claims, UNCHANGED lobbies, NEW p \in Participants,
           Below(client[p].m_my, client'[p].m_my),
           \A q \in Participants : q # p => client'[q] = client[q]
    PROVE  Claims'
<1>1. \A q \in Participants : client[q].m_my \in Fields /\ client'[q].m_my \in Fields
  BY DEF SystemTypeInv, ClientPrograms
<1>2. \A id \in DOMAIN lobbies : lobbies[id] \in Lobbies
  BY DEF SystemTypeInv, TypeInv, TypeOK
<1> SUFFICES ASSUME NEW id \in DOMAIN lobbies, NEW q \in Participants
             PROVE  Claim(lobbies[id], q, client'[q].m_my)
  BY DEF Claims
<1>3. Claim(lobbies[id], q, client[q].m_my)
  BY DEF Claims
<1>4. CASE q = p
  BY <1>1, <1>2, <1>3, <1>4, ClaimGrows
<1>5. CASE q # p
  BY <1>3, <1>5
<1> QED
  BY <1>4, <1>5

(* The inductive invariant of two players. *)
OwnAt(q) == Own(client[q], pressed[q], toServer[q], toClient[q], Desk(q), OwnField(q))

OwnFit == Claims /\ \A q \in Participants : OwnAt(q)

OwnInv == SysInv /\ NumbersKept /\ ~idReused /\ OwnFit

LEMMA SeatedField ==
    ASSUME GamesInv, ~idReused, Claims, NEW q \in Participants,
           Desk(q).life = "open", Desk(q).state # "connected"
    PROVE  OwnField(q) \in Fields /\ Below(OwnField(q), client[q].m_my)
<1> DEFINE lobby == LobbyOf(q)
<1>1. session[q] = "open" /\ clentData[q].state # "connected"
  BY DeskParts
<1>2. HasLobby(q) /\ lobby \in Lobbies /\ q \in SeatsOf(lobby) /\ lobby.p1 # lobby.p2
  BY <1>1, SenderPlays
<1>3. Claim(lobby, q, client[q].m_my)
  BY <1>2 DEF HasLobby, LobbyOf, Claims
<1> HIDE DEF lobby
<1>4. MyField(lobby, q) \in Fields
  BY <1>2, FieldOfType
<1>5. Below(MyField(lobby, q), client[q].m_my)
  BY <1>2, <1>3 DEF Claim, MyField, IsParticipant1, SeatsOf
<1> QED
  BY <1>4, <1>5 DEF OwnField, lobby

LEMMA SameOwnField ==
    ASSUME UNCHANGED <<lobbies, clentData>>
    PROVE  \A q : OwnField(q)' = OwnField(q)
BY DEF OwnField, LobbyOf

LEMMA BelowSame == \A f \in Fields : Below(f, f)
BY DEF Below, Fields

(* A step of the two programs of p and of his wires. *)
LEMMA ClientStepOwn ==
    ASSUME SystemTypeInv, SystemTypeInv', OwnFit, UNCHANGED vars, NEW p \in Participants, OwnAt(p)',
           Below(client[p].m_my, client'[p].m_my),
           \A q \in Participants : q # p =>
               /\ client'[q] = client[q] /\ pressed'[q] = pressed[q]
               /\ toServer'[q] = toServer[q] /\ toClient'[q] = toClient[q]
    PROVE  OwnFit'
<1>1. UNCHANGED <<lobbies, clentData, session>>
  BY DEF vars
<1>2. Claims'
  BY <1>1, ClientClaims DEF OwnFit
<1>3. ASSUME NEW q \in Participants, q # p PROVE OwnAt(q)'
  <2>1. Desk(q)' = Desk(q) /\ OwnField(q)' = OwnField(q)
    BY <1>1, SameStateDesk, SameOwnField
  <2>2. OwnAt(q)
    BY DEF OwnFit
  <2>3. /\ client'[q] = client[q] /\ pressed'[q] = pressed[q]
        /\ toServer'[q] = toServer[q] /\ toClient'[q] = toClient[q]
    BY <1>3
  <2> QED
    BY <2>1, <2>2, <2>3 DEF OwnAt
<1> QED
  BY <1>2, <1>3 DEF OwnFit

LEMMA PressOwnStep ==
    ASSUME SystemTypeInv, SystemTypeInv', Careful, OwnFit, NEW p \in Participants,
           NEW line \in Lines, Press(p, line)
    PROVE  OwnFit'
<1>1. /\ client \in [Participants -> ClientPrograms]
      /\ pressed \in [Participants -> Lines \cup {NoLine}]
  BY DEF SystemTypeInv
<1>2. /\ pressed[p] = NoLine /\ line.word \in OfferedWords(client[p]) /\ ~AwaitsTurns(client[p])
      /\ UNCHANGED <<vars, client, toServer, toClient>>
  BY DEF Press, MayPress
<1>3. pressed'[p] = line /\ \A q \in Participants : q # p => pressed'[q] = pressed[q]
  BY <1>1 DEF Press
<1>4. Own(client[p], NoLine, toServer[p], toClient[p], Desk(p), OwnField(p))
  BY <1>2 DEF OwnFit, OwnAt
<1>5. client[p] \in ClientPrograms /\ client[p].m_my \in Fields
  BY <1>1 DEF ClientPrograms
<1>6. Own(client[p], line, toServer[p], toClient[p], Desk(p), OwnField(p))
  BY <1>2, <1>4, <1>5, PressOwn
<1>7. Desk(p)' = Desk(p) /\ OwnField(p)' = OwnField(p)
  BY <1>2, SameStateDesk, SameOwnField DEF vars
<1>8. OwnAt(p)'
  BY <1>2, <1>3, <1>6, <1>7 DEF OwnAt
<1> QED
  BY <1>2, <1>3, <1>5, <1>8, BelowSame, ClientStepOwn

LEMMA ActOwnStep ==
    ASSUME SystemTypeInv, SystemTypeInv', GamesInv, ~idReused, PlayersFit, OwnFit,
           NEW p \in Participants, Act(p)
    PROVE  OwnFit'
<1> DEFINE line == pressed[p]
           now == client[p]
           h == IF line.word = "quit" THEN [now EXCEPT !.program = "closed"] ELSE Typed(now, line)
           ts2 == IF Sends(now, line) THEN Append(toServer[p], line) ELSE toServer[p]
           d == Desk(p)
           f == OwnField(p)
<1>1. /\ client \in [Participants -> ClientPrograms]
      /\ pressed \in [Participants -> Lines \cup {NoLine}]
      /\ toServer \in [Participants -> Seq(Lines)]
  BY DEF SystemTypeInv
<1>2. /\ line \in Lines /\ now.program = "running" /\ UNCHANGED <<vars, toClient>>
      /\ pressed' = [pressed EXCEPT ![p] = NoLine]
      /\ client' = [client EXCEPT ![p] = h]
      /\ toServer' = IF Sends(now, line) THEN [toServer EXCEPT ![p] = Append(@, line)]
                     ELSE toServer
  BY <1>1 DEF Act, Running
<1>3. Below(now.m_my, h.m_my)
  <2>1. now.m_my \in Fields /\ now \in ClientPrograms
    BY <1>1 DEF ClientPrograms
  <2>2. CASE line.word # "quit" /\ PlacesShip(now, line) /\ h.m_my = SetShip(now.m_my, line.ship)
    <3>1. Lays(now.m_my, line, h.m_my)
      BY <2>2 DEF Lays, PlacesShip
    <3> QED
      BY <1>2, <2>1, <3>1, LaysGrows
  <2>3. CASE h.m_my = now.m_my
    BY <2>1, <2>3, BelowSame
  <2>4. h.m_my = now.m_my
        \/ (line.word # "quit" /\ PlacesShip(now, line) /\ h.m_my = SetShip(now.m_my, line.ship))
    BY <2>1 DEF Typed, ClientPrograms
  <2> QED
    BY <2>2, <2>3, <2>4
<1> HIDE DEF h
<1>4. client'[p] = h /\ pressed'[p] = NoLine /\ toServer'[p] = ts2
  BY <1>1, <1>2
<1>5. \A q \in Participants : q # p =>
          /\ client'[q] = client[q] /\ pressed'[q] = pressed[q]
          /\ toServer'[q] = toServer[q] /\ toClient'[q] = toClient[q]
  BY <1>1, <1>2
<1>6. /\ Player(now, line, toServer[p], toClient[p], d)
      /\ Own(now, line, toServer[p], toClient[p], d, f)
  BY DEF PlayersFit, PlayerAt, OwnFit, OwnAt
<1>7. d.life = "open" /\ d.state = "session" => f \in Fields
  BY SeatedField DEF OwnFit
<1>8. Own(h, NoLine, ts2, toClient[p], d, f)
  <2> HIDE DEF d, f, line, now
  <2> QED
    BY <1>2, <1>6, <1>7, ActOwn DEF h
<1>9. Desk(p)' = d /\ OwnField(p)' = f
  BY <1>2, SameStateDesk, SameOwnField DEF vars
<1>10. OwnAt(p)'
  BY <1>2, <1>4, <1>8, <1>9 DEF OwnAt
<1> QED
  BY <1>2, <1>3, <1>4, <1>5, <1>10, ClientStepOwn

LEMMA ReceiveOwnStep ==
    ASSUME SystemTypeInv, SystemTypeInv', OwnFit, NEW p \in Participants, Receive(p)
    PROVE  OwnFit'
<1>1. /\ client \in [Participants -> ClientPrograms]
      /\ toClient \in [Participants -> Seq(Said)]
  BY DEF SystemTypeInv
<1>2. /\ client[p].program = "running" /\ toClient[p] # <<>>
      /\ UNCHANGED <<vars, pressed, toServer>>
      /\ client'[p] = Hear(client[p], Head(toClient[p])) /\ toClient'[p] = Tail(toClient[p])
      /\ \A q \in Participants : q # p => client'[q] = client[q] /\ toClient'[q] = toClient[q]
  BY <1>1 DEF Receive, Running
<1>3. Own(client[p], pressed[p], toServer[p], toClient[p], Desk(p), OwnField(p))
  BY DEF OwnFit, OwnAt
<1>4. client[p] \in ClientPrograms /\ toClient[p] \in Seq(Said) /\ Head(toClient[p]) \in Said
  BY <1>1, <1>2, SeqParts
<1>5. Own(client'[p], pressed[p], toServer[p], toClient'[p], Desk(p), OwnField(p))
  BY <1>2, <1>3, <1>4, ReceiveOwn
<1>6. Below(client[p].m_my, client'[p].m_my)
  <2>1. client'[p].m_my.placed = client[p].m_my.placed
    BY <1>2, <1>4, HearKeepsPlaced
  <2>2. Below(client[p].m_my, client[p].m_my)
    BY <1>4, BelowSame DEF ClientPrograms
  <2> QED
    BY <2>1, <2>2 DEF Below
<1>7. Desk(p)' = Desk(p) /\ OwnField(p)' = OwnField(p)
  BY <1>2, SameStateDesk, SameOwnField DEF vars
<1>8. OwnAt(p)'
  BY <1>2, <1>5, <1>7 DEF OwnAt
<1> QED
  BY <1>2, <1>6, <1>8, ClientStepOwn

LEMMA CloseOwnStep ==
    ASSUME SystemTypeInv, SystemTypeInv', OwnFit, NEW p \in Participants, Close(p)
    PROVE  OwnFit'
<1> DEFINE c == client[p]
           h == [c EXCEPT !.program = "closed"]
<1>1. client \in [Participants -> ClientPrograms]
  BY DEF SystemTypeInv
<1>2. UNCHANGED <<vars, pressed, toServer, toClient>> /\ client' = [client EXCEPT ![p] = h]
  BY DEF Close
<1>3. c \in ClientPrograms /\ c.m_my \in Fields /\ h.m_my = c.m_my
  BY <1>1 DEF ClientPrograms
<1>4. Own(c, pressed[p], toServer[p], toClient[p], Desk(p), OwnField(p))
  BY DEF OwnFit, OwnAt
<1>5. Own(h, pressed[p], toServer[p], toClient[p], Desk(p), OwnField(p))
  BY <1>3, <1>4, CloseOwn
<1> HIDE DEF h
<1>6. client'[p] = h /\ \A q \in Participants : q # p => client'[q] = client[q]
  BY <1>1, <1>2
<1>7. Desk(p)' = Desk(p) /\ OwnField(p)' = OwnField(p)
  BY <1>2, SameStateDesk, SameOwnField DEF vars
<1>8. OwnAt(p)'
  BY <1>2, <1>5, <1>6, <1>7 DEF OwnAt
<1> QED
  BY <1>2, <1>3, <1>6, <1>8, BelowSame, ClientStepOwn

(* Of a player the server no longer reads nothing is asked but what his client believes. *)
LEMMA LifeOwn ==
    ASSUME NEW c, NEW pr, NEW ts, NEW tc, NEW d, NEW f, Own(c, pr, ts, tc, d, f),
           NEW e, e.life # "open", NEW g
    PROVE  Own(c, pr, ts, tc, e, g)
BY DEF Own

(* A step that changes the session of one player, and no game. *)
LEMMA OthersOwn ==
    ASSUME GamesInv, GamesInv', OwnFit, NEW p \in Participants, UNCHANGED <<lobbies, client>>,
           \A q \in Participants : q # p =>
               /\ session'[q] = session[q] /\ clentData'[q] = clentData[q]
               /\ pressed'[q] = pressed[q]
               /\ toServer'[q] = toServer[q] /\ toClient'[q] = toClient[q],
           OwnAt(p)'
    PROVE  OwnFit'
<1>1. Claims'
  BY SameClaims DEF OwnFit
<1>2. ASSUME NEW q \in Participants, q # p PROVE OwnAt(q)'
  <2>1. Desk(q)' = Desk(q)
    BY <1>2, QuietAside, AsideKept
  <2>2. OwnField(q)' = OwnField(q)
    BY <1>2, OwnFieldNext DEF OwnField, LobbyOf
  <2>3. OwnAt(q)
    BY DEF OwnFit
  <2> QED
    BY <1>2, <2>1, <2>2, <2>3 DEF OwnAt
<1> QED
  BY <1>1, <1>2 DEF OwnFit

LEMMA FreshOwn ==
    ASSUME NEW c \in ClientPrograms, Bounded(c.m_my), NEW e, e.state = "connected", NEW f
    PROVE  Own(c, NoLine, <<>>, <<>>, e, f)
<1>1. Hearing(<<>>, c, c)
  BY HearingOfNone
<1>2. ShipsFit(<<>>, e)
  BY DEF ShipsFit
<1> QED
  BY <1>1, <1>2 DEF Own

LEMMA AcceptOwnStep ==
    ASSUME SystemTypeInv, GamesInv, GamesInv', OnlyReadErrors, PlayersFit, OwnFit,
           NEW p \in Participants, Accept(p)
    PROVE  OwnFit'
<1>1. TypeOK /\ client[p] \in ClientPrograms
  BY DEF SystemTypeInv, TypeInv
<1>2. /\ session[p] = "fresh" /\ clentData'[p] = SharedClient
      /\ UNCHANGED <<lobbies, client, pressed, toServer, toClient>>
      /\ \A q \in Participants : q # p => session'[q] = session[q] /\ clentData'[q] = clentData[q]
  BY <1>1 DEF Accept, ends, Connect, OnlyReadErrors, TypeOK, Seats
<1>3. Desk(p).life = "fresh"
  BY <1>2, DeskParts
<1>4. pressed[p] = NoLine /\ toServer[p] = <<>> /\ toClient[p] = <<>>
  BY <1>3 DEF PlayersFit, PlayerAt, Player, Good
<1>5. Desk(p)'.state = "connected"
  BY <1>2, DeskPartsNext DEF SharedClient
<1>6. Bounded(client[p].m_my)
  BY DEF OwnFit, OwnAt, Own
<1>7. Own(client[p], NoLine, <<>>, <<>>, Desk(p)', OwnField(p)')
  BY <1>1, <1>5, <1>6, FreshOwn
<1>8. OwnAt(p)'
  BY <1>2, <1>4, <1>7 DEF OwnAt
<1> QED
  BY <1>2, <1>8, OthersOwn

LEMMA DisconnectOwnStep ==
    ASSUME SystemTypeInv, GamesInv, GamesInv', OwnFit, NEW p \in Participants, Disconnect(p)
    PROVE  OwnFit'
<1>1. /\ TypeOK /\ toServer \in [Participants -> Seq(Lines)]
      /\ toClient \in [Participants -> Seq(Said)] /\ client[p] \in ClientPrograms
  BY DEF SystemTypeInv, TypeInv
<1>2. /\ client[p].program # "running" /\ session'[p] \in {"flushing", "freed"}
      /\ UNCHANGED <<lobbies, client, pressed>>
      /\ \A q \in Participants : q # p =>
             /\ session'[q] = session[q] /\ clentData'[q] = clentData[q]
             /\ toServer'[q] = toServer[q] /\ toClient'[q] = toClient[q]
  BY <1>1 DEF Disconnect, ReadError, StopReading, Forget, TypeOK, Seats, Running
<1>3. Desk(p)'.life # "open"
  BY <1>2, DeskPartsNext
<1>4. Bounded(client[p].m_my)
  BY DEF OwnFit, OwnAt, Own
<1>5. Own(client[p], pressed[p], toServer'[p], toClient'[p], Desk(p)', OwnField(p)')
  BY <1>1, <1>2, <1>3, <1>4, OffOwn
<1>6. OwnAt(p)'
  BY <1>2, <1>5 DEF OwnAt
<1> QED
  BY <1>2, <1>6, OthersOwn

LEMMA FlushOwnStep ==
    ASSUME GamesInv, GamesInv', OwnFit, NEW p \in Participants, Flush(p)
    PROVE  OwnFit'
<1>1. TypeOK
  BY DEF GamesInv, SeatInv, TypeInv
<1>2. /\ session'[p] = "freed"
      /\ UNCHANGED <<lobbies, clentData, client, pressed, toServer, toClient>>
      /\ \A q \in Participants : q # p => session'[q] = session[q]
  BY <1>1 DEF Flush, Flushed, ends, TypeOK
<1>3. Desk(p)'.life # "open"
  BY <1>2, DeskPartsNext
<1>4. Own(client[p], pressed[p], toServer[p], toClient[p], Desk(p), OwnField(p))
  BY DEF OwnFit, OwnAt
<1>5. Own(client[p], pressed[p], toServer[p], toClient[p], Desk(p)', OwnField(p)')
  BY <1>3, <1>4, LifeOwn
<1>6. OwnAt(p)'
  BY <1>2, <1>5 DEF OwnAt
<1> QED
  BY <1>2, <1>6, OthersOwn

-----------------------------------------------------------------------------
(* The sender of a line, and what the line does where it arrives. *)
LEMMA ArrivingShip ==
    ASSUME NEW c, NEW pr, NEW ts \in Seq(Lines), ts # <<>>, NEW tc, NEW d, NEW f,
           d.life = "open", Own(c, pr, ts, tc, d, f), Head(ts).word = "ship"
    PROVE  /\ InPreparation(d) /\ CanSetShip(f, Head(ts).ship)
           /\ SetShip(f, Head(ts).ship) \in Fields
           /\ c.m_my \in Fields => Below(SetShip(f, Head(ts).ship), c.m_my)
<1>1. InPreparation(d)
  BY SeqParts DEF Own, ShipsFit
<1>2. \E v : Shows(c, ts, v, f)
  BY <1>1 DEF Own, InPreparation
<1>3. PICK g \in Fields : Laid(ts, f, g) /\ Below(g, c.m_my)
  BY <1>2 DEF Shows
<1>4. PICK b \in Fields : Lays(f, Head(ts), b) /\ Laid(Tail(ts), b, g)
  BY <1>3, LaidRest
<1>5. CanSetShip(f, Head(ts).ship) /\ b = SetShip(f, Head(ts).ship)
  BY <1>4 DEF Lays
<1>6. Tail(ts) \in Seq(Lines)
  BY SeqParts
<1>7. Below(b, g)
  BY <1>4, <1>6, LaidGrows
<1>8. c.m_my \in Fields => Below(b, c.m_my)
  BY <1>3, <1>7, BelowTransitive
<1> QED
  BY <1>1, <1>4, <1>5, <1>8

LEMMA ServedShort ==
    ASSUME NEW p, NEW line, Served(p, line)
    PROVE  Short(MailFor(p))
BY DEF Served, Short

(* One who sent a line that the server handled. *)
LEMMA SenderOwn ==
    ASSUME GamesInv, GamesInv', ~idReused, ~idReused', PlayersFit, OwnFit, NEW p \in Participants,
           Desk(p).life = "open", toServer[p] # <<>>, PlayerAt(p)',
           Served(p, Head(toServer[p])), FieldServed(p, Head(toServer[p])),
           UNCHANGED <<client, pressed>>, toServer'[p] = Tail(toServer[p]),
           toClient'[p] = Grown(client[p], toClient[p], MailFor(p))
    PROVE  OwnAt(p)'
<1> DEFINE c == client[p]
           pr == pressed[p]
           ts == toServer[p]
           tc == toClient[p]
           d == Desk(p)
           e == Desk(p)'
           f == OwnField(p)
           g == OwnField(p)'
           mail == MailFor(p)
           ts2 == Tail(ts)
<1>1. /\ Player(c, pr, ts, tc, d) /\ Own(c, pr, ts, tc, d, f) /\ d \in Desks
  BY DEF PlayersFit, PlayerAt, OwnFit, OwnAt, Player
<1>2. d.state # "connected" => f \in Fields /\ Below(f, c.m_my)
  BY SeatedField DEF OwnFit
<1>3. Short(mail) /\ PrepLeads(d, e)
  BY <1>1, ServedShort, ServedLeads
<1>4. Player(c, pr, ts2, Grown(c, tc, mail), e)
  BY DEF PlayerAt
<1>5. ASSUME e.life = "open", e.state = "session" PROVE OwnStep(d, mail, ts, ts2, f, g)
  <2>1. Enters(p)
    BY <1>5, DeskPartsNext DEF Enters
  <2>2. clentData[p].state = d.state
    BY DeskParts
  <2> QED
    BY <2>1, <2>2 DEF FieldServed, Stirred, OwnStep, Taken
<1>6. d.life = "open" /\ ts # <<>>
  OBVIOUS
<1>7. Own(c, pr, ts2, Grown(c, tc, mail), e, g)
  <2> HIDE DEF d, e, f, g, mail, c, pr, ts, tc
  <2> QED
    BY <1>1, <1>2, <1>3, <1>4, <1>5, <1>6, ServedOwn
<1> QED
  BY <1>7 DEF OwnAt

(* Another player. *)
LEMMA SpokenOwn ==
    ASSUME GamesInv, GamesInv', ~idReused, ~idReused', PlayersFit, OwnFit, NEW q \in Participants,
           PlayerAt(q)', Spoken(q), FieldSpoken(q), UNCHANGED <<client, pressed>>,
           toServer'[q] = toServer[q],
           toClient'[q] = Grown(client[q], toClient[q], MailFor(q))
    PROVE  OwnAt(q)'
<1> DEFINE c == client[q]
           pr == pressed[q]
           ts == toServer[q]
           tc == toClient[q]
           d == Desk(q)
           e == Desk(q)'
           f == OwnField(q)
           g == OwnField(q)'
           mail == MailFor(q)
<1>1. /\ Player(c, pr, ts, tc, d) /\ Own(c, pr, ts, tc, d, f)
      /\ d \in Desks /\ c \in ClientPrograms /\ tc \in Seq(Said)
  BY DEF PlayersFit, PlayerAt, OwnFit, OwnAt, Player
<1>2. Player(c, pr, ts, Grown(c, tc, mail), e)
  BY DEF PlayerAt
<1>3. CASE d.life = "open"
  <2>1. d.state # "connected" => f \in Fields /\ Below(f, c.m_my)
    BY <1>3, SeatedField DEF OwnFit
  <2>2. Short(mail)
    BY <1>3, DeskParts DEF Spoken, Undisturbed, Short
  <2>3. PrepLeads(d, e)
    BY <1>1, SpokenLeads
  <2>4. ASSUME e.life = "open", e.state = "session" PROVE OwnStep(d, mail, ts, ts, f, g)
    <3>1. Enters(q)
      BY <2>4, DeskPartsNext DEF Enters
    <3>2. clentData[q].state = d.state
      BY DeskParts
    <3> QED
      BY <3>1, <3>2 DEF FieldSpoken, Stirred, OwnStep, Taken
  <2>5. Own(c, pr, ts, Grown(c, tc, mail), e, g)
    <3> HIDE DEF d, e, f, g, mail, c, pr, ts, tc
    <3> QED
      BY <1>1, <1>2, <1>3, <2>1, <2>2, <2>3, <2>4, ServedOwn
  <2> QED
    BY <2>5 DEF OwnAt
<1>4. CASE d.life # "open"
  <2>1. CASE Undisturbed(q)
    <3>1. mail = <<>> /\ e = d
      BY <2>1 DEF Undisturbed
    <3>2. Grown(c, tc, mail) = tc
      <4> HIDE DEF c, tc, mail
      <4> QED
        BY <1>1, <3>1 DEF Grown
    <3>3. Own(c, pr, ts, tc, e, g)
      <4> HIDE DEF d, e, f, g, c, pr, ts, tc
      <4> QED
        BY <1>1, <1>4, <3>1, LifeOwn
    <3> QED
      BY <3>2, <3>3 DEF OwnAt
  <2>2. CASE session[q] \notin {"fresh", "open"} /\ session'[q] = session[q] /\ ~Silent(q)
    <3>1. c.program # "running"
      BY <2>2 DEF PlayersFit, SilentAt, Running, Open
    <3>2. e.life # "open"
      BY <2>2, DeskPartsNext
    <3>3. Bounded(c.m_my)
      BY <1>1 DEF Own
    <3>4. Own(c, pr, ts, Grown(c, tc, mail), e, g)
      BY <1>1, <3>1, <3>2, <3>3, OffOwn
    <3> QED
      BY <3>4 DEF OwnAt
  <2> QED
    BY <1>4, <2>1, <2>2, DeskParts DEF Spoken, Open
<1> QED
  BY <1>3, <1>4

LEMMA ServeOwnStep ==
    ASSUME TwoPlayers, SystemTypeInv, GamesInv, GamesInv', FieldsSound, ~idReused, ~idReused', LinesSpaced,
           PlayersFit, PlayersFit', OwnFit, NEW p \in Participants, Serve(p)
    PROVE  OwnFit'
<1> DEFINE line == Head(toServer[p])
           d == Desk(p)
           f == OwnField(p)
<1>1. /\ TypeOK /\ toServer \in [Participants -> Seq(Lines)] /\ client[p].m_my \in Fields
      /\ toClient \in [Participants -> Seq(Said)]
  BY DEF SystemTypeInv, TypeInv, ClientPrograms
<1>2. /\ toServer[p] # <<>> /\ UNCHANGED <<client, pressed>>
      /\ toServer'[p] = Tail(toServer[p])
      /\ \A q \in Participants : q # p => toServer'[q] = toServer[q]
      /\ \/ Obey(p, line) /\ Posted
         \/ Drop(p, line)
  BY <1>1 DEF Serve
<1>3. session[p] = "open" /\ d.life = "open"
  BY <1>2, ObeyFromOpen, DeskParts
<1>4. /\ Player(client[p], pressed[p], toServer[p], toClient[p], d)
      /\ Own(client[p], pressed[p], toServer[p], toClient[p], d, f)
  BY DEF PlayersFit, PlayerAt, OwnFit, OwnAt
<1>5. /\ line \in Lines /\ 1 \in DOMAIN toServer[p] /\ toServer[p][1] = line
      /\ LinesFit(toServer[p], d)
  BY <1>1, <1>2, <1>3, <1>4, SeqParts DEF Player, Good, DeskFits
<1>6. line.word = "ship" =>
          /\ InPreparation(d) /\ CanSetShip(f, line.ship)
          /\ Below(SetShip(f, line.ship), client[p].m_my)
  <2> HIDE DEF d, f
  <2> QED
    BY <1>1, <1>2, <1>3, <1>4, ArrivingShip
<1> HIDE DEF line
<1>7. CASE Obey(p, line) /\ Posted
  <2>1. InTurns(d) => IsShot(line)
    BY <1>5 DEF LinesFit, IsShot, LinesSpaced
  <2>2. Handled(p, line)
    BY <1>5, <1>7, <2>1, PlayersRest, ObeyHandled
  <2>3. ShipReadable(p, line)
    BY <1>5, <1>6 DEF ShipReadable, LinesSpaced
  <2>4. FieldHandled(p, line)
    BY <1>5, <1>7, <2>1, <2>3, PlayersRest, ObeyFields
  <2>5. \A q \in Participants : toClient'[q] = Grown(client[q], toClient[q], MailFor(q))
    BY <1>7 DEF Posted, Running, Grown
  <2>6. Claims'
    <3>1. Counted(p, line)
      BY <1>6 DEF Counted
    <3> QED
      BY <1>2, <1>7, <3>1, ObeyClaims DEF OwnFit
  <2>7. OwnAt(p)'
    <3>1. PlayerAt(p)' /\ Served(p, Head(toServer[p])) /\ FieldServed(p, Head(toServer[p]))
      BY <2>2, <2>4 DEF PlayersFit, Handled, FieldHandled, line
    <3> QED
      BY <1>2, <1>3, <2>5, <3>1, SenderOwn
  <2>8. ASSUME NEW q \in Participants, q # p PROVE OwnAt(q)'
    <3>1. PlayerAt(q)' /\ Spoken(q) /\ FieldSpoken(q) /\ toServer'[q] = toServer[q]
      BY <1>2, <2>2, <2>4, <2>8 DEF PlayersFit, Handled, FieldHandled
    <3> QED
      BY <1>2, <2>5, <3>1, SpokenOwn
  <2> QED
    BY <2>6, <2>7, <2>8 DEF OwnFit
<1>8. CASE Drop(p, line)
  <2>1. /\ UNCHANGED <<lobbies, clentData, session, toClient>>
        /\ clentData[p].state # "session"
    BY <1>8 DEF Drop, vars, Handling
  <2>2. d.state # "session" /\ Desk(p)' = d /\ line.word # "ship"
    BY <1>6, <2>1, DeskParts, SameStateDesk DEF InPreparation
  <2>3. Own(client[p], pressed[p], Tail(toServer[p]), toClient[p], d, OwnField(p)')
    <3>1. ShipsFit(Tail(toServer[p]), d)
      BY <1>1, <1>2, <1>3, <1>4, SeqParts DEF Own, ShipsFit
    <3> HIDE DEF d, f
    <3> QED
      BY <1>4, <2>2, <3>1 DEF Own
  <2>4. OwnAt(p)'
    BY <1>2, <2>1, <2>2, <2>3 DEF OwnAt
  <2> QED
    BY <1>2, <2>1, <2>4, OthersOwn
<1> QED
  BY <1>2, <1>7, <1>8

LEMMA InitOwnInv == Patient /\ SysInit => OwnInv
<1> SUFFICES ASSUME Patient, SysInit PROVE OwnInv
  OBVIOUS
<1>1. SysInv
  BY InitSysInv
<1>2. ~idReused /\ NumbersKept /\ Claims
  BY DEF SysInit, Init, NumbersKept, Claims
<1>3. ASSUME NEW q \in Participants PROVE OwnAt(q)
  <2>1. /\ client[q] = NewClient("preparation") /\ pressed[q] = NoLine
        /\ toServer[q] = <<>> /\ toClient[q] = <<>> /\ clentData[q] = SharedClient
    BY DEF SysInit, Init, Patient, Seats
  <2>2. client[q] \in ClientPrograms
    BY <1>1 DEF SysInv, SystemTypeInv
  <2>3. Bounded(client[q].m_my)
    BY <2>1, FieldAssumption DEF NewClient, EmptyField, Bounded
  <2>4. Desk(q).state = "connected"
    BY <2>1, DeskParts DEF SharedClient
  <2>5. Own(client[q], NoLine, <<>>, <<>>, Desk(q), OwnField(q))
    BY <2>2, <2>3, <2>4, FreshOwn
  <2> QED
    BY <2>1, <2>5 DEF OwnAt
<1> QED
  BY <1>1, <1>2, <1>3 DEF OwnInv, OwnFit

LEMMA NextOwnInv ==
    ASSUME TwoPlayers, Patient, OwnInv, [SysNext]_sysVars
    PROVE  OwnInv'
<1>1. SystemTypeInv /\ GamesInv /\ Careful /\ LinesSpaced /\ OnlyReadErrors /\ FieldsSound
      /\ ~idReused /\ PlayersFit /\ OwnFit /\ PairInv /\ SysInv
  BY DEF Patient, OwnInv, SysInv, GamesInv, PairInv
<1>2. SysInv'
  BY <1>1, NextSysInv
<1>3. [Next]_vars
  BY <1>1, SysNextIsServer DEF SystemTypeInv
<1>4. NumbersKept' /\ ~idReused'
  BY <1>1, <1>3, NextPairInv DEF PairInv
<1>5. SystemTypeInv' /\ GamesInv' /\ PlayersFit'
  BY <1>2, <1>4 DEF SysInv
<1>6. OwnFit'
  <2>1. CASE UNCHANGED sysVars
    <3>1. UNCHANGED <<vars, client, pressed, toServer, toClient>>
      BY <2>1 DEF sysVars, ends
    <3>2. \A q : Desk(q)' = Desk(q) /\ OwnField(q)' = OwnField(q)
      BY <3>1, SameStateDesk, SameOwnField DEF vars
    <3>3. \A q \in Participants : OwnAt(q)'
      BY <1>1, <3>1, <3>2 DEF OwnFit, OwnAt
    <3> QED
      BY <1>1, <3>1, <3>3, SameClaims DEF OwnFit, vars
  <2>2. ASSUME NEW p \in Participants, Accept(p) \/ Disconnect(p) \/ Flush(p)
        PROVE  OwnFit'
    BY <1>1, <1>5, <2>2, AcceptOwnStep, DisconnectOwnStep, FlushOwnStep
  <2>3. ASSUME NEW p \in Participants, Serve(p)
        PROVE  OwnFit'
    BY <1>1, <1>4, <1>5, <2>3, ServeOwnStep
  <2>4. ASSUME NEW p \in Participants,
               (\E line \in Lines : Press(p, line)) \/ Act(p) \/ Receive(p) \/ Close(p)
        PROVE  OwnFit'
    BY <1>1, <1>5, <2>4, PressOwnStep, ActOwnStep, ReceiveOwnStep, CloseOwnStep
  <2> QED
    BY <2>1, <2>2, <2>3, <2>4 DEF SysNext
<1> QED
  BY <1>2, <1>4, <1>6 DEF OwnInv

LEMMA AlwaysOwnInv == TwoPlayers /\ Patient => (SysSpec => []OwnInv)
<1> SUFFICES ASSUME TwoPlayers, Patient PROVE SysSpec => []OwnInv
  OBVIOUS
<1>1. SysInit => OwnInv
  BY InitOwnInv
<1>2. OwnInv /\ [SysNext]_sysVars => OwnInv'
  BY NextOwnInv
<1> QED
  BY <1>1, <1>2, PTL DEF SysSpec

(* What an idle player sees of his own field. *)
LEMMA OwnSeen ==
    ASSUME NEW p \in Participants, PlayerAt(p), OwnAt(p), Idle(p), client[p].state = "session"
    PROVE  SeesOwn(p, LobbyOf(p))
<1> DEFINE c == client[p]
           d == Desk(p)
           f == OwnField(p)
<1>1. /\ c.program = "running" /\ session[p] = "open"
      /\ toServer[p] = <<>> /\ toClient[p] = <<>> /\ pressed[p] = NoLine
  BY DEF Idle, Running, Open, Quiet
<1>2. d.life = "open"
  BY <1>1, DeskParts
<1>3. /\ Player(c, NoLine, <<>>, <<>>, d) /\ Own(c, NoLine, <<>>, <<>>, d, f)
      /\ c \in ClientPrograms
  BY <1>1 DEF PlayerAt, OwnAt, Player
<1> HIDE DEF f
<1>4. PICK v \in ClientPrograms :
          /\ Hearing(<<>>, c, v)
          /\ d.state = "session" => Shows(c, <<>>, v, f)
  BY <1>1, <1>2, <1>3 DEF Own
<1>5. v = c
  BY <1>3, <1>4, HearingOfNone
<1>6. c.state = d.state
  BY <1>1, <1>2, <1>3, <1>4, <1>5, HearingAgrees
<1>7. PICK g \in Fields : /\ Laid(<<>>, f, g)
                          /\ c.m_my.ship = g.ship /\ c.m_my.shot = g.shot
  BY <1>1, <1>4, <1>5, <1>6 DEF Shows
<1>8. f = g
  <2>1. PICK t \in [0 .. Len(<<>>) -> Fields] : t[0] = f /\ t[Len(<<>>)] = g
    BY <1>7 DEF Laid
  <2>2. Len(<<>>) = 0
    OBVIOUS
  <2> QED
    BY <2>1, <2>2
<1> QED
  BY <1>7, <1>8 DEF SeesOwn, f, OwnField

(* What the client of two players puts on its own field is what the server has there, and
   every shot of the enemy is marked where it fell, once nothing is under way between the
   two (client.cpp:345, field.hpp:20-31): game after game, in lobbies left and entered
   again. *)
THEOREM SystemOwnFieldsAgree == TwoPlayers /\ Patient => (SysSpec => []OwnFieldsAgree)
<1> SUFFICES ASSUME TwoPlayers, Patient PROVE SysSpec => []OwnFieldsAgree
  OBVIOUS
<1>1. SysSpec => []OwnInv
  BY AlwaysOwnInv
<1>2. OwnInv => OwnFieldsAgree
  BY OwnSeen DEF OwnInv, OwnFit, SysInv, PlayersFit, OwnFieldsAgree
<1> QED
  BY <1>1, <1>2, PTL

LEMMA OwnAccepted ==
    ASSUME OwnInv, LinesSpaced, NEW p \in Participants, toServer[p] # <<>>,
           Playing(p, {"preparation"}), Head(toServer[p]).word = "ship"
    PROVE  /\ Head(toServer[p]).spaced
           /\ CanSetShip(MyField(LobbyOf(p), p), Head(toServer[p]).ship)
<1> DEFINE ts == toServer[p]
           d == Desk(p)
           f == OwnField(p)
<1>1. session[p] = "open"
  BY SenderOpen DEF Playing, OwnInv, SysInv, GamesInv
<1>2. d.life = "open"
  BY <1>1, DeskParts
<1>3. ts \in Seq(Lines) /\ Head(ts) \in Lines
  BY SeqParts DEF OwnInv, SysInv, SystemTypeInv
<1>4. Own(client[p], pressed[p], ts, toClient[p], d, f)
  BY DEF OwnInv, OwnFit, OwnAt
<1>5. CanSetShip(f, Head(ts).ship)
  <2> HIDE DEF d, f
  <2> QED
    BY <1>2, <1>3, <1>4, ArrivingShip
<1> QED
  BY <1>3, <1>5 DEF LinesSpaced, OwnField

(* Between two players the server never refuses a ship: what the client has tried on its
   own field ("we want to check here our placement", client.cpp:345) fits the server's as
   well when the line is read, however many ships and games went before. *)
THEOREM SystemPlacementsAccepted == TwoPlayers /\ Patient => (SysSpec => []PlacementsAccepted)
<1> SUFFICES ASSUME TwoPlayers, Patient PROVE SysSpec => []PlacementsAccepted
  OBVIOUS
<1>1. SysSpec => []OwnInv
  BY AlwaysOwnInv
<1>2. OwnInv => PlacementsAccepted
  BY OwnAccepted DEF PlacementsAccepted, Patient
<1> QED
  BY <1>1, <1>2, PTL

(* Two players' clients are never told anything they answer with "Wrong message received?"
   (client.cpp:93, 160, 264, 310): with two of them a lobby's number is not used twice, and
   nothing need be assumed of it. *)
THEOREM SystemPairNeverThrows == TwoPlayers /\ Patient => (SysSpec => []NoClientThrows)
<1> SUFFICES ASSUME TwoPlayers, Patient PROVE SysSpec => []NoClientThrows
  OBVIOUS
<1>1. SysSpec => []OwnInv
  BY AlwaysOwnInv
<1>2. OwnInv => NoClientThrows
  BY DEF OwnInv, SysInv, PlayersFit, PlayerAt, Player, Good, NoClientThrows
<1> QED
  BY <1>1, <1>2, PTL
=============================================================================
