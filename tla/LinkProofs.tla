----------------------------- MODULE LinkProofs -----------------------------
(* The two ends of a connection, and the stream between them: each end writes as a
   Wire does, and what one end writes the other reads, in order, for any messages in
   any number and whatever fails. *)
EXTENDS Link, SequenceTheorems, TLAPS

-----------------------------------------------------------------------------
(* A message appended to the queue is appended to the whole. *)
LEMMA AppendBehind ==
    ASSUME NEW S, NEW s \in Seq(S), NEW q \in Seq(S), NEW m \in S,
           NEW longer, longer = Append(q, m)
    PROVE  Append(s \o q, m) = s \o longer
<1>1. <<m>> \in Seq(S) /\ s \o q \in Seq(S)
  BY ConcatProperties
<1>2. Append(s \o q, m) = (s \o q) \o <<m>>
  BY <1>1, AppendIsConcat
<1>3. Append(q, m) = q \o <<m>>
  BY AppendIsConcat
<1>4. (s \o q) \o <<m>> = s \o (q \o <<m>>)
  BY <1>1, ConcatAssociative
<1> QED
  BY <1>2, <1>3, <1>4

(* The queue's front, written, leaves the whole as it was, and is the first of it
   that was not written before. *)
LEMMA HeadMoves ==
    ASSUME NEW S, NEW s \in Seq(S), NEW q \in Seq(S), q # <<>>
    PROVE  /\ Head(q) \in S /\ Tail(q) \in Seq(S)
           /\ Append(s, Head(q)) \in Seq(S)
           /\ Append(s, Head(q)) \o Tail(q) = s \o q
           /\ Len(s) < Len(s \o q)
           /\ (s \o q)[Len(s) + 1] = Head(q)
<1>1. Head(q) \in S /\ Tail(q) \in Seq(S) /\ q[1] = Head(q)
  BY HeadTailProperties
<1>2. <<Head(q)>> \in Seq(S) /\ Append(s, Head(q)) \in Seq(S)
  BY <1>1, AppendProperties
<1>3. q = <<Head(q)>> \o Tail(q)
  <2>1. Len(q) \in Nat \ {0}
    BY EmptySeq
  <2>2. SubSeq(q, 1, Len(q)) = <<q[1]>> \o SubSeq(q, 2, Len(q))
    BY <2>1, SubSeqRecursiveFirst
  <2>3. SubSeq(q, 1, Len(q)) = q /\ SubSeq(q, 2, Len(q)) = Tail(q)
    BY SubSeqFull, TailIsSubSeq
  <2> QED
    BY <1>1, <2>2, <2>3
<1>4. Append(s, Head(q)) \o Tail(q) = s \o q
  BY <1>1, <1>2, <1>3, AppendIsConcat, ConcatAssociative
<1>5. Len(q) \in Nat \ {0} /\ Len(s) \in Nat
  BY EmptySeq, LenProperties
<1>6. /\ Len(s \o q) = Len(s) + Len(q)
      /\ (s \o q)[Len(s) + 1] = q[1]
  BY <1>5, ConcatProperties
<1> QED
  BY <1>1, <1>2, <1>4, <1>5, <1>6

-----------------------------------------------------------------------------
TypeOK ==
    /\ reading \in {"none", "header", "body", "stopped"}
    /\ room \in BOOLEAN /\ writing \in BOOLEAN /\ broken \in BOOLEAN
    /\ queue \in Seq(Payloads) /\ given \in Seq(Payloads) /\ written \in Seq(Payloads)

(* Who holds the session: the room one that reads, unless a write failed; and what
   failed to be written is in the queue for good. *)
Held ==
    /\ room => Reading
    /\ Reading => room \/ broken
    /\ reading = "none" => ~writing /\ queue = <<>> /\ ~broken
    /\ broken => queue # <<>> /\ ~room

IInv == TypeOK /\ Held /\ OneWrite /\ NothingLost

LEMMA InitSession == Init => IInv
<1> SUFFICES ASSUME Init PROVE IInv
  OBVIOUS
<1>1. <<>> \in Seq(Payloads) /\ <<>> = <<>> \o <<>>
  BY EmptySeq, ConcatEmptySeq
<1> QED
  BY <1>1 DEF Init, IInv, TypeOK, Held, OneWrite, NothingLost, Reading

LEMMA DeliverSession ==
    ASSUME IInv, NEW m \in Payloads, Deliver(m)
    PROVE  IInv'
<1>1. /\ queue' = Append(queue, m) /\ writing' = (writing \/ queue = <<>>)
      /\ given' = Append(given, m) /\ reading # "none"
      /\ UNCHANGED <<reading, room, written, broken>>
  BY DEF Deliver
<1>2. queue \in Seq(Payloads) /\ written \in Seq(Payloads) /\ given \in Seq(Payloads)
  BY DEF IInv, TypeOK
<1>3. queue' \in Seq(Payloads) /\ given' \in Seq(Payloads) /\ queue' # <<>>
  BY <1>1, <1>2, AppendProperties
<1>4. NothingLost'
  <2>1. given = written \o queue
    BY DEF IInv, NothingLost
  <2>2. Append(written \o queue, m) = written \o queue'
    BY <1>1, <1>2, AppendBehind
  <2> QED
    BY <1>1, <2>1, <2>2 DEF NothingLost
<1>5. TypeOK'
  BY <1>1, <1>2, <1>3 DEF IInv, TypeOK
<1>6. Held'
  BY <1>1, <1>3 DEF IInv, Held, Reading
<1>7. OneWrite'
  BY <1>1, <1>3 DEF IInv, TypeOK, OneWrite, Held
<1> QED
  BY <1>4, <1>5, <1>6, <1>7 DEF IInv

LEMMA WrittenSession ==
    ASSUME IInv, Written
    PROVE  IInv'
<1>1. /\ written' = Append(written, Head(queue)) /\ queue' = Tail(queue)
      /\ writing' = (queue' # <<>>) /\ writing
      /\ UNCHANGED <<reading, room, given, broken>>
  BY DEF Written
<1>2. queue \in Seq(Payloads) /\ written \in Seq(Payloads) /\ queue # <<>> /\ ~broken
  BY <1>1 DEF IInv, TypeOK, OneWrite
<1>3. /\ queue' \in Seq(Payloads) /\ written' \in Seq(Payloads)
      /\ written' \o queue' = written \o queue
  BY <1>1, <1>2, HeadMoves
<1>4. NothingLost'
  BY <1>1, <1>3 DEF IInv, NothingLost
<1>5. TypeOK'
  BY <1>1, <1>3 DEF IInv, TypeOK
<1>6. Held'
  BY <1>1, <1>2 DEF IInv, Held, Reading
<1>7. OneWrite'
  BY <1>1, <1>2 DEF OneWrite
<1> QED
  BY <1>4, <1>5, <1>6, <1>7 DEF IInv

LEMMA ReadSession ==
    ASSUME IInv, ReadHeader \/ ReadBody
    PROVE  IInv'
<1>1. /\ reading \in {"header", "body"}
      /\ \/ reading' \in {"header", "body"} /\ room' = room
         \/ reading' = "stopped" /\ room' = FALSE
      /\ UNCHANGED <<queue, writing, given, written, broken>>
  BY DEF ReadHeader, ReadBody, Leave
<1>2. TypeOK'
  BY <1>1 DEF IInv, TypeOK
<1>3. Held'
  <2>1. CASE reading' \in {"header", "body"} /\ room' = room
    BY <1>1, <2>1 DEF IInv, Held, Reading
  <2>2. CASE reading' = "stopped" /\ room' = FALSE
    BY <1>1, <2>2 DEF IInv, Held, Reading
  <2> QED
    BY <1>1, <2>1, <2>2
<1>4. OneWrite' /\ NothingLost'
  BY <1>1 DEF IInv, OneWrite, NothingLost
<1> QED
  BY <1>2, <1>3, <1>4 DEF IInv

LEMMA NextSession == IInv /\ [Next]_session => IInv'
<1> SUFFICES ASSUME IInv, [Next]_session PROVE IInv'
  OBVIOUS
<1>1. CASE Start
  BY <1>1 DEF Start, IInv, TypeOK, Held, OneWrite, NothingLost, Reading
<1>2. CASE \E m \in Payloads : Deliver(m)
  BY <1>2, DeliverSession
<1>3. CASE ReadHeader \/ ReadBody
  BY <1>3, ReadSession
<1>4. CASE Written
  BY <1>4, WrittenSession
<1>5. CASE WriteFails
  BY <1>5 DEF WriteFails, IInv, TypeOK, Held, OneWrite, NothingLost, Reading
<1>6. CASE UNCHANGED session
  BY <1>6 DEF session, IInv, TypeOK, Held, OneWrite, NothingLost, Reading
<1> QED
  BY <1>1, <1>2, <1>3, <1>4, <1>5, <1>6 DEF Next

LEMMA AlwaysSession == Spec => []IInv
BY InitSession, NextSession, PTL DEF Spec

(* However deliveries and completions fall, one write at most is under way, and a
   queue is left standing only by one that failed (BoostSession.cpp:29-48, 98-116). *)
THEOREM SessionOneWrite == Spec => []OneWrite
<1>1. IInv => OneWrite
  BY DEF IInv
<1> QED
  BY AlwaysSession, <1>1, PTL

(* What was delivered is what was written and what waits, in that order. *)
THEOREM SessionNothingLost == Spec => []NothingLost
<1>1. IInv => NothingLost
  BY DEF IInv
<1> QED
  BY AlwaysSession, <1>1, PTL

-----------------------------------------------------------------------------
LEMMA WireStep == IInv /\ [Next]_session => [W!Put \/ W!Get \/ W!Cut]_(W!wire)
<1> SUFFICES ASSUME IInv, [Next]_session PROVE [W!Put \/ W!Get \/ W!Cut]_(W!wire)
  OBVIOUS
<1>1. CASE \E m \in Payloads : Deliver(m)
  BY <1>1 DEF Deliver, W!Put
<1>2. CASE Written
  <2>1. writing /\ queue # <<>> /\ ~broken /\ given = written \o queue
    BY <1>2 DEF Written, IInv, OneWrite, NothingLost
  <2>2. queue \in Seq(Payloads) /\ written \in Seq(Payloads)
    BY DEF IInv, TypeOK
  <2>3. Len(written) < Len(given) /\ given[Len(written) + 1] = Head(queue)
    BY <2>1, <2>2, HeadMoves
  <2> QED
    BY <1>2, <2>1, <2>3 DEF Written, W!Get
<1>3. CASE WriteFails
  BY <1>3 DEF WriteFails, W!Cut
<1>4. CASE Start \/ ReadHeader \/ ReadBody \/ UNCHANGED session
  BY <1>4 DEF Start, ReadHeader, ReadBody, Leave, session, W!wire
<1> QED
  BY <1>1, <1>2, <1>3, <1>4 DEF Next

(* A session's queue is a wire: messages leave in the order of their delivery, each
   once, and none after one that failed.  (That they leave at all is left to TLC.) *)
THEOREM SessionIsWire == Spec => W!WireSpec
<1>1. Init => W!WireInit
  BY DEF Init, W!WireInit
<1> QED
  BY AlwaysSession, WireStep, <1>1, PTL DEF Spec, W!WireSpec

LEMMA LifeStep == IInv /\ [Next]_session => [L!LifeNext]_LifeNow
<1> SUFFICES ASSUME IInv, [Next]_session PROVE [L!LifeNext]_LifeNow
  OBVIOUS
<1> USE DEF LifeNow, Reading
<1>1. CASE Start
  BY <1>1 DEF Start, L!LifeNext, L!Begin
<1>2. CASE \E m \in Payloads : Deliver(m)
  BY <1>2 DEF Deliver, Alive, IInv, Held
<1>3. CASE ReadHeader
  BY <1>3 DEF ReadHeader, Leave, IInv, TypeOK, Held, OneWrite, L!LifeNext, L!Stop
<1>4. CASE ReadBody
  BY <1>4 DEF ReadBody, Leave, IInv, TypeOK, Held, OneWrite, L!LifeNext, L!Stop
<1>5. CASE Written
  BY <1>5 DEF Written, IInv, TypeOK, Held, OneWrite, L!LifeNext, L!Release
<1>6. CASE WriteFails
  BY <1>6 DEF WriteFails, IInv, TypeOK, Held, OneWrite, L!LifeNext, L!Lose
<1>7. CASE UNCHANGED session
  BY <1>7 DEF session
<1> QED
  BY <1>1, <1>2, <1>3, <1>4, <1>5, <1>6, <1>7 DEF Next

(* A session leads the life that the server's model gives it. *)
THEOREM SessionHasLife == Spec => LivesAsServed
<1>1. Init => L!LifeInit
  BY DEF Init, L!LifeInit, LifeNow, Reading
<1> QED
  BY AlwaysSession, LifeStep, <1>1, PTL DEF Spec, L!LifeSpec, LivesAsServed

-----------------------------------------------------------------------------
ClientTypeOK ==
    /\ socket \in {"pending", "open", "closed"}
    /\ inbound \in {"connect", "read", "none"}
    /\ sending \in {"none", "started", "doomed"}
    /\ running \in BOOLEAN
    /\ tasks \in Seq(Payloads) /\ outbox \in Seq(Payloads)
    /\ posted \in Seq(Payloads) /\ sentOut \in Seq(Payloads)

(* A write under way is that of the queue's front. *)
SendsFront == sending # "none" => outbox # <<>>

ClientInv == ClientTypeOK /\ SendsFront /\ C!NothingLost

LEMMA InitConnection == C!Init => ClientInv
<1> SUFFICES ASSUME C!Init PROVE ClientInv
  OBVIOUS
<1>1. <<>> \in Seq(Payloads) /\ <<>> \o <<>> = <<>>
  BY EmptySeq, ConcatEmptySeq
<1>2. ClientTypeOK /\ SendsFront
  BY <1>1 DEF C!Init, ClientTypeOK, SendsFront
<1>3. C!NothingLost
  BY <1>1 DEF C!Init, C!NothingLost
<1> QED
  BY <1>2, <1>3 DEF ClientInv

LEMMA StartedType == C!Started \in {"started", "doomed"}
BY DEF C!Started

LEMMA WriteConnection ==
    ASSUME ClientInv, NEW m \in Payloads, C!Write(m)
    PROVE  ClientInv'
<1>1. /\ tasks' = Append(tasks, m) /\ posted' = Append(posted, m)
      /\ UNCHANGED <<socket, inbound, outbox, sending, running, sentOut>>
  BY DEF C!Write
<1>2. /\ tasks \in Seq(Payloads) /\ outbox \in Seq(Payloads)
      /\ sentOut \in Seq(Payloads) /\ posted \in Seq(Payloads)
  BY DEF ClientInv, ClientTypeOK
<1>3. tasks' \in Seq(Payloads) /\ posted' \in Seq(Payloads)
  BY <1>1, <1>2, AppendProperties
<1>4. C!NothingLost'
  <2> DEFINE out == sentOut \o outbox
  <2>1. out \in Seq(Payloads)
    BY <1>2, ConcatProperties
  <2>2. posted = out \o tasks
    BY DEF ClientInv, C!NothingLost
  <2> HIDE DEF out
  <2>3. Append(out \o tasks, m) = out \o tasks'
    BY <1>1, <1>2, <2>1, AppendBehind
  <2>4. posted' = out \o tasks'
    BY <1>1, <2>2, <2>3
  <2> QED
    BY <1>1, <2>4 DEF out, C!NothingLost
<1>5. ClientTypeOK'
  BY <1>1, <1>3 DEF ClientInv, ClientTypeOK
<1>6. SendsFront'
  BY <1>1 DEF ClientInv, SendsFront
<1> QED
  BY <1>4, <1>5, <1>6 DEF ClientInv

LEMMA DoWriteConnection ==
    ASSUME ClientInv, C!DoWrite
    PROVE  ClientInv'
<1>1. /\ tasks # <<>> /\ tasks' = Tail(tasks) /\ outbox' = Append(outbox, Head(tasks))
      /\ sending' = IF outbox = <<>> THEN C!Started ELSE sending
      /\ UNCHANGED <<socket, inbound, running, posted, sentOut>>
  BY DEF C!DoWrite
<1>2. /\ tasks \in Seq(Payloads) /\ outbox \in Seq(Payloads)
      /\ sentOut \in Seq(Payloads)
  BY DEF ClientInv, ClientTypeOK
<1>3. /\ Head(tasks) \in Payloads /\ tasks' \in Seq(Payloads)
      /\ outbox' \in Seq(Payloads) /\ outbox' # <<>>
  BY <1>1, <1>2, HeadTailProperties, AppendProperties
<1>4. C!NothingLost'
  <2> DEFINE out == sentOut \o outbox
  <2>1. out \in Seq(Payloads)
    BY <1>2, ConcatProperties
  <2>2. posted = out \o tasks
    BY DEF ClientInv, C!NothingLost
  <2>3. Append(out, Head(tasks)) = sentOut \o outbox'
    BY <1>1, <1>2, <1>3, AppendBehind
  <2> HIDE DEF out
  <2>4. Append(out, Head(tasks)) \o Tail(tasks) = out \o tasks
    BY <1>1, <1>2, <2>1, HeadMoves
  <2>5. posted' = (sentOut' \o outbox') \o tasks'
    BY <1>1, <2>2, <2>3, <2>4
  <2> QED
    BY <2>5 DEF C!NothingLost
<1>5. ClientTypeOK'
  BY <1>1, <1>3, StartedType DEF ClientInv, ClientTypeOK
<1>6. SendsFront'
  BY <1>3 DEF SendsFront
<1> QED
  BY <1>4, <1>5, <1>6 DEF ClientInv

LEMMA WrittenConnection ==
    ASSUME ClientInv, C!Written
    PROVE  ClientInv'
<1>1. /\ sending = "started" /\ sentOut' = Append(sentOut, Head(outbox))
      /\ outbox' = Tail(outbox)
      /\ sending' = IF outbox' # <<>> THEN C!Started ELSE "none"
      /\ UNCHANGED <<socket, inbound, tasks, posted, running>>
  BY DEF C!Written, C!posts
<1>2. outbox \in Seq(Payloads) /\ sentOut \in Seq(Payloads) /\ outbox # <<>>
  BY <1>1 DEF ClientInv, ClientTypeOK, SendsFront
<1>3. /\ outbox' \in Seq(Payloads) /\ sentOut' \in Seq(Payloads)
      /\ sentOut' \o outbox' = sentOut \o outbox
  BY <1>1, <1>2, HeadMoves
<1>4. C!NothingLost'
  BY <1>1, <1>3 DEF ClientInv, C!NothingLost
<1>5. ClientTypeOK'
  BY <1>1, <1>3, StartedType DEF ClientInv, ClientTypeOK
<1>6. SendsFront'
  BY <1>1 DEF SendsFront
<1> QED
  BY <1>4, <1>5, <1>6 DEF ClientInv

LEMMA NextConnection == ClientInv /\ [C!Next]_(C!connection) => ClientInv'
<1> SUFFICES ASSUME ClientInv, [C!Next]_(C!connection) PROVE ClientInv'
  OBVIOUS
<1> USE DEF ClientInv, ClientTypeOK, SendsFront, C!NothingLost
<1>1. CASE \E m \in Payloads : C!Write(m)
  BY <1>1, WriteConnection
<1>2. CASE C!CloseAll
  BY <1>2 DEF C!CloseAll
<1>3. CASE C!Connected
  BY <1>3 DEF C!Connected, C!posts
<1>4. CASE C!ReadFails
  BY <1>4 DEF C!ReadFails, C!posts
<1>5. CASE C!DoWrite
  BY <1>5, DoWriteConnection
<1>6. CASE C!DoClose
  BY <1>6 DEF C!DoClose
<1>7. CASE C!Written
  BY <1>7, WrittenConnection
<1>8. CASE C!WriteFails
  BY <1>8 DEF C!WriteFails, C!posts
<1>9. CASE C!RunEnds
  BY <1>9 DEF C!RunEnds, C!posts
<1>10. CASE UNCHANGED C!connection
  BY <1>10 DEF C!connection
<1> QED
  BY <1>1, <1>2, <1>3, <1>4, <1>5, <1>6, <1>7, <1>8, <1>9, <1>10 DEF C!Next

LEMMA AlwaysConnection == C!Spec => []ClientInv
BY InitConnection, NextConnection, PTL DEF C!Spec

(* Whatever the window writes is written to the socket or waits, in the order of the
   presses: neither a failure nor close takes a message out of the middle
   (BoostClient.cpp:19-34, 100-137). *)
THEOREM ConnectionNothingLost == C!Spec => []C!NothingLost
<1>1. ClientInv => C!NothingLost
  BY DEF ClientInv
<1> QED
  BY AlwaysConnection, <1>1, PTL

-----------------------------------------------------------------------------
LEMMA SendStep == ClientInv /\ [C!Next]_(C!connection)
                   => [C!W!Put \/ C!W!Get \/ C!W!Cut]_(C!W!wire)
<1> SUFFICES ASSUME ClientInv, [C!Next]_(C!connection)
             PROVE  [C!W!Put \/ C!W!Get \/ C!W!Cut]_(C!W!wire)
  OBVIOUS
<1>1. CASE \E m \in Payloads : C!Write(m)
  BY <1>1 DEF C!Write, C!W!Put, C!Up
<1>2. CASE C!Written
  <2>1. /\ outbox # <<>> /\ outbox \in Seq(Payloads) /\ sentOut \in Seq(Payloads)
        /\ tasks \in Seq(Payloads) /\ posted = (sentOut \o outbox) \o tasks
    BY <1>2 DEF C!Written, ClientInv, ClientTypeOK, SendsFront, C!NothingLost
  <2>2. /\ Len(sentOut) < Len(sentOut \o outbox)
        /\ (sentOut \o outbox)[Len(sentOut) + 1] = Head(outbox)
    BY <2>1, HeadMoves
  <2>3. Len(sentOut) < Len(posted) /\ posted[Len(sentOut) + 1] = Head(outbox)
    <3>1. sentOut \o outbox \in Seq(Payloads)
      BY <2>1, ConcatProperties
    <3>2. /\ Len(sentOut) \in Nat /\ Len(sentOut \o outbox) \in Nat /\ Len(tasks) \in Nat
      BY <2>1, <3>1, LenProperties
    <3> QED
      BY <2>1, <2>2, <3>1, <3>2, ConcatProperties
  <2>4. C!Up /\ C!Up' \in BOOLEAN
    BY <1>2 DEF C!Written, C!Up
  <2> QED
    BY <1>2, <2>3, <2>4 DEF C!Written, C!W!Get, C!posts
<1>3. CASE C!CloseAll \/ C!Connected \/ C!ReadFails \/ C!DoWrite \/ C!DoClose \/ C!WriteFails
           \/ C!RunEnds \/ UNCHANGED C!connection
  <2>1. posted' = posted /\ sentOut' = sentOut
    BY <1>3
    DEF C!CloseAll, C!Connected, C!ReadFails, C!DoWrite, C!DoClose, C!WriteFails, C!RunEnds,
        C!posts, C!connection
  <2>2. C!Up' => C!Up
    <3> USE DEF ClientInv, ClientTypeOK, SendsFront, C!Up
    <3>1. CASE C!CloseAll
      BY <3>1 DEF C!CloseAll
    <3>2. CASE C!Connected
      BY <3>2 DEF C!Connected
    <3>3. CASE C!ReadFails
      BY <3>3 DEF C!ReadFails
    <3>4. CASE C!DoWrite
      <4>1. outbox' # <<>>
        <5>1. Head(tasks) \in Payloads /\ outbox \in Seq(Payloads)
          BY <3>4, HeadTailProperties DEF C!DoWrite
        <5> QED
          BY <3>4, <5>1, AppendProperties DEF C!DoWrite
      <4> QED
        BY <3>4, <4>1 DEF C!DoWrite, C!Started
    <3>5. CASE C!DoClose
      BY <3>5 DEF C!DoClose
    <3>6. CASE C!WriteFails
      BY <3>6 DEF C!WriteFails
    <3>7. CASE C!RunEnds
      BY <3>7 DEF C!RunEnds
    <3>8. CASE UNCHANGED C!connection
      BY <3>8 DEF C!connection
    <3> QED
      BY <1>3, <3>1, <3>2, <3>3, <3>4, <3>5, <3>6, <3>7, <3>8
  <2>3. C!Up' = C!Up \/ C!Up' = FALSE
    <3>1. C!Up \in BOOLEAN /\ C!Up' \in BOOLEAN
      BY DEF C!Up
    <3> QED
      BY <2>2, <3>1
  <2> QED
    BY <2>1, <2>3 DEF C!W!Cut, C!W!wire
<1> QED
  BY <1>1, <1>2, <1>3 DEF C!Next

(* The client's messages reach the socket as through a wire: in order, each once, and
   none after one that failed.  (That they do get there is left to TLC.) *)
THEOREM ConnectionIsWire == C!Spec => C!W!WireSpec
<1>1. C!Init => C!W!WireInit
  BY DEF C!Init, C!W!WireInit, C!Up
<1> QED
  BY AlwaysConnection, SendStep, <1>1, PTL DEF C!Spec, C!W!WireSpec

-----------------------------------------------------------------------------
(* Together: each end takes its own steps, or none. *)
LEMMA EndsStep == [LinkNext]_link => [Next]_session /\ [C!Next]_(C!connection)
BY DEF LinkNext, link, client, C!connection, Accept, Reply, ServerReads, ServerReadsHeader,
   ServerReadsBody, ServerWrites, Post, CloseAll, ClientRuns, ClientWrites, ClientReads, Hear,
   Next, C!Next

LEMMA LinkEnds == LinkSpec => Spec /\ C!Spec
<1>1. LinkInit => Init /\ C!Init
  BY DEF LinkInit
<1> QED
  BY <1>1, EndsStep, PTL DEF LinkSpec, Spec, C!Spec

(* At both ends of a link, messages are written as through a wire. *)
THEOREM LinkIsTwoWires == LinkSpec => W!WireSpec /\ C!W!WireSpec
BY LinkEnds, SessionIsWire, ConnectionIsWire, PTL

-----------------------------------------------------------------------------
(* Prefixes, element by element. *)
Leads(s, t) == Len(s) <= Len(t) /\ \A i \in 1 .. Len(s) : s[i] = t[i]

LEMMA LeadsIsPrefix ==
    ASSUME NEW S, NEW s \in Seq(S), NEW t \in Seq(S)
    PROVE  IsPrefix(s, t) <=> Leads(s, t)
<1>1. Len(s) \in Nat /\ Len(t) \in Nat /\ DOMAIN s = 1 .. Len(s) /\ DOMAIN t = 1 .. Len(t)
  BY LenProperties
<1>2. SubSeq(s, 1, Len(s)) = s
  BY SubSeqFull
<1>3. ASSUME Len(s) <= Len(t)
      PROVE  /\ SubSeq(t, 1, Len(s)) \in Seq(S) /\ Len(SubSeq(t, 1, Len(s))) = Len(s)
             /\ \A i \in 1 .. Len(s) : SubSeq(t, 1, Len(s))[i] = t[i]
  BY <1>1, <1>3, SubSeqProperties
<1>4. ASSUME Leads(s, t) PROVE IsPrefix(s, t)
  <2>1. s = SubSeq(t, 1, Len(s))
    BY <1>1, <1>3, <1>4, SeqEqual DEF Leads
  <2> QED
    BY <1>2, <1>4, <2>1 DEF Leads, IsPrefix
<1>5. ASSUME IsPrefix(s, t) PROVE Leads(s, t)
  BY <1>2, <1>3, <1>5 DEF IsPrefix, Leads
<1> QED
  BY <1>4, <1>5

LEMMA WholeLeads ==
    ASSUME NEW S, NEW s \in Seq(S), NEW u \in Seq(S)
    PROVE  s \o u \in Seq(S) /\ Leads(s, s \o u) /\ Leads(s, s)
BY ConcatProperties, LenProperties DEF Leads

LEMMA LeadsOn ==
    ASSUME NEW S, NEW r \in Seq(S), NEW s \in Seq(S), NEW t \in Seq(S), Leads(r, s), Leads(s, t)
    PROVE  Leads(r, t)
BY LenProperties DEF Leads

(* What is read is still first in what is left of a stream that breaks off behind it. *)
LEMMA LeadsLess ==
    ASSUME NEW S, NEW r \in Seq(S), NEW s \in Seq(S), NEW t \in Seq(S),
           Leads(r, t), Leads(s, t), Len(r) <= Len(s)
    PROVE  Leads(r, s)
BY LenProperties DEF Leads

LEMMA NextLeads ==
    ASSUME NEW S, NEW r \in Seq(S), NEW t \in Seq(S), Leads(r, t), Arrives(r, t)
    PROVE  WithNext(r, t) \in Seq(S) /\ Leads(WithNext(r, t), t)
<1>1. Len(r) \in Nat /\ Len(t) \in Nat
  BY LenProperties
<1>2. Len(r) + 1 \in 1 .. Len(t) /\ t[Len(r) + 1] \in S
  BY <1>1, ElementOfSeq DEF Arrives
<1> DEFINE e == t[Len(r) + 1]
<1>3. /\ Append(r, e) \in Seq(S) /\ Len(Append(r, e)) = Len(r) + 1
      /\ \A i \in 1 .. Len(r) : Append(r, e)[i] = r[i]
      /\ Append(r, e)[Len(r) + 1] = e
  BY <1>2, AppendProperties
<1> QED
  BY <1>1, <1>2, <1>3 DEF Leads, WithNext

-----------------------------------------------------------------------------
(* A queue's front, while it is being written, is in the stream: all of that is first
   in what was given. *)
LEMMA FrontUnderWay ==
    ASSUME NEW S, NEW s \in Seq(S), NEW q \in Seq(S), q # <<>>
    PROVE  /\ s \o <<Head(q)>> = Append(s, Head(q))
           /\ Append(s, Head(q)) \in Seq(S)
           /\ Leads(s, Append(s, Head(q))) /\ Leads(Append(s, Head(q)), s \o q)
<1>1. /\ Head(q) \in S /\ Tail(q) \in Seq(S)
      /\ Append(s, Head(q)) \in Seq(S) /\ Append(s, Head(q)) \o Tail(q) = s \o q
  BY HeadMoves
<1>2. <<Head(q)>> \in Seq(S)
  BY <1>1
<1>3. Append(s, Head(q)) = s \o <<Head(q)>>
  BY <1>1, AppendIsConcat
<1>4. Leads(s, Append(s, Head(q)))
  BY <1>2, <1>3, WholeLeads
<1>5. Leads(Append(s, Head(q)), s \o q)
  BY <1>1, WholeLeads
<1> QED
  BY <1>1, <1>3, <1>4, <1>5

(* The stream to the client: what was written, what may be written, what was given. *)
ToClientOK ==
    /\ ToClient \in Seq(Payloads)
    /\ ToClient = IF writing THEN Append(written, Head(queue)) ELSE written
    /\ Leads(written, ToClient) /\ Leads(ToClient, given)

ToServerOK ==
    /\ ToServer \in Seq(Payloads)
    /\ ToServer = IF sending = "started" THEN Append(sentOut, Head(outbox)) ELSE sentOut
    /\ Leads(sentOut, ToServer) /\ Leads(ToServer, posted)

LEMMA ToClientIs == IInv => ToClientOK
<1> SUFFICES ASSUME IInv PROVE ToClientOK
  OBVIOUS
<1> USE DEF ToClientOK
<1>1. /\ written \in Seq(Payloads) /\ queue \in Seq(Payloads) /\ writing \in BOOLEAN
      /\ writing => queue # <<>>
      /\ given = written \o queue
  BY DEF IInv, TypeOK, OneWrite, NothingLost
<1>2. CASE writing
  <2>1. ToClient = written \o <<Head(queue)>>
    BY <1>2 DEF ToClient
  <2>2. ToClient = Append(written, Head(queue)) /\ ToClient \in Seq(Payloads)
    BY <1>1, <1>2, <2>1, FrontUnderWay
  <2>3. Leads(written, ToClient)
    BY <1>1, <1>2, <2>2, FrontUnderWay
  <2>4. Leads(ToClient, given)
    BY <1>1, <1>2, <2>2, FrontUnderWay
  <2> QED
    BY <1>2, <2>2, <2>3, <2>4
<1>3. CASE ~writing
  <2>1. ToClient = written
    BY <1>1, <1>3, ConcatEmptySeq DEF ToClient
  <2>2. Leads(written, written) /\ Leads(written, written \o queue)
    BY <1>1, WholeLeads
  <2> QED
    BY <1>1, <1>3, <2>1, <2>2
<1> QED
  BY <1>2, <1>3

LEMMA ToServerIs == ClientInv => ToServerOK
<1> SUFFICES ASSUME ClientInv PROVE ToServerOK
  OBVIOUS
<1> USE DEF ToServerOK
<1>1. /\ sentOut \in Seq(Payloads) /\ outbox \in Seq(Payloads) /\ tasks \in Seq(Payloads)
      /\ posted \in Seq(Payloads) /\ sending = "started" => outbox # <<>>
      /\ posted = (sentOut \o outbox) \o tasks
  BY DEF ClientInv, ClientTypeOK, SendsFront, C!NothingLost
<1> DEFINE out == sentOut \o outbox
<1>2. /\ ToServer \in Seq(Payloads) /\ Leads(sentOut, ToServer) /\ Leads(ToServer, out)
      /\ ToServer = IF sending = "started" THEN Append(sentOut, Head(outbox)) ELSE sentOut
  <2>1. CASE sending = "started"
    <3>1. ToServer = sentOut \o <<Head(outbox)>>
      BY <2>1 DEF ToServer
    <3>2. ToServer = Append(sentOut, Head(outbox)) /\ ToServer \in Seq(Payloads)
      BY <1>1, <2>1, <3>1, FrontUnderWay
    <3>3. Leads(sentOut, ToServer)
      BY <1>1, <2>1, <3>2, FrontUnderWay
    <3>4. Leads(ToServer, out)
      BY <1>1, <2>1, <3>2, FrontUnderWay
    <3> QED
      BY <2>1, <3>2, <3>3, <3>4
  <2>2. CASE sending # "started"
    <3>1. ToServer = sentOut
      BY <1>1, <2>2, ConcatEmptySeq DEF ToServer
    <3>2. Leads(sentOut, sentOut) /\ Leads(sentOut, out)
      BY <1>1, WholeLeads
    <3> QED
      BY <1>1, <2>2, <3>1, <3>2
  <2> QED
    BY <2>1, <2>2
<1>3. out \in Seq(Payloads)
  BY <1>1, ConcatProperties
<1> HIDE DEF out
<1>4. posted = out \o tasks
  BY <1>1 DEF out
<1>5. Leads(out, posted)
  BY <1>1, <1>3, <1>4, WholeLeads
<1>6. Leads(ToServer, posted)
  <2>1. ToServer \in Seq(Payloads) /\ Leads(ToServer, out) /\ posted \in Seq(Payloads)
    BY <1>1, <1>2
  <2> QED
    BY <2>1, <1>3, <1>5, LeadsOn
<1> QED
  BY <1>2, <1>6

LEMMA NextToClientIs == IInv' => ToClientOK'
BY ToClientIs, PTL

LEMMA NextToServerIs == ClientInv' => ToServerOK'
BY ToServerIs, PTL

LEMMA HeadStays ==
    ASSUME NEW S, NEW q \in Seq(S), q # <<>>, NEW m \in S
    PROVE  Head(Append(q, m)) = Head(q)
BY AppendProperties, HeadTailProperties, EmptySeq, LenProperties

-----------------------------------------------------------------------------
(* Whatever the session does, but for a write that fails, the stream to the client
   holds what it held. *)
LEMMA ToClientGrows ==
    ASSUME IInv, IInv',
           \/ Start \/ (\E m \in Payloads : Deliver(m)) \/ ReadHeader \/ ReadBody
           \/ Written \/ UNCHANGED session
    PROVE  Leads(ToClient, ToClient')
<1>1. /\ ToClient \in Seq(Payloads) /\ ToClient' \in Seq(Payloads)
      /\ ToClient = IF writing THEN Append(written, Head(queue)) ELSE written
      /\ ToClient' = IF writing' THEN Append(written', Head(queue')) ELSE written'
      /\ Leads(written', ToClient')
      /\ writing \in BOOLEAN /\ queue \in Seq(Payloads) /\ (writing => queue # <<>>)
  BY ToClientIs, NextToClientIs DEF ToClientOK, IInv, TypeOK, OneWrite
<1>2. Leads(ToClient, ToClient)
  BY <1>1, WholeLeads
<1>3. CASE Written
  <2>1. ToClient = written'
    BY <1>1, <1>3 DEF Written
  <2> QED
    BY <1>1, <2>1
<1>4. CASE \E m \in Payloads : Deliver(m)
  <2>1. PICK m \in Payloads : Deliver(m)
    BY <1>4
  <2>2. CASE writing
    <3>1. Head(queue') = Head(queue)
      BY <1>1, <2>1, <2>2, HeadStays DEF Deliver
    <3>2. ToClient' = ToClient
      BY <1>1, <2>1, <2>2, <3>1 DEF Deliver
    <3> QED
      BY <1>2, <3>2
  <2>3. CASE ~writing
    <3>1. ToClient = written'
      BY <1>1, <2>1, <2>3 DEF Deliver
    <3> QED
      BY <1>1, <3>1
  <2> QED
    BY <1>1, <2>2, <2>3
<1>5. CASE Start \/ ReadHeader \/ ReadBody \/ UNCHANGED session
  <2>1. ToClient' = ToClient
    BY <1>5 DEF Start, ReadHeader, ReadBody, session, ToClient
  <2> QED
    BY <1>2, <2>1
<1> QED
  BY <1>3, <1>4, <1>5

(* Whatever the client's two threads do, but for a write that fails, the stream to
   the server holds what it held. *)
LEMMA ToServerGrows ==
    ASSUME ClientInv, ClientInv',
           \/ (\E m \in Payloads : C!Write(m)) \/ C!CloseAll \/ C!Connected \/ C!ReadFails
           \/ C!DoWrite \/ C!DoClose \/ C!Written \/ C!RunEnds \/ UNCHANGED C!connection
    PROVE  Leads(ToServer, ToServer')
<1>1. /\ ToServer \in Seq(Payloads) /\ ToServer' \in Seq(Payloads)
      /\ ToServer = IF sending = "started" THEN Append(sentOut, Head(outbox)) ELSE sentOut
      /\ ToServer' = IF sending' = "started" THEN Append(sentOut', Head(outbox')) ELSE sentOut'
      /\ Leads(sentOut', ToServer')
      /\ outbox \in Seq(Payloads) /\ tasks \in Seq(Payloads)
      /\ (sending = "started" => outbox # <<>>)
  BY ToServerIs, NextToServerIs DEF ToServerOK, ClientInv, ClientTypeOK, SendsFront
<1>2. Leads(ToServer, ToServer)
  BY <1>1, WholeLeads
<1>3. CASE C!Written
  <2>1. ToServer = sentOut'
    BY <1>1, <1>3 DEF C!Written
  <2> QED
    BY <1>1, <2>1
<1>4. CASE C!DoWrite
  <2>1. CASE sending = "started"
    <3>1. Head(tasks) \in Payloads
      BY <1>1, <1>4, HeadTailProperties DEF C!DoWrite
    <3>2. Head(outbox') = Head(outbox)
      BY <1>1, <1>4, <2>1, <3>1, HeadStays DEF C!DoWrite
    <3>3. ToServer' = ToServer
      BY <1>1, <1>4, <2>1, <3>2 DEF C!DoWrite
    <3> QED
      BY <1>2, <3>3
  <2>2. CASE sending # "started"
    <3>1. ToServer = sentOut'
      BY <1>1, <1>4, <2>2 DEF C!DoWrite
    <3> QED
      BY <1>1, <3>1
  <2> QED
    BY <2>1, <2>2
<1>5. CASE \/ (\E m \in Payloads : C!Write(m)) \/ C!CloseAll \/ C!Connected \/ C!ReadFails
           \/ C!DoClose \/ C!RunEnds \/ UNCHANGED C!connection
  <2>1. UNCHANGED <<outbox, sending, sentOut>>
    BY <1>5 DEF C!Write, C!CloseAll, C!Connected, C!ReadFails, C!DoClose, C!RunEnds, C!posts,
                C!connection
  <2>2. ToServer' = ToServer
    BY <2>1 DEF ToServer
  <2> QED
    BY <1>2, <2>2
<1> QED
  BY <1>3, <1>4, <1>5

-----------------------------------------------------------------------------
(* What has been read is first in its stream; so a write that fails, none of which
   was read as a whole message, takes nothing away that was read. *)
ReadInv ==
    /\ handled \in Seq(Payloads) /\ Leads(handled, ToServer)
    /\ heard \in Seq(Payloads) /\ Leads(heard, ToClient)

LinkInv == IInv /\ ClientInv /\ ReadInv

LEMMA InitLink == LinkInit => LinkInv
<1> SUFFICES ASSUME LinkInit PROVE LinkInv
  OBVIOUS
<1>1. IInv /\ ClientInv
  BY InitSession, InitConnection DEF LinkInit
<1>2. <<>> \in Seq(Payloads) /\ <<>> \o <<>> = <<>> /\ Len(<<>>) = 0
  BY EmptySeq, ConcatEmptySeq
<1>3. /\ handled = <<>> /\ heard = <<>> /\ written = <<>> /\ ~writing
      /\ sentOut = <<>> /\ sending # "started"
  BY DEF LinkInit, Init, C!Init
<1>4. ToServer = <<>> /\ ToClient = <<>>
  BY <1>2, <1>3 DEF ToServer, ToClient
<1>5. Leads(<<>>, <<>>)
  BY <1>2 DEF Leads
<1> QED
  BY <1>1, <1>2, <1>3, <1>4, <1>5 DEF LinkInv, ReadInv

(* Nothing is read, and the session's end does not lose a write. *)
LEMMA ClientKept ==
    ASSUME LinkInv, IInv', UNCHANGED heard,
           \/ Start \/ (\E m \in Payloads : Deliver(m)) \/ ReadHeader \/ ReadBody
           \/ Written \/ UNCHANGED session
    PROVE  Leads(heard', ToClient')
<1>1. Leads(ToClient, ToClient')
  BY ToClientGrows DEF LinkInv
<1>2. ToClient \in Seq(Payloads) /\ ToClient' \in Seq(Payloads)
  BY ToClientIs, NextToClientIs DEF ToClientOK, LinkInv
<1>3. heard \in Seq(Payloads) /\ Leads(heard, ToClient) /\ heard' = heard
  BY DEF LinkInv, ReadInv
<1> QED
  BY <1>1, <1>2, <1>3, LeadsOn

LEMMA ServerKept ==
    ASSUME LinkInv, ClientInv', UNCHANGED handled,
           \/ (\E m \in Payloads : C!Write(m)) \/ C!CloseAll \/ C!Connected \/ C!ReadFails
           \/ C!DoWrite \/ C!DoClose \/ C!Written \/ C!RunEnds \/ UNCHANGED C!connection
    PROVE  Leads(handled', ToServer')
<1>1. Leads(ToServer, ToServer')
  BY ToServerGrows DEF LinkInv
<1>2. ToServer \in Seq(Payloads) /\ ToServer' \in Seq(Payloads)
  BY ToServerIs, NextToServerIs DEF ToServerOK, LinkInv
<1>3. handled \in Seq(Payloads) /\ Leads(handled, ToServer) /\ handled' = handled
  BY DEF LinkInv, ReadInv
<1> QED
  BY <1>1, <1>2, <1>3, LeadsOn

LEMMA NextLink == LinkInv /\ [LinkNext]_link => LinkInv'
<1> SUFFICES ASSUME LinkInv, [LinkNext]_link PROVE LinkInv'
  OBVIOUS
<1>1. IInv' /\ ClientInv'
  BY EndsStep, NextSession, NextConnection DEF LinkInv
<1>2. /\ ToClient \in Seq(Payloads) /\ ToClient' \in Seq(Payloads)
      /\ ToServer \in Seq(Payloads) /\ ToServer' \in Seq(Payloads)
  BY <1>1, ToClientIs, NextToClientIs, ToServerIs, NextToServerIs
  DEF ToClientOK, ToServerOK, LinkInv
<1>3. /\ handled \in Seq(Payloads) /\ Leads(handled, ToServer)
      /\ heard \in Seq(Payloads) /\ Leads(heard, ToClient)
  BY DEF LinkInv, ReadInv
<1>4. ASSUME UNCHANGED client PROVE ToServer' = ToServer /\ UNCHANGED C!connection
  BY <1>4 DEF client, ToServer, C!connection
<1>5. ASSUME UNCHANGED session PROVE ToClient' = ToClient
  BY <1>5 DEF session, ToClient
<1>6. CASE Accept \/ Reply \/ ServerReadsHeader \/ UNCHANGED link
  <2>1. UNCHANGED <<client, handled, heard>>
    BY <1>6 DEF Accept, Reply, ServerReadsHeader, link
  <2>2. Leads(heard', ToClient')
    <3>1. Start \/ (\E m \in Payloads : Deliver(m)) \/ ReadHeader \/ UNCHANGED session
      BY <1>6 DEF Accept, Reply, ServerReadsHeader, link
    <3> QED
      BY <1>1, <2>1, <3>1, ClientKept
  <2> QED
    BY <1>1, <1>3, <1>4, <2>1, <2>2 DEF LinkInv, ReadInv
<1>7. CASE ServerReadsBody
  <2>1. ReadBody /\ UNCHANGED <<client, heard>>
    BY <1>7 DEF ServerReadsBody
  <2>2. Leads(heard', ToClient')
    BY <1>1, <2>1, ClientKept
  <2>3. handled' \in Seq(Payloads) /\ Leads(handled', ToServer)
    BY <1>2, <1>3, <1>7, NextLeads DEF ServerReadsBody
  <2> QED
    BY <1>1, <1>3, <1>4, <2>1, <2>2, <2>3 DEF LinkInv, ReadInv
<1>8. CASE ServerWrites
  <2>1. UNCHANGED <<client, handled, heard>>
    BY <1>8 DEF ServerWrites
  <2>2. CASE Written
    <3>1. Leads(heard', ToClient')
      BY <1>1, <2>1, <2>2, ClientKept
    <3> QED
      BY <1>1, <1>3, <1>4, <2>1, <3>1 DEF LinkInv, ReadInv
  <2>3. CASE Len(heard) <= Len(written) /\ WriteFails
    <3>1. ToClient' = written
      BY <1>1, <2>3, NextToClientIs DEF ToClientOK, WriteFails
    <3>2. written \in Seq(Payloads) /\ Leads(written, ToClient)
      BY ToClientIs DEF ToClientOK, LinkInv, IInv, TypeOK
    <3>3. Leads(heard, written)
      BY <1>2, <1>3, <2>3, <3>2, LeadsLess
    <3> QED
      BY <1>1, <1>3, <1>4, <2>1, <3>1, <3>3 DEF LinkInv, ReadInv
  <2> QED
    BY <1>8, <2>2, <2>3 DEF ServerWrites
<1>9. CASE \/ Post \/ CloseAll \/ ClientRuns
           \/ C!ReadFails /\ UNCHANGED <<session, handled, heard>>
  <2>1. UNCHANGED <<session, handled, heard>>
    BY <1>9 DEF Post, CloseAll, ClientRuns
  <2>2. \/ (\E m \in Payloads : C!Write(m)) \/ C!CloseAll \/ C!Connected \/ C!ReadFails
        \/ C!DoWrite \/ C!DoClose \/ C!RunEnds
    BY <1>9 DEF Post, CloseAll, ClientRuns
  <2>3. Leads(handled', ToServer')
    BY <1>1, <2>1, <2>2, ServerKept
  <2> QED
    BY <1>1, <1>3, <1>5, <2>1, <2>3 DEF LinkInv, ReadInv
<1>10. CASE ClientWrites
  <2>1. UNCHANGED <<session, handled, heard>>
    BY <1>10 DEF ClientWrites
  <2>2. CASE C!Written
    <3>1. Leads(handled', ToServer')
      BY <1>1, <2>1, <2>2, ServerKept
    <3> QED
      BY <1>1, <1>3, <1>5, <2>1, <3>1 DEF LinkInv, ReadInv
  <2>3. CASE Len(handled) <= Len(sentOut) /\ C!WriteFails
    <3>1. ToServer' = sentOut
      BY <1>1, <2>3, NextToServerIs DEF ToServerOK, C!WriteFails
    <3>2. sentOut \in Seq(Payloads) /\ Leads(sentOut, ToServer)
      BY ToServerIs DEF ToServerOK, LinkInv, ClientInv, ClientTypeOK
    <3>3. Leads(handled, sentOut)
      BY <1>2, <1>3, <2>3, <3>2, LeadsLess
    <3> QED
      BY <1>1, <1>3, <1>5, <2>1, <3>1, <3>3 DEF LinkInv, ReadInv
  <2> QED
    BY <1>10, <2>2, <2>3 DEF ClientWrites
<1>11. CASE Hear
  <2>1. UNCHANGED <<session, client, handled>>
    BY <1>11 DEF Hear
  <2>2. heard' \in Seq(Payloads) /\ Leads(heard', ToClient)
    BY <1>2, <1>3, <1>11, NextLeads DEF Hear
  <2> QED
    BY <1>1, <1>3, <1>4, <1>5, <2>1, <2>2 DEF LinkInv, ReadInv
<1> QED
  BY <1>6, <1>7, <1>8, <1>9, <1>10, <1>11 DEF LinkNext, ServerReads, ClientReads

(* The server handles what the window wrote, and the client hears what was delivered
   to it, each in order and each once, though both streams may break at any message
   (BoostSession.cpp:50-116, BoostClient.cpp:44-137). *)
THEOREM LinkReadInOrder == LinkSpec => []ReadInOrder
<1>1. LinkInv => ReadInOrder
  <2> SUFFICES ASSUME LinkInv PROVE ReadInOrder
    OBVIOUS
  <2>1. /\ handled \in Seq(Payloads) /\ ToServer \in Seq(Payloads) /\ posted \in Seq(Payloads)
        /\ Leads(handled, ToServer) /\ Leads(ToServer, posted)
    BY ToServerIs DEF LinkInv, ReadInv, ToServerOK, ClientInv, ClientTypeOK
  <2>2. /\ heard \in Seq(Payloads) /\ ToClient \in Seq(Payloads) /\ given \in Seq(Payloads)
        /\ Leads(heard, ToClient) /\ Leads(ToClient, given)
    BY ToClientIs DEF LinkInv, ReadInv, ToClientOK, IInv, TypeOK
  <2>3. Leads(handled, posted)
    BY <2>1, LeadsOn
  <2>4. Leads(heard, given)
    BY <2>2, LeadsOn
  <2> QED
    BY <2>1, <2>2, <2>3, <2>4, LeadsIsPrefix DEF ReadInOrder
<1> QED
  BY InitLink, NextLink, <1>1, PTL DEF LinkSpec
=============================================================================
