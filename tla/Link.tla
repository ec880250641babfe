-------------------------------- MODULE Link --------------------------------
(***************************************************************************)
(* One client's connection and its session on the server: the two ends of  *)
(* a TCP stream.  What one end writes the other reads, in order; an error  *)
(* may befall either at any time; and an end that closes is noticed by a   *)
(* read that waits at the other.                                           *)
(***************************************************************************)
EXTENDS Session, SequencesExt

CONSTANT MaxPosts

VARIABLES
    socket, inbound, tasks, outbox, sending, running, closing, posted, sentOut,
                \* the client's end: see Connection
    handled,    \* what the session has read: the server's handlers had it
    heard       \* what the client has read

C == INSTANCE Connection WITH
         queue <- outbox, writing <- sending, given <- posted, written <- sentOut

client == <<socket, inbound, tasks, outbox, sending, running, closing, posted, sentOut>>

link == <<session, client, handled, heard>>

LinkInit == Init /\ C!Init /\ handled = <<>> /\ heard = <<>>

-----------------------------------------------------------------------------
(* What a write under way has given to the stream may be all of its message. *)
ToServer == sentOut \o (IF sending = "started" THEN <<Head(outbox)>> ELSE <<>>)

ToClient == written \o (IF writing THEN <<Head(queue)>> ELSE <<>>)

Arrives(read, stream) == Len(read) < Len(stream)

WithNext(read, stream) == Append(read, stream[Len(read) + 1])

Accept == Start /\ UNCHANGED <<client, handled, heard>>

Reply == (\E m \in Payloads : Deliver(m)) /\ UNCHANGED <<client, handled, heard>>

ServerReadsHeader ==
    /\ ReadHeader
    /\ reading' = "body" => Arrives(handled, ToServer)
    /\ UNCHANGED <<client, handled, heard>>

(* The server has the message before it says that there shall be no other. *)
ServerReadsBody ==
    /\ ReadBody
    /\ \/ Arrives(handled, ToServer) /\ handled' = WithNext(handled, ToServer)
       \/ reading' = "stopped" /\ UNCHANGED handled
    /\ UNCHANGED <<client, heard>>

ServerReads == ServerReadsHeader \/ ServerReadsBody

(* A message that was read as a whole was written without an error. *)
ServerWrites ==
    /\ Written \/ (Len(heard) <= Len(written) /\ WriteFails)
    /\ UNCHANGED <<client, handled, heard>>

Post == (\E m \in Payloads : C!Write(m)) /\ UNCHANGED <<session, handled, heard>>

CloseAll == C!CloseAll /\ UNCHANGED <<session, handled, heard>>

ClientRuns ==
    /\ C!Connected \/ C!DoWrite \/ C!DoClose \/ C!RunEnds
    /\ UNCHANGED <<session, handled, heard>>

ClientWrites ==
    /\ C!Written \/ (Len(handled) <= Len(sentOut) /\ C!WriteFails)
    /\ UNCHANGED <<session, handled, heard>>

Hear ==
    /\ running /\ inbound = "read"
    /\ Arrives(heard, ToClient) /\ heard' = WithNext(heard, ToClient)
    /\ UNCHANGED <<session, client, handled>>

ClientReads == Hear \/ (C!ReadFails /\ UNCHANGED <<session, handled, heard>>)

LinkNext ==
    \/ Accept \/ Reply \/ ServerReads \/ ServerWrites
    \/ Post \/ CloseAll \/ ClientRuns \/ ClientWrites \/ ClientReads

LinkSpec == LinkInit /\ [][LinkNext]_link

(* Both programs run what is ready to run; a read ends when something has arrived,
   or with an error when the other end of the stream is closed, which on the server
   is when nobody holds the session. *)
LinkFairness ==
    /\ Fairness /\ C!Fairness
    /\ WF_link((Arrives(handled, ToServer) \/ socket = "closed") /\ ServerReads)
    /\ WF_link((Arrives(heard, ToClient) \/ ~Alive) /\ ClientReads)

FairLink == LinkSpec /\ LinkFairness
-----------------------------------------------------------------------------
(* The server handles what the window's thread wrote, and the client hears what the
   server delivered: in that order, each message once, and none between that was
   not written, though each passes two queues and a stream that may break. *)
ReadInOrder == IsPrefix(handled, posted) /\ IsPrefix(heard, given)

(* Messages go out in the order in which they were posted, and all of them until a
   write fails; after that none. *)
WritesInOrder == C!WritesInOrder

(* main waits for the io thread after close (Main.cpp:504): whatever was under way,
   and whether or not the connection ever came up, the thread ends. *)
JoinReturns == C!JoinReturns

(* When the client closes, the server's session is released, whatever it was
   reading and writing; and a client whose session is gone stops reading. *)
BothLetGo ==
    /\ closing = "done" /\ reading # "none" ~> ~Alive
    /\ ~Alive ~> inbound # "read"
=============================================================================
