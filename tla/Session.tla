------------------------------- MODULE Session ------------------------------
(***************************************************************************)
(* One BoostSession of the server: its read operation, its queue of writes *)
(* and who holds the object: the room, and each operation under way by the *)
(* shared_ptr in its handler.  One thread runs all handlers.               *)
(***************************************************************************)
EXTENDS Naturals, Sequences

CONSTANTS
    Payloads,   \* the messages delivered
    MaxPut      \* bound on their number

VARIABLES
    reading,    \* the read under way: "none" before start, "stopped" after the last
    room,       \* the room holds the session
    queue,      \* m_write_msgs_queue
    writing,    \* an async_write of the queue's front is under way
    given,      \* history: what was given to deliver
    written,    \* history: what async_write has written
    broken      \* history: a write has failed

session == <<reading, room, queue, writing, given, written, broken>>

Init ==
    /\ reading = "none" /\ room = FALSE
    /\ queue = <<>> /\ writing = FALSE
    /\ given = <<>> /\ written = <<>> /\ broken = FALSE

Reading == reading \in {"header", "body"}

(* Somebody holds the object. *)
Alive == reading = "none" \/ room \/ Reading \/ writing

-----------------------------------------------------------------------------
(* start: the acceptor's handler holds a session that has not started. *)
Start ==
    /\ reading = "none"
    /\ room' = TRUE
    /\ reading' = "header"
    /\ UNCHANGED <<queue, writing, given, written, broken>>

(* Faulty variant of Deliver: the queue is not looked at. *)
DeliverAtOnce(m) ==
    /\ Alive /\ reading # "none"
    /\ Len(given) < MaxPut
    /\ queue' = <<m>> \o queue
    /\ writing' = TRUE
    /\ given' = Append(given, m)
    /\ UNCHANGED <<reading, room, written, broken>>

(* deliver, by a handler of any player; a write is started unless the queue shows
   that one is under way, or has failed. *)
Deliver(m) ==
    /\ Alive /\ reading # "none"
    /\ Len(given) < MaxPut
    /\ queue' = Append(queue, m)
    /\ writing' = (writing \/ queue = <<>>)
    /\ given' = Append(given, m)
    /\ UNCHANGED <<reading, room, written, broken>>

(* Faulty variant of Leave: the room goes on holding the session. *)
LeaveHeld == reading' = "stopped" /\ UNCHANGED room

Leave == reading' = "stopped" /\ room' = FALSE

(* handle_read_header: an error, or a length no body can have, ends the session. *)
ReadHeader ==
    /\ reading = "header"
    /\ \/ reading' = "body" /\ UNCHANGED room
       \/ Leave
    /\ UNCHANGED <<queue, writing, given, written, broken>>

(* handle_read_body: the server handles the message (what it delivers here is
   Deliver) and says whether to go on; a session that had to leave the room
   while this read waited goes on as well. *)
ReadBody ==
    /\ reading = "body"
    /\ \/ reading' = "header" /\ UNCHANGED room
       \/ Leave
    /\ UNCHANGED <<queue, writing, given, written, broken>>

(* Faulty variant of Written: the front stays in the queue. *)
WrittenAgain ==
    /\ writing
    /\ written' = Append(written, Head(queue))
    /\ writing' = TRUE
    /\ UNCHANGED <<reading, room, queue, given, broken>>

(* handle_write, without an error. *)
Written ==
    /\ writing
    /\ written' = Append(written, Head(queue))
    /\ queue' = Tail(queue)
    /\ writing' = (queue' # <<>>)
    /\ UNCHANGED <<reading, room, given, broken>>

(* handle_write, with one: the session leaves the room, its read goes on waiting, and
   the queue stays as it is. *)
WriteFails ==
    /\ writing
    /\ writing' = FALSE /\ broken' = TRUE
    /\ room' = FALSE
    /\ UNCHANGED <<reading, queue, given, written>>

Next ==
    \/ Start
    \/ \E m \in Payloads : Deliver(m)
    \/ ReadHeader
    \/ ReadBody
    \/ Written
    \/ WriteFails

Spec == Init /\ [][Next]_session

(* The socket completes what was started on it. *)
Fairness == WF_session(Written \/ WriteFails)

FairSession == Spec /\ Fairness
-----------------------------------------------------------------------------
W == INSTANCE Wire WITH put <- given, got <- written, up <- ~broken

LifeNow ==
    CASE reading = "none" -> "fresh"
      [] Reading /\ room -> "open"
      [] Reading /\ ~room -> "detached"
      [] reading = "stopped" /\ writing -> "flushing"
      [] OTHER -> "freed"

L == INSTANCE Life WITH Again <- FALSE, life <- LifeNow

(* deliver and handle_write make a wire of a queue and a flag that says nothing but
   whether the queue is empty. *)
DeliversInOrder == W!FairWire

(* The session lives as the server's model has it: a write that fails
   leaves it out of the room and reading, and it never writes again. *)
LivesAsServed == L!LifeSpec

(* Two writes at once would mix their bytes: asio wants one at a time, and the front
   of the queue is the buffer of the one under way. *)
OneWrite ==
    /\ writing => queue # <<>> /\ ~broken
    /\ queue # <<>> => writing \/ broken

(* What was delivered is what was written and what waits, in that order. *)
NothingLost == given = written \o queue
=============================================================================
