----------------------------- MODULE Connection -----------------------------
(***************************************************************************)
(* The client's connection, BoostClient.cpp.  The window's thread gives    *)
(* messages to write and may close; both are posted to the one io thread,  *)
(* which runs posted functions and completions of the socket's operations  *)
(* for as long as there are any (io_service.run), and then never again.    *)
(***************************************************************************)
EXTENDS Naturals, Sequences

CONSTANTS
    Payloads,   \* the messages written
    MaxPosts    \* bound on the messages the window's thread posts

VARIABLES
    socket,     \* "pending" before it is connected, "open", "closed"
    inbound,    \* the "connect" or "read" under way, or "none"
    tasks,      \* the posted do_write's, by their messages
    closing,    \* do_close: "not" posted yet, "posted" behind them, or "done"
    queue,      \* m_write_msg_queue
    writing,    \* the write of the queue's front: "none", "started", or "doomed"
                \* when it was started on a socket that is not open
    running,    \* the io thread is in io_service.run
    given,      \* history: what was given to write
    written     \* history: what async_write has written

connection == <<socket, inbound, tasks, queue, writing, running, closing, given,
                written>>

posts == <<tasks, closing, given>>

Init ==
    /\ socket = "pending" /\ inbound = "connect"
    /\ tasks = <<>> /\ queue = <<>>
    /\ writing = "none" /\ running = TRUE
    /\ closing = "not"
    /\ given = <<>> /\ written = <<>>

Started == IF socket = "open" THEN "started" ELSE "doomed"

-----------------------------------------------------------------------------
(* The window's thread: write, until main calls close on its way out. *)
Write(m) ==
    /\ Len(given) < MaxPosts
    /\ closing = "not"
    /\ tasks' = Append(tasks, m)
    /\ given' = Append(given, m)
    /\ UNCHANGED <<socket, inbound, queue, writing, running, closing, written>>

CloseAll ==
    /\ closing = "not"
    /\ closing' = "posted"
    /\ UNCHANGED <<socket, inbound, tasks, queue, writing, running, given, written>>

-----------------------------------------------------------------------------
(* handle_connect: an error is not looked at, and nothing is tried again. *)
Connected ==
    /\ running /\ inbound = "connect"
    /\ \/ socket = "pending" /\ socket' = "open" /\ inbound' = "read"
       \/ inbound' = "none" /\ UNCHANGED socket
    /\ UNCHANGED <<posts, queue, writing, running, written>>

(* handle_read_header or handle_read_body with an error, or a length no body can
   have: do_close.  (What is read without one is Client's.) *)
ReadFails ==
    /\ running /\ inbound = "read"
    /\ inbound' = "none" /\ socket' = "closed"
    /\ UNCHANGED <<posts, queue, writing, running, written>>

(* do_write: a write is started, on whatever the socket is by then, unless the queue
   shows that one is under way, or has failed. *)
DoWrite ==
    /\ running /\ tasks # <<>>
    /\ tasks' = Tail(tasks)
    /\ queue' = Append(queue, Head(tasks))
    /\ writing' = IF queue = <<>> THEN Started ELSE writing
    /\ UNCHANGED <<socket, inbound, running, closing, given, written>>

(* Faulty variant of DoClose: what waits in the queue is to go out first. *)
DoCloseWaits ==
    /\ running /\ tasks = <<>> /\ closing = "posted"
    /\ closing' = "done"
    /\ socket' = IF queue = <<>> THEN "closed" ELSE socket
    /\ UNCHANGED <<inbound, tasks, queue, writing, running, given, written>>

DoClose ==
    /\ running /\ tasks = <<>> /\ closing = "posted"
    /\ closing' = "done"
    /\ socket' = "closed"
    /\ UNCHANGED <<inbound, tasks, queue, writing, running, given, written>>

(* Faulty variant of Written: the front stays in the queue. *)
WrittenAgain ==
    /\ running /\ writing = "started"
    /\ written' = Append(written, Head(queue))
    /\ writing' = Started
    /\ UNCHANGED <<socket, inbound, posts, queue, running>>

(* handle_write, without an error; possibly after the socket was closed, if the
   write was done by then. *)
Written ==
    /\ running /\ writing = "started"
    /\ written' = Append(written, Head(queue))
    /\ queue' = Tail(queue)
    /\ writing' = IF queue' # <<>> THEN Started ELSE "none"
    /\ UNCHANGED <<socket, inbound, posts, running>>

(* handle_write, with one: do_close.  So a message written before the connection is
   up closes the socket it was to be connected with. *)
WriteFails ==
    /\ running /\ writing # "none"
    /\ writing' = "none" /\ socket' = "closed"
    /\ UNCHANGED <<inbound, posts, queue, running, written>>

(* run returns for want of work, and nothing calls it again. *)
RunEnds ==
    /\ running
    /\ inbound = "none" /\ writing = "none"
    /\ tasks = <<>> /\ closing # "posted"
    /\ running' = FALSE
    /\ UNCHANGED <<socket, inbound, posts, queue, writing, written>>

Next ==
    \/ \E m \in Payloads : Write(m)
    \/ CloseAll
    \/ Connected
    \/ ReadFails
    \/ DoWrite
    \/ DoClose
    \/ Written
    \/ WriteFails
    \/ RunEnds

Spec == Init /\ [][Next]_connection

(* The io thread runs what is posted, an attempt to connect comes to an end, and so
   do a write, since the server always reads, and, on a closed socket, a read; on an
   open one it may wait. *)
Fairness ==
    /\ WF_connection(Connected)
    /\ WF_connection(DoWrite \/ DoClose)
    /\ WF_connection(Written \/ WriteFails)
    /\ WF_connection(socket = "closed" /\ ReadFails)
    /\ WF_connection(RunEnds)

FairConnection == Spec /\ Fairness
-----------------------------------------------------------------------------
(* A further message can still go out. *)
Up ==
    CASE writing = "started" -> TRUE
      [] writing = "doomed" -> FALSE
      [] OTHER -> /\ running /\ queue = <<>>
                  /\ socket = "open" \/ (inbound = "connect" /\ socket = "pending")

W == INSTANCE Wire WITH put <- given, got <- written, up <- Up

(* Messages go out in the order in which the window's thread wrote them, although
   they pass two queues; and once one has failed none follows. *)
WritesInOrder == W!FairWire

(* The two queues hold exactly what has not gone out. *)
NothingLost == given = written \o queue \o tasks

(* main waits for the io thread after close (Main.cpp:504): whatever was under way,
   and whether or not the connection ever came up, the thread ends. *)
JoinReturns == closing # "not" ~> ~running
=============================================================================
