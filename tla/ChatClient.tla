----------------------------- MODULE ChatClient ----------------------------
(***************************************************************************)
(* chat_client (src/network/client.cpp), at the other end of session Own   *)
(* of a chat room.  Its handlers run on one thread; the user posts writes  *)
(* and a close.  It tries a list of endpoints, each for as long as its     *)
(* deadline allows.  The room listens at one of them; the others refuse or *)
(* never answer.                                                           *)
(***************************************************************************)
EXTENDS ChatRoom, ChatMessage

CONSTANTS Own,          \* the session of this client
          Endpoints,    \* number of endpoints resolved
          Size          \* the length of each message the user types
ASSUME OwnAssumption == Own \in Sessions
ASSUME EndpointsAssumption == Endpoints \in Nat \ {0}
ASSUME SizeAssumption == Size \in [1..MaxSay[Own] -> Nat]

VARIABLE c              \* the client, see ClientInit

\* ep: endpoint_iter; conn: the attempt on it, "over" when none is left; open:
\* is socket_ open? met: has the room answered? deadline: of deadline_; queue,
\* writing: write_msgs_ and its async_write, "failed" when its handler is to
\* report an error; reading: the async_read; posted: messages whose lambdas
\* are to run, and closing: that of close() behind them; typed: messages the
\* user typed; heard: messages read; running: the io thread is; early: a write
\* failed before a connection was made.
ClientInit ==
    c = [ep |-> 1, conn |-> "trying", open |-> TRUE, met |-> FALSE,
         deadline |-> "armed", queue |-> <<>>, writing |-> "no", reading |-> FALSE,
         posted |-> <<>>, closing |-> FALSE, typed |-> 0, heard |-> 0, running |-> TRUE, early |-> FALSE]

Room == <<accepted, said, wire, reading, participants, recent, writeQ, writing,
          log, joinedAt, out>>

Broken == Own \in gone
Closed(k) == [k EXCEPT !.open = FALSE, !.writing = IF @ = "yes" THEN "failed" ELSE @]

\* socket_.close(): outstanding operations fail, the room sees the end.
Close(k) == /\ c' = Closed(k)
            /\ gone' = IF c.met THEN gone \cup {Own} ELSE gone
            /\ UNCHANGED Room

Only(k) == c' = k /\ UNCHANGED <<gone, Room>>

-----------------------------------------------------------------------------
(* The user. *)

\* write() from any thread, before or after the connection is made.
Type == /\ c.typed < MaxSay[Own]
        /\ Only([c EXCEPT !.typed = @ + 1, !.posted = Append(@, c.typed + 1)])

\* close(), posted like a write; in the model once the user has typed all.
Hangup_ == /\ c.typed = MaxSay[Own] /\ c.open /\ ~c.closing
           /\ Only([c EXCEPT !.closing = TRUE])

\* Mutant: the message is pushed to the front.
QueueFront(k, m) ==
    [k EXCEPT !.queue = <<m>> \o @,
              !.writing = IF k.queue # <<>> THEN @ ELSE IF k.open THEN "yes" ELSE "failed"]

\* The lambda of write(): only a queue that was empty starts do_write; on a
\* socket that is not open that fails.
Queue(k, m) ==
    [k EXCEPT !.queue = Append(@, m),
              !.writing = IF k.queue # <<>> THEN @ ELSE IF k.open THEN "yes" ELSE "failed"]

RunPosted ==
    /\ c.running
    /\ \/ /\ c.posted # <<>>
          /\ Only(Queue([c EXCEPT !.posted = Tail(@)], Head(c.posted)))
       \/ /\ c.posted = <<>> /\ c.closing
          /\ Close([c EXCEPT !.closing = FALSE])

-----------------------------------------------------------------------------
(* Connecting. *)

\* The room's host completes the handshake, or another host refuses.
Answer == /\ c.conn = "trying" /\ c.open
          /\ \/ ~c.met /\ Only([c EXCEPT !.conn = "answered", !.met = TRUE])
             \/ Only([c EXCEPT !.conn = "refused"])

\* Mutant: the end of the list is tried too.
DoConnectPastEnd(k) == IF c.ep <= Endpoints
                       THEN [k EXCEPT !.ep = @ + 1, !.conn = "trying", !.open = TRUE,
                                      !.deadline = "armed"]
                       ELSE [k EXCEPT !.ep = @ + 1, !.conn = "over"]

\* do_connect: the next endpoint with a new deadline, if there is one.
DoConnect(k) == IF c.ep < Endpoints
                THEN [k EXCEPT !.ep = @ + 1, !.conn = "trying", !.open = TRUE,
                               !.deadline = "armed"]
                ELSE [k EXCEPT !.ep = @ + 1, !.conn = "over"]

\* handle_connect: a closed socket is taken to mean that the deadline has
\* passed; an error is thrown out of io_context::run(), before the close that
\* follows it in the source; else the reading starts.
HandleConnect ==
    /\ c.running
    /\ \/ /\ c.conn \in {"trying", "answered", "refused"} /\ ~c.open
          /\ Only(DoConnect(c))
       \/ /\ c.conn = "refused" /\ c.open
          /\ Only([c EXCEPT !.conn = "over", !.running = FALSE])
       \/ /\ c.conn = "answered" /\ c.open
          /\ Only([c EXCEPT !.conn = "up", !.reading = TRUE])

\* Five seconds after do_connect, check_deadline closes the socket; it does
\* not ask whether the connection was made.  Woken early, by expires_after(),
\* it only waits again.
CheckDeadline == /\ c.running /\ c.deadline = "armed"
                 /\ Close([c EXCEPT !.deadline = "max"])

\* The connection breaks: the room's side sees it as the end of the client.
Break == /\ c.met /\ c.open /\ ~Broken
         /\ gone' = gone \cup {Own}
         /\ UNCHANGED <<c, Room>>

-----------------------------------------------------------------------------
(* Writing and reading. *)

\* Mutant: the next message is not written.
AfterWriteIdle(q) == "no"

AfterWrite(q) == IF q # <<>> THEN "yes" ELSE "no"

\* The kernel may take a message before handle_connect has run.  The header
\* the room will find is the one encode_header() wrote.
WriteDone_ ==
    /\ c.running /\ c.writing = "yes" /\ c.open /\ c.conn \in {"answered", "up"} /\ ~Broken
    /\ LET m == <<Own, Head(c.queue)>>
           header == EncodeHeader(BodyLength(Size[Head(c.queue)]))
       IN  /\ said' = [said EXCEPT ![Own] = Append(@, m)]
           /\ wire' = [wire EXCEPT ![Own] =
                 Append(@, [msg |-> m, ok |-> DecodeHeader(Atoi(header)).ok])]
    /\ c' = [c EXCEPT !.queue = Tail(@), !.writing = AfterWrite(Tail(c.queue))]
    /\ UNCHANGED <<accepted, gone, reading, participants, recent, writeQ, writing,
                   log, joinedAt, out>>

\* The message stays in the queue; the socket is closed, even if it is that
\* of the next endpoint by now.  Whether a write waits for a connect that is
\* in progress or fails depends on the platform.
WriteFailed_ ==
    /\ c.running
    /\ \/ c.writing = "failed"
       \/ c.writing = "yes" /\ (Broken \/ c.conn \in {"trying", "refused"})
    /\ Close([c EXCEPT !.writing = "no", !.early = @ \/ c.conn # "up"])

\* do_read_header, do_read_body and do_read_header again.
ReadDone_ ==
    /\ c.running /\ c.reading /\ c.open /\ c.heard < Len(out[Own])
    /\ Only([c EXCEPT !.heard = @ + 1])

ReadFailed_ ==
    /\ c.running /\ c.reading /\ (~c.open \/ Broken)
    /\ Close([c EXCEPT !.reading = FALSE])

ClientHandler == HandleConnect \/ RunPosted \/ WriteDone_ \/ WriteFailed_ \/ ReadDone_ \/ ReadFailed_
ClientStep == Type \/ Hangup_ \/ Answer \/ CheckDeadline \/ Break \/ ClientHandler
=============================================================================
