------------------------------ MODULE ChatRoom -----------------------------
(***************************************************************************)
(* The chat server (src/network/server.cpp): chat_room, the chat_sessions  *)
(* that take part in it, and chat_server, which accepts them.  Everything  *)
(* runs in handlers of one io_context on one thread; what interleaves is   *)
(* the order of the handlers, and the clients.                             *)
(*                                                                         *)
(* A client is what the sessions see of it: a stream of messages, perhaps  *)
(* one whose header decode_header() refuses, and an end, perhaps in the    *)
(* middle of a message.  When a client is gone, writes to it may fail      *)
(* before everything it had sent has been read.                            *)
(***************************************************************************)
EXTENDS Naturals, Sequences

CONSTANTS Sessions,    \* sessions that may be accepted
          MaxRecent,   \* max_recent_msgs
          MaxSay       \* bound of the model: messages of one client

ASSUME RecentAssumption == MaxRecent \in Nat
ASSUME SayAssumption == MaxSay \in [Sessions -> Nat]

VARIABLES accepted,      \* sessions created so far
          gone,          \* sessions whose client has closed its end
          said,          \* log of the messages each client sent
          wire,          \* what each client sent and its session has not read
          reading,       \* the async_read of a session: header, body, none
          participants,  \* participants_
          recent,        \* recent_msgs_
          writeQ,        \* write_msgs_ of each session
          writing,       \* has the session an async_write outstanding?
          log,           \* log of the messages given to chat_room::deliver
          joinedAt,      \* length of that log when the session joined
          out            \* log of the messages written to each client

vars == <<accepted, gone, said, wire, reading, participants, recent, writeQ,
          writing, log, joinedAt, out>>

\* The n-th message of a client.
Msg == UNION {{s} \X (1..MaxSay[s]) : s \in Sessions}

\* What goes over the wire: a message, and whether its header is accepted.
Frame == [msg : Msg, ok : BOOLEAN]

Init == /\ accepted = {}
        /\ gone = {}
        /\ said = [s \in Sessions |-> <<>>]
        /\ wire = [s \in Sessions |-> <<>>]
        /\ reading = [s \in Sessions |-> "none"]
        /\ participants = {}
        /\ recent = <<>>
        /\ writeQ = [s \in Sessions |-> <<>>]
        /\ writing = [s \in Sessions |-> FALSE]
        /\ log = <<>>
        /\ joinedAt = [s \in Sessions |-> 0]
        /\ out = [s \in Sessions |-> <<>>]

-----------------------------------------------------------------------------
(* The clients. *)

Say(s) == /\ s \notin gone
          /\ Len(said[s]) < MaxSay[s]
          /\ LET m == <<s, Len(said[s]) + 1>>
             IN  /\ said' = [said EXCEPT ![s] = Append(@, m)]
                 /\ \E ok \in BOOLEAN :
                      wire' = [wire EXCEPT ![s] = Append(@, [msg |-> m, ok |-> ok])]
          /\ UNCHANGED <<accepted, gone, reading, participants, recent, writeQ,
                         writing, log, joinedAt, out>>

Hangup(s) == /\ s \notin gone
             /\ gone' = gone \cup {s}
             /\ UNCHANGED <<accepted, said, wire, reading, participants, recent,
                            writeQ, writing, log, joinedAt, out>>

-----------------------------------------------------------------------------
(* chat_room *)

\* Mutant: the newest message is dropped.
TrimNewest(q) == IF Len(q) > MaxRecent THEN SubSeq(q, 1, MaxRecent) ELSE q

\* The last MaxRecent messages of a queue.
Trim(q) == IF Len(q) > MaxRecent
           THEN SubSeq(q, Len(q) - MaxRecent + 1, Len(q))
           ELSE q

\* join(): the participant gets the recent messages in its write queue; the
\* first of them starts its do_write.
Join(s) == /\ participants' = participants \cup {s}
           /\ writeQ' = [writeQ EXCEPT ![s] = @ \o recent]
           /\ writing' = [writing EXCEPT ![s] = @ \/ recent # <<>>]
           /\ joinedAt' = [joinedAt EXCEPT ![s] = Len(log)]

\* Mutant: the session stays in the room.
LeaveNot(s) == UNCHANGED participants

Leave(s) == participants' = participants \ {s}

\* Mutant: the message is queued but no write is started.
DeliverIdle(m) ==
    /\ log' = Append(log, m)
    /\ recent' = Trim(Append(recent, m))
    /\ writeQ' = [s \in Sessions |-> IF s \in participants
                                     THEN Append(writeQ[s], m) ELSE writeQ[s]]
    /\ UNCHANGED writing

\* deliver(): remember the message, drop what is too old, and queue it with
\* every participant; a queue that was empty starts its do_write.
Deliver(m) ==
    /\ log' = Append(log, m)
    /\ recent' = Trim(Append(recent, m))
    /\ writeQ' = [s \in Sessions |-> IF s \in participants
                                     THEN Append(writeQ[s], m) ELSE writeQ[s]]
    /\ writing' = [s \in Sessions |-> writing[s] \/ (s \in participants /\ writeQ[s] = <<>>)]

-----------------------------------------------------------------------------
(* chat_server and chat_session *)

\* do_accept: a new session joins the room and reads its first header.
Accept(s) ==
    /\ s \notin accepted
    /\ accepted' = accepted \cup {s}
    /\ Join(s)
    /\ reading' = [reading EXCEPT ![s] = "header"]
    /\ UNCHANGED <<gone, said, wire, recent, log, out>>

ReadHeader(s) ==
    /\ reading[s] = "header" /\ wire[s] # <<>>
    /\ \/ /\ Head(wire[s]).ok
          /\ reading' = [reading EXCEPT ![s] = "body"]
          /\ UNCHANGED participants
       \/ /\ ~Head(wire[s]).ok
          /\ reading' = [reading EXCEPT ![s] = "none"]
          /\ Leave(s)
    /\ UNCHANGED <<accepted, gone, said, wire, recent, writeQ, writing, log,
                   joinedAt, out>>

\* The message goes to the room, whether or not the session is still in it.
ReadBody(s) ==
    /\ reading[s] = "body" /\ wire[s] # <<>>
    /\ Deliver(Head(wire[s]).msg)
    /\ wire' = [wire EXCEPT ![s] = Tail(@)]
    /\ reading' = [reading EXCEPT ![s] = "header"]
    /\ UNCHANGED <<accepted, gone, said, participants, joinedAt, out>>

\* The client has closed: the stream has ended between two messages, or it
\* ends within the last one.
ReadFailed(s) ==
    /\ s \in gone
    /\ \/ reading[s] = "header" /\ Len(wire[s]) <= 1
       \/ reading[s] = "body" /\ Len(wire[s]) = 1
    /\ reading' = [reading EXCEPT ![s] = "none"]
    /\ Leave(s)
    /\ UNCHANGED <<accepted, gone, said, wire, recent, writeQ, writing, log,
                   joinedAt, out>>

WriteDone(s) ==
    /\ writing[s]
    /\ out' = [out EXCEPT ![s] = Append(@, Head(writeQ[s]))]
    /\ writeQ' = [writeQ EXCEPT ![s] = Tail(@)]
    /\ writing' = [writing EXCEPT ![s] = Tail(writeQ[s]) # <<>>]
    /\ UNCHANGED <<accepted, gone, said, wire, reading, participants, recent,
                   log, joinedAt>>

\* Mutant: the message that could not be written is dropped.
WriteFailedDrops(s) ==
    /\ writing[s] /\ s \in gone
    /\ writing' = [writing EXCEPT ![s] = FALSE]
    /\ writeQ' = [writeQ EXCEPT ![s] = Tail(@)]
    /\ Leave(s)
    /\ UNCHANGED <<accepted, gone, said, wire, reading, recent, log, joinedAt, out>>

\* The session leaves; its queue keeps the message, its read stays pending.
WriteFailed(s) ==
    /\ writing[s] /\ s \in gone
    /\ writing' = [writing EXCEPT ![s] = FALSE]
    /\ Leave(s)
    /\ UNCHANGED <<accepted, gone, said, wire, reading, recent, writeQ, log,
                   joinedAt, out>>

-----------------------------------------------------------------------------
Client(s) == Say(s) \/ Hangup(s)
Read(s) == ReadHeader(s) \/ ReadBody(s) \/ ReadFailed(s)
Write(s) == WriteDone(s) \/ WriteFailed(s)

Next == \E s \in Sessions : Client(s) \/ Accept(s) \/ Read(s) \/ Write(s)

Spec == Init /\ [][Next]_vars

\* io_context runs what is ready; clients do as they like.
Fairness == \A s \in Sessions : WF_vars(Accept(s)) /\ WF_vars(Read(s)) /\ WF_vars(Write(s))

FairSpec == Spec /\ Fairness
=============================================================================
