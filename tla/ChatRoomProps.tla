---------------------------- MODULE ChatRoomProps --------------------------
(* What the chat room must guarantee. *)
EXTENDS ChatRoom, Functions, SeqFilter

TypeOK ==
    /\ accepted \subseteq Sessions
    /\ gone \subseteq Sessions
    /\ said \in [Sessions -> Seq(Msg)]
    /\ wire \in [Sessions -> Seq(Frame)]
    /\ reading \in [Sessions -> {"none", "header", "body"}]
    /\ participants \subseteq accepted
    /\ recent \in Seq(Msg) /\ Len(recent) <= MaxRecent
    /\ writeQ \in [Sessions -> Seq(Msg)]
    /\ writing \in [Sessions -> BOOLEAN]
    /\ log \in Seq(Msg)
    /\ joinedAt \in [Sessions -> Nat]
    /\ out \in [Sessions -> Seq(Msg)]

\* How many messages of the log a session that joined at length n missed.
Missed(n) == IF n > MaxRecent THEN n - MaxRecent ELSE 0

\* What a session has been given, written or still queued.
Given(s) == out[s] \o writeQ[s]

\* A participant gets the recent messages and then every later one: a
\* stretch of the room's log without gap, repetition or reordering where
\* the replay of join() meets the live messages of deliver().
HistoryThenLive ==
    \A s \in participants : Given(s) = SubSeq(log, Missed(joinedAt[s]) + 1, Len(log))

\* A session that has left was given such a stretch up to when it left, and
\* gets nothing afterwards.
StretchAfterLeaving ==
    \A s \in accepted :
        LET first == Missed(joinedAt[s]) + 1
            last == Missed(joinedAt[s]) + Len(Given(s))
        IN  last <= Len(log) /\ Given(s) = SubSeq(log, first, last)

\* deliver() starts a write only for a session whose queue is empty, and a
\* failed write leaves the queue as it is.  So a participant with messages
\* queued must have a write outstanding, or it would be mute for ever.
NoMuteParticipant ==
    \A s \in participants : writeQ[s] # <<>> => writing[s]

\* A write is outstanding only while its buffer, the front of write_msgs_,
\* is there.
WriteHasBuffer == \A s \in Sessions : writing[s] => writeQ[s] # <<>>

\* The messages of a client that reached the room.
Published(s) == Kept(log, {m \in Msg : m[1] = s})

TotalSay == FoldFunction(LAMBDA a, b : a + b, 0, MaxSay)

\* A participant is written every message of the room, or leaves.
EveryoneHears ==
    \A s \in Sessions : \A n \in 1..TotalSay :
        (s \in participants /\ Len(log) >= n)
        ~> (Missed(joinedAt[s]) + Len(out[s]) >= n \/ s \notin participants)

\* A session whose client is gone leaves the room.
GoneLeaves == \A s \in Sessions : (s \in gone) ~> (s \notin participants)
=============================================================================
