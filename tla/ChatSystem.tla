----------------------------- MODULE ChatSystem -----------------------------
(***************************************************************************)
(* The chat room with a chat_client at one of its sessions; at the others  *)
(* is any client that stays.                                               *)
(***************************************************************************)
EXTENDS ChatClient, ChatRoomProps

SystemInit == Init /\ ClientInit

Others(s) == Say(s) \/ Accept(s)

SystemNext == \/ ClientStep
              \/ /\ \/ \E s \in Sessions \ {Own} : Others(s)
                    \/ c.met /\ Accept(Own)
                    \/ \E s \in Sessions : Read(s) \/ Write(s)
                 /\ UNCHANGED c

systemVars == <<vars, c>>

SystemSpec == SystemInit /\ [][SystemNext]_systemVars

(***************************************************************************)
(* Both programs run the handlers that are ready, time passes, and TCP     *)
(* makes progress; nobody has to type, hang up or answer a connect.        *)
(***************************************************************************)
SystemFairness ==
    /\ \A s \in Sessions : WF_systemVars(Read(s) /\ UNCHANGED c) /\ WF_systemVars(Write(s) /\ UNCHANGED c)
    /\ WF_systemVars(c.met /\ Accept(Own) /\ UNCHANGED c)
    /\ WF_systemVars(RunPosted) /\ WF_systemVars(HandleConnect) /\ WF_systemVars(WriteDone_)
    /\ WF_systemVars(WriteFailed_) /\ WF_systemVars(CheckDeadline)

FairSystem == SystemSpec /\ SystemFairness

-----------------------------------------------------------------------------
\* Types of the room (ChatRoomProps) and of the client.
ClientTypeOK ==
    c \in [ep : 1..(Endpoints + 1), conn : {"trying", "answered", "refused", "up", "over"},
           open : BOOLEAN, met : BOOLEAN, deadline : {"armed", "max"},
           queue : Seq(1..MaxSay[Own]), writing : {"no", "yes", "failed"},
           reading : BOOLEAN, posted : Seq(1..MaxSay[Own]), closing : BOOLEAN,
           typed : 0..MaxSay[Own], heard : Nat, running : BOOLEAN, early : BOOLEAN]

SystemTypeOK == TypeOK /\ ClientTypeOK

\* A connected client with messages queued has a write outstanding, or it is
\* mute for ever, because write() only starts do_write when the queue is
\* empty.  The exception is a client whose write failed while it had no
\* connection: handle_connect does not start the write again.
TalksUnlessEarly ==
    c.conn = "up" /\ c.open /\ ~c.early /\ c.queue # <<>> => c.writing # "no"

\* What the user types reaches the room in the order of typing, each message
\* at most once, through the client's queue, the connection and the session.
Typed == [n \in 1..c.typed |-> <<Own, n>>]
EndToEnd == INSTANCE FifoChannel WITH Item <- Msg, sent <- Typed, got <- Published(Own)
TypedToRoom == EndToEnd!Spec

\* The deadline is one "for the connect operation" (client.cpp:76): it does
\* not close a connection that was made.  Fails: nobody cancels the timer.
DeadlineForConnectOnly ==
    [][CheckDeadline /\ c.conn = "up" /\ c.open => c'.open]_systemVars
=============================================================================
