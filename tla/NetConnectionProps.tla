------------------------- MODULE NetConnectionProps ------------------------
(* What the two ends of a connection must guarantee. *)
EXTENDS NetConnection

Write == [tok : Token, done : BOOLEAN]
Read == [want : {"none", "word", "hdr", "body"},
         got : {<<>>} \cup {<<t>> : t \in Token}]
Delivery == [hdr : Msg, body : Msg \cup {NoMsg}]

TypeOK ==
    /\ link \in {"connecting", "refused", "up", "lost"}
    /\ begun \in [End -> BOOLEAN]
    /\ open \in [End -> BOOLEAN]
    /\ posted \in [End -> Seq(Post)]
    /\ outQ \in [End -> Seq(Msg)]
    /\ wr \in [End -> Seq(Write)]
    /\ wire \in [End -> Seq(Token)]
    /\ rd \in [End -> Read]
    /\ tmpIn \in [End -> [hdr : Msg \cup {NoMsg}, body : Msg \cup {NoMsg}]]
    /\ inQ \in [End -> Seq(Delivery)]
    /\ sent \in [End -> Seq(Msg)]
    /\ validated \in BOOLEAN

(***************************************************************************)
(* The write pump.                                                         *)
(***************************************************************************)
IsMessageWrite(w) == w.tok[1] # "word"

HasMessageWrite(ws) == \E i \in 1..Len(ws) : IsMessageWrite(ws[i])

\* Among the writes ws at most one is of a message, the first one of q.
WritesOnlyFront(ws, q) ==
    \A i \in 1..Len(ws) : IsMessageWrite(ws[i]) =>
        /\ q # <<>> /\ ws[i].tok[2] = Head(q)
        /\ \A j \in 1..Len(ws) : IsMessageWrite(ws[j]) => i = j

\* At most one write of a message is outstanding, and it is of the front of
\* m_qMessagesOut: the handlers may use front(), headers and bodies of two
\* messages never interleave, the buffer outlives the write.
PumpWritesFront == \A e \in End : WritesOnlyFront(wr[e], outQ[e])

\* Send starts a write only for a message that finds the queue empty.  So a
\* queue that is not empty on an open socket must have a write outstanding,
\* or nothing would ever be written again.
PumpAlive == \A e \in End : open[e] /\ outQ[e] # <<>> => HasMessageWrite(wr[e])

(***************************************************************************)
(* Framing and the handshake.                                              *)
(***************************************************************************)

\* A read finds what it was issued for: the client's ReadValidation a
\* handshake word, ReadHeader a header, ReadBody the body of that header's
\* message.  (The server's ReadValidation compares whatever comes.)
FramingAligned ==
    \A e \in End : rd[e].got # <<>> =>
        /\ rd[e].want # "none"
        /\ rd[e].want = "word" /\ e = "client" => rd[e].got[1][1] = "word"
        /\ rd[e].want = "hdr" => rd[e].got[1][1] = "hdr"
        /\ rd[e].want = "body" => rd[e].got = <<Body(tmpIn[e].hdr)>>

\* The first 8 bytes the client reads are the challenge, although
\* OnClientConnect calls Send before ConnectToClient writes it.
ServerChallengesFirst ==
    ReadDone("client", "word") => rd["client"].got = <<WordToken(Nonce)>>

\* A client is turned away only because it sent too early: what the server
\* takes for the answer is the right one, or the header of the first message
\* the client put in m_qMessagesOut.  (Send looks at is_open() only, and
\* SimpleClient pings on a key press, so the header may overtake the word.)
RefusedOnlyIfEarly ==
    ReadDone("server", "word") =>
        \/ rd["server"].got = <<WordToken(Scramble[Nonce])>>
        \/ sent["client"] # <<>> /\ rd["server"].got = <<Header(sent["client"][1])>>

\* The server's application gets no message from a client that has not
\* answered the challenge.
NoDeliveryBeforeValidation == inQ["server"] # <<>> => validated

(***************************************************************************)
(* Messages.                                                               *)
(***************************************************************************)
Headers(e) == [i \in 1..Len(inQ[e]) |-> inQ[e][i].hdr]

\* Each direction is a first-in first-out channel from m_qMessagesOut of one
\* end to m_qMessagesIn of the other, whatever fails: what is delivered is a
\* prefix of what was sent.
ToServer == INSTANCE FifoChannel
              WITH Item <- Msg, sent <- sent["client"], got <- Headers("server")
ToClient == INSTANCE FifoChannel
              WITH Item <- Msg, sent <- sent["server"], got <- Headers("client")

ServerChannel == ToServer!Spec
ClientChannel == ToClient!Spec

\* A message with a body is delivered with its own body.
SizedMessagesWhole ==
    \A e \in End : \A i \in 1..Len(inQ[e]) :
        inQ[e][i].hdr \in Sized => inQ[e][i].body = inQ[e][i].hdr

\* What is put in m_qMessagesIn is the message that was received ("Once a
\* full message is received, add it to the incoming queue",
\* net_connection.hpp:203).  Fails for a message without a body: it is
\* delivered with the body of the message before it.
DeliveredWhole ==
    \A e \in End : \A i \in 1..Len(inQ[e]) :
        inQ[e][i].body = IF inQ[e][i].hdr \in Sized THEN inQ[e][i].hdr ELSE NoMsg

(***************************************************************************)
(* Progress.                                                               *)
(***************************************************************************)
Down == link # "up" \/ \E e \in End : ~open[e]

\* Every message of m_qMessagesOut is delivered unless the connection goes
\* down.
EventuallyDelivered ==
    \A e \in End : \A n \in 1..MaxSend[e] :
        (Len(sent[e]) >= n) ~> (Len(inQ[Peer(e)]) >= n \/ Down)

\* When one end closes, the other end notices and closes too, in whatever
\* phase it is: no end is left open with nothing outstanding.
CloseSpreads ==
    \A e \in End : (begun[Peer(e)] /\ ~open[e]) ~> ~open[Peer(e)]
=============================================================================
