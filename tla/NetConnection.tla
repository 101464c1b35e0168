--------------------------- MODULE NetConnection ---------------------------
(***************************************************************************)
(* connection<T> (net_connection.hpp): the two ends of one TCP connection  *)
(* of the message framework, from async_accept / async_connect on.  Both   *)
(* ends run the same class; each has its own io_context, run by one        *)
(* thread, so the handlers of an end never overlap, while the two ends,    *)
(* their applications and the network interleave freely.                   *)
(*                                                                         *)
(* What goes over the wire is a sequence of tokens.  A handshake word and  *)
(* a message header are both 8 bytes, so a read of either kind takes       *)
(* whichever of the two comes next; a body is what follows the header of   *)
(* a message of size > 0.  An async_write is outstanding until the kernel  *)
(* has taken its bytes (Transmit) and its handler has run; an async_read   *)
(* until its bytes have come (Arrive) and its handler has run.             *)
(***************************************************************************)
EXTENDS Naturals, Sequences

CONSTANTS Msg,        \* messages the applications build
          Sized,      \* those whose header.size is > 0
          NoMsg,      \* the initial m_msgTemporaryIn, and an empty body
          Word,       \* 8-byte handshake values
          Scramble,   \* scramble(), a function on Word
          Nonce,      \* the server's m_nHandshakeOut
          Greeting,   \* what OnClientConnect sends
          MaxSend,    \* bound of the model: messages each end sends
          EarlySend,  \* does the client send before it has received anything?
          Faults      \* may the network fail and the applications hang up?

ASSUME MsgAssumption == Sized \subseteq Msg /\ NoMsg \notin Msg
ASSUME HandshakeAssumption == Nonce \in Word /\ Scramble \in [Word -> Word]
ASSUME GreetingAssumption == Greeting \in Seq(Msg)
ASSUME ModeAssumption == EarlySend \in BOOLEAN /\ Faults \in BOOLEAN
End == {"server", "client"}
Peer(e) == IF e = "server" THEN "client" ELSE "server"

ASSUME SendBoundAssumption == MaxSend \in [End -> Nat]

\* Tokens: a handshake word, the header or the body of a message.
WordToken(w) == <<"word", w>>
Header(m) == <<"hdr", m>>
Body(m) == <<"body", m>>
Token == ({"word"} \X Word) \cup ({"hdr", "body"} \X Msg)

\* What is posted to an end's io_context.
Post == ({"send"} \X Msg) \cup ({"close"} \X {NoMsg})

VARIABLES link,      \* the TCP connection: connecting, refused, up or lost
          begun,     \* has the accept / connect handler of the end run?
          open,      \* m_socket.is_open()
          posted,    \* lambdas posted by Send and Disconnect, not yet run
          outQ,      \* m_qMessagesOut
          wr,        \* async_writes of the end whose handler has not run
          wire,      \* tokens on their way to the end
          rd,        \* the async_read of the end whose handler has not run
          tmpIn,     \* m_msgTemporaryIn
          inQ,       \* log of m_qMessagesIn
          sent,      \* log of m_qMessagesOut
          validated  \* has OnClientValidated been called?

vars == <<link, begun, open, posted, outQ, wr, wire, rd, tmpIn, inQ, sent,
          validated>>

NoRead == [want |-> "none", got |-> <<>>]
ReadOf(what) == [want |-> what, got |-> <<>>]
WriteOf(t) == [tok |-> t, done |-> FALSE]

Init == /\ link = "connecting"
        /\ begun = [e \in End |-> FALSE]
        /\ open = [e \in End |-> TRUE]
        /\ posted = [e \in End |-> <<>>]
        /\ outQ = [e \in End |-> <<>>]
        /\ wr = [e \in End |-> <<>>]
        /\ wire = [e \in End |-> <<>>]
        /\ rd = [e \in End |-> NoRead]
        /\ tmpIn = [e \in End |-> [hdr |-> NoMsg, body |-> NoMsg]]
        /\ inQ = [e \in End |-> <<>>]
        /\ sent = [e \in End |-> <<>>]
        /\ validated = FALSE

\* The peer has closed its socket.
PeerGone(e) == ~open[Peer(e)]

\* m_socket.close(): what was coming is gone, operations not yet done fail.
Close(e) == /\ open' = [open EXCEPT ![e] = FALSE]
            /\ wire' = [wire EXCEPT ![e] = <<>>]

-----------------------------------------------------------------------------
(* The network. *)

Establish == /\ link = "connecting"
             /\ open["client"]
             /\ link' = "up"
             /\ UNCHANGED <<begun, open, posted, outQ, wr, wire, rd, tmpIn,
                            inQ, sent, validated>>

\* No endpoint takes the connection: the connect handler does nothing.
Refuse == /\ Faults
          /\ link = "connecting"
          /\ link' = "refused"
          /\ UNCHANGED <<begun, open, posted, outQ, wr, wire, rd, tmpIn, inQ,
                         sent, validated>>

\* The TCP connection breaks; what is on the way is lost.  This is also what
\* happens when a socket is closed with data unread.
Break == /\ Faults
         /\ link = "up"
         /\ link' = "lost"
         /\ wire' = [e \in End |-> <<>>]
         /\ UNCHANGED <<begun, open, posted, outQ, wr, rd, tmpIn, inQ, sent,
                        validated>>

\* The kernel takes the bytes of the oldest write it has not taken yet.
Transmit(e) ==
    /\ link = "up"
    /\ open[e]
    /\ \E i \in 1..Len(wr[e]) :
          /\ ~wr[e][i].done
          /\ \A j \in 1..(i - 1) : wr[e][j].done
          /\ wr' = [wr EXCEPT ![e][i].done = TRUE]
          /\ wire' = IF PeerGone(e) THEN wire
                     ELSE [wire EXCEPT ![Peer(e)] = Append(@, wr[e][i].tok)]
    /\ UNCHANGED <<link, begun, open, posted, outQ, rd, tmpIn, inQ, sent,
                   validated>>

\* The bytes the pending read waits for have come.
Arrive(e) ==
    /\ open[e]
    /\ rd[e].want # "none" /\ rd[e].got = <<>>
    /\ wire[e] # <<>>
    /\ rd' = [rd EXCEPT ![e].got = <<Head(wire[e])>>]
    /\ wire' = [wire EXCEPT ![e] = Tail(@)]
    /\ UNCHANGED <<link, begun, open, posted, outQ, wr, tmpIn, inQ, sent,
                   validated>>

-----------------------------------------------------------------------------
(* The applications: Send and Disconnect post to the io_context. *)

SendsAsked(e) == Len(sent[e]) + Len(SelectSeq(posted[e], LAMBDA p : p[1] = "send"))

AppSend(e) ==
    /\ SendsAsked(e) < MaxSend[e]
    /\ e = "server" => begun[e]
    /\ e = "client" /\ ~EarlySend => inQ[e] # <<>>
    /\ \E m \in Msg : posted' = [posted EXCEPT ![e] = Append(@, <<"send", m>>)]
    /\ UNCHANGED <<link, begun, open, outQ, wr, wire, rd, tmpIn, inQ, sent,
                   validated>>

\* The last conjunct is a bound of the model: one close posted at a time.
AppDisconnect(e) ==
    /\ Faults
    /\ e = "server" => begun[e]
    /\ open[e]
    /\ \A i \in 1..Len(posted[e]) : posted[e][i][1] # "close"
    /\ posted' = [posted EXCEPT ![e] = Append(@, <<"close", NoMsg>>)]
    /\ UNCHANGED <<link, begun, open, outQ, wr, wire, rd, tmpIn, inQ, sent,
                   validated>>

\* Mutant: every Send starts a write.
StartsAlways(e) == TRUE

\* !bWritingMessage
StartsWrite(e) == outQ[e] = <<>>

\* The lambda of Send: only the message that finds the queue empty starts a
\* write; the others are written by the handlers of the writes before them.
RunSend(e) ==
    /\ posted[e] # <<>> /\ Head(posted[e])[1] = "send"
    /\ LET m == Head(posted[e])[2]
       IN  /\ outQ' = [outQ EXCEPT ![e] = Append(@, m)]
           /\ sent' = [sent EXCEPT ![e] = Append(@, m)]
           /\ wr' = IF StartsWrite(e)
                    THEN [wr EXCEPT ![e] = Append(@, WriteOf(Header(m)))]
                    ELSE wr
    /\ posted' = [posted EXCEPT ![e] = Tail(@)]
    /\ UNCHANGED <<link, begun, open, wire, rd, tmpIn, inQ, validated>>

\* The lambda of Disconnect.
RunClose(e) ==
    /\ posted[e] # <<>> /\ Head(posted[e])[1] = "close"
    /\ Close(e)
    /\ posted' = [posted EXCEPT ![e] = Tail(@)]
    /\ UNCHANGED <<link, begun, outQ, wr, rd, tmpIn, inQ, sent, validated>>

-----------------------------------------------------------------------------
(* Accept, connect and the handshake. *)

\* Mutant: the handshake value is never written.
WriteNothing(e, w) == UNCHANGED wr

\* Mutant: the value goes back as it came, not scrambled.
WriteUnscrambled(e, w) == wr' = [wr EXCEPT ![e] = Append(@, WriteOf(WordToken(Nonce)))]

\* WriteValidation: issue the write.
WriteValidation(e, w) == wr' = [wr EXCEPT ![e] = Append(@, WriteOf(WordToken(w)))]

\* Mutant: straight to ReadHeader.
ReadNoValidation(e) == rd' = [rd EXCEPT ![e] = ReadOf("hdr")]

\* ReadValidation: issue the read.
ReadValidation(e) == rd' = [rd EXCEPT ![e] = ReadOf("word")]

\* The accept handler of the server: OnClientConnect, then ConnectToClient,
\* which is WriteValidation and ReadValidation.
ConnectToClient ==
    /\ link = "up"
    /\ ~begun["server"]
    /\ begun' = [begun EXCEPT !["server"] = TRUE]
    /\ posted' = [posted EXCEPT !["server"] =
                     [i \in 1..Len(Greeting) |-> <<"send", Greeting[i]>>]]
    /\ WriteValidation("server", Nonce)
    /\ ReadValidation("server")
    /\ UNCHANGED <<link, open, outQ, wire, tmpIn, inQ, sent, validated>>

\* The connect handler of the client without error.
ConnectToServer ==
    /\ link \in {"up", "lost"}
    /\ open["client"]
    /\ ~begun["client"]
    /\ begun' = [begun EXCEPT !["client"] = TRUE]
    /\ ReadValidation("client")
    /\ UNCHANGED <<link, open, posted, outQ, wr, wire, tmpIn, inQ, sent,
                   validated>>

\* The bytes of the pending read are there.
ReadDone(e, what) == rd[e].want = what /\ rd[e].got # <<>>

\* ... and they are what the handler takes them for.  FramingAligned shows
\* that this second conjunct never holds a handler back.
ReadParsed(e, what) == ReadDone(e, what) /\ rd[e].got[1][1] = what

\* ReadValidation at the server: the answer is right, or the socket closes.
CheckValidation ==
    /\ ReadDone("server", "word")
    /\ IF rd["server"].got = <<WordToken(Scramble[Nonce])>>
       THEN /\ validated' = TRUE
            /\ rd' = [rd EXCEPT !["server"] = ReadOf("hdr")]
            /\ UNCHANGED <<open, wire>>
       ELSE /\ Close("server")
            /\ rd' = [rd EXCEPT !["server"] = NoRead]
            /\ UNCHANGED validated
    /\ UNCHANGED <<link, begun, posted, outQ, wr, tmpIn, inQ, sent>>

\* ReadValidation at the client: scramble what came and write it back.
AnswerValidation ==
    /\ ReadParsed("client", "word")
    /\ WriteValidation("client", Scramble[rd["client"].got[1][2]])
    /\ rd' = [rd EXCEPT !["client"] = NoRead]
    /\ UNCHANGED <<link, begun, open, posted, outQ, wire, tmpIn, inQ, sent,
                   validated>>

-----------------------------------------------------------------------------
(* The write handlers without error. *)

WriteDone(e, kind) == /\ wr[e] # <<>>
                      /\ Head(wr[e]).done
                      /\ Head(wr[e]).tok[1] = kind

\* Mutants: the queue is not popped; the next message is not written.
NextMessageAgain(e) ==
    /\ outQ' = outQ
    /\ wr' = [wr EXCEPT ![e] = Append(Tail(@), WriteOf(Header(Head(outQ[e]))))]

NextMessageIdle(e) ==
    /\ outQ' = [outQ EXCEPT ![e] = Tail(@)]
    /\ wr' = [wr EXCEPT ![e] = Tail(@)]

\* pop_front(), then WriteHeader() of the next message if there is one.
NextMessage(e) ==
    LET rest == Tail(outQ[e])
    IN  /\ outQ' = [outQ EXCEPT ![e] = rest]
        /\ wr' = [wr EXCEPT ![e] =
                     IF rest = <<>> THEN Tail(@)
                     ELSE Append(Tail(@), WriteOf(Header(Head(rest))))]

WriteValidationDone(e) ==
    /\ WriteDone(e, "word")
    /\ wr' = [wr EXCEPT ![e] = Tail(@)]
    /\ rd' = IF e = "client" THEN [rd EXCEPT ![e] = ReadOf("hdr")] ELSE rd
    /\ UNCHANGED <<link, begun, open, posted, outQ, wire, tmpIn, inQ, sent,
                   validated>>

WriteHeaderDone(e) ==
    /\ WriteDone(e, "hdr")
    /\ \/ /\ Head(outQ[e]) \in Sized
          /\ wr' = [wr EXCEPT ![e] = Append(Tail(@), WriteOf(Body(Head(outQ[e]))))]
          /\ UNCHANGED outQ
       \/ /\ Head(outQ[e]) \notin Sized
          /\ NextMessage(e)
    /\ UNCHANGED <<link, begun, open, posted, wire, rd, tmpIn, inQ, sent,
                   validated>>

WriteBodyDone(e) ==
    /\ WriteDone(e, "body")
    /\ NextMessage(e)
    /\ UNCHANGED <<link, begun, open, posted, wire, rd, tmpIn, inQ, sent,
                   validated>>

-----------------------------------------------------------------------------
(* The read handlers without error. *)

\* Mutant: push_front in place of push_back.
AddToIncomingFront(e, msg) ==
    /\ inQ' = [inQ EXCEPT ![e] = <<msg>> \o @]
    /\ rd' = [rd EXCEPT ![e] = ReadOf("hdr")]

\* AddToIncomingMessageQueue, which goes back to ReadHeader.
AddToIncoming(e, msg) ==
    /\ inQ' = [inQ EXCEPT ![e] = Append(@, msg)]
    /\ rd' = [rd EXCEPT ![e] = ReadOf("hdr")]

\* Mutants: the bytes read are put elsewhere.
HeaderAsBefore(e, m) == tmpIn[e]
BodyAsBefore(e, m) == tmpIn[e]

\* m_msgTemporaryIn with a header, a body read into it.
WithHeader(e, m) == [tmpIn[e] EXCEPT !.hdr = m]
WithBody(e, m) == [tmpIn[e] EXCEPT !.body = m]

\* m_msgTemporaryIn is reused: when the size is 0 its body is not touched.
ReadHeaderDone(e) ==
    /\ ReadParsed(e, "hdr")
    /\ LET m == rd[e].got[1][2]
       IN  /\ tmpIn' = [tmpIn EXCEPT ![e] = WithHeader(e, m)]
           /\ \/ /\ m \in Sized
                 /\ rd' = [rd EXCEPT ![e] = ReadOf("body")]
                 /\ UNCHANGED inQ
              \/ /\ m \notin Sized
                 /\ AddToIncoming(e, WithHeader(e, m))
    /\ UNCHANGED <<link, begun, open, posted, outQ, wr, wire, sent, validated>>

ReadBodyDone(e) ==
    /\ ReadParsed(e, "body")
    /\ LET m == rd[e].got[1][2]
       IN  /\ tmpIn' = [tmpIn EXCEPT ![e] = WithBody(e, m)]
           /\ AddToIncoming(e, WithBody(e, m))
    /\ UNCHANGED <<link, begun, open, posted, outQ, wr, wire, sent, validated>>

-----------------------------------------------------------------------------
(* The error branch of every handler closes the socket and starts nothing:  *)
(* the queue keeps what was being written.                                   *)

\* A write on a socket that is still connecting may fail or wait.
WriteFailed(e) ==
    /\ wr[e] # <<>> /\ ~Head(wr[e]).done
    /\ ~open[e] \/ link # "up" \/ PeerGone(e)
    /\ wr' = [wr EXCEPT ![e] = Tail(@)]
    /\ Close(e)
    /\ UNCHANGED <<link, begun, posted, outQ, rd, tmpIn, inQ, sent, validated>>

\* Mutant: the socket is not closed.
ReadFailedOpen(e) ==
    /\ rd[e].want # "none" /\ rd[e].got = <<>>
    /\ ~open[e] \/ link = "lost" \/ (PeerGone(e) /\ wire[e] = <<>>)
    /\ rd' = [rd EXCEPT ![e] = NoRead]
    /\ UNCHANGED <<link, begun, open, wire, posted, outQ, wr, tmpIn, inQ, sent,
                   validated>>

\* Closed here, broken, or all the peer wrote before it closed has been read.
ReadFailed(e) ==
    /\ rd[e].want # "none" /\ rd[e].got = <<>>
    /\ ~open[e] \/ link = "lost" \/ (PeerGone(e) /\ wire[e] = <<>>)
    /\ rd' = [rd EXCEPT ![e] = NoRead]
    /\ Close(e)
    /\ UNCHANGED <<link, begun, posted, outQ, wr, tmpIn, inQ, sent, validated>>

-----------------------------------------------------------------------------
Network == \/ Establish \/ Refuse \/ Break
           \/ \E e \in End : Transmit(e) \/ Arrive(e)

Application(e) == AppSend(e) \/ AppDisconnect(e)

Posted(e) == RunSend(e) \/ RunClose(e)

Handshake == ConnectToClient \/ ConnectToServer \/ CheckValidation \/ AnswerValidation

WriteHandler(e) == \/ WriteValidationDone(e) \/ WriteHeaderDone(e)
                   \/ WriteBodyDone(e) \/ WriteFailed(e)

ReadHandler(e) == ReadHeaderDone(e) \/ ReadBodyDone(e) \/ ReadFailed(e)

Next == \/ Network
        \/ Handshake
        \/ \E e \in End : \/ Application(e)
                          \/ Posted(e)
                          \/ WriteHandler(e)
                          \/ ReadHandler(e)

Spec == Init /\ [][Next]_vars

(***************************************************************************)
(* io_context runs every handler that is ready, in the order they became   *)
(* ready, and TCP makes progress until it breaks.  Nothing obliges an      *)
(* application to send or hang up, or the network to fail.                 *)
(***************************************************************************)
Fairness == /\ WF_vars(Establish \/ Refuse)
            /\ WF_vars(ConnectToClient)
            /\ WF_vars(ConnectToServer)
            /\ WF_vars(CheckValidation)
            /\ WF_vars(AnswerValidation)
            /\ \A e \in End : /\ WF_vars(Transmit(e))
                              /\ WF_vars(Arrive(e))
                              /\ WF_vars(Posted(e))
                              /\ WF_vars(WriteHandler(e))
                              /\ WF_vars(ReadHandler(e))

FairSpec == Spec /\ Fairness
=============================================================================
