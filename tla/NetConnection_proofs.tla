------------------------ MODULE NetConnection_proofs -----------------------
(***************************************************************************)
(* Proofs about a connection for any messages, any greeting, any number of *)
(* sends, early or not, with or without faults.                            *)
(***************************************************************************)
EXTENDS NetFraming, SequenceTheorems, TLAPS

(***************************************************************************)
(* The inductive invariant adds to the properties what the accept handler  *)
(* and the server's reads presuppose.                                      *)
(***************************************************************************)
NothingBeforeAccept ==
    ~begun["server"] => /\ outQ["server"] = <<>>
                        /\ wr["server"] = <<>>
                        /\ posted["server"] = <<>>

BodyFollowsHeader ==
    \A e \in End : rd[e].want = "body" => tmpIn[e].hdr \in Sized

MessagesAfterValidation == rd["server"].want \in {"hdr", "body"} => validated

IInv == /\ TypeOK
        /\ PumpWritesFront
        /\ PumpAlive
        /\ NothingBeforeAccept
        /\ BodyFollowsHeader
        /\ MessagesAfterValidation
        /\ NoDeliveryBeforeValidation

(***************************************************************************)
(* Lemmas about outstanding writes.                                        *)
(***************************************************************************)

\* A handler that ran leaves the other writes as they were.
LEMMA TailKeepsFront ==
    ASSUME NEW ws \in Seq(Write), NEW q, ws # <<>>, WritesOnlyFront(ws, q)
    PROVE  /\ WritesOnlyFront(Tail(ws), q)
           /\ IsMessageWrite(Head(ws)) => ~HasMessageWrite(Tail(ws))
           /\ ~IsMessageWrite(Head(ws)) /\ HasMessageWrite(ws)
                 => HasMessageWrite(Tail(ws))
<1>1. /\ Tail(ws) \in Seq(Write) /\ Len(Tail(ws)) = Len(ws) - 1
      /\ Len(ws) \in Nat \ {0} /\ Len(Tail(ws)) \in Nat
      /\ Head(ws) = ws[1]
      /\ \A i \in 1..Len(Tail(ws)) : Tail(ws)[i] = ws[i + 1]
  BY HeadTailProperties, EmptySeq, LenProperties
<1>2. \A i \in 1..Len(Tail(ws)) : i + 1 \in 1..Len(ws)
  BY <1>1
<1>3. WritesOnlyFront(Tail(ws), q)
  BY <1>1, <1>2 DEF WritesOnlyFront
<1>4. ASSUME IsMessageWrite(Head(ws)), NEW i \in 1..Len(Tail(ws))
      PROVE  ~IsMessageWrite(Tail(ws)[i])
  BY <1>1, <1>2, <1>4 DEF WritesOnlyFront
<1>5. ASSUME ~IsMessageWrite(Head(ws)), HasMessageWrite(ws)
      PROVE  HasMessageWrite(Tail(ws))
  <2>1. PICK i \in 1..Len(ws) : IsMessageWrite(ws[i])
    BY <1>5 DEF HasMessageWrite
  <2>2. i # 1
    BY <1>1, <1>5, <2>1
  <2>3. i - 1 \in 1..Len(Tail(ws)) /\ Tail(ws)[i - 1] = ws[i]
    BY <1>1, <2>2
  <2>4. QED
    BY <2>1, <2>3 DEF HasMessageWrite
<1>6. QED
  BY <1>3, <1>4, <1>5 DEF HasMessageWrite

\* A handshake write does not disturb the message writes.
LEMMA AppendWord ==
    ASSUME NEW ws \in Seq(Write), NEW q, NEW x \in Write, ~IsMessageWrite(x)
    PROVE  /\ WritesOnlyFront(ws, q) => WritesOnlyFront(Append(ws, x), q)
           /\ HasMessageWrite(ws) => HasMessageWrite(Append(ws, x))
  BY AppendProperties, LenProperties DEF WritesOnlyFront, HasMessageWrite

\* A write of the front message may be added when no message is written.
LEMMA AppendFront ==
    ASSUME NEW ws \in Seq(Write), NEW q, NEW x \in Write, IsMessageWrite(x),
           ~HasMessageWrite(ws), q # <<>>, x.tok[2] = Head(q)
    PROVE  /\ WritesOnlyFront(Append(ws, x), q)
           /\ HasMessageWrite(Append(ws, x))
<1>1. /\ Len(ws) \in Nat /\ Len(Append(ws, x)) = Len(ws) + 1
      /\ \A i \in 1..Len(ws) : Append(ws, x)[i] = ws[i]
      /\ Append(ws, x)[Len(ws) + 1] = x
  BY AppendProperties, LenProperties
<1>2. \A i \in 1..Len(Append(ws, x)) :
          IsMessageWrite(Append(ws, x)[i]) => i = Len(ws) + 1
  BY <1>1 DEF HasMessageWrite
<1>3. QED
  BY <1>1, <1>2 DEF WritesOnlyFront, HasMessageWrite

\* Where no message is written, no message is written that is not the front.
LEMMA NoMessageNoFront ==
    ASSUME NEW ws, NEW q, ~HasMessageWrite(ws)
    PROVE  WritesOnlyFront(ws, q)
  BY DEF HasMessageWrite, WritesOnlyFront

\* Messages queued behind the front leave it the front.
LEMMA PushBehindFront ==
    ASSUME NEW ws, NEW q \in Seq(Msg), NEW m \in Msg, q # <<>>, WritesOnlyFront(ws, q)
    PROVE  WritesOnlyFront(ws, Append(q, m))
  BY AppendProperties, HeadTailAppend DEF WritesOnlyFront

\* The kernel taking the bytes of a write changes nothing of what it is of.
LEMMA TransmitKeepsWrites ==
    ASSUME NEW ws \in Seq(Write), NEW k \in 1..Len(ws), NEW q
    PROVE  LET vs == [ws EXCEPT ![k].done = TRUE]
           IN  /\ vs \in Seq(Write)
               /\ WritesOnlyFront(ws, q) => WritesOnlyFront(vs, q)
               /\ HasMessageWrite(ws) => HasMessageWrite(vs)
<1> DEFINE x == [ws[k] EXCEPT !.done = TRUE]
           vs == [ws EXCEPT ![k] = x]
<1>1. x \in Write /\ x.tok = ws[k].tok
  <2>1. ws[k] \in Write
    BY ElementOfSeq
  <2>2. QED
    BY <2>1 DEF Write
<1>2. /\ vs \in Seq(Write) /\ Len(vs) = Len(ws)
      /\ \A j \in 1..Len(ws) : vs[j] = IF j = k THEN x ELSE ws[j]
  BY <1>1, ExceptSeq
<1>3. \A j \in 1..Len(ws) : vs[j].tok = ws[j].tok
  BY <1>1, <1>2
<1>4. WritesOnlyFront(ws, q) => WritesOnlyFront(vs, q)
  BY <1>2, <1>3 DEF WritesOnlyFront, IsMessageWrite
<1>5. HasMessageWrite(ws) => HasMessageWrite(vs)
  BY <1>2, <1>3 DEF HasMessageWrite, IsMessageWrite
<1>6. QED
  BY <1>2, <1>4, <1>5

-----------------------------------------------------------------------------
(* Types. *)

LEMMA TokenTypes ==
    /\ \A w \in Word : WordToken(w) \in Token /\ WordToken(w)[1] = "word"
    /\ \A m \in Msg : /\ Header(m) \in Token /\ Header(m)[1] = "hdr"
                      /\ Body(m) \in Token /\ Body(m)[1] = "body"
                      /\ Header(m)[2] = m /\ Body(m)[2] = m
    /\ \A t \in Token : /\ t[1] = "word" => t[2] \in Word
                        /\ t[1] \in {"hdr", "body"} => t[2] \in Msg
    /\ \A t \in Token : WriteOf(t) \in Write /\ WriteOf(t).tok = t
  BY DEF Token, WordToken, Header, Body, WriteOf, Write

LEMMA ReadTypes ==
    /\ NoRead \in Read
    /\ \A what \in {"word", "hdr", "body"} : ReadOf(what) \in Read
    /\ \A r \in Read : r.got # <<>> => r.got[1] \in Token
  BY DEF NoRead, ReadOf, Read

LEMMA NoItems == ASSUME NEW S PROVE [e \in End |-> <<>>] \in [End -> Seq(S)]
<1>1. <<>> \in Seq(S)
  BY EmptySeq
<1>2. QED
  BY <1>1

LEMMA TypeInit == Init => TypeOK
<1> SUFFICES ASSUME Init PROVE TypeOK
  OBVIOUS
<1>1. /\ posted \in [End -> Seq(Post)] /\ outQ \in [End -> Seq(Msg)]
      /\ wr \in [End -> Seq(Write)] /\ wire \in [End -> Seq(Token)]
      /\ inQ \in [End -> Seq(Delivery)] /\ sent \in [End -> Seq(Msg)]
  BY NoItems DEF Init
<1>2. rd \in [End -> Read]
  BY ReadTypes DEF Init
<1>3. QED
  BY <1>1, <1>2 DEF Init, TypeOK

LEMMA TypeClose ==
    ASSUME TypeOK, NEW e \in End, Close(e)
    PROVE  open' \in [End -> BOOLEAN] /\ wire' \in [End -> Seq(Token)]
  BY DEF Close, TypeOK

LEMMA TypeNetwork == TypeOK /\ Network => TypeOK'
<1> SUFFICES ASSUME TypeOK, Network PROVE TypeOK'
  OBVIOUS
<1>1. CASE Establish \/ Refuse \/ Break
  <2>1. wire' \in [End -> Seq(Token)]
    <3>1. wire \in [End -> Seq(Token)]
      BY DEF TypeOK
    <3>2. wire' = wire \/ wire' = [e \in End |-> <<>>]
      BY <1>1 DEF Establish, Refuse, Break
    <3>3. [e \in End |-> <<>>] \in [End -> Seq(Token)]
      BY NoItems
    <3>4. QED
      BY <3>1, <3>2, <3>3
  <2>2. QED
    BY <1>1, <2>1 DEF Establish, Refuse, Break, TypeOK
<1>2. ASSUME NEW e \in End, Transmit(e) PROVE TypeOK'
  <2>1. PICK i \in 1..Len(wr[e]) :
          /\ wr' = [wr EXCEPT ![e][i].done = TRUE]
          /\ wire' = IF PeerGone(e) THEN wire
                     ELSE [wire EXCEPT ![Peer(e)] = Append(@, wr[e][i].tok)]
    BY <1>2 DEF Transmit
  <2>2. wr[e] \in Seq(Write) /\ wr[e][i] \in Write
    BY ElementOfSeq DEF TypeOK
  <2>3. [wr[e] EXCEPT ![i].done = TRUE] \in Seq(Write)
    BY <2>2, TransmitKeepsWrites
  <2>4. wr' \in [End -> Seq(Write)]
    BY <2>1, <2>3 DEF TypeOK
  <2>5. wr[e][i].tok \in Token /\ Peer(e) \in End
    BY <2>2 DEF Write, Peer, End
  <2>6. wire' \in [End -> Seq(Token)]
    BY <2>1, <2>5, AppendProperties DEF TypeOK
  <2>7. QED
    BY <1>2, <2>4, <2>6 DEF Transmit, TypeOK
<1>3. ASSUME NEW e \in End, Arrive(e) PROVE TypeOK'
  <2>1. wire[e] \in Seq(Token) /\ wire[e] # <<>>
    BY <1>3 DEF Arrive, TypeOK
  <2>2. Head(wire[e]) \in Token /\ Tail(wire[e]) \in Seq(Token)
    BY <2>1, HeadTailProperties
  <2>3. [rd[e] EXCEPT !.got = <<Head(wire[e])>>] \in Read
    <3>1. rd[e] \in Read
      BY DEF TypeOK
    <3>2. QED
      BY <2>2, <3>1, SMTT(30) DEF Read
  <2>4. rd' \in [End -> Read]
    BY <1>3, <2>3 DEF Arrive, TypeOK
  <2>5. wire' \in [End -> Seq(Token)]
    BY <1>3, <2>2 DEF Arrive, TypeOK
  <2>6. QED
    BY <1>3, <2>4, <2>5 DEF Arrive, TypeOK
<1>4. QED
  BY <1>1, <1>2, <1>3 DEF Network

LEMMA TypeApplication ==
    ASSUME TypeOK, NEW e \in End, Application(e)
    PROVE  TypeOK'
<1>1. CASE AppSend(e)
  <2>1. PICK m \in Msg : posted' = [posted EXCEPT ![e] = Append(@, <<"send", m>>)]
    BY <1>1 DEF AppSend
  <2>2. <<"send", m>> \in Post
    BY DEF Post
  <2>3. posted' \in [End -> Seq(Post)]
    BY <2>1, <2>2, AppendProperties DEF TypeOK
  <2>4. QED
    BY <1>1, <2>3 DEF AppSend, TypeOK
<1>2. CASE AppDisconnect(e)
  <2>1. <<"close", NoMsg>> \in Post
    BY DEF Post
  <2>2. posted' \in [End -> Seq(Post)]
    BY <1>2, <2>1, AppendProperties DEF AppDisconnect, TypeOK
  <2>3. QED
    BY <1>2, <2>2 DEF AppDisconnect, TypeOK
<1>3. QED
  BY <1>1, <1>2 DEF Application

LEMMA TypePosted ==
    ASSUME TypeOK, NEW e \in End, Posted(e)
    PROVE  TypeOK'
<1>1. posted[e] # <<>> /\ posted' = [posted EXCEPT ![e] = Tail(@)]
  BY DEF Posted, RunSend, StartsWrite, RunClose
<1>2. Head(posted[e]) \in Post /\ posted' \in [End -> Seq(Post)]
  BY <1>1, HeadTailProperties DEF TypeOK
<1>3. CASE RunSend(e)
  <2> DEFINE m == Head(posted[e])[2]
  <2>1. m \in Msg
    BY <1>2, <1>3 DEF RunSend, StartsWrite, Post
  <2>2. outQ' \in [End -> Seq(Msg)] /\ sent' \in [End -> Seq(Msg)]
    BY <1>3, <2>1, AppendProperties DEF RunSend, StartsWrite, TypeOK
  <2>3. WriteOf(Header(m)) \in Write
    BY <2>1, TokenTypes
  <2>4. wr' \in [End -> Seq(Write)]
    BY <1>3, <2>3, AppendProperties DEF RunSend, StartsWrite, TypeOK
  <2>5. QED
    BY <1>2, <1>3, <2>2, <2>4 DEF RunSend, StartsWrite, TypeOK
<1>4. CASE RunClose(e)
  BY <1>2, <1>4, TypeClose DEF RunClose, TypeOK
<1>5. QED
  BY <1>3, <1>4 DEF Posted

LEMMA TypeHandshake == TypeOK /\ Handshake => TypeOK'
<1> SUFFICES ASSUME TypeOK, Handshake PROVE TypeOK'
  OBVIOUS
<1> USE DEF End
<1>1. CASE ConnectToClient
  <2>1. [i \in 1..Len(Greeting) |-> <<"send", Greeting[i]>>] \in Seq(Post)
    <3>1. Len(Greeting) \in Nat /\ \A i \in 1..Len(Greeting) : Greeting[i] \in Msg
      BY GreetingAssumption, ElementOfSeq, LenProperties
    <3>2. \A i \in 1..Len(Greeting) : <<"send", Greeting[i]>> \in Post
      BY <3>1 DEF Post
    <3>3. QED
      BY <3>1, <3>2
  <2>2. <<WriteOf(WordToken(Nonce))>> \in Seq(Write)
    BY HandshakeAssumption, TokenTypes
  <2>3. QED
    BY <1>1, <2>1, <2>2, ReadTypes DEF ConnectToClient, WriteValidation,
                                       ReadValidation, TypeOK
<1>2. CASE ConnectToServer
  BY <1>2, ReadTypes DEF ConnectToServer, ReadValidation, TypeOK
<1>3. CASE CheckValidation
  <2> DEFINE good == rd["server"].got = <<WordToken(Scramble[Nonce])>>
  <2>1. CASE good
    <3>1. rd' = [rd EXCEPT !["server"] = ReadOf("hdr")] /\ validated' = TRUE
      BY <1>3, <2>1 DEF CheckValidation
    <3>2. ReadOf("hdr") \in Read
      BY ReadTypes
    <3>3. rd' \in [End -> Read]
      BY <3>1, <3>2 DEF TypeOK
    <3>4. QED
      BY <1>3, <2>1, <3>1, <3>3 DEF CheckValidation, TypeOK
  <2>2. CASE ~good
    <3>1. open' \in [End -> BOOLEAN] /\ wire' \in [End -> Seq(Token)]
      BY <1>3, <2>2, TypeClose DEF CheckValidation
    <3>2. rd' \in [End -> Read]
      BY <1>3, <2>2, ReadTypes DEF CheckValidation, TypeOK
    <3>3. QED
      BY <1>3, <2>2, <3>1, <3>2 DEF CheckValidation, TypeOK
  <2>3. QED
    BY <2>1, <2>2
<1>4. CASE AnswerValidation
  <2> DEFINE w == rd["client"].got[1][2]
  <2>1. w \in Word
    BY <1>4, TokenTypes, ReadTypes DEF AnswerValidation, WriteValidation,
                                       ReadParsed, ReadDone, TypeOK
  <2>2. WriteOf(WordToken(Scramble[w])) \in Write
    BY <2>1, HandshakeAssumption, TokenTypes
  <2>3. wr' \in [End -> Seq(Write)]
    BY <1>4, <2>2, AppendProperties DEF AnswerValidation, WriteValidation, TypeOK
  <2>4. QED
    BY <1>4, <2>3, ReadTypes DEF AnswerValidation, WriteValidation, TypeOK
<1>5. QED
  BY <1>1, <1>2, <1>3, <1>4 DEF Handshake

\* pop_front and the next WriteHeader.
LEMMA TypeNextMessage ==
    ASSUME TypeOK, NEW e \in End, wr[e] # <<>>, outQ[e] # <<>>, NextMessage(e)
    PROVE  outQ' \in [End -> Seq(Msg)] /\ wr' \in [End -> Seq(Write)]
<1> DEFINE rest == Tail(outQ[e])
<1>1. rest \in Seq(Msg) /\ Tail(wr[e]) \in Seq(Write)
  BY HeadTailProperties DEF TypeOK
<1>2. rest # <<>> => WriteOf(Header(Head(rest))) \in Write
  BY <1>1, HeadTailProperties, TokenTypes
<1>3. wr' \in [End -> Seq(Write)]
  BY <1>1, <1>2, AppendProperties DEF NextMessage, TypeOK
<1>4. QED
  BY <1>1, <1>3 DEF NextMessage, TypeOK

\* The head of the writes, when it is of a message, finds a message in front.
LEMMA FrontExists ==
    ASSUME TypeOK, PumpWritesFront, NEW e \in End, wr[e] # <<>>,
           Head(wr[e]).tok[1] \in {"hdr", "body"}
    PROVE  /\ outQ[e] # <<>> /\ Head(outQ[e]) \in Msg
           /\ IsMessageWrite(Head(wr[e]))
<1>1. 1 \in 1..Len(wr[e]) /\ wr[e][1] = Head(wr[e])
  BY EmptySeq, HeadTailProperties DEF TypeOK
<1>2. IsMessageWrite(Head(wr[e]))
  BY DEF IsMessageWrite
<1>3. outQ[e] # <<>>
  BY <1>1, <1>2 DEF PumpWritesFront, WritesOnlyFront
<1>4. QED
  BY <1>2, <1>3, HeadTailProperties DEF TypeOK

LEMMA TypeWriteHandler ==
    ASSUME TypeOK, PumpWritesFront, NEW e \in End, WriteHandler(e)
    PROVE  TypeOK'
<1>1. wr[e] # <<>>
  BY DEF WriteHandler, WriteValidationDone, WriteHeaderDone, WriteBodyDone,
         WriteFailed, WriteDone
<1>2. Tail(wr[e]) \in Seq(Write)
  BY <1>1, HeadTailProperties DEF TypeOK
<1>3. CASE WriteValidationDone(e)
  BY <1>2, <1>3, ReadTypes DEF WriteValidationDone, TypeOK
<1>4. CASE WriteHeaderDone(e)
  <2>1. outQ[e] # <<>> /\ Head(outQ[e]) \in Msg
    BY <1>1, <1>4, FrontExists DEF WriteHeaderDone, WriteDone
  <2>2. WriteOf(Body(Head(outQ[e]))) \in Write
    BY <2>1, TokenTypes
  <2>3. Append(Tail(wr[e]), WriteOf(Body(Head(outQ[e])))) \in Seq(Write)
    BY <1>2, <2>2, AppendProperties
  <2>4. outQ' \in [End -> Seq(Msg)] /\ wr' \in [End -> Seq(Write)]
    BY <1>1, <1>4, <2>1, <2>3, TypeNextMessage DEF WriteHeaderDone, TypeOK
  <2>5. QED
    BY <1>4, <2>4 DEF WriteHeaderDone, TypeOK
<1>5. CASE WriteBodyDone(e)
  <2>1. outQ[e] # <<>>
    BY <1>1, <1>5, FrontExists DEF WriteBodyDone, WriteDone
  <2>2. outQ' \in [End -> Seq(Msg)] /\ wr' \in [End -> Seq(Write)]
    BY <1>1, <1>5, <2>1, TypeNextMessage DEF WriteBodyDone
  <2>3. QED
    BY <1>5, <2>2 DEF WriteBodyDone, TypeOK
<1>6. CASE WriteFailed(e)
  BY <1>2, <1>6, TypeClose DEF WriteFailed, TypeOK
<1>7. QED
  BY <1>3, <1>4, <1>5, <1>6 DEF WriteHandler

LEMMA TypeReadHandler ==
    ASSUME TypeOK, BodyFollowsHeader, NEW e \in End, ReadHandler(e)
    PROVE  TypeOK'
<1>1. ASSUME NEW msg \in Delivery, AddToIncoming(e, msg)
      PROVE  inQ' \in [End -> Seq(Delivery)] /\ rd' \in [End -> Read]
  BY <1>1, ReadTypes, AppendProperties DEF AddToIncoming, TypeOK
<1>2. CASE ReadHeaderDone(e)
  <2> DEFINE m == rd[e].got[1][2]
  <2>1. m \in Msg
    BY <1>2, TokenTypes, ReadTypes DEF ReadHeaderDone, WithHeader, ReadParsed,
                                       ReadDone, TypeOK
  <2>2. [tmpIn[e] EXCEPT !.hdr = m] \in Delivery
    BY <2>1 DEF TypeOK, Delivery
  <2>3. tmpIn' \in [End -> [hdr : Msg \cup {NoMsg}, body : Msg \cup {NoMsg}]]
    BY <1>2, <2>1 DEF ReadHeaderDone, WithHeader, TypeOK
  <2>4. inQ' \in [End -> Seq(Delivery)] /\ rd' \in [End -> Read]
    <3>1. CASE m \in Sized
      BY <1>2, <3>1, ReadTypes DEF ReadHeaderDone, WithHeader, TypeOK
    <3>2. CASE m \notin Sized
      BY <1>1, <1>2, <2>2, <3>2 DEF ReadHeaderDone, WithHeader
    <3>3. QED
      BY <3>1, <3>2
  <2>5. QED
    BY <1>2, <2>3, <2>4 DEF ReadHeaderDone, WithHeader, TypeOK
<1>3. CASE ReadBodyDone(e)
  <2> DEFINE b == rd[e].got[1][2]
  <2>1. b \in Msg
    BY <1>3, TokenTypes, ReadTypes DEF ReadBodyDone, WithBody, ReadParsed, ReadDone,
                                       TypeOK
  <2>2. [tmpIn[e] EXCEPT !.body = b] \in Delivery
    <3>1. tmpIn[e].hdr \in Msg
      BY <1>3, MsgAssumption
         DEF ReadBodyDone, WithBody, ReadParsed, ReadDone, BodyFollowsHeader
    <3>2. QED
      BY <2>1, <3>1 DEF TypeOK, Delivery
  <2>3. QED
    BY <1>1, <1>3, <2>1, <2>2 DEF ReadBodyDone, WithBody, TypeOK
<1>4. CASE ReadFailed(e)
  BY <1>4, ReadTypes, TypeClose DEF ReadFailed, TypeOK
<1>5. QED
  BY <1>2, <1>3, <1>4 DEF ReadHandler

-----------------------------------------------------------------------------
(* The write pump. *)

Pump(e) == /\ WritesOnlyFront(wr[e], outQ[e])
           /\ open[e] /\ outQ[e] # <<>> => HasMessageWrite(wr[e])

\* close() only turns open off, and leaves the writes to their handlers.
LEMMA CloseEffect ==
    ASSUME TypeOK, NEW e \in End, Close(e)
    PROVE  ~open'[e] /\ \A f \in End : f # e => open'[f] = open[f]
  BY DEF Close, TypeOK

\* Steps that start and finish no write.
LEMMA PumpUnaffected ==
    ASSUME NEW e \in End, Pump(e), wr'[e] = wr[e], outQ'[e] = outQ[e],
           open'[e] => open[e]
    PROVE  Pump(e)'
  BY DEF Pump

LEMMA PumpTransmit ==
    ASSUME TypeOK, NEW e \in End, Pump(e), Transmit(e)
    PROVE  Pump(e)'
<1>1. PICK i \in 1..Len(wr[e]) : wr' = [wr EXCEPT ![e][i].done = TRUE]
  BY DEF Transmit
<1>2. wr'[e] = [wr[e] EXCEPT ![i].done = TRUE] /\ wr[e] \in Seq(Write)
  BY <1>1 DEF TypeOK
<1>3. outQ' = outQ /\ open' = open
  BY DEF Transmit
<1>4. QED
  BY <1>2, <1>3, TransmitKeepsWrites DEF Pump

\* Send: the pump is started exactly when it stands still.
LEMMA PumpSend ==
    ASSUME TypeOK, NEW e \in End, Pump(e), RunSend(e)
    PROVE  Pump(e)'
<1> DEFINE m == Head(posted[e])[2]
<1>1. m \in Msg
  <2>1. Head(posted[e]) \in Post
    BY HeadTailProperties DEF RunSend, StartsWrite, TypeOK
  <2>2. QED
    BY <2>1 DEF RunSend, StartsWrite, Post
<1>2. /\ outQ'[e] = Append(outQ[e], m) /\ open' = open
      /\ outQ[e] \in Seq(Msg) /\ wr[e] \in Seq(Write)
  BY DEF RunSend, StartsWrite, TypeOK
<1>3. CASE outQ[e] = <<>>
  <2> DEFINE x == WriteOf(Header(m))
  <2>1. wr'[e] = Append(wr[e], x)
    BY <1>3 DEF RunSend, StartsWrite, TypeOK
  <2>2. ~HasMessageWrite(wr[e])
    BY <1>3 DEF Pump, WritesOnlyFront, HasMessageWrite
  <2>3. x \in Write /\ IsMessageWrite(x) /\ x.tok[2] = m
    BY <1>1, TokenTypes DEF IsMessageWrite
  <2>4. outQ'[e] # <<>> /\ Head(outQ'[e]) = m
    BY <1>1, <1>2, <1>3, AppendProperties, HeadTailAppend
  <2>5. QED
    BY <1>2, <2>1, <2>2, <2>3, <2>4, AppendFront DEF Pump
<1>4. CASE outQ[e] # <<>>
  <2>1. wr'[e] = wr[e]
    BY <1>4 DEF RunSend, StartsWrite
  <2>2. QED
    BY <1>1, <1>2, <1>4, <2>1, PushBehindFront DEF Pump
<1>5. QED
  BY <1>3, <1>4

\* pop_front() and the write of the next header, if there is one.
LEMMA PumpNext ==
    ASSUME TypeOK, NEW e \in End, Pump(e), wr[e] # <<>>, outQ[e] # <<>>,
           IsMessageWrite(Head(wr[e])), NextMessage(e)
    PROVE  Pump(e)'
<1> DEFINE rest == Tail(outQ[e])
<1>1. wr[e] \in Seq(Write) /\ Tail(wr[e]) \in Seq(Write) /\ rest \in Seq(Msg)
  BY HeadTailProperties DEF TypeOK
<1>2. ~HasMessageWrite(Tail(wr[e]))
  BY <1>1, TailKeepsFront DEF Pump
<1>3. outQ'[e] = rest
  BY DEF NextMessage, TypeOK
<1>4. CASE rest = <<>>
  <2>1. wr'[e] = Tail(wr[e])
    BY <1>4 DEF NextMessage, TypeOK
  <2>2. QED
    BY <1>2, <1>3, <1>4, <2>1, NoMessageNoFront DEF Pump
<1>5. CASE rest # <<>>
  <2> DEFINE x == WriteOf(Header(Head(rest)))
  <2>1. wr'[e] = Append(Tail(wr[e]), x)
    BY <1>5 DEF NextMessage, TypeOK
  <2>2. x \in Write /\ IsMessageWrite(x) /\ x.tok[2] = Head(rest)
    BY <1>1, <1>5, HeadTailProperties, TokenTypes DEF IsMessageWrite
  <2>3. QED
    BY <1>1, <1>2, <1>3, <1>5, <2>1, <2>2, AppendFront DEF Pump
<1>6. QED
  BY <1>4, <1>5

LEMMA PumpWriteHandler ==
    ASSUME TypeOK, PumpWritesFront, NEW e \in End, Pump(e), WriteHandler(e)
    PROVE  Pump(e)'
<1>1. wr[e] # <<>> /\ wr[e] \in Seq(Write) /\ Tail(wr[e]) \in Seq(Write)
  BY HeadTailProperties
     DEF WriteHandler, WriteValidationDone, WriteHeaderDone, WriteBodyDone,
         WriteFailed, WriteDone, TypeOK
<1>2. CASE WriteValidationDone(e)
  <2>1. ~IsMessageWrite(Head(wr[e])) /\ wr'[e] = Tail(wr[e])
        /\ outQ' = outQ /\ open' = open
    BY <1>2 DEF WriteValidationDone, WriteDone, IsMessageWrite, TypeOK
  <2>2. QED
    BY <1>1, <2>1, TailKeepsFront DEF Pump
<1>3. CASE WriteHeaderDone(e)
  <2>1. /\ outQ[e] # <<>> /\ Head(outQ[e]) \in Msg
        /\ IsMessageWrite(Head(wr[e])) /\ open' = open
    BY <1>1, <1>3, FrontExists DEF WriteHeaderDone, WriteDone
  <2>2. CASE Head(outQ[e]) \in Sized
    <3> DEFINE x == WriteOf(Body(Head(outQ[e])))
    <3>1. wr'[e] = Append(Tail(wr[e]), x) /\ outQ' = outQ
      BY <1>3, <2>2 DEF WriteHeaderDone, TypeOK
    <3>2. x \in Write /\ IsMessageWrite(x) /\ x.tok[2] = Head(outQ[e])
      BY <2>1, TokenTypes DEF IsMessageWrite
    <3>3. ~HasMessageWrite(Tail(wr[e]))
      BY <1>1, <2>1, TailKeepsFront DEF Pump
    <3>4. QED
      BY <1>1, <2>1, <3>1, <3>2, <3>3, AppendFront DEF Pump
  <2>3. CASE Head(outQ[e]) \notin Sized
    BY <1>1, <1>3, <2>1, <2>3, PumpNext DEF WriteHeaderDone
  <2>4. QED
    BY <2>2, <2>3
<1>4. CASE WriteBodyDone(e)
  <2>1. outQ[e] # <<>> /\ IsMessageWrite(Head(wr[e]))
    BY <1>1, <1>4, FrontExists DEF WriteBodyDone, WriteDone
  <2>2. QED
    BY <1>1, <1>4, <2>1, PumpNext DEF WriteBodyDone
<1>5. CASE WriteFailed(e)
  <2>1. wr'[e] = Tail(wr[e]) /\ outQ' = outQ /\ ~open'[e]
    BY <1>5, CloseEffect DEF WriteFailed, TypeOK
  <2>2. QED
    BY <1>1, <2>1, TailKeepsFront DEF Pump
<1>6. QED
  BY <1>2, <1>3, <1>4, <1>5 DEF WriteHandler

LEMMA PumpHandshake ==
    ASSUME TypeOK, NothingBeforeAccept, NEW e \in End, Pump(e), Handshake
    PROVE  Pump(e)'
<1>1. CASE ConnectToClient
  <2>1. CASE e = "server"
    <3> DEFINE x == WriteOf(WordToken(Nonce))
    <3>1. /\ wr'[e] = Append(wr[e], x) /\ outQ'[e] = outQ[e]
          /\ wr[e] = <<>> /\ outQ[e] = <<>>
      BY <1>1, <2>1 DEF ConnectToClient, WriteValidation, NothingBeforeAccept,
                        TypeOK
    <3>2. wr'[e] = <<x>> /\ outQ'[e] = <<>>
      BY <3>1
    <3>3. ~IsMessageWrite(x)
      BY HandshakeAssumption, TokenTypes DEF IsMessageWrite
    <3>4. QED
      BY <3>2, <3>3 DEF Pump, WritesOnlyFront
  <2>2. CASE e # "server"
    <3>1. wr'[e] = wr[e] /\ outQ'[e] = outQ[e] /\ open'[e] = open[e]
      BY <1>1, <2>2 DEF ConnectToClient, WriteValidation, ReadValidation, TypeOK
    <3>2. QED
      BY <3>1, PumpUnaffected
  <2>3. QED
    BY <2>1, <2>2
<1>2. CASE ConnectToServer
  BY <1>2, PumpUnaffected DEF ConnectToServer, ReadValidation
<1>3. CASE CheckValidation
  <2>1. "server" \in End
    BY DEF End
  <2>2. wr' = wr /\ outQ' = outQ /\ (open'[e] => open[e])
    BY <1>3, <2>1, CloseEffect DEF CheckValidation
  <2>3. QED
    BY <2>2, PumpUnaffected
<1>4. CASE AnswerValidation
  <2>1. outQ' = outQ /\ open' = open
    BY <1>4 DEF AnswerValidation, WriteValidation
  <2>2. CASE e = "client"
    <3> DEFINE w == rd["client"].got[1][2]
               x == WriteOf(WordToken(Scramble[w]))
    <3>1. w \in Word
      BY <1>4, <2>2, TokenTypes, ReadTypes
         DEF AnswerValidation, WriteValidation, ReadParsed, ReadDone, TypeOK
    <3>2. x \in Write /\ ~IsMessageWrite(x)
      BY <3>1, HandshakeAssumption, TokenTypes DEF IsMessageWrite
    <3>3. wr'[e] = Append(wr[e], x) /\ wr[e] \in Seq(Write)
      BY <1>4, <2>2 DEF AnswerValidation, WriteValidation, TypeOK
    <3>4. QED
      BY <2>1, <3>2, <3>3, AppendWord DEF Pump
  <2>3. CASE e # "client"
    <3>1. wr'[e] = wr[e]
      BY <1>4, <2>3 DEF AnswerValidation, WriteValidation, TypeOK
    <3>2. QED
      BY <2>1, <3>1, PumpUnaffected
  <2>4. QED
    BY <2>2, <2>3
<1>5. QED
  BY <1>1, <1>2, <1>3, <1>4 DEF Handshake

\* A step of one end does not touch the pump of the other.
LEMMA PumpOfOtherEnd ==
    ASSUME TypeOK, NEW e \in End, NEW f \in End, f # e, Pump(f),
           Transmit(e) \/ Posted(e) \/ WriteHandler(e) \/ ReadHandler(e)
    PROVE  Pump(f)'
<1>1. /\ wr'[f] = wr[f] /\ outQ'[f] = outQ[f]
      /\ open' = open \/ Close(e)
  BY DEF Transmit, Posted, RunSend, StartsWrite, RunClose, WriteHandler,
         WriteValidationDone, WriteHeaderDone, WriteBodyDone, WriteFailed,
         ReadHandler, ReadHeaderDone, WithHeader, ReadBodyDone, WithBody,
         ReadFailed, NextMessage, TypeOK
<1>2. open'[f] = open[f]
  BY <1>1, CloseEffect
<1>3. QED
  BY <1>1, <1>2, PumpUnaffected

LEMMA PumpStep ==
    ASSUME TypeOK, PumpWritesFront, NothingBeforeAccept, NEW f \in End, Pump(f), Next
    PROVE  Pump(f)'
<1>1. CASE Establish \/ Refuse \/ Break
  BY <1>1, PumpUnaffected DEF Establish, Refuse, Break
<1>2. CASE Handshake
  BY <1>2, PumpHandshake
<1>3. ASSUME NEW e \in End, Arrive(e) \/ Application(e)
      PROVE  Pump(f)'
  BY <1>3, PumpUnaffected DEF Arrive, Application, AppSend, AppDisconnect
<1>4. ASSUME NEW e \in End,
             Transmit(e) \/ Posted(e) \/ WriteHandler(e) \/ ReadHandler(e)
      PROVE  Pump(f)'
  <2>1. CASE e # f
    BY <1>4, <2>1, PumpOfOtherEnd
  <2>2. CASE e = f /\ (Transmit(f) \/ WriteHandler(f) \/ RunSend(f))
    BY <2>2, PumpTransmit, PumpWriteHandler, PumpSend
  <2>3. CASE e = f /\ (RunClose(f) \/ ReadHandler(f))
    <3>1. wr' = wr /\ outQ' = outQ /\ (open' = open \/ Close(f))
      BY <2>3 DEF RunClose, ReadHandler, ReadHeaderDone, WithHeader, ReadBodyDone,
                  WithBody, ReadFailed
    <3>2. open'[f] => open[f]
      BY <3>1, CloseEffect
    <3>3. QED
      BY <3>1, <3>2, PumpUnaffected
  <2>4. QED
    BY <1>4, <2>1, <2>2, <2>3 DEF Posted
<1>5. QED
  BY <1>1, <1>2, <1>3, <1>4 DEF Next, Network

-----------------------------------------------------------------------------
(* The rest of the inductive invariant. *)

LEMMA AcceptStep ==
    ASSUME TypeOK, NothingBeforeAccept, Next
    PROVE  NothingBeforeAccept'
<1> SUFFICES ASSUME ~begun'["server"]
             PROVE  /\ outQ'["server"] = <<>> /\ wr'["server"] = <<>>
                    /\ posted'["server"] = <<>>
  BY DEF NothingBeforeAccept
<1> USE DEF End
<1>1. /\ ~begun["server"] /\ outQ["server"] = <<>> /\ wr["server"] = <<>>
      /\ posted["server"] = <<>>
  BY DEF NothingBeforeAccept, TypeOK, Next, Network, Establish, Refuse, Break,
         Transmit, Arrive, Handshake, ConnectToClient, WriteValidation,
         ReadValidation, ConnectToServer, CheckValidation, AnswerValidation,
         Application, AppSend, AppDisconnect, Posted, RunSend, StartsWrite,
         RunClose, WriteHandler, WriteValidationDone, WriteHeaderDone,
         WriteBodyDone, WriteFailed, ReadHandler, ReadHeaderDone, WithHeader,
         ReadBodyDone, WithBody, ReadFailed
<1>2. CASE Network
  <2>1. CASE Establish \/ Refuse \/ Break \/ \E e \in End : Arrive(e)
    BY <1>1, <2>1 DEF Establish, Refuse, Break, Arrive
  <2>2. ASSUME NEW e \in End, Transmit(e)
        PROVE  outQ' = outQ /\ posted' = posted /\ wr'["server"] = wr["server"]
    <3>1. PICK i \in 1..Len(wr[e]) : wr' = [wr EXCEPT ![e][i].done = TRUE]
      BY <2>2 DEF Transmit
    <3>2. e # "server"
      BY <1>1, <3>1
    <3>3. QED
      BY <2>2, <3>1, <3>2 DEF Transmit, TypeOK
  <2>3. QED
    BY <1>1, <1>2, <2>1, <2>2 DEF Network
<1>3. CASE Handshake
  BY <1>1, <1>3 DEF Handshake, ConnectToClient, WriteValidation, ReadValidation,
                    ConnectToServer, CheckValidation, AnswerValidation, TypeOK
<1>4. ASSUME NEW e \in End, Application(e) \/ Posted(e)
      PROVE  /\ outQ'["server"] = <<>> /\ wr'["server"] = <<>>
             /\ posted'["server"] = <<>>
  BY <1>1, <1>4 DEF Application, AppSend, AppDisconnect, Posted, RunSend,
                    StartsWrite, RunClose, TypeOK
<1>5. ASSUME NEW e \in End, WriteHandler(e) \/ ReadHandler(e)
      PROVE  /\ outQ'["server"] = <<>> /\ wr'["server"] = <<>>
             /\ posted'["server"] = <<>>
  BY <1>1, <1>5 DEF WriteHandler, WriteValidationDone, WriteHeaderDone,
     WriteBodyDone, WriteFailed, WriteDone, NextMessage, ReadHandler,
     ReadHeaderDone, WithHeader, ReadBodyDone, WithBody, ReadFailed, TypeOK
<1>6. QED
  BY <1>2, <1>3, <1>4, <1>5 DEF Next

\* The server reads headers and bodies, and queues messages, only after
\* OnClientValidated; a body is read only for a header of size > 0.
LEMMA ReadStep ==
    ASSUME TypeOK, BodyFollowsHeader, MessagesAfterValidation,
           NoDeliveryBeforeValidation, Next
    PROVE  /\ BodyFollowsHeader'
           /\ MessagesAfterValidation'
           /\ NoDeliveryBeforeValidation'
<1> USE DEF End, BodyFollowsHeader, MessagesAfterValidation,
            NoDeliveryBeforeValidation, ReadOf, NoRead
<1>1. CASE Network
  <2>1. tmpIn' = tmpIn /\ inQ' = inQ /\ validated' = validated
    BY <1>1 DEF Network, Establish, Refuse, Break, Transmit, Arrive
  <2>2. \A f \in End : rd'[f].want = rd[f].want
    <3>1. CASE Establish \/ Refuse \/ Break \/ \E e \in End : Transmit(e)
      BY <3>1 DEF Establish, Refuse, Break, Transmit
    <3>2. ASSUME NEW e \in End, Arrive(e), NEW f \in End
          PROVE  rd'[f].want = rd[f].want
      BY <3>2 DEF Arrive, TypeOK, Read
    <3>3. QED
      BY <1>1, <3>1, <3>2 DEF Network
  <2>3. QED
    BY <2>1, <2>2
<1>2. CASE Handshake
  BY <1>2 DEF Handshake, ConnectToClient, WriteValidation, ReadValidation,
              ConnectToServer, CheckValidation, AnswerValidation, TypeOK
<1>3. ASSUME NEW e \in End, Application(e) \/ Posted(e)
      PROVE  rd' = rd /\ tmpIn' = tmpIn /\ inQ' = inQ /\ validated' = validated
  BY <1>3 DEF Application, AppSend, AppDisconnect, Posted, RunSend, StartsWrite,
              RunClose
<1>4. ASSUME NEW e \in End, WriteHandler(e)
      PROVE  /\ rd' = rd \/ (e = "client" /\ rd' = [rd EXCEPT ![e] = ReadOf("hdr")])
             /\ tmpIn' = tmpIn /\ inQ' = inQ /\ validated' = validated
  BY <1>4 DEF WriteHandler, WriteValidationDone, WriteHeaderDone,
     WriteBodyDone, WriteFailed
<1>5. ASSUME NEW e \in End, ReadHandler(e)
      PROVE  /\ BodyFollowsHeader'
             /\ MessagesAfterValidation'
             /\ NoDeliveryBeforeValidation'
  <2>1. CASE ReadHeaderDone(e)
    BY <2>1 DEF ReadHeaderDone, WithHeader, ReadParsed, ReadDone, AddToIncoming,
                TypeOK
  <2>2. CASE ReadBodyDone(e)
    BY <2>2 DEF ReadBodyDone, WithBody, ReadParsed, ReadDone, AddToIncoming, TypeOK
  <2>3. CASE ReadFailed(e)
    BY <2>3 DEF ReadFailed, TypeOK
  <2>4. QED
    BY <1>5, <2>1, <2>2, <2>3 DEF ReadHandler
<1>6. ASSUME NEW e \in End, WriteHandler(e)
      PROVE  /\ BodyFollowsHeader'
             /\ MessagesAfterValidation'
             /\ NoDeliveryBeforeValidation'
  BY <1>4, <1>6 DEF TypeOK
<1>7. QED
  BY <1>1, <1>2, <1>3, <1>5, <1>6 DEF Next

-----------------------------------------------------------------------------
(* The invariant and the properties. *)

LEMMA PumpParts ==
    PumpWritesFront /\ PumpAlive <=> \A e \in End : Pump(e)
  BY DEF PumpWritesFront, PumpAlive, Pump

LEMMA IInvInit == Init => IInv
<1> SUFFICES ASSUME Init PROVE IInv
  OBVIOUS
<1>1. TypeOK
  BY TypeInit
<1>2. PumpWritesFront /\ PumpAlive
  BY DEF Init, PumpWritesFront, PumpAlive, WritesOnlyFront
<1>3. /\ NothingBeforeAccept /\ BodyFollowsHeader
      /\ MessagesAfterValidation /\ NoDeliveryBeforeValidation
  BY DEF Init, End, NoRead, NothingBeforeAccept, BodyFollowsHeader,
         MessagesAfterValidation, NoDeliveryBeforeValidation
<1>4. QED
  BY <1>1, <1>2, <1>3 DEF IInv

LEMMA IInvNext == IInv /\ [Next]_vars => IInv'
<1> SUFFICES ASSUME IInv, [Next]_vars PROVE IInv'
  OBVIOUS
<1>1. CASE Next
  <2>1. TypeOK'
    BY <1>1, TypeNetwork, TypeApplication, TypePosted, TypeHandshake,
       TypeWriteHandler, TypeReadHandler DEF IInv, Next
  <2>2. \A e \in End : Pump(e)
    BY PumpParts DEF IInv
  <2>3. \A e \in End : Pump(e)'
    BY <1>1, <2>2, PumpStep DEF IInv
  <2>4. PumpWritesFront' /\ PumpAlive'
    BY <2>3 DEF PumpWritesFront, PumpAlive, Pump
  <2>5. NothingBeforeAccept'
    BY <1>1, AcceptStep DEF IInv
  <2>6. BodyFollowsHeader' /\ MessagesAfterValidation' /\ NoDeliveryBeforeValidation'
    BY <1>1, ReadStep DEF IInv
  <2>7. QED
    BY <2>1, <2>4, <2>5, <2>6 DEF IInv
<1>2. CASE UNCHANGED vars
  BY <1>2 DEF vars, IInv, TypeOK, PumpWritesFront, PumpAlive,
     NothingBeforeAccept, BodyFollowsHeader, MessagesAfterValidation,
     NoDeliveryBeforeValidation
<1>3. QED
  BY <1>1, <1>2

\* The strengthened invariant holds in every reachable state.
THEOREM Invariant == Spec => []IInv
<1>1. QED
  BY IInvInit, IInvNext, PTL DEF Spec

\* Every variable of a connection keeps its type; in particular front() is
\* never called on an empty queue, where its result would be no message.
THEOREM TypeCorrect == Spec => []TypeOK
<1>1. IInv => TypeOK
  BY DEF IInv
<1>2. QED
  BY <1>1, Invariant, PTL

\* At most one message is being written by an end, the front of its queue,
\* whatever the applications, the peer and the network do.
THEOREM OneWriteOfTheFront == Spec => []PumpWritesFront
<1>1. IInv => PumpWritesFront
  BY DEF IInv
<1>2. QED
  BY <1>1, Invariant, PTL

\* The write pump never stands still on an open socket with a message queued.
THEOREM PumpNeverStalls == Spec => []PumpAlive
<1>1. IInv => PumpAlive
  BY DEF IInv
<1>2. QED
  BY <1>1, Invariant, PTL

\* The server queues no message of a client it has not validated.
THEOREM ValidationFirst == Spec => []NoDeliveryBeforeValidation
<1>1. IInv => NoDeliveryBeforeValidation
  BY DEF IInv
<1>2. QED
  BY <1>1, Invariant, PTL

-----------------------------------------------------------------------------
(* Framing: the handshake word among the writes of an end. *)

\* A finished write leaves the handshake word what it was, or takes it out.
LEMMA TailWords ==
    ASSUME NEW ws \in Seq(Write), ws # <<>>, NEW t, NEW first \in BOOLEAN, OneWord(ws, t, first)
    PROVE  /\ OneWord(Tail(ws), t, first)
           /\ HasWord(Tail(ws)) => HasWord(ws)
           /\ HasUnsentWord(Tail(ws)) => HasUnsentWord(ws)
           /\ IsWord(Head(ws)) => ~HasWord(Tail(ws))
           /\ IsWord(Head(ws)) /\ Head(ws).done => ~HasUnsentWord(ws)
           /\ ~IsWord(Head(ws)) => (HasUnsentWord(ws) <=> HasUnsentWord(Tail(ws)))
<1>1. /\ Len(Tail(ws)) = Len(ws) - 1 /\ Len(ws) \in Nat \ {0} /\ Head(ws) = ws[1]
      /\ \A i \in 1..Len(Tail(ws)) : Tail(ws)[i] = ws[i + 1] /\ i + 1 \in 1..Len(ws)
  BY HeadTailProperties, EmptySeq, LenProperties
<1>2. OneWord(Tail(ws), t, first)
  BY <1>1 DEF OneWord
<1>3. \A i \in 1..Len(ws) : i # 1 => i - 1 \in 1..Len(Tail(ws)) /\ Tail(ws)[i - 1] = ws[i]
  BY <1>1
<1>4. HasWord(Tail(ws)) => HasWord(ws)
  BY <1>1 DEF HasWord
<1>5. HasUnsentWord(Tail(ws)) => HasUnsentWord(ws)
  BY <1>1 DEF HasUnsentWord
<1>6. IsWord(Head(ws)) => ~HasWord(Tail(ws))
  BY <1>1 DEF HasWord, OneWord
<1>7. IsWord(Head(ws)) /\ Head(ws).done => ~HasUnsentWord(ws)
  BY <1>1 DEF HasUnsentWord, OneWord
<1>8. ~IsWord(Head(ws)) /\ HasUnsentWord(ws) => HasUnsentWord(Tail(ws))
  <2> SUFFICES ASSUME ~IsWord(Head(ws)), NEW i \in 1..Len(ws), IsWord(ws[i]), ~ws[i].done
               PROVE  HasUnsentWord(Tail(ws))
    BY DEF HasUnsentWord
  <2>1. i # 1
    BY <1>1
  <2> QED
    BY <1>3, <2>1 DEF HasUnsentWord
<1> QED
  BY <1>2, <1>4, <1>5, <1>6, <1>7, <1>8

\* The write of a message leaves the handshake word alone.
LEMMA AppendToWords ==
    ASSUME NEW ws \in Seq(Write), NEW x \in Write, IsMessageWrite(x)
    PROVE  /\ \A t, first : OneWord(ws, t, first) => OneWord(Append(ws, x), t, first)
           /\ HasWord(Append(ws, x)) <=> HasWord(ws)
           /\ HasUnsentWord(Append(ws, x)) <=> HasUnsentWord(ws)
<1>1. /\ Len(ws) \in Nat /\ Len(Append(ws, x)) = Len(ws) + 1
      /\ \A i \in 1..Len(ws) : Append(ws, x)[i] = ws[i] /\ i \in 1..Len(Append(ws, x))
      /\ Append(ws, x)[Len(ws) + 1] = x
  BY AppendProperties, LenProperties
<1>2. ~IsWord(x)
  BY DEF IsWord, IsMessageWrite
<1>3. \A i \in 1..Len(Append(ws, x)) :
          IsWord(Append(ws, x)[i]) => i \in 1..Len(ws) /\ ws[i] = Append(ws, x)[i]
  BY <1>1, <1>2
<1>4. ASSUME NEW t, NEW first, OneWord(ws, t, first) PROVE OneWord(Append(ws, x), t, first)
  BY <1>3, <1>4 DEF OneWord
<1>5. HasWord(Append(ws, x)) <=> HasWord(ws)
  BY <1>1, <1>3 DEF HasWord
<1>6. HasUnsentWord(Append(ws, x)) <=> HasUnsentWord(ws)
  BY <1>1, <1>3 DEF HasUnsentWord
<1> QED
  BY <1>4, <1>5, <1>6

\* The handshake word is the only one when none was being written.
LEMMA AppendTheWord ==
    ASSUME NEW ws \in Seq(Write), NEW x \in Write, IsWord(x), ~x.done, ~HasWord(ws)
    PROVE  /\ \A first \in BOOLEAN : (first => ws = <<>>) => OneWord(Append(ws, x), x.tok, first)
           /\ HasUnsentWord(Append(ws, x))
           /\ HasMessageWrite(Append(ws, x)) <=> HasMessageWrite(ws)
           /\ \A i \in 1..Len(Append(ws, x)) : IsMessageWrite(Append(ws, x)[i]) =>
                  i \in 1..Len(ws) /\ ws[i] = Append(ws, x)[i]
<1>1. /\ Len(ws) \in Nat /\ Len(Append(ws, x)) = Len(ws) + 1
      /\ \A i \in 1..Len(ws) : Append(ws, x)[i] = ws[i] /\ i \in 1..Len(Append(ws, x))
      /\ Append(ws, x)[Len(ws) + 1] = x
      /\ Len(ws) + 1 \in 1..Len(Append(ws, x))
      /\ ws = <<>> => Len(ws) = 0
  BY AppendProperties, LenProperties, EmptySeq
<1>2. ~IsMessageWrite(x)
  BY DEF IsWord, IsMessageWrite
<1>3. \A i \in 1..Len(Append(ws, x)) : IsWord(Append(ws, x)[i]) => i = Len(ws) + 1
  BY <1>1 DEF HasWord
<1>4. ASSUME NEW first \in BOOLEAN, first => ws = <<>>
      PROVE  OneWord(Append(ws, x), x.tok, first)
  BY <1>1, <1>3, <1>4 DEF OneWord
<1>5. HasUnsentWord(Append(ws, x))
  BY <1>1 DEF HasUnsentWord
<1>6. \A i \in 1..Len(Append(ws, x)) : IsMessageWrite(Append(ws, x)[i]) =>
                  i \in 1..Len(ws) /\ ws[i] = Append(ws, x)[i]
  BY <1>1, <1>2
<1>7. HasMessageWrite(Append(ws, x)) <=> HasMessageWrite(ws)
  BY <1>1, <1>6 DEF HasMessageWrite
<1> QED
  BY <1>4, <1>5, <1>6, <1>7

\* The k-th write is done.
LEMMA TransmitWords ==
    ASSUME NEW ws \in Seq(Write), NEW k \in 1..Len(ws), ~ws[k].done
    PROVE  LET vs == [ws EXCEPT ![k].done = TRUE]
           IN  /\ Len(vs) = Len(ws) /\ vs[k].done
               /\ \A i \in 1..Len(ws) : vs[i].tok = ws[i].tok /\ (i # k => vs[i] = ws[i])
               /\ \A t, first : OneWord(ws, t, first) => OneWord(vs, t, first)
               /\ HasWord(vs) <=> HasWord(ws)
               /\ HasMessageWrite(vs) <=> HasMessageWrite(ws)
               /\ ~IsWord(ws[k]) => (HasUnsentWord(vs) <=> HasUnsentWord(ws))
               /\ \A t, first : IsWord(ws[k]) /\ OneWord(ws, t, first) => ~HasUnsentWord(vs)
<1> DEFINE x == [ws[k] EXCEPT !.done = TRUE]
           vs == [ws EXCEPT ![k] = x]
<1>1. x \in Write /\ x.tok = ws[k].tok /\ x.done
  <2>1. ws[k] \in Write
    BY ElementOfSeq
  <2>2. QED
    BY <2>1 DEF Write
<1>2. /\ vs \in Seq(Write) /\ Len(vs) = Len(ws)
      /\ \A j \in 1..Len(ws) : vs[j] = IF j = k THEN x ELSE ws[j]
  BY <1>1, ExceptSeq
<1> HIDE DEF x, vs
<1>3. \A j \in 1..Len(ws) : vs[j].tok = ws[j].tok /\ (IsWord(vs[j]) <=> IsWord(ws[j]))
                            /\ (IsMessageWrite(vs[j]) <=> IsMessageWrite(ws[j]))
  BY <1>1, <1>2 DEF IsWord, IsMessageWrite
<1>4. \A t, first : OneWord(ws, t, first) => OneWord(vs, t, first)
  BY <1>2, <1>3 DEF OneWord
<1>5. (HasWord(vs) <=> HasWord(ws)) /\ (HasMessageWrite(vs) <=> HasMessageWrite(ws))
  BY <1>2, <1>3 DEF HasWord, HasMessageWrite
<1>6. ~IsWord(ws[k]) => (HasUnsentWord(vs) <=> HasUnsentWord(ws))
  BY <1>2, <1>3 DEF HasUnsentWord
<1>7. ASSUME NEW t, NEW first, IsWord(ws[k]), OneWord(ws, t, first) PROVE ~HasUnsentWord(vs)
  <2>1. \A j \in 1..Len(ws) : IsWord(ws[j]) => j = k
    BY <1>7 DEF OneWord
  <2> QED
    BY <1>1, <1>2, <1>3, <2>1 DEF HasUnsentWord
<1>8. vs = [ws EXCEPT ![k].done = TRUE]
  BY DEF vs, x
<1> QED
  BY <1>1, <1>2, <1>3, <1>4, <1>5, <1>6, <1>7, <1>8

-----------------------------------------------------------------------------
(* Places in the stream. *)

\* A step through the stream stays one when more is sent.
LEMMA StepGrows ==
    ASSUME NEW e, NEW S \in Seq(Msg), NEW m \in Msg, NEW a, NEW t, NEW b, Step(e, S, a, t, b)
    PROVE  Step(e, Append(S, m), a, t, b)
<1>1. /\ Len(S) \in Nat /\ Len(Append(S, m)) = Len(S) + 1
      /\ \A i \in 1..Len(S) : Append(S, m)[i] = S[i] /\ i \in 1..Len(Append(S, m))
  BY AppendProperties, LenProperties
<1> QED
  BY <1>1 DEF Step

\* A step ends behind the handshake word; only that word starts before it.
LEMMA StepPlaces ==
    ASSUME NEW e, NEW S \in Seq(Msg), NEW a \in Int, NEW t, NEW b \in Int, Step(e, S, a, t, b)
    PROVE  b >= 0 /\ (a = -1 => t = Expected(e) /\ b = 0)
<1>1. Len(S) \in Nat
  BY LenProperties
<1> QED
  BY <1>1 DEF Step

\* After k whole messages comes the header of the next one; after a header of
\* size > 0 the body.
LEMMA StepHeader ==
    ASSUME NEW e, NEW S \in Seq(Msg), NEW k \in Nat, NEW t, NEW b, Step(e, S, 2 * k, t, b)
    PROVE  /\ k + 1 \in 1..Len(S) /\ t = Header(S[k + 1])
           /\ b = IF S[k + 1] \in Sized THEN 2 * k + 1 ELSE 2 * k + 2
<1>1. Len(S) \in Nat
  BY LenProperties
<1>2. PICK n \in 1..Len(S) :
         \/ 2 * k = 2 * (n - 1) /\ t = Header(S[n]) /\ b = IF S[n] \in Sized THEN 2 * n - 1 ELSE 2 * n
         \/ 2 * k = 2 * n - 1
  BY <1>1 DEF Step
<1>3. n = k + 1
  BY <1>1, <1>2
<1> QED
  BY <1>1, <1>2, <1>3

\* Behind a header with a size comes its body.
LEMMA StepBody ==
    ASSUME NEW e, NEW S \in Seq(Msg), NEW k \in Nat, NEW t, NEW b, Step(e, S, 2 * k + 1, t, b)
    PROVE  /\ k + 1 \in 1..Len(S) /\ S[k + 1] \in Sized /\ t = Body(S[k + 1]) /\ b = 2 * k + 2
<1>1. Len(S) \in Nat
  BY LenProperties
<1>2. PICK n \in 1..Len(S) :
         \/ 2 * k + 1 = 2 * (n - 1)
         \/ 2 * k + 1 = 2 * n - 1 /\ S[n] \in Sized /\ t = Body(S[n]) /\ b = 2 * n
  BY <1>1 DEF Step
<1>3. n = k + 1
  BY <1>1, <1>2
<1> QED
  BY <1>1, <1>2, <1>3

\* The tokens of a message that was sent are steps.
LEMMA StepIntro ==
    ASSUME NEW e, NEW S \in Seq(Msg), NEW k \in Nat, k + 1 \in 1..Len(S)
    PROVE  /\ Step(e, S, 2 * k, Header(S[k + 1]),
                   IF S[k + 1] \in Sized THEN 2 * k + 1 ELSE 2 * k + 2)
           /\ S[k + 1] \in Sized => Step(e, S, 2 * k + 1, Body(S[k + 1]), 2 * k + 2)
<1> DEFINE n == k + 1
<1>1. 2 * k = 2 * (n - 1) /\ 2 * k + 1 = 2 * n - 1 /\ 2 * k + 2 = 2 * n /\ Len(S) \in Nat
  BY LenProperties
<1> QED
  BY <1>1 DEF Step

\* No tokens lead nowhere, ...
LEMMA ChainEmpty ==
    ASSUME NEW e, NEW S, NEW a \in Int
    PROVE  Chain(e, S, a, <<>>, a)
<1> DEFINE P == [i \in 0..Len(<<>>) |-> a]
<1>1. Len(<<>>) = 0 /\ P \in [0..Len(<<>>) -> Int] /\ P[0] = a
  BY EmptySeq
<1> HIDE DEF P
<1> QED
  BY <1>1 DEF Chain

\* ... a chain stays one when more is sent, ...
LEMMA ChainGrows ==
    ASSUME NEW e, NEW S \in Seq(Msg), NEW m \in Msg, NEW a, NEW w, NEW b, Chain(e, S, a, w, b)
    PROVE  Chain(e, Append(S, m), a, w, b)
  BY StepGrows DEF Chain

\* ... one step more makes a longer one, ...
LEMMA ChainAppend ==
    ASSUME NEW e, NEW S, NEW a, NEW w \in Seq(Token), NEW t \in Token, NEW b, NEW c \in Int,
           Chain(e, S, a, w, b), Step(e, S, b, t, c)
    PROVE  Chain(e, S, a, Append(w, t), c)
<1> DEFINE v == Append(w, t)
<1>1. /\ Len(w) \in Nat /\ Len(v) = Len(w) + 1 /\ v[Len(w) + 1] = t
      /\ \A i \in 1..Len(w) : v[i] = w[i]
  BY AppendProperties, LenProperties
<1> HIDE DEF v
<1>2. PICK P \in [0..Len(w) -> Int] :
        /\ P[0] = a /\ P[Len(w)] = b
        /\ \A i \in 1..Len(w) : Step(e, S, P[i - 1], w[i], P[i])
  BY DEF Chain
<1> DEFINE Q == [i \in 0..Len(v) |-> IF i = Len(v) THEN c ELSE P[i]]
<1>3. Q \in [0..Len(v) -> Int] /\ Q[0] = a /\ Q[Len(v)] = c
      /\ \A i \in 0..Len(w) : Q[i] = P[i]
  BY <1>1, <1>2
<1> HIDE DEF Q
<1>4. ASSUME NEW i \in 1..Len(v) PROVE Step(e, S, Q[i - 1], v[i], Q[i])
  <2>1. CASE i = Len(v)
    <3>1. i - 1 = Len(w) /\ Len(w) \in 0..Len(w) /\ v[i] = t
      BY <1>1, <2>1
    <3> QED
      BY <1>2, <1>3, <2>1, <3>1
  <2>2. CASE i # Len(v)
    <3>1. i \in 1..Len(w) /\ i \in 0..Len(w) /\ i - 1 \in 0..Len(w)
      BY <1>1, <2>2
    <3> QED
      BY <1>1, <1>2, <1>3, <3>1
  <2> QED
    BY <2>1, <2>2
<1> QED
  BY <1>3, <1>4 DEF Chain, v

\* ... and it starts with a step.
LEMMA ChainTail ==
    ASSUME NEW e, NEW S, NEW a, NEW w \in Seq(Token), w # <<>>, NEW b, Chain(e, S, a, w, b)
    PROVE  \E c \in Int : Step(e, S, a, Head(w), c) /\ Chain(e, S, c, Tail(w), b)
<1> DEFINE v == Tail(w)
<1>1. /\ Len(w) \in Nat \ {0} /\ Len(v) = Len(w) - 1 /\ Len(v) \in Nat /\ Head(w) = w[1]
      /\ \A i \in 1..Len(v) : v[i] = w[i + 1]
  BY HeadTailProperties, EmptySeq, LenProperties
<1> HIDE DEF v
<1>2. PICK P \in [0..Len(w) -> Int] :
        /\ P[0] = a /\ P[Len(w)] = b
        /\ \A i \in 1..Len(w) : Step(e, S, P[i - 1], w[i], P[i])
  BY DEF Chain
<1> DEFINE Q == [i \in 0..Len(v) |-> P[i + 1]]
<1>3. /\ Q \in [0..Len(v) -> Int] /\ Q[0] = P[1] /\ Q[Len(v)] = b
      /\ \A i \in 0..Len(v) : Q[i] = P[i + 1]
  BY <1>1, <1>2
<1> HIDE DEF Q
<1>4. ASSUME NEW i \in 1..Len(v) PROVE Step(e, S, Q[i - 1], v[i], Q[i])
  <2>1. i + 1 \in 1..Len(w) /\ (i + 1) - 1 = i /\ (i - 1) + 1 = i /\ i - 1 \in 0..Len(v) /\ i \in 0..Len(v)
    BY <1>1
  <2>2. Q[i - 1] = P[i] /\ Q[i] = P[i + 1]
    BY <1>3, <2>1
  <2> QED
    BY <1>1, <1>2, <2>1, <2>2
<1>5. Step(e, S, a, Head(w), P[1]) /\ P[1] \in Int
  <2>1. 1 \in 1..Len(w) /\ 1 - 1 = 0 /\ 1 \in 0..Len(w)
    BY <1>1
  <2> QED
    BY <1>1, <1>2, <2>1
<1> QED
  BY <1>3, <1>4, <1>5 DEF Chain, v

\* Nothing but the empty chain ends before the handshake word.
LEMMA ChainStart ==
    ASSUME NEW e, NEW S \in Seq(Msg), NEW a, NEW w \in Seq(Token), Chain(e, S, a, w, -1)
    PROVE  w = <<>> /\ a = -1
<1>1. PICK P \in [0..Len(w) -> Int] :
        /\ P[0] = a /\ P[Len(w)] = -1
        /\ \A i \in 1..Len(w) : Step(e, S, P[i - 1], w[i], P[i])
  BY DEF Chain
<1>2. CASE w = <<>>
  BY <1>1, <1>2, EmptySeq
<1>3. CASE w # <<>>
  <2>1. Len(w) \in 1..Len(w) /\ Len(w) \in 0..Len(w) /\ Len(w) - 1 \in 0..Len(w)
    BY <1>3, EmptySeq, LenProperties
  <2>2. Step(e, S, P[Len(w) - 1], w[Len(w)], P[Len(w)])
    BY <1>1, <2>1
  <2>3. P[Len(w)] >= 0
    BY <2>1, <2>2, StepPlaces
  <2> QED
    BY <1>1, <2>3
<1> QED
  BY <1>2, <1>3

-----------------------------------------------------------------------------
(* Framing: what keeps an end where it is in the stream to it. *)

\* What the handlers of e have used, and its bytes on the way, as before; more
\* may have been sent, and what the writer has given the kernel is kept track of.
SentGrows(p) == sent'[p] = sent[p] \/ \E m \in Msg : sent'[p] = Append(sent[p], m)

ReaderSame(e) == rd'[e] = rd[e] /\ inQ'[e] = inQ[e] /\ begun'[e] = begun[e]

WriterSame(p) == /\ begun'[p] = begun[p]
                 /\ p = "client" => (rd'[p].want = "word" <=> rd[p].want = "word")
                 /\ wr'[p] = wr[p] /\ outQ'[p] = outQ[p] /\ sent'[p] = sent[p]

\* A connection has two ends.
LEMMA PeerFacts ==
    /\ \A e \in End : Peer(e) \in End /\ Peer(e) # e /\ Peer(Peer(e)) = e
    /\ \A e \in End, f \in End : f = e \/ f = Peer(e)
  BY DEF Peer, End

\* The types that the framing lemmas need.
LEMMA SeqFacts ==
    ASSUME TypeOK, NEW e \in End
    PROVE  /\ sent[e] \in Seq(Msg) /\ outQ[e] \in Seq(Msg) /\ wr[e] \in Seq(Write)
           /\ wire[e] \in Seq(Token) /\ rd[e] \in Read /\ inQ[e] \in Seq(Delivery)
           /\ Len(sent[e]) \in Nat /\ Len(outQ[e]) \in Nat /\ Len(inQ[e]) \in Nat
           /\ Len(wr[e]) \in Nat /\ Popped(e) \in Int /\ begun[e] \in BOOLEAN /\ open[e] \in BOOLEAN
           /\ (rd[e].got # <<>> => rd[e].got[1] \in Token)
  BY LenProperties, ReadTypes DEF TypeOK, Popped

\* A reader's place is a number.
LEMMA PlaceInt ==
    ASSUME TypeOK, NEW e \in End
    PROVE  ReaderPlace(e) \in Int
  BY SeqFacts DEF ReaderPlace

\* What leaves a writer alone leaves its place.
LEMMA WriterSamePlace ==
    ASSUME NEW p \in End, WriterSame(p), NEW b
    PROVE  AtPlace(p, b)' <=> AtPlace(p, b)
  BY DEF WriterSame, AtPlace, WordUnsent, Popped

\* What leaves a reader alone leaves its place.
LEMMA GotToKept ==
    ASSUME TypeOK, NEW e \in End, ReaderSame(e), SentGrows(Peer(e)), NEW a, GotTo(e, a)
    PROVE  GotTo(e, a)'
<1>1. ReaderPlace(e)' = ReaderPlace(e)
  BY DEF ReaderSame, ReaderPlace
<1>2. sent[Peer(e)] \in Seq(Msg)
  BY SeqFacts, PeerFacts
<1>3. ASSUME NEW t, Step(e, sent[Peer(e)], ReaderPlace(e), t, a)
      PROVE  Step(e, sent'[Peer(e)], ReaderPlace(e), t, a)
  BY <1>2, <1>3, StepGrows DEF SentGrows
<1> QED
  BY <1>1, <1>3 DEF GotTo, ReaderSame

\* The other end wrote, or nobody did anything.
LEMMA FrameKept ==
    ASSUME TypeOK, NEW e \in End, Framed(e), ReaderSame(e), SentGrows(Peer(e)),
           wire'[e] = wire[e],
           Flowing(e)' => /\ Flowing(e)
                          /\ \A b \in Int : AtPlace(Peer(e), b) => AtPlace(Peer(e), b)'
    PROVE  Framed(e)'
<1>1. PICK a \in Int, b \in Int :
        /\ GotTo(e, a)
        /\ Chain(e, sent[Peer(e)], a, wire[e], b)
        /\ Flowing(e) => AtPlace(Peer(e), b)
  BY DEF Framed
<1>2. GotTo(e, a)'
  BY <1>1, GotToKept
<1>3. Chain(e, sent'[Peer(e)], a, wire'[e], b)
  <2>1. sent[Peer(e)] \in Seq(Msg)
    BY SeqFacts, PeerFacts
  <2>2. \A m \in Msg : Chain(e, Append(sent[Peer(e)], m), a, wire[e], b)
    BY <1>1, <2>1, ChainGrows
  <2> QED
    BY <1>1, <2>2 DEF SentGrows
<1>4. Flowing(e)' => AtPlace(Peer(e), b)'
  BY <1>1
<1> QED
  BY <1>2, <1>3, <1>4 DEF Framed

\* Nothing comes any more.
LEMMA FrameCut ==
    ASSUME TypeOK, TypeOK', NEW e \in End, Framed(e) \/ rd'[e].got = <<>>,
           ReaderSame(e) \/ rd'[e].got = <<>>,
           SentGrows(Peer(e)), wire'[e] = <<>>, ~Flowing(e)'
    PROVE  Framed(e)'
<1>1. \E a \in Int : GotTo(e, a)'
  <2>1. CASE rd'[e].got = <<>>
    <3>1. ReaderPlace(e)' \in Int
      BY SeqFacts DEF ReaderPlace, TypeOK
    <3> QED
      BY <2>1, <3>1 DEF GotTo
  <2>2. CASE rd'[e].got # <<>>
    <3>1. PICK a \in Int : GotTo(e, a)
      BY <2>2 DEF Framed
    <3>2. GotTo(e, a)'
      BY <2>2, <3>1, GotToKept
    <3> QED
      BY <3>2
  <2> QED
    BY <2>1, <2>2
<1>2. PICK a \in Int : GotTo(e, a)'
  BY <1>1
<1>3. Chain(e, sent'[Peer(e)], a, wire'[e], a)
  BY ChainEmpty
<1> QED
  BY <1>2, <1>3 DEF Framed

\* e took something in.
LEMMA FrameRead ==
    ASSUME TypeOK, NEW e \in End, Framed(e), wire'[e] = wire[e],
           sent'[Peer(e)] = sent[Peer(e)], WriterSame(Peer(e)), Flowing(e)' => Flowing(e),
           \A a \in Int : GotTo(e, a) => GotTo(e, a)'
    PROVE  Framed(e)'
<1>1. PICK a \in Int, b \in Int :
        /\ GotTo(e, a)
        /\ Chain(e, sent[Peer(e)], a, wire[e], b)
        /\ Flowing(e) => AtPlace(Peer(e), b)
  BY DEF Framed
<1>2. Flowing(e)' => AtPlace(Peer(e), b)'
  BY <1>1, WriterSamePlace, PeerFacts
<1> QED
  BY <1>1, <1>2 DEF Framed

-----------------------------------------------------------------------------
(* Framing: how far the kernel has been given the stream from an end. *)

\* No message is being written: the kernel has nothing of it.
LEMMA WithinNothing ==
    ASSUME NEW ws, ~HasMessageWrite(ws)
    PROVE  Within(ws, 0) /\ \A d : Within(ws, d) => d = 0
  BY DEF Within, HasMessageWrite

\* A write is started.
LEMMA WithinAppend ==
    ASSUME NEW ws \in Seq(Write), NEW x \in Write
    PROVE  /\ ~HasMessageWrite(ws) /\ IsMessageWrite(x) => Within(Append(ws, x), Written(x))
           /\ ~IsMessageWrite(x) => \A d : Within(ws, d) => Within(Append(ws, x), d)
<1>1. /\ Len(ws) \in Nat /\ Len(Append(ws, x)) = Len(ws) + 1
      /\ \A i \in 1..Len(ws) : Append(ws, x)[i] = ws[i] /\ i \in 1..Len(Append(ws, x))
      /\ Append(ws, x)[Len(ws) + 1] = x
      /\ Len(ws) + 1 \in 1..Len(Append(ws, x))
      /\ \A i \in 1..Len(Append(ws, x)) : i = Len(ws) + 1 \/ i \in 1..Len(ws)
  BY AppendProperties, LenProperties
<1>2. ASSUME ~HasMessageWrite(ws), IsMessageWrite(x) PROVE Within(Append(ws, x), Written(x))
  BY <1>1, <1>2 DEF Within, HasMessageWrite
<1>3. ASSUME ~IsMessageWrite(x), NEW d, Within(ws, d) PROVE Within(Append(ws, x), d)
  <2>1. HasMessageWrite(ws) => HasMessageWrite(Append(ws, x))
    BY <1>1 DEF HasMessageWrite
  <2> QED
    BY <1>1, <1>3, <2>1 DEF Within
<1> QED
  BY <1>2, <1>3

\* A write is finished.
LEMMA WithinTail ==
    ASSUME NEW ws \in Seq(Write), ws # <<>>, NEW d, Within(ws, d)
    PROVE  /\ ~IsMessageWrite(Head(ws)) => Within(Tail(ws), d)
           /\ IsMessageWrite(Head(ws)) => d = Written(Head(ws))
<1>1. /\ Len(Tail(ws)) = Len(ws) - 1 /\ Len(ws) \in Nat \ {0} /\ Head(ws) = ws[1]
      /\ \A i \in 1..Len(Tail(ws)) : Tail(ws)[i] = ws[i + 1] /\ i + 1 \in 1..Len(ws)
      /\ 1 \in 1..Len(ws)
  BY HeadTailProperties, EmptySeq, LenProperties
<1>2. ASSUME ~IsMessageWrite(Head(ws)) PROVE Within(Tail(ws), d)
  <2>1. HasMessageWrite(ws) => HasMessageWrite(Tail(ws))
    <3> SUFFICES ASSUME NEW i \in 1..Len(ws), IsMessageWrite(ws[i]) PROVE HasMessageWrite(Tail(ws))
      BY DEF HasMessageWrite
    <3>1. i # 1
      BY <1>1, <1>2
    <3>2. i - 1 \in 1..Len(Tail(ws)) /\ (i - 1) + 1 = i
      BY <1>1, <3>1
    <3> QED
      BY <1>1, <3>2 DEF HasMessageWrite
  <2> QED
    BY <1>1, <2>1 DEF Within
<1>3. IsMessageWrite(Head(ws)) => d = Written(Head(ws))
  BY <1>1 DEF Within
<1> QED
  BY <1>2, <1>3

\* Facts about the writes of an end, from the invariant.
WriteFacts(p) ==
    /\ TypeOK /\ p \in End
    /\ WritesOnlyFront(wr[p], outQ[p])
    /\ Words(p) /\ QueueIsRest(p) /\ BodiesSized(p)

\* Send
LEMMA PlaceSend ==
    ASSUME NEW p \in End, WriteFacts(p), RunSend(p), NEW b \in Int, AtPlace(p, b)
    PROVE  AtPlace(p, b)'
<1> DEFINE m == Head(posted[p])[2]
           x == WriteOf(Header(m))
<1>1. m \in Msg
  <2>1. Head(posted[p]) \in Post
    BY HeadTailProperties DEF RunSend, StartsWrite, WriteFacts, TypeOK
  <2>2. QED
    BY <2>1 DEF RunSend, StartsWrite, Post
<1> HIDE DEF m
<1>2. /\ outQ'[p] = Append(outQ[p], m) /\ sent'[p] = Append(sent[p], m)
      /\ wr'[p] = IF outQ[p] = <<>> THEN Append(wr[p], x) ELSE wr[p]
      /\ UNCHANGED <<begun, rd>>
  BY DEF RunSend, StartsWrite, WriteFacts, TypeOK, m
<1>3. Popped(p)' = Popped(p) /\ Popped(p) \in Int
  <2>1. /\ Len(outQ'[p]) = Len(outQ[p]) + 1 /\ Len(sent'[p]) = Len(sent[p]) + 1
        /\ Len(outQ[p]) \in Nat /\ Len(sent[p]) \in Nat
    BY <1>1, <1>2, SeqFacts, AppendProperties DEF WriteFacts
  <2> QED
    BY <2>1 DEF Popped
<1>4. x \in Write /\ IsMessageWrite(x) /\ Written(x) = 0 /\ wr[p] \in Seq(Write)
  BY <1>1, TokenTypes, SeqFacts DEF IsMessageWrite, Written, WriteOf, Header, WriteFacts
<1> HIDE DEF x
<1>5. WordUnsent(p)' <=> WordUnsent(p)
  <2>1. HasUnsentWord(wr'[p]) <=> HasUnsentWord(wr[p])
    BY <1>2, <1>4, AppendToWords
  <2> QED
    BY <1>2, <2>1 DEF WordUnsent
<1>6. \A d : Within(wr[p], d) => Within(wr'[p], d)
  <2>1. CASE outQ[p] = <<>>
    <3>1. ~HasMessageWrite(wr[p])
      BY <2>1 DEF WriteFacts, WritesOnlyFront, HasMessageWrite
    <3>2. Within(wr'[p], 0)
      BY <1>2, <1>4, <2>1, <3>1, WithinAppend
    <3> QED
      BY <3>1, <3>2, WithinNothing
  <2>2. CASE outQ[p] # <<>>
    BY <1>2, <2>2
  <2> QED
    BY <2>1, <2>2
<1> QED
  BY <1>3, <1>5, <1>6 DEF AtPlace

\* The handshake word is written and its handler has run.
LEMMA PlaceWordDone ==
    ASSUME NEW p \in End, WriteFacts(p), WriteValidationDone(p), NEW b \in Int, AtPlace(p, b)
    PROVE  AtPlace(p, b)'
<1>1. /\ wr[p] # <<>> /\ wr[p] \in Seq(Write) /\ wr'[p] = Tail(wr[p])
      /\ IsWord(Head(wr[p])) /\ Head(wr[p]).done /\ ~IsMessageWrite(Head(wr[p]))
      /\ UNCHANGED <<begun, outQ, sent>>
      /\ p = "client" => rd'[p] = ReadOf("hdr")
  BY SeqFacts DEF WriteValidationDone, WriteDone, WriteFacts, TypeOK, IsWord, IsMessageWrite
<1>2. OneWord(wr[p], Expected(Peer(p)), p = "server")
  BY DEF WriteFacts, Words
<1>3. ~HasUnsentWord(wr[p]) /\ ~HasWord(Tail(wr[p]))
  BY <1>1, <1>2, TailWords
<1>4. HasWord(wr[p])
  <2>1. 1 \in 1..Len(wr[p]) /\ wr[p][1] = Head(wr[p])
    BY <1>1, EmptySeq, HeadTailProperties
  <2> QED
    BY <1>1, <2>1 DEF HasWord
<1>5. begun[p] /\ (p = "client" => rd[p].want = "none")
  BY <1>4 DEF WriteFacts, Words, NoRead
<1>6. ~WordUnsent(p) /\ ~WordUnsent(p)'
  BY <1>1, <1>3, <1>5 DEF WordUnsent, HasWord, HasUnsentWord, ReadOf
<1>7. \A d : Within(wr[p], d) => Within(wr'[p], d)
  BY <1>1, WithinTail
<1> QED
  BY <1>1, <1>6, <1>7 DEF AtPlace, Popped

\* What the writes look like when the oldest is a message the kernel has got.
LEMMA HeadMessage ==
    ASSUME NEW p \in End, WriteFacts(p), wr[p] # <<>>, Head(wr[p]).done,
           Head(wr[p]).tok[1] \in {"hdr", "body"}
    PROVE  /\ wr[p] \in Seq(Write) /\ Tail(wr[p]) \in Seq(Write)
           /\ IsMessageWrite(Head(wr[p])) /\ ~IsWord(Head(wr[p]))
           /\ ~HasMessageWrite(Tail(wr[p]))
           /\ (HasUnsentWord(Tail(wr[p])) <=> HasUnsentWord(wr[p]))
           /\ outQ[p] # <<>> /\ outQ[p] \in Seq(Msg) /\ Head(outQ[p]) \in Msg
           /\ Head(wr[p]).tok[2] = Head(outQ[p])
           /\ Head(wr[p]).tok[1] = "body" => Head(outQ[p]) \in Sized
           /\ Written(Head(wr[p])) # 0
<1>1. /\ wr[p] \in Seq(Write) /\ Tail(wr[p]) \in Seq(Write) /\ outQ[p] \in Seq(Msg)
      /\ 1 \in 1..Len(wr[p]) /\ wr[p][1] = Head(wr[p])
  BY SeqFacts, EmptySeq, HeadTailProperties DEF WriteFacts
<1>2. IsMessageWrite(Head(wr[p])) /\ ~IsWord(Head(wr[p]))
  BY DEF IsMessageWrite, IsWord
<1>3. outQ[p] # <<>> /\ Head(wr[p]).tok[2] = Head(outQ[p])
  BY <1>1, <1>2 DEF WriteFacts, WritesOnlyFront
<1>4. Head(outQ[p]) \in Msg
  BY <1>1, <1>3, HeadTailProperties
<1>5. ~HasMessageWrite(Tail(wr[p]))
  BY <1>1, <1>2, TailKeepsFront DEF WriteFacts
<1>6. HasUnsentWord(Tail(wr[p])) <=> HasUnsentWord(wr[p])
  BY <1>1, <1>2, TailWords DEF WriteFacts, Words
<1>7. Head(wr[p]).tok[1] = "body" => Head(outQ[p]) \in Sized
  BY <1>1, <1>3 DEF WriteFacts, BodiesSized
<1>8. Written(Head(wr[p])) # 0
  BY DEF Written
<1> QED
  BY <1>1, <1>2, <1>3, <1>4, <1>5, <1>6, <1>7, <1>8

\* pop_front() and the next header.
LEMMA PlaceNext ==
    ASSUME NEW p \in End, WriteFacts(p), wr[p] # <<>>, Head(wr[p]).done,
           Head(wr[p]).tok[1] \in {"hdr", "body"}, Written(Head(wr[p])) = 2,
           NextMessage(p), begun' = begun, rd' = rd, sent' = sent,
           NEW b \in Int, AtPlace(p, b)
    PROVE  AtPlace(p, b)'
<1> DEFINE rest == Tail(outQ[p])
           x == WriteOf(Header(Head(rest)))
<1>1. /\ wr[p] \in Seq(Write) /\ Tail(wr[p]) \in Seq(Write)
      /\ ~HasMessageWrite(Tail(wr[p])) /\ IsMessageWrite(Head(wr[p]))
      /\ (HasUnsentWord(Tail(wr[p])) <=> HasUnsentWord(wr[p]))
      /\ outQ[p] # <<>> /\ outQ[p] \in Seq(Msg)
  BY HeadMessage
<1>2. /\ outQ'[p] = rest /\ rest \in Seq(Msg) /\ Len(rest) = Len(outQ[p]) - 1
      /\ Len(outQ[p]) \in Nat /\ Len(sent[p]) \in Nat
      /\ wr'[p] = IF rest = <<>> THEN Tail(wr[p]) ELSE Append(Tail(wr[p]), x)
  BY <1>1, HeadTailProperties, SeqFacts DEF NextMessage, WriteFacts, TypeOK
<1>3. rest # <<>> => x \in Write /\ IsMessageWrite(x) /\ Written(x) = 0
  BY <1>2, TokenTypes, HeadTailProperties DEF IsMessageWrite, Written, WriteOf, Header
<1> HIDE DEF x, rest
<1>4. HasUnsentWord(wr'[p]) <=> HasUnsentWord(wr[p])
  <2>1. CASE rest = <<>>
    BY <1>1, <1>2, <2>1
  <2>2. CASE rest # <<>>
    <3>1. HasUnsentWord(Append(Tail(wr[p]), x)) <=> HasUnsentWord(Tail(wr[p]))
      BY <1>1, <1>3, <2>2, AppendToWords
    <3> QED
      BY <1>1, <1>2, <2>2, <3>1
  <2> QED
    BY <2>1, <2>2
<1>5. ~WordUnsent(p)
  <2>1. ~Within(wr[p], 0)
    BY <1>1, WithinTail
  <2> QED
    BY <2>1 DEF AtPlace
<1>6. b = 2 * Popped(p) + 2
  <2>1. Within(wr[p], b - 2 * Popped(p)) /\ Popped(p) \in Int
    BY <1>5, SeqFacts DEF AtPlace, WriteFacts
  <2>2. b - 2 * Popped(p) = 2
    BY <1>1, <2>1, WithinTail
  <2> QED
    BY <2>1, <2>2
<1>7. Popped(p)' = Popped(p) + 1 /\ Popped(p) \in Int
  BY <1>2 DEF Popped
<1>8. ~WordUnsent(p)'
  BY <1>4, <1>5 DEF WordUnsent
<1>9. Within(wr'[p], 0)
  <2>1. CASE rest = <<>>
    BY <1>1, <1>2, <2>1, WithinNothing
  <2>2. CASE rest # <<>>
    BY <1>1, <1>2, <1>3, <2>2, WithinAppend
  <2> QED
    BY <2>1, <2>2
<1>10. b - 2 * Popped(p)' = 0
  BY <1>6, <1>7
<1> QED
  BY <1>8, <1>9, <1>10 DEF AtPlace

\* A header is written: the place is that before its body, or after the message.
LEMMA PlaceHeaderDone ==
    ASSUME NEW p \in End, WriteFacts(p), WriteHeaderDone(p), NEW b \in Int, AtPlace(p, b)
    PROVE  AtPlace(p, b)'
<1>1. /\ wr[p] # <<>> /\ Head(wr[p]).done /\ Head(wr[p]).tok[1] = "hdr"
      /\ UNCHANGED <<begun, rd, sent>>
  BY DEF WriteHeaderDone, WriteDone
<1>2. CASE Head(outQ[p]) \in Sized
  <2> DEFINE x == WriteOf(Body(Head(outQ[p])))
  <2>1. /\ wr[p] \in Seq(Write) /\ Tail(wr[p]) \in Seq(Write)
        /\ ~HasMessageWrite(Tail(wr[p])) /\ IsMessageWrite(Head(wr[p]))
        /\ (HasUnsentWord(Tail(wr[p])) <=> HasUnsentWord(wr[p]))
        /\ Head(outQ[p]) \in Msg /\ Head(wr[p]).tok[2] = Head(outQ[p])
        /\ Written(Head(wr[p])) # 0
    BY <1>1, HeadMessage
  <2>2. wr'[p] = Append(Tail(wr[p]), x) /\ outQ' = outQ
    BY <1>2 DEF WriteHeaderDone, WriteFacts, TypeOK
  <2>3. x \in Write /\ IsMessageWrite(x) /\ Written(x) = 1
    BY <2>1, TokenTypes DEF IsMessageWrite, Written, WriteOf, Body
  <2>4. Written(Head(wr[p])) = 1
    BY <1>1, <1>2, <2>1 DEF Written
  <2> HIDE DEF x
  <2>5. Within(wr'[p], 1)
    BY <2>1, <2>2, <2>3, WithinAppend
  <2>6. HasUnsentWord(wr'[p]) <=> HasUnsentWord(wr[p])
    <3>1. HasUnsentWord(Append(Tail(wr[p]), x)) <=> HasUnsentWord(Tail(wr[p]))
      BY <2>1, <2>3, AppendToWords
    <3> QED
      BY <2>1, <2>2, <3>1
  <2>7. \A d : Within(wr[p], d) => d = 1
    BY <1>1, <2>1, <2>4, WithinTail
  <2>8. WordUnsent(p)' = WordUnsent(p) /\ Popped(p)' = Popped(p)
    BY <1>1, <2>2, <2>6 DEF WordUnsent, Popped
  <2>9. ~WordUnsent(p) /\ Within(wr[p], b - 2 * Popped(p))
    <3>1. ~Within(wr[p], 0)
      BY <2>7
    <3> QED
      BY <3>1 DEF AtPlace
  <2>10. b - 2 * Popped(p) = 1
    BY <2>7, <2>9
  <2>11. Within(wr[p]', b - 2 * Popped(p)')
    BY <2>5, <2>8, <2>10
  <2> QED
    BY <2>8, <2>9, <2>11 DEF AtPlace
<1>3. CASE Head(outQ[p]) \notin Sized
  <2>1. Written(Head(wr[p])) = 2
    BY <1>1, <1>3, HeadMessage DEF Written
  <2>2. NextMessage(p)
    BY <1>3 DEF WriteHeaderDone
  <2> QED
    BY <1>1, <2>1, <2>2, PlaceNext
<1> QED
  BY <1>2, <1>3

\* A body is written: the place is that after the message.
LEMMA PlaceBodyDone ==
    ASSUME NEW p \in End, WriteFacts(p), WriteBodyDone(p), NEW b \in Int, AtPlace(p, b)
    PROVE  AtPlace(p, b)'
<1>1. /\ wr[p] # <<>> /\ Head(wr[p]).done /\ Head(wr[p]).tok[1] = "body"
      /\ UNCHANGED <<begun, rd, sent>> /\ NextMessage(p)
  BY DEF WriteBodyDone, WriteDone
<1>2. Written(Head(wr[p])) = 2
  BY <1>1 DEF Written
<1> QED
  BY <1>1, <1>2, PlaceNext

-----------------------------------------------------------------------------
(* Framing: the kernel takes the bytes of a write. *)

\* A token is the handshake word or a part of a message.
LEMMA TokenCases ==
    ASSUME NEW t \in Token
    PROVE  t[1] = "word" \/ (t[2] \in Msg /\ (t = Header(t[2]) \/ t = Body(t[2])))
  BY DEF Token, Header, Body

\* What the front of m_qMessagesOut is.
LEMMA FrontIsNext ==
    ASSUME NEW p \in End, WriteFacts(p), outQ[p] # <<>>
    PROVE  /\ Popped(p) \in Nat /\ Popped(p) + 1 \in 1..Len(sent[p])
           /\ Head(outQ[p]) = sent[p][Popped(p) + 1]
<1>1. /\ Len(outQ[p]) \in Nat \ {0} /\ Len(sent[p]) \in Nat /\ Head(outQ[p]) = outQ[p][1]
  BY SeqFacts, EmptySeq, HeadTailProperties DEF WriteFacts
<1>2. Len(outQ[p]) <= Len(sent[p]) /\ outQ[p][1] = sent[p][Popped(p) + 1]
  BY <1>1 DEF WriteFacts, QueueIsRest
<1>3. Popped(p) \in Nat /\ Popped(p) + 1 \in 1..Len(sent[p])
  <2>1. Popped(p) = Len(sent[p]) - Len(outQ[p])
    BY DEF Popped
  <2>2. Len(outQ[p]) <= Len(sent[p]) /\ Len(outQ[p]) >= 1
    BY <1>1, <1>2
  <2>3. \A l \in Nat, n \in Nat : 1 <= l /\ l <= n => n - l \in Nat /\ (n - l) + 1 \in 1..n
    OBVIOUS
  <2> QED
    BY <1>1, <2>1, <2>2, <2>3
<1> QED
  BY <1>1, <1>2, <1>3

\* The k-th write, one of a message, gets done.
LEMMA WithinTransmit ==
    ASSUME NEW ws \in Seq(Write), NEW vs, NEW k \in 1..Len(ws), NEW q,
           Len(vs) = Len(ws), \A i \in 1..Len(ws) : vs[i].tok = ws[i].tok /\ (i # k => vs[i] = ws[i])
    PROVE  /\ ~IsMessageWrite(ws[k]) => \A d : Within(ws, d) => Within(vs, d)
           /\ IsMessageWrite(ws[k]) /\ WritesOnlyFront(ws, q) => Within(vs, Written(vs[k]))
<1>1. \A i \in 1..Len(ws) : IsMessageWrite(vs[i]) <=> IsMessageWrite(ws[i])
  BY DEF IsMessageWrite
<1>2. HasMessageWrite(vs) <=> HasMessageWrite(ws)
  BY <1>1 DEF HasMessageWrite
<1>3. ASSUME ~IsMessageWrite(ws[k]), NEW d, Within(ws, d) PROVE Within(vs, d)
  BY <1>1, <1>2, <1>3 DEF Within
<1>4. ASSUME IsMessageWrite(ws[k]), WritesOnlyFront(ws, q) PROVE Within(vs, Written(vs[k]))
  <2>1. \A i \in 1..Len(vs) : IsMessageWrite(vs[i]) => i = k
    BY <1>1, <1>4 DEF WritesOnlyFront
  <2>2. HasMessageWrite(vs)
    BY <1>2, <1>4 DEF HasMessageWrite
  <2> QED
    BY <2>1, <2>2 DEF Within
<1> QED
  BY <1>3, <1>4

\* The kernel takes the bytes of a write.
LEMMA FrameTransmit ==
    ASSUME NEW p \in End, WriteFacts(p), NothingBeforeAccept, Transmit(p), Framed(Peer(p))
    PROVE  Framed(Peer(p))' \/ (p = "client" /\ Doomed')
<1> DEFINE e == Peer(p)
           S == sent[p]
<1>1. PICK k \in 1..Len(wr[p]) :
          /\ ~wr[p][k].done
          /\ \A j \in 1..(k - 1) : wr[p][j].done
          /\ wr' = [wr EXCEPT ![p][k].done = TRUE]
          /\ wire' = IF PeerGone(p) THEN wire
                     ELSE [wire EXCEPT ![Peer(p)] = Append(@, wr[p][k].tok)]
  BY DEF Transmit
<1> DEFINE w == wr[p][k]
           vs == [wr[p] EXCEPT ![k].done = TRUE]
<1>2. /\ e \in End /\ e # p /\ Peer(e) = p /\ TypeOK
      /\ wr[p] \in Seq(Write) /\ wire[e] \in Seq(Token) /\ S \in Seq(Msg) /\ w \in Write
      /\ Popped(p) \in Int /\ Len(wr[p]) \in Nat
  BY PeerFacts, SeqFacts, ElementOfSeq DEF WriteFacts
<1>3. /\ wr'[p] = vs /\ UNCHANGED <<link, begun, open, outQ, rd, inQ, sent>>
      /\ link = "up" /\ open[p]
  BY <1>1 DEF Transmit, WriteFacts, TypeOK
<1>4. ReaderSame(e) /\ SentGrows(p)
  BY <1>3 DEF ReaderSame, SentGrows
<1>5. CASE ~open[e]
  <2>1. wire'[e] = wire[e] /\ ~Flowing(e)'
    BY <1>1, <1>3, <1>5 DEF PeerGone, Flowing
  <2> QED
    BY <1>2, <1>4, <2>1, FrameKept
<1>6. CASE open[e]
  <2>1. wire'[e] = Append(wire[e], w.tok) /\ Flowing(e)
    BY <1>1, <1>2, <1>3, <1>6 DEF PeerGone, Flowing, TypeOK
  <2>2. PICK a \in Int, b \in Int :
          GotTo(e, a) /\ Chain(e, S, a, wire[e], b) /\ AtPlace(p, b)
    BY <1>2, <2>1 DEF Framed
  <2>3. GotTo(e, a)'
    BY <1>2, <1>4, <2>2, GotToKept
  <2>4. /\ w.tok \in Token
        /\ Len(vs) = Len(wr[p]) /\ vs[k].done
        /\ \A i \in 1..Len(wr[p]) : vs[i].tok = wr[p][i].tok /\ (i # k => vs[i] = wr[p][i])
        /\ ~IsWord(w) => (HasUnsentWord(vs) <=> HasUnsentWord(wr[p]))
        /\ \A t, first : IsWord(w) /\ OneWord(wr[p], t, first) => ~HasUnsentWord(vs)
    BY <1>1, <1>2, TransmitWords DEF Write
  <2> HIDE DEF vs
  <2>5. SUFFICES (\E c \in Int : Step(e, S, b, w.tok, c) /\ AtPlace(p, c)')
                 \/ (p = "client" /\ Doomed')
    <3>1. ASSUME NEW c \in Int, Step(e, S, b, w.tok, c), AtPlace(p, c)'
          PROVE  Framed(e)'
      <4>1. Chain(e, sent'[p], a, wire'[e], c)
        BY <1>2, <1>3, <2>1, <2>2, <2>4, <3>1, ChainAppend
      <4> QED
        BY <1>2, <2>3, <3>1, <4>1 DEF Framed
    <3> QED
      BY <3>1
  <2>6. CASE IsWord(w)
    <3>1. w.tok = Expected(e) /\ begun[p] /\ (p = "client" => rd[p] = NoRead)
          /\ OneWord(wr[p], Expected(e), p = "server")
      BY <2>6 DEF WriteFacts, Words, OneWord, HasWord
    <3>2. WordUnsent(p)
      BY <1>1, <2>6 DEF WordUnsent, HasUnsentWord
    <3>3. b = -1 /\ Popped(p) = 0 /\ Within(wr[p], 0)
      BY <2>2, <3>2 DEF AtPlace
    <3>4. Step(e, S, b, w.tok, 0)
      BY <3>1, <3>3 DEF Step
    <3>5. ~WordUnsent(p)'
      BY <1>3, <2>4, <2>6, <3>1 DEF WordUnsent, NoRead
    <3>6. Within(vs, 0)
      <4>1. ~IsMessageWrite(w)
        BY <2>6 DEF IsWord, IsMessageWrite
      <4> QED
        BY <1>2, <2>4, <3>3, <4>1, WithinTransmit
    <3>7. Popped(p)' = Popped(p)
      BY <1>3 DEF Popped
    <3>8. AtPlace(p, 0)'
      BY <1>3, <3>3, <3>5, <3>6, <3>7 DEF AtPlace
    <3> QED
      BY <3>4, <3>8
  <2>7. CASE ~IsWord(w) /\ WordUnsent(p)
    <3>1. b = -1
      BY <2>2, <2>7 DEF AtPlace
    <3>2. wire[e] = <<>> /\ a = -1
      BY <1>2, <2>2, <3>1, ChainStart
    <3>3. p = "client"
      <4> SUFFICES ASSUME p = "server" PROVE FALSE
        BY DEF End
      <4>1. begun[p]
        BY <1>1, <1>2, EmptySeq DEF NothingBeforeAccept
      <4>2. PICK i \in 1..Len(wr[p]) : IsWord(wr[p][i]) /\ ~wr[p][i].done
        BY <2>7, <4>1 DEF WordUnsent, HasUnsentWord
      <4>3. i = 1
        BY <4>2 DEF WriteFacts, Words, OneWord
      <4>4. k # 1
        BY <2>7, <4>2, <4>3
      <4>5. 1 \in 1..(k - 1)
        BY <1>2, <4>4
      <4> QED
        BY <1>1, <4>2, <4>3, <4>5
    <3>4. e = "server"
      BY <3>3 DEF Peer
    <3>5. rd[e].got = <<>>
      <4> SUFFICES ASSUME rd[e].got # <<>> PROVE FALSE
        OBVIOUS
      <4>1. Step(e, S, ReaderPlace(e), rd[e].got[1], a)
        BY <1>2, <2>2 DEF GotTo
      <4>2. ReaderPlace(e) \in Int
        BY <1>2, PlaceInt
      <4>3. a >= 0
        BY <1>2, <4>1, <4>2, StepPlaces
      <4> QED
        BY <3>2, <4>3
    <3>6. rd[e].want \in {"none", "word"}
      <4>1. ReaderPlace(e) = -1 /\ Len(inQ[e]) \in Nat /\ rd[e] \in Read
        BY <1>2, <2>2, <3>2, <3>5, SeqFacts DEF GotTo
      <4>2. rd[e].want \in {"none", "word", "hdr", "body"}
        BY <4>1 DEF Read
      <4> QED
        BY <4>1, <4>2 DEF ReaderPlace
    <3>7. wire'[e] = <<w.tok>>
      BY <2>1, <3>2
    <3>8. w.tok[2] = S[1] /\ S # <<>> /\ Written(w) = 0
      <4>1. IsMessageWrite(w) /\ Popped(p) = 0 /\ Within(wr[p], 0)
        BY <2>2, <2>7 DEF IsWord, IsMessageWrite, AtPlace
      <4>2. outQ[p] # <<>> /\ w.tok[2] = Head(outQ[p])
        BY <4>1 DEF WriteFacts, WritesOnlyFront
      <4>3. 1 \in 1..Len(S) /\ Head(outQ[p]) = S[1]
        BY <4>1, <4>2, FrontIsNext
      <4> QED
        BY <1>2, <4>1, <4>2, <4>3, EmptySeq DEF Within
    <3>9. w.tok = Header(S[1])
      <4>1. w.tok = Header(w.tok[2]) \/ w.tok = Body(w.tok[2])
        BY <2>4, <2>7, TokenCases DEF IsWord
      <4>2. w.tok[1] # "body"
        BY <3>8 DEF Written
      <4> QED
        BY <3>8, <4>1, <4>2 DEF Body
    <3>10. sent'["client"] # <<>> /\ w.tok = Header(sent'["client"][1])
      BY <1>3, <3>3, <3>8, <3>9
    <3>11. wire'[e] # <<>> /\ wire'[e][1] = w.tok
      BY <3>7
    <3>12. rd'["server"] = rd["server"] /\ wire'["server"] # <<>>
           /\ wire'["server"][1] = Header(sent'["client"][1])
      BY <1>3, <3>4, <3>10, <3>11
    <3> QED
      BY <3>3, <3>4, <3>5, <3>6, <3>10, <3>12 DEF Doomed, EarlyHeader
  <2>8. CASE ~IsWord(w) /\ ~WordUnsent(p)
    <3> DEFINE j == Popped(p)
    <3>1. IsMessageWrite(w)
      BY <2>8 DEF IsWord, IsMessageWrite
    <3>2. outQ[p] # <<>> /\ w.tok[2] = Head(outQ[p])
      BY <3>1 DEF WriteFacts, WritesOnlyFront
    <3>3. j \in Nat /\ j + 1 \in 1..Len(S) /\ w.tok[2] = S[j + 1]
      BY <3>2, FrontIsNext
    <3>4. Written(w) = b - 2 * j
      BY <2>2, <2>8, <3>1 DEF AtPlace, Within
    <3>5. ~WordUnsent(p)' /\ Popped(p)' = j
      BY <1>3, <2>4, <2>8 DEF WordUnsent, Popped
    <3>6. Within(vs, Written(vs[k]))
      BY <1>2, <2>4, <3>1, WithinTransmit DEF WriteFacts
    <3>7. w.tok = Header(S[j + 1]) \/ w.tok = Body(S[j + 1])
      BY <2>4, <2>8, <3>3, TokenCases DEF IsWord
    <3>8. vs[k].done /\ vs[k].tok = w.tok /\ ~w.done
      BY <1>1, <2>4
    <3>9. CASE w.tok = Header(S[j + 1])
      <4> PICK c \in Int : c = IF S[j + 1] \in Sized THEN 2 * j + 1 ELSE 2 * j + 2
        BY <3>3
      <4>1. Written(w) = 0 /\ Written(vs[k]) = IF S[j + 1] \in Sized THEN 1 ELSE 2
        BY <3>8, <3>9 DEF Written, Header
      <4>2. b = 2 * j
        <5>1. b \in Int /\ j \in Int /\ b - 2 * j = 0
          BY <3>3, <3>4, <4>1
        <5> HIDE DEF j
        <5> QED
          BY <5>1
      <4>3. Step(e, S, b, w.tok, c) /\ c \in Int
        <5>1. Step(e, S, 2 * j, Header(S[j + 1]), c)
          BY <1>2, <3>3, StepIntro
        <5> QED
          BY <3>9, <4>2, <5>1
      <4>4. Written(vs[k]) = c - 2 * j
        BY <3>3, <4>1
      <4>5. AtPlace(p, c)'
        BY <1>3, <3>5, <3>6, <4>4 DEF AtPlace
      <4> QED
        BY <4>3, <4>5
    <3>10. CASE w.tok = Body(S[j + 1])
      <4> PICK c \in Int : c = 2 * j + 2
        BY <3>3
      <4>1. Written(w) = 1 /\ Written(vs[k]) = 2
        BY <3>8, <3>10 DEF Written, Body
      <4>2. b = 2 * j + 1
        BY <3>3, <3>4, <4>1
      <4>3. S[j + 1] \in Sized
        <5>1. w.tok[1] = "body" /\ w.tok[2] = S[j + 1]
          BY <3>10 DEF Body
        <5> QED
          BY <5>1 DEF WriteFacts, BodiesSized
      <4>4. Step(e, S, b, w.tok, c) /\ c \in Int
        <5>1. Step(e, S, 2 * j + 1, Body(S[j + 1]), c)
          BY <1>2, <3>3, <4>3, StepIntro
        <5> QED
          BY <3>10, <4>2, <5>1
      <4>5. Written(vs[k]) = c - 2 * j
        BY <3>3, <4>1
      <4>6. AtPlace(p, c)'
        BY <1>3, <3>5, <3>6, <4>5 DEF AtPlace
      <4> QED
        BY <4>4, <4>6
    <3> QED
      BY <3>7, <3>9, <3>10
  <2> QED
    BY <2>6, <2>7, <2>8
<1> QED
  BY <1>5, <1>6, <1>2 DEF TypeOK

-----------------------------------------------------------------------------
(* Framing: the network, the applications and the write handlers. *)

\* What the invariants say of the outstanding writes of an end.
LEMMA FactsOfWrites ==
    ASSUME IInv, FrameInv, NEW p \in End
    PROVE  WriteFacts(p)
  BY DEF IInv, FrameInv, WriteFacts, PumpWritesFront

\* Steps that neither end's place depends on.
LEMMA FrameUntouched ==
    ASSUME IInv, NEW e \in End, Framed(e), ReaderSame(e), WriterSame(Peer(e)),
           wire'[e] = wire[e], Flowing(e)' => Flowing(e)
    PROVE  Framed(e)'
<1>1. SentGrows(Peer(e))
  BY DEF WriterSame, SentGrows
<1>2. \A b \in Int : AtPlace(Peer(e), b) => AtPlace(Peer(e), b)'
  BY WriterSamePlace, PeerFacts
<1> QED
  BY <1>1, <1>2, FrameKept DEF IInv

\* The steps of the network keep the framing, or the client wrote too early.
LEMMA FrameNetwork ==
    ASSUME IInv, IInv', FrameInv, NEW e \in End, Framed(e), Network
    PROVE  Framed(e)' \/ (e = "server" /\ Doomed')
<1>1. Peer(e) \in End /\ Peer(e) # e /\ Peer(Peer(e)) = e
  BY PeerFacts
<1>2. CASE Establish \/ Refuse \/ Break
  <2>1. /\ UNCHANGED <<begun, open, outQ, wr, rd, inQ, sent>>
        /\ Flowing(e)' => Flowing(e)
        /\ wire' = wire \/ (wire'[e] = <<>> /\ ~Flowing(e)')
    BY <1>2 DEF Establish, Refuse, Break, Flowing
  <2>2. ReaderSame(e) /\ WriterSame(Peer(e)) /\ SentGrows(Peer(e))
    BY <2>1 DEF ReaderSame, WriterSame, SentGrows
  <2>3. CASE wire' = wire
    BY <2>1, <2>2, <2>3, FrameUntouched
  <2>4. CASE wire'[e] = <<>> /\ ~Flowing(e)'
    BY <2>2, <2>4, FrameCut DEF IInv
  <2> QED
    BY <2>1, <2>3, <2>4
<1>3. CASE Transmit(e)
  <2>1. /\ UNCHANGED <<link, begun, open, outQ, rd, inQ, sent>>
        /\ wr'[Peer(e)] = wr[Peer(e)] /\ wire'[e] = wire[e]
    BY <1>1, <1>3 DEF Transmit, IInv, TypeOK
  <2>2. ReaderSame(e) /\ WriterSame(Peer(e)) /\ (Flowing(e)' => Flowing(e))
    BY <2>1 DEF ReaderSame, WriterSame, Flowing
  <2> QED
    BY <2>1, <2>2, FrameUntouched
<1>4. CASE Transmit(Peer(e))
  <2>1. Framed(e)' \/ (Peer(e) = "client" /\ Doomed')
    BY <1>1, <1>4, FrameTransmit, FactsOfWrites DEF IInv
  <2> QED
    BY <2>1 DEF Peer, End
<1>5. CASE Arrive(e)
  <2>1. /\ rd[e].got = <<>> /\ wire[e] # <<>>
        /\ rd'[e] = [rd[e] EXCEPT !.got = <<Head(wire[e])>>] /\ wire'[e] = Tail(wire[e])
        /\ rd'[Peer(e)] = rd[Peer(e)]
        /\ UNCHANGED <<link, begun, open, outQ, wr, inQ, sent>>
    BY <1>1, <1>5 DEF Arrive, IInv, TypeOK
  <2>2. rd'[e].want = rd[e].want /\ rd'[e].got = <<Head(wire[e])>>
    BY <2>1, SeqFacts DEF IInv, Read
  <2>3. ReaderPlace(e)' = ReaderPlace(e) /\ WriterSame(Peer(e)) /\ Flowing(e)' = Flowing(e)
    BY <2>1, <2>2 DEF ReaderPlace, WriterSame, Flowing
  <2>4. PICK a \in Int, b \in Int :
          /\ GotTo(e, a)
          /\ Chain(e, sent[Peer(e)], a, wire[e], b)
          /\ Flowing(e) => AtPlace(Peer(e), b)
    BY DEF Framed
  <2>5. PICK c \in Int : /\ Step(e, sent[Peer(e)], a, Head(wire[e]), c)
                         /\ Chain(e, sent[Peer(e)], c, Tail(wire[e]), b)
    BY <2>1, <2>4, SeqFacts, ChainTail DEF IInv
  <2>6. GotTo(e, c)'
    BY <2>1, <2>2, <2>3, <2>4, <2>5 DEF GotTo
  <2>7. Chain(e, sent'[Peer(e)], c, wire'[e], b)
    BY <2>1, <2>5
  <2>8. Flowing(e)' => AtPlace(Peer(e), b)'
    BY <1>1, <2>3, <2>4, WriterSamePlace
  <2> QED
    BY <2>6, <2>7, <2>8 DEF Framed
<1>6. CASE Arrive(Peer(e))
  <2>1. /\ rd'[e] = rd[e] /\ wire'[e] = wire[e] /\ rd'[Peer(e)].want = rd[Peer(e)].want
        /\ UNCHANGED <<link, begun, open, outQ, wr, inQ, sent>>
    BY <1>1, <1>6, SeqFacts DEF Arrive, IInv, TypeOK, Read
  <2>2. ReaderSame(e) /\ WriterSame(Peer(e)) /\ (Flowing(e)' => Flowing(e))
    BY <2>1 DEF ReaderSame, WriterSame, Flowing
  <2> QED
    BY <2>1, <2>2, FrameUntouched
<1> QED
  BY <1>2, <1>3, <1>4, <1>5, <1>6, PeerFacts DEF Network

\* close() at one end: neither end gets anything any more.
LEMMA FrameClose ==
    ASSUME IInv, IInv', FrameInv, NEW f \in End, NEW e \in End, Framed(e), Close(f),
           link' = link, begun' = begun, inQ' = inQ, sent' = sent,
           rd' = rd \/ (rd'[f].got = <<>> /\ rd'[Peer(f)] = rd[Peer(f)])
    PROVE  Framed(e)'
<1>1. Peer(e) \in End /\ Peer(e) # e /\ Peer(Peer(e)) = e
  BY PeerFacts
<1>2. ~open'[f] /\ wire'[f] = <<>> /\ (e # f => wire'[e] = wire[e])
  BY DEF Close, IInv, TypeOK
<1>3. ~Flowing(e)'
  BY <1>1, <1>2, PeerFacts DEF Flowing
<1>4. SentGrows(Peer(e))
  BY DEF SentGrows
<1>5. CASE e = f
  <2>1. ReaderSame(e) \/ rd'[e].got = <<>>
    BY <1>5 DEF ReaderSame
  <2> QED
    BY <1>2, <1>3, <1>4, <1>5, <2>1, FrameCut DEF IInv
<1>6. CASE e # f
  <2>1. ReaderSame(e)
    BY <1>6, PeerFacts DEF ReaderSame
  <2> QED
    BY <1>2, <1>3, <1>4, <1>6, <2>1, FrameKept DEF IInv
<1> QED
  BY <1>5, <1>6

\* Send and Disconnect keep the framing.
LEMMA FrameApplication ==
    ASSUME IInv, IInv', FrameInv, NEW e \in End, Framed(e), NEW f \in End,
           Application(f) \/ Posted(f)
    PROVE  Framed(e)'
<1>1. Peer(e) \in End /\ Peer(e) # e /\ Peer(Peer(e)) = e
  BY PeerFacts
<1>2. CASE Application(f) \/ (RunSend(f) /\ f = e)
  <2>1. /\ UNCHANGED <<link, begun, open, wire, rd, inQ>>
        /\ wr'[Peer(e)] = wr[Peer(e)] /\ outQ'[Peer(e)] = outQ[Peer(e)]
        /\ sent'[Peer(e)] = sent[Peer(e)]
    <3>1. CASE Application(f)
      BY <3>1 DEF Application, AppSend, AppDisconnect
    <3>2. CASE RunSend(f) /\ f = e
      BY <1>1, <3>2 DEF RunSend, StartsWrite, IInv, TypeOK
    <3> QED
      BY <1>2, <3>1, <3>2
  <2>2. ReaderSame(e) /\ WriterSame(Peer(e)) /\ (Flowing(e)' => Flowing(e))
    BY <2>1 DEF ReaderSame, WriterSame, Flowing
  <2> QED
    BY <2>1, <2>2, FrameUntouched
<1>3. CASE RunSend(f) /\ f = Peer(e)
  <2>1. \A b \in Int : AtPlace(f, b) => AtPlace(f, b)'
    BY <1>3, PlaceSend, FactsOfWrites
  <2>2. UNCHANGED <<link, begun, open, wire, rd, inQ>>
    BY <1>3 DEF RunSend
  <2>3. ReaderSame(e) /\ (Flowing(e)' => Flowing(e))
    BY <2>2 DEF ReaderSame, Flowing
  <2>4. SentGrows(f)
    <3>1. Head(posted[f])[2] \in Msg
      <4>1. Head(posted[f]) \in Post
        BY <1>3, HeadTailProperties DEF RunSend, StartsWrite, IInv, TypeOK
      <4>2. QED
        BY <1>3, <4>1 DEF RunSend, StartsWrite, Post
    <3> QED
      BY <1>3, <3>1 DEF RunSend, SentGrows, IInv, TypeOK
  <2> QED
    BY <1>3, <2>1, <2>2, <2>3, <2>4, FrameKept DEF IInv
<1>4. CASE RunClose(f)
  BY <1>4, FrameClose DEF RunClose
<1> QED
  BY <1>2, <1>3, <1>4, PeerFacts DEF Posted

\* Handlers of finished writes keep the framing.
LEMMA FrameWriteHandler ==
    ASSUME IInv, IInv', FrameInv, NEW e \in End, Framed(e), NEW f \in End, WriteHandler(f)
    PROVE  Framed(e)'
<1>1. Peer(e) \in End /\ Peer(e) # e /\ Peer(Peer(e)) = e
  BY PeerFacts
<1>2. CASE WriteFailed(f)
  BY <1>2, FrameClose DEF WriteFailed
<1>3. CASE f = Peer(e) /\ (WriteValidationDone(f) \/ WriteHeaderDone(f) \/ WriteBodyDone(f))
  <2>1. \A b \in Int : AtPlace(f, b) => AtPlace(f, b)'
    BY <1>3, PlaceWordDone, PlaceHeaderDone, PlaceBodyDone, FactsOfWrites
  <2>2. UNCHANGED <<link, begun, open, wire, inQ, sent>> /\ rd'[e] = rd[e]
    <3>1. CASE WriteValidationDone(f)
      BY <1>1, <1>3, <3>1 DEF WriteValidationDone, IInv, TypeOK
    <3>2. CASE WriteHeaderDone(f) \/ WriteBodyDone(f)
      BY <3>2 DEF WriteHeaderDone, WriteBodyDone
    <3> QED
      BY <1>3, <3>1, <3>2
  <2>3. ReaderSame(e) /\ (Flowing(e)' => Flowing(e)) /\ SentGrows(f)
    BY <2>2 DEF ReaderSame, Flowing, SentGrows
  <2> QED
    BY <1>3, <2>1, <2>2, <2>3, FrameKept DEF IInv
<1>4. CASE f = e /\ (WriteHeaderDone(f) \/ WriteBodyDone(f) \/ (WriteValidationDone(f) /\ e = "server"))
  <2>1. /\ UNCHANGED <<link, begun, open, wire, rd, inQ, sent>>
        /\ wr'[Peer(e)] = wr[Peer(e)] /\ outQ'[Peer(e)] = outQ[Peer(e)]
    BY <1>1, <1>4 DEF WriteHeaderDone, WriteBodyDone, WriteValidationDone, NextMessage, IInv, TypeOK
  <2>2. ReaderSame(e) /\ WriterSame(Peer(e)) /\ (Flowing(e)' => Flowing(e))
    BY <2>1 DEF ReaderSame, WriterSame, Flowing
  <2> QED
    BY <2>1, <2>2, FrameUntouched
<1>5. CASE f = e /\ WriteValidationDone(f) /\ e = "client"
  <2>1. /\ UNCHANGED <<link, begun, open, outQ, wire, inQ, sent>>
        /\ wr'[Peer(e)] = wr[Peer(e)] /\ rd'[Peer(e)] = rd[Peer(e)] /\ rd'[e] = ReadOf("hdr")
        /\ wr[e] # <<>> /\ IsWord(Head(wr[e]))
    BY <1>1, <1>5 DEF WriteValidationDone, WriteDone, IsWord, IInv, TypeOK
  <2>2. HasWord(wr[e])
    <3>1. 1 \in 1..Len(wr[e]) /\ wr[e][1] = Head(wr[e])
      BY <2>1, EmptySeq, HeadTailProperties, SeqFacts DEF IInv
    <3> QED
      BY <2>1, <3>1 DEF HasWord
  <2>3. begun[e] /\ rd[e] = NoRead
    BY <1>5, <2>2 DEF FrameInv, Words
  <2>4. WriterSame(Peer(e)) /\ (Flowing(e)' => Flowing(e)) /\ SentGrows(Peer(e))
    BY <2>1 DEF WriterSame, Flowing, SentGrows
  <2>5. CASE open[e]
    <3>1. inQ[e] = <<>> /\ Len(inQ[e]) = 0
      BY <2>3, <2>5, EmptySeq DEF FrameInv, Reads, NoRead
    <3>2. ReaderPlace(e) = 0 /\ ReaderPlace(e)' = 0
      BY <1>5, <2>1, <2>3, <3>1 DEF ReaderPlace, NoRead, ReadOf
    <3>3. \A a \in Int : GotTo(e, a) => GotTo(e, a)'
      BY <2>1, <2>3, <3>2 DEF GotTo, NoRead, ReadOf
    <3> QED
      BY <2>1, <2>4, <3>3, FrameRead DEF IInv
  <2>6. CASE ~open[e]
    <3>1. wire'[e] = <<>> /\ ~Flowing(e)' /\ rd'[e].got = <<>>
      BY <2>1, <2>6 DEF FrameInv, Reads, Flowing, ReadOf
    <3> QED
      BY <2>4, <3>1, FrameCut DEF IInv
  <2> QED
    BY <2>5, <2>6 DEF IInv, TypeOK
<1> QED
  BY <1>2, <1>3, <1>4, <1>5, PeerFacts DEF WriteHandler, End

-----------------------------------------------------------------------------
(* Framing: the handshake and the read handlers. *)

\* ConnectToClient: the server's stream starts with its challenge.
LEMMA FrameAccept ==
    ASSUME IInv, IInv', FrameInv, NEW e \in End, Framed(e), ConnectToClient
    PROVE  Framed(e)'
<1> USE DEF End
<1>1. /\ ~begun["server"] /\ begun' = [begun EXCEPT !["server"] = TRUE]
      /\ wr' = [wr EXCEPT !["server"] = Append(@, WriteOf(WordToken(Nonce)))]
      /\ rd' = [rd EXCEPT !["server"] = ReadOf("word")]
      /\ UNCHANGED <<link, open, outQ, wire, inQ, sent>>
  BY DEF ConnectToClient, WriteValidation, ReadValidation
<1>2. Flowing(e)' = Flowing(e) /\ SentGrows(Peer(e))
  BY <1>1 DEF Flowing, SentGrows
<1>3. rd["server"] = NoRead
  BY <1>1 DEF FrameInv, Reads
<1>4. CASE e = "server"
  <2>1. WriterSame(Peer(e))
    BY <1>1, <1>4 DEF WriterSame, Peer, IInv, TypeOK
  <2>2. ReaderPlace(e) = -1 /\ ReaderPlace(e)' = -1 /\ rd[e].got = <<>> /\ rd'[e].got = <<>>
    BY <1>1, <1>3, <1>4 DEF ReaderPlace, NoRead, ReadOf, IInv, TypeOK
  <2>3. \A a \in Int : GotTo(e, a) => GotTo(e, a)'
    BY <2>2 DEF GotTo
  <2> QED
    BY <1>1, <1>2, <2>1, <2>3, FrameRead DEF IInv
<1>5. CASE e = "client"
  <2> DEFINE x == WriteOf(WordToken(Nonce))
  <2>1. ReaderSame(e) /\ Peer(e) = "server"
    BY <1>1, <1>5 DEF ReaderSame, Peer, IInv, TypeOK
  <2>2. x \in Write /\ IsWord(x) /\ ~x.done /\ ~IsMessageWrite(x)
    BY HandshakeAssumption, TokenTypes DEF IsWord, WriteOf, WordToken, IsMessageWrite
  <2>3. wr["server"] = <<>> /\ wr["server"] \in Seq(Write) /\ wr'["server"] = Append(wr["server"], x)
    BY <1>1 DEF IInv, NothingBeforeAccept, TypeOK
  <2> HIDE DEF x
  <2>4. ~HasWord(wr["server"])
    BY <2>3 DEF HasWord
  <2>5. HasUnsentWord(wr'["server"])
    BY <2>2, <2>3, <2>4, AppendTheWord
  <2>6. \A d : Within(wr["server"], d) => Within(wr'["server"], d)
    BY <2>2, <2>3, WithinAppend
  <2>7. WordUnsent("server") /\ WordUnsent("server")'
    BY <1>1, <2>5 DEF WordUnsent
  <2>8. \A b \in Int : AtPlace("server", b) => AtPlace("server", b)'
    BY <1>1, <2>6, <2>7 DEF AtPlace, Popped
  <2> QED
    BY <1>1, <1>2, <2>1, <2>8, FrameKept DEF IInv
<1> QED
  BY <1>4, <1>5

\* ConnectToServer: the client expects the challenge.
LEMMA FrameConnect ==
    ASSUME IInv, IInv', FrameInv, NEW e \in End, Framed(e), ConnectToServer
    PROVE  Framed(e)'
<1> USE DEF End
<1>1. /\ ~begun["client"] /\ begun' = [begun EXCEPT !["client"] = TRUE]
      /\ rd' = [rd EXCEPT !["client"] = ReadOf("word")]
      /\ UNCHANGED <<link, open, wr, outQ, wire, inQ, sent>>
  BY DEF ConnectToServer, ReadValidation
<1>2. Flowing(e)' = Flowing(e) /\ SentGrows(Peer(e))
  BY <1>1 DEF Flowing, SentGrows
<1>3. rd["client"] = NoRead
  BY <1>1 DEF FrameInv, Reads
<1>4. CASE e = "client"
  <2>1. WriterSame(Peer(e))
    BY <1>1, <1>4 DEF WriterSame, Peer, IInv, TypeOK
  <2>2. ReaderPlace(e) = -1 /\ ReaderPlace(e)' = -1 /\ rd[e].got = <<>> /\ rd'[e].got = <<>>
    BY <1>1, <1>3, <1>4 DEF ReaderPlace, NoRead, ReadOf, IInv, TypeOK
  <2>3. \A a \in Int : GotTo(e, a) => GotTo(e, a)'
    BY <2>2 DEF GotTo
  <2> QED
    BY <1>1, <1>2, <2>1, <2>3, FrameRead DEF IInv
<1>5. CASE e = "server"
  <2>1. ReaderSame(e) /\ Peer(e) = "client"
    BY <1>1, <1>5 DEF ReaderSame, Peer, IInv, TypeOK
  <2>2. WordUnsent("client") /\ WordUnsent("client")'
    BY <1>1 DEF WordUnsent, ReadOf, IInv, TypeOK
  <2>3. \A b \in Int : AtPlace("client", b) => AtPlace("client", b)'
    BY <1>1, <2>2 DEF AtPlace, Popped
  <2> QED
    BY <1>1, <1>2, <2>1, <2>3, FrameKept DEF IInv
<1> QED
  BY <1>4, <1>5

\* Only the handshake word starts the stream.
LEMMA FirstIsWord ==
    ASSUME IInv, NEW e \in End, NEW t, NEW a \in Int, Step(e, sent[Peer(e)], -1, t, a)
    PROVE  t = Expected(e) /\ a = 0
<1>1. sent[Peer(e)] \in Seq(Msg)
  BY SeqFacts, PeerFacts DEF IInv
<1>2. -1 \in Int
  OBVIOUS
<1> QED
  BY <1>1, <1>2, StepPlaces

\* The server has checked the answer: the messages follow.
LEMMA FrameCheck ==
    ASSUME IInv, IInv', FrameInv, NEW e \in End, Framed(e), CheckValidation
    PROVE  Framed(e)'
<1> USE DEF End
<1>1. CASE rd["server"].got = <<WordToken(Scramble[Nonce])>>
  <2>1. /\ rd["server"].want = "word"
        /\ rd' = [rd EXCEPT !["server"] = ReadOf("hdr")]
        /\ UNCHANGED <<link, begun, open, wr, outQ, wire, inQ, sent>>
    BY <1>1 DEF CheckValidation, ReadDone
  <2> rd["server"].got # <<>>
    BY DEF CheckValidation, ReadDone
  <2>2. Flowing(e)' = Flowing(e)
    BY <2>1 DEF Flowing
  <2>3. WriterSame(Peer(e))
    BY <2>1 DEF WriterSame, Peer, IInv, TypeOK
  <2>4. CASE e = "client"
    <3>1. ReaderSame(e)
      BY <2>1, <2>4 DEF ReaderSame, IInv, TypeOK
    <3> QED
      BY <2>1, <2>2, <2>3, <3>1, FrameUntouched
  <2>5. CASE e = "server"
    <3>1. ReaderPlace(e) = -1 /\ inQ[e] = <<>> /\ rd[e].got # <<>>
      BY <1>1, <2>1, <2>5 DEF ReaderPlace, FrameInv, Reads
    <3>2. ReaderPlace(e)' = 0 /\ rd'[e].got = <<>>
      BY <2>1, <2>5, <3>1, EmptySeq DEF ReaderPlace, ReadOf, IInv, TypeOK
    <3>3. ASSUME NEW a \in Int, GotTo(e, a) PROVE GotTo(e, a)'
      <4>1. Step(e, sent[Peer(e)], -1, rd[e].got[1], a)
        BY <3>1, <3>3 DEF GotTo
      <4>2. a = 0
        BY <4>1, FirstIsWord
      <4> QED
        BY <3>2, <4>2 DEF GotTo
    <3> QED
      BY <2>1, <2>2, <2>3, <3>3, FrameRead DEF IInv
  <2> QED
    BY <2>4, <2>5
<1>2. CASE rd["server"].got # <<WordToken(Scramble[Nonce])>>
  <2>1. /\ Close("server") /\ rd' = [rd EXCEPT !["server"] = NoRead]
        /\ UNCHANGED <<link, begun, inQ, sent>>
    BY <1>2 DEF CheckValidation
  <2>2. rd'["server"].got = <<>> /\ rd'[Peer("server")] = rd[Peer("server")]
    BY <2>1 DEF NoRead, Peer, IInv, TypeOK
  <2> QED
    BY <2>1, <2>2, FrameClose
<1> QED
  BY <1>1, <1>2

\* The client answers the challenge: the messages follow.
LEMMA FrameAnswer ==
    ASSUME IInv, IInv', FrameInv, NEW e \in End, Framed(e), AnswerValidation
    PROVE  Framed(e)'
<1> USE DEF End
<1> DEFINE x == WriteOf(WordToken(Scramble[rd["client"].got[1][2]]))
<1>1. /\ rd["client"].want = "word" /\ rd["client"].got # <<>>
      /\ rd' = [rd EXCEPT !["client"] = NoRead]
      /\ wr' = [wr EXCEPT !["client"] = Append(@, x)]
      /\ UNCHANGED <<link, begun, open, outQ, wire, inQ, sent>>
  BY DEF AnswerValidation, WriteValidation, ReadParsed, ReadDone
<1>2. rd["client"].got[1][2] \in Word
  BY TokenTypes, ReadTypes DEF AnswerValidation, ReadParsed, ReadDone, IInv, TypeOK
<1>3. x \in Write /\ IsWord(x) /\ ~x.done /\ ~IsMessageWrite(x)
  BY <1>2, HandshakeAssumption, TokenTypes DEF IsWord, WriteOf, WordToken, IsMessageWrite
<1> HIDE DEF x
<1>4. Flowing(e)' = Flowing(e) /\ SentGrows(Peer(e))
  BY <1>1 DEF Flowing, SentGrows
<1>5. CASE e = "client"
  <2>1. WriterSame(Peer(e))
    BY <1>1, <1>5 DEF WriterSame, Peer, IInv, TypeOK
  <2>2. ReaderPlace(e) = -1 /\ begun[e]
    BY <1>1, <1>5 DEF ReaderPlace, FrameInv, Reads, NoRead
  <2>3. ReaderPlace(e)' = 0 /\ rd'[e].got = <<>>
    BY <1>1, <1>5, <2>2 DEF ReaderPlace, NoRead, IInv, TypeOK
  <2>4. ASSUME NEW a \in Int, GotTo(e, a) PROVE GotTo(e, a)'
    <3>1. Step(e, sent[Peer(e)], -1, rd[e].got[1], a)
      BY <1>1, <1>5, <2>2, <2>4 DEF GotTo
    <3>2. a = 0
      BY <3>1, FirstIsWord
    <3> QED
      BY <2>3, <3>2 DEF GotTo
  <2> QED
    BY <1>1, <1>4, <2>1, <2>4, FrameRead DEF IInv
<1>6. CASE e = "server"
  <2>1. ReaderSame(e) /\ Peer(e) = "client"
    BY <1>1, <1>6 DEF ReaderSame, Peer, IInv, TypeOK
  <2>2. wr["client"] \in Seq(Write) /\ wr'["client"] = Append(wr["client"], x)
    BY <1>1 DEF IInv, TypeOK
  <2>3. ~HasWord(wr["client"])
    BY <1>1 DEF FrameInv, Words, NoRead
  <2>4. HasUnsentWord(wr'["client"])
    BY <1>3, <2>2, <2>3, AppendTheWord
  <2>5. \A d : Within(wr["client"], d) => Within(wr'["client"], d)
    BY <1>3, <2>2, WithinAppend
  <2>6. WordUnsent("client") /\ WordUnsent("client")'
    BY <1>1, <2>4 DEF WordUnsent
  <2>7. \A b \in Int : AtPlace("client", b) => AtPlace("client", b)'
    BY <1>1, <2>5, <2>6 DEF AtPlace, Popped
  <2> QED
    BY <1>1, <1>4, <2>1, <2>7, FrameKept DEF IInv
<1> QED
  BY <1>5, <1>6

\* The steps of the handshake keep the framing.
LEMMA FrameHandshake ==
    ASSUME IInv, IInv', FrameInv, NEW e \in End, Framed(e), Handshake
    PROVE  Framed(e)'
  BY FrameAccept, FrameConnect, FrameCheck, FrameAnswer DEF Handshake

\* What a read handler of e finds, and does.
LEMMA HeaderRead ==
    ASSUME IInv, NEW e \in End, Framed(e), ReadHeaderDone(e)
    PROVE  LET k == Len(inQ[e])
               m == rd[e].got[1][2]
           IN  /\ k \in Nat /\ k + 1 \in 1..Len(sent[Peer(e)]) /\ m = sent[Peer(e)][k + 1]
               /\ rd[e].got[1] = Header(m) /\ m \in Msg
               /\ \A a \in Int : GotTo(e, a) => a = IF m \in Sized THEN 2 * k + 1 ELSE 2 * k + 2
<1> DEFINE k == Len(inQ[e])
           S == sent[Peer(e)]
<1>1. k \in Nat /\ S \in Seq(Msg) /\ Len(S) \in Nat
  BY SeqFacts, PeerFacts DEF IInv
<1>2. ReaderPlace(e) = 2 * k /\ rd[e].got # <<>>
  BY DEF ReadHeaderDone, ReadParsed, ReadDone, ReaderPlace
<1>3. \A a : GotTo(e, a) => Step(e, S, 2 * k, rd[e].got[1], a)
  BY <1>2 DEF GotTo
<1> HIDE DEF k, S
<1>4. PICK a \in Int : GotTo(e, a)
  BY DEF Framed
<1>5. /\ k + 1 \in 1..Len(S) /\ rd[e].got[1] = Header(S[k + 1])
      /\ \A c \in Int : GotTo(e, c) => c = IF S[k + 1] \in Sized THEN 2 * k + 1 ELSE 2 * k + 2
  BY <1>1, <1>3, <1>4, StepHeader
<1>6. S[k + 1] \in Msg /\ rd[e].got[1][2] = S[k + 1]
  BY <1>1, <1>5, ElementOfSeq DEF Header
<1> QED
  BY <1>1, <1>5, <1>6 DEF k, S

\* The body that ends a read is that of the next message.
LEMMA BodyRead ==
    ASSUME IInv, NEW e \in End, Framed(e), ReadBodyDone(e)
    PROVE  LET k == Len(inQ[e])
               m == rd[e].got[1][2]
           IN  /\ k \in Nat /\ k + 1 \in 1..Len(sent[Peer(e)]) /\ m = sent[Peer(e)][k + 1]
               /\ rd[e].got[1] = Body(m) /\ m \in Msg /\ m \in Sized
               /\ \A a \in Int : GotTo(e, a) => a = 2 * k + 2
<1> DEFINE k == Len(inQ[e])
           S == sent[Peer(e)]
<1>1. k \in Nat /\ S \in Seq(Msg) /\ Len(S) \in Nat
  BY SeqFacts, PeerFacts DEF IInv
<1>2. ReaderPlace(e) = 2 * k + 1 /\ rd[e].got # <<>>
  BY DEF ReadBodyDone, ReadParsed, ReadDone, ReaderPlace
<1>3. \A a : GotTo(e, a) => Step(e, S, 2 * k + 1, rd[e].got[1], a)
  BY <1>2 DEF GotTo
<1> HIDE DEF k, S
<1>4. PICK a \in Int : GotTo(e, a)
  BY DEF Framed
<1>5. /\ k + 1 \in 1..Len(S) /\ rd[e].got[1] = Body(S[k + 1]) /\ S[k + 1] \in Sized
      /\ \A c \in Int : GotTo(e, c) => c = 2 * k + 2
  BY <1>1, <1>3, <1>4, StepBody
<1>6. S[k + 1] \in Msg /\ rd[e].got[1][2] = S[k + 1]
  BY <1>1, <1>5, ElementOfSeq DEF Body
<1> QED
  BY <1>1, <1>5, <1>6 DEF k, S

\* Handlers of finished reads keep the framing.
LEMMA FrameReadHandler ==
    ASSUME IInv, IInv', FrameInv, NEW e \in End, Framed(e), NEW f \in End, ReadHandler(f)
    PROVE  Framed(e)'
<1>1. Peer(e) \in End /\ Peer(e) # e /\ Peer(Peer(e)) = e
  BY PeerFacts
<1>2. CASE ReadFailed(f)
  <2>1. rd'[f].got = <<>> /\ rd'[Peer(f)] = rd[Peer(f)]
    BY <1>2, PeerFacts DEF ReadFailed, NoRead, IInv, TypeOK
  <2> QED
    BY <1>2, <2>1, FrameClose DEF ReadFailed
<1>3. CASE f = Peer(e) /\ (ReadHeaderDone(f) \/ ReadBodyDone(f))
  <2>1. /\ UNCHANGED <<link, begun, open, wr, wire, outQ, sent>>
        /\ rd'[e] = rd[e] /\ inQ'[e] = inQ[e]
        /\ rd[f].want # "word" /\ rd'[f].want # "word"
    <3>1. CASE ReadHeaderDone(f)
      BY <1>1, <1>3, <3>1 DEF ReadHeaderDone, AddToIncoming, ReadParsed, ReadDone, ReadOf, IInv, TypeOK
    <3>2. CASE ReadBodyDone(f)
      BY <1>1, <1>3, <3>2 DEF ReadBodyDone, AddToIncoming, ReadParsed, ReadDone, ReadOf, IInv, TypeOK
    <3> QED
      BY <1>3, <3>1, <3>2
  <2>2. ReaderSame(e) /\ WriterSame(Peer(e)) /\ (Flowing(e)' => Flowing(e))
    BY <1>3, <2>1 DEF ReaderSame, WriterSame, Flowing
  <2> QED
    BY <2>1, <2>2, FrameUntouched
<1>4. CASE f = e /\ (ReadHeaderDone(f) \/ ReadBodyDone(f))
  <2>1. /\ UNCHANGED <<link, begun, open, wr, wire, outQ, sent>> /\ rd'[Peer(e)] = rd[Peer(e)]
    <3>1. CASE ReadHeaderDone(f)
      BY <1>1, <1>4, <3>1 DEF ReadHeaderDone, AddToIncoming, IInv, TypeOK
    <3>2. CASE ReadBodyDone(f)
      BY <1>1, <1>4, <3>2 DEF ReadBodyDone, AddToIncoming, IInv, TypeOK
    <3> QED
      BY <1>4, <3>1, <3>2
  <2>2. WriterSame(Peer(e)) /\ (Flowing(e)' => Flowing(e))
    BY <2>1 DEF WriterSame, Flowing
  <2>3. ASSUME NEW a \in Int, GotTo(e, a) PROVE GotTo(e, a)'
    <3>1. CASE ReadHeaderDone(e)
      <4>1. PICK k \in Nat, m \in Msg :
                k = Len(inQ[e]) /\ m = rd[e].got[1][2] /\ a = IF m \in Sized THEN 2 * k + 1 ELSE 2 * k + 2
        BY <2>3, <3>1, HeaderRead
      <4>2. CASE m \in Sized
        <5>1. rd'[e] = ReadOf("body") /\ inQ'[e] = inQ[e]
          BY <3>1, <4>1, <4>2 DEF ReadHeaderDone, IInv, TypeOK
        <5> QED
          BY <4>1, <4>2, <5>1 DEF GotTo, ReaderPlace, ReadOf
      <4>3. CASE m \notin Sized
        <5>1. rd'[e] = ReadOf("hdr") /\ inQ'[e] = Append(inQ[e], WithHeader(e, m))
          BY <3>1, <4>1, <4>3 DEF ReadHeaderDone, AddToIncoming, IInv, TypeOK
        <5>2. Len(inQ'[e]) = k + 1
          BY <4>1, <5>1, SeqFacts DEF IInv
        <5> QED
          BY <4>1, <4>3, <5>1, <5>2 DEF GotTo, ReaderPlace, ReadOf
      <4> QED
        BY <4>2, <4>3
    <3>2. CASE ReadBodyDone(e)
      <4>1. PICK k \in Nat : k = Len(inQ[e]) /\ a = 2 * k + 2
        BY <2>3, <3>2, BodyRead
      <4>2. rd'[e] = ReadOf("hdr") /\ inQ'[e] = Append(inQ[e], WithBody(e, rd[e].got[1][2]))
        BY <3>2 DEF ReadBodyDone, AddToIncoming, IInv, TypeOK
      <4>3. Len(inQ'[e]) = k + 1
        BY <4>1, <4>2, SeqFacts DEF IInv
      <4> QED
        BY <4>1, <4>2, <4>3 DEF GotTo, ReaderPlace, ReadOf
    <3> QED
      BY <1>4, <3>1, <3>2
  <2> QED
    BY <2>1, <2>2, <2>3, FrameRead DEF IInv
<1> QED
  BY <1>2, <1>3, <1>4, PeerFacts DEF ReadHandler

-----------------------------------------------------------------------------
(* Framing: a client that sent before it answered. *)

\* Only Send adds to what an end has sent.
LEMMA SentStep ==
    ASSUME IInv, Next, NEW p \in End
    PROVE  SentGrows(p)
<1>1. ASSUME NEW f \in End, RunSend(f) PROVE SentGrows(p)
  <2>1. Head(posted[f])[2] \in Msg
    <3>1. Head(posted[f]) \in Post
      BY <1>1, HeadTailProperties DEF RunSend, StartsWrite, IInv, TypeOK
    <3> QED
      BY <1>1, <3>1 DEF RunSend, StartsWrite, Post
  <2> QED
    BY <1>1, <2>1 DEF RunSend, SentGrows, IInv, TypeOK
<1>2. CASE sent' = sent
  BY <1>2 DEF SentGrows
<1>3. CASE Network
  BY <1>2, <1>3 DEF Network, Establish, Refuse, Break, Transmit, Arrive
<1>4. CASE Handshake
  BY <1>2, <1>4 DEF Handshake, ConnectToClient, ConnectToServer, CheckValidation,
                    AnswerValidation
<1>5. ASSUME NEW f \in End, Application(f) \/ RunClose(f) PROVE SentGrows(p)
  BY <1>2, <1>5 DEF Application, AppSend, AppDisconnect, RunClose
<1>6. ASSUME NEW f \in End, WriteHandler(f) PROVE SentGrows(p)
  BY <1>2, <1>6 DEF WriteHandler, WriteValidationDone, WriteHeaderDone, WriteBodyDone, WriteFailed
<1>7. ASSUME NEW f \in End, ReadHandler(f) PROVE SentGrows(p)
  BY <1>2, <1>7 DEF ReadHandler, ReadHeaderDone, ReadBodyDone, ReadFailed
<1> QED
  BY <1>1, <1>3, <1>4, <1>5, <1>6, <1>7 DEF Next, Posted

\* The first message stays the first, and its header is no word.
LEMMA EarlyKept ==
    ASSUME IInv, SentGrows("client"), NEW t, EarlyHeader(t)
    PROVE  /\ sent'["client"] # <<>> /\ t = Header(sent'["client"][1])
           /\ t[1] = "hdr"
<1> DEFINE S == sent["client"]
<1>1. S \in Seq(Msg) /\ Len(S) \in Nat /\ S # <<>> /\ t = Header(S[1])
  BY SeqFacts DEF IInv, EarlyHeader, End
<1>2. 1 \in 1..Len(S)
  BY <1>1, EmptySeq
<1>3. \A m \in Msg : Append(S, m) # <<>> /\ Append(S, m)[1] = S[1]
  BY <1>1, <1>2, AppendProperties
<1> QED
  BY <1>1, <1>3 DEF SentGrows, Header

\* The wrong answer where it was stays a wrong answer.
LEMMA DoomedSame ==
    ASSUME IInv, Doomed, SentGrows("client"), rd'["server"].want \in {"none", "word"},
           rd'["server"].got = rd["server"].got,
           rd["server"].got # <<>> \/ (wire'["server"] # <<>> /\ wire'["server"][1] = wire["server"][1])
    PROVE  Doomed'
<1>1. CASE rd["server"].got # <<>>
  <2>1. EarlyHeader(rd["server"].got[1])
    BY <1>1 DEF Doomed
  <2> QED
    BY <1>1, <2>1, EarlyKept DEF Doomed, EarlyHeader
<1>2. CASE rd["server"].got = <<>>
  <2>1. EarlyHeader(wire["server"][1])
    BY <1>2 DEF Doomed
  <2> QED
    BY <1>2, <2>1, EarlyKept DEF Doomed, EarlyHeader
<1> QED
  BY <1>1, <1>2

\* Nothing comes to the server any more, or it has not read what came.
LEMMA DoomedCut ==
    ASSUME IInv, IInv', Doomed, SentGrows("client"),
           rd'["server"] = rd["server"] \/ rd'["server"].got = <<>>,
           wire'["server"] = <<>>, ~Flowing("server")'
    PROVE  Doomed' \/ Framed("server")'
<1>1. Peer("server") = "client" /\ "server" \in End
  BY DEF Peer, End
<1>2. CASE rd'["server"].got = <<>>
  BY <1>1, <1>2, FrameCut DEF IInv
<1>3. CASE rd'["server"] = rd["server"] /\ rd'["server"].got # <<>>
  BY <1>3, DoomedSame DEF Doomed
<1> QED
  BY <1>2, <1>3

\* An end closes while the server has a wrong answer before it.
LEMMA DoomedClose ==
    ASSUME IInv, IInv', Doomed, NEW f \in End, Close(f), sent' = sent, link' = link,
           rd'["server"] = rd["server"] \/ (f = "server" /\ rd'["server"].got = <<>>)
    PROVE  Doomed' \/ Framed("server")'
<1>1. CASE f = "server"
  <2>1. wire'["server"] = <<>> /\ ~Flowing("server")' /\ SentGrows("client")
    BY <1>1 DEF Close, Flowing, SentGrows, End, IInv, TypeOK
  <2> QED
    BY <2>1, DoomedCut
<1>2. CASE f # "server"
  <2>1. /\ wire'["server"] = wire["server"] /\ rd'["server"] = rd["server"]
        /\ SentGrows("client")
    BY <1>2 DEF Close, SentGrows, End, IInv, TypeOK
  <2> QED
    BY <2>1, DoomedSame DEF Doomed
<1> QED
  BY <1>1, <1>2

\* A wrong answer stays one until the server closes.
LEMMA DoomedStep ==
    ASSUME IInv, IInv', FrameInv, Doomed, Next
    PROVE  Doomed' \/ Framed("server")'
<1>0. SentGrows("client")
  BY SentStep DEF End
<1> USE DEF End
<1>1. CASE rd'["server"] = rd["server"] /\ wire'["server"] = wire["server"]
  BY <1>0, <1>1, DoomedSame DEF Doomed
<1>2. CASE Network
  <2>1. CASE Establish \/ Refuse
    BY <1>1, <2>1 DEF Establish, Refuse
  <2>2. CASE Break
    <3>1. wire'["server"] = <<>> /\ ~Flowing("server")' /\ SentGrows("client") /\ rd' = rd
      BY <2>2 DEF Break, Flowing, SentGrows
    <3> QED
      BY <3>1, DoomedCut
  <2>3. ASSUME NEW e \in End, Transmit(e) PROVE Doomed'
    <3>1. PICK k \in 1..Len(wr[e]) :
              wire' = IF PeerGone(e) THEN wire
                      ELSE [wire EXCEPT ![Peer(e)] = Append(@, wr[e][k].tok)]
      BY <2>3 DEF Transmit
    <3>2. rd' = rd /\ (wire'["server"] = wire["server"]
                       \/ wire'["server"] = Append(wire["server"], wr[e][k].tok))
      BY <2>3, <3>1 DEF Transmit, IInv, TypeOK, Peer
    <3>3. wr[e][k].tok \in Token
      <4>1. wr[e] \in Seq(Write)
        BY SeqFacts DEF IInv
      <4>2. wr[e][k] \in Write
        BY <4>1, ElementOfSeq
      <4> QED
        BY <4>2 DEF Write
    <3>4. wire["server"] # <<>> => /\ wire'["server"] # <<>>
                                   /\ wire'["server"][1] = wire["server"][1]
      <4> DEFINE w == wire["server"]
                 v == Append(w, wr[e][k].tok)
      <4>1. w \in Seq(Token) /\ Len(w) \in Nat
        BY SeqFacts DEF IInv
      <4>2. w # <<>> => 1 \in 1..Len(w)
        BY <4>1, EmptySeq
      <4>3. w # <<>> => v # <<>> /\ v[1] = w[1]
        BY <3>3, <4>1, <4>2, AppendProperties
      <4> QED
        BY <3>2, <4>3
    <3> QED
      BY <1>0, <3>2, <3>4, DoomedSame DEF Doomed
  <2>4. ASSUME NEW e \in End, Arrive(e) PROVE Doomed'
    <3>1. CASE e = "server"
      <4>1. /\ rd["server"].got = <<>> /\ wire["server"] # <<>>
            /\ rd'["server"].want = rd["server"].want
            /\ rd'["server"].got = <<Head(wire["server"])>>
        BY <2>4, <3>1, SeqFacts DEF Arrive, IInv, TypeOK, Read
      <4>2. Head(wire["server"]) = wire["server"][1]
        BY <4>1, SeqFacts, HeadTailProperties DEF IInv
      <4>3. EarlyHeader(wire["server"][1])
        BY <4>1 DEF Doomed
      <4>4. rd'["server"].got # <<>> /\ rd'["server"].got[1] = wire["server"][1]
        BY <4>1, <4>2
      <4> QED
        BY <1>0, <4>1, <4>3, <4>4, EarlyKept DEF Doomed, EarlyHeader
    <3>2. CASE e = "client"
      <4>1. rd'["server"] = rd["server"] /\ wire'["server"] = wire["server"]
        BY <2>4, <3>2 DEF Arrive, IInv, TypeOK
      <4> QED
        BY <1>0, <4>1, DoomedSame DEF Doomed
    <3> QED
      BY <3>1, <3>2
  <2> QED
    BY <1>2, <2>1, <2>2, <2>3, <2>4 DEF Network
<1>3. CASE Handshake
  <2>1. CASE ConnectToClient
    <3>1. rd["server"] = NoRead /\ rd'["server"] = ReadOf("word") /\ wire' = wire
      BY <2>1 DEF ConnectToClient, ReadValidation, FrameInv, Reads, IInv, TypeOK
    <3>2. wire["server"] # <<>>
      BY <3>1 DEF Doomed, NoRead
    <3> QED
      BY <1>0, <3>1, <3>2, DoomedSame DEF NoRead, ReadOf
  <2>2. CASE ConnectToServer \/ AnswerValidation
    BY <1>1, <2>2 DEF ConnectToServer, AnswerValidation, ReadValidation, IInv, TypeOK
  <2>3. CASE CheckValidation
    <3>1. rd["server"].got # <<WordToken(Scramble[Nonce])>>
      BY <1>0, <2>3, EarlyKept DEF CheckValidation, ReadDone, Doomed, WordToken
    <3>2. /\ Close("server") /\ rd'["server"] = NoRead /\ UNCHANGED <<link, sent>>
      BY <2>3, <3>1 DEF CheckValidation, IInv, TypeOK
    <3> QED
      BY <3>2, DoomedClose DEF NoRead
  <2> QED
    BY <1>3, <2>1, <2>2, <2>3 DEF Handshake
<1>4. ASSUME NEW e \in End, Application(e) \/ Posted(e) PROVE Doomed' \/ Framed("server")'
  <2>1. CASE Application(e) \/ RunSend(e)
    BY <1>1, <2>1 DEF Application, AppSend, AppDisconnect, RunSend
  <2>2. CASE RunClose(e)
    BY <2>2, DoomedClose DEF RunClose
  <2> QED
    BY <1>4, <2>1, <2>2 DEF Posted
<1>5. ASSUME NEW e \in End, WriteHandler(e) PROVE Doomed' \/ Framed("server")'
  <2>1. CASE WriteValidationDone(e)
    BY <1>1, <2>1 DEF WriteValidationDone, IInv, TypeOK
  <2>2. CASE WriteHeaderDone(e) \/ WriteBodyDone(e)
    BY <1>1, <2>2 DEF WriteHeaderDone, WriteBodyDone
  <2>3. CASE WriteFailed(e)
    BY <2>3, DoomedClose DEF WriteFailed
  <2> QED
    BY <1>5, <2>1, <2>2, <2>3 DEF WriteHandler
<1>6. ASSUME NEW e \in End, ReadHandler(e) PROVE Doomed' \/ Framed("server")'
  <2>1. CASE ReadHeaderDone(e)
    <3>1. e # "server"
      BY <2>1 DEF ReadHeaderDone, ReadParsed, ReadDone, Doomed
    <3> QED
      BY <1>1, <2>1, <3>1 DEF ReadHeaderDone, AddToIncoming, IInv, TypeOK
  <2>2. CASE ReadBodyDone(e)
    <3>1. e # "server"
      BY <2>2 DEF ReadBodyDone, ReadParsed, ReadDone, Doomed
    <3> QED
      BY <1>1, <2>2, <3>1 DEF ReadBodyDone, AddToIncoming, IInv, TypeOK
  <2>3. CASE ReadFailed(e)
    <3>1. rd'["server"] = rd["server"] \/ (e = "server" /\ rd'["server"].got = <<>>)
      BY <2>3 DEF ReadFailed, NoRead, IInv, TypeOK
    <3> QED
      BY <2>3, <3>1, DoomedClose DEF ReadFailed
  <2> QED
    BY <1>6, <2>1, <2>2, <2>3 DEF ReadHandler
<1> QED
  BY <1>2, <1>3, <1>4, <1>5, <1>6 DEF Next

\* Every step keeps each end where it is in the stream to it, unless the
\* client wrote too early.
LEMMA FrameStep ==
    ASSUME IInv, IInv', FrameInv, Next
    PROVE  Framed("client")' /\ (Framed("server")' \/ Doomed')
<1>1. ASSUME NEW e \in End, Framed(e) PROVE Framed(e)' \/ (e = "server" /\ Doomed')
  BY <1>1, FrameNetwork, FrameHandshake, FrameApplication, FrameWriteHandler,
     FrameReadHandler DEF Next
<1>2. Framed("client")'
  BY <1>1 DEF FrameInv, End
<1>3. Framed("server")' \/ Doomed'
  BY <1>1, DoomedStep DEF FrameInv, End
<1> QED
  BY <1>2, <1>3

-----------------------------------------------------------------------------
(* Framing: which steps change what an end writes and reads. *)

\* The steps that change what an end is writing.
LEMMA WriterSteps ==
    ASSUME TypeOK, Next, NEW p \in End
    PROVE  \/ wr'[p] = wr[p] /\ outQ'[p] = outQ[p] /\ sent'[p] = sent[p]
           \/ Transmit(p) \/ RunSend(p) \/ WriteHandler(p)
           \/ p = "server" /\ ConnectToClient
           \/ p = "client" /\ AnswerValidation
<1> DEFINE Same == wr'[p] = wr[p] /\ outQ'[p] = outQ[p] /\ sent'[p] = sent[p]
<1>1. CASE Network
  <2>1. CASE Establish \/ Refuse \/ Break
    BY <2>1 DEF Establish, Refuse, Break
  <2>2. ASSUME NEW f \in End, Transmit(f), f # p
        PROVE  Same
    BY <2>2 DEF Transmit, TypeOK
  <2>3. ASSUME NEW f \in End, Arrive(f)
        PROVE  Same
    BY <2>3 DEF Arrive
  <2> QED
    BY <1>1, <2>1, <2>2, <2>3 DEF Network
<1>2. CASE Handshake
  BY <1>2 DEF Handshake, ConnectToClient, WriteValidation, ConnectToServer, CheckValidation,
              AnswerValidation, End, TypeOK
<1>3. ASSUME NEW e \in End, Application(e) \/ Posted(e) PROVE Same \/ RunSend(p)
  BY <1>3 DEF Application, AppSend, AppDisconnect, Posted, RunSend, RunClose, StartsWrite, TypeOK
<1>4. ASSUME NEW e \in End, WriteHandler(e) PROVE Same \/ WriteHandler(p)
  BY <1>4 DEF WriteHandler, WriteValidationDone, WriteHeaderDone, WriteBodyDone, WriteFailed,
              NextMessage, TypeOK
<1>5. ASSUME NEW e \in End, ReadHandler(e) PROVE Same
  BY <1>5 DEF ReadHandler, ReadHeaderDone, ReadBodyDone, ReadFailed
<1> QED
  BY <1>1, <1>2, <1>3, <1>4, <1>5 DEF Next

\* The steps that change what an end is reading.
LEMMA ReaderSteps ==
    ASSUME TypeOK, Next, NEW e \in End
    PROVE  /\ \/ rd'[e] = rd[e] /\ tmpIn'[e] = tmpIn[e] /\ inQ'[e] = inQ[e] /\ begun'[e] = begun[e]
              \/ Arrive(e) \/ ReadHandler(e)
              \/ e = "server" /\ (ConnectToClient \/ CheckValidation)
              \/ e = "client" /\ (ConnectToServer \/ AnswerValidation \/ WriteValidationDone(e))
           /\ open'[e] => open[e]
           /\ begun[e] => begun'[e]
<1> DEFINE Same == rd'[e] = rd[e] /\ tmpIn'[e] = tmpIn[e] /\ inQ'[e] = inQ[e] /\ begun'[e] = begun[e]
           Mono == (open'[e] => open[e]) /\ (begun[e] => begun'[e])
<1>1. CASE Network
  BY <1>1 DEF Network, Establish, Refuse, Break, Transmit, Arrive, TypeOK
<1>2. CASE Handshake
  BY <1>2 DEF Handshake, ConnectToClient, ReadValidation, ConnectToServer, CheckValidation,
              AnswerValidation, Close, End, TypeOK
<1>3. ASSUME NEW f \in End, Application(f) \/ Posted(f) PROVE Same /\ Mono
  BY <1>3 DEF Application, AppSend, AppDisconnect, Posted, RunSend, RunClose, Close, TypeOK
<1>4. ASSUME NEW f \in End, WriteHandler(f)
      PROVE  (Same \/ (e = "client" /\ WriteValidationDone(e))) /\ Mono
  BY <1>4 DEF WriteHandler, WriteValidationDone, WriteHeaderDone, WriteBodyDone, WriteFailed,
              Close, TypeOK
<1>5. ASSUME NEW f \in End, ReadHandler(f) PROVE (Same \/ ReadHandler(e)) /\ Mono
  BY <1>5 DEF ReadHandler, ReadHeaderDone, ReadBodyDone, ReadFailed, AddToIncoming, Close, TypeOK
<1> QED
  BY <1>1, <1>2, <1>3, <1>4, <1>5 DEF Next

\* What a write handler does to the writes: one is gone, a header or the body
\* of a message may be issued.
LEMMA WritesAfterHandler ==
    ASSUME IInv, NEW p \in End, WriteHandler(p)
    PROVE  /\ wr[p] \in Seq(Write) /\ wr[p] # <<>> /\ Tail(wr[p]) \in Seq(Write)
           /\ \/ wr'[p] = Tail(wr[p])
              \/ \E x \in Write : /\ IsMessageWrite(x)
                                  /\ x.tok[1] = "body" => x.tok[2] \in Sized
                                  /\ wr'[p] = Append(Tail(wr[p]), x)
           /\ \/ outQ'[p] = outQ[p]
              \/ outQ[p] # <<>> /\ outQ'[p] = Tail(outQ[p])
           /\ sent'[p] = sent[p] /\ begun'[p] = begun[p]
           /\ rd'[p] = rd[p] \/ (p = "client" /\ WriteValidationDone(p))
<1>1. /\ wr[p] \in Seq(Write) /\ wr[p] # <<>> /\ Tail(wr[p]) \in Seq(Write)
      /\ outQ[p] \in Seq(Msg)
  BY SeqFacts, HeadTailProperties
     DEF IInv, WriteHandler, WriteValidationDone, WriteHeaderDone, WriteBodyDone, WriteFailed, WriteDone
<1>2. CASE WriteValidationDone(p) \/ WriteFailed(p)
  BY <1>1, <1>2 DEF WriteValidationDone, WriteFailed, IInv, TypeOK
<1>3. ASSUME outQ[p] # <<>>, NextMessage(p)
      PROVE  /\ outQ'[p] = Tail(outQ[p])
             /\ \/ wr'[p] = Tail(wr[p])
                \/ \E x \in Write : /\ IsMessageWrite(x)
                                    /\ x.tok[1] = "body" => x.tok[2] \in Sized
                                    /\ wr'[p] = Append(Tail(wr[p]), x)
  <2> DEFINE rest == Tail(outQ[p])
             x == WriteOf(Header(Head(rest)))
  <2>1. rest \in Seq(Msg)
    BY <1>1, <1>3, HeadTailProperties
  <2>2. /\ outQ'[p] = rest
        /\ wr'[p] = IF rest = <<>> THEN Tail(wr[p]) ELSE Append(Tail(wr[p]), x)
    BY <1>3 DEF NextMessage, IInv, TypeOK
  <2>3. rest # <<>> => x \in Write /\ x.tok[1] = "hdr"
    BY <2>1, HeadTailProperties, TokenTypes
  <2>4. CASE rest = <<>>
    BY <2>2, <2>4
  <2>5. CASE rest # <<>>
    BY <2>2, <2>3, <2>5 DEF IsMessageWrite
  <2> QED
    BY <2>2, <2>4, <2>5
<1>4. CASE WriteHeaderDone(p)
  <2>1. outQ[p] # <<>> /\ Head(outQ[p]) \in Msg
    BY <1>1, <1>4, FrontExists DEF WriteHeaderDone, WriteDone, IInv
  <2>2. CASE Head(outQ[p]) \in Sized
    <3> DEFINE x == WriteOf(Body(Head(outQ[p])))
    <3>1. wr'[p] = Append(Tail(wr[p]), x) /\ outQ'[p] = outQ[p]
      BY <1>4, <2>2 DEF WriteHeaderDone, IInv, TypeOK
    <3>2. x \in Write /\ x.tok[1] = "body" /\ x.tok[2] = Head(outQ[p])
      BY <2>1, TokenTypes
    <3>3. IsMessageWrite(x)
      BY <3>2 DEF IsMessageWrite
    <3> QED
      BY <1>1, <1>4, <2>2, <3>1, <3>2, <3>3 DEF WriteHeaderDone
  <2>3. CASE Head(outQ[p]) \notin Sized
    BY <1>1, <1>3, <1>4, <2>1, <2>3 DEF WriteHeaderDone
  <2> QED
    BY <2>2, <2>3
<1>5. CASE WriteBodyDone(p)
  <2>1. outQ[p] # <<>>
    BY <1>1, <1>5, FrontExists DEF WriteBodyDone, WriteDone, IInv
  <2> QED
    BY <1>1, <1>3, <1>5, <2>1 DEF WriteBodyDone
<1> QED
  BY <1>2, <1>4, <1>5 DEF WriteHandler

\* What Send does to the queue and the writes.
LEMMA WritesAfterSend ==
    ASSUME IInv, NEW p \in End, RunSend(p)
    PROVE  /\ \E m \in Msg : /\ outQ'[p] = Append(outQ[p], m)
                             /\ sent'[p] = Append(sent[p], m)
           /\ \/ wr'[p] = wr[p]
              \/ \E x \in Write : /\ IsMessageWrite(x) /\ x.tok[1] = "hdr"
                                  /\ wr'[p] = Append(wr[p], x)
           /\ begun'[p] = begun[p] /\ rd'[p] = rd[p]
<1> DEFINE m == Head(posted[p])[2]
           x == WriteOf(Header(m))
<1>1. m \in Msg
  <2>1. Head(posted[p]) \in Post
    BY HeadTailProperties DEF RunSend, StartsWrite, IInv, TypeOK
  <2>2. QED
    BY <2>1 DEF RunSend, StartsWrite, Post
<1>2. x \in Write /\ x.tok[1] = "hdr"
  BY <1>1, TokenTypes
<1>3. /\ outQ'[p] = Append(outQ[p], m) /\ sent'[p] = Append(sent[p], m)
      /\ wr'[p] = Append(wr[p], x) \/ wr'[p] = wr[p]
      /\ begun'[p] = begun[p] /\ rd'[p] = rd[p]
  BY DEF RunSend, StartsWrite, IInv, TypeOK
<1>4. IsMessageWrite(x)
  BY <1>2 DEF IsMessageWrite
<1> QED
  BY <1>1, <1>2, <1>3, <1>4

-----------------------------------------------------------------------------
(* Framing: what an end writes. *)

\* The client answers the challenge.
LEMMA AnswerFacts ==
    ASSUME IInv, FrameInv, AnswerValidation
    PROVE  LET x == WriteOf(Expected("server"))
           IN  /\ x \in Write /\ IsWord(x) /\ ~x.done /\ ~IsMessageWrite(x)
               /\ wr'["client"] = Append(wr["client"], x)
               /\ wr["client"] \in Seq(Write) /\ ~HasWord(wr["client"])
               /\ rd'["client"] = NoRead /\ begun["client"]
               /\ UNCHANGED <<begun, outQ, sent, inQ, tmpIn, open>>
<1> USE DEF End
<1>1. /\ rd["client"].want = "word" /\ rd["client"].got # <<>>
      /\ rd'["client"] = NoRead
      /\ wr'["client"] = Append(wr["client"], WriteOf(WordToken(Scramble[rd["client"].got[1][2]])))
      /\ wr["client"] \in Seq(Write)
      /\ UNCHANGED <<begun, outQ, sent, inQ, tmpIn, open>>
  BY DEF AnswerValidation, WriteValidation, ReadParsed, ReadDone, IInv, TypeOK
<1>2. begun["client"] /\ ~HasWord(wr["client"])
  BY <1>1 DEF FrameInv, Reads, Words, NoRead
<1>3. rd["client"].got[1] = WordToken(Nonce)
  <2>1. PICK a \in Int : GotTo("client", a)
    BY DEF FrameInv, Framed
  <2>2. Step("client", sent[Peer("client")], -1, rd["client"].got[1], a)
    BY <1>1, <2>1 DEF GotTo, ReaderPlace
  <2> QED
    BY <2>2, FirstIsWord DEF Expected
<1>4. rd["client"].got[1][2] = Nonce
  BY <1>3 DEF WordToken
<1>5. WordToken(Scramble[Nonce]) = Expected("server") /\ Scramble[Nonce] \in Word
  BY HandshakeAssumption DEF Expected
<1>6. /\ WriteOf(Expected("server")) \in Write /\ IsWord(WriteOf(Expected("server")))
      /\ ~WriteOf(Expected("server")).done /\ ~IsMessageWrite(WriteOf(Expected("server")))
  BY <1>5, TokenTypes DEF IsWord, WriteOf, WordToken, IsMessageWrite, Expected
<1> QED
  BY <1>1, <1>2, <1>4, <1>5, <1>6

\* The server challenges.
LEMMA AcceptFacts ==
    ASSUME IInv, FrameInv, ConnectToClient
    PROVE  LET x == WriteOf(Expected("client"))
           IN  /\ x \in Write /\ IsWord(x) /\ ~x.done /\ ~IsMessageWrite(x)
               /\ wr'["server"] = Append(wr["server"], x)
               /\ wr["server"] = <<>> /\ wr["server"] \in Seq(Write)
               /\ begun'["server"] /\ ~begun["server"]
               /\ UNCHANGED <<outQ, sent, inQ, tmpIn, open>>
               /\ rd'["server"] = ReadOf("word")
<1>1. /\ wr'["server"] = Append(wr["server"], WriteOf(WordToken(Nonce)))
      /\ wr["server"] = <<>> /\ wr["server"] \in Seq(Write)
      /\ begun'["server"] /\ ~begun["server"]
      /\ rd'["server"] = ReadOf("word")
      /\ UNCHANGED <<outQ, sent, inQ, tmpIn, open>>
  BY DEF ConnectToClient, WriteValidation, ReadValidation, IInv, NothingBeforeAccept, TypeOK, End
<1>2. WordToken(Nonce) = Expected("client")
  BY DEF Expected
<1>3. /\ WriteOf(WordToken(Nonce)) \in Write /\ IsWord(WriteOf(WordToken(Nonce)))
      /\ ~WriteOf(WordToken(Nonce)).done /\ ~IsMessageWrite(WriteOf(WordToken(Nonce)))
  BY HandshakeAssumption, TokenTypes DEF IsWord, WriteOf, WordToken, IsMessageWrite
<1> QED
  BY <1>1, <1>2, <1>3

\* begun never turns back, and the client reads nothing while its word is
\* being written.
LEMMA WordsKept ==
    ASSUME IInv, FrameInv, Next, NEW p \in End, HasWord(wr[p])
    PROVE  begun'[p] /\ (p = "client" => rd'[p] = NoRead \/ WriteValidationDone(p))
<1>1. begun[p] /\ (p = "client" => rd[p] = NoRead)
  BY DEF FrameInv, Words
<1>2. begun'[p]
  BY <1>1, ReaderSteps DEF IInv
<1>3. ASSUME p = "client" PROVE rd'[p] = rd[p] \/ WriteValidationDone(p)
  <2>1. rd[p].want = "none"
    BY <1>1, <1>3 DEF NoRead
  <2>2. ~Arrive(p) /\ ~ReadHandler(p)
    BY <2>1 DEF Arrive, ReadHandler, ReadHeaderDone, ReadBodyDone, ReadFailed, ReadParsed, ReadDone
  <2>3. ~ConnectToServer /\ ~AnswerValidation
    BY <1>1, <1>3, <2>1 DEF ConnectToServer, AnswerValidation, ReadParsed, ReadDone
  <2> QED
    BY <1>3, <2>2, <2>3, ReaderSteps DEF IInv
<1> QED
  BY <1>1, <1>2, <1>3

\* The handshake words stay where they belong.
LEMMA WordsStep ==
    ASSUME IInv, FrameInv, Next, NEW p \in End
    PROVE  Words(p)'
<1> DEFINE E == Expected(Peer(p))
           first == p = "server"
           Fine(ws) == OneWord(ws, E, first) /\ (HasWord(ws) => HasWord(wr[p]))
<1>1. OneWord(wr[p], E, first) /\ Words(p)
  BY DEF FrameInv, Words
<1>2. ASSUME NEW ws, wr'[p] = ws, Fine(ws), ~WriteValidationDone(p) PROVE Words(p)'
  <2>1. HasWord(wr'[p]) => begun'[p] /\ (p = "client" => rd'[p] = NoRead)
    BY <1>2, WordsKept
  <2> QED
    BY <1>2, <2>1 DEF Words
<1>3. CASE wr'[p] = wr[p] /\ ~WriteValidationDone(p)
  BY <1>1, <1>2, <1>3
<1>4. CASE Transmit(p)
  <2>1. PICK k \in 1..Len(wr[p]) : ~wr[p][k].done /\ wr' = [wr EXCEPT ![p][k].done = TRUE]
    BY <1>4 DEF Transmit
  <2>2. wr[p] \in Seq(Write) /\ wr'[p] = [wr[p] EXCEPT ![k].done = TRUE]
    BY <2>1 DEF IInv, TypeOK
  <2>3. Fine(wr'[p])
    <3>1. /\ HasWord(wr'[p]) <=> HasWord(wr[p])
          /\ \A t, fst : OneWord(wr[p], t, fst) => OneWord(wr'[p], t, fst)
      BY <2>1, <2>2, TransmitWords
    <3> QED
      BY <1>1, <3>1
  <2>4. Len(wr'[p]) = Len(wr[p]) /\ rd' = rd /\ begun' = begun
    BY <1>4, <2>1, <2>2, TransmitWords DEF Transmit
  <2> QED
    BY <1>1, <2>3, <2>4 DEF Words
<1>5. CASE RunSend(p)
  <2>1. wr[p] \in Seq(Write) /\ begun'[p] = begun[p] /\ rd'[p] = rd[p]
    BY <1>5, WritesAfterSend, SeqFacts DEF IInv
  <2>2. Fine(wr'[p])
    <3>1. CASE wr'[p] = wr[p]
      BY <1>1, <3>1
    <3>2. CASE wr'[p] # wr[p]
      <4>1. PICK x \in Write : IsMessageWrite(x) /\ wr'[p] = Append(wr[p], x)
        BY <1>5, <3>2, WritesAfterSend
      <4> QED
        BY <1>1, <2>1, <4>1, AppendToWords
    <3> QED
      BY <3>1, <3>2
  <2> QED
    BY <1>1, <2>1, <2>2 DEF Words
<1>6. CASE WriteHandler(p)
  <2>1. /\ wr[p] \in Seq(Write) /\ wr[p] # <<>> /\ Tail(wr[p]) \in Seq(Write)
        /\ begun'[p] = begun[p]
        /\ rd'[p] = rd[p] \/ (p = "client" /\ WriteValidationDone(p))
    BY <1>6, WritesAfterHandler
  <2>2. Fine(Tail(wr[p]))
    BY <1>1, <2>1, TailWords
  <2>3. Fine(wr'[p])
    <3>1. CASE wr'[p] = Tail(wr[p])
      BY <2>2, <3>1
    <3>2. CASE wr'[p] # Tail(wr[p])
      <4>1. PICK x \in Write : IsMessageWrite(x) /\ wr'[p] = Append(Tail(wr[p]), x)
        BY <1>6, <3>2, WritesAfterHandler
      <4> QED
        BY <2>1, <2>2, <4>1, AppendToWords
    <3> QED
      BY <3>1, <3>2
  <2>4. CASE WriteValidationDone(p)
    <3>1. wr'[p] = Tail(wr[p]) /\ IsWord(Head(wr[p]))
      BY <2>4 DEF WriteValidationDone, WriteDone, IsWord, IInv, TypeOK
    <3>2. ~HasWord(wr'[p])
      BY <1>1, <2>1, <3>1, TailWords
    <3> QED
      BY <2>3, <3>2 DEF Words
  <2>5. CASE ~WriteValidationDone(p)
    BY <1>1, <2>1, <2>3, <2>5 DEF Words
  <2> QED
    BY <2>4, <2>5
<1>7. CASE p = "server" /\ ConnectToClient
  <2> DEFINE x == WriteOf(Expected("client"))
  <2>1. /\ x \in Write /\ IsWord(x) /\ ~x.done /\ wr'[p] = Append(wr[p], x)
        /\ wr[p] = <<>> /\ wr[p] \in Seq(Write) /\ begun'[p]
    BY <1>7, AcceptFacts
  <2>2. x.tok = E
    BY <1>7 DEF Peer, WriteOf
  <2> HIDE DEF x
  <2>3. ~HasWord(wr[p])
    BY <2>1 DEF HasWord
  <2>4. OneWord(wr'[p], x.tok, TRUE)
    BY <2>1, <2>3, AppendTheWord
  <2> QED
    BY <1>7, <2>1, <2>2, <2>4 DEF Words
<1>8. CASE p = "client" /\ AnswerValidation
  <2> DEFINE x == WriteOf(Expected("server"))
  <2>1. /\ x \in Write /\ IsWord(x) /\ ~x.done /\ wr'[p] = Append(wr[p], x)
        /\ ~HasWord(wr[p]) /\ wr[p] \in Seq(Write) /\ begun'[p] /\ rd'[p] = NoRead
    BY <1>8, AnswerFacts
  <2>2. x.tok = E
    BY <1>8 DEF Peer, WriteOf
  <2> HIDE DEF x
  <2>3. OneWord(wr'[p], x.tok, FALSE)
    BY <2>1, AppendTheWord
  <2> QED
    BY <1>8, <2>1, <2>2, <2>3 DEF Words
<1>9. WriteValidationDone(p) => WriteHandler(p)
  BY DEF WriteHandler
<1> QED
  BY <1>3, <1>4, <1>5, <1>6, <1>7, <1>8, <1>9, WriterSteps DEF IInv

\* m_qMessagesOut stays what is left of what was put into it.
LEMMA QueueStep ==
    ASSUME IInv, FrameInv, Next, NEW p \in End
    PROVE  QueueIsRest(p)'
<1> DEFINE q == outQ[p]
           S == sent[p]
<1>1. /\ q \in Seq(Msg) /\ S \in Seq(Msg) /\ Len(q) \in Nat /\ Len(S) \in Nat
      /\ Len(q) <= Len(S)
      /\ \A i \in 1..Len(q) : q[i] = S[(Len(S) - Len(q)) + i]
  BY SeqFacts DEF IInv, FrameInv, QueueIsRest, Popped
<1> HIDE DEF q, S
<1>2. CASE outQ'[p] = q /\ sent'[p] = S
  BY <1>1, <1>2 DEF QueueIsRest, Popped
<1>3. CASE RunSend(p)
  <2>1. PICK m \in Msg : outQ'[p] = Append(q, m) /\ sent'[p] = Append(S, m)
    BY <1>3, WritesAfterSend DEF q, S
  <2>2. /\ Len(outQ'[p]) = Len(q) + 1 /\ Len(sent'[p]) = Len(S) + 1
        /\ outQ'[p][Len(q) + 1] = m /\ sent'[p][Len(S) + 1] = m
        /\ \A i \in 1..Len(q) : outQ'[p][i] = q[i]
        /\ \A i \in 1..Len(S) : sent'[p][i] = S[i]
    BY <1>1, <2>1, AppendProperties
  <2>3. Popped(p)' = Len(S) - Len(q) /\ Len(S) - Len(q) \in Nat
    BY <1>1, <2>2 DEF Popped
  <2>4. ASSUME NEW i \in 1..Len(outQ'[p])
        PROVE  outQ'[p][i] = sent'[p][(Len(S) - Len(q)) + i]
    <3>1. CASE i = Len(q) + 1
      <4>1. (Len(S) - Len(q)) + i = Len(S) + 1
        BY <1>1, <3>1
      <4> QED
        BY <2>2, <3>1, <4>1
    <3>2. CASE i # Len(q) + 1
      <4>1. i \in 1..Len(q) /\ (Len(S) - Len(q)) + i \in 1..Len(S)
        BY <1>1, <2>2, <3>2
      <4> QED
        BY <1>1, <2>2, <4>1
    <3> QED
      BY <3>1, <3>2
  <2> QED
    BY <1>1, <2>2, <2>3, <2>4 DEF QueueIsRest
<1>4. CASE q # <<>> /\ outQ'[p] = Tail(q) /\ sent'[p] = S
  <2>1. /\ Len(outQ'[p]) = Len(q) - 1 /\ Len(q) \in Nat \ {0}
        /\ \A i \in 1..Len(outQ'[p]) : outQ'[p][i] = q[i + 1]
    BY <1>1, <1>4, HeadTailProperties, EmptySeq
  <2>2. Popped(p)' = (Len(S) - Len(q)) + 1
    BY <1>1, <1>4, <2>1 DEF Popped
  <2>3. ASSUME NEW i \in 1..Len(outQ'[p])
        PROVE  outQ'[p][i] = sent'[p][((Len(S) - Len(q)) + 1) + i]
    <3>1. i + 1 \in 1..Len(q) /\ (Len(S) - Len(q)) + (i + 1) = ((Len(S) - Len(q)) + 1) + i
      BY <1>1, <2>1
    <3> QED
      BY <1>1, <1>4, <2>1, <3>1
  <2> QED
    BY <1>1, <1>4, <2>1, <2>2, <2>3 DEF QueueIsRest
<1>5. \/ outQ'[p] = q /\ sent'[p] = S
      \/ RunSend(p)
      \/ q # <<>> /\ outQ'[p] = Tail(q) /\ sent'[p] = S
  <2>1. CASE Transmit(p)
    BY <2>1 DEF Transmit, q, S
  <2>2. CASE WriteHandler(p)
    BY <2>2, WritesAfterHandler DEF q, S
  <2>3. CASE ConnectToClient \/ AnswerValidation
    BY <2>3 DEF ConnectToClient, AnswerValidation, q, S
  <2> QED
    BY <2>1, <2>2, <2>3, WriterSteps DEF IInv, q, S
<1> QED
  BY <1>2, <1>3, <1>4, <1>5

\* A body is written only for a header that announces one.
LEMMA BodiesStep ==
    ASSUME IInv, FrameInv, Next, NEW p \in End
    PROVE  BodiesSized(p)'
<1> DEFINE Good(ws) == \A i \in 1..Len(ws) : ws[i].tok[1] = "body" => ws[i].tok[2] \in Sized
<1>1. wr[p] \in Seq(Write) /\ Good(wr[p])
  BY SeqFacts DEF IInv, FrameInv, BodiesSized
<1>2. ASSUME NEW ws \in Seq(Write), Good(ws), NEW x \in Write,
             x.tok[1] = "body" => x.tok[2] \in Sized
      PROVE  Good(Append(ws, x))
  <2>1. /\ Len(Append(ws, x)) = Len(ws) + 1 /\ Len(ws) \in Nat
        /\ \A i \in 1..Len(ws) : Append(ws, x)[i] = ws[i]
        /\ Append(ws, x)[Len(ws) + 1] = x
        /\ \A i \in 1..Len(Append(ws, x)) : i = Len(ws) + 1 \/ i \in 1..Len(ws)
    BY AppendProperties, LenProperties
  <2> QED
    BY <1>2, <2>1
<1>3. Good(wr'[p])
  <2>1. CASE wr'[p] = wr[p]
    BY <1>1, <2>1
  <2>2. CASE Transmit(p)
    <3>1. PICK k \in 1..Len(wr[p]) : ~wr[p][k].done /\ wr' = [wr EXCEPT ![p][k].done = TRUE]
      BY <2>2 DEF Transmit
    <3>2. wr'[p] = [wr[p] EXCEPT ![k].done = TRUE]
      BY <3>1 DEF IInv, TypeOK
    <3>3. Len(wr'[p]) = Len(wr[p]) /\ \A i \in 1..Len(wr[p]) : wr'[p][i].tok = wr[p][i].tok
      BY <1>1, <3>1, <3>2, TransmitWords
    <3> QED
      BY <1>1, <3>3
  <2>3. CASE RunSend(p) /\ wr'[p] # wr[p]
    <3>1. PICK x \in Write : x.tok[1] = "hdr" /\ wr'[p] = Append(wr[p], x)
      BY <2>3, WritesAfterSend
    <3> QED
      BY <1>1, <1>2, <3>1
  <2>4. CASE WriteHandler(p)
    <3>1. wr[p] # <<>> /\ Tail(wr[p]) \in Seq(Write)
      BY <2>4, WritesAfterHandler
    <3>2. Good(Tail(wr[p]))
      <4>1. /\ Len(Tail(wr[p])) = Len(wr[p]) - 1 /\ Len(wr[p]) \in Nat
            /\ \A i \in 1..Len(Tail(wr[p])) : Tail(wr[p])[i] = wr[p][i + 1]
        BY <1>1, <3>1, HeadTailProperties, LenProperties
      <4>2. \A i \in 1..Len(Tail(wr[p])) : i + 1 \in 1..Len(wr[p])
        BY <4>1
      <4> QED
        BY <1>1, <4>1, <4>2
    <3>3. CASE wr'[p] = Tail(wr[p])
      BY <3>2, <3>3
    <3>4. CASE wr'[p] # Tail(wr[p])
      <4>1. PICK x \in Write : /\ x.tok[1] = "body" => x.tok[2] \in Sized
                               /\ wr'[p] = Append(Tail(wr[p]), x)
        BY <2>4, <3>4, WritesAfterHandler
      <4> QED
        BY <1>2, <3>1, <3>2, <4>1
    <3> QED
      BY <3>3, <3>4
  <2>5. CASE (p = "server" /\ ConnectToClient) \/ (p = "client" /\ AnswerValidation)
    <3>1. PICK x \in Write : IsWord(x) /\ wr'[p] = Append(wr[p], x)
      BY <2>5, AcceptFacts, AnswerFacts
    <3> QED
      BY <1>1, <1>2, <3>1 DEF IsWord
  <2> QED
    BY <2>1, <2>2, <2>3, <2>4, <2>5, WriterSteps DEF IInv
<1> QED
  BY <1>3 DEF BodiesSized

-----------------------------------------------------------------------------
(* Framing: what an end reads and delivers. *)

\* What the steps of e leave of its read.
LEMMA ReadsStep ==
    ASSUME IInv, FrameInv, Next, NEW e \in End
    PROVE  Reads(e)'
<1> USE DEF End
<1>1. /\ Reads(e) /\ rd[e] \in Read /\ begun[e] \in BOOLEAN
      /\ (open'[e] => open[e]) /\ (begun[e] => begun'[e])
  BY SeqFacts, ReaderSteps DEF FrameInv, IInv
<1>2. ~open'[e] => wire'[e] = <<>>
  <2> DEFINE Goal == ~open'[e] => wire'[e] = <<>>
  <2>1. ASSUME open' = open, wire'[e] = wire[e] PROVE Goal
    BY <1>1, <2>1 DEF Reads
  <2>2. ASSUME NEW f \in End, Close(f) PROVE Goal
    BY <1>1, <2>2 DEF Close, Reads, IInv, TypeOK
  <2>3. CASE Network
    <3>1. CASE Establish \/ Refuse
      BY <2>1, <3>1 DEF Establish, Refuse
    <3>2. CASE Break
      BY <3>2 DEF Break
    <3>3. ASSUME NEW f \in End, Transmit(f) PROVE Goal
      <4>1. open' = open /\ (wire'[e] = wire[e] \/ open[e])
        BY <3>3, PeerFacts DEF Transmit, PeerGone, IInv, TypeOK
      <4> QED
        BY <1>1, <4>1 DEF Reads
    <3>4. ASSUME NEW f \in End, Arrive(f) PROVE Goal
      <4>1. open' = open /\ (wire'[e] = wire[e] \/ open[e])
        BY <3>4 DEF Arrive, IInv, TypeOK
      <4> QED
        BY <1>1, <4>1 DEF Reads
    <3> QED
      BY <2>3, <3>1, <3>2, <3>3, <3>4 DEF Network
  <2>4. CASE Handshake
    BY <2>1, <2>2, <2>4 DEF Handshake, ConnectToClient, ConnectToServer, CheckValidation,
                            AnswerValidation
  <2>5. ASSUME NEW f \in End, Application(f) \/ Posted(f) PROVE Goal
    BY <2>1, <2>2, <2>5 DEF Application, AppSend, AppDisconnect, Posted, RunSend, RunClose
  <2>6. ASSUME NEW f \in End, WriteHandler(f) PROVE Goal
    BY <2>1, <2>2, <2>6 DEF WriteHandler, WriteValidationDone, WriteHeaderDone, WriteBodyDone,
                            WriteFailed
  <2>7. ASSUME NEW f \in End, ReadHandler(f) PROVE Goal
    BY <2>1, <2>2, <2>7 DEF ReadHandler, ReadHeaderDone, ReadBodyDone, ReadFailed
  <2> QED
    BY <2>3, <2>4, <2>5, <2>6, <2>7 DEF Next
<1>3. CASE rd'[e] = rd[e] /\ inQ'[e] = inQ[e] /\ begun'[e] = begun[e]
  BY <1>1, <1>2, <1>3 DEF Reads
<1>4. CASE Arrive(e)
  <2>1. /\ rd[e].want # "none" /\ rd'[e].want = rd[e].want
        /\ inQ' = inQ /\ begun' = begun /\ open' = open
    BY <1>1, <1>4 DEF Arrive, Read, IInv, TypeOK
  <2> QED
    BY <1>1, <1>2, <2>1 DEF Reads, NoRead
<1>5. CASE ReadHandler(e)
  <2>1. rd[e].want # "none"
    BY <1>5 DEF ReadHandler, ReadHeaderDone, ReadBodyDone, ReadFailed, ReadParsed, ReadDone
  <2>2. begun[e] /\ begun'[e]
    BY <1>1, <2>1 DEF Reads, NoRead
  <2>3. \/ rd'[e] = ReadOf("hdr") \/ rd'[e] = ReadOf("body")
        \/ rd'[e] = NoRead /\ ~open'[e]
    <3>1. CASE ReadHeaderDone(e)
      BY <3>1 DEF ReadHeaderDone, AddToIncoming, IInv, TypeOK
    <3>2. CASE ReadBodyDone(e)
      BY <3>2 DEF ReadBodyDone, AddToIncoming, IInv, TypeOK
    <3>3. CASE ReadFailed(e)
      BY <3>3 DEF ReadFailed, Close, IInv, TypeOK
    <3> QED
      BY <1>5, <3>1, <3>2, <3>3 DEF ReadHandler
  <2> QED
    BY <1>2, <2>2, <2>3 DEF Reads, ReadOf, NoRead
<1>6. CASE (e = "server" /\ ConnectToClient) \/ (e = "client" /\ ConnectToServer)
  <2>1. ~begun[e] /\ begun'[e] /\ rd'[e] = ReadOf("word") /\ inQ' = inQ
    BY <1>6 DEF ConnectToClient, ConnectToServer, ReadValidation, IInv, TypeOK
  <2> QED
    BY <1>1, <1>2, <2>1 DEF Reads, ReadOf
<1>7. CASE (e = "server" /\ CheckValidation) \/ (e = "client" /\ AnswerValidation)
  <2>1. rd[e].want = "word" /\ inQ' = inQ /\ begun' = begun
    BY <1>7 DEF CheckValidation, AnswerValidation, ReadParsed, ReadDone
  <2>2. rd'[e] = ReadOf("hdr") \/ rd'[e] = NoRead
    BY <1>7 DEF CheckValidation, AnswerValidation, IInv, TypeOK
  <2> QED
    BY <1>1, <1>2, <2>1, <2>2 DEF Reads, ReadOf, NoRead
<1>8. CASE e = "client" /\ WriteValidationDone(e)
  <2>1. wr[e] # <<>> /\ IsWord(Head(wr[e])) /\ rd'[e] = ReadOf("hdr") /\ begun' = begun
    BY <1>8 DEF WriteValidationDone, WriteDone, IsWord, IInv, TypeOK
  <2>2. HasWord(wr[e])
    <3>1. 1 \in 1..Len(wr[e]) /\ wr[e][1] = Head(wr[e])
      BY <2>1, EmptySeq, HeadTailProperties, SeqFacts DEF IInv
    <3> QED
      BY <2>1, <3>1 DEF HasWord
  <2>3. begun'[e]
    BY <2>1, <2>2 DEF FrameInv, Words
  <2> QED
    BY <1>2, <2>1, <2>3 DEF Reads, ReadOf
<1> QED
  BY <1>3, <1>4, <1>5, <1>6, <1>7, <1>8, ReaderSteps DEF IInv

\* An end that reads messages knows where it is.
LEMMA ReadsFramed ==
    ASSUME FrameInv, NEW e \in End, rd[e].want \in {"hdr", "body"}
    PROVE  Framed(e)
  BY DEF FrameInv, Doomed, End

\* What was received stays a prefix of what was sent.
LEMMA DeliveredStep ==
    ASSUME IInv, IInv', FrameInv, Next, NEW e \in End
    PROVE  Delivered(e)'
<1> DEFINE S == sent[Peer(e)]
           k == Len(inQ[e])
<1>1. /\ S \in Seq(Msg) /\ Len(S) \in Nat /\ k \in Nat /\ inQ[e] \in Seq(Delivery)
      /\ Delivered(e) /\ Peer(e) \in End /\ rd[e] \in Read
  BY SeqFacts, PeerFacts DEF FrameInv, IInv
\* Sending more changes nothing of what was sent.
<1>2. /\ Len(sent'[Peer(e)]) \in Nat /\ Len(S) <= Len(sent'[Peer(e)])
      /\ \A i \in 1..Len(S) : sent'[Peer(e)][i] = S[i]
  <2>1. CASE sent'[Peer(e)] = S
    BY <1>1, <2>1
  <2>2. CASE RunSend(Peer(e))
    <3>1. PICK m \in Msg : sent'[Peer(e)] = Append(S, m)
      BY <1>1, <2>2, WritesAfterSend
    <3> QED
      BY <1>1, <3>1, AppendProperties
  <2>3. CASE WriteHandler(Peer(e))
    BY <1>1, <2>1, <2>3, WritesAfterHandler
  <2>4. CASE Transmit(Peer(e)) \/ ConnectToClient \/ AnswerValidation
    BY <2>1, <2>4 DEF Transmit, ConnectToClient, AnswerValidation
  <2> QED
    BY <1>1, <2>1, <2>2, <2>3, <2>4, WriterSteps DEF IInv
<1>3. ASSUME inQ'[e] = inQ[e],
             rd'[e].want = "body" => rd[e].want = "body" /\ tmpIn'[e] = tmpIn[e]
      PROVE  Delivered(e)'
  <2>1. k <= Len(sent'[Peer(e)]) /\ \A i \in 1..k : i \in 1..Len(S)
    BY <1>1, <1>2 DEF Delivered
  <2>2. \A i \in 1..k : /\ inQ'[e][i].hdr = sent'[Peer(e)][i]
                        /\ inQ'[e][i].hdr \in Sized => inQ'[e][i].body = inQ'[e][i].hdr
    BY <1>1, <1>2, <1>3, <2>1 DEF Delivered
  <2>3. ASSUME rd'[e].want = "body"
        PROVE  k < Len(sent'[Peer(e)]) /\ tmpIn'[e].hdr = sent'[Peer(e)][k + 1]
    <3>1. k < Len(S) /\ tmpIn[e].hdr = S[k + 1] /\ k + 1 \in 1..Len(S)
      BY <1>1, <1>3, <2>3 DEF Delivered
    <3> QED
      BY <1>1, <1>2, <1>3, <2>3, <3>1
  <2> QED
    BY <1>3, <2>1, <2>2, <2>3 DEF Delivered
\* A whole message is put in the queue.
<1>4. ASSUME NEW d \in Delivery, inQ'[e] = Append(inQ[e], d), rd'[e].want # "body",
             k + 1 \in 1..Len(S), d.hdr = S[k + 1], d.hdr \in Sized => d.body = d.hdr
      PROVE  Delivered(e)'
  <2>1. /\ Len(inQ'[e]) = k + 1 /\ inQ'[e][k + 1] = d
        /\ \A i \in 1..k : inQ'[e][i] = inQ[e][i]
    BY <1>1, <1>4, AppendProperties
  <2>2. k + 1 <= Len(sent'[Peer(e)]) /\ d.hdr = sent'[Peer(e)][k + 1]
    BY <1>1, <1>2, <1>4
  <2>3. ASSUME NEW i \in 1..(k + 1)
        PROVE  /\ inQ'[e][i].hdr = sent'[Peer(e)][i]
               /\ inQ'[e][i].hdr \in Sized => inQ'[e][i].body = inQ'[e][i].hdr
    <3>1. CASE i = k + 1
      BY <1>4, <2>1, <2>2, <3>1
    <3>2. CASE i # k + 1
      <4>1. i \in 1..k /\ i \in 1..Len(S)
        BY <1>1, <1>4, <3>2
      <4> QED
        BY <1>1, <1>2, <2>1, <4>1 DEF Delivered
    <3> QED
      BY <3>1, <3>2
  <2> QED
    BY <1>4, <2>1, <2>2, <2>3 DEF Delivered
<1>5. CASE rd'[e] = rd[e] /\ inQ'[e] = inQ[e] /\ tmpIn'[e] = tmpIn[e]
  BY <1>3, <1>5
<1>6. CASE Arrive(e)
  <2>1. rd'[e].want = rd[e].want /\ inQ' = inQ /\ tmpIn' = tmpIn
    BY <1>1, <1>6 DEF Arrive, Read, IInv, TypeOK
  <2> QED
    BY <1>3, <2>1
<1>7. CASE ReadHeaderDone(e)
  <2>1. Framed(e)
    BY <1>7, ReadsFramed DEF ReadHeaderDone, ReadParsed, ReadDone
  <2> DEFINE m == rd[e].got[1][2]
  <2>2. m \in Msg /\ k + 1 \in 1..Len(S) /\ m = S[k + 1]
    BY <1>7, <2>1, HeaderRead
  <2> HIDE DEF m
  <2>3. tmpIn'[e] = WithHeader(e, m) /\ WithHeader(e, m).hdr = m
    BY <1>7 DEF ReadHeaderDone, WithHeader, IInv, TypeOK, m
  <2>4. CASE m \in Sized
    <3>1. rd'[e] = ReadOf("body") /\ inQ'[e] = inQ[e]
      BY <1>7, <2>4 DEF ReadHeaderDone, IInv, TypeOK, m
    <3>2. /\ k < Len(sent'[Peer(e)]) /\ tmpIn'[e].hdr = sent'[Peer(e)][k + 1]
          /\ k <= Len(S)
      BY <1>1, <1>2, <2>2, <2>3
    <3>3. \A i \in 1..k : i \in 1..Len(S)
      BY <1>1, <3>2
    <3>4. \A i \in 1..k : /\ inQ'[e][i].hdr = sent'[Peer(e)][i]
                          /\ inQ'[e][i].hdr \in Sized => inQ'[e][i].body = inQ'[e][i].hdr
      BY <1>1, <1>2, <3>1, <3>3 DEF Delivered
    <3>5. Len(inQ'[e]) = k /\ k <= Len(sent'[Peer(e)])
      BY <1>1, <1>2, <3>1, <3>2
    <3> QED
      BY <3>2, <3>4, <3>5 DEF Delivered
  <2>5. CASE m \notin Sized
    <3>1. rd'[e] = ReadOf("hdr") /\ inQ'[e] = Append(inQ[e], WithHeader(e, m))
      BY <1>7, <2>5 DEF ReadHeaderDone, AddToIncoming, IInv, TypeOK, m
    <3>2. WithHeader(e, m) \in Delivery
      <4>1. tmpIn[e] \in [hdr : Msg \cup {NoMsg}, body : Msg \cup {NoMsg}]
        BY DEF IInv, TypeOK
      <4> QED
        BY <2>2, <4>1 DEF WithHeader, Delivery
    <3> QED
      BY <1>4, <2>2, <2>3, <2>5, <3>1, <3>2 DEF ReadOf
  <2> QED
    BY <2>4, <2>5
<1>8. CASE ReadBodyDone(e)
  <2>1. Framed(e) /\ rd[e].want = "body"
    BY <1>8, ReadsFramed DEF ReadBodyDone, ReadParsed, ReadDone
  <2> DEFINE m == rd[e].got[1][2]
  <2>2. m \in Msg /\ k + 1 \in 1..Len(S) /\ m = S[k + 1]
    BY <1>8, <2>1, BodyRead
  <2>3. tmpIn[e].hdr = S[k + 1]
    BY <1>1, <2>1 DEF Delivered
  <2> HIDE DEF m
  <2>4. rd'[e] = ReadOf("hdr") /\ inQ'[e] = Append(inQ[e], WithBody(e, m))
    BY <1>8 DEF ReadBodyDone, AddToIncoming, IInv, TypeOK, m
  <2>5. WithBody(e, m) \in Delivery /\ WithBody(e, m).hdr = S[k + 1] /\ WithBody(e, m).body = m
    BY <2>2, <2>3 DEF WithBody, Delivery, IInv, TypeOK
  <2> QED
    BY <1>4, <2>2, <2>4, <2>5 DEF ReadOf
<1>9. CASE ReadFailed(e)
  <2>1. rd'[e] = NoRead /\ inQ' = inQ
    BY <1>9 DEF ReadFailed, IInv, TypeOK
  <2> QED
    BY <1>3, <2>1 DEF NoRead
<1>10. CASE (e = "server" /\ (ConnectToClient \/ CheckValidation))
         \/ (e = "client" /\ (ConnectToServer \/ AnswerValidation \/ WriteValidationDone(e)))
  <2>1. inQ' = inQ /\ (rd'[e] = ReadOf("word") \/ rd'[e] = ReadOf("hdr") \/ rd'[e] = NoRead)
    <3>1. CASE ConnectToClient /\ e = "server"
      BY <3>1 DEF ConnectToClient, ReadValidation, IInv, TypeOK
    <3>2. CASE CheckValidation /\ e = "server"
      BY <3>2 DEF CheckValidation, IInv, TypeOK
    <3>3. CASE e = "client" /\ (ConnectToServer \/ AnswerValidation \/ WriteValidationDone(e))
      BY <3>3 DEF ConnectToServer, ReadValidation, AnswerValidation, WriteValidationDone, IInv, TypeOK
    <3> QED
      BY <1>10, <3>1, <3>2, <3>3
  <2> QED
    BY <1>3, <2>1 DEF ReadOf, NoRead
<1> QED
  BY <1>5, <1>6, <1>7, <1>8, <1>9, <1>10, ReaderSteps DEF IInv, ReadHandler

\* Nobody can send on the server's end before the accept.
LEMMA NothingSentStep ==
    ASSUME IInv, FrameInv, Next
    PROVE  NothingSentBeforeAccept'
<1> SUFFICES ASSUME ~begun'["server"] PROVE sent'["server"] = <<>>
  BY DEF NothingSentBeforeAccept
<1>1. ~begun["server"] /\ sent["server"] = <<>> /\ posted["server"] = <<>> /\ wr["server"] = <<>>
  BY ReaderSteps DEF IInv, FrameInv, NothingSentBeforeAccept, NothingBeforeAccept, End
<1>2. "server" \in End
  BY DEF End
<1>3. ~RunSend("server") /\ ~WriteHandler("server") /\ ~ConnectToClient
  BY <1>1, <1>2 DEF RunSend, WriteHandler, WriteValidationDone, WriteHeaderDone, WriteBodyDone,
                    WriteFailed, WriteDone, ConnectToClient, IInv, TypeOK
<1>4. Transmit("server") => sent' = sent
  BY DEF Transmit
<1> QED
  BY <1>1, <1>2, <1>3, <1>4, WriterSteps DEF IInv

-----------------------------------------------------------------------------
(* Framing: the invariant and the properties. *)

\* The framing invariant holds at first, ...
LEMMA FrameInit == Init => FrameInv
<1> SUFFICES ASSUME Init PROVE FrameInv
  OBVIOUS
<1>1. TypeOK
  BY TypeInit
<1>2. ASSUME NEW e \in End PROVE Framed(e)
  <2>1. Peer(e) \in End
    BY PeerFacts
  <2>2. GotTo(e, -1)
    BY DEF Init, GotTo, ReaderPlace, NoRead
  <2>3. Chain(e, sent[Peer(e)], -1, wire[e], -1)
    BY ChainEmpty DEF Init
  <2>4. ~HasMessageWrite(wr[Peer(e)]) /\ Popped(Peer(e)) = 0 /\ WordUnsent(Peer(e))
    BY <2>1, EmptySeq DEF Init, HasMessageWrite, Popped, WordUnsent
  <2>5. AtPlace(Peer(e), -1)
    BY <2>4, WithinNothing DEF AtPlace
  <2> QED
    BY <2>2, <2>3, <2>5 DEF Framed
<1>3. ASSUME NEW e \in End
      PROVE  Words(e) /\ QueueIsRest(e) /\ BodiesSized(e) /\ Reads(e) /\ Delivered(e)
  <2>1. /\ wr[e] = <<>> /\ outQ[e] = <<>> /\ inQ[e] = <<>> /\ wire[e] = <<>> /\ rd[e] = NoRead
        /\ sent[e] = <<>> /\ sent[Peer(e)] = <<>> /\ Len(<<>>) = 0
    BY PeerFacts, EmptySeq DEF Init
  <2> QED
    BY <2>1 DEF Words, OneWord, HasWord, QueueIsRest, BodiesSized, Reads, Delivered, NoRead
<1>4. NothingSentBeforeAccept
  BY DEF Init, NothingSentBeforeAccept, End
<1> QED
  BY <1>2, <1>3, <1>4 DEF FrameInv, End

\* ... and every step keeps it.
LEMMA FrameNext == IInv /\ FrameInv /\ [Next]_vars => FrameInv'
<1> SUFFICES ASSUME IInv, FrameInv, [Next]_vars PROVE FrameInv'
  OBVIOUS
<1>1. CASE Next
  <2>1. IInv'
    BY <1>1, IInvNext
  <2> QED
    BY <1>1, <2>1, FrameStep, WordsStep, QueueStep, BodiesStep, ReadsStep, DeliveredStep,
       NothingSentStep DEF FrameInv
<1>2. CASE UNCHANGED vars
  <2>1. ASSUME NEW e \in End
        PROVE  /\ Words(e)' = Words(e) /\ QueueIsRest(e)' = QueueIsRest(e)
               /\ BodiesSized(e)' = BodiesSized(e) /\ Reads(e)' = Reads(e)
               /\ Delivered(e)' = Delivered(e)
    BY <1>2 DEF vars, Words, QueueIsRest, Popped, BodiesSized, Reads, Delivered
  <2>2. ASSUME NEW e \in End, Framed(e) PROVE Framed(e)'
    <3>1. ReaderSame(e) /\ WriterSame(Peer(e)) /\ wire'[e] = wire[e] /\ Flowing(e)' = Flowing(e)
      BY <1>2 DEF vars, ReaderSame, WriterSame, Flowing
    <3> QED
      BY <2>2, <3>1, FrameUntouched
  <2>3. Doomed' = Doomed /\ NothingSentBeforeAccept' = NothingSentBeforeAccept
    BY <1>2 DEF vars, Doomed, EarlyHeader, NothingSentBeforeAccept
  <2> QED
    BY <2>1, <2>2, <2>3 DEF FrameInv, End
<1> QED
  BY <1>1, <1>2

\* Each end is where the other end's stream has come to, in every reachable
\* state, whatever fails; or the server is about to refuse a client that
\* sent before it answered.
THEOREM FramesInvariant == Spec => []FrameInv
<1>1. QED
  BY FrameInit, FrameNext, Invariant, PTL DEF Spec

\* A finished read has found what it was started for.
LEMMA FoundAsExpected ==
    ASSUME IInv, FrameInv, NEW e \in End, rd[e].got # <<>>, rd[e].want # "word" \/ e = "client"
    PROVE  /\ rd[e].want # "none"
           /\ rd[e].want = "word" => rd[e].got = <<Expected("client")>>
           /\ rd[e].want = "hdr" => rd[e].got[1][1] = "hdr"
           /\ rd[e].want = "body" => rd[e].got = <<Body(tmpIn[e].hdr)>>
<1> DEFINE S == sent[Peer(e)]
           k == Len(inQ[e])
<1>1. /\ S \in Seq(Msg) /\ k \in Nat /\ rd[e] \in Read /\ rd[e].want # "none"
      /\ rd[e].got = <<rd[e].got[1]>>
  <2>1. S \in Seq(Msg) /\ k \in Nat /\ rd[e] \in Read
    BY SeqFacts, PeerFacts DEF IInv
  <2>2. PICK t \in Token : rd[e].got = <<t>>
    BY <2>1 DEF Read
  <2>3. rd[e].got[1] = t
    BY <2>2
  <2>4. rd[e].want # "none"
    BY DEF FrameInv, Reads
  <2> QED
    BY <2>1, <2>2, <2>3, <2>4
<1>2. Framed(e)
  BY <1>1, ReadsFramed DEF FrameInv, Read
<1>3. PICK a \in Int : GotTo(e, a)
  BY <1>2 DEF Framed
<1>4. Step(e, S, ReaderPlace(e), rd[e].got[1], a)
  BY <1>3 DEF GotTo
<1>5. ASSUME rd[e].want = "word" PROVE rd[e].got = <<Expected("client")>>
  <2>1. ReaderPlace(e) = -1
    BY <1>5 DEF ReaderPlace
  <2>2. rd[e].got[1] = Expected(e)
    BY <1>4, <2>1, FirstIsWord
  <2> QED
    BY <1>1, <1>5, <2>2
<1>6. ASSUME rd[e].want = "hdr" PROVE rd[e].got[1][1] = "hdr"
  <2>1. ReaderPlace(e) = 2 * k
    BY <1>6 DEF ReaderPlace
  <2> HIDE DEF S, k
  <2>2. rd[e].got[1] = Header(S[k + 1])
    BY <1>1, <1>4, <2>1, StepHeader
  <2> QED
    BY <2>2 DEF Header
<1>7. ASSUME rd[e].want = "body" PROVE rd[e].got = <<Body(tmpIn[e].hdr)>>
  <2>1. ReaderPlace(e) = 2 * k + 1 /\ tmpIn[e].hdr = S[k + 1]
    BY <1>7 DEF ReaderPlace, FrameInv, Delivered
  <2> HIDE DEF S, k
  <2>2. rd[e].got[1] = Body(S[k + 1])
    BY <1>1, <1>4, <2>1, StepBody
  <2> QED
    BY <1>1, <2>1, <2>2
<1> QED
  BY <1>1, <1>5, <1>6, <1>7

\* Every read finds what it was issued for: no handler takes a header for a
\* body or a handshake word, in whatever order the bytes, the handlers, the
\* sends and the failures come.
THEOREM ReadsStayAligned == Spec => []FramingAligned
<1>1. IInv /\ FrameInv => FramingAligned
  <2> SUFFICES ASSUME IInv, FrameInv PROVE FramingAligned
    OBVIOUS
  <2>1. ASSUME NEW e \in End, rd[e].got # <<>> PROVE rd[e].want # "none"
    BY <2>1 DEF FrameInv, Reads
  <2>2. Expected("client")[1] = "word"
    BY DEF Expected, WordToken
  <2> QED
    BY <2>1, <2>2, FoundAsExpected DEF FramingAligned
<1> QED
  BY <1>1, Invariant, FramesInvariant, PTL

\* What the client reads first is the challenge, although the server's
\* application may have called Send before it was written.
THEOREM ChallengeComesFirst == Spec => []ServerChallengesFirst
<1>1. IInv /\ FrameInv => ServerChallengesFirst
  BY FoundAsExpected DEF ServerChallengesFirst, ReadDone, Expected, End
<1> QED
  BY <1>1, Invariant, FramesInvariant, PTL

\* A message with a body is delivered with its own body.
THEOREM BodiesArriveWhole == Spec => []SizedMessagesWhole
<1>1. FrameInv => SizedMessagesWhole
  BY DEF FrameInv, Delivered, SizedMessagesWhole
<1> QED
  BY <1>1, FramesInvariant, PTL

-----------------------------------------------------------------------------
(* Each direction is a first-in first-out channel. *)

\* A step sends one message to e, delivers the next one at e, or neither.
LEMMA ChannelStep ==
    ASSUME IInv, FrameInv, Next, NEW e \in End
    PROVE  \/ \E m \in Msg : /\ sent'[Peer(e)] = Append(sent[Peer(e)], m)
                             /\ Headers(e)' = Headers(e)
           \/ /\ Len(Headers(e)) < Len(sent[Peer(e)])
              /\ Headers(e)' = Append(Headers(e), sent[Peer(e)][Len(Headers(e)) + 1])
              /\ sent'[Peer(e)] = sent[Peer(e)]
           \/ Headers(e)' = Headers(e) /\ sent'[Peer(e)] = sent[Peer(e)]
<1> DEFINE S == sent[Peer(e)]
           k == Len(inQ[e])
<1>1. /\ S \in Seq(Msg) /\ Len(S) \in Nat /\ k \in Nat /\ inQ[e] \in Seq(Delivery)
      /\ Peer(e) \in End
  BY SeqFacts, PeerFacts DEF IInv
<1>2. /\ Headers(e) \in Seq(Msg) /\ Len(Headers(e)) = k
      /\ \A i \in 1..k : Headers(e)[i] = inQ[e][i].hdr
  <2>1. \A i \in 1..k : inQ[e][i].hdr \in Msg
    <3>1. \A i \in 1..k : inQ[e][i] \in Delivery
      BY <1>1, ElementOfSeq
    <3> QED
      BY <3>1 DEF Delivery
  <2> QED
    BY <1>1, <2>1 DEF Headers
\* A message is put in the queue.
<1>3. ASSUME NEW d \in Delivery, inQ'[e] = Append(inQ[e], d), k + 1 \in 1..Len(S),
             d.hdr = S[k + 1]
      PROVE  k < Len(S) /\ Headers(e)' = Append(Headers(e), S[k + 1])
  <2>1. /\ Len(inQ'[e]) = k + 1 /\ inQ'[e][k + 1] = d
        /\ \A i \in 1..k : inQ'[e][i] = inQ[e][i]
    BY <1>1, <1>3, AppendProperties
  <2>2. S[k + 1] \in Msg
    BY <1>1, <1>3, ElementOfSeq
  <2> DEFINE H == Headers(e)
             G == [i \in 1..(k + 1) |-> inQ'[e][i].hdr]
  <2>3. Headers(e)' = G
    BY <2>1 DEF Headers
  <2>4. \A i \in 1..(k + 1) : i \in 1..k \/ i = k + 1
    BY <1>1
  <2>5. \A i \in 1..(k + 1) : inQ'[e][i].hdr = IF i = k + 1 THEN S[k + 1] ELSE H[i]
    BY <1>1, <1>2, <1>3, <2>1, <2>4
  <2> HIDE DEF H
  <2>6. H \in Seq(Msg) /\ Len(H) = k
    BY <1>2 DEF H
  <2>7. /\ Append(H, S[k + 1]) \in Seq(Msg) /\ Len(Append(H, S[k + 1])) = k + 1
        /\ \A i \in 1..k : Append(H, S[k + 1])[i] = H[i]
        /\ Append(H, S[k + 1])[k + 1] = S[k + 1]
    BY <2>2, <2>6, AppendProperties
  <2>8. \A i \in 1..(k + 1) : Append(H, S[k + 1])[i] = inQ'[e][i].hdr
    <3> SUFFICES ASSUME NEW i \in 1..(k + 1)
                 PROVE  Append(H, S[k + 1])[i] = inQ'[e][i].hdr
      OBVIOUS
    <3>1. CASE i = k + 1
      BY <2>5, <2>7, <3>1
    <3>2. CASE i # k + 1
      BY <2>4, <2>5, <2>7, <3>2
    <3> QED
      BY <3>1, <3>2
  <2>9. G \in Seq(Msg) /\ Len(G) = k + 1 /\ \A i \in 1..(k + 1) : G[i] = inQ'[e][i].hdr
    <3>1. \A i \in 1..(k + 1) : inQ'[e][i].hdr \in Msg
      <4> SUFFICES ASSUME NEW i \in 1..(k + 1) PROVE inQ'[e][i].hdr \in Msg
        OBVIOUS
      <4>1. Append(H, S[k + 1])[i] \in Msg
        BY <2>7, ElementOfSeq
      <4> QED
        BY <2>8, <4>1
    <3> QED
      BY <1>1, <3>1
  <2> HIDE DEF G
  <2>10. G = Append(H, S[k + 1])
    BY <1>1, <2>7, <2>8, <2>9, SeqEqual
  <2> QED
    BY <1>1, <1>3, <2>3, <2>10 DEF H
<1>4. CASE ReadHeaderDone(e)
  <2>1. Framed(e)
    BY <1>4, ReadsFramed DEF ReadHeaderDone, ReadParsed, ReadDone
  <2> DEFINE m == rd[e].got[1][2]
  <2>2. m \in Msg /\ k + 1 \in 1..Len(S) /\ m = S[k + 1]
    BY <1>4, <2>1, HeaderRead
  <2> HIDE DEF m
  <2>3. sent' = sent
    BY <1>4 DEF ReadHeaderDone
  <2>4. CASE m \in Sized
    <3>1. inQ'[e] = inQ[e]
      BY <1>4, <2>4 DEF ReadHeaderDone, m
    <3> QED
      BY <2>3, <3>1 DEF Headers
  <2>5. CASE m \notin Sized
    <3>1. inQ'[e] = Append(inQ[e], WithHeader(e, m))
      BY <1>4, <2>5 DEF ReadHeaderDone, AddToIncoming, IInv, TypeOK, m
    <3>2. WithHeader(e, m) \in Delivery /\ WithHeader(e, m).hdr = m
      BY <2>2 DEF WithHeader, Delivery, IInv, TypeOK
    <3> QED
      BY <1>2, <1>3, <2>2, <2>3, <3>1, <3>2
  <2> QED
    BY <2>4, <2>5
<1>5. CASE ReadBodyDone(e)
  <2>1. Framed(e) /\ rd[e].want = "body" /\ sent' = sent
    BY <1>5, ReadsFramed DEF ReadBodyDone, ReadParsed, ReadDone
  <2> DEFINE m == rd[e].got[1][2]
  <2>2. m \in Msg /\ k + 1 \in 1..Len(S) /\ m = S[k + 1]
    BY <1>5, <2>1, BodyRead
  <2>3. tmpIn[e].hdr = S[k + 1]
    BY <2>1 DEF FrameInv, Delivered
  <2> HIDE DEF m
  <2>4. inQ'[e] = Append(inQ[e], WithBody(e, m))
    BY <1>5 DEF ReadBodyDone, AddToIncoming, IInv, TypeOK, m
  <2>5. WithBody(e, m) \in Delivery /\ WithBody(e, m).hdr = S[k + 1]
    BY <2>2, <2>3 DEF WithBody, Delivery, IInv, TypeOK
  <2> QED
    BY <1>2, <1>3, <2>1, <2>2, <2>4, <2>5
<1>6. CASE ~ReadHeaderDone(e) /\ ~ReadBodyDone(e)
  <2>1. inQ'[e] = inQ[e]
    <3>1. CASE Arrive(e) \/ ReadFailed(e) \/ ConnectToClient \/ CheckValidation \/ ConnectToServer
               \/ AnswerValidation \/ WriteValidationDone(e)
      BY <3>1 DEF Arrive, ReadFailed, ConnectToClient, CheckValidation, ConnectToServer,
                  AnswerValidation, WriteValidationDone
    <3> QED
      BY <1>6, <3>1, ReaderSteps DEF IInv, ReadHandler
  <2>2. sent'[Peer(e)] = S \/ \E m \in Msg : sent'[Peer(e)] = Append(S, m)
    <3>1. CASE Transmit(Peer(e)) \/ ConnectToClient \/ AnswerValidation
      BY <3>1 DEF Transmit, ConnectToClient, AnswerValidation
    <3> QED
      BY <1>1, <3>1, WriterSteps, WritesAfterSend, WritesAfterHandler DEF IInv
  <2> QED
    BY <2>1, <2>2 DEF Headers
<1> QED
  BY <1>4, <1>5, <1>6

\* What the server's end delivers is, message by message, what the client's
\* end was given to send.
THEOREM DeliversToServer == Spec => ServerChannel
<1>1. Init => ToServer!Init
  BY EmptySeq DEF Init, ToServer!Init, Headers, End
<1>2. IInv /\ FrameInv /\ [Next]_vars => [ToServer!Next]_ToServer!vars
  <2> SUFFICES ASSUME IInv, FrameInv, [Next]_vars PROVE [ToServer!Next]_ToServer!vars
    OBVIOUS
  <2>1. CASE Next
    <3>1. "server" \in End /\ Peer("server") = "client"
      BY DEF End, Peer
    <3> QED
      BY <2>1, <3>1, ChannelStep
         DEF ToServer!Next, ToServer!Accept, ToServer!HandOver, ToServer!vars
  <2>2. CASE UNCHANGED vars
    BY <2>2 DEF vars, ToServer!vars, Headers
  <2> QED
    BY <2>1, <2>2
<1> QED
  BY <1>1, <1>2, Invariant, FramesInvariant, PTL DEF Spec, ServerChannel, ToServer!Spec

\* ... and what the client's end delivers is what the server's end was given.
THEOREM DeliversToClient == Spec => ClientChannel
<1>1. Init => ToClient!Init
  BY EmptySeq DEF Init, ToClient!Init, Headers, End
<1>2. IInv /\ FrameInv /\ [Next]_vars => [ToClient!Next]_ToClient!vars
  <2> SUFFICES ASSUME IInv, FrameInv, [Next]_vars PROVE [ToClient!Next]_ToClient!vars
    OBVIOUS
  <2>1. CASE Next
    <3>1. "client" \in End /\ Peer("client") = "server"
      BY DEF End, Peer
    <3> QED
      BY <2>1, <3>1, ChannelStep
         DEF ToClient!Next, ToClient!Accept, ToClient!HandOver, ToClient!vars
  <2>2. CASE UNCHANGED vars
    BY <2>2 DEF vars, ToClient!vars, Headers
  <2> QED
    BY <2>1, <2>2
<1> QED
  BY <1>1, <1>2, Invariant, FramesInvariant, PTL DEF Spec, ClientChannel, ToClient!Spec

-----------------------------------------------------------------------------
(* Who is turned away.                                                     *)

\* Whatever the client does and whatever fails, what the server reads first is
\* the right answer, unless the client sent before it had answered: then it is
\* the header of the first message it sent.
THEOREM OnlyEarlySendersAreRefused == Spec => []RefusedOnlyIfEarly
<1>1. IInv /\ FrameInv => RefusedOnlyIfEarly
  <2> SUFFICES ASSUME IInv, FrameInv, ReadDone("server", "word")
               PROVE  \/ rd["server"].got = <<WordToken(Scramble[Nonce])>>
                      \/ /\ sent["client"] # <<>>
                         /\ rd["server"].got = <<Header(sent["client"][1])>>
    BY DEF RefusedOnlyIfEarly
  <2>1. "server" \in End /\ rd["server"].want = "word" /\ rd["server"].got # <<>>
    BY DEF End, ReadDone
  <2>2. rd["server"].got = <<rd["server"].got[1]>>
    <3>1. PICK t \in Token : rd["server"].got = <<t>>
      BY <2>1, SeqFacts DEF IInv, Read
    <3> QED
      BY <3>1
  <2>3. CASE Framed("server")
    <3>1. PICK a \in Int : GotTo("server", a)
      BY <2>3 DEF Framed
    <3>2. Step("server", sent[Peer("server")], -1, rd["server"].got[1], a)
      BY <2>1, <3>1 DEF GotTo, ReaderPlace
    <3>3. rd["server"].got[1] = WordToken(Scramble[Nonce])
      BY <2>1, <3>2, FirstIsWord DEF Expected
    <3> QED
      BY <2>2, <3>3
  <2>4. CASE Doomed
    <3>1. EarlyHeader(rd["server"].got[1])
      BY <2>1, <2>4 DEF Doomed
    <3> QED
      BY <2>2, <3>1 DEF EarlyHeader
  <2> QED
    BY <2>3, <2>4 DEF FrameInv
<1> QED
  BY <1>1, Invariant, FramesInvariant, PTL
=============================================================================
