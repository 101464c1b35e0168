----------------------------- MODULE NetFraming ----------------------------
(***************************************************************************)
(* Where the two ends of a connection are in the stream between them: the  *)
(* invariant behind the framing of messages, used by the proofs.           *)
(*                                                                         *)
(* A place in the stream to an end is a number: -1 before the handshake    *)
(* word, 2 * n after n whole messages, 2 * n - 1 after the header of the   *)
(* n-th message when a body follows.  Bytes received, bytes on the way and *)
(* bytes being written take up where the other leaves off.                 *)
(***************************************************************************)
EXTENDS NetConnectionProps, Integers

\* The handshake word that comes first in the stream to e.
Expected(e) == WordToken(IF e = "client" THEN Nonce ELSE Scramble[Nonce])

\* Token t takes the stream to e, of messages S, from place a to place b.
Step(e, S, a, t, b) ==
    \/ a = -1 /\ b = 0 /\ t = Expected(e)
    \/ \E n \in 1..Len(S) :
          \/ a = 2 * (n - 1) /\ t = Header(S[n]) /\ b = IF S[n] \in Sized THEN 2 * n - 1 ELSE 2 * n
          \/ a = 2 * n - 1 /\ S[n] \in Sized /\ t = Body(S[n]) /\ b = 2 * n

\* The tokens w take it from a to b.
Chain(e, S, a, w, b) ==
    \E P \in [0..Len(w) -> Int] :
        /\ P[0] = a /\ P[Len(w)] = b
        /\ \A i \in 1..Len(w) : Step(e, S, P[i - 1], w[i], P[i])

\* The place up to which the handlers of e have used the stream to it.
ReaderPlace(e) ==
    IF rd[e].want = "hdr" THEN 2 * Len(inQ[e])
    ELSE IF rd[e].want = "body" THEN 2 * Len(inQ[e]) + 1
    ELSE IF rd[e].want = "none" /\ e = "client" /\ begun[e] THEN 0 ELSE -1

IsWord(w) == w.tok[1] = "word"

HasWord(ws) == \E i \in 1..Len(ws) : IsWord(ws[i])
HasUnsentWord(ws) == \E i \in 1..Len(ws) : IsWord(ws[i]) /\ ~ws[i].done

\* Has the kernel not yet been given the handshake word of p?
WordUnsent(p) == \/ ~begun[p]
                 \/ p = "client" /\ rd[p].want = "word"
                 \/ HasUnsentWord(wr[p])

\* How many messages of p have been written as a whole.
Popped(p) == Len(sent[p]) - Len(outQ[p])

\* What the kernel has of the message being written, in places.
Written(w) == IF w.tok[1] = "body" THEN IF w.done THEN 2 ELSE 1
              ELSE IF ~w.done THEN 0 ELSE IF w.tok[2] \in Sized THEN 1 ELSE 2

\* Of the message that one of the writes ws is of, the kernel has d places.
Within(ws, d) ==
    /\ ~HasMessageWrite(ws) => d = 0
    /\ \A i \in 1..Len(ws) : IsMessageWrite(ws[i]) => Written(ws[i]) = d

\* The kernel has been given the stream from p up to place b.
AtPlace(p, b) ==
    IF WordUnsent(p) THEN b = -1 /\ Popped(p) = 0 /\ Within(wr[p], 0)
                     ELSE Within(wr[p], b - 2 * Popped(p))

\* Do bytes that are written to e's peer's socket still come to e?
Flowing(e) == open[e] /\ open[Peer(e)] /\ link \in {"connecting", "up"}

\* The place after the bytes of a finished read that no handler has used.
GotTo(e, a) == IF rd[e].got = <<>> THEN a = ReaderPlace(e)
               ELSE Step(e, sent[Peer(e)], ReaderPlace(e), rd[e].got[1], a)

Framed(e) ==
    \E a, b \in Int :
        /\ GotTo(e, a)
        /\ Chain(e, sent[Peer(e)], a, wire[e], b)
        /\ Flowing(e) => AtPlace(Peer(e), b)

\* The client wrote its first message before its handshake word: the server
\* is going to take the header for a wrong answer.
EarlyHeader(t) == sent["client"] # <<>> /\ t = Header(sent["client"][1])

Doomed == /\ rd["server"].want \in {"none", "word"}
          /\ IF rd["server"].got # <<>> THEN EarlyHeader(rd["server"].got[1])
             ELSE wire["server"] # <<>> /\ EarlyHeader(wire["server"][1])

-----------------------------------------------------------------------------
\* Among the writes ws at most one is of a handshake word, which is t; the
\* first one, if need be.
OneWord(ws, t, first) ==
    \A i \in 1..Len(ws) : IsWord(ws[i]) =>
        /\ ws[i].tok = t
        /\ first => i = 1
        /\ \A j \in 1..Len(ws) : IsWord(ws[j]) => i = j

\* The server writes its handshake word before anything else; the client
\* writes its word while it reads nothing.
Words(p) == /\ OneWord(wr[p], Expected(Peer(p)), p = "server")
            /\ HasWord(wr[p]) => begun[p] /\ (p = "client" => rd[p] = NoRead)

\* m_qMessagesOut is what is left of what was put into it.
QueueIsRest(p) ==
    /\ Len(outQ[p]) <= Len(sent[p])
    /\ \A i \in 1..Len(outQ[p]) : outQ[p][i] = sent[p][Popped(p) + i]

BodiesSized(p) ==
    \A i \in 1..Len(wr[p]) : wr[p][i].tok[1] = "body" => wr[p][i].tok[2] \in Sized

Reads(e) ==
    /\ ~open[e] => wire[e] = <<>>
    /\ ~begun[e] => rd[e] = NoRead /\ inQ[e] = <<>>
    /\ rd[e].want = "none" => rd[e].got = <<>>
    /\ rd[e].want = "word" \/ (rd[e].want = "none" /\ open[e]) => inQ[e] = <<>>

\* What e has received is a prefix of what its peer sent, whole, and the
\* header in m_msgTemporaryIn is of the next one.
Delivered(e) ==
    /\ Len(inQ[e]) <= Len(sent[Peer(e)])
    /\ \A i \in 1..Len(inQ[e]) :
          /\ inQ[e][i].hdr = sent[Peer(e)][i]
          /\ inQ[e][i].hdr \in Sized => inQ[e][i].body = inQ[e][i].hdr
    /\ rd[e].want = "body" => /\ Len(inQ[e]) < Len(sent[Peer(e)])
                              /\ tmpIn[e].hdr = sent[Peer(e)][Len(inQ[e]) + 1]

NothingSentBeforeAccept == ~begun["server"] => sent["server"] = <<>>

FrameInv ==
    /\ NothingSentBeforeAccept
    /\ \A e \in End : /\ Words(e) /\ QueueIsRest(e) /\ BodiesSized(e)
                      /\ Reads(e) /\ Delivered(e)
    /\ Framed("client")
    /\ Framed("server") \/ Doomed
=============================================================================
