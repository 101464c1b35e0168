----------------------------- MODULE ChatMessage ----------------------------
(***************************************************************************)
(* The length field of a chat_message (src/include/chat_message.hpp): four *)
(* characters in front of the body, blanks and then decimal digits.        *)
(***************************************************************************)
EXTENDS Integers

MaxBodyLength == 512

\* body_length(new_length) cuts what is longer.
BodyLength(n) == IF n > MaxBodyLength THEN MaxBodyLength ELSE n

\* sprintf("%4d"): a position is blank left of the first digit, but the last.
Blank == -1
Digit(n, w) == IF n < w /\ w # 1 THEN Blank ELSE (n \div w) % 10
EncodeHeader(n) == <<Digit(n, 1000), Digit(n, 100), Digit(n, 10), Digit(n, 1)>>

\* What atoi() makes of such a header.
Value(c, w) == IF c = Blank THEN 0 ELSE c * w
Atoi(h) == Value(h[1], 1000) + Value(h[2], 100) + Value(h[3], 10) + Value(h[4], 1)

\* decode_header() of the number atoi() found; a negative one becomes a huge
\* size_t and is refused with the long ones.
DecodeHeader(n) == IF n \in 0..MaxBodyLength THEN [ok |-> TRUE, length |-> n]
                                             ELSE [ok |-> FALSE, length |-> 0]
=============================================================================
