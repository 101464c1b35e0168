----------------------------- MODULE NetMessage ----------------------------
(***************************************************************************)
(* The body of a message as a stack of values (net_message.hpp): operator  *)
(* << puts the bytes of a value at the end of the body, operator >> takes  *)
(* them off again.  Both set header.size.                                  *)
(***************************************************************************)
EXTENDS Integers, Sequences

\* uint8_t
Byte == 0..255

\* header.size is a uint32_t, body.size() is not.
SizeLimit == 4294967296

Message == [size : 0..(SizeLimit - 1), body : Seq(Byte)]

\* A message as it is declared.
Fresh == [size |-> 0, body |-> <<>>]

\* header.size = msg.size()
Sized(body) == [size |-> Len(body) % SizeLimit, body |-> body]

Push(msg, data) == Sized(msg.body \o data)

\* What operator>> does for a value of n bytes when the body has as many: with
\* fewer, body.size() - sizeof(DataType) wraps around and the copy is of
\* memory that does not belong to the body.
PopDefined(msg, n) == n <= Len(msg.body)
Pop(msg, n) ==
    LET i == Len(msg.body) - n
    IN  [msg |-> Sized(SubSeq(msg.body, 1, i)), data |-> SubSeq(msg.body, i + 1, Len(msg.body))]
=============================================================================
