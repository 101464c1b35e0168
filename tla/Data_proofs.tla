----------------------------- MODULE Data_proofs ----------------------------
(***************************************************************************)
(* Proofs about the operators on data that the models are built from: the  *)
(* filter of a sequence, the length field of a chat_message, and the body  *)
(* of a message as a stack.                                                *)
(***************************************************************************)
EXTENDS SeqFilter, ChatMessage, NetMessage, SequenceTheorems, WellFoundedInduction, TLAPS

(***************************************************************************)
(* Induction on the natural numbers, for sets: a least number outside S    *)
(* would have a predecessor, which is outside S too.  (The library states  *)
(* induction for an operator, which the provers cannot instantiate; that   *)
(* there is a least number it states for sets.)                            *)
(***************************************************************************)
LEMMA SetInduction ==
    ASSUME NEW S, 0 \in S, \A n \in Nat : n \in S => n + 1 \in S
    PROVE  \A n \in Nat : n \in S
<1> DEFINE T == Nat \ S
           R == OpToRel(<, Nat)
<1> SUFFICES ASSUME T # {} PROVE FALSE
  OBVIOUS
<1>1. \E x \in T : \A y \in T : ~(<<y, x>> \in R)
  <2>1. IsWellFoundedOn(R, Nat)
    BY NatLessThanWellFounded, Zenon
  <2> HIDE DEF R
  <2> QED
    BY <2>1, WFMin, Zenon
<1>2. PICK x \in T : \A y \in T : ~(<<y, x>> \in R)
  BY <1>1
<1>3. x - 1 \in Nat /\ x - 1 < x
  OBVIOUS
<1>4. x - 1 \in T
  BY <1>3
<1>5. <<x - 1, x>> \in R
  BY <1>3, Zenon DEF OpToRel
<1> QED
  BY <1>2, <1>4, <1>5

-----------------------------------------------------------------------------
(* The filter of a sequence: the recursion defines a function, and each     *)
(* fact about it is an induction on the length of a prefix.                 *)

\* f is the filter of every prefix of s, up to length n.
IsFilter(f, s, T, n) ==
    f = [k \in 0..n |-> IF k = 0 THEN <<>>
                        ELSE IF s[k] \in T THEN Append(f[k - 1], s[k]) ELSE f[k - 1]]

\* The recursive definition of Kept has a solution.
LEMMA FilterExists ==
    ASSUME NEW s, NEW T
    PROVE  \A n \in Nat : \E f : IsFilter(f, s, T, n)
<1> DEFINE S == {n \in Nat : \E f : IsFilter(f, s, T, n)}
<1>1. 0 \in S
  <2>1. IsFilter([k \in 0..0 |-> <<>>], s, T, 0)
    BY DEF IsFilter
  <2> QED
    BY <2>1
<1>2. ASSUME NEW n \in Nat, n \in S PROVE n + 1 \in S
  <2>1. PICK f : IsFilter(f, s, T, n)
    BY <1>2
  <2> DEFINE g == [k \in 0..(n + 1) |->
                     IF k = n + 1 THEN IF s[k] \in T THEN Append(f[n], s[k]) ELSE f[n]
                     ELSE f[k]]
  <2>2. \A k \in 0..n : /\ f[k] = IF k = 0 THEN <<>>
                            ELSE IF s[k] \in T THEN Append(f[k - 1], s[k]) ELSE f[k - 1]
    <3>1. f = [k \in 0..n |-> IF k = 0 THEN <<>>
                        ELSE IF s[k] \in T THEN Append(f[k - 1], s[k]) ELSE f[k - 1]]
      BY <2>1 DEF IsFilter
    <3> QED
      BY <3>1, Zenon
  <2>3. ASSUME NEW k \in 0..(n + 1)
        PROVE  g[k] = IF k = 0 THEN <<>>
                      ELSE IF s[k] \in T THEN Append(g[k - 1], s[k]) ELSE g[k - 1]
    <3>1. CASE k = n + 1
      <4>1. k - 1 \in 0..(n + 1) /\ k - 1 # n + 1 /\ k - 1 = n /\ k # 0
        BY <3>1
      <4> QED
        BY <3>1, <4>1
    <3>2. CASE k # n + 1 /\ k # 0
      <4>1. k \in 0..n /\ k - 1 \in 0..(n + 1) /\ k - 1 # n + 1
        BY <3>2
      <4>2. g[k] = f[k] /\ g[k - 1] = f[k - 1]
        BY <3>2, <4>1
      <4> QED
        BY <2>2, <3>2, <4>1, <4>2
    <3>3. CASE k = 0
      BY <2>2, <3>3
    <3> QED
      BY <3>1, <3>2, <3>3
  <2>4. IsFilter(g, s, T, n + 1)
    <3>1. g = [k \in 0..(n + 1) |-> g[k]]
      OBVIOUS
    <3> HIDE DEF g
    <3> QED
      BY <2>3, <3>1, Zenon DEF IsFilter
  <2> QED
    BY <2>4
<1> HIDE DEF S
<1>3. \A n \in Nat : n \in S
  BY <1>1, <1>2, SetInduction
<1> QED
  BY <1>3 DEF S

\* The function in the definition of Kept, and its values.
LEMMA KeptByPrefix ==
    ASSUME NEW s, NEW T, Len(s) \in Nat
    PROVE  \E f : /\ Kept(s, T) = f[Len(s)]
                  /\ f[0] = <<>>
                  /\ \A k \in 1..Len(s) : f[k] = IF s[k] \in T THEN Append(f[k - 1], s[k])
                                                 ELSE f[k - 1]
<1> DEFINE f == CHOOSE f : IsFilter(f, s, T, Len(s))
<1>1. IsFilter(f, s, T, Len(s))
  BY FilterExists
<1>2. Kept(s, T) = f[Len(s)]
  BY Zenon DEF Kept, IsFilter
<1> HIDE DEF f
<1>3. \A k \in 0..Len(s) : f[k] = IF k = 0 THEN <<>>
                            ELSE IF s[k] \in T THEN Append(f[k - 1], s[k]) ELSE f[k - 1]
  <2>1. f = [k \in 0..Len(s) |-> IF k = 0 THEN <<>>
                        ELSE IF s[k] \in T THEN Append(f[k - 1], s[k]) ELSE f[k - 1]]
    BY <1>1 DEF IsFilter
  <2> QED
    BY <2>1, Zenon
<1>4. f[0] = <<>>
  BY <1>3
<1>5. \A k \in 1..Len(s) : f[k] = IF s[k] \in T THEN Append(f[k - 1], s[k]) ELSE f[k - 1]
  BY <1>3
<1> QED
  BY <1>2, <1>4, <1>5

\* What is kept is in T, and was in s.
LEMMA KeptType ==
    ASSUME NEW S, NEW s \in Seq(S), NEW T
    PROVE  Kept(s, T) \in Seq(S \cap T)
<1> DEFINE U == S \cap T
<1>1. PICK f : /\ Kept(s, T) = f[Len(s)]
               /\ f[0] = <<>>
               /\ \A k \in 1..Len(s) : f[k] = IF s[k] \in T THEN Append(f[k - 1], s[k])
                                              ELSE f[k - 1]
  BY KeptByPrefix
<1> DEFINE P == {n \in Nat : n <= Len(s) => f[n] \in Seq(U)}
<1>2. 0 \in P
  BY <1>1, EmptySeq
<1>3. ASSUME NEW n \in Nat, n \in P PROVE n + 1 \in P
  <2> SUFFICES ASSUME n + 1 <= Len(s) PROVE f[n + 1] \in Seq(U)
    OBVIOUS
  <2>1. n + 1 \in 1..Len(s) /\ (n + 1) - 1 = n /\ f[n] \in Seq(U) /\ s[n + 1] \in S
    BY <1>3
  <2>2. f[n + 1] = IF s[n + 1] \in T THEN Append(f[n], s[n + 1]) ELSE f[n]
    BY <1>1, <2>1
  <2> HIDE DEF P
  <2> QED
    BY <2>1, <2>2, AppendProperties
<1>4. \A n \in Nat : n \in P
  <2> HIDE DEF P
  <2> QED
    BY <1>2, <1>3, SetInduction
<1> QED
  BY <1>1, <1>4

\* Nothing is kept of nothing.
LEMMA KeptEmpty == ASSUME NEW T PROVE Kept(<<>>, T) = <<>>
  BY KeptByPrefix

\* One element more is kept or not, whatever came before it.
LEMMA KeptAppend ==
    ASSUME NEW S, NEW s \in Seq(S), NEW x \in S, NEW T
    PROVE  Kept(Append(s, x), T) = IF x \in T THEN Append(Kept(s, T), x) ELSE Kept(s, T)
<1> DEFINE u == Append(s, x)
<1>1. /\ u \in Seq(S) /\ Len(u) = Len(s) + 1 /\ u[Len(s) + 1] = x /\ Len(s) \in Nat
      /\ \A i \in 1..Len(s) : u[i] = s[i]
  BY AppendProperties, LenProperties
<1> HIDE DEF u
<1>2. PICK f : /\ Kept(s, T) = f[Len(s)]
               /\ f[0] = <<>>
               /\ \A k \in 1..Len(s) : f[k] = IF s[k] \in T THEN Append(f[k - 1], s[k])
                                              ELSE f[k - 1]
  BY <1>1, KeptByPrefix
<1>3. PICK g : /\ Kept(u, T) = g[Len(u)]
               /\ g[0] = <<>>
               /\ \A k \in 1..Len(u) : g[k] = IF u[k] \in T THEN Append(g[k - 1], u[k])
                                              ELSE g[k - 1]
  BY <1>1, KeptByPrefix
<1> DEFINE P == {n \in Nat : n <= Len(s) => f[n] = g[n]}
<1>4. 0 \in P
  BY <1>2, <1>3
<1>5. ASSUME NEW n \in Nat, n \in P PROVE n + 1 \in P
  <2> SUFFICES ASSUME n + 1 <= Len(s) PROVE f[n + 1] = g[n + 1]
    OBVIOUS
  <2>1. /\ n + 1 \in 1..Len(s) /\ n + 1 \in 1..Len(u) /\ (n + 1) - 1 = n
        /\ f[n] = g[n] /\ u[n + 1] = s[n + 1]
    BY <1>1, <1>5
  <2>2. /\ f[n + 1] = IF s[n + 1] \in T THEN Append(f[n], s[n + 1]) ELSE f[n]
        /\ g[n + 1] = IF u[n + 1] \in T THEN Append(g[n], u[n + 1]) ELSE g[n]
    BY <1>2, <1>3, <2>1
  <2> QED
    BY <2>1, <2>2
<1>6. \A n \in Nat : n \in P
  <2> HIDE DEF P
  <2> QED
    BY <1>4, <1>5, SetInduction
<1>7. f[Len(s)] = g[Len(s)]
  BY <1>1, <1>6
<1>8. Len(u) \in 1..Len(u) /\ Len(u) - 1 = Len(s) /\ u[Len(u)] = x
  BY <1>1
<1>9. g[Len(u)] = IF x \in T THEN Append(g[Len(s)], x) ELSE g[Len(s)]
  BY <1>3, <1>8
<1> QED
  BY <1>2, <1>3, <1>7, <1>9 DEF u

-----------------------------------------------------------------------------
(* What encode_header() writes, decode_header() reads.                     *)

\* The numbers that fit into the length field.
FourDigits == 0..9999

\* atoi() gets back the number that sprintf("%4d") wrote, for every number of
\* at most four digits: a blank counts for nothing, as does the zero it is
\* there for.
THEOREM RoundTrip == \A n \in FourDigits : Atoi(EncodeHeader(n)) = n
<1> SUFFICES ASSUME NEW n \in FourDigits
             PROVE  Atoi(EncodeHeader(n)) = n
  OBVIOUS
<1> DEFINE thousands == ((n \div 1000) % 10) * 1000
           hundreds == ((n \div 100) % 10) * 100
           tens == ((n \div 10) % 10) * 10
           ones == n % 10
<1>1. Value(Digit(n, 1000), 1000) = thousands
  BY SMT DEF Value, Digit, Blank, FourDigits
<1>2. Value(Digit(n, 100), 100) = hundreds
  BY SMT DEF Value, Digit, Blank, FourDigits
<1>3. Value(Digit(n, 10), 10) = tens
  BY SMT DEF Value, Digit, Blank, FourDigits
<1>4. Value(Digit(n, 1), 1) = ones
  BY SMT DEF Value, Digit, Blank, FourDigits
<1>5. thousands + hundreds + tens + ones = n
  BY SMTT(60) DEF FourDigits
<1>6. Atoi(EncodeHeader(n)) = Value(Digit(n, 1000), 1000) + Value(Digit(n, 100), 100)
                              + Value(Digit(n, 10), 10) + Value(Digit(n, 1), 1)
  BY SMT DEF Atoi, EncodeHeader
<1> HIDE DEF thousands, hundreds, tens, ones
<1>7. Atoi(EncodeHeader(n)) = thousands + hundreds + tens + ones
  <2> DEFINE Sum(a, b, c, d) == a + b + c + d
  <2>1. Atoi(EncodeHeader(n)) = Sum(Value(Digit(n, 1000), 1000), Value(Digit(n, 100), 100),
                                    Value(Digit(n, 10), 10), Value(Digit(n, 1), 1))
    BY <1>6
  <2> HIDE DEF Sum
  <2>2. Atoi(EncodeHeader(n)) = Sum(thousands, hundreds, tens, ones)
    BY <1>1, <1>2, <1>3, <1>4, <2>1
  <2> QED
    BY <2>2 DEF Sum
<1> QED
  BY <1>5, <1>7

\* The other end accepts the header of every message and reads as many bytes
\* as body_length() left of it.
THEOREM HeaderAccepted ==
    \A n \in Nat : DecodeHeader(Atoi(EncodeHeader(BodyLength(n))))
                       = [ok |-> TRUE, length |-> BodyLength(n)]
<1> SUFFICES ASSUME NEW n \in Nat
             PROVE  DecodeHeader(Atoi(EncodeHeader(BodyLength(n))))
                       = [ok |-> TRUE, length |-> BodyLength(n)]
  OBVIOUS
<1>1. BodyLength(n) \in 0..MaxBodyLength /\ BodyLength(n) \in FourDigits
  BY DEF BodyLength, MaxBodyLength, FourDigits
<1>2. Atoi(EncodeHeader(BodyLength(n))) = BodyLength(n)
  BY <1>1, RoundTrip
<1> QED
  BY <1>1, <1>2 DEF DecodeHeader

-----------------------------------------------------------------------------
(* operator<< and operator>> of a message are push and pop of a stack.     *)

\* header.size and body agree, up to the width of header.size.
WellSized(msg) == msg.size = Len(msg.body) % SizeLimit

\* header.size counts.
LEMMA Width == SizeLimit \in Nat \ {0}
  BY SMT DEF SizeLimit

\* Sized makes a message of a body.
LEMMA SizedIsMessage ==
    ASSUME NEW body \in Seq(Byte)
    PROVE  Sized(body) \in Message /\ WellSized(Sized(body))
<1>1. Len(body) \in Nat
  OBVIOUS
<1>2. Len(body) % SizeLimit \in 0..(SizeLimit - 1)
  BY <1>1, Width
<1> QED
  BY <1>2 DEF Sized, Message, WellSized

\* A value popped right after it was pushed is that value, and the message is
\* as it was before.  (The pop is defined, the body being long enough.)
THEOREM PopUndoesPush ==
    ASSUME NEW msg \in Message, WellSized(msg), NEW data \in Seq(Byte)
    PROVE  /\ PopDefined(Push(msg, data), Len(data))
           /\ Pop(Push(msg, data), Len(data)) = [msg |-> msg, data |-> data]
<1> DEFINE b == msg.body
           both == b \o data
           i == Len(both) - Len(data)
<1>1. b \in Seq(Byte) /\ both \in Seq(Byte) /\ Len(b) \in Nat /\ Len(data) \in Nat
  BY DEF Message
<1>2. Len(both) = Len(b) + Len(data) /\ i = Len(b)
  BY <1>1
<1>3. SubSeq(both, 1, i) = b
  <2>1. SubSeq(both, 1, i) \in Seq(Byte) /\ Len(SubSeq(both, 1, i)) = Len(b)
    BY <1>1, <1>2
  <2>2. ASSUME NEW k \in 1..Len(b) PROVE SubSeq(both, 1, i)[k] = b[k]
    BY <1>1, <1>2, <2>2
  <2> QED
    BY <1>1, <2>1, <2>2, SeqEqual
<1>4. SubSeq(both, i + 1, Len(both)) = data
  <2>1. SubSeq(both, i + 1, Len(both)) \in Seq(Byte)
        /\ Len(SubSeq(both, i + 1, Len(both))) = Len(data)
    BY <1>1, <1>2
  <2>2. ASSUME NEW k \in 1..Len(data) PROVE SubSeq(both, i + 1, Len(both))[k] = data[k]
    BY <1>1, <1>2, <2>2
  <2> QED
    BY <1>1, <2>1, <2>2, SeqEqual
<1>5. Push(msg, data).body = both
  BY DEF Push, Sized
<1>6. Sized(b) = msg
  BY DEF Sized, WellSized, Message
<1>7. PopDefined(Push(msg, data), Len(data))
  BY <1>1, <1>2, <1>5 DEF PopDefined
<1>8. Pop(Push(msg, data), Len(data)) = [msg |-> Sized(SubSeq(both, 1, i)),
                                         data |-> SubSeq(both, i + 1, Len(both))]
  BY <1>5 DEF Pop
<1> QED
  BY <1>3, <1>4, <1>6, <1>7, <1>8

\* So values come back in the reverse order of their pushes.
THEOREM LastInFirstOut ==
    ASSUME NEW msg \in Message, WellSized(msg), NEW d1 \in Seq(Byte), NEW d2 \in Seq(Byte)
    PROVE  LET two == Push(Push(msg, d1), d2)
               last == Pop(two, Len(d2))
           IN  /\ last.data = d2
               /\ Pop(last.msg, Len(d1)) = [msg |-> msg, data |-> d1]
<1>1. Push(msg, d1) \in Message /\ WellSized(Push(msg, d1))
  <2>1. msg.body \o d1 \in Seq(Byte)
    BY DEF Message
  <2> QED
    BY <2>1, SizedIsMessage DEF Push
<1>2. Pop(Push(Push(msg, d1), d2), Len(d2)) = [msg |-> Push(msg, d1), data |-> d2]
  BY <1>1, PopUndoesPush
<1>3. Pop(Push(msg, d1), Len(d1)) = [msg |-> msg, data |-> d1]
  BY PopUndoesPush
<1> QED
  BY <1>2, <1>3
=============================================================================
