------------------------------ MODULE NdefProofs -----------------------------
(***************************************************************************)
(* Proofs about Ndef, for messages, strings and abbreviations of any       *)
(* length and any size of a byte: what is generated is a message of the    *)
(* format, what was written short is read back, and the records of other   *)
(* writers are read in order.                                              *)
(*                                                                         *)
(* MessageIsWhatWasAsked is inductive and reduces the three properties to  *)
(* facts about Generate, Parse and Decode, which most of the module is     *)
(* about: that the recursive functions of the readers exist, where a       *)
(* record's units are (FrameAt), what is read of such a place by either    *)
(* reader, and where the records of a whole message are.                   *)
(***************************************************************************)
EXTENDS NdefInv, SequenceTheorems, WellFoundedInduction, TLAPS

-----------------------------------------------------------------------------
(***************************************************************************)
(* Sequences of anything: the library's theorems are about Seq(S).         *)
(***************************************************************************)
LEMMA SequenceIn ==
  ASSUME NEW s, IsSequence(s), NEW S, \A i \in 1..Len(s) : s[i] \in S
  PROVE  s \in Seq(S)
<1>1. s \in [1..Len(s) -> S]
  BY DEF IsSequence
<1>2. QED
  BY <1>1, SeqDef DEF IsSequence

LEMMA InSequence ==
  ASSUME NEW S, NEW s \in Seq(S)
  PROVE  IsSequence(s)
BY LenProperties DEF IsSequence

LEMMA SequenceOfFunction ==
  ASSUME NEW n \in Nat, NEW f, f = [i \in 1..n |-> f[i]]
  PROVE  IsSequence(f) /\ Len(f) = n
<1>1. f \in [1..n -> {f[i] : i \in 1..n}]
  OBVIOUS
<1>2. f \in Seq({f[i] : i \in 1..n})
  BY <1>1, SeqDef
<1>3. QED
  BY <1>1, <1>2, InSequence, LenProperties

LEMMA Equal ==
  ASSUME NEW s, NEW t, IsSequence(s), IsSequence(t), Len(s) = Len(t),
         \A i \in 1..Len(s) : s[i] = t[i]
  PROVE  s = t
BY DEF IsSequence

LEMMA Concat ==
  ASSUME NEW s, NEW t, IsSequence(s), IsSequence(t)
  PROVE  /\ IsSequence(s \o t)
         /\ Len(s \o t) = Len(s) + Len(t)
         /\ \A i \in 1..Len(s) : (s \o t)[i] = s[i]
         /\ \A i \in 1..Len(t) : (s \o t)[Len(s) + i] = t[i]
<1> DEFINE S == {s[i] : i \in 1..Len(s)} \cup {t[i] : i \in 1..Len(t)}
<1>1. s \in Seq(S) /\ t \in Seq(S)
  BY SequenceIn
<1> HIDE DEF S
<1>2. /\ s \o t \in Seq(S)
      /\ Len(s \o t) = Len(s) + Len(t)
      /\ \A i \in 1 .. Len(s) + Len(t) : (s \o t)[i] =
                     IF i <= Len(s) THEN s[i] ELSE t[i - Len(s)]
  BY <1>1, ConcatProperties
<1>3. IsSequence(s \o t)
  BY <1>2, InSequence
<1>4. Len(s) \in Nat /\ Len(t) \in Nat
  BY DEF IsSequence
<1>5. ASSUME NEW i \in 1..Len(s)
      PROVE  (s \o t)[i] = s[i]
  BY <1>2, <1>4
<1>6. ASSUME NEW i \in 1..Len(t)
      PROVE  (s \o t)[Len(s) + i] = t[i]
  <2>1. /\ Len(s) + i \in 1 .. Len(s) + Len(t)
        /\ ~(Len(s) + i <= Len(s))
        /\ Len(s) + i - Len(s) = i
    BY <1>4
  <2>2. QED
    BY <1>2, <2>1
<1>7. QED
  BY <1>2, <1>3, <1>5, <1>6

LEMMA ConcatEmpty ==
  ASSUME NEW s, IsSequence(s)
  PROVE  s \o <<>> = s /\ <<>> \o s = s
<1>1. s \in Seq({s[i] : i \in 1..Len(s)})
  BY SequenceIn
<1>2. QED
  BY <1>1, ConcatEmptySeq

LEMMA Slice ==
  ASSUME NEW s, NEW a \in Nat, NEW b \in Nat, a <= b + 1
  PROVE  /\ IsSequence(SubSeq(s, a, b))
         /\ Len(SubSeq(s, a, b)) = b + 1 - a
         /\ \A i \in 1..(b + 1 - a) : SubSeq(s, a, b)[i] = s[a - 1 + i]
<1> DEFINE S == {s[i] : i \in a..b}
<1>1. \A i \in a..b : s[i] \in S
  OBVIOUS
<1> HIDE DEF S
<1>2. /\ SubSeq(s, a, b) \in Seq(S)
      /\ Len(SubSeq(s, a, b)) = IF a <= b THEN b - a + 1 ELSE 0
      /\ \A i \in 1 .. b - a + 1 : SubSeq(s, a, b)[i] = s[a + i - 1]
  BY <1>1, SubSeqProperties
<1>3. IsSequence(SubSeq(s, a, b))
  BY <1>2, InSequence
<1>4. Len(SubSeq(s, a, b)) = b + 1 - a
  BY <1>2
<1>5. ASSUME NEW i \in 1..(b + 1 - a)
      PROVE  SubSeq(s, a, b)[i] = s[a - 1 + i]
  <2>1. i \in 1 .. b - a + 1 /\ a - 1 + i = a + i - 1
    OBVIOUS
  <2>2. QED
    BY <1>2, <2>1
<1>6. QED
  BY <1>3, <1>4, <1>5

LEMMA Tuples ==
  /\ IsSequence(<<>>) /\ Len(<<>>) = 0
  /\ \A x : IsSequence(<<x>>) /\ Len(<<x>>) = 1 /\ <<x>>[1] = x
  /\ \A x, y : IsSequence(<<x, y>>) /\ Len(<<x, y>>) = 2 /\ <<x, y>>[1] = x /\ <<x, y>>[2] = y
  /\ \A x, y, z, w : /\ IsSequence(<<x, y, z, w>>) /\ Len(<<x, y, z, w>>) = 4
                     /\ <<x, y, z, w>>[1] = x /\ <<x, y, z, w>>[2] = y
                     /\ <<x, y, z, w>>[3] = z /\ <<x, y, z, w>>[4] = w
<1>1. IsSequence(<<>>) /\ Len(<<>>) = 0
  <2>1. <<>> \in Seq({}) /\ Len(<<>>) = 0
    OBVIOUS
  <2>2. QED
    BY <2>1, InSequence
<1>2. ASSUME NEW x
      PROVE  IsSequence(<<x>>) /\ Len(<<x>>) = 1 /\ <<x>>[1] = x
  <2>1. <<x>> \in Seq({x}) /\ Len(<<x>>) = 1 /\ <<x>>[1] = x
    OBVIOUS
  <2>2. QED
    BY <2>1, InSequence
<1>3. ASSUME NEW x, NEW y
      PROVE  IsSequence(<<x, y>>) /\ Len(<<x, y>>) = 2 /\ <<x, y>>[1] = x /\ <<x, y>>[2] = y
  <2>1. <<x, y>> \in Seq({x, y}) /\ Len(<<x, y>>) = 2 /\ <<x, y>>[1] = x /\ <<x, y>>[2] = y
    OBVIOUS
  <2>2. QED
    BY <2>1, InSequence
<1>4. ASSUME NEW x, NEW y, NEW z, NEW w
      PROVE  /\ IsSequence(<<x, y, z, w>>) /\ Len(<<x, y, z, w>>) = 4
             /\ <<x, y, z, w>>[1] = x /\ <<x, y, z, w>>[2] = y
             /\ <<x, y, z, w>>[3] = z /\ <<x, y, z, w>>[4] = w
  <2>1. /\ <<x, y, z, w>> \in Seq({x, y, z, w}) /\ Len(<<x, y, z, w>>) = 4
        /\ <<x, y, z, w>>[1] = x /\ <<x, y, z, w>>[2] = y
        /\ <<x, y, z, w>>[3] = z /\ <<x, y, z, w>>[4] = w
    OBVIOUS
  <2>2. QED
    BY <2>1, InSequence
<1>5. QED
  BY <1>1, <1>2, <1>3, <1>4

LEMMA ConcatOne ==
  ASSUME NEW s, NEW x, IsSequence(s)
  PROVE  /\ IsSequence(s \o <<x>>)
         /\ Len(s \o <<x>>) = Len(s) + 1
         /\ \A i \in 1..Len(s) : (s \o <<x>>)[i] = s[i]
         /\ (s \o <<x>>)[Len(s) + 1] = x
<1> DEFINE t == <<x>>
<1>1. IsSequence(t) /\ Len(t) = 1 /\ t[1] = x
  BY Tuples
<1> HIDE DEF t
<1>2. /\ IsSequence(s \o t)
      /\ Len(s \o t) = Len(s) + Len(t)
      /\ \A i \in 1..Len(s) : (s \o t)[i] = s[i]
      /\ \A i \in 1..Len(t) : (s \o t)[Len(s) + i] = t[i]
  BY <1>1, Concat
<1>3. (s \o t)[Len(s) + 1] = x
  BY <1>1, <1>2
<1>4. QED
  BY <1>1, <1>2, <1>3 DEF t

-----------------------------------------------------------------------------
(***************************************************************************)
(* Numbers of four digits.                                                 *)
(***************************************************************************)
LEMMA Division ==
  ASSUME NEW n \in Nat
  PROVE  /\ n \div Byte \in Nat
         /\ n % Byte \in 0..(Byte - 1)
         /\ n = (n \div Byte) * Byte + (n % Byte)
<1>1. Byte \in Nat /\ Byte > 0
  BY NdefAssumption
<1>2. n \div Byte \in Nat /\ n % Byte \in 0..(Byte - 1)
  BY <1>1
<1>3. ASSUME NEW q \in Int, NEW r \in Int, q = n \div Byte, r = n % Byte
      PROVE  n = Byte * q + r
  BY <1>1, <1>3, SMTT(30)
<1>4. n \div Byte \in Int /\ n % Byte \in Int
  BY <1>2
<1>5. n = Byte * (n \div Byte) + (n % Byte)
  BY <1>3, <1>4, Zenon
<1>6. ASSUME NEW q \in Nat
      PROVE  Byte * q = q * Byte
  BY <1>1, SMTT(30)
<1>7. QED
  BY <1>2, <1>5, <1>6

\* A quotient of less than k bytes is less than k.
LEMMA Quotient ==
  ASSUME NEW q \in Nat, NEW r \in Nat, NEW k \in Nat, q * Byte + r < k * Byte
  PROVE  q < k
<1> DEFINE B == Byte
<1>1. B \in Nat /\ B > 0
  BY NdefAssumption
<1>2. q * B + r < k * B
  OBVIOUS
<1> HIDE DEF B
<1>3. CASE q >= k
  <2>1. PICK d \in Nat : q = k + d
    <3>1. q - k \in Nat /\ q = k + (q - k)
      BY <1>3
    <3>2. QED
      BY <3>1
  <2>2. q * B = k * B + d * B
    BY <1>1, <2>1, SMTT(30)
  <2>3. d * B \in Nat /\ k * B \in Nat
    BY <1>1, SMTT(30)
  <2>4. QED
    BY <1>2, <2>2, <2>3
<1>4. QED
  BY <1>3

LEMMA SmallRemainder ==
  ASSUME NEW n \in Nat, NEW B \in Nat \ {0}, n < B
  PROVE  n % B = n
<1>1. n \div B = 0
  BY SMTT(30)
<1>2. n = (n \div B) * B + (n % B)
  BY SMTT(30)
<1>3. n % B \in Nat
  BY SMTT(30)
<1>4. QED
  BY <1>1, <1>2, <1>3

FourDigits(n) == n < Byte * Byte * Byte * Byte

LEMMA Digits ==
  ASSUME NEW n \in Nat, FourDigits(n)
  PROVE  /\ IsSequence(Number(n)) /\ Len(Number(n)) = 4
         /\ ((Number(n)[1] * Byte + Number(n)[2]) * Byte + Number(n)[3]) * Byte + Number(n)[4] = n
<1> DEFINE a == n \div Byte
           b == a \div Byte
           c == b \div Byte
           w == n % Byte
           x == a % Byte
           y == b % Byte
           z == c % Byte
           K == Byte * Byte
           L == K * Byte
<1>1. Number(n) = <<z, y, x, w>>
  BY DEF Number
<1>2. a \in Nat /\ w \in Nat /\ n = a * Byte + w
  BY Division
<1>3. b \in Nat /\ x \in Nat /\ a = b * Byte + x
  BY <1>2, Division
<1>4. c \in Nat /\ y \in Nat /\ b = c * Byte + y
  BY <1>3, Division
<1>5. c < Byte => z = c
  <2> HIDE DEF a, b, c, w, x, y, K, L
  <2>1. Byte \in Nat \ {0}
    BY NdefAssumption
  <2>2. QED
    BY <1>4, <2>1, SmallRemainder, Zenon
<1>6. Byte \in Nat /\ K \in Nat /\ L \in Nat
  BY NdefAssumption, SMTT(30)
<1> HIDE DEF a, b, c, w, x, y, z
<1>7. n < L * Byte
  BY DEF FourDigits
<1>8. L = K * Byte /\ K = Byte * Byte
  OBVIOUS
<1> HIDE DEF K, L
<1>9. a * Byte + w < L * Byte
  BY <1>2, <1>7, Zenon
<1>10. a < L
  BY <1>2, <1>6, <1>9, Quotient, Zenon
<1>11. b * Byte + x < K * Byte
  BY <1>3, <1>8, <1>10, Zenon
<1>12. b < K
  BY <1>3, <1>6, <1>11, Quotient, Zenon
<1>13. c * Byte + y < Byte * Byte
  BY <1>4, <1>8, <1>12, Zenon
<1>14. c < Byte
  BY <1>4, <1>6, <1>13, Quotient, Zenon
<1>15. ((z * Byte + y) * Byte + x) * Byte + w = n
  BY <1>2, <1>3, <1>4, <1>5, <1>14, Zenon
<1>16. /\ IsSequence(Number(n)) /\ Len(Number(n)) = 4
       /\ Number(n)[1] = z /\ Number(n)[2] = y /\ Number(n)[3] = x /\ Number(n)[4] = w
  BY <1>1, Tuples
<1>17. QED
  BY <1>15, <1>16, Zenon

-----------------------------------------------------------------------------
(***************************************************************************)
(* Induction over a set of naturals.                                       *)
(***************************************************************************)
LEMMA Induction ==
  ASSUME NEW T, 0 \in T, \A n \in Nat : n \in T => n + 1 \in T
  PROVE  \A n \in Nat : n \in T
<1> SUFFICES ASSUME NEW k \in Nat, k \notin T PROVE FALSE
  OBVIOUS
<1> DEFINE U == Nat \ T
<1>1. U \subseteq Nat /\ U # {}
  OBVIOUS
<1> HIDE DEF U
<1>2. PICK x \in U : \A y \in U : ~(<<y, x>> \in OpToRel(<, Nat))
  BY <1>1, WFMin, NatLessThanWellFounded, Zenon
<1>3. x \in Nat /\ x \notin T
  BY DEF U
<1>4. x # 0
  BY <1>3
<1>5. x - 1 \in Nat /\ x - 1 < x /\ x = (x - 1) + 1
  BY <1>3, <1>4
<1>6. <<x - 1, x>> \in OpToRel(<, Nat)
  BY <1>3, <1>5 DEF OpToRel
<1>7. x - 1 \in T
  BY <1>2, <1>5, <1>6 DEF U
<1>8. QED
  BY <1>3, <1>5, <1>7

-----------------------------------------------------------------------------
(***************************************************************************)
(* The reader.  What is read of a buffer depends on buffers further on in  *)
(* it only, so the function that Parse defines exists.                     *)
(***************************************************************************)
Reads(m, read) == read = [p \in Buffers(m) |-> ReadFrom(m, read, p[1], p[2])]

LEMMA HeaderBegin ==
  ASSUME NEW m, NEW b \in Nat
  PROVE  Header(m, b).begin \in (b + 3)..(b + 6)
BY DEF Header

\* The parts of a record that is not longer than its buffer are in it.
Inside(h, b, e, n) ==
  /\ h.type \in Nat /\ h.id \in Nat /\ h.payload \in Nat /\ h.begin \in Nat
  /\ h.begin + h.type + h.id \in (b + 1)..(n + 1)
  /\ h.begin + h.type + h.id + h.payload - 1 \in 0..e
  /\ h.begin + h.type + h.id + h.payload - 1 >= h.begin + h.type + h.id - 1
  /\ h.begin + (h.type + h.id + h.payload) \in (b + 1)..(n + 1)
  /\ h.begin + (h.type + h.id + h.payload) <= e + 1
  /\ Remaining(h.type + h.id + h.payload, e + 1 - h.begin) = 0

LEMMA PartsInside ==
  ASSUME NEW m, IsSequence(m), NEW b \in 1..(Len(m) + 1), NEW e \in 0..Len(m),
         HasParts(Header(m, b), e)
  PROVE  Inside(Header(m, b), b, e, Len(m))
<1> DEFINE h == Header(m, b)
           t == h.type
           i == h.id
           p == h.payload
           begin == h.begin
<1>1. Len(m) \in Nat
  BY DEF IsSequence
<1>2. begin \in Nat /\ begin >= b + 3
  BY HeaderBegin
<1>3. /\ t \in Nat /\ i \in Nat /\ p \in Nat
      /\ t + i + p <= e + 1 - begin
  BY DEF HasParts
<1> HIDE DEF t, i, p, begin
<1>4. Remaining(t + i + p, e + 1 - begin) = 0
  BY <1>2, <1>3 DEF Remaining
<1>5. /\ t \in Nat /\ i \in Nat /\ p \in Nat /\ begin \in Nat
      /\ begin + t + i \in (b + 1)..(Len(m) + 1)
      /\ begin + t + i + p - 1 \in 0..e
      /\ begin + t + i + p - 1 >= begin + t + i - 1
      /\ begin + (t + i + p) \in (b + 1)..(Len(m) + 1)
      /\ begin + (t + i + p) <= e + 1
      /\ Remaining(t + i + p, e + 1 - begin) = 0
  BY <1>1, <1>2, <1>3, <1>4
<1>6. QED
  BY <1>5, Zenon DEF t, i, p, begin, Inside

LEMMA ReadCongruence ==
  ASSUME NEW m, IsSequence(m), NEW b \in 1..(Len(m) + 1), NEW e \in 0..Len(m), NEW f, NEW g,
         \A c \in 1..(Len(m) + 1), d \in 0..e : c > b => f[<<c, d>>] = g[<<c, d>>]
  PROVE  ReadFrom(m, f, b, e) = ReadFrom(m, g, b, e)
<1> DEFINE h     == Header(m, b)
           size  == h.type + h.id + h.payload
           first == h.begin + h.type + h.id
           last  == first + h.payload - 1
           next  == h.begin + size
<1>1. CASE e <= b \/ ~HasHeader(m, b, e) \/ ~HasParts(h, e)
  BY <1>1 DEF ReadFrom
<1>2. CASE ~(e <= b \/ ~HasHeader(m, b, e) \/ ~HasParts(h, e))
  <2>1. /\ first \in (b + 1)..(Len(m) + 1) /\ last \in 0..e
        /\ next \in (b + 1)..(Len(m) + 1) /\ next - 1 \in 0..e
        /\ Remaining(size, e + 1 - h.begin) = 0
    <3>9. HasParts(h, e)
      BY <1>2
    <3>10. Inside(h, b, e, Len(m))
      BY <3>9, PartsInside
    <3> HIDE DEF h
    <3>3. first \in (b + 1)..(Len(m) + 1)
      BY <3>10 DEF Inside
    <3>4. last \in 0..e
      BY <3>10 DEF Inside
    <3>5. next \in (b + 1)..(Len(m) + 1)
      BY <3>10 DEF Inside
    <3>6. next - 1 \in 0..e
      <4>1. next <= e + 1
        BY <3>10 DEF Inside
      <4> HIDE DEF next
      <4>2. QED
        BY <3>5, <4>1 DEF IsSequence
    <3>7. Remaining(size, e + 1 - h.begin) = 0
      BY <3>10 DEF Inside
    <3>8. QED
      BY <3>3, <3>4, <3>5, <3>6, <3>7
  <2>a. next - 1 + Remaining(size, e + 1 - h.begin) = next - 1
    <3> HIDE DEF next
    <3>9. next \in Nat
      BY <2>1 DEF IsSequence
    <3>10. QED
      BY <2>1, <3>9
  <2> HIDE DEF h
  <2>2. f[<<first, last>>] = g[<<first, last>>] /\ f[<<next, next - 1>>] = g[<<next, next - 1>>]
    <3> HIDE DEF first, last, next
    <3>1. \A c \in (b + 1)..(Len(m) + 1) : c \in 1..(Len(m) + 1) /\ c > b
      BY DEF IsSequence
    <3>2. QED
      BY <2>1, <3>1
  <2>3. Message(m, f, first, last) = Message(m, g, first, last)
    BY <2>2 DEF Message
  <2>4. RecordAt(m, f, b, h) = RecordAt(m, g, b, h)
    BY <2>3, Zenon DEF RecordAt
  <2>5. f[<<next, next - 1 + Remaining(size, e + 1 - h.begin)>>] =
          g[<<next, next - 1 + Remaining(size, e + 1 - h.begin)>>]
    BY <2>a, <2>2, Zenon
  <2>6. QED
    BY <2>4, <2>5 DEF ReadFrom, h
<1>3. QED
  BY <1>1, <1>2

LEMMA InBuffers ==
  ASSUME NEW m, NEW b \in 1..(Len(m) + 1), NEW e \in 0..Len(m)
  PROVE  <<b, e>> \in Buffers(m) /\ <<b, e>>[1] = b /\ <<b, e>>[2] = e
BY DEF Buffers

LEMMA ReadValue ==
  ASSUME NEW m, NEW read, Reads(m, read), NEW b \in 1..(Len(m) + 1), NEW e \in 0..Len(m)
  PROVE  read[<<b, e>>] = ReadFrom(m, read, b, e)
BY InBuffers DEF Reads

\* g is right for the buffers of at most n units.
RightFor(m, g, n) ==
  \A b \in 1..(Len(m) + 1), e \in 0..Len(m) :
    e < b + n => g[<<b, e>>] = ReadFrom(m, g, b, e)

\* There is a function that reads as Parse says: it is put together from the end
\* of the buffer to its beginning.
LEMMA ReadExists ==
  ASSUME NEW m, IsSequence(m)
  PROVE  \E read : Reads(m, read)
<1> DEFINE T == {n \in Nat : \E g : RightFor(m, g, n)}
<1>1. Len(m) \in Nat
  BY DEF IsSequence
<1>2. 0 \in T
  <2> DEFINE g == [p \in Buffers(m) |-> <<>>]
  <2>1. ASSUME NEW b \in 1..(Len(m) + 1), NEW e \in 0..Len(m), e < b + 0
        PROVE  g[<<b, e>>] = ReadFrom(m, g, b, e)
    <3>1. g[<<b, e>>] = <<>>
      BY InBuffers
    <3>2. e <= b
      BY <1>1, <2>1
    <3> HIDE DEF g
    <3>3. ReadFrom(m, g, b, e) = <<>>
      BY <3>2 DEF ReadFrom
    <3>4. QED
      BY <3>1, <3>3
  <2> HIDE DEF g
  <2>2. RightFor(m, g, 0)
    BY <2>1 DEF RightFor
  <2>3. QED
    BY <2>2
<1>3. ASSUME NEW n \in Nat, n \in T
      PROVE  n + 1 \in T
  <2>1. PICK f : RightFor(m, f, n)
    BY <1>3
  <2> DEFINE g == [p \in Buffers(m) |-> ReadFrom(m, f, p[1], p[2])]
  <2>2. ASSUME NEW b \in 1..(Len(m) + 1), NEW e \in 0..Len(m)
        PROVE  g[<<b, e>>] = ReadFrom(m, f, b, e)
    BY InBuffers
  <2> HIDE DEF g
  <2>3. ASSUME NEW b \in 1..(Len(m) + 1), NEW e \in 0..Len(m), e < b + n
        PROVE  f[<<b, e>>] = g[<<b, e>>]
    BY <2>1, <2>2, <2>3 DEF RightFor
  <2>4. ASSUME NEW b \in 1..(Len(m) + 1), NEW e \in 0..Len(m), e < b + (n + 1)
        PROVE  g[<<b, e>>] = ReadFrom(m, g, b, e)
    <3>1. ASSUME NEW c \in 1..(Len(m) + 1), NEW d \in 0..e, c > b
          PROVE  f[<<c, d>>] = g[<<c, d>>]
      <4>1. d \in 0..Len(m) /\ d < c + n
        BY <1>1, <2>4, <3>1
      <4>2. QED
        BY <2>3, <4>1
    <3>2. ReadFrom(m, f, b, e) = ReadFrom(m, g, b, e)
      BY <3>1, ReadCongruence
    <3>3. QED
      BY <2>2, <3>2
  <2>5. RightFor(m, g, n + 1)
    BY <2>4 DEF RightFor
  <2>6. QED
    BY <2>5
<1> HIDE DEF T
<1>4. Len(m) + 1 \in T
  BY <1>1, <1>2, <1>3, Induction
<1>5. PICK f : RightFor(m, f, Len(m) + 1)
  BY <1>4 DEF T
<1>6. ASSUME NEW b \in 1..(Len(m) + 1), NEW e \in 0..Len(m)
      PROVE  f[<<b, e>>] = ReadFrom(m, f, b, e)
  <2>1. e < b + (Len(m) + 1)
    BY <1>1
  <2>2. QED
    BY <1>5, <2>1 DEF RightFor
<1> DEFINE g == [p \in Buffers(m) |-> ReadFrom(m, f, p[1], p[2])]
<1>7. ASSUME NEW b \in 1..(Len(m) + 1), NEW e \in 0..Len(m)
      PROVE  g[<<b, e>>] = f[<<b, e>>]
  <2>1. g[<<b, e>>] = ReadFrom(m, f, b, e)
    BY InBuffers
  <2> HIDE DEF g
  <2>2. QED
    BY <1>6, <2>1
<1>8. g = [p \in Buffers(m) |-> ReadFrom(m, f, p[1], p[2])]
  OBVIOUS
<1> HIDE DEF g
<1>9. ASSUME NEW p \in Buffers(m)
      PROVE  ReadFrom(m, f, p[1], p[2]) = ReadFrom(m, g, p[1], p[2])
  <2>1. p[1] \in 1..(Len(m) + 1) /\ p[2] \in 0..Len(m)
    BY DEF Buffers
  <2>2. ASSUME NEW c \in 1..(Len(m) + 1), NEW d \in 0..p[2], c > p[1]
        PROVE  f[<<c, d>>] = g[<<c, d>>]
    <3>1. d \in 0..Len(m)
      BY <1>1, <2>1
    <3>2. QED
      BY <1>7, <3>1
  <2>3. QED
    BY <2>1, <2>2, ReadCongruence
<1>10. g = [p \in Buffers(m) |-> ReadFrom(m, g, p[1], p[2])]
  BY <1>8, <1>9
<1>11. QED
  BY <1>10 DEF Reads

\* Parse is what such a function makes of the whole buffer.
LEMMA ParseIs ==
  ASSUME NEW m, IsSequence(m)
  PROVE  \E read : Reads(m, read) /\ Parse(m) = Message(m, read, 1, Len(m))
<1> DEFINE read == CHOOSE f : f = [p \in Buffers(m) |-> ReadFrom(m, f, p[1], p[2])]
<1>1. \E f : f = [p \in Buffers(m) |-> ReadFrom(m, f, p[1], p[2])]
  BY ReadExists DEF Reads
<1>2. read = [p \in Buffers(m) |-> ReadFrom(m, read, p[1], p[2])]
  BY <1>1
<1>3. Parse(m) = Message(m, read, 1, Len(m))
  BY DEF Parse
<1> HIDE DEF read
<1>4. QED
  BY <1>2, <1>3 DEF Reads

LEMMA ReadersAreSequences ==
  /\ \A p : IsSequence(TextOf(p)) /\ IsSequence(UriOf(p)) /\ IsSequence(AarOf(p))
  /\ \A t, p : IsSequence(MimeOf(t, p))
  /\ \A list : IsSequence(PosterOf(list))
<1>1. ASSUME NEW p
      PROVE  IsSequence(TextOf(p)) /\ IsSequence(UriOf(p)) /\ IsSequence(AarOf(p))
  BY Tuples, Zenon DEF TextOf, UriOf, AarOf
<1>2. ASSUME NEW t, NEW p
      PROVE  IsSequence(MimeOf(t, p))
  BY Tuples, Zenon DEF MimeOf
<1>3. ASSUME NEW list
      PROVE  IsSequence(PosterOf(list))
  BY Tuples, Zenon DEF PosterOf
<1>4. QED
  BY <1>1, <1>2, <1>3

LEMMA RecordIsSequence ==
  ASSUME NEW m, NEW read, NEW b, NEW h
  PROVE  IsSequence(RecordAt(m, read, b, h))
BY ReadersAreSequences, Tuples DEF RecordAt

\* Nothing is read after the first record of a buffer that holds it.
LEMMA ReadOne ==
  ASSUME NEW m, IsSequence(m), NEW read, Reads(m, read),
         NEW b \in 1..(Len(m) + 1), NEW e \in 0..Len(m), e > b,
         HasHeader(m, b, e), HasParts(Header(m, b), e)
  PROVE  read[<<b, e>>] = RecordAt(m, read, b, Header(m, b))
<1> DEFINE h    == Header(m, b)
           size == h.type + h.id + h.payload
           next == h.begin + size
<1>1. Inside(h, b, e, Len(m))
  BY PartsInside
<1>2. read[<<b, e>>] = ReadFrom(m, read, b, e)
  BY ReadValue
<1>3. ~(e <= b \/ ~HasHeader(m, b, e) \/ ~HasParts(h, e))
  OBVIOUS
<1> HIDE DEF h
<1>4. next \in (b + 1)..(Len(m) + 1) /\ next <= e + 1 /\ Remaining(size, e + 1 - h.begin) = 0
  BY <1>1 DEF Inside
<1>5. ReadFrom(m, read, b, e) =
        RecordAt(m, read, b, h)
          \o (IF m[b].me THEN <<>> ELSE read[<<next, next - 1 + Remaining(size, e + 1 - h.begin)>>])
  BY <1>3, Zenon DEF ReadFrom, h
<1> HIDE DEF size, next
<1>6. /\ next \in 1..(Len(m) + 1) /\ next - 1 \in 0..Len(m) /\ next - 1 <= next
      /\ next - 1 + 0 = next - 1
  BY <1>4 DEF IsSequence
<1>7. ReadFrom(m, read, next, next - 1) = <<>>
  BY <1>6 DEF ReadFrom
<1>8. read[<<next, next - 1 + Remaining(size, e + 1 - h.begin)>>] = <<>>
  BY <1>4, <1>6, <1>7, ReadValue
<1>9. ReadFrom(m, read, b, e) = RecordAt(m, read, b, h) \o <<>>
  BY <1>5, <1>8
<1>10. QED
  BY <1>2, <1>9, RecordIsSequence, ConcatEmpty DEF h

-----------------------------------------------------------------------------
(***************************************************************************)
(* Where the units of a record are that ndef_message_record_make makes.    *)
(***************************************************************************)
HeaderLength(p) == IF Len(p) < Byte THEN 3 ELSE 6

FrameLength(p) == HeaderLength(p) + 1 + Len(p)

\* The frame of a record begins at b in m.
FrameAt(m, b, tnf, name, p, mb, me) ==
  /\ m[b] = [mb |-> mb, me |-> me, sr |-> Len(p) < Byte, il |-> FALSE, tnf |-> tnf]
  /\ m[b + 1] = 1
  /\ Len(p) < Byte => m[b + 2] = Len(p)
  /\ ~(Len(p) < Byte) =>
       ((m[b + 2] * Byte + m[b + 3]) * Byte + m[b + 4]) * Byte + m[b + 5] = Len(p)
  /\ m[b + HeaderLength(p)] = name
  /\ \A i \in 1..Len(p) : m[b + HeaderLength(p) + i] = p[i]

\* What ndef_message_record_make makes is the frame of a record, and no more.
LEMMA MakeLayout ==
  ASSUME NEW tnf, NEW name, NEW p, NEW mb, NEW me,
         IsSequence(p)
  PROVE  /\ IsSequence(Make(tnf, <<name>>, p, mb, me))
         /\ Len(Make(tnf, <<name>>, p, mb, me)) = FrameLength(p)
         /\ FourDigits(Len(p)) => FrameAt(Make(tnf, <<name>>, p, mb, me), 1, tnf, name, p, mb, me)
<1> DEFINE head   == [mb |-> mb, me |-> me, sr |-> Len(p) < Byte, il |-> FALSE, tnf |-> tnf]
           length == IF Len(p) < Byte THEN <<Len(p)>> ELSE Number(Len(p))
           a == <<head>>
           b == a \o <<Len(<<name>>) % Byte>>
           c == b \o length
           d == c \o <<name>>
           m == d \o p
<1>1. Make(tnf, <<name>>, p, mb, me) = m
  BY DEF Make
<1>2. Len(p) \in Nat
  BY DEF IsSequence
<1>3. Len(<<name>>) % Byte = 1
  BY NdefAssumption, Tuples
<1>4. /\ IsSequence(length)
      /\ Len(length) = HeaderLength(p) - 2
      /\ Len(p) < Byte => length[1] = Len(p)
      /\ ~(Len(p) < Byte) /\ FourDigits(Len(p)) =>
             ((length[1] * Byte + length[2]) * Byte + length[3]) * Byte + length[4] = Len(p)
  <2>1. CASE Len(p) < Byte
    <3>1. length = <<Len(p)>> /\ HeaderLength(p) - 2 = 1
      BY <2>1 DEF HeaderLength
    <3> HIDE DEF length
    <3>2. QED
      BY <2>1, <3>1, Tuples
  <2>2. CASE ~(Len(p) < Byte)
    <3>1. length = Number(Len(p)) /\ HeaderLength(p) - 2 = 4
      BY <2>2 DEF HeaderLength
    <3> HIDE DEF length
    <3>2. IsSequence(length) /\ Len(length) = 4
      BY <3>1, Tuples DEF Number
    <3>3. QED
      BY <1>2, <2>2, <3>1, <3>2, Digits
  <2>3. QED
    BY <2>1, <2>2
<1> HIDE DEF head, length
<1>5. IsSequence(a) /\ Len(a) = 1 /\ a[1] = head
  BY Tuples
<1> HIDE DEF a
<1>6. IsSequence(b) /\ Len(b) = 2 /\ b[1] = head /\ b[2] = 1
  <2>1. b = a \o <<1>>
    BY <1>3
  <2>2. /\ IsSequence(b) /\ Len(b) = Len(a) + 1
        /\ \A i \in 1..Len(a) : b[i] = a[i]
        /\ b[Len(a) + 1] = 1
    BY <1>5, <2>1, ConcatOne
  <2> HIDE DEF b
  <2>3. QED
    BY <1>5, <2>2
<1> HIDE DEF b
<1>7. /\ IsSequence(c) /\ Len(c) = HeaderLength(p) /\ c[1] = head /\ c[2] = 1
      /\ \A i \in 1..(HeaderLength(p) - 2) : c[2 + i] = length[i]
  <2>1. 1 \in 1..Len(b) /\ 2 \in 1..Len(b)
    BY <1>6
  <2>2. /\ IsSequence(c) /\ Len(c) = 2 + (HeaderLength(p) - 2) /\ c[1] = b[1] /\ c[2] = b[2]
        /\ \A i \in 1..(HeaderLength(p) - 2) : c[2 + i] = length[i]
    <3>1. IsSequence(b) /\ IsSequence(length)
      BY <1>4, <1>6
    <3>2. /\ IsSequence(c) /\ Len(c) = Len(b) + Len(length)
          /\ \A i \in 1..Len(b) : c[i] = b[i]
          /\ \A i \in 1..Len(length) : c[Len(b) + i] = length[i]
      BY <3>1, Concat
    <3>3. Len(b) = 2 /\ Len(length) = HeaderLength(p) - 2
      BY <1>4, <1>6
    <3> HIDE DEF c
    <3>4. QED
      BY <2>1, <3>2, <3>3
  <2>3. 2 + (HeaderLength(p) - 2) = HeaderLength(p)
    BY DEF HeaderLength
  <2>4. QED
    BY <1>6, <2>2, <2>3
<1> HIDE DEF c
<1>8. /\ IsSequence(d) /\ Len(d) = HeaderLength(p) + 1
      /\ \A i \in 1..HeaderLength(p) : d[i] = c[i]
      /\ d[HeaderLength(p) + 1] = name
  BY <1>7, ConcatOne
<1> HIDE DEF d
<1>9. /\ IsSequence(m) /\ Len(m) = FrameLength(p)
      /\ \A i \in 1..(HeaderLength(p) + 1) : m[i] = d[i]
      /\ \A i \in 1..Len(p) : m[HeaderLength(p) + 1 + i] = p[i]
  BY <1>8, Concat DEF FrameLength
<1> HIDE DEF m
<1>10. HeaderLength(p) \in {3, 6} /\ (Len(p) < Byte => HeaderLength(p) = 3)
       /\ (~(Len(p) < Byte) => HeaderLength(p) = 6)
  BY DEF HeaderLength
<1>11. \A i \in 1..HeaderLength(p) : m[i] = c[i]
  BY <1>8, <1>9, <1>10
<1>12. m[HeaderLength(p) + 1] = name
  BY <1>8, <1>9, <1>10
<1>13. m[1] = head /\ m[2] = 1
  BY <1>7, <1>10, <1>11
<1>14. Len(p) < Byte => m[3] = Len(p)
  BY <1>4, <1>7, <1>10, <1>11
<1>15. ~(Len(p) < Byte) /\ FourDigits(Len(p)) =>
         ((m[3] * Byte + m[4]) * Byte + m[5]) * Byte + m[6] = Len(p)
  <2> SUFFICES ASSUME ~(Len(p) < Byte), FourDigits(Len(p))
               PROVE  ((m[3] * Byte + m[4]) * Byte + m[5]) * Byte + m[6] = Len(p)
    OBVIOUS
  <2>1. m[3] = length[1] /\ m[4] = length[2] /\ m[5] = length[3] /\ m[6] = length[4]
    BY <1>7, <1>10, <1>11
  <2>2. QED
    BY <1>4, <2>1, Zenon
<1>16. FourDigits(Len(p)) => FrameAt(m, 1, tnf, name, p, mb, me)
  <2>1. /\ 1 + 1 = 2 /\ 1 + 2 = 3 /\ 1 + 3 = 4 /\ 1 + 4 = 5 /\ 1 + 5 = 6
        /\ 1 + HeaderLength(p) = HeaderLength(p) + 1
    BY <1>10
  <2>2. \A i \in 1..Len(p) : m[1 + HeaderLength(p) + i] = p[i]
    BY <1>9, <2>1
  <2>3. QED
    BY <1>12, <1>13, <1>14, <1>15, <2>1, <2>2, Zenon DEF FrameAt, head
<1>17. QED
  BY <1>1, <1>9, <1>16

-----------------------------------------------------------------------------
(***************************************************************************)
(* What is read of the frame of a record, when its payload is short.       *)
(***************************************************************************)
RecordOf(tnf, type, p, parts) ==
  CASE tnf = "well known" /\ type = PosterType -> PosterOf(parts)
    [] tnf = "well known" /\ type = TextType -> TextOf(p)
    [] tnf = "well known" /\ type = UriType -> UriOf(p)
    [] tnf = "media" -> MimeOf(type, p)
    [] tnf = "external" /\ type = AarType -> AarOf(p)
    [] OTHER -> <<>>

\* The units s are those of m from b on.
StandsAt(s, m, b) == \A i \in 1..Len(s) : m[b - 1 + i] = s[i]

LEMMA SliceIs ==
  ASSUME NEW m, NEW s, IsSequence(s), NEW b \in Nat, StandsAt(s, m, b)
  PROVE  SubSeq(m, b, b + Len(s) - 1) = s
<1>1. Len(s) \in Nat
  BY DEF IsSequence
<1>2. CASE b = 0 /\ Len(s) = 0
  <2>1. SubSeq(m, b, b + Len(s) - 1) = <<>>
    BY <1>2, SubSeqEmpty
  <2>2. QED
    BY <1>2, <2>1, Tuples, Equal
<1>3. CASE b + Len(s) - 1 \in Nat
  <2> DEFINE e == b + Len(s) - 1
  <2>1. e \in Nat /\ b <= e + 1 /\ e + 1 - b = Len(s)
    BY <1>1, <1>3
  <2> HIDE DEF e
  <2>2. /\ IsSequence(SubSeq(m, b, e))
        /\ Len(SubSeq(m, b, e)) = e + 1 - b
        /\ \A i \in 1..(e + 1 - b) : SubSeq(m, b, e)[i] = m[b - 1 + i]
    BY <2>1, Slice, Zenon
  <2>3. SubSeq(m, b, e) = s
    BY <2>1, <2>2, Equal, Zenon DEF StandsAt
  <2>4. QED
    BY <2>3 DEF e
<1>4. QED
  BY <1>1, <1>2, <1>3

\* A record with its parts at begin lies at b in m and ends no later than e.
RecordLies(m, b, e, tnf, type, id, p, begin) ==
  /\ IsSequence(type) /\ IsSequence(id) /\ IsSequence(p) /\ begin \in Nat
  /\ b \in 1..(Len(m) + 1) /\ e \in 0..Len(m) /\ e > b /\ HasHeader(m, b, e)
  /\ m[b].tnf = tnf
  /\ Header(m, b) = [type |-> Len(type), payload |-> Len(p), id |-> Len(id), begin |-> begin]
  /\ StandsAt(type, m, begin)
  /\ StandsAt(p, m, begin + Len(type) + Len(id))
  /\ begin + Len(type) + Len(id) + Len(p) <= e + 1

\* The record that lies at b is read for what it is, and nothing after it.
LEMMA RecordRead ==
  ASSUME NEW m, IsSequence(m), NEW read, Reads(m, read), NEW b, NEW e,
         NEW tnf, NEW type, NEW id, NEW p, NEW begin,
         RecordLies(m, b, e, tnf, type, id, p, begin)
  PROVE  read[<<b, e>>] =
           RecordOf(tnf, type, p, Message(m, read, begin + Len(type) + Len(id),
                                          begin + Len(type) + Len(id) + Len(p) - 1))
<1> DEFINE h     == Header(m, b)
           first == h.begin + h.type + h.id
           last  == first + h.payload - 1
<1> USE DEF RecordLies
<1>1. Len(type) \in Nat /\ Len(id) \in Nat /\ Len(p) \in Nat /\ begin \in Nat
  BY DEF IsSequence
<1>2. h.type = Len(type) /\ h.payload = Len(p) /\ h.id = Len(id) /\ h.begin = begin
  OBVIOUS
<1>3. HasParts(h, e)
  <2> HIDE DEF h
  <2>1. QED
    BY <1>1, <1>2 DEF HasParts
<1>4. read[<<b, e>>] = RecordAt(m, read, b, h)
  BY <1>3, ReadOne
<1> HIDE DEF h
<1>5. first = begin + Len(type) + Len(id) /\ last = begin + Len(type) + Len(id) + Len(p) - 1
  BY <1>2
<1>6. SubSeq(m, h.begin, h.begin + h.type - 1) = type
  BY <1>2, SliceIs
<1>7. first \in Nat
  BY <1>1, <1>5
<1>8. last = first + Len(p) - 1 /\ StandsAt(p, m, first)
  BY <1>2, <1>5
<1> HIDE DEF first, last
<1>9. SubSeq(m, first, last) = p
  BY <1>7, <1>8, SliceIs
<1>10. RecordAt(m, read, b, h) = RecordOf(tnf, type, p, Message(m, read, first, last))
  BY <1>6, <1>9, Zenon DEF RecordAt, RecordOf, first, last
<1>11. QED
  BY <1>4, <1>5, <1>10, Zenon

\* The frame at b is that of a short record and ends before e.
ShortFrameAt(m, b, e, tnf, name, p, mb, me) ==
  /\ b \in 1..(Len(m) + 1) /\ e \in 0..Len(m)
  /\ IsSequence(p) /\ Len(p) < Byte
  /\ FrameAt(m, b, tnf, name, p, mb, me)
  /\ b + 3 + Len(p) <= e

\* What is read from b up to e is a record of this type and payload.
IsRead(m, read, b, e, tnf, name, p) ==
  read[<<b, e>>] = RecordOf(tnf, <<name>>, p, Message(m, read, b + 4, b + 3 + Len(p)))

\* The same of the frame of a record without an id.
LEMMA FrameRead ==
  ASSUME NEW m, IsSequence(m), NEW read, Reads(m, read), NEW tnf, NEW name, NEW p, NEW mb, NEW me,
         NEW b, NEW e, ShortFrameAt(m, b, e, tnf, name, p, mb, me)
  PROVE  IsRead(m, read, b, e, tnf, name, p)
<1>1. /\ b \in 1..(Len(m) + 1) /\ e \in 0..Len(m)
      /\ IsSequence(p) /\ Len(p) < Byte
      /\ FrameAt(m, b, tnf, name, p, mb, me)
      /\ b + 3 + Len(p) <= e
  BY Zenon DEF ShortFrameAt
<1>2. Len(p) \in Nat /\ Len(m) \in Nat
  BY <1>1 DEF IsSequence
<1>3. HeaderLength(p) = 3
  BY <1>1 DEF HeaderLength
<1>4. /\ m[b] = [mb |-> mb, me |-> me, sr |-> Len(p) < Byte, il |-> FALSE, tnf |-> tnf]
      /\ m[b + 1] = 1 /\ m[b + 2] = Len(p)
      /\ m[b + 3] = name
      /\ \A i \in 1..Len(p) : m[b + 3 + i] = p[i]
  BY <1>1, <1>3 DEF FrameAt
<1>5. m[b].sr /\ ~m[b].il /\ m[b].tnf = tnf
  <2> DEFINE x == m[b]
             short == Len(p) < Byte
  <2>1. x = [mb |-> mb, me |-> me, sr |-> short, il |-> FALSE, tnf |-> tnf] /\ short
    BY <1>1, <1>4
  <2> HIDE DEF x, short
  <2>2. x.sr /\ ~x.il /\ x.tnf = tnf
    BY <2>1, Zenon
  <2>3. QED
    BY <2>2 DEF x
<1>6. Header(m, b) = [type |-> 1, payload |-> Len(p), id |-> 0, begin |-> b + 3]
  BY <1>1, <1>4, <1>5 DEF Header
<1>7. HasHeader(m, b, e) /\ e > b
  BY <1>1, <1>2, <1>5 DEF HasHeader
<1>8. StandsAt(<<name>>, m, b + 3)
  BY <1>1, <1>4, Tuples DEF StandsAt
<1>9. StandsAt(p, m, b + 3 + 1 + 0)
  <2> DEFINE c == b + 3 + 1 + 0
             l == Len(p)
  <2>1. \A i \in 1..l : c - 1 + i = b + 3 + i
    BY <1>1, <1>2
  <2> HIDE DEF c
  <2>2. \A i \in 1..l : m[c - 1 + i] = p[i]
    BY <1>4, <2>1
  <2>3. StandsAt(p, m, c)
    BY <2>2, Zenon DEF StandsAt
  <2>4. QED
    BY <2>3, Zenon DEF c
<1>10. Len(<<name>>) = 1 /\ Len(<<>>) = 0 /\ IsSequence(<<name>>) /\ IsSequence(<<>>)
  BY Tuples
<1>11. b + 3 + 1 + 0 = b + 4 /\ b + 3 + 1 + 0 + Len(p) - 1 = b + 3 + Len(p)
       /\ b + 3 + 1 + 0 + Len(p) <= e + 1 /\ b + 3 \in Nat
  BY <1>1, <1>2
<1>12. read[<<b, e>>] =
         RecordOf(tnf, <<name>>, p, Message(m, read, b + 3 + Len(<<name>>) + Len(<<>>),
                                   b + 3 + Len(<<name>>) + Len(<<>>) + Len(p) - 1))
  <2> DEFINE type == <<name>>
             id == <<>>
  <2>1. /\ Len(type) = 1 /\ Len(id) = 0 /\ IsSequence(type) /\ IsSequence(id)
        /\ StandsAt(type, m, b + 3)
    BY <1>8, <1>10
  <2> HIDE DEF type, id
  <2>2. /\ Header(m, b) = [type |-> Len(type), payload |-> Len(p), id |-> Len(id), begin |-> b + 3]
        /\ StandsAt(p, m, b + 3 + Len(type) + Len(id))
        /\ b + 3 + Len(type) + Len(id) + Len(p) <= e + 1
    BY <1>6, <1>9, <1>11, <2>1
  <2>3. RecordLies(m, b, e, tnf, type, id, p, b + 3)
    BY <1>1, <1>5, <1>7, <1>11, <2>1, <2>2 DEF RecordLies
  <2>4. read[<<b, e>>] =
          RecordOf(tnf, type, p, Message(m, read, b + 3 + Len(type) + Len(id),
                                         b + 3 + Len(type) + Len(id) + Len(p) - 1))
    BY <2>3, RecordRead
  <2>5. QED
    BY <2>4, Zenon DEF type, id
<1>13. QED
  BY <1>10, <1>11, <1>12 DEF IsRead

-----------------------------------------------------------------------------
(***************************************************************************)
(* Sequences of sequences put together.                                    *)
(***************************************************************************)
Joins(s, f, n) ==
  \A i \in 1..n : f[i] = IF i = 1 THEN s[i] ELSE f[i - 1] \o s[i]

\* There is a sequence of the beginnings: each is the one before with one more.
LEMMA JoinsExists ==
  ASSUME NEW s, NEW k \in Nat
  PROVE  \E f : f = [i \in 1..k |-> IF i = 1 THEN s[i] ELSE f[i - 1] \o s[i]]
<1> DEFINE T == {n \in Nat : \E f : Joins(s, f, n)}
<1>1. 0 \in T
  <2>1. \A f : Joins(s, f, 0)
    BY DEF Joins
  <2>2. QED
    BY <2>1
<1>2. ASSUME NEW n \in Nat, n \in T
      PROVE  n + 1 \in T
  <2>1. PICK f : Joins(s, f, n)
    BY <1>2
  <2> DEFINE g == [i \in 1..(n + 1) |-> IF i = 1 THEN s[i] ELSE f[i - 1] \o s[i]]
  <2>2. ASSUME NEW i \in 1..n
        PROVE  g[i] = f[i]
    BY <2>1 DEF Joins
  <2>3. ASSUME NEW i \in 1..(n + 1)
        PROVE  g[i] = IF i = 1 THEN s[i] ELSE g[i - 1] \o s[i]
    <3>1. g[i] = IF i = 1 THEN s[i] ELSE f[i - 1] \o s[i]
      OBVIOUS
    <3>2. i # 1 => i - 1 \in 1..n
      OBVIOUS
    <3> HIDE DEF g
    <3>3. i # 1 => g[i - 1] = f[i - 1]
      BY <2>2, <3>2
    <3>4. QED
      BY <3>1, <3>3
  <2> HIDE DEF g
  <2>4. Joins(s, g, n + 1)
    BY <2>3 DEF Joins
  <2>5. QED
    BY <2>4
<1> HIDE DEF T
<1>3. k \in T
  BY <1>1, <1>2, Induction
<1>4. PICK f : Joins(s, f, k)
  BY <1>3 DEF T
<1> DEFINE g == [i \in 1..k |-> f[i]]
<1>5. \A i \in 1..k : g[i] = f[i]
  OBVIOUS
<1>6. g = [i \in 1..k |-> g[i]]
  OBVIOUS
<1> HIDE DEF g
<1>7. ASSUME NEW i \in 1..k
      PROVE  g[i] = IF i = 1 THEN s[i] ELSE g[i - 1] \o s[i]
  <2>1. i # 1 => i - 1 \in 1..k
    OBVIOUS
  <2>2. i # 1 => g[i - 1] = f[i - 1]
    BY <1>5, <2>1
  <2>3. QED
    BY <1>4, <1>5, <2>2 DEF Joins
<1>8. g = [i \in 1..k |-> IF i = 1 THEN s[i] ELSE g[i - 1] \o s[i]]
  BY <1>6, <1>7
<1>9. QED
  BY <1>8

LEMMA FlattenIs ==
  ASSUME NEW s, Len(s) \in Nat, Len(s) > 0
  PROVE  \E f : Joins(s, f, Len(s)) /\ FlattenSeq(s) = f[Len(s)]
<1> DEFINE f == CHOOSE g : g = [i \in 1..Len(s) |-> IF i = 1 THEN s[i] ELSE g[i - 1] \o s[i]]
<1>1. \E g : g = [i \in 1..Len(s) |-> IF i = 1 THEN s[i] ELSE g[i - 1] \o s[i]]
  BY JoinsExists
<1>2. f = [i \in 1..Len(s) |-> IF i = 1 THEN s[i] ELSE f[i - 1] \o s[i]]
  BY <1>1
<1>3. FlattenSeq(s) = f[Len(s)]
  BY DEF FlattenSeq
<1> HIDE DEF f
<1>4. Joins(s, f, Len(s))
  BY <1>2 DEF Joins
<1>5. QED
  BY <1>3, <1>4

LEMMA FlattenOne ==
  ASSUME NEW s, Len(s) = 1
  PROVE  FlattenSeq(s) = s[1]
<1>1. Len(s) \in Nat /\ Len(s) > 0
  OBVIOUS
<1>2. PICK f : Joins(s, f, 1) /\ FlattenSeq(s) = f[1]
  BY <1>1, FlattenIs
<1>3. QED
  BY <1>2 DEF Joins

LEMMA FlattenTwo ==
  ASSUME NEW s, Len(s) = 2
  PROVE  FlattenSeq(s) = s[1] \o s[2]
<1>1. Len(s) \in Nat /\ Len(s) > 0
  OBVIOUS
<1>2. PICK f : Joins(s, f, 2) /\ FlattenSeq(s) = f[2]
  BY <1>1, FlattenIs
<1>3. f[1] = s[1]
  BY <1>2 DEF Joins
<1>4. 2 \in 1..2 /\ 2 # 1 /\ 2 - 1 = 1
  OBVIOUS
<1>5. f[2] = f[1] \o s[2]
  BY <1>2, <1>4, Zenon DEF Joins
<1>6. QED
  BY <1>2, <1>3, <1>5

-----------------------------------------------------------------------------
(***************************************************************************)
(* The messages of other writers.                                          *)
(***************************************************************************)
FramedBegin(f) == IF f.id # <<>> THEN 5 ELSE 4

LEMMA TypesDiffer ==
  PosterType # TextType /\ PosterType # UriType /\ TextType # UriType
<1>1. PosterType[1] = PosterName /\ TextType[1] = TextName /\ UriType[1] = UriName
  BY DEF PosterType, TextType, UriType
<1>2. QED
  BY <1>1, NamesAssumption, Zenon

LEMMA HeaderOfShort ==
  ASSUME NEW m, NEW b \in Nat, m[b].sr
  PROVE  /\ m[b].il => Header(m, b) =
              [type |-> m[b + 1], payload |-> m[b + 2], id |-> m[b + 3], begin |-> b + 4]
         /\ ~m[b].il => Header(m, b) =
              [type |-> m[b + 1], payload |-> m[b + 2], id |-> 0, begin |-> b + 3]
BY DEF Header

LEMMA FrameFacts ==
  ASSUME NEW f \in Frames
  PROVE  /\ IsSequence(f.type) /\ Len(f.type) \in Nat
         /\ IsSequence(f.id) /\ Len(f.id) \in Nat /\ (f.id = <<>> => Len(f.id) = 0)
         /\ IsSequence(f.payload) /\ Len(f.payload) \in Nat
BY FrameAssumption, Tuples DEF FitsByte, IsSequence

LEMMA FramedLayout ==
  ASSUME NEW f \in Frames, NEW mb, NEW me
  PROVE  LET s == Framed(f, mb, me)
             k == FramedBegin(f)
         IN /\ IsSequence(s)
            /\ Len(s) = k - 1 + Len(f.type) + Len(f.id) + Len(f.payload)
            /\ s[1] = [mb |-> mb, me |-> me, sr |-> TRUE, il |-> f.id # <<>>, tnf |-> f.tnf]
            /\ s[2] = Len(f.type) /\ s[3] = Len(f.payload)
            /\ f.id # <<>> => s[4] = Len(f.id)
            /\ \A i \in 1..Len(f.type) : s[k - 1 + i] = f.type[i]
            /\ \A i \in 1..Len(f.payload) :
                 s[k - 1 + Len(f.type) + Len(f.id) + i] = f.payload[i]
<1> DEFINE head == [mb |-> mb, me |-> me, sr |-> TRUE, il |-> f.id # <<>>, tnf |-> f.tnf]
           ids  == IF f.id # <<>> THEN <<Len(f.id)>> ELSE <<>>
           k == FramedBegin(f)
           a == <<head>>
           b == a \o <<Len(f.type), Len(f.payload)>>
           c == b \o ids
           d == c \o f.type
           e == d \o f.id
           s == e \o f.payload
<1>1. Framed(f, mb, me) = s
  BY DEF Framed
<1>2. /\ IsSequence(f.type) /\ IsSequence(f.id) /\ IsSequence(f.payload)
      /\ Len(f.type) \in Nat /\ Len(f.id) \in Nat /\ Len(f.payload) \in Nat
  BY FrameFacts
<1>3. k \in Nat /\ k \in {4, 5}
  BY DEF FramedBegin
<1>4. IsSequence(ids) /\ Len(ids) = k - 4 /\ (f.id # <<>> => k = 5 /\ ids[1] = Len(f.id))
  <2>1. CASE f.id # <<>>
    <3>1. ids = <<Len(f.id)>> /\ k = 5
      BY <2>1 DEF FramedBegin
    <3> HIDE DEF ids, k
    <3>2. QED
      BY <3>1, Tuples
  <2>2. CASE f.id = <<>>
    <3>1. ids = <<>> /\ k = 4
      BY <2>2 DEF FramedBegin
    <3> HIDE DEF ids, k
    <3>2. QED
      BY <2>2, <3>1, Tuples
  <2>3. QED
    BY <2>1, <2>2
<1> HIDE DEF head, ids, k
<1>5. IsSequence(a) /\ Len(a) = 1 /\ a[1] = head
  BY Tuples
<1> HIDE DEF a
<1>6. IsSequence(b) /\ Len(b) = 3 /\ b[1] = head /\ b[2] = Len(f.type) /\ b[3] = Len(f.payload)
  <2> DEFINE t == <<Len(f.type), Len(f.payload)>>
  <2>1. IsSequence(t) /\ Len(t) = 2 /\ t[1] = Len(f.type) /\ t[2] = Len(f.payload)
    BY Tuples
  <2>2. b = a \o t
    OBVIOUS
  <2> HIDE DEF b, t
  <2>3. /\ IsSequence(b) /\ Len(b) = Len(a) + Len(t)
        /\ \A i \in 1..Len(a) : b[i] = a[i]
        /\ \A i \in 1..Len(t) : b[Len(a) + i] = t[i]
    <3>1. IsSequence(a) /\ IsSequence(t)
      BY <1>5, <2>1
    <3>2. QED
      BY <2>2, <3>1, Concat
  <2>4. 1 \in 1..Len(a) /\ 1 \in 1..Len(t) /\ 2 \in 1..Len(t)
    BY <1>5, <2>1
  <2>5. Len(b) = 3 /\ b[1] = a[1] /\ b[2] = t[1] /\ b[3] = t[2]
    BY <1>5, <2>1, <2>3, <2>4
  <2>6. QED
    BY <1>5, <2>1, <2>3, <2>5
<1> HIDE DEF b
<1>7. /\ IsSequence(c) /\ Len(c) = k - 1
      /\ c[1] = head /\ c[2] = Len(f.type) /\ c[3] = Len(f.payload)
      /\ f.id # <<>> => c[4] = Len(f.id)
  <2>1. IsSequence(b) /\ IsSequence(ids)
    BY <1>4, <1>6
  <2>2. /\ IsSequence(c) /\ Len(c) = Len(b) + Len(ids)
        /\ \A i \in 1..Len(b) : c[i] = b[i]
        /\ \A i \in 1..Len(ids) : c[Len(b) + i] = ids[i]
    BY <2>1, Concat
  <2> HIDE DEF c
  <2>3. Len(c) = k - 1 /\ c[1] = b[1] /\ c[2] = b[2] /\ c[3] = b[3]
    BY <1>3, <1>4, <1>6, <2>2
  <2>4. f.id # <<>> => c[4] = ids[1]
    BY <1>4, <1>6, <2>2
  <2>5. QED
    BY <1>4, <1>6, <2>2, <2>3, <2>4
<1> HIDE DEF c
<1>8. /\ IsSequence(d) /\ Len(d) = k - 1 + Len(f.type)
      /\ \A i \in 1..(k - 1) : d[i] = c[i]
      /\ \A i \in 1..Len(f.type) : d[k - 1 + i] = f.type[i]
  <2>1. /\ IsSequence(d) /\ Len(d) = Len(c) + Len(f.type)
        /\ \A i \in 1..Len(c) : d[i] = c[i]
        /\ \A i \in 1..Len(f.type) : d[Len(c) + i] = f.type[i]
    BY <1>2, <1>7, Concat
  <2> HIDE DEF d
  <2>2. QED
    BY <1>7, <2>1
<1> HIDE DEF d
<1>9. /\ IsSequence(e) /\ Len(e) = k - 1 + Len(f.type) + Len(f.id)
      /\ \A i \in 1..Len(d) : e[i] = d[i]
  <2>1. /\ IsSequence(e) /\ Len(e) = Len(d) + Len(f.id)
        /\ \A i \in 1..Len(d) : e[i] = d[i]
    BY <1>2, <1>8, Concat
  <2> HIDE DEF e
  <2>2. QED
    BY <1>8, <2>1
<1> HIDE DEF e
<1>10. /\ IsSequence(s) /\ Len(s) = Len(e) + Len(f.payload)
       /\ \A i \in 1..Len(e) : s[i] = e[i]
       /\ \A i \in 1..Len(f.payload) : s[Len(e) + i] = f.payload[i]
  BY <1>2, <1>9, Concat
<1> HIDE DEF s
<1>11. /\ \A i \in 1..(k - 1) : i \in 1..Len(d) /\ i \in 1..Len(e)
       /\ \A i \in 1..Len(f.type) : k - 1 + i \in 1..Len(d) /\ k - 1 + i \in 1..Len(e)
  <2> DEFINE t == Len(f.type)
             n == Len(f.id)
  <2>1. t \in Nat /\ n \in Nat /\ Len(d) = k - 1 + t /\ Len(e) = k - 1 + t + n
    BY <1>2, <1>8, <1>9
  <2> HIDE DEF t, n
  <2>2. /\ \A i \in 1..(k - 1) : i \in 1..Len(d) /\ i \in 1..Len(e)
        /\ \A i \in 1..t : k - 1 + i \in 1..Len(d) /\ k - 1 + i \in 1..Len(e)
    BY <1>3, <2>1
  <2>3. QED
    BY <2>2 DEF t
<1>12. /\ \A i \in 1..(k - 1) : s[i] = c[i]
       /\ \A i \in 1..Len(f.type) : s[k - 1 + i] = f.type[i]
  <2>1. ASSUME NEW i, i \in 1..Len(d), i \in 1..Len(e)
        PROVE  s[i] = d[i]
    BY <1>9, <1>10, <2>1
  <2>2. QED
    BY <1>8, <1>11, <2>1
<1>13. /\ s[1] = head /\ s[2] = Len(f.type) /\ s[3] = Len(f.payload)
       /\ f.id # <<>> => s[4] = Len(f.id)
  <2>1. 1 \in 1..(k - 1) /\ 2 \in 1..(k - 1) /\ 3 \in 1..(k - 1)
    BY <1>3
  <2>2. f.id # <<>> => 4 \in 1..(k - 1)
    BY <1>4
  <2>3. QED
    BY <1>7, <1>12, <2>1, <2>2
<1>14. /\ Len(s) = k - 1 + Len(f.type) + Len(f.id) + Len(f.payload)
       /\ \A i \in 1..Len(f.payload) :
            s[k - 1 + Len(f.type) + Len(f.id) + i] = f.payload[i]
  BY <1>9, <1>10
<1>15. QED
  BY <1>1, <1>10, <1>12, <1>13, <1>14, Zenon DEF k, head

\* A record of another writer lies at the beginning of its message.
LEMMA FramedLies ==
  ASSUME NEW f \in Frames, NEW mb, NEW me, NEW x, IsSequence(x)
  PROVE  LET m == Framed(f, mb, me) \o x
         IN /\ IsSequence(m) /\ Len(m) > 1
            /\ m[1].mb = mb
            /\ RecordLies(m, 1, Len(m), f.tnf, f.type, f.id, f.payload, FramedBegin(f))
<1> DEFINE s == Framed(f, mb, me)
           m == s \o x
           k == FramedBegin(f)
<1>1. /\ IsSequence(s)
      /\ Len(s) = k - 1 + Len(f.type) + Len(f.id) + Len(f.payload)
      /\ s[1] = [mb |-> mb, me |-> me, sr |-> TRUE, il |-> f.id # <<>>, tnf |-> f.tnf]
      /\ s[2] = Len(f.type) /\ s[3] = Len(f.payload)
      /\ f.id # <<>> => s[4] = Len(f.id)
      /\ \A i \in 1..Len(f.type) : s[k - 1 + i] = f.type[i]
      /\ \A i \in 1..Len(f.payload) : s[k - 1 + Len(f.type) + Len(f.id) + i] = f.payload[i]
  BY FramedLayout
<1>2. k \in Nat /\ (f.id # <<>> => k = 5) /\ (f.id = <<>> => k = 4)
  BY DEF FramedBegin
<1> HIDE DEF s, k
<1>3. IsSequence(s) /\ IsSequence(x)
  BY <1>1
<1>4. IsSequence(m) /\ Len(m) = Len(s) + Len(x) /\ \A i \in 1..Len(s) : m[i] = s[i]
  BY <1>3, Concat
<1> HIDE DEF m
<1>5. /\ IsSequence(f.type) /\ IsSequence(f.id) /\ IsSequence(f.payload)
      /\ f.id = <<>> => Len(f.id) = 0
  BY FrameFacts
<1> DEFINE t == Len(f.type)
           n == Len(f.id)
           p == Len(f.payload)
<1>6. t \in Nat /\ n \in Nat /\ p \in Nat /\ Len(x) \in Nat
  BY FrameFacts DEF IsSequence
<1>7. Len(s) = k - 1 + t + n + p
  BY <1>1
<1> HIDE DEF t, n, p
<1>8. /\ Len(s) \in Nat /\ 1 \in 1..Len(s) /\ 2 \in 1..Len(s) /\ 3 \in 1..Len(s)
      /\ f.id # <<>> => 4 \in 1..Len(s)
      /\ Len(m) \in Nat /\ Len(m) >= Len(s) /\ Len(m) > 1
      /\ 1 \in 1..(Len(m) + 1) /\ Len(m) \in 0..Len(m)
      /\ k + t + n + p <= Len(m) + 1
      /\ Len(m) + 1 - 1 = Len(m) /\ Len(m) >= 3 /\ (f.id # <<>> => Len(m) >= 4)
      /\ \A i \in 1..t : k - 1 + i \in 1..Len(s)
      /\ \A i \in 1..p : (k + t + n) - 1 + i \in 1..Len(s) /\ (k + t + n) - 1 + i = k - 1 + t + n + i
  <2>1. Len(m) = Len(s) + Len(x)
    BY <1>4
  <2> DEFINE M == Len(m)
             L == Len(s)
             X == Len(x)
             ids == f.id # <<>>
  <2>2. M = L + X /\ X \in Nat /\ L = k - 1 + t + n + p
    BY <1>6, <1>7, <2>1
  <2>3. k \in {4, 5} /\ (ids => k = 5)
    BY <1>2
  <2> HIDE DEF M, L, X, ids
  <2>4. L \in Nat /\ L >= 3 /\ (ids => L >= 4) /\ M \in Nat /\ M >= L
    BY <1>6, <2>2, <2>3
  <2>5. /\ 1 \in 1..L /\ 2 \in 1..L /\ 3 \in 1..L /\ (ids => 4 \in 1..L)
        /\ M > 1 /\ 1 \in 1..(M + 1) /\ M \in 0..M /\ M + 1 - 1 = M /\ M >= 3
        /\ (ids => M >= 4)
    BY <2>4
  <2>6. k + t + n + p <= M + 1
    BY <1>6, <2>2, <2>3
  <2>7. \A i \in 1..t : k - 1 + i \in 1..L
    BY <1>6, <2>2, <2>3
  <2>8. \A i \in 1..p : (k + t + n) - 1 + i \in 1..L /\ (k + t + n) - 1 + i = k - 1 + t + n + i
    BY <1>6, <2>2, <2>3
  <2>9. QED
    BY <2>4, <2>5, <2>6, <2>7, <2>8, Zenon DEF M, L, ids
<1>9. /\ m[1] = s[1]
      /\ m[2] = t /\ m[3] = p
      /\ f.id # <<>> => m[4] = n
  BY <1>1, <1>4, <1>8 DEF t, n, p
<1>10. /\ m[1].mb = mb /\ m[1].sr /\ m[1].tnf = f.tnf
       /\ m[1].il <=> f.id # <<>>
  <2> DEFINE y == m[1]
             z == f.id # <<>>
  <2>1. y = [mb |-> mb, me |-> me, sr |-> TRUE, il |-> z, tnf |-> f.tnf]
    BY <1>1, <1>9
  <2> HIDE DEF y, z
  <2>2. y.mb = mb /\ y.sr = TRUE /\ y.tnf = f.tnf /\ y.il = z
    BY <2>1, Zenon
  <2>3. QED
    BY <2>2, Zenon DEF y, z
<1>11. Header(m, 1) = [type |-> t, payload |-> p, id |-> n, begin |-> k]
  <2>1. m[1 + 1] = t /\ m[1 + 2] = p /\ (f.id # <<>> => m[1 + 3] = n) /\ 1 + 3 = 4 /\ 1 + 4 = 5
    BY <1>9
  <2>2. CASE f.id # <<>>
    BY <1>2, <1>10, <2>1, <2>2, HeaderOfShort
  <2>3. CASE f.id = <<>>
    <3>1. n = 0
      BY <1>5, <2>3 DEF n
    <3>2. QED
      BY <1>2, <1>10, <2>1, <2>3, <3>1, HeaderOfShort
  <2>4. QED
    BY <2>2, <2>3
<1>12. HasHeader(m, 1, Len(m))
  BY <1>8, <1>10 DEF HasHeader
<1>13. StandsAt(f.type, m, k)
  <2>1. ASSUME NEW i \in 1..t
        PROVE  m[k - 1 + i] = f.type[i]
    BY <1>1, <1>4, <1>8 DEF t
  <2>2. QED
    BY <2>1 DEF StandsAt, t
<1>14. StandsAt(f.payload, m, k + t + n)
  <2>1. ASSUME NEW i \in 1..Len(f.payload)
        PROVE  m[(k + t + n) - 1 + i] = f.payload[i]
    <3>1. s[k - 1 + t + n + i] = f.payload[i]
      BY <1>1 DEF t, n
    <3>2. (k + t + n) - 1 + i \in 1..Len(s) /\ (k + t + n) - 1 + i = k - 1 + t + n + i
      BY <1>8 DEF p
    <3>3. QED
      BY <1>4, <3>1, <3>2
  <2>2. QED
    BY <2>1, Zenon DEF StandsAt
<1>15. RecordLies(m, 1, Len(m), f.tnf, f.type, f.id, f.payload, k)
  BY <1>2, <1>5, <1>8, <1>10, <1>11, <1>12, <1>13, <1>14 DEF RecordLies, t, n, p
<1>16. QED
  BY <1>4, <1>8, <1>10, <1>15, Zenon DEF k, m, s

\* Of a message of another writer the first record is read, for what it says.
LEMMA ForeignRead ==
  ASSUME NEW f \in Frames, ~IsPoster(f), NEW me, NEW x, IsSequence(x)
  PROVE  Parse(Framed(f, TRUE, me) \o x) = Says(f)
<1> DEFINE m == Framed(f, TRUE, me) \o x
<1>1. /\ IsSequence(m) /\ Len(m) > 1
      /\ m[1].mb = TRUE
      /\ RecordLies(m, 1, Len(m), f.tnf, f.type, f.id, f.payload, FramedBegin(f))
  BY FramedLies
<1> HIDE DEF m
<1>2. PICK read : Reads(m, read) /\ Parse(m) = Message(m, read, 1, Len(m))
  BY <1>1, ParseIs
<1>3. Parse(m) = read[<<1, Len(m)>>]
  <2>1. ~(Len(m) <= 1)
    <3>1. IsSequence(m) /\ Len(m) > 1
      BY <1>1
    <3>2. QED
      BY <3>1 DEF IsSequence
  <2>2. m[1].mb
    BY <1>1, Zenon
  <2>3. QED
    BY <1>2, <2>1, <2>2 DEF Message
<1> DEFINE first == FramedBegin(f) + Len(f.type) + Len(f.id)
           parts == Message(m, read, first, first + Len(f.payload) - 1)
<1>4. read[<<1, Len(m)>>] = RecordOf(f.tnf, f.type, f.payload, parts)
  <2>1. /\ IsSequence(m) /\ Reads(m, read)
        /\ RecordLies(m, 1, Len(m), f.tnf, f.type, f.id, f.payload, FramedBegin(f))
    BY <1>1, <1>2
  <2>2. QED
    BY <2>1, RecordRead
<1> HIDE DEF first, parts
<1>5. RecordOf(f.tnf, f.type, f.payload, parts) = Says(f)
  BY TypesDiffer DEF RecordOf, Says, IsPoster
<1>6. QED
  BY <1>3, <1>4, <1>5 DEF m

LEMMA Beginning ==
  ASSUME NEW s, NEW n \in Nat
  PROVE  /\ IsSequence(SubSeq(s, 1, n))
         /\ Len(SubSeq(s, 1, n)) = n
         /\ \A i \in 1..n : SubSeq(s, 1, n)[i] = s[i]
<1>1. 1 \in Nat /\ 1 <= n + 1 /\ n + 1 - 1 = n /\ \A i \in 1..n : 1 - 1 + i = i
  OBVIOUS
<1>2. /\ IsSequence(SubSeq(s, 1, n))
      /\ Len(SubSeq(s, 1, n)) = n + 1 - 1
      /\ \A i \in 1..(n + 1 - 1) : SubSeq(s, 1, n)[i] = s[1 - 1 + i]
  BY <1>1, Slice, Zenon
<1>3. QED
  BY <1>1, <1>2

LEMMA PrefixOfConcat ==
  ASSUME NEW s, NEW t, IsSequence(s), IsSequence(t)
  PROVE  IsPrefix(s, s \o t)
<1> DEFINE u == s \o t
           n == Len(s)
<1>1. n \in Nat /\ Len(t) \in Nat
  BY DEF IsSequence
<1>2. Len(u) = n + Len(t) /\ \A i \in 1..n : u[i] = s[i]
  BY Concat
<1> HIDE DEF u, n
<1>3. /\ IsSequence(SubSeq(s, 1, n)) /\ Len(SubSeq(s, 1, n)) = n
      /\ \A i \in 1..n : SubSeq(s, 1, n)[i] = s[i]
  BY <1>1, Beginning
<1>4. /\ IsSequence(SubSeq(u, 1, n)) /\ Len(SubSeq(u, 1, n)) = n
      /\ \A i \in 1..n : SubSeq(u, 1, n)[i] = u[i]
  BY <1>1, Beginning
<1>5. SubSeq(s, 1, n) = SubSeq(u, 1, n)
  BY <1>2, <1>3, <1>4, Equal
<1>6. n <= Len(u)
  BY <1>1, <1>2
<1>7. QED
  BY <1>5, <1>6 DEF IsPrefix, u, n

LEMMA SaidInOrder ==
  /\ \A f : FlattenSeq([i \in DOMAIN <<f>> |-> Says(<<f>>[i])]) = Says(f)
  /\ \A f, g : FlattenSeq([i \in DOMAIN <<f, g>> |-> Says(<<f, g>>[i])]) = Says(f) \o Says(g)
<1>1. ASSUME NEW f
      PROVE  FlattenSeq([i \in DOMAIN <<f>> |-> Says(<<f>>[i])]) = Says(f)
  <2> DEFINE s == [i \in DOMAIN <<f>> |-> Says(<<f>>[i])]
  <2>1. DOMAIN <<f>> = 1..1 /\ <<f>>[1] = f
    BY Tuples
  <2>2. s = [i \in 1..1 |-> s[i]] /\ s[1] = Says(f)
    BY <2>1
  <2> HIDE DEF s
  <2>3. Len(s) = 1
    BY <2>2, SequenceOfFunction
  <2>4. QED
    BY <2>2, <2>3, FlattenOne DEF s
<1>2. ASSUME NEW f, NEW g
      PROVE  FlattenSeq([i \in DOMAIN <<f, g>> |-> Says(<<f, g>>[i])]) = Says(f) \o Says(g)
  <2> DEFINE s == [i \in DOMAIN <<f, g>> |-> Says(<<f, g>>[i])]
  <2>1. DOMAIN <<f, g>> = 1..2 /\ <<f, g>>[1] = f /\ <<f, g>>[2] = g
    BY Tuples
  <2>2. s = [i \in 1..2 |-> s[i]] /\ s[1] = Says(f) /\ s[2] = Says(g)
    BY <2>1
  <2> HIDE DEF s
  <2>3. Len(s) = 2
    BY <2>2, SequenceOfFunction
  <2>4. QED
    BY <2>2, <2>3, FlattenTwo DEF s
<1>3. QED
  BY <1>1, <1>2

LEMMA MessageOfOne ==
  ASSUME NEW f
  PROVE  MessageOf(<<f>>) = Framed(f, TRUE, TRUE)
<1> DEFINE list == <<f>>
           s == [i \in DOMAIN list |-> Framed(list[i], i = 1, i = Len(list))]
<1>1. DOMAIN list = 1..1 /\ list[1] = f /\ Len(list) = 1
  BY Tuples
<1> HIDE DEF list
<1>2. s = [i \in 1..1 |-> s[i]]
  BY <1>1
<1>3. s[1] = Framed(f, TRUE, TRUE)
  <2>1. s[1] = Framed(list[1], 1 = 1, 1 = Len(list))
    BY <1>1
  <2>2. QED
    BY <1>1, <2>1
<1>4. MessageOf(list) = FlattenSeq(s)
  BY DEF MessageOf
<1> HIDE DEF s
<1>5. Len(s) = 1
  BY <1>2, SequenceOfFunction
<1>6. QED
  BY <1>3, <1>4, <1>5, FlattenOne DEF list

LEMMA MessageOfTwo ==
  ASSUME NEW f, NEW g
  PROVE  MessageOf(<<f, g>>) = Framed(f, TRUE, FALSE) \o Framed(g, FALSE, TRUE)
<1> DEFINE list == <<f, g>>
           s == [i \in DOMAIN list |-> Framed(list[i], i = 1, i = Len(list))]
<1>1. DOMAIN list = 1..2 /\ list[1] = f /\ list[2] = g /\ Len(list) = 2
  BY Tuples
<1> HIDE DEF list
<1>2. s = [i \in 1..2 |-> s[i]]
  BY <1>1
<1>3. s[1] = Framed(f, TRUE, FALSE)
  <2>1. s[1] = Framed(list[1], 1 = 1, 1 = Len(list))
    BY <1>1
  <2>2. (1 = 1) = TRUE /\ (1 = Len(list)) = FALSE
    BY <1>1
  <2>3. QED
    BY <1>1, <2>1, <2>2, Zenon
<1>4. s[2] = Framed(g, FALSE, TRUE)
  <2>1. s[2] = Framed(list[2], 2 = 1, 2 = Len(list))
    BY <1>1
  <2>2. (2 = 1) = FALSE /\ (2 = Len(list)) = TRUE
    BY <1>1
  <2>3. QED
    BY <1>1, <2>1, <2>2, Zenon
<1>5. MessageOf(list) = FlattenSeq(s)
  BY DEF MessageOf
<1> HIDE DEF s
<1>6. Len(s) = 2
  BY <1>2, SequenceOfFunction
<1>7. QED
  BY <1>3, <1>4, <1>5, <1>6, FlattenTwo DEF list

\* Hence nothing is made up, nothing is read as something else, and the first
\* record is not left out.
LEMMA ForeignInOrder ==
  ASSUME MessageIsWhatWasAsked
  PROVE  ForeignIsReadInOrder
<1> SUFFICES ASSUME phase = "read foreign", ~IsPoster(asked[1])
             PROVE  /\ IsPrefix(records, FlattenSeq([i \in DOMAIN asked |-> Says(asked[i])]))
                    /\ Says(asked[1]) # <<>> => records # <<>>
  BY DEF ForeignIsReadInOrder
<1>1. PICK f, g \in Frames : asked \in {<<f>>, <<f, g>>}
  BY DEF MessageIsWhatWasAsked
<1>2. message = MessageOf(asked) /\ records = Parse(message)
  BY DEF MessageIsWhatWasAsked
<1>3. \A h \in Frames : \A b, e : IsSequence(Framed(h, b, e))
  BY FramedLayout
<1>4. \A h : IsSequence(Says(h))
  BY ReadersAreSequences, Tuples DEF Says
<1>5. asked[1] = f
  <2>1. <<f>>[1] = f /\ <<f, g>>[1] = f
    BY Tuples
  <2>2. QED
    BY <1>1, <2>1
<1>6. CASE asked = <<f>>
  <2>1. message = Framed(f, TRUE, TRUE) \o <<>>
    BY <1>2, <1>3, <1>6, MessageOfOne, ConcatEmpty
  <2>2. records = Says(f)
    <3>1. ~IsPoster(f) /\ IsSequence(<<>>)
      BY <1>5, Tuples
    <3>2. Parse(Framed(f, TRUE, TRUE) \o <<>>) = Says(f)
      BY <3>1, ForeignRead
    <3>3. QED
      BY <1>2, <2>1, <3>2
  <2>3. FlattenSeq([i \in DOMAIN asked |-> Says(asked[i])]) = Says(f)
    BY <1>6, SaidInOrder, Zenon
  <2>4. IsPrefix(Says(f), Says(f) \o <<>>)
    BY <1>4, PrefixOfConcat, Tuples
  <2>5. Says(f) \o <<>> = Says(f)
    BY <1>4, ConcatEmpty
  <2>6. QED
    BY <1>5, <2>2, <2>3, <2>4, <2>5
<1>7. CASE asked = <<f, g>>
  <2>1. message = Framed(f, TRUE, FALSE) \o Framed(g, FALSE, TRUE)
    BY <1>2, <1>7, MessageOfTwo
  <2>2. records = Says(f)
    BY <1>2, <1>3, <1>5, <2>1, ForeignRead
  <2>3. FlattenSeq([i \in DOMAIN asked |-> Says(asked[i])]) = Says(f) \o Says(g)
    BY <1>7, SaidInOrder, Zenon
  <2>4. IsPrefix(Says(f), Says(f) \o Says(g))
    BY <1>4, PrefixOfConcat
  <2>5. QED
    BY <1>5, <2>2, <2>3, <2>4
<1>8. QED
  BY <1>1, <1>6, <1>7

-----------------------------------------------------------------------------
(***************************************************************************)
(* The reader of the format.  It goes forward, so its function exists too. *)
(***************************************************************************)
DecodeOf(m, decode, b) == IF b > Len(m) THEN <<>> ELSE DecodeFrom(m, decode, b)

Decodes(m, decode) == decode = [b \in 1..(Len(m) + 1) |-> DecodeOf(m, decode, b)]

LEMMA DecodeCongruence ==
  ASSUME NEW m, IsSequence(m), NEW b \in 1..(Len(m) + 1), NEW f, NEW g,
         \A c \in 1..(Len(m) + 1) : c > b => f[c] = g[c]
  PROVE  DecodeOf(m, f, b) = DecodeOf(m, g, b)
<1>1. \A next \in (b + 1)..(Len(m) + 1) : f[next] = g[next]
  <2>1. \A next \in (b + 1)..(Len(m) + 1) : next \in 1..(Len(m) + 1) /\ next > b
    BY DEF IsSequence
  <2>2. QED
    BY <2>1
<1>2. DecodeFrom(m, f, b) = DecodeFrom(m, g, b)
  BY <1>1, Zenon DEF DecodeFrom
<1>3. QED
  BY <1>2 DEF DecodeOf

\* There is a function that decodes as Decode says.
LEMMA DecodeExists ==
  ASSUME NEW m, IsSequence(m)
  PROVE  \E decode : Decodes(m, decode)
<1> DEFINE N == Len(m) + 1
           Right(g, n) == \A b \in 1..N : b + n > N => g[b] = DecodeOf(m, g, b)
           T == {n \in Nat : \E g : Right(g, n)}
<1>1. N \in Nat /\ N = Len(m) + 1
  BY DEF IsSequence
<1> HIDE DEF N
<1>2. 0 \in T
  <2>1. \A g : Right(g, 0)
    BY <1>1
  <2>2. QED
    BY <2>1
<1>3. ASSUME NEW n \in Nat, n \in T
      PROVE  n + 1 \in T
  <2>1. PICK f : Right(f, n)
    BY <1>3
  <2> DEFINE g == [b \in 1..N |-> DecodeOf(m, f, b)]
  <2>2. ASSUME NEW b \in 1..N
        PROVE  g[b] = DecodeOf(m, f, b)
    OBVIOUS
  <2> HIDE DEF g
  <2>3. ASSUME NEW b \in 1..N, b + n > N
        PROVE  f[b] = g[b]
    BY <2>1, <2>2, <2>3
  <2>4. ASSUME NEW b \in 1..N, b + (n + 1) > N
        PROVE  g[b] = DecodeOf(m, g, b)
    <3>1. ASSUME NEW c \in 1..N, c > b
          PROVE  f[c] = g[c]
      <4>1. c + n > N
        BY <1>1, <2>4, <3>1
      <4>2. QED
        BY <2>3, <4>1
    <3>2. DecodeOf(m, f, b) = DecodeOf(m, g, b)
      BY <1>1, <3>1, DecodeCongruence
    <3>3. QED
      BY <2>2, <3>2
  <2>5. Right(g, n + 1)
    BY <2>4
  <2>6. QED
    BY <2>5
<1> HIDE DEF T
<1>4. N \in T
  BY <1>1, <1>2, <1>3, Induction
<1>5. PICK f : Right(f, N)
  BY <1>4 DEF T
<1>6. ASSUME NEW b \in 1..N
      PROVE  f[b] = DecodeOf(m, f, b)
  BY <1>1, <1>5
<1> DEFINE g == [b \in 1..N |-> DecodeOf(m, f, b)]
<1>7. \A b \in 1..N : g[b] = f[b]
  BY <1>6
<1>8. g = [b \in 1..N |-> DecodeOf(m, f, b)]
  OBVIOUS
<1> HIDE DEF g
<1>9. ASSUME NEW b \in 1..N
      PROVE  DecodeOf(m, f, b) = DecodeOf(m, g, b)
  BY <1>1, <1>7, DecodeCongruence
<1>10. g = [b \in 1..N |-> DecodeOf(m, g, b)]
  BY <1>8, <1>9
<1>11. QED
  BY <1>1, <1>10 DEF Decodes

LEMMA DecodeIs ==
  ASSUME NEW m, IsSequence(m)
  PROVE  \E decode : Decodes(m, decode) /\ Decode(m) = decode[1]
<1> DEFINE decode == CHOOSE f : f = [b \in 1..(Len(m) + 1) |->
                                       IF b > Len(m) THEN <<>> ELSE DecodeFrom(m, f, b)]
<1>1. \E f : f = [b \in 1..(Len(m) + 1) |-> IF b > Len(m) THEN <<>> ELSE DecodeFrom(m, f, b)]
  BY DecodeExists, Zenon DEF Decodes, DecodeOf
<1>2. decode = [b \in 1..(Len(m) + 1) |-> IF b > Len(m) THEN <<>> ELSE DecodeFrom(m, decode, b)]
  BY <1>1
<1>3. Decode(m) = decode[1]
  BY DEF Decode
<1> HIDE DEF decode
<1>4. Decodes(m, decode)
  BY <1>2, Zenon DEF Decodes, DecodeOf
<1>5. QED
  BY <1>3, <1>4

\* The frame of a record at b, and what is read after it.
FrameOf(tnf, name, p, mb, me) ==
  [tnf |-> tnf, mb |-> mb, me |-> me, type |-> <<name>>, payload |-> p]

\* The frame of a record is decoded, whether it is short or long.
LEMMA FrameDecoded ==
  ASSUME NEW m, IsSequence(m), NEW decode, Decodes(m, decode),
         NEW tnf, NEW name, NEW p, NEW mb, NEW me, IsSequence(p),
         NEW b \in Nat \ {0}, FrameAt(m, b, tnf, name, p, mb, me), b + FrameLength(p) <= Len(m) + 1
  PROVE  decode[b] = <<FrameOf(tnf, name, p, mb, me)>> \o decode[b + FrameLength(p)]
<1> DEFINE k == HeaderLength(p)
           next == b + FrameLength(p)
           short == Len(p) < Byte
<1>1. Len(p) \in Nat /\ Len(m) \in Nat
  BY DEF IsSequence
<1>2. k \in {3, 6} /\ (short => k = 3) /\ (~short => k = 6)
  BY DEF HeaderLength
<1>3. next = b + k + 1 + Len(p)
  BY <1>1, <1>2 DEF FrameLength
<1>4. m[b] = [mb |-> mb, me |-> me, sr |-> short, il |-> FALSE, tnf |-> tnf]
  BY DEF FrameAt
<1>5. /\ m[b + 1] = 1
      /\ short => m[b + 2] = Len(p)
      /\ ~short => ((m[b + 2] * Byte + m[b + 3]) * Byte + m[b + 4]) * Byte + m[b + 5] = Len(p)
      /\ m[b + k] = name
      /\ \A i \in 1..Len(p) : m[b + k + i] = p[i]
  BY Zenon DEF FrameAt
<1> HIDE DEF k, next, short
<1>6. m[b].tnf = tnf /\ m[b].mb = mb /\ m[b].me = me /\ m[b].sr = short
  <2> DEFINE x == m[b]
  <2>1. x = [mb |-> mb, me |-> me, sr |-> short, il |-> FALSE, tnf |-> tnf]
    BY <1>4
  <2> HIDE DEF x
  <2>2. x.tnf = tnf /\ x.mb = mb /\ x.me = me /\ x.sr = short
    BY <2>1, Zenon
  <2>3. QED
    BY <2>2, Zenon DEF x
<1> DEFINE size == IF m[b].sr THEN m[b + 2]
                   ELSE ((m[b + 2] * Byte + m[b + 3]) * Byte + m[b + 4]) * Byte + m[b + 5]
           begin == IF m[b].sr THEN b + 3 ELSE b + 6
           first == begin + m[b + 1]
<1>7. size = Len(p)
  <2>1. CASE short
    <3>1. m[b].sr
      BY <1>6, <2>1, Zenon
    <3>2. QED
      BY <1>5, <2>1, <3>1, Zenon
  <2>2. CASE ~short
    <3>1. ~m[b].sr
      BY <1>6, <2>2, Zenon
    <3>2. QED
      BY <1>5, <2>2, <3>1, Zenon
  <2>3. QED
    BY <2>1, <2>2
<1>8. begin = b + k
  <2>1. CASE short
    <3>1. m[b].sr
      BY <1>6, <2>1, Zenon
    <3>2. QED
      BY <1>2, <2>1, <3>1, Zenon
  <2>2. CASE ~short
    <3>1. ~m[b].sr
      BY <1>6, <2>2, Zenon
    <3>2. QED
      BY <1>2, <2>2, <3>1, Zenon
  <2>3. QED
    BY <2>1, <2>2
<1>9. DecodeFrom(m, decode, b) =
        IF first + size \notin (b + 1)..(Len(m) + 1) THEN <<[tnf |-> "cut"]>>
        ELSE <<[tnf |-> m[b].tnf, mb |-> m[b].mb, me |-> m[b].me,
                type |-> SubSeq(m, begin, first - 1), payload |-> SubSeq(m, first, (first + size) - 1)]>>
             \o decode[first + size]
  BY Zenon DEF DecodeFrom
<1> HIDE DEF size, begin
<1>10. first = b + k + 1
  BY <1>2, <1>5, <1>8
<1> HIDE DEF first
<1>11. first + size = next /\ next \in (b + 1)..(Len(m) + 1)
  <2>1. next <= Len(m) + 1
    BY DEF next
  <2>2. QED
    BY <1>1, <1>2, <1>3, <1>7, <1>10, <2>1
<1>12. SubSeq(m, begin, first - 1) = <<name>>
  <2> DEFINE s == <<name>>
  <2>1. IsSequence(s) /\ Len(s) = 1 /\ s[1] = name
    BY Tuples
  <2> HIDE DEF s
  <2>2. StandsAt(s, m, begin)
    <3>1. \A i \in 1..1 : begin - 1 + i = b + k /\ i = 1
      BY <1>2, <1>8
    <3>2. QED
      BY <1>5, <2>1, <3>1 DEF StandsAt
  <2>3. begin \in Nat /\ first - 1 = begin + Len(s) - 1
    BY <1>2, <1>8, <1>10, <2>1
  <2>4. QED
    BY <2>1, <2>2, <2>3, SliceIs DEF s
<1>13. SubSeq(m, first, (first + size) - 1) = p
  <2>1. StandsAt(p, m, first)
    <3>1. \A i \in 1..Len(p) : first - 1 + i = b + k + i
      BY <1>2, <1>10
    <3>2. QED
      BY <1>5, <3>1 DEF StandsAt
  <2>2. first \in Nat /\ (first + size) - 1 = first + Len(p) - 1
    BY <1>2, <1>7, <1>10
  <2>3. QED
    BY <2>1, <2>2, SliceIs
<1>14. DecodeFrom(m, decode, b) = <<FrameOf(tnf, name, p, mb, me)>> \o decode[next]
  BY <1>6, <1>9, <1>11, <1>12, <1>13, Zenon DEF FrameOf
<1>15. b \in 1..(Len(m) + 1) /\ ~(b > Len(m))
  BY <1>1, <1>11
<1>16. decode[b] = DecodeFrom(m, decode, b)
  BY <1>15 DEF Decodes, DecodeOf
<1>17. QED
  BY <1>14, <1>16 DEF next

-----------------------------------------------------------------------------
(***************************************************************************)
(* The records of a message one after the other.                           *)
(***************************************************************************)
\* Where the i-th of the sequences that f joins begins.
Begin(f, i) == IF i = 1 THEN 1 ELSE Len(f[i - 1]) + 1

LaysOut(s, f, k) ==
  /\ IsSequence(f[k])
  /\ Begin(f, k + 1) = Begin(f, k) + Len(s[k])
  /\ \A i \in 1..k :
       /\ Begin(f, i) \in Nat \ {0}
       /\ Begin(f, i) + Len(s[i]) <= Len(f[k]) + 1
       /\ \A j \in 1..Len(s[i]) : f[k][Begin(f, i) - 1 + j] = s[i][j]

\* Each of the sequences that are joined is in the whole, at its place.
LEMMA JoinsLayout ==
  ASSUME NEW n \in Nat, NEW s, NEW f, Joins(s, f, n), \A i \in 1..n : IsSequence(s[i])
  PROVE  \A k \in 1..n : LaysOut(s, f, k)
<1> DEFINE Placed(k, i) ==
             /\ Begin(f, i) \in Nat \ {0}
             /\ Begin(f, i) + Len(s[i]) <= Len(f[k]) + 1
             /\ \A j \in 1..Len(s[i]) : f[k][Begin(f, i) - 1 + j] = s[i][j]
           Good(k) ==
             /\ IsSequence(f[k])
             /\ Begin(f, k + 1) = Begin(f, k) + Len(s[k])
             /\ \A i \in 1..k : Placed(k, i)
           T == {k \in Nat : k \in 1..n => Good(k)}
<1>1. 0 \in T
  OBVIOUS
<1>2. ASSUME NEW k \in Nat, k \in T
      PROVE  k + 1 \in T
  <2> SUFFICES ASSUME k + 1 \in 1..n
               PROVE  Good(k + 1)
    OBVIOUS
  <2>1. IsSequence(s[k + 1]) /\ Len(s[k + 1]) \in Nat
    BY DEF IsSequence
  <2>2. CASE k = 0
    <3>1. f[1] = s[1] /\ k + 1 = 1
      BY <2>2 DEF Joins
    <3>2. Begin(f, 1) = 1 /\ Begin(f, 2) = Len(f[1]) + 1
      BY DEF Begin
    <3>3. IsSequence(f[1]) /\ Len(f[1]) \in Nat /\ Len(s[1]) = Len(f[1])
      BY <2>1, <3>1
    <3>4. \A j \in 1..Len(s[1]) : f[1][1 - 1 + j] = s[1][j]
      <4>1. \A j \in 1..Len(s[1]) : 1 - 1 + j = j
        BY <3>3
      <4>2. QED
        BY <3>1, <4>1
    <3>5. Placed(1, 1)
      BY <3>2, <3>3, <3>4
    <3>6. Begin(f, 2) = Begin(f, 1) + Len(s[1])
      BY <3>2, <3>3
    <3> HIDE DEF Placed
    <3>7. Good(1)
      BY <3>3, <3>5, <3>6
    <3>8. QED
      BY <3>1, <3>7
  <2>3. CASE k # 0
    <3> DEFINE u == f[k]
               v == s[k + 1]
               w == f[k + 1]
               l == Len(u)
               n1 == Len(v)
    <3>1. Good(k)
      BY <1>2, <2>3
    <3>2. w = u \o v
      <4>1. k + 1 # 1 /\ (k + 1) - 1 = k
        BY <2>3
      <4>2. f[k + 1] = IF k + 1 = 1 THEN s[k + 1] ELSE f[(k + 1) - 1] \o s[k + 1]
        BY DEF Joins
      <4>3. QED
        BY <4>1, <4>2, Zenon
    <3>3. Begin(f, k + 1) = l + 1 /\ Begin(f, (k + 1) + 1) = Len(w) + 1
      <4>1. k + 1 # 1 /\ (k + 1) - 1 = k /\ (k + 1) + 1 # 1 /\ ((k + 1) + 1) - 1 = k + 1
        BY <2>3
      <4>2. QED
        BY <4>1, Zenon DEF Begin
    <3>4. IsSequence(u) /\ l \in Nat
      BY <3>1 DEF IsSequence
    <3>5. IsSequence(v) /\ n1 \in Nat
      BY <2>1
    <3> HIDE DEF u, v, w
    <3>6. /\ IsSequence(w) /\ Len(w) = l + n1
          /\ \A i \in 1..l : w[i] = u[i]
          /\ \A i \in 1..n1 : w[l + i] = v[i]
      BY <3>2, <3>4, <3>5, Concat
    <3> HIDE DEF l, n1
    <3>7. Begin(f, (k + 1) + 1) = Begin(f, k + 1) + n1
      BY <3>3, <3>4, <3>5, <3>6
    <3>8. /\ Begin(f, k + 1) \in Nat \ {0}
          /\ Begin(f, k + 1) + n1 <= Len(w) + 1
      BY <3>3, <3>4, <3>5, <3>6
    <3>9. \A j \in 1..n1 : w[Begin(f, k + 1) - 1 + j] = v[j]
      <4>1. \A j \in 1..n1 : Begin(f, k + 1) - 1 + j = l + j
        BY <3>3, <3>4, <3>5
      <4>2. QED
        BY <3>6, <4>1
    <3>10. Placed(k + 1, k + 1)
      BY <3>8, <3>9, Zenon DEF v, w, n1
    <3>11. ASSUME NEW i \in 1..k
          PROVE  Placed(k + 1, i)
      <4> DEFINE c == Begin(f, i)
                 z == Len(s[i])
      <4>1. Placed(k, i)
        BY <3>1
      <4>2. c \in Nat \ {0} /\ c + z <= l + 1 /\ \A j \in 1..z : u[c - 1 + j] = s[i][j]
        BY <4>1, Zenon DEF u, l
      <4>3. z \in Nat
        <5>1. i \in 1..n
          OBVIOUS
        <5>2. QED
          BY <5>1 DEF IsSequence
      <4> HIDE DEF c, z
      <4>4. c + z <= Len(w) + 1
        BY <3>4, <3>5, <3>6, <4>2, <4>3
      <4>5. \A j \in 1..z : c - 1 + j \in 1..l
        BY <3>4, <4>2, <4>3
      <4>6. \A j \in 1..z : w[c - 1 + j] = s[i][j]
        BY <3>6, <4>2, <4>5
      <4>7. QED
        BY <4>2, <4>4, <4>6, Zenon DEF c, z, w
    <3> HIDE DEF Placed
    <3>12. \A i \in 1..(k + 1) : Placed(k + 1, i)
      BY <3>10, <3>11
    <3>13. QED
      BY <3>6, <3>7, <3>12, Zenon DEF v, w, n1
  <2>4. QED
    BY <2>2, <2>3
<1> HIDE DEF T
<1>3. \A k \in Nat : k \in T
  BY <1>1, <1>2, Induction
<1>4. ASSUME NEW k \in 1..n
      PROVE  Good(k)
  <2>1. k \in Nat
    OBVIOUS
  <2>2. k \in T
    BY <1>3, <2>1
  <2> HIDE DEF Good
  <2>3. QED
    BY <2>2 DEF T
<1>5. QED
  BY <1>4, Zenon DEF LaysOut

\* A frame stays one when it is put somewhere else.
LEMMA FrameMoved ==
  ASSUME NEW m, NEW s, NEW o \in Nat, NEW tnf, NEW name, NEW p, NEW mb, NEW me, IsSequence(p),
         FrameAt(s, 1, tnf, name, p, mb, me),
         \A j \in 1..FrameLength(p) : m[o + j] = s[j]
  PROVE  FrameAt(m, o + 1, tnf, name, p, mb, me)
<1> DEFINE k == HeaderLength(p)
           short == Len(p) < Byte
<1>1. Len(p) \in Nat
  BY DEF IsSequence
<1>2. k \in {3, 6} /\ (short => k = 3) /\ (~short => k = 6)
  BY DEF HeaderLength
<1>3. FrameLength(p) = k + 1 + Len(p)
  BY DEF FrameLength
<1>4. /\ s[1] = [mb |-> mb, me |-> me, sr |-> short, il |-> FALSE, tnf |-> tnf]
      /\ s[1 + 1] = 1
      /\ short => s[1 + 2] = Len(p)
      /\ ~short => ((s[1 + 2] * Byte + s[1 + 3]) * Byte + s[1 + 4]) * Byte + s[1 + 5] = Len(p)
      /\ s[1 + k] = name
      /\ \A i \in 1..Len(p) : s[1 + k + i] = p[i]
  BY Zenon DEF FrameAt
<1> HIDE DEF k, short
<1>5. /\ m[o + 1] = s[1] /\ m[o + 1 + 1] = s[1 + 1] /\ m[o + 1 + 2] = s[1 + 2]
      /\ m[o + 1 + k] = s[1 + k]
  <2> DEFINE F == FrameLength(p)
             l == Len(p)
  <2>1. F = k + 1 + l /\ l \in Nat
    BY <1>1, <1>3
  <2>2. \A j \in 1..F : m[o + j] = s[j]
    OBVIOUS
  <2> HIDE DEF F, l
  <2>3. 1 \in 1..F /\ 2 \in 1..F /\ 3 \in 1..F /\ 1 + k \in 1..F
    BY <1>2, <2>1
  <2>4. m[o + 1] = s[1] /\ m[o + 2] = s[2] /\ m[o + 3] = s[3] /\ m[o + (1 + k)] = s[1 + k]
    BY <2>2, <2>3
  <2>5. o + 2 = o + 1 + 1 /\ o + 3 = o + 1 + 2 /\ o + (1 + k) = o + 1 + k
    BY <1>2
  <2>6. QED
    BY <2>4, <2>5
<1>6. ~short => m[o + 1 + 3] = s[1 + 3] /\ m[o + 1 + 4] = s[1 + 4] /\ m[o + 1 + 5] = s[1 + 5]
  <2> SUFFICES ASSUME ~short
               PROVE  m[o + 1 + 3] = s[1 + 3] /\ m[o + 1 + 4] = s[1 + 4] /\ m[o + 1 + 5] = s[1 + 5]
    OBVIOUS
  <2> DEFINE F == FrameLength(p)
             l == Len(p)
  <2>1. F = k + 1 + l /\ l \in Nat /\ k = 6
    BY <1>1, <1>2, <1>3
  <2>2. \A j \in 1..F : m[o + j] = s[j]
    OBVIOUS
  <2> HIDE DEF F, l
  <2>3. 4 \in 1..F /\ 5 \in 1..F /\ 6 \in 1..F
    BY <2>1
  <2>4. m[o + 4] = s[4] /\ m[o + 5] = s[5] /\ m[o + 6] = s[6]
    BY <2>2, <2>3
  <2>5. QED
    BY <2>4
<1>7. \A i \in 1..Len(p) : m[o + 1 + k + i] = s[1 + k + i]
  <2>1. \A i \in 1..Len(p) : 1 + k + i \in 1..FrameLength(p) /\ o + (1 + k + i) = o + 1 + k + i
    BY <1>1, <1>2, <1>3
  <2>2. QED
    BY <2>1
<1>8. QED
  BY <1>4, <1>5, <1>6, <1>7, Zenon DEF FrameAt, k, short

\* What is put before the next, from the last one back to the first.
Chained(n, d, x) == d[n + 1] = <<>> /\ \A i \in 1..n : d[i] = <<x[i]>> \o d[i + 1]

\* A sequence that grows by one at its beginning.
LEMMA Chain ==
  ASSUME NEW n \in Nat, NEW d, NEW x, Chained(n, d, x)
  PROVE  /\ IsSequence(d[1]) /\ Len(d[1]) = n
         /\ \A j \in 1..n : d[1][j] = x[j]
<1> DEFINE Good(k, i) ==
             /\ IsSequence(d[i]) /\ Len(d[i]) = k
             /\ \A j \in 1..k : d[i][j] = x[(n - k) + j]
           T == {k \in Nat : k <= n => Good(k, (n - k) + 1)}
<1>1. d[n + 1] = <<>> /\ \A i \in 1..n : d[i] = <<x[i]>> \o d[i + 1]
  BY DEF Chained
<1>2. 0 \in T
  BY <1>1, Tuples
<1>3. ASSUME NEW k \in Nat, k \in T
      PROVE  k + 1 \in T
  <2> SUFFICES ASSUME k + 1 <= n
               PROVE  Good(k + 1, (n - (k + 1)) + 1)
    BY DEF T
  <2> DEFINE i == (n - (k + 1)) + 1
             e == <<x[i]>>
             r == d[i + 1]
             w == d[i]
  <2>1. i \in 1..n /\ i + 1 = (n - k) + 1 /\ i = n - k
    OBVIOUS
  <2>2. Good(k, (n - k) + 1)
    BY <1>3 DEF T
  <2>3. IsSequence(r) /\ Len(r) = k /\ \A j \in 1..k : r[j] = x[(n - k) + j]
    BY <2>1, <2>2
  <2>4. IsSequence(e) /\ Len(e) = 1 /\ e[1] = x[i]
    BY Tuples
  <2>5. w = e \o r
    BY <1>1, <2>1
  <2> HIDE DEF e, r, w
  <2>6. /\ IsSequence(w) /\ Len(w) = Len(e) + Len(r)
        /\ \A j \in 1..Len(e) : w[j] = e[j]
        /\ \A j \in 1..Len(r) : w[Len(e) + j] = r[j]
    <3>1. /\ IsSequence(e \o r) /\ Len(e \o r) = Len(e) + Len(r)
          /\ \A j \in 1..Len(e) : (e \o r)[j] = e[j]
          /\ \A j \in 1..Len(r) : (e \o r)[Len(e) + j] = r[j]
      <4>1. IsSequence(e) /\ IsSequence(r)
        BY <2>3, <2>4
      <4>2. QED
        BY <4>1, Concat
    <3>2. QED
      BY <2>5, <3>1, Zenon
  <2>7. Len(w) = k + 1 /\ w[1] = x[i]
    BY <2>3, <2>4, <2>6
  <2>8. ASSUME NEW j \in 1..(k + 1)
        PROVE  w[j] = x[(n - (k + 1)) + j]
    <3>1. CASE j = 1
      <4>1. (n - (k + 1)) + j = i
        BY <3>1
      <4>2. QED
        BY <2>7, <3>1, <4>1
    <3>2. CASE j # 1
      <4>1. j - 1 \in 1..k /\ 1 + (j - 1) = j /\ (n - k) + (j - 1) = (n - (k + 1)) + j
        BY <3>2
      <4>2. w[1 + (j - 1)] = r[j - 1] /\ r[j - 1] = x[(n - k) + (j - 1)]
        BY <2>3, <2>4, <2>6, <4>1
      <4>3. QED
        BY <4>1, <4>2
    <3>3. QED
      BY <3>1, <3>2
  <2>9. QED
    BY <2>6, <2>7, <2>8 DEF w
<1> HIDE DEF T
<1>4. n \in T
  BY <1>2, <1>3, Induction
<1>5. (n - n) + 1 = 1 /\ n <= n /\ \A j \in 1..n : (n - n) + j = j
  OBVIOUS
<1>6. Good(n, (n - n) + 1)
  <2> HIDE DEF Good
  <2>1. QED
    BY <1>4, <1>5 DEF T
<1>7. QED
  BY <1>5, <1>6

\* The records of a message, one after the other, are those that are read of it
\* after the format.
Composes(s, q, n) ==
  /\ Len(s) = n
  /\ \A i \in 1..n : /\ IsSequence(q[i].payload)
                     /\ s[i] = Make(q[i].tnf, <<q[i].name>>, q[i].payload, q[i].mb, q[i].me)

\* A message put together from records is decoded into those records.
LEMMA MessageDecoded ==
  ASSUME NEW n \in Nat, n # 0, NEW q, NEW s, Composes(s, q, n), FourDigits(Len(FlattenSeq(s)))
  PROVE  /\ IsSequence(FlattenSeq(s))
         /\ IsSequence(Decode(FlattenSeq(s))) /\ Len(Decode(FlattenSeq(s))) = n
         /\ \A i \in 1..n : Decode(FlattenSeq(s))[i] =
              FrameOf(q[i].tnf, q[i].name, q[i].payload, q[i].mb, q[i].me)
<1> DEFINE m == FlattenSeq(s)
           F(i) == FrameOf(q[i].tnf, q[i].name, q[i].payload, q[i].mb, q[i].me)
<1>1. /\ Len(s) = n
      /\ \A i \in 1..n : /\ IsSequence(q[i].payload)
                         /\ s[i] = Make(q[i].tnf, <<q[i].name>>, q[i].payload, q[i].mb, q[i].me)
  BY Zenon DEF Composes
<1>2. PICK f : Joins(s, f, n) /\ m = f[n]
  BY <1>1, FlattenIs
<1> HIDE DEF m
<1>3. \A i \in 1..n : IsSequence(s[i]) /\ Len(s[i]) = FrameLength(q[i].payload)
  <2>1. ASSUME NEW i \in 1..n
        PROVE  IsSequence(s[i]) /\ Len(s[i]) = FrameLength(q[i].payload)
    <3>1. /\ IsSequence(q[i].payload)
          /\ s[i] = Make(q[i].tnf, <<q[i].name>>, q[i].payload, q[i].mb, q[i].me)
      BY <1>1
    <3>2. /\ IsSequence(Make(q[i].tnf, <<q[i].name>>, q[i].payload, q[i].mb, q[i].me))
          /\ Len(Make(q[i].tnf, <<q[i].name>>, q[i].payload, q[i].mb, q[i].me))
               = FrameLength(q[i].payload)
      BY <3>1, MakeLayout
    <3>3. QED
      BY <3>1, <3>2, Zenon
  <2>2. QED
    BY <2>1, Zenon
<1>4. /\ IsSequence(m)
      /\ \A i \in 1..n :
           /\ Begin(f, i) \in Nat \ {0}
           /\ Begin(f, i) + Len(s[i]) <= Len(m) + 1
           /\ \A j \in 1..Len(s[i]) : m[Begin(f, i) - 1 + j] = s[i][j]
  <2>1. n \in 1..n
    OBVIOUS
  <2>2. QED
    <3>1. LaysOut(s, f, n)
      BY <1>2, <1>3, <2>1, JoinsLayout
    <3>2. QED
      BY <1>2, <2>1, <3>1, Zenon DEF LaysOut
<1>5. ASSUME NEW i \in 1..n
      PROVE  Begin(f, i + 1) = Begin(f, i) + FrameLength(q[i].payload)
  <2>1. LaysOut(s, f, i)
    BY <1>2, <1>3, JoinsLayout
  <2>2. QED
    BY <1>3, <2>1 DEF LaysOut
<1>6. Begin(f, n + 1) = Len(m) + 1 /\ Begin(f, 1) = 1
  <2>1. n + 1 # 1 /\ (n + 1) - 1 = n
    OBVIOUS
  <2>2. QED
    BY <1>2, <2>1, Zenon DEF Begin
<1>7. PICK decode : Decodes(m, decode) /\ Decode(m) = decode[1]
  BY <1>4, DecodeIs
<1>8. decode[Begin(f, n + 1)] = <<>>
  <2>1. Len(m) \in Nat
    BY <1>4 DEF IsSequence
  <2>2. Len(m) + 1 \in 1..(Len(m) + 1) /\ Len(m) + 1 > Len(m)
    BY <2>1
  <2>3. QED
    BY <1>6, <1>7, <2>2 DEF Decodes, DecodeOf
<1>9. ASSUME NEW i \in 1..n
      PROVE  decode[Begin(f, i)] = <<F(i)>> \o decode[Begin(f, i + 1)]
  <2> DEFINE p == q[i].payload
             b == Begin(f, i)
             o == b - 1
             l == Len(p)
  <2>1. /\ IsSequence(p) /\ l \in Nat
        /\ s[i] = Make(q[i].tnf, <<q[i].name>>, p, q[i].mb, q[i].me)
    BY <1>1 DEF IsSequence
  <2>2. /\ b \in Nat \ {0} /\ b + FrameLength(p) <= Len(m) + 1
        /\ \A j \in 1..FrameLength(p) : m[o + j] = s[i][j]
        /\ Begin(f, i + 1) = b + FrameLength(p)
    BY <1>3, <1>4, <1>5
  <2> HIDE DEF p, b
  <2>3. o \in Nat /\ o + 1 = b
    BY <2>2
  <2>4. FourDigits(l)
    <3> DEFINE K == Byte * Byte * Byte * Byte
               w == Len(m)
    <3>1. K \in Nat /\ w \in Nat /\ w < K
      <4>1. K \in Nat
        BY NdefAssumption, SMTT(30)
      <4>2. QED
        BY <1>4, <4>1 DEF IsSequence, FourDigits, m
    <3>2. FrameLength(p) > l /\ FrameLength(p) \in Nat
      BY <2>1 DEF FrameLength, HeaderLength
    <3> HIDE DEF K, w, l
    <3>3. b + FrameLength(p) <= w + 1
      BY <2>2 DEF w
    <3>4. l < K
      BY <2>1, <2>2, <3>1, <3>2, <3>3
    <3>5. QED
      BY <3>4 DEF FourDigits, K
  <2>5. FrameAt(s[i], 1, q[i].tnf, q[i].name, p, q[i].mb, q[i].me)
    BY <2>1, <2>4, MakeLayout
  <2> HIDE DEF o, l
  <2>6. FrameAt(m, b, q[i].tnf, q[i].name, p, q[i].mb, q[i].me)
    BY <2>1, <2>2, <2>3, <2>5, FrameMoved
  <2>7. decode[b] = <<FrameOf(q[i].tnf, q[i].name, p, q[i].mb, q[i].me)>>
                      \o decode[b + FrameLength(p)]
    BY <1>4, <1>7, <2>1, <2>2, <2>6, FrameDecoded
  <2>8. QED
    BY <2>2, <2>7 DEF p, b
<1>10. /\ IsSequence(decode[Begin(f, 1)]) /\ Len(decode[Begin(f, 1)]) = n
      /\ \A j \in 1..n : decode[Begin(f, 1)][j] = F(j)
  <2> DEFINE rest == [i \in 1..(n + 1) |-> decode[Begin(f, i)]]
             frames == [i \in 1..n |-> F(i)]
  <2> HIDE DEF F
  <2>1. Chained(n, rest, frames)
    BY <1>8, <1>9 DEF Chained
  <2>2. \A i \in 1..n : frames[i] = F(i)
    OBVIOUS
  <2>3. rest[1] = decode[Begin(f, 1)]
    OBVIOUS
  <2> HIDE DEF rest, frames
  <2>4. /\ IsSequence(rest[1]) /\ Len(rest[1]) = n
        /\ \A j \in 1..n : rest[1][j] = frames[j]
    BY <2>1, Chain
  <2>5. QED
    BY <2>2, <2>3, <2>4
<1>11. QED
  BY <1>4, <1>6, <1>7, <1>10 DEF m

-----------------------------------------------------------------------------
(***************************************************************************)
(* Abbreviations of URIs.                                                  *)
(***************************************************************************)
\* Every set of naturals has a smallest member.
LEMMA Smallest ==
  ASSUME NEW U, U \subseteq Nat, U # {}
  PROVE  \E x \in U : \A y \in U : x <= y
<1>1. PICK x \in U : \A y \in U : ~(<<y, x>> \in OpToRel(<, Nat))
  BY WFMin, NatLessThanWellFounded, Zenon
<1>2. ASSUME NEW y \in U
      PROVE  x <= y
  <2>1. CASE y < x
    <3>1. <<y, x>> \in OpToRel(<, Nat)
      BY <2>1 DEF OpToRel
    <3>2. QED
      BY <1>1, <3>1
  <2>2. QED
    BY <2>1
<1>3. QED
  BY <1>2

Fits(uri) == {i \in DOMAIN Abbreviations : IsPrefix(Abbreviations[i], uri)}

LEMMA AbbreviationLength ==
  /\ DOMAIN Abbreviations = 1..Len(Abbreviations) /\ Len(Abbreviations) \in Nat
  /\ \A i \in DOMAIN Abbreviations : IsSequence(Abbreviations[i]) /\ Len(Abbreviations[i]) \in Nat
BY NdefAssumption DEF IsSequence

\* The abbreviation chosen is one, and the URI begins with it.
LEMMA AbbreviationFits ==
  ASSUME NEW uri, IsSequence(uri)
  PROVE  Abbreviation(uri) \in Fits(uri)
<1> DEFINE L(i) == Len(Abbreviations[i])
           F == Fits(uri)
           n == Len(uri)
           U == {n - L(i) : i \in F}
<1>1. n \in Nat
  BY DEF IsSequence
<1>2. 1 \in F
  <2>1. 1 \in DOMAIN Abbreviations /\ Abbreviations[1] = <<>>
    BY NdefAssumption, AbbreviationLength
  <2>2. IsPrefix(<<>>, uri)
    <3>1. IsSequence(SubSeq(<<>>, 1, 0)) /\ Len(SubSeq(<<>>, 1, 0)) = 0
      BY Beginning
    <3>2. IsSequence(SubSeq(uri, 1, 0)) /\ Len(SubSeq(uri, 1, 0)) = 0
      BY Beginning
    <3>3. SubSeq(<<>>, 1, 0) = SubSeq(uri, 1, 0)
      BY <3>1, <3>2, Equal
    <3>4. Len(<<>>) = 0 /\ 0 <= n
      BY <1>1
    <3>5. QED
      BY <3>3, <3>4 DEF IsPrefix
  <2>3. QED
    BY <2>1, <2>2 DEF Fits
<1>3. \A i \in F : i \in Nat /\ L(i) \in Nat /\ L(i) <= n
  BY AbbreviationLength DEF Fits, IsPrefix
<1> HIDE DEF F, n
<1>4. U \subseteq Nat /\ U # {}
  BY <1>1, <1>2, <1>3
<1>5. PICK u \in U : \A v \in U : u <= v
  <2> HIDE DEF U
  <2>1. QED
    BY <1>4, Smallest
<1>6. PICK k \in F : u = n - L(k)
  OBVIOUS
<1>7. ASSUME NEW j \in F
      PROVE  L(j) <= L(k)
  <2>1. n - L(j) \in U
    OBVIOUS
  <2>2. u <= n - L(j) /\ L(j) \in Nat /\ L(k) \in Nat
    BY <1>3, <1>5, <2>1
  <2> HIDE DEF L
  <2>3. QED
    BY <1>1, <1>6, <2>2
<1> DEFINE V == {i \in F : L(i) = L(k)}
<1>8. V \subseteq Nat /\ V # {}
  BY <1>3, <1>6
<1>9. PICK x \in V : \A y \in V : x <= y
  <2> HIDE DEF V
  <2>1. QED
    BY <1>8, Smallest
<1>10. x \in F /\ \A j \in F : L(x) >= L(j) /\ (L(x) = L(j) => x <= j)
  BY <1>3, <1>7, <1>9
<1>11. Abbreviation(uri) = CHOOSE i \in F : \A j \in F : L(i) >= L(j) /\ (L(i) = L(j) => i <= j)
  BY Zenon DEF Abbreviation, F, Fits
<1> DEFINE P(i) == \A j \in F : L(i) >= L(j) /\ (L(i) = L(j) => i <= j)
<1>12. (CHOOSE i \in F : P(i)) \in F
  <2>1. x \in F /\ P(x)
    BY <1>10
  <2> HIDE DEF P
  <2>2. QED
    BY <2>1, Zenon
<1>13. QED
  BY <1>11, <1>12 DEF F

LEMMA PrefixIs ==
  ASSUME NEW s, NEW t, IsSequence(s), IsPrefix(s, t)
  PROVE  Len(s) <= Len(t) /\ \A i \in 1..Len(s) : t[i] = s[i]
<1> DEFINE n == Len(s)
<1>1. n \in Nat
  BY DEF IsSequence
<1>2. n <= Len(t) /\ SubSeq(s, 1, n) = SubSeq(t, 1, n)
  BY DEF IsPrefix
<1>3. \A i \in 1..n : SubSeq(s, 1, n)[i] = s[i]
  BY <1>1, Beginning
<1>4. \A i \in 1..n : SubSeq(t, 1, n)[i] = t[i]
  BY <1>1, Beginning
<1>5. QED
  BY <1>2, <1>3, <1>4

LEMMA TailIs ==
  ASSUME NEW x, NEW s, IsSequence(s)
  PROVE  Tail(<<x>> \o s) = s
<1> DEFINE e == <<x>>
           All == {x} \cup {s[i] : i \in 1..Len(s)}
           whole == e \o s
<1>1. IsSequence(e) /\ Len(e) = 1
  BY Tuples
<1>2. s \in Seq(All) /\ e \in Seq(All)
  BY SequenceIn
<1> HIDE DEF All, e
<1>3. whole \in Seq(All) /\ Len(whole) = 1 + Len(s) /\ \A i \in 1..Len(s) : whole[1 + i] = s[i]
  <2>1. whole \in Seq(All)
    BY <1>2, ConcatProperties
  <2>2. /\ Len(whole) = Len(e) + Len(s)
        /\ \A i \in 1..Len(s) : whole[Len(e) + i] = s[i]
    <3>1. IsSequence(e) /\ IsSequence(s)
      BY <1>1
    <3>2. /\ Len(e \o s) = Len(e) + Len(s)
          /\ \A i \in 1..Len(s) : (e \o s)[Len(e) + i] = s[i]
      BY <3>1, Concat
    <3>3. QED
      BY <3>2, Zenon
  <2> HIDE DEF whole
  <2>3. QED
    BY <1>1, <2>1, <2>2
<1> HIDE DEF whole
<1>4. Len(s) \in Nat
  BY DEF IsSequence
<1>5. whole # <<>>
  BY <1>3, <1>4
<1>6. /\ Tail(whole) \in Seq(All) /\ Len(Tail(whole)) = Len(whole) - 1
      /\ \A i \in 1..Len(Tail(whole)) : Tail(whole)[i] = whole[i + 1]
  BY <1>3, <1>5, HeadTailProperties
<1>7. IsSequence(Tail(whole)) /\ Len(Tail(whole)) = Len(s)
  <2>1. IsSequence(Tail(whole))
    BY <1>6, InSequence
  <2>2. QED
    BY <1>3, <1>4, <1>6, <2>1
<1>8. \A i \in 1..Len(s) : Tail(whole)[i] = s[i]
  <2>1. \A i \in 1..Len(s) : i + 1 = 1 + i
    BY <1>4
  <2>2. QED
    BY <1>3, <1>6, <1>7, <2>1
<1>9. Tail(whole) = s
  BY <1>7, <1>8, Equal
<1>10. QED
  BY <1>9 DEF whole, e

\* The payload of a URI says which.
LEMMA UriReadBack ==
  ASSUME NEW uri, IsSequence(uri)
  PROVE  /\ IsSequence(UriPayload(uri)) /\ Len(UriPayload(uri)) > 0
         /\ UriOf(UriPayload(uri)) = <<[Blank EXCEPT !.type = "URI", !.uri = uri]>>
<1> DEFINE a == Abbreviation(uri)
           abbreviated == Abbreviations[a]
           l == Len(abbreviated)
           n == Len(uri)
           rest == SubSeq(uri, l + 1, n)
           e == <<a - 1>>
           p == e \o rest
<1>1. a \in DOMAIN Abbreviations /\ IsPrefix(abbreviated, uri)
  BY AbbreviationFits DEF Fits
<1>2. /\ a \in Nat /\ a - 1 + 1 = a /\ IsSequence(abbreviated) /\ l \in Nat /\ n \in Nat
  BY <1>1, AbbreviationLength DEF IsSequence
<1>3. l <= n /\ \A i \in 1..l : uri[i] = abbreviated[i]
  BY <1>1, <1>2, PrefixIs
<1>4. UriPayload(uri) = p
  BY Zenon DEF UriPayload
<1>5. IsSequence(e) /\ Len(e) = 1 /\ e[1] = a - 1
  BY Tuples
<1> HIDE DEF a, abbreviated, n, e
<1>6. /\ IsSequence(rest) /\ Len(rest) = n - l
      /\ \A i \in 1..(n - l) : rest[i] = uri[l + i]
  <2> HIDE DEF l
  <2> DEFINE c == l + 1
  <2>1. c \in Nat /\ n \in Nat /\ c <= n + 1 /\ n + 1 - c = n - l
        /\ \A i \in 1..(n - l) : c - 1 + i = l + i
    BY <1>2, <1>3
  <2> HIDE DEF c
  <2>2. /\ IsSequence(SubSeq(uri, c, n)) /\ Len(SubSeq(uri, c, n)) = n + 1 - c
        /\ \A i \in 1..(n + 1 - c) : SubSeq(uri, c, n)[i] = uri[c - 1 + i]
    BY <2>1, Slice
  <2>3. rest = SubSeq(uri, c, n)
    BY DEF c
  <2> HIDE DEF rest
  <2>4. QED
    BY <2>1, <2>2, <2>3
<1>7. Tail(p) = rest
  BY <1>6, TailIs DEF e
<1> HIDE DEF rest
<1>8. IsSequence(p) /\ Len(p) = 1 + Len(rest) /\ p[1] = a - 1
  <2>1. /\ IsSequence(e \o rest) /\ Len(e \o rest) = Len(e) + Len(rest)
        /\ \A i \in 1..Len(e) : (e \o rest)[i] = e[i]
    BY <1>5, <1>6, Concat
  <2>2. QED
    BY <1>5, <2>1
<1> HIDE DEF p
<1>9. Len(p) > 0 /\ ~(Len(p) < 1) /\ p[1] + 1 = a
  <2> HIDE DEF l
  <2>1. QED
    BY <1>2, <1>3, <1>6, <1>8
<1>10. abbreviated \o rest = uri
  <2> DEFINE w == abbreviated \o rest
  <2>1. /\ IsSequence(w) /\ Len(w) = l + Len(rest)
        /\ \A i \in 1..l : w[i] = abbreviated[i]
        /\ \A i \in 1..Len(rest) : w[l + i] = rest[i]
    BY <1>2, <1>6, Concat
  <2> HIDE DEF w, l
  <2>2. Len(w) = n
    BY <1>2, <1>3, <1>6, <2>1
  <2>3. ASSUME NEW i \in 1..n
        PROVE  w[i] = uri[i]
    <3>1. CASE i <= l
      BY <1>2, <1>3, <2>1, <3>1
    <3>2. CASE ~(i <= l)
      <4>1. i - l \in 1..(n - l) /\ l + (i - l) = i
        BY <1>2, <1>3, <3>2
      <4>2. w[l + (i - l)] = rest[i - l] /\ rest[i - l] = uri[l + (i - l)]
        BY <1>6, <2>1, <4>1
      <4>3. QED
        BY <4>1, <4>2
    <3>3. QED
      BY <3>1, <3>2
  <2>4. w = uri
    BY <2>1, <2>2, <2>3, Equal DEF n
  <2>5. QED
    BY <2>4 DEF w
<1>11. UriOf(p) = <<[Blank EXCEPT !.type = "URI", !.uri = Abbreviations[p[1] + 1] \o Tail(p)]>>
  BY <1>1, <1>9, Zenon DEF UriOf
<1>12. Abbreviations[p[1] + 1] \o Tail(p) = uri
  BY <1>7, <1>9, <1>10, Zenon DEF abbreviated
<1>13. QED
  BY <1>4, <1>8, <1>9, <1>11, <1>12, Zenon

\* The payload of a text has the language and the text.
LEMMA TextReadBack ==
  ASSUME NEW r, IsSequence(r.language), IsSequence(r.representation)
  PROVE  /\ IsSequence(TextPayload(r))
         /\ TextOf(TextPayload(r)) =
              <<[Blank EXCEPT !.type = "Text", !.utf16 = r.utf16, !.language = r.language,
                              !.representation = r.representation]>>
<1> DEFINE lang == r.language
           text == r.representation
           l == Len(lang)
           n == Len(text)
           status == [utf16 |-> r.utf16, language |-> l]
           e == <<status>>
           h == e \o lang
           p == h \o text
<1>1. l \in Nat /\ n \in Nat /\ IsSequence(lang) /\ IsSequence(text)
  BY DEF IsSequence
<1>2. TextPayload(r) = p
  BY Zenon DEF TextPayload
<1>3. status.utf16 = r.utf16 /\ status.language = l
  OBVIOUS
<1>4. IsSequence(e) /\ Len(e) = 1 /\ e[1] = status
  BY Tuples
<1> HIDE DEF lang, text, status, e
<1>5. /\ IsSequence(h) /\ Len(h) = 1 + l /\ h[1] = status /\ \A i \in 1..l : h[1 + i] = lang[i]
  <2>1. /\ IsSequence(e \o lang) /\ Len(e \o lang) = Len(e) + Len(lang)
        /\ \A i \in 1..Len(e) : (e \o lang)[i] = e[i]
        /\ \A i \in 1..Len(lang) : (e \o lang)[Len(e) + i] = lang[i]
    <3>1. IsSequence(e) /\ IsSequence(lang)
      BY <1>1, <1>4
    <3>2. QED
      BY <3>1, Concat
  <2>2. QED
    BY <1>4, <2>1
<1> HIDE DEF h
<1>6. /\ IsSequence(p) /\ Len(p) = (1 + l) + n
      /\ \A i \in 1..(1 + l) : p[i] = h[i]
      /\ \A i \in 1..n : p[(1 + l) + i] = text[i]
  <2>1. /\ IsSequence(h \o text) /\ Len(h \o text) = Len(h) + Len(text)
        /\ \A i \in 1..Len(h) : (h \o text)[i] = h[i]
        /\ \A i \in 1..Len(text) : (h \o text)[Len(h) + i] = text[i]
    <3>1. IsSequence(h) /\ IsSequence(text)
      BY <1>1, <1>5
    <3>2. QED
      BY <3>1, Concat
  <2>2. QED
    BY <1>5, <2>1
<1> HIDE DEF p
<1>7. p[1] = status /\ \A i \in 1..l : p[1 + i] = lang[i]
  <2>1. 1 \in 1..(1 + l) /\ \A i \in 1..l : 1 + i \in 1..(1 + l)
    BY <1>1
  <2>2. QED
    BY <1>5, <1>6, <2>1
<1>8. SubSeq(p, 2, 1 + l) = lang
  <2>1. \A i \in 1..l : 2 - 1 + i = 1 + i
    BY <1>1
  <2>2. StandsAt(lang, p, 2)
    BY <1>7, <2>1 DEF StandsAt
  <2>3. SubSeq(p, 2, 2 + Len(lang) - 1) = lang
    BY <1>1, <2>2, SliceIs
  <2>4. 2 + Len(lang) - 1 = 1 + l
    BY <1>1
  <2>5. QED
    BY <2>3, <2>4, Zenon
<1>9. SubSeq(p, 2 + l, Len(p)) = text
  <2> DEFINE c == 2 + l
  <2>1. c \in Nat /\ \A i \in 1..n : c - 1 + i = (1 + l) + i
    BY <1>1
  <2>2. c + Len(text) - 1 = Len(p)
    BY <1>1, <1>6
  <2> HIDE DEF c
  <2>3. StandsAt(text, p, c)
    BY <1>6, <2>1 DEF StandsAt
  <2>4. SubSeq(p, c, c + Len(text) - 1) = text
    BY <1>1, <2>1, <2>3, SliceIs
  <2>5. QED
    BY <2>2, <2>4, Zenon DEF c
<1>10. ~(Len(p) < 1) /\ ~(Len(p) < 1 + l)
  <2> HIDE DEF l, n
  <2>1. QED
    BY <1>1, <1>6
<1>11. p[1].language = l /\ p[1].utf16 = r.utf16
  BY <1>3, <1>7, Zenon
<1>12. TextOf(p) = <<[Blank EXCEPT !.type = "Text", !.utf16 = p[1].utf16,
                         !.language = SubSeq(p, 2, 1 + p[1].language),
                         !.representation = SubSeq(p, 2 + p[1].language, Len(p))]>>
  BY <1>10, <1>11, Zenon DEF TextOf
<1>13. QED
  BY <1>2, <1>6, <1>8, <1>9, <1>11, <1>12, Zenon DEF lang, text

LEMMA AarReadBack ==
  ASSUME NEW p, IsSequence(p), p # <<>>
  PROVE  AarOf(p) = <<[Blank EXCEPT !.type = "AAR", !.package = p]>>
<1>1. ~(Len(p) < 1)
  <2>1. Len(p) \in Nat
    BY DEF IsSequence
  <2>2. CASE Len(p) = 0
    BY <2>2, Tuples, Equal
  <2>3. QED
    BY <2>1, <2>2
<1>2. QED
  BY <1>1, Zenon DEF AarOf

-----------------------------------------------------------------------------
(***************************************************************************)
(* What is written.                                                        *)
(***************************************************************************)
\* A record of which the fields that are written are there.
Proper(r) ==
  /\ r.type = "Text" => IsSequence(r.language) /\ IsSequence(r.representation)
  /\ r.type = "URI" => IsSequence(r.uri)
  /\ r.type = "AAR" /\ r.package # None => IsSequence(r.package)
  /\ r.type = "type" => IsSequence(r.mime)

TnfOf(r) == IF r.type = "AAR" THEN "external" ELSE "well known"

NameOf(r) ==
  CASE r.type = "Text" -> TextName
    [] r.type = "URI" -> UriName
    [] r.type = "AAR" -> AarName
    [] r.type = "action" -> ActionName
    [] r.type = "size" -> SizeName
    [] OTHER -> MimeName

PayloadOf(r) ==
  CASE r.type = "Text" -> TextPayload(r)
    [] r.type = "URI" -> UriPayload(r.uri)
    [] r.type = "AAR" -> r.package
    [] r.type = "action" -> <<ActionCode(r.action)>>
    [] r.type = "size" -> Number(r.size)
    [] OTHER -> r.mime

\* Every record that is generated at all is made by ndef_message_record_make.
LEMMA PlainMade ==
  ASSUME NEW r, Proper(r), Plain(r, TRUE, TRUE) # Crash
  PROVE  /\ IsSequence(PayloadOf(r))
         /\ \A mb, me : Plain(r, mb, me) = Make(TnfOf(r), <<NameOf(r)>>, PayloadOf(r), mb, me)
<1>1. CASE r.type = "Text"
  <2>1. Len(r.language) <= MaxLanguage
    BY <1>1, Zenon DEF Plain
  <2>2. TnfOf(r) = "well known" /\ NameOf(r) = TextName /\ PayloadOf(r) = TextPayload(r)
    BY <1>1 DEF TnfOf, NameOf, PayloadOf
  <2>3. \A mb, me : Plain(r, mb, me) = Make("well known", TextType, TextPayload(r), mb, me)
    BY <1>1, <2>1 DEF Plain
  <2>4. IsSequence(TextPayload(r))
    BY <1>1, TextReadBack DEF Proper
  <2>5. QED
    BY <2>2, <2>3, <2>4, Zenon DEF TextType
<1>2. CASE r.type = "URI"
  <2>1. TnfOf(r) = "well known" /\ NameOf(r) = UriName /\ PayloadOf(r) = UriPayload(r.uri)
    BY <1>2 DEF TnfOf, NameOf, PayloadOf
  <2>2. \A mb, me : Plain(r, mb, me) = Make("well known", UriType, UriPayload(r.uri), mb, me)
    BY <1>2 DEF Plain
  <2>3. IsSequence(UriPayload(r.uri))
    BY <1>2, UriReadBack DEF Proper
  <2>4. QED
    BY <2>1, <2>2, <2>3, Zenon DEF UriType
<1>3. CASE r.type = "AAR"
  <2>1. r.package # None
    BY <1>3 DEF Plain
  <2>2. TnfOf(r) = "external" /\ NameOf(r) = AarName /\ PayloadOf(r) = r.package
    BY <1>3 DEF TnfOf, NameOf, PayloadOf
  <2>3. \A mb, me : Plain(r, mb, me) = Make("external", AarType, r.package, mb, me)
    BY <1>3, <2>1 DEF Plain
  <2>4. IsSequence(r.package)
    BY <1>3, <2>1 DEF Proper
  <2>5. QED
    BY <2>2, <2>3, <2>4, Zenon DEF AarType
<1>4. CASE r.type = "action"
  <2>1. /\ TnfOf(r) = "well known" /\ NameOf(r) = ActionName
        /\ PayloadOf(r) = <<ActionCode(r.action)>>
    BY <1>4 DEF TnfOf, NameOf, PayloadOf
  <2>2. \A mb, me :
          Plain(r, mb, me) = Make("well known", ActionType, <<ActionCode(r.action)>>, mb, me)
    BY <1>4 DEF Plain
  <2>3. IsSequence(<<ActionCode(r.action)>>)
    BY Tuples
  <2>4. QED
    BY <2>1, <2>2, <2>3, Zenon DEF ActionType
<1>5. CASE r.type = "size"
  <2>1. TnfOf(r) = "well known" /\ NameOf(r) = SizeName /\ PayloadOf(r) = Number(r.size)
    BY <1>5 DEF TnfOf, NameOf, PayloadOf
  <2>2. \A mb, me : Plain(r, mb, me) = Make("well known", SizeType, Number(r.size), mb, me)
    BY <1>5 DEF Plain
  <2>3. IsSequence(Number(r.size))
    BY Tuples DEF Number
  <2>4. QED
    BY <2>1, <2>2, <2>3, Zenon DEF SizeType
<1>6. CASE r.type = "type"
  <2>1. TnfOf(r) = "well known" /\ NameOf(r) = MimeName /\ PayloadOf(r) = r.mime
    BY <1>6 DEF TnfOf, NameOf, PayloadOf
  <2>2. \A mb, me : Plain(r, mb, me) = Make("well known", MimeType, r.mime, mb, me)
    BY <1>6 DEF Plain
  <2>3. IsSequence(r.mime)
    BY <1>6 DEF Proper
  <2>4. QED
    BY <2>1, <2>2, <2>3, Zenon DEF MimeType
<1>7. CASE r.type \notin {"Text", "URI", "AAR", "action", "size", "type"}
  BY <1>7 DEF Plain
<1>8. QED
  BY <1>1, <1>2, <1>3, <1>4, <1>5, <1>6, <1>7

IsFirst(i) == i = 1

IsLast(i, list) == i = Len(list)

\* The records of list, and those that are read of the message they make.
RecordsOf(list) == [i \in DOMAIN list |-> Plain(list[i], i = 1, i = Len(list))]

FrameOfPart(list, i) ==
  FrameOf(TnfOf(list[i]), NameOf(list[i]), PayloadOf(list[i]), IsFirst(i), IsLast(i, list))

LEMMA RecordsAre ==
  ASSUME NEW list, IsSequence(list), \A i \in 1..Len(list) : Proper(list[i]),
         PlainMessage(list) # Crash
  PROVE  /\ PlainMessage(list) = FlattenSeq(RecordsOf(list))
         /\ Len(RecordsOf(list)) = Len(list)
         /\ \A i \in 1..Len(list) :
              /\ IsSequence(PayloadOf(list[i]))
              /\ RecordsOf(list)[i] = Make(TnfOf(list[i]), <<NameOf(list[i])>>, PayloadOf(list[i]),
                                           IsFirst(i), IsLast(i, list))
<1>1. DOMAIN list = 1..Len(list) /\ Len(list) \in Nat
  BY DEF IsSequence
<1>2. /\ ~\E i \in DOMAIN list : Plain(list[i], TRUE, TRUE) = Crash
      /\ PlainMessage(list) = FlattenSeq(RecordsOf(list))
  BY Zenon DEF PlainMessage, RecordsOf
<1>3. Len(RecordsOf(list)) = Len(list)
  <2> DEFINE s == RecordsOf(list)
             n == Len(list)
  <2>1. s = [i \in 1..n |-> s[i]]
    BY <1>1, Zenon DEF RecordsOf
  <2>2. n \in Nat
    BY <1>1
  <2> HIDE DEF s, n
  <2>3. Len(s) = n
    BY <2>1, <2>2, SequenceOfFunction
  <2>4. QED
    BY <2>3 DEF s, n
<1>4. ASSUME NEW i \in 1..Len(list)
      PROVE  /\ IsSequence(PayloadOf(list[i]))
             /\ RecordsOf(list)[i] = Make(TnfOf(list[i]), <<NameOf(list[i])>>, PayloadOf(list[i]),
                                          IsFirst(i), IsLast(i, list))
  <2>1. Proper(list[i]) /\ Plain(list[i], TRUE, TRUE) # Crash
    BY <1>1, <1>2
  <2>2. /\ IsSequence(PayloadOf(list[i]))
        /\ \A mb, me : Plain(list[i], mb, me) =
             Make(TnfOf(list[i]), <<NameOf(list[i])>>, PayloadOf(list[i]), mb, me)
    BY <2>1, PlainMade
  <2>3. RecordsOf(list)[i] = Plain(list[i], IsFirst(i), IsLast(i, list))
    BY <1>1, Zenon DEF RecordsOf, IsFirst, IsLast
  <2>4. QED
    BY <2>2, <2>3, Zenon
<1>5. QED
  BY <1>2, <1>3, <1>4

\* The message of a list of records is decoded into their frames.
LEMMA ListDecoded ==
  ASSUME NEW list, IsSequence(list), Len(list) # 0, \A i \in 1..Len(list) : Proper(list[i]),
         PlainMessage(list) # Crash, FourDigits(Len(PlainMessage(list)))
  PROVE  /\ IsSequence(PlainMessage(list))
         /\ IsSequence(Decode(PlainMessage(list)))
         /\ Len(Decode(PlainMessage(list))) = Len(list)
         /\ \A i \in 1..Len(list) : Decode(PlainMessage(list))[i] = FrameOfPart(list, i)
<1> DEFINE n == Len(list)
           plain == RecordsOf(list)
           fields == [i \in 1..n |-> [tnf |-> TnfOf(list[i]), name |-> NameOf(list[i]),
                                      payload |-> PayloadOf(list[i]),
                                      mb |-> IsFirst(i), me |-> IsLast(i, list)]]
<1>1. n \in Nat /\ n # 0
  BY DEF IsSequence
<1>2. /\ PlainMessage(list) = FlattenSeq(plain) /\ Len(plain) = n
      /\ \A i \in 1..n :
           /\ IsSequence(PayloadOf(list[i]))
           /\ plain[i] = Make(TnfOf(list[i]), <<NameOf(list[i])>>, PayloadOf(list[i]),
                              IsFirst(i), IsLast(i, list))
  BY RecordsAre
<1>3. \A i \in 1..n :
        /\ fields[i].tnf = TnfOf(list[i]) /\ fields[i].name = NameOf(list[i])
        /\ fields[i].payload = PayloadOf(list[i])
        /\ fields[i].mb = IsFirst(i) /\ fields[i].me = IsLast(i, list)
  OBVIOUS
<1> HIDE DEF n, plain, fields
<1>4. Composes(plain, fields, n)
  <2>1. \A i \in 1..n :
          /\ IsSequence(fields[i].payload)
          /\ plain[i] = Make(fields[i].tnf, <<fields[i].name>>, fields[i].payload,
                             fields[i].mb, fields[i].me)
    BY <1>2, <1>3
  <2>2. QED
    BY <1>2, <2>1, Zenon DEF Composes
<1>5. FourDigits(Len(FlattenSeq(plain)))
  BY <1>2, Zenon
<1>6. /\ IsSequence(FlattenSeq(plain))
      /\ IsSequence(Decode(FlattenSeq(plain))) /\ Len(Decode(FlattenSeq(plain))) = n
      /\ \A i \in 1..n : Decode(FlattenSeq(plain))[i] =
           FrameOf(fields[i].tnf, fields[i].name, fields[i].payload, fields[i].mb, fields[i].me)
  BY <1>1, <1>4, <1>5, MessageDecoded
<1>7. \A i \in 1..n : Decode(FlattenSeq(plain))[i] = FrameOfPart(list, i)
  BY <1>3, <1>6 DEF FrameOfPart
<1>8. QED
  BY <1>2, <1>6, <1>7, Zenon DEF n

LEMMA FramedWell ==
  ASSUME NEW list, NEW m, IsSequence(Decode(m)), Len(Decode(m)) = Len(list),
         \A i \in 1..Len(list) : Decode(m)[i] = FrameOfPart(list, i)
  PROVE  WellFramed(m)
<1> DEFINE frames == Decode(m)
<1>1. DOMAIN frames = 1..Len(frames)
  BY DEF IsSequence
<1> HIDE DEF frames
<1>2. ASSUME NEW i \in DOMAIN frames
      PROVE  frames[i].tnf # "cut" /\ frames[i].mb = IsFirst(i) /\ frames[i].me = IsLast(i, frames)
  <2>1. i \in 1..Len(list) /\ frames[i] = FrameOfPart(list, i)
    BY <1>1, <1>2 DEF frames
  <2>2. /\ frames[i].tnf = TnfOf(list[i])
        /\ frames[i].mb = IsFirst(i) /\ frames[i].me = IsLast(i, list)
    BY <2>1 DEF FrameOfPart, FrameOf
  <2>3. TnfOf(list[i]) # "cut"
    BY DEF TnfOf
  <2>4. IsLast(i, list) = IsLast(i, frames)
    BY DEF IsLast, frames
  <2>5. QED
    BY <2>2, <2>3, <2>4
<1>3. QED
  BY <1>2, Zenon DEF WellFramed, frames, IsFirst, IsLast

LEMMA FirstLies ==
  ASSUME NEW list, IsSequence(list), Len(list) # 0, \A i \in 1..Len(list) : Proper(list[i]),
         PlainMessage(list) # Crash
  PROVE  /\ IsSequence(PlainMessage(list))
         /\ Len(RecordsOf(list)[1]) <= Len(PlainMessage(list))
         /\ \A j \in 1..Len(RecordsOf(list)[1]) : PlainMessage(list)[j] = RecordsOf(list)[1][j]
<1> DEFINE n == Len(list)
           plain == RecordsOf(list)
           whole == PlainMessage(list)
           z == Len(plain[1])
<1>1. n \in Nat /\ n # 0
  BY DEF IsSequence
<1>2. whole = FlattenSeq(plain) /\ Len(plain) = n
  BY RecordsAre
<1>3. \A i \in 1..n : IsSequence(plain[i])
  <2>1. \A i \in 1..Len(list) :
          /\ IsSequence(PayloadOf(list[i]))
          /\ plain[i] = Make(TnfOf(list[i]), <<NameOf(list[i])>>, PayloadOf(list[i]),
                             IsFirst(i), IsLast(i, list))
    BY RecordsAre
  <2>2. QED
    BY <2>1, MakeLayout
<1> HIDE DEF n, plain, whole
<1>4. PICK f : Joins(plain, f, n) /\ whole = f[n]
  <2>1. Len(plain) \in Nat /\ Len(plain) > 0
    BY <1>1, <1>2
  <2>2. QED
    BY <1>2, <2>1, FlattenIs
<1>5. LaysOut(plain, f, n)
  BY <1>1, <1>3, <1>4, JoinsLayout
<1>6. /\ IsSequence(whole) /\ 1 + z <= Len(whole) + 1
      /\ \A j \in 1..z : whole[1 - 1 + j] = plain[1][j]
  <2>1. 1 \in 1..n /\ Begin(f, 1) = 1
    BY <1>1 DEF Begin
  <2>2. QED
    BY <1>4, <1>5, <2>1 DEF LaysOut
<1>7. z \in Nat /\ Len(whole) \in Nat
  <2>1. 1 \in 1..n
    BY <1>1
  <2>2. QED
    BY <1>3, <1>6, <2>1 DEF IsSequence
<1> HIDE DEF z
<1>8. z <= Len(whole) /\ \A j \in 1..z : 1 - 1 + j = j
  BY <1>6, <1>7
<1>9. \A j \in 1..z : whole[j] = plain[1][j]
  BY <1>6, <1>8
<1>10. QED
  BY <1>6, <1>8, <1>9 DEF z, plain, whole

UriPart(d) == [Blank EXCEPT !.type = "URI", !.uri = d.uri]

\* A smart poster that is valid has parts, its URI first.
LEMMA PartsAre ==
  ASSUME NEW d \in Dictionaries, d.type = "SmartPoster", Valid(d)
  PROVE  /\ IsSequence(Parts(d)) /\ Len(Parts(d)) # 0
         /\ Parts(d)[1] = UriPart(d)
         /\ \A i \in 1..Len(Parts(d)) : Proper(Parts(d)[i])
<1> DEFINE text == [Blank EXCEPT !.type = "Text", !.language = d.language,
                                 !.representation = d.representation, !.utf16 = d.utf16]
           action == [Blank EXCEPT !.type = "action", !.action = d.action]
           size == [Blank EXCEPT !.type = "size", !.size = d.size]
           mime == [Blank EXCEPT !.type = "type", !.mime = d.mime]
           All == {r \in {UriPart(d), text, action, size, mime} : Proper(r)}
           a == Part(d.uri # None, UriPart(d))
           b == Part(d.representation # None, text)
           c == Part(d.action # None, action)
           e == Part(d.size # 0, size)
           g == Part(d.mime # None, mime)
<1>1. d.uri # None /\ (d.representation # None => d.language # None)
  BY DEF Valid
<1>2. IsString(d.uri) /\ IsString(d.language) /\ IsString(d.representation) /\ IsString(d.mime)
  BY DictionaryAssumption
<1>3. Proper(UriPart(d))
  <2>1. UriPart(d).type = "URI" /\ UriPart(d).uri = d.uri
    BY DEF UriPart, Blank
  <2>2. QED
    BY <1>1, <1>2, <2>1 DEF Proper, IsString
<1>4. d.representation # None => Proper(text)
  <2>1. /\ text.type = "Text" /\ text.language = d.language
        /\ text.representation = d.representation
    BY DEF Blank
  <2> HIDE DEF text
  <2>2. QED
    BY <1>1, <1>2, <2>1 DEF Proper, IsString
<1>5. Proper(action)
  <2>1. action.type = "action"
    BY DEF Blank
  <2> HIDE DEF action
  <2>2. QED
    BY <2>1 DEF Proper
<1>6. Proper(size)
  <2>1. size.type = "size"
    BY DEF Blank
  <2> HIDE DEF size
  <2>2. QED
    BY <2>1 DEF Proper
<1>7. d.mime # None => Proper(mime)
  <2>1. mime.type = "type" /\ mime.mime = d.mime
    BY DEF Blank
  <2> HIDE DEF mime
  <2>2. QED
    BY <1>2, <2>1 DEF Proper, IsString
<1> HIDE DEF text, action, size, mime
<1>8. /\ UriPart(d) \in All /\ (d.representation # None => text \in All)
      /\ action \in All /\ size \in All /\ (d.mime # None => mime \in All)
  BY <1>3, <1>4, <1>5, <1>6, <1>7
<1>9. \A r \in All : Proper(r)
  OBVIOUS
<1> HIDE DEF All
<1>10. ASSUME NEW r, NEW present \in BOOLEAN, present => r \in All
       PROVE  Part(present, r) \in Seq(All)
  <2>1. <<>> \in Seq(All)
    OBVIOUS
  <2>2. r \in All => <<r>> \in Seq(All)
    OBVIOUS
  <2>3. QED
    BY <1>10, <2>1, <2>2 DEF Part
<1>11. a \in Seq(All) /\ a = <<UriPart(d)>>
  BY <1>1, <1>8, <1>10 DEF Part
<1>12. b \in Seq(All) /\ c \in Seq(All) /\ e \in Seq(All) /\ g \in Seq(All)
  <2>1. b \in Seq(All)
    BY <1>8, <1>10
  <2>2. c \in Seq(All)
    BY <1>8, <1>10
  <2>3. e \in Seq(All)
    BY <1>8, <1>10
  <2>4. g \in Seq(All)
    BY <1>8, <1>10
  <2>5. QED
    BY <2>1, <2>2, <2>3, <2>4, Zenon
<1>13. Parts(d) = (((a \o b) \o c) \o e) \o g
  BY Zenon DEF Parts, UriPart, text, action, size, mime
<1> HIDE DEF a, b, c, e, g
<1>14. Len(a) = 1 /\ a[1] = UriPart(d)
  BY <1>11, Tuples
<1>15. ASSUME NEW v, v \in Seq(All), Len(v) > 0, v[1] = UriPart(d), NEW w, w \in Seq(All)
       PROVE  v \o w \in Seq(All) /\ Len(v \o w) > 0 /\ (v \o w)[1] = UriPart(d)
  <2>1. /\ v \o w \in Seq(All) /\ Len(v \o w) = Len(v) + Len(w)
        /\ \A i \in 1..(Len(v) + Len(w)) : (v \o w)[i] = IF i <= Len(v) THEN v[i] ELSE w[i - Len(v)]
    BY <1>15, ConcatProperties
  <2>2. Len(v) \in Nat /\ Len(w) \in Nat
    BY <1>15
  <2>3. 1 \in 1..(Len(v) + Len(w)) /\ 1 <= Len(v)
    BY <1>15, <2>2
  <2>4. QED
    BY <1>15, <2>1, <2>2, <2>3
<1>16. a \o b \in Seq(All) /\ Len(a \o b) > 0 /\ (a \o b)[1] = UriPart(d)
  BY <1>11, <1>12, <1>14, <1>15
<1>17. /\ (a \o b) \o c \in Seq(All) /\ Len((a \o b) \o c) > 0
       /\ ((a \o b) \o c)[1] = UriPart(d)
  BY <1>12, <1>15, <1>16, Zenon
<1>18. /\ ((a \o b) \o c) \o e \in Seq(All) /\ Len(((a \o b) \o c) \o e) > 0
       /\ (((a \o b) \o c) \o e)[1] = UriPart(d)
  BY <1>12, <1>15, <1>17, Zenon
<1>19. Parts(d) \in Seq(All) /\ Len(Parts(d)) > 0 /\ Parts(d)[1] = UriPart(d)
  BY <1>12, <1>13, <1>15, <1>18, Zenon
<1>20. IsSequence(Parts(d))
  BY <1>19, InSequence
<1>21. ASSUME NEW i \in 1..Len(Parts(d))
       PROVE  Proper(Parts(d)[i])
  <2>1. Parts(d)[i] \in All
    BY <1>19
  <2>2. QED
    BY <1>9, <2>1
<1>22. Len(Parts(d)) # 0
  BY <1>19, <1>20 DEF IsSequence
<1>23. QED
  BY <1>19, <1>20, <1>21, <1>22

\* What a client asked for, once it is written, and the one record it became.
Wrote(d) == d \in Dictionaries /\ Valid(d) /\ Generate(d) # Crash

PosterPayload(d) == PlainMessage(Parts(d))

LEMMA LengthIs ==
  ASSUME NEW d, Wrote(d)
  PROVE  FourDigits(Len(Generate(d)))
BY LengthAssumption DEF Wrote, FourDigits

LEMMA SingleAre ==
  ASSUME NEW d, Wrote(d), d.type # "SmartPoster"
  PROVE  LET list == <<d>>
         IN /\ d.type \in {"Text", "URI", "AAR"}
            /\ IsSequence(list) /\ Len(list) = 1 /\ list[1] = d
            /\ Proper(d) /\ \A i \in 1..Len(list) : Proper(list[i])
            /\ Generate(d) = PlainMessage(list) /\ PlainMessage(list) # Crash
<1> DEFINE list == <<d>>
<1>1. IsSequence(list) /\ Len(list) = 1 /\ list[1] = d
  BY Tuples
<1>2. Generate(d) = PlainMessage(list) /\ PlainMessage(list) # Crash
  BY Zenon DEF Wrote, Generate
<1> HIDE DEF list
<1>3. Plain(d, TRUE, TRUE) # Crash
  <2>1. 1 \in DOMAIN list
    BY <1>1 DEF IsSequence
  <2>2. QED
    BY <1>1, <1>2, <2>1, Zenon DEF PlainMessage
<1>4. d.type \in {"Text", "URI", "AAR"}
  <2>1. d.type \in {"Text", "URI", "AAR", "HandoverRequest", "HandoverSelect", "HandoverCarrier"}
    BY DictionaryAssumption DEF Wrote
  <2>2. CASE d.type \in {"HandoverRequest", "HandoverSelect", "HandoverCarrier"}
    BY <1>3, <2>2 DEF Plain
  <2>3. QED
    BY <2>1, <2>2
<1>5. Proper(d)
  <2>1. \A s \in {d.uri, d.language, d.representation, d.mime, d.package} : IsString(s)
    BY DictionaryAssumption DEF Wrote
  <2>2. /\ d.type = "Text" => d.representation # None /\ d.language # None
        /\ d.type = "URI" => d.uri # None
    BY DEF Wrote, Valid
  <2>3. QED
    BY <1>4, <2>1, <2>2 DEF Proper, IsString
<1>6. QED
  BY <1>1, <1>2, <1>4, <1>5 DEF list

LEMMA PosterAre ==
  ASSUME NEW d, Wrote(d), d.type = "SmartPoster"
  PROVE  /\ IsSequence(Parts(d)) /\ Len(Parts(d)) # 0
         /\ Parts(d)[1] = UriPart(d)
         /\ \A i \in 1..Len(Parts(d)) : Proper(Parts(d)[i])
         /\ PosterPayload(d) # Crash /\ IsSequence(PosterPayload(d))
         /\ Generate(d) = Make("well known", <<PosterName>>, PosterPayload(d), TRUE, TRUE)
<1>1. /\ IsSequence(Parts(d)) /\ Len(Parts(d)) # 0
      /\ Parts(d)[1] = UriPart(d)
      /\ \A i \in 1..Len(Parts(d)) : Proper(Parts(d)[i])
  BY PartsAre DEF Wrote
<1>2. /\ PosterPayload(d) # Crash
      /\ Generate(d) = Make("well known", <<PosterName>>, PosterPayload(d), TRUE, TRUE)
  BY Zenon DEF Wrote, Generate, PosterPayload, PosterType
<1>3. IsSequence(PosterPayload(d))
  BY <1>1, <1>2, FirstLies DEF PosterPayload
<1>4. QED
  BY <1>1, <1>2, <1>3

\* A message of one plain record is of the format.
LEMMA SingleWellFramed ==
  ASSUME NEW d, Wrote(d), d.type # "SmartPoster"
  PROVE  /\ WellFramed(Generate(d))
         /\ Len(Decode(Generate(d))) = 1
         /\ Decode(Generate(d))[1].type # PosterType
<1> DEFINE list == <<d>>
           m == Generate(d)
<1>1. /\ d.type \in {"Text", "URI", "AAR"}
      /\ IsSequence(list) /\ Len(list) = 1 /\ list[1] = d
      /\ \A i \in 1..Len(list) : Proper(list[i])
      /\ m = PlainMessage(list) /\ PlainMessage(list) # Crash
  BY SingleAre, Zenon
<1>2. FourDigits(Len(PlainMessage(list)))
  BY <1>1, LengthIs, Zenon
<1> HIDE DEF list
<1>3. /\ IsSequence(Decode(PlainMessage(list)))
      /\ Len(Decode(PlainMessage(list))) = Len(list)
      /\ \A i \in 1..Len(list) : Decode(PlainMessage(list))[i] = FrameOfPart(list, i)
  BY <1>1, <1>2, ListDecoded
<1>4. WellFramed(m)
  BY <1>1, <1>3, FramedWell, Zenon
<1>5. Decode(m)[1] = FrameOfPart(list, 1)
  BY <1>1, <1>3
<1>6. Decode(m)[1].type = <<NameOf(d)>>
  BY <1>1, <1>5 DEF FrameOfPart, FrameOf
<1>7. NameOf(d) \in {TextName, UriName, AarName}
  BY <1>1 DEF NameOf
<1>8. <<NameOf(d)>> # PosterType
  <2>1. NameOf(d) # PosterName
    BY <1>7, NamesAssumption
  <2>2. <<NameOf(d)>>[1] = NameOf(d) /\ PosterType[1] = PosterName
    BY DEF PosterType
  <2>3. QED
    BY <2>1, <2>2, Zenon
<1>9. QED
  BY <1>1, <1>3, <1>4, <1>6, <1>8

\* m is the message of one record.
IsMade(m, tnf, name, p, mb, me) == m = Make(tnf, <<name>>, p, mb, me)

OneFrame(frames, tnf, p, mb, me) ==
  /\ IsSequence(frames) /\ Len(frames) = 1
  /\ frames[1].tnf = tnf /\ frames[1].payload = p
  /\ frames[1].mb = mb /\ frames[1].me = me

\* A message of one record is decoded into its frame.
LEMMA OneDecoded ==
  ASSUME NEW m, NEW tnf, NEW name, NEW p, NEW mb, NEW me, IsSequence(p),
         IsMade(m, tnf, name, p, mb, me), FourDigits(Len(m))
  PROVE  OneFrame(Decode(m), tnf, p, mb, me) /\ FourDigits(Len(p))
<1> DEFINE single == <<m>>
           n == 1
           fields == [i \in 1..n |-> [tnf |-> tnf, name |-> name, payload |-> p,
                                      mb |-> mb, me |-> me]]
<1>1. Len(single) = n /\ \A i \in 1..n : single[i] = m
  <2>1. \A i \in 1..n : i = 1
    OBVIOUS
  <2>2. QED
    BY <2>1, Tuples
<1>2. \A i \in 1..n :
        /\ fields[i].tnf = tnf /\ fields[i].name = name /\ fields[i].payload = p
        /\ fields[i].mb = mb /\ fields[i].me = me
  OBVIOUS
<1>3. n \in Nat /\ n # 0 /\ 1 \in 1..n /\ n = 1
  OBVIOUS
<1>4. m = Make(tnf, <<name>>, p, mb, me)
  BY DEF IsMade
<1> HIDE DEF single, fields, n
<1>5. FlattenSeq(single) = m
  BY <1>1, <1>3, FlattenOne
<1>6. Composes(single, fields, n)
  <2>1. \A i \in 1..n :
          /\ IsSequence(fields[i].payload)
          /\ single[i] = Make(fields[i].tnf, <<fields[i].name>>, fields[i].payload,
                              fields[i].mb, fields[i].me)
    BY <1>4, <1>1, <1>2
  <2>2. QED
    BY <1>1, <2>1, Zenon DEF Composes
<1>7. FourDigits(Len(FlattenSeq(single)))
  BY <1>5
<1>8. /\ IsSequence(Decode(FlattenSeq(single))) /\ Len(Decode(FlattenSeq(single))) = n
      /\ \A i \in 1..n : Decode(FlattenSeq(single))[i] =
           FrameOf(fields[i].tnf, fields[i].name, fields[i].payload, fields[i].mb, fields[i].me)
  <2>1. n \in Nat /\ n # 0
    BY <1>3
  <2>2. QED
    BY <1>6, <1>7, <2>1, MessageDecoded
<1>9. /\ IsSequence(Decode(m)) /\ Len(Decode(m)) = 1
      /\ Decode(m)[1] = FrameOf(tnf, name, p, mb, me)
  BY <1>2, <1>3, <1>5, <1>8
<1>10. FourDigits(Len(p))
  <2> DEFINE l == Len(p)
             w == Len(m)
             K == Byte * Byte * Byte * Byte
  <2>1. w = FrameLength(p)
    BY <1>4, MakeLayout
  <2>2. l \in Nat
    BY DEF IsSequence
  <2>3. w > l /\ w \in Nat
    BY <2>1, <2>2 DEF FrameLength, HeaderLength
  <2>4. K \in Nat
    BY NdefAssumption, SMTT(30)
  <2>5. w < K
    BY DEF FourDigits
  <2> HIDE DEF l, w, K
  <2>6. l < K
    BY <2>2, <2>3, <2>4, <2>5
  <2>7. QED
    BY <2>6 DEF FourDigits, l, K
<1>11. QED
  BY <1>9, <1>10 DEF FrameOf, OneFrame

\* So is the message of a smart poster, and what is in it.
LEMMA PosterWellFramed ==
  ASSUME NEW d, Wrote(d), d.type = "SmartPoster"
  PROVE  /\ WellFramed(Generate(d))
         /\ Len(Decode(Generate(d))) = 1
         /\ WellFramed(Decode(Generate(d))[1].payload)
<1> DEFINE whole == Generate(d)
           inner == PosterPayload(d)
           list == Parts(d)
           frames == Decode(whole)
<1>1. /\ IsSequence(list) /\ Len(list) # 0
      /\ \A i \in 1..Len(list) : Proper(list[i])
      /\ inner # Crash /\ IsSequence(inner)
      /\ whole = Make("well known", <<PosterName>>, inner, TRUE, TRUE)
  BY PosterAre
<1>2. FourDigits(Len(whole))
  BY LengthIs
<1>3. inner = PlainMessage(list)
  BY DEF PosterPayload
<1> HIDE DEF whole, inner, list
<1>4. /\ IsSequence(frames) /\ Len(frames) = 1
      /\ frames[1].tnf = "well known" /\ frames[1].payload = inner
      /\ frames[1].mb = TRUE /\ frames[1].me = TRUE
      /\ FourDigits(Len(inner))
  <2>1. IsMade(whole, "well known", PosterName, inner, TRUE, TRUE)
    BY <1>1, Zenon DEF IsMade
  <2>2. OneFrame(frames, "well known", inner, TRUE, TRUE) /\ FourDigits(Len(inner))
    BY <1>1, <1>2, <2>1, OneDecoded
  <2>3. QED
    BY <2>2, Zenon DEF OneFrame
<1>5. WellFramed(whole)
  <2>1. DOMAIN frames = 1..1
    BY <1>4 DEF IsSequence
  <2>2. "well known" # "cut"
    OBVIOUS
  <2> HIDE DEF frames
  <2>3. ASSUME NEW i \in DOMAIN frames
        PROVE  frames[i].tnf # "cut" /\ frames[i].mb = (i = 1) /\ frames[i].me = (i = Len(frames))
    <3>1. i = 1
      BY <2>1
    <3>2. (i = 1) = TRUE /\ (i = Len(frames)) = TRUE
      BY <1>4, <3>1
    <3>3. QED
      BY <1>4, <2>2, <3>1, <3>2, Zenon
  <2>4. QED
    BY <2>3, Zenon DEF WellFramed, frames
<1>6. WellFramed(inner)
  <2>1. PlainMessage(list) # Crash /\ FourDigits(Len(PlainMessage(list)))
    BY <1>1, <1>3, <1>4, Zenon
  <2>2. /\ IsSequence(Decode(PlainMessage(list)))
        /\ Len(Decode(PlainMessage(list))) = Len(list)
        /\ \A i \in 1..Len(list) : Decode(PlainMessage(list))[i] = FrameOfPart(list, i)
    BY <1>1, <2>1, ListDecoded
  <2>3. QED
    BY <1>3, <2>2, FramedWell, Zenon
<1>7. QED
  BY <1>4, <1>5, <1>6, Zenon DEF whole

\* Both kinds of message are those that are written.
LEMMA GeneratedWellFramed ==
  ASSUME MessageIsWhatWasAsked
  PROVE  GeneratedMessagesAreWellFramed
<1> SUFFICES ASSUME phase = "written"
             PROVE  /\ WellFramed(message)
                    /\ Len(Decode(message)) = 1
                    /\ Decode(message)[1].type = PosterType => WellFramed(Decode(message)[1].payload)
  BY Zenon DEF GeneratedMessagesAreWellFramed
<1>1. Wrote(asked) /\ message = Generate(asked)
  BY DEF MessageIsWhatWasAsked, Wrote
<1>2. CASE asked.type = "SmartPoster"
  BY <1>1, <1>2, PosterWellFramed
<1>3. CASE asked.type # "SmartPoster"
  BY <1>1, <1>3, SingleWellFramed
<1>4. QED
  BY <1>2, <1>3

-----------------------------------------------------------------------------
(***************************************************************************)
(* What is read back of what is written.                                   *)
(***************************************************************************)
\* What is read of a message of one record, the parts of which read reads.
ReadAs(m, read, tnf, name, p) ==
  /\ Reads(m, read)
  /\ Parse(m) = RecordOf(tnf, <<name>>, p, Message(m, read, 5, 4 + Len(p)))

\* The one record of a short message is read.
LEMMA MadeRead ==
  ASSUME NEW m, NEW tnf, NEW name, NEW p, NEW mb, NEW me, mb = TRUE, IsSequence(p),
         IsMade(m, tnf, name, p, mb, me), FourDigits(Len(m)), Short(m)
  PROVE  /\ IsSequence(m) /\ Len(m) = 4 + Len(p) /\ Len(p) < Byte
         /\ \A j \in 1..Len(p) : m[4 + j] = p[j]
         /\ \E read : ReadAs(m, read, tnf, name, p)
<1> DEFINE l == Len(p)
           short == Len(p) < Byte
<1>1. l \in Nat
  BY DEF IsSequence
<1>2. m = Make(tnf, <<name>>, p, mb, me)
  BY Zenon DEF IsMade
<1>3. IsSequence(m) /\ Len(m) = FrameLength(p) /\ FourDigits(l)
  <2>1. IsSequence(m) /\ Len(m) = FrameLength(p)
    BY <1>2, MakeLayout, Zenon
  <2>2. FourDigits(l)
    BY OneDecoded
  <2>3. QED
    BY <2>1, <2>2
<1>4. FrameAt(m, 1, tnf, name, p, mb, me)
  BY <1>2, <1>3, MakeLayout, Zenon
<1>5. m[1].mb = mb /\ m[1].sr = short
  <2> DEFINE x == m[1]
  <2>1. x = [mb |-> mb, me |-> me, sr |-> short, il |-> FALSE, tnf |-> tnf]
    BY <1>4, Zenon DEF FrameAt
  <2> HIDE DEF x, short
  <2>2. x.mb = mb /\ x.sr = short
    BY <2>1, Zenon
  <2>3. QED
    BY <2>2, Zenon DEF x
<1>6. short
  BY <1>5, Zenon DEF Short
<1>7. HeaderLength(p) = 3
  BY <1>6 DEF HeaderLength
<1>8. \A j \in 1..l : m[4 + j] = p[j]
  <2>1. \A j \in 1..l : m[1 + HeaderLength(p) + j] = p[j]
    BY <1>4, Zenon DEF FrameAt
  <2> HIDE DEF l
  <2>2. \A j \in 1..l : 1 + 3 + j = 4 + j
    BY <1>1
  <2>3. QED
    BY <1>7, <2>1, <2>2
<1> HIDE DEF l, short
<1>9. Len(m) = 4 + l
  BY <1>1, <1>3, <1>7 DEF FrameLength, l
<1>10. PICK read : Reads(m, read) /\ Parse(m) = Message(m, read, 1, Len(m))
  BY <1>3, ParseIs
<1>11. Parse(m) = read[<<1, Len(m)>>]
  <2>1. ~(Len(m) <= 1)
    BY <1>1, <1>9
  <2>2. m[1].mb
    BY <1>5, Zenon
  <2>3. QED
    BY <1>10, <2>1, <2>2, Zenon DEF Message
<1>12. read[<<1, Len(m)>>] = RecordOf(tnf, <<name>>, p, Message(m, read, 5, 4 + Len(p)))
  <2> DEFINE c == 1
             last == Len(m)
  <2>1. /\ c \in 1..(Len(m) + 1) /\ last \in 0..Len(m) /\ c + 3 + Len(p) <= last
        /\ c + 4 = 5 /\ c + 3 + Len(p) = 4 + Len(p)
    BY <1>1, <1>9 DEF l
  <2>2. Len(p) < Byte /\ FrameAt(m, c, tnf, name, p, mb, me)
    BY <1>4, <1>6 DEF short
  <2> HIDE DEF c, last
  <2>3. ShortFrameAt(m, c, last, tnf, name, p, mb, me)
    BY <2>1, <2>2, Zenon DEF ShortFrameAt
  <2>4. IsRead(m, read, c, last, tnf, name, p)
    <3>1. IsSequence(m) /\ Reads(m, read)
      BY <1>3, <1>10
    <3>2. QED
      BY <2>3, <3>1, FrameRead
  <2>5. QED
    BY <2>1, <2>4, Zenon DEF c, last, IsRead
<1>13. ReadAs(m, read, tnf, name, p)
  BY <1>10, <1>11, <1>12, Zenon DEF ReadAs
<1>14. QED
  BY <1>3, <1>6, <1>8, <1>9, <1>13, Zenon DEF l, short

\* A plain record written short is read back as it was meant.
LEMMA SingleReadBack ==
  ASSUME NEW d, Wrote(d), d.type # "SmartPoster", Short(Generate(d)), ~NamesNothing(d)
  PROVE  Parse(Generate(d)) = <<Meant(d)>>
<1> DEFINE list == <<d>>
           whole == Generate(d)
           payload == PayloadOf(d)
<1>1. /\ d.type \in {"Text", "URI", "AAR"} /\ Proper(d)
      /\ IsSequence(list) /\ Len(list) = 1 /\ list[1] = d
      /\ \A i \in 1..Len(list) : Proper(list[i])
      /\ whole = PlainMessage(list) /\ PlainMessage(list) # Crash
  BY SingleAre, Zenon
<1> HIDE DEF list, whole
<1>2. /\ whole = FlattenSeq(RecordsOf(list)) /\ Len(RecordsOf(list)) = 1
      /\ IsSequence(payload)
      /\ RecordsOf(list)[1] = Make(TnfOf(d), <<NameOf(d)>>, payload, IsFirst(1), IsLast(1, list))
  <2>1. 1 \in 1..Len(list)
    BY <1>1
  <2>2. QED
    BY <1>1, <2>1, RecordsAre
<1>3. whole = RecordsOf(list)[1]
  BY <1>2, FlattenOne
<1>4. IsFirst(1) = TRUE
  BY DEF IsFirst
<1>5. IsMade(whole, TnfOf(d), NameOf(d), payload, IsFirst(1), IsLast(1, list))
  BY <1>2, <1>3, Zenon DEF IsMade
<1>6. FourDigits(Len(whole)) /\ Short(whole)
  BY LengthIs DEF whole
<1>7. PICK read :
        Parse(whole) = RecordOf(TnfOf(d), <<NameOf(d)>>, payload,
                                Message(whole, read, 5, 4 + Len(payload)))
  <2>1. \E read : ReadAs(whole, read, TnfOf(d), NameOf(d), payload)
    <3>1. IsSequence(payload)
      BY <1>2
    <3>2. QED
      BY <1>4, <1>5, <1>6, <3>1, MadeRead, Zenon
  <2>2. QED
    BY <2>1, Zenon DEF ReadAs
<1>8. CASE d.type = "Text"
  <2>1. TnfOf(d) = "well known" /\ <<NameOf(d)>> = TextType /\ payload = TextPayload(d)
    BY <1>8 DEF TnfOf, NameOf, PayloadOf, TextType
  <2>2. Parse(whole) = TextOf(TextPayload(d))
    BY <1>7, <2>1, TypesDiffer DEF RecordOf
  <2>3. TextOf(TextPayload(d)) =
          <<[Blank EXCEPT !.type = "Text", !.utf16 = d.utf16, !.language = d.language,
                          !.representation = d.representation]>>
    BY <1>1, <1>8, TextReadBack DEF Proper
  <2>4. Meant(d) = [Blank EXCEPT !.type = "Text", !.utf16 = d.utf16, !.language = d.language,
                                 !.representation = d.representation]
    BY <1>8 DEF Meant, Blank
  <2>5. QED
    BY <2>2, <2>3, <2>4, Zenon DEF whole
<1>9. CASE d.type = "URI"
  <2>1. TnfOf(d) = "well known" /\ <<NameOf(d)>> = UriType /\ payload = UriPayload(d.uri)
    BY <1>9 DEF TnfOf, NameOf, PayloadOf, UriType
  <2>2. Parse(whole) = UriOf(UriPayload(d.uri))
    BY <1>7, <2>1, TypesDiffer DEF RecordOf
  <2>3. UriOf(UriPayload(d.uri)) = <<[Blank EXCEPT !.type = "URI", !.uri = d.uri]>>
    BY <1>1, <1>9, UriReadBack DEF Proper
  <2>4. Meant(d) = [Blank EXCEPT !.type = "URI", !.uri = d.uri]
    BY <1>9 DEF Meant
  <2>5. QED
    BY <2>2, <2>3, <2>4, Zenon DEF whole
<1>10. CASE d.type = "AAR"
  <2>1. TnfOf(d) = "external" /\ <<NameOf(d)>> = AarType /\ payload = d.package
    BY <1>10 DEF TnfOf, NameOf, PayloadOf, AarType
  <2>2. Parse(whole) = AarOf(d.package)
    BY <1>7, <2>1 DEF RecordOf
  <2>3. d.package # <<>>
    BY <1>10 DEF NamesNothing
  <2>4. AarOf(d.package) = <<[Blank EXCEPT !.type = "AAR", !.package = d.package]>>
    BY <1>2, <2>1, <2>3, AarReadBack
  <2>5. Meant(d) = [Blank EXCEPT !.type = d.type, !.package = d.package]
    BY <1>10 DEF Meant
  <2>6. QED
    BY <1>10, <2>2, <2>4, <2>5, Zenon DEF whole
<1>11. QED
  BY <1>1, <1>8, <1>9, <1>10

\* A part of what has a length of four bytes has one.
LEMMA ShorterFits ==
  ASSUME NEW a \in Nat, NEW b \in Nat, a <= b, FourDigits(b)
  PROVE  FourDigits(a)
<1> DEFINE K == Byte * Byte * Byte * Byte
<1>1. K \in Nat /\ b < K
  <2>1. K \in Nat
    BY NdefAssumption, SMTT(30)
  <2>2. QED
    BY <2>1 DEF FourDigits
<1> HIDE DEF K
<1>2. a < K
  BY <1>1
<1>3. QED
  BY <1>2 DEF FourDigits, K

LEMMA UriPartIs ==
  ASSUME NEW d
  PROVE  /\ UriPart(d).type = "URI" /\ UriPart(d).uri = d.uri
         /\ TnfOf(UriPart(d)) = "well known" /\ NameOf(UriPart(d)) = UriName
         /\ PayloadOf(UriPart(d)) = UriPayload(d.uri)
<1>1. UriPart(d).type = "URI" /\ UriPart(d).uri = d.uri
  BY DEF UriPart, Blank
<1>2. QED
  BY <1>1 DEF TnfOf, NameOf, PayloadOf

\* Of a smart poster written short its first part, the URI, is read.
LEMMA PosterReadBack ==
  ASSUME NEW d, Wrote(d), d.type = "SmartPoster", Short(Generate(d))
  PROVE  Parse(Generate(d)) = PosterOf(<<UriPart(d)>>)
<1> DEFINE whole == Generate(d)
           inner == PosterPayload(d)
           list == Parts(d)
           uri == UriPayload(d.uri)
           l == Len(inner)
           u == Len(uri)
           one == RecordsOf(list)[1]
           first == IsFirst(1)
           last == IsLast(1, list)
           end == 4 + l
           z == Len(one)
           w == Len(whole)
<1>1. /\ IsSequence(list) /\ Len(list) # 0 /\ list[1] = UriPart(d)
      /\ \A i \in 1..Len(list) : Proper(list[i])
      /\ inner # Crash /\ IsSequence(inner)
      /\ whole = Make("well known", <<PosterName>>, inner, TRUE, TRUE)
  BY PosterAre
<1>2. FourDigits(Len(whole)) /\ Short(whole)
  BY LengthIs
<1>3. inner = PlainMessage(list)
  BY DEF PosterPayload
<1>4. first = TRUE
  BY DEF IsFirst
<1> HIDE DEF whole, inner, list, uri, first, last
<1>5. /\ IsSequence(whole) /\ Len(whole) = 4 + l /\ l < Byte
      /\ \A j \in 1..l : whole[4 + j] = inner[j]
      /\ \E read : ReadAs(whole, read, "well known", PosterName, inner)
  <2>1. IsMade(whole, "well known", PosterName, inner, TRUE, TRUE)
    BY <1>1, Zenon DEF IsMade
  <2>2. IsSequence(inner)
    BY <1>1
  <2>3. QED
    BY <1>2, <2>1, <2>2, MadeRead, Zenon
<1>6. PICK read : ReadAs(whole, read, "well known", PosterName, inner)
  BY <1>5
<1>7. /\ Reads(whole, read)
      /\ Parse(whole) = RecordOf("well known", PosterType, inner, Message(whole, read, 5, end))
  BY <1>6, Zenon DEF ReadAs, PosterType
<1>8. Parse(whole) = PosterOf(Message(whole, read, 5, end))
  <2> DEFINE parts == Message(whole, read, 5, end)
  <2>1. Parse(whole) = RecordOf("well known", PosterType, inner, parts)
    BY <1>7, Zenon
  <2> HIDE DEF parts
  <2>2. Parse(whole) = PosterOf(parts)
    BY <2>1, TypesDiffer DEF RecordOf
  <2>3. QED
    BY <2>2, Zenon DEF parts
<1>9. 1 \in 1..Len(list)
  <2>1. Len(list) \in Nat
    BY <1>1, Zenon DEF IsSequence
  <2>2. Len(list) # 0
    BY <1>1, Zenon
  <2>3. QED
    BY <2>1, <2>2
<1>10. /\ IsSequence(uri)
      /\ one = Make("well known", <<UriName>>, uri, first, last)
      /\ z <= l /\ \A j \in 1..z : inner[j] = one[j]
  <2>1. PlainMessage(list) # Crash
    BY <1>1, <1>3
  <2>2. 1 \in 1..Len(list)
    BY <1>9
  <2>3. /\ IsSequence(PayloadOf(list[1]))
        /\ one = Make(TnfOf(list[1]), <<NameOf(list[1])>>, PayloadOf(list[1]), first, last)
    BY <1>1, <2>1, <2>2, RecordsAre DEF first, last
  <2>4. TnfOf(list[1]) = "well known" /\ NameOf(list[1]) = UriName /\ PayloadOf(list[1]) = uri
    BY <1>1, UriPartIs DEF uri
  <2>5. Len(one) <= Len(PlainMessage(list))
        /\ \A j \in 1..Len(one) : PlainMessage(list)[j] = one[j]
    BY <1>1, <2>1, FirstLies
  <2>6. QED
    BY <1>3, <2>3, <2>4, <2>5, Zenon
<1> HIDE DEF one
<1>11. u > 0 /\ UriOf(UriPayload(d.uri)) = <<[Blank EXCEPT !.type = "URI", !.uri = d.uri]>>
  <2>1. Proper(list[1]) /\ list[1] = UriPart(d)
    BY <1>1, <1>9, Zenon
  <2>2. IsSequence(d.uri)
    BY <2>1, UriPartIs DEF Proper
  <2>3. QED
    BY <2>2, UriReadBack, Zenon DEF uri
<1>12. l \in Nat /\ u \in Nat /\ w = 4 + l /\ l < Byte /\ z <= l
  <2>1. l \in Nat
    BY <1>1, Zenon DEF IsSequence
  <2>2. u \in Nat
    BY <1>10, Zenon DEF IsSequence
  <2>3. QED
    BY <1>5, <1>10, <2>1, <2>2, Zenon
<1>13. z = FrameLength(uri)
  BY <1>10, MakeLayout, Zenon
<1> HIDE DEF z, w
<1>14. u < Byte /\ FrameLength(uri) = 4 + u /\ 4 + u <= l
  <2> DEFINE B == Byte
             k == HeaderLength(uri)
  <2>1. k \in {3, 6} /\ (u < B => k = 3) /\ FrameLength(uri) = k + 1 + u
    BY DEF FrameLength, HeaderLength
  <2>2. B \in Nat /\ l < B
    BY <1>12, NdefAssumption
  <2> HIDE DEF l, u, B, k
  <2>3. u < B
    BY <1>12, <1>13, <2>1, <2>2
  <2>4. FrameLength(uri) = 4 + u /\ 4 + u <= l
    BY <1>12, <1>13, <2>1, <2>3
  <2>5. QED
    BY <2>3, <2>4 DEF B
<1>15. FourDigits(u)
  <2> HIDE DEF l, u
  <2>1. u <= w /\ w \in Nat
    BY <1>12, <1>14
  <2>2. FourDigits(w)
    BY <1>2 DEF w
  <2>3. QED
    BY <1>12, <2>1, <2>2, ShorterFits
<1>16. FrameAt(one, 1, "well known", UriName, uri, first, last)
  BY <1>10, <1>15, MakeLayout, Zenon
<1>17. FrameAt(whole, 5, "well known", UriName, uri, first, last)
  <2>1. \A j \in 1..FrameLength(uri) : whole[4 + j] = one[j]
    <3>1. \A j \in 1..l : whole[4 + j] = inner[j]
      BY <1>5, Zenon
    <3>2. \A j \in 1..z : inner[j] = one[j]
      BY <1>10, Zenon
    <3> HIDE DEF l, u
    <3>3. \A j \in 1..FrameLength(uri) : j \in 1..z /\ j \in 1..l
      BY <1>12, <1>13, <1>14
    <3>4. QED
      BY <3>1, <3>2, <3>3
  <2>2. 4 \in Nat /\ 4 + 1 = 5
    OBVIOUS
  <2>3. FrameAt(whole, 4 + 1, "well known", UriName, uri, first, last)
    <3>1. IsSequence(uri)
      BY <1>10
    <3>2. QED
      BY <1>16, <2>1, <2>2, <3>1, FrameMoved, Zenon
  <2>4. QED
    BY <2>2, <2>3, Zenon
<1>18. /\ 5 \in 1..(Len(whole) + 1) /\ end \in 0..Len(whole)
       /\ 5 + 3 + u <= end /\ ~(end <= 5)
  <2> HIDE DEF u, l
  <2>1. /\ 5 \in 1..(w + 1) /\ end \in 0..w
        /\ 5 + 3 + u <= end /\ ~(end <= 5)
    BY <1>12, <1>14, <1>11
  <2>2. QED
    BY <2>1 DEF w
<1> HIDE DEF end
<1>19. IsRead(whole, read, 5, end, "well known", UriName, uri)
  <2>1. ShortFrameAt(whole, 5, end, "well known", UriName, uri, first, last)
    BY <1>10, <1>14, <1>17, <1>18, Zenon DEF ShortFrameAt
  <2>2. IsSequence(whole) /\ Reads(whole, read)
    BY <1>5, <1>7
  <2>3. QED
    BY <2>1, <2>2, FrameRead
<1>20. read[<<5, end>>] = <<UriPart(d)>>
  <2>1. read[<<5, end>>] = UriOf(uri)
    <3>1. read[<<5, end>>] = RecordOf("well known", UriType, uri,
                                      Message(whole, read, 5 + 4, 5 + 3 + Len(uri)))
      BY <1>19, Zenon DEF IsRead, UriType
    <3>2. QED
      BY <3>1, TypesDiffer DEF RecordOf
  <2>2. UriOf(uri) = <<UriPart(d)>>
    BY <1>11, Zenon DEF uri, UriPart
  <2>3. QED
    BY <2>1, <2>2
<1>21. whole[5].mb
  <2> DEFINE x == whole[5]
             short == Len(uri) < Byte
  <2>1. x = [mb |-> first, me |-> last, sr |-> short, il |-> FALSE, tnf |-> "well known"]
    BY <1>17, Zenon DEF FrameAt
  <2> HIDE DEF x, short
  <2>2. x.mb = first
    BY <2>1, Zenon
  <2>3. QED
    BY <1>4, <2>2, Zenon DEF x
<1>22. Message(whole, read, 5, end) = <<UriPart(d)>>
  BY <1>18, <1>20, <1>21, Zenon DEF Message
<1>23. QED
  BY <1>8, <1>22, Zenon DEF whole

\* What a poster says with this URI, language and text.
Back(uri, language, text) ==
  [Blank EXCEPT !.uri = uri, !.language = language, !.representation = text]

LEMMA PosterOfUri ==
  ASSUME NEW d
  PROVE  \E r : /\ PosterOf(<<UriPart(d)>>) = <<r>>
                /\ r.type = "SmartPoster" /\ r.uri = d.uri
                /\ r.representation = None /\ r.language = None
<1> DEFINE list == <<UriPart(d)>>
           Of(type)    == {i \in DOMAIN list : list[i].type = type}
           First(type) == list[CHOOSE i \in Of(type) : \A j \in Of(type) : i <= j]
           text        == IF Of("Text") = {} THEN Blank ELSE First("Text")
           made == Back(First("URI").uri, text.language, text.representation)
<1>1. PosterOf(list) = IF Of("URI") = {} THEN <<>> ELSE <<made>>
  BY Zenon DEF PosterOf, Back
<1>2. DOMAIN list = 1..1 /\ list[1].type = "URI" /\ list[1].uri = d.uri
  <2>1. IsSequence(list) /\ Len(list) = 1 /\ list[1] = UriPart(d)
    BY Tuples
  <2>2. QED
    BY <2>1, UriPartIs DEF IsSequence
<1> HIDE DEF list
<1>3. Of("URI") = {1} /\ Of("Text") = {}
  BY <1>2
<1>4. First("URI") = list[1]
  <2> HIDE DEF Of
  <2>1. (CHOOSE i \in Of("URI") : \A j \in Of("URI") : i <= j) = 1
    BY <1>3
  <2>2. QED
    BY <2>1
<1>5. text = Blank
  BY <1>3
<1> HIDE DEF First, text, Of
<1>6. /\ made.type = "SmartPoster" /\ made.uri = d.uri
      /\ made.representation = None /\ made.language = None
  <2>1. First("URI").uri = d.uri /\ text.language = None /\ text.representation = None
    BY <1>2, <1>4, <1>5 DEF Blank
  <2>2. ASSUME NEW x, NEW y, NEW z
        PROVE  /\ Back(x, y, z).type = "SmartPoster" /\ Back(x, y, z).uri = x
               /\ Back(x, y, z).language = y /\ Back(x, y, z).representation = z
    BY DEF Blank, Back
  <2> DEFINE u == First("URI").uri
             l == text.language
             t == text.representation
  <2>3. made = Back(u, l, t)
    OBVIOUS
  <2>4. u = d.uri /\ l = None /\ t = None
    BY <2>1
  <2> HIDE DEF made, u, l, t
  <2>5. QED
    BY <2>2, <2>3, <2>4
<1> HIDE DEF made
<1>7. PosterOf(list) = <<made>>
  BY <1>1, <1>3
<1>8. QED
  BY <1>6, <1>7, Zenon DEF list

\* Hence what was written short is read back.
LEMMA WrittenReadBack ==
  ASSUME MessageIsWhatWasAsked
  PROVE  WrittenIsReadBack
<1> SUFFICES ASSUME phase = "read", Short(message), ~NamesNothing(asked)
             PROVE  /\ Len(records) = 1
                    /\ IF asked.type = "SmartPoster" THEN Agrees(records[1], asked)
                       ELSE records[1] = Meant(asked)
  BY Zenon DEF WrittenIsReadBack
<1>1. Wrote(asked) /\ message = Generate(asked) /\ records = Parse(message)
  BY DEF MessageIsWhatWasAsked, Wrote
<1>2. CASE asked.type = "SmartPoster"
  <2>1. records = PosterOf(<<UriPart(asked)>>)
    BY <1>1, <1>2, PosterReadBack
  <2>2. PICK r : /\ PosterOf(<<UriPart(asked)>>) = <<r>>
                 /\ r.type = "SmartPoster" /\ r.uri = asked.uri
                 /\ r.representation = None /\ r.language = None
    BY PosterOfUri
  <2>3. records = <<r>>
    BY <2>1, <2>2, Zenon
  <2>4. Len(records) = 1 /\ records[1] = r
    BY <2>3, Tuples
  <2>5. Agrees(r, asked)
    BY <1>2, <2>2 DEF Agrees
  <2>6. QED
    BY <1>2, <2>4, <2>5
<1>3. CASE asked.type # "SmartPoster"
  <2>1. records = <<Meant(asked)>>
    BY <1>1, <1>3, SingleReadBack
  <2>2. Len(records) = 1 /\ records[1] = Meant(asked)
    BY <2>1, Tuples
  <2>3. QED
    BY <1>3, <2>2
<1>4. QED
  BY <1>2, <1>3

-----------------------------------------------------------------------------
(***************************************************************************)
(* The theorems.                                                           *)
(***************************************************************************)
\* Nothing has been written at first.
LEMMA AskedInit ==
  ASSUME Init
  PROVE  MessageIsWhatWasAsked
BY DEF Init, MessageIsWhatWasAsked

\* Writing makes the message of what was asked for, reading its records.
LEMMA AskedStep ==
  ASSUME MessageIsWhatWasAsked, [Next]_vars
  PROVE  MessageIsWhatWasAsked'
<1>1. ASSUME NEW d \in Dictionaries, Write(d)
      PROVE  MessageIsWhatWasAsked'
  <2>1. asked' = d /\ \/ phase' = "written" /\ Valid(d) /\ Generate(d) # Crash /\ message' = Generate(d)
                      \/ phase' = "crashed"
    BY <1>1, Zenon DEF Write
  <2>2. CASE phase' = "crashed"
    BY <2>2 DEF MessageIsWhatWasAsked
  <2>3. CASE phase' = "written" /\ Valid(d) /\ Generate(d) # Crash /\ message' = Generate(d)
    BY <2>1, <2>3 DEF MessageIsWhatWasAsked
  <2>4. QED
    BY <2>1, <2>2, <2>3
<1>2. ASSUME NEW f \in Frames, NEW g \in Frames, NEW list, list \in {<<f>>, <<f, g>>},
             WriteForeign(list)
      PROVE  MessageIsWhatWasAsked'
  <2>1. phase' = "foreign" /\ asked' = list /\ message' = MessageOf(list)
    BY <1>2, Zenon DEF WriteForeign, MessageOf
  <2>2. asked' \in {<<f>>, <<f, g>>} /\ message' = MessageOf(asked')
    BY <1>2, <2>1, Zenon
  <2>3. QED
    BY <2>1, <2>2 DEF MessageIsWhatWasAsked
<1>3. CASE Read
  <2>1. /\ \/ phase = "written" /\ phase' = "read"
           \/ phase = "foreign" /\ phase' = "read foreign"
        /\ records' = Parse(message) /\ asked' = asked /\ message' = message
    BY <1>3 DEF Read
  <2>2. CASE phase = "written" /\ phase' = "read"
    BY <2>1, <2>2 DEF MessageIsWhatWasAsked
  <2>3. CASE phase = "foreign" /\ phase' = "read foreign"
    BY <2>1, <2>3 DEF MessageIsWhatWasAsked
  <2>4. QED
    BY <2>1, <2>2, <2>3
<1>4. CASE UNCHANGED vars
  BY <1>4 DEF vars, MessageIsWhatWasAsked
<1>5. ASSUME NEW f \in Frames, WriteForeign(<<f>>)
      PROVE  MessageIsWhatWasAsked'
  BY <1>2, <1>5, Zenon
<1>6. ASSUME NEW f \in Frames, NEW g \in Frames, WriteForeign(<<f, g>>)
      PROVE  MessageIsWhatWasAsked'
  BY <1>2, <1>6, Zenon
<1>7. QED
  BY <1>1, <1>3, <1>4, <1>5, <1>6 DEF Next

\* The message on the tag is always the one generated for the dictionary of the
\* client (on_write), or that of the other writer, and the records of the tag are
\* what ndef_message_parse makes of it.
THEOREM AskedCorrect == Spec => []MessageIsWhatWasAsked
<1>1. Init => MessageIsWhatWasAsked
  BY AskedInit
<1>2. MessageIsWhatWasAsked /\ [Next]_vars => MessageIsWhatWasAsked'
  BY AskedStep
<1>3. QED
  BY <1>1, <1>2, PTL DEF Spec

\* Whatever a client writes, ndef_message_generate makes a message of the NDEF
\* format, with one record that begins and ends it; the payload of a smart poster is
\* a message as well.
THEOREM GeneratedMessagesAreWellFramedCorrect == Spec => []GeneratedMessagesAreWellFramed
<1>1. MessageIsWhatWasAsked => GeneratedMessagesAreWellFramed
  BY GeneratedWellFramed
<1>2. QED
  BY <1>1, AskedCorrect, PTL

\* What ndef_message_generate wrote as a short record ndef_message_parse reads back:
\* a plain record with all its fields, a smart poster with its URI.
THEOREM WrittenIsReadBackCorrect == Spec => []WrittenIsReadBack
<1>1. MessageIsWhatWasAsked => WrittenIsReadBack
  BY WrittenReadBack
<1>2. QED
  BY <1>1, AskedCorrect, PTL

\* Of the messages of other writers, with ids or without, ndef_message_parse makes
\* the records they begin with, in order, and never leaves out the first.
THEOREM ForeignIsReadInOrderCorrect == Spec => []ForeignIsReadInOrder
<1>1. MessageIsWhatWasAsked => ForeignIsReadInOrder
  BY ForeignInOrder
<1>2. QED
  BY <1>1, AskedCorrect, PTL

=============================================================================
