------------------------- MODULE ByteStringsProofs -------------------------
(***************************************************************************)
(* For which lengths a string that was written is the string that is read, *)
(* and that numbers of 16 and 32 bits are.                                 *)
(***************************************************************************)
EXTENDS ByteStrings, SequenceTheorems, TLAPS

\* What is needed of numbers, apart from the sequences they are lengths of.
LEMMA SmallNumbers ==
    ASSUME NEW n \in Nat
    PROVE  /\ n < 255 => n \in Byte /\ ~(n >= 255)
           /\ n < 128 => n < 255 /\ Signed8(n) = n
           /\ n \in 128..254 => n < 255 /\ Signed8(n) < 0
BY DEF Byte, Signed8

\* A length is a number.
LEMMA LenNat == ASSUME NEW s \in Seq(Byte) PROVE Len(s) \in Nat
BY LenProperties

\* A string in front of the rest of a stream.
LEMMA FrontAndBack ==
    ASSUME NEW s \in Seq(Byte), NEW rest \in Seq(Byte)
    PROVE  /\ Len(s \o rest) = Len(s) + Len(rest)
           /\ SubSeq(s \o rest, 1, Len(s)) = s
           /\ From(s \o rest, Len(s) + 1) = rest
BY DEF From

\* Its buffer is filled with exactly the string.
LEMMA FilledText ==
    ASSUME NEW s \in Seq(Byte), NEW rest \in Seq(Byte), NEW width
    PROVE  Filled(Len(s), width, s \o rest) = {Text(s, rest)}
<1>1. Len(s) \in 0..Len(s \o rest)
  BY FrontAndBack
<1> QED
  BY <1>1, FrontAndBack DEF Filled

\* Behind a size of the right width and value comes the string.
LEMMA SizedText ==
    ASSUME NEW s \in Seq(Byte), NEW rest \in Seq(Byte), NEW size \in Seq(Byte)
    PROVE  Sized(Len(size), size \o (s \o rest), Len(s)) = {Text(s, rest)}
<1> DEFINE body == s \o rest
<1>1. body \in Seq(Byte) /\ Len(body) \in Nat /\ Len(size) \in Nat
  BY LenProperties
<1>2. Filled(Len(s), Len(size), body) = {Text(s, rest)}
  BY FilledText
<1> HIDE DEF body
<1>3. Len(size \o body) >= Len(size) /\ From(size \o body, Len(size) + 1) = body
  BY <1>1, FrontAndBack
<1>4. Sized(Len(size), size \o body, Len(s)) = {Text(s, rest)}
  BY <1>2, <1>3 DEF Sized
<1> QED
  BY <1>4 DEF body

\* A byte that was written in front of a stream is the first one read.
LEMMA FirstByte ==
    ASSUME NEW b \in Byte, NEW rest \in Seq(Byte)
    PROVE  /\ <<b>> \in Seq(Byte) /\ Len(<<b>>) = 1
           /\ <<b>> \o rest \in Seq(Byte)
           /\ (<<b>> \o rest)[1] = b
           /\ Len(<<b>> \o rest) >= 1
<1>1. <<b>> \in Seq(Byte) /\ Len(<<b>>) = 1 /\ <<b>>[1] = b
  OBVIOUS
<1> QED
  BY <1>1, ConcatProperties, LenProperties

\* A string shorter than 255 bytes has its length in front, as one byte.
LEMMA TinyStringBytes ==
    ASSUME NEW s \in Seq(Byte), NEW rest \in Seq(Byte), Len(s) < 255
    PROVE  /\ Len(s) \in Byte
           /\ s \o rest \in Seq(Byte)
           /\ TinyString(s) \o rest = <<Len(s)>> \o (s \o rest)
<1>0. Len(s) \in Nat
  BY LenNat
<1>1. Len(s) \in Byte
  BY <1>0, SmallNumbers, Zenon
<1>2. <<Len(s)>> \in Seq(Byte)
  BY <1>1, FirstByte
<1>3. TinyString(s) = <<Len(s)>> \o s
  BY <1>0, SmallNumbers DEF TinyString
<1>4. (<<Len(s)>> \o s) \o rest = <<Len(s)>> \o (s \o rest)
  BY <1>2, ConcatAssociative
<1>5. s \o rest \in Seq(Byte)
  BY ConcatProperties
<1> QED
  BY <1>1, <1>3, <1>4, <1>5

\* A tiny string below 128 bytes is read as it was written, whatever follows it.
THEOREM TinyStringArrives ==
    ASSUME NEW s \in Seq(Byte), NEW rest \in Seq(Byte), Len(s) < 128
    PROVE  ReadTinyString(TinyString(s) \o rest) = {Text(s, rest)}
<1> DEFINE stream == <<Len(s)>> \o (s \o rest)
<1>0. Len(s) < 255 /\ Signed8(Len(s)) = Len(s)
  BY LenNat, SmallNumbers, Zenon
<1>1. /\ Len(s) \in Byte
      /\ s \o rest \in Seq(Byte)
      /\ TinyString(s) \o rest = stream
  BY <1>0, TinyStringBytes
<1>2. /\ <<Len(s)>> \in Seq(Byte) /\ Len(<<Len(s)>>) = 1
      /\ stream[1] = Len(s)
  BY <1>1, FirstByte
<1>3. Signed8(stream[1]) = Len(s)
  BY <1>0, <1>2
<1>4. Sized(1, stream, Len(s)) = {Text(s, rest)}
  BY <1>2, SizedText
<1> HIDE DEF stream
<1> QED
  BY <1>1, <1>3, <1>4 DEF ReadTinyString

\* From 128 bytes on, the reader throws: the size has become negative.
THEOREM LongTinyStringThrows ==
    ASSUME NEW s \in Seq(Byte), NEW rest \in Seq(Byte), Len(s) \in 128..254
    PROVE  ReadTinyString(TinyString(s) \o rest) = {Throws}
<1> DEFINE stream == <<Len(s)>> \o (s \o rest)
<1>0. Len(s) < 255 /\ Signed8(Len(s)) < 0
  BY LenNat, SmallNumbers, Zenon
<1>1. /\ Len(s) \in Byte
      /\ s \o rest \in Seq(Byte)
      /\ TinyString(s) \o rest = stream
  BY <1>0, TinyStringBytes
<1>2. stream[1] = Len(s) /\ Len(stream) >= 1
  BY <1>1, FirstByte
<1> HIDE DEF stream
<1>3. Signed8(stream[1]) < 0
  BY <1>0, <1>2
<1>4. Filled(Signed8(stream[1]), 1, From(stream, 2)) = {Throws}
  <2> DEFINE n == Signed8(stream[1])
  <2>1. n \notin 0..Len(From(stream, 2))
    BY <1>3
  <2> HIDE DEF n
  <2>2. Filled(n, 1, From(stream, 2)) = Unfilled(n, 1)
    BY <2>1 DEF Filled
  <2> QED
    BY <1>3, <2>2 DEF Unfilled, n
<1> QED
  BY <1>1, <1>2, <1>4 DEF ReadTinyString, Sized

\* Three pieces of a stream, however they are grouped.
LEMMA Regroup ==
    ASSUME NEW a \in Seq(Byte), NEW b \in Seq(Byte), NEW c \in Seq(Byte)
    PROVE  (a \o b) \o c = a \o (b \o c)
BY ConcatAssociative

\* A size of four bytes, of which one is read.
LEMMA SizeSplit ==
    ASSUME NEW rest \in Seq(Byte)
    PROVE  <<0, 0, 0, 255>> \o rest = <<0>> \o (<<0, 0, 255>> \o rest)
BY DEF Byte

\* From 255 bytes on it reads an empty string, and goes on in the middle of the
\* four bytes of the size, with a zero, which ends the options.
THEOREM LongerTinyStringIsLost ==
    ASSUME NEW s \in Seq(Byte), NEW rest \in Seq(Byte), Len(s) >= 255
    PROVE  \E more \in Seq(Byte) :
               ReadTinyString(TinyString(s) \o rest) = {Text(<<>>, <<0, 0, 255>> \o more)}
<1> DEFINE front == SubSeq(s, 1, 255)
           more == front \o rest
           after == <<0, 0, 255>> \o more
<1>0. 0 \in Byte /\ 255 \in Byte
  BY DEF Byte
<1>1. front \in Seq(Byte) /\ more \in Seq(Byte)
  <2>1. \A i \in 1..255 : s[i] \in Byte
    BY LenProperties, ElementOfSeq
  <2>2. front \in Seq(Byte)
    BY <2>1, SubSeqProperties
  <2> QED
    BY <2>2, ConcatProperties
<1> HIDE DEF front
<1>2. /\ <<0>> \in Seq(Byte) /\ <<0, 0, 255>> \in Seq(Byte) /\ <<>> \in Seq(Byte)
      /\ <<0, 0, 0, 255>> \in Seq(Byte)
      /\ <<0, 0, 0, 255>> = <<0>> \o <<0, 0, 255>>
  BY <1>0
<1>3. Int32(255) = <<0, 0, 0, 255>>
  <2>1. /\ 255 \div 16777216 = 0 /\ 255 \div 65536 = 0 /\ 255 \div 256 = 0
        /\ 0 % 256 = 0 /\ 255 % 256 = 255
    OBVIOUS
  <2> QED
    BY <2>1 DEF Int32
<1>4. TinyString(s) \o rest = (<<0, 0, 0, 255>> \o front) \o rest
  BY <1>3 DEF TinyString, front
<1>5. (<<0, 0, 0, 255>> \o front) \o rest = <<0, 0, 0, 255>> \o more
  <2> DEFINE size == <<0, 0, 0, 255>>
  <2>1. size \in Seq(Byte)
    BY <1>2
  <2> HIDE DEF size
  <2>2. (size \o front) \o rest = size \o (front \o rest)
    BY <1>1, <2>1, Regroup
  <2> QED
    BY <2>2 DEF size
<1>6. <<0, 0, 0, 255>> \o more = <<0>> \o after
  BY <1>1, SizeSplit, Zenon
<1>7. after \in Seq(Byte)
  BY <1>1, <1>2, ConcatProperties
<1> HIDE DEF after
<1>8. Sized(1, <<0>> \o after, 0) = {Text(<<>>, after)}
  <2>1. <<>> \o after = after
    BY <1>7, ConcatEmptySeq
  <2>2. Len(<<0>>) = 1 /\ Len(<<>>) = 0
    OBVIOUS
  <2>3. Sized(Len(<<0>>), <<0>> \o (<<>> \o after), Len(<<>>)) = {Text(<<>>, after)}
    BY <1>2, <1>7, SizedText
  <2> QED
    BY <2>1, <2>2, <2>3
<1>9. Signed8((<<0>> \o after)[1]) = 0
  BY <1>0, <1>7, FirstByte DEF Signed8
<1>10. ReadTinyString(<<0>> \o after) = {Text(<<>>, after)}
  BY <1>8, <1>9 DEF ReadTinyString
<1>11. TinyString(s) \o rest = <<0>> \o after
  BY <1>4, <1>5, <1>6, Zenon
<1>12. ReadTinyString(TinyString(s) \o rest) = {Text(<<>>, <<0, 0, 255>> \o more)}
  BY <1>10, <1>11, Zenon DEF after
<1> HIDE DEF more
<1> QED
  BY <1>1, <1>12, Zenon

\* A short number is two bytes, and an unsigned short what they are worth.
LEMMA ShortBytes ==
    ASSUME NEW n \in Int, -32768 <= n, n <= 65535
    PROVE  /\ Int16(n) \in Seq(Byte) /\ Len(Int16(n)) = 2
           /\ n >= 0 => Unsigned16(Int16(n)) = n
           /\ n <= 32767 => Signed16(Int16(n)) = n
<1> DEFINE q == n \div 256
           r == n % 256
           h == q % 256
<1>1. q \in Int /\ r \in Int /\ 0 <= r /\ r <= 255 /\ n = (256 * q) + r
  OBVIOUS
<1> HIDE DEF q, r
<1>2. -128 <= q /\ q <= 255 
  BY <1>1
<1>3. h \in Int /\ 0 <= h /\ h <= 255 /\ (q >= 0 => h = q) /\ (q < 0 => h = q + 256)
  BY <1>1, <1>2
<1> HIDE DEF h
<1>4. Int16(n) = <<h, r>>
  BY DEF Int16, h, q, r
<1>5. h \in Byte /\ r \in Byte
  BY <1>1, <1>3 DEF Byte
<1>6. Unsigned16(<<h, r>>) = (256 * h) + r
  BY DEF Unsigned16
<1>7. n >= 0 => (256 * h) + r = n
  BY <1>1, <1>3
<1>8. n <= 32767 => Short((256 * h) + r) = n
  BY <1>1, <1>2, <1>3 DEF Short
<1> QED
  BY <1>4, <1>5, <1>6, <1>7, <1>8 DEF Signed16

\* Two short numbers, one behind the other.
LEMMA TwoShorts ==
    ASSUME NEW a \in Seq(Byte), NEW c \in Seq(Byte), Len(a) = 2, Len(c) = 2
    PROVE  /\ <<a[1], a[2], c[1], c[2]>> \in Seq(Byte)
           /\ Len(<<a[1], a[2], c[1], c[2]>>) = 4
           /\ Signed32(<<a[1], a[2], c[1], c[2]>>) = 65536 * Signed16(a) + Unsigned16(c)
<1>1. a[1] \in Byte /\ a[2] \in Byte /\ c[1] \in Byte /\ c[2] \in Byte
  <2>1. 1 \in 1..Len(a) /\ 2 \in 1..Len(a) /\ 1 \in 1..Len(c) /\ 2 \in 1..Len(c)
    OBVIOUS
  <2> QED
    BY <2>1, ElementOfSeq, Zenon
<1>2. Signed32(<<a[1], a[2], c[1], c[2]>>) = 65536 * Signed16(a) + Unsigned16(c)
  BY DEF Signed32, Signed16, Unsigned16
<1> QED
  BY <1>1, <1>2

\* A number of 32 bits is four bytes, and what they are worth.
LEMMA LongBytes ==
    ASSUME NEW n \in Int, -32768 <= n \div 65536, n \div 65536 <= 32767
    PROVE  /\ Int32(n) \in Seq(Byte) /\ Len(Int32(n)) = 4
           /\ Signed32(Int32(n)) = n
<1> DEFINE q == n \div 65536
           r == n % 65536
<1>1. q \in Int /\ r \in Int /\ 0 <= r /\ r <= 65535 /\ n = (65536 * q) + r
  OBVIOUS
<1>2. -32768 <= q /\ q <= 32767 
  BY <1>1
<1>3. /\ (n \div 16777216) = (q \div 256)
      /\ (n \div 256) % 256 = (r \div 256) % 256
      /\ n % 256 = r % 256
  <2> HIDE DEF q, r
  <2>1. (n \div 16777216) = (q \div 256)
    BY <1>1
  <2>2. (n \div 256) = (256 * q) + (r \div 256)
    BY <1>1
  <2>3. n % 256 = r % 256
    BY <1>1
  <2> DEFINE s == r \div 256
  <2>4. s \in Int
    BY <1>1
  <2> HIDE DEF s
  <2>5. ((256 * q) + s) % 256 = s % 256
    BY <1>1, <2>4
  <2> QED
    BY <2>1, <2>2, <2>3, <2>5 DEF s
<1> DEFINE a == Int16(q)
           c == Int16(r)
<1>4. Int32(n) = <<a[1], a[2], c[1], c[2]>>
  BY <1>3 DEF Int32, Int16
<1> HIDE DEF a, c, q, r
<1>5. /\ a \in Seq(Byte) /\ Len(a) = 2 /\ Signed16(a) = q
      /\ c \in Seq(Byte) /\ Len(c) = 2 /\ Unsigned16(c) = r
  BY <1>1, <1>2, ShortBytes DEF a, c
<1>6. /\ <<a[1], a[2], c[1], c[2]>> \in Seq(Byte)
      /\ Len(<<a[1], a[2], c[1], c[2]>>) = 4
      /\ Signed32(<<a[1], a[2], c[1], c[2]>>) = 65536 * Signed16(a) + Unsigned16(c)
  BY <1>5, TwoShorts
<1>7. 65536 * Signed16(a) + Unsigned16(c) = n
  <2>1. 65536 * q + r = n
    BY <1>1
  <2> QED
    BY <1>5, <2>1
<1> QED
  BY <1>4, <1>6, <1>7

\* What was written in front of a stream of bytes stands there: at the first
\* places, with the stream behind it.
LEMMA InFront ==
    ASSUME NEW a \in Seq(Byte), NEW rest \in Seq(Byte)
    PROVE  /\ a \o rest \in Seq(Byte)
           /\ Len(a \o rest) >= Len(a)
           /\ \A i \in 1..Len(a) : (a \o rest)[i] = a[i]
<1>1. Len(a) \in Nat /\ Len(rest) \in Nat
  BY LenProperties
<1>2. \A i \in 1..Len(a) : i \in 1..Len(a) + Len(rest) /\ i <= Len(a)
  BY <1>1
<1> QED
  BY <1>1, <1>2, ConcatProperties

\* Behind its length comes a short string ...
LEMMA ShortSized ==
    ASSUME NEW s \in Seq(Byte), NEW rest \in Seq(Byte), NEW size \in Seq(Byte),
           Len(size) = 2, Unsigned16(size) = Len(s)
    PROVE  ReadShortString((size \o s) \o rest) = {Text(s, rest)}
<1> DEFINE body == s \o rest
           all == size \o body
<1>1. (size \o s) \o rest = all
  BY Regroup
<1>2. body \in Seq(Byte)
  BY ConcatProperties
<1>3. Sized(2, all, Len(s)) = {Text(s, rest)}
  BY SizedText
<1> HIDE DEF body
<1>4. all[1] = size[1] /\ all[2] = size[2]
  <2>1. 1 \in 1..Len(size) /\ 2 \in 1..Len(size)
    OBVIOUS
  <2> QED
    BY <1>2, <2>1, InFront
<1> HIDE DEF all
<1>5. Unsigned16(all) = Len(s)
  BY <1>4 DEF Unsigned16
<1> QED
  BY <1>1, <1>3, <1>5 DEF ReadShortString

\* Four bytes in front of a stream are the number that is read.
LEMMA NumberInFront ==
    ASSUME NEW a \in Seq(Byte), NEW rest \in Seq(Byte), Len(a) = 4
    PROVE  Signed32(a \o rest) = Signed32(a)
<1>1. 1 \in 1..Len(a) /\ 2 \in 1..Len(a) /\ 3 \in 1..Len(a) /\ 4 \in 1..Len(a)
  OBVIOUS
<1> DEFINE all == a \o rest
<1>2. all[1] = a[1] /\ all[2] = a[2] /\ all[3] = a[3] /\ all[4] = a[4]
  BY <1>1, InFront
<1> HIDE DEF all
<1>3. Signed32(all) = Signed32(a)
  BY <1>2 DEF Signed32, Signed16, Unsigned16
<1> QED
  BY <1>3 DEF all

\* ... and a long one.
LEMMA LongSized ==
    ASSUME NEW s \in Seq(Byte), NEW rest \in Seq(Byte), NEW size \in Seq(Byte),
           Len(size) = 4, Signed32(size) = Len(s)
    PROVE  ReadLongString((size \o s) \o rest) = {Text(s, rest)}
<1> DEFINE body == s \o rest
           all == size \o body
<1>1. (size \o s) \o rest = all
  BY Regroup
<1>2. body \in Seq(Byte)
  BY ConcatProperties
<1>3. Sized(4, all, Len(s)) = {Text(s, rest)}
  BY SizedText
<1> HIDE DEF body
<1>4. Signed32(all) = Len(s)
  BY <1>2, NumberInFront
<1> HIDE DEF all
<1> QED
  BY <1>1, <1>3, <1>4 DEF ReadLongString

\* A short string of fewer than 65535 bytes is read as it was written, whatever
\* follows it on the stream.
THEOREM ShortStringArrives ==
    ASSUME NEW s \in Seq(Byte), NEW rest \in Seq(Byte), Len(s) < 65535
    PROVE  ReadShortString(ShortString(s) \o rest) = {Text(s, rest)}
<1> DEFINE n == Len(s)
           size == Int16(n)
<1>1. n \in Nat /\ n \in Int /\ -32768 <= n /\ n <= 65535 /\ n >= 0 /\ ~(n >= 65535)
  BY LenNat
<1> HIDE DEF n
<1>2. size \in Seq(Byte) /\ Len(size) = 2 /\ Unsigned16(size) = n
  BY <1>1, ShortBytes
<1>3. ShortString(s) = size \o s
  BY <1>1 DEF ShortString, n
<1> HIDE DEF size
<1> QED
  BY <1>2, <1>3, ShortSized DEF n

\* A long string, of fewer than 2^31 bytes, is read as it was written.
THEOREM LongStringArrives ==
    ASSUME NEW s \in Seq(Byte), NEW rest \in Seq(Byte), Len(s) \div 65536 <= 32767
    PROVE  ReadLongString(LongString(s) \o rest) = {Text(s, rest)}
<1> DEFINE n == Len(s)
           size == Int32(n)
<1>1. n \in Int /\ -32768 <= n \div 65536 /\ n \div 65536 <= 32767
  BY LenNat
<1> HIDE DEF n
<1>2. size \in Seq(Byte) /\ Len(size) = 4 /\ Signed32(size) = n
  BY <1>1, LongBytes
<1>3. LongString(s) = size \o s
  BY DEF LongString, n
<1> HIDE DEF size
<1> QED
  BY <1>2, <1>3, LongSized DEF n

\* Every id that getNextId can return survives its cast: none becomes 0, which
\* means no parent and no parameter, and no two become the same.
THEOREM ShortIdsDiffer ==
    ASSUME NEW i \in 1..65534, NEW j \in 1..65534
    PROVE  Short(i) # 0 /\ (Short(i) = Short(j) => i = j)
<1>1. CASE i < 32768
  BY <1>1 DEF Short
<1>2. CASE ~(i < 32768)
  BY <1>2 DEF Short
<1> QED
  BY <1>1, <1>2
=============================================================================
