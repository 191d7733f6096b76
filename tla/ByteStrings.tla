---------------------------- MODULE ByteStrings ----------------------------
(***************************************************************************)
(* How StringStreamWriter lays numbers and strings out as bytes, and how   *)
(* stream_tools takes them off an istream again.                           *)
(*                                                                         *)
(* A stream is a sequence of bytes.  Reading one gives the set of what can *)
(* happen: a string and the rest of the stream, the end of the stream, or  *)
(* an exception.                                                           *)
(***************************************************************************)
EXTENDS Integers, Sequences

Byte == 0..255

-----------------------------------------------------------------------------
(* Numbers, the most significant byte first *)

\* mutant: the high byte is not cut off
Int16_Uncut(n) == <<n \div 256, n % 256>>

\* Two's complement for negative n.
Int16(n) == <<(n \div 256) % 256, n % 256>>

Int32(n) ==
    <<(n \div 16777216) % 256, (n \div 65536) % 256, (n \div 256) % 256, n % 256>>

Unsigned16(b) == 256 * b[1] + b[2]

Signed8(b) == IF b < 128 THEN b ELSE b - 256

\* getNextId casts an unsigned short like this.
Short(n) == IF n < 32768 THEN n ELSE n - 65536

Signed16(b) == Short(Unsigned16(b))
Signed32(b) == 65536 * Signed16(b) + Unsigned16(<<b[3], b[4]>>)

-----------------------------------------------------------------------------
(* Strings *)

\* writeTinyString: UINT8_MAX is an int, for which write takes four bytes.
TinyString(s) ==
    IF Len(s) >= 255 THEN Int32(255) \o SubSeq(s, 1, 255) ELSE <<Len(s)>> \o s

\* writeShortString: and so is UINT16_MAX.
ShortString(s) ==
    IF Len(s) >= 65535 THEN Int32(65535) \o SubSeq(s, 1, 65535) ELSE Int16(Len(s)) \o s

\* writeString, and write(const std::string&), for strings below 2^31.
LongString(s) == Int32(Len(s)) \o s

Text(s, rest) == [how |-> "text", text |-> s, rest |-> rest]
Eof == [how |-> "eof", text |-> <<>>, rest |-> <<>>]
Throws == [how |-> "throws", text |-> <<>>, rest |-> <<>>]

From(stream, n) == SubSeq(stream, n, Len(stream))

\* A buffer of n bytes is made and filled.  None has a negative size, and one
\* of some gigabytes may be refused.
Unfilled(n, width) ==
    IF width = 4 THEN {Eof, Throws} ELSE IF n < 0 THEN {Throws} ELSE {Eof}

Filled(n, width, stream) ==
    IF n \in 0..Len(stream)
    THEN {Text(SubSeq(stream, 1, n), From(stream, n + 1))}
    ELSE Unfilled(n, width)

\* readStringFromStream: at the end of the stream the size is not initialised.
Sized(width, stream, size) ==
    IF Len(stream) >= width THEN Filled(size, width, From(stream, width + 1))
    ELSE Unfilled(0, width) \cup Unfilled(IF width = 2 THEN 0 ELSE -1, width)

\* readTinyString: the size is a char.
ReadTinyString(stream) == Sized(1, stream, Signed8(stream[1]))

ReadShortString(stream) == Sized(2, stream, Unsigned16(stream))

\* Sizes of 2^31 and more, which no stream has, are negative here.
ReadLongString(stream) == Sized(4, stream, Signed32(stream))
=============================================================================
