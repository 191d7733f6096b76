---------------------- MODULE ParameterOptionsProofs ----------------------
(***************************************************************************)
(* Theorems about ParameterOptions, for every packet there can be.         *)
(*                                                                         *)
(*   OptionTypes     the stream holds bytes, whatever the parser reads     *)
(*   OptionsInStep   what StepInv shows: if all options fit, the parser is *)
(*                   always in front of an option, inside the list of one, *)
(*                   or at the end, and has what was before it             *)
(*                                                                         *)
(* What is written is FlattenSeq of pieces, of which only the first is     *)
(* looked at: the rest is written like the whole.                          *)
(***************************************************************************)
EXTENDS ParameterOptions, ByteStringsProofs, FiniteSetTheorems

\* A set of natural numbers has a least one: the induction the proofs below use.
LEMMA NatLeast ==
    ASSUME NEW T, T \subseteq Nat, T # {}
    PROVE  \E n \in T : \A m \in T : n <= m
<1> DEFINE F == {0..n : n \in T}
           R == StrictSubsetOrdering(Nat)
<1>1. F \subseteq FiniteSubsetsOf(Nat)
  <2> SUFFICES ASSUME NEW n \in T PROVE 0..n \in FiniteSubsetsOf(Nat)
    OBVIOUS
  <2>1. IsFiniteSet(0..n)
    BY FS_Interval
  <2>2. 0..n \subseteq Nat
    OBVIOUS
  <2> QED
    BY <2>1, <2>2 DEF FiniteSubsetsOf
<1>2. F # {}
  OBVIOUS
<1>3. IsWellFoundedOn(R, FiniteSubsetsOf(Nat))
  BY FS_StrictSubsetOrderingWellFounded
<1>4. PICK X \in F : \A Y \in F : <<Y, X>> \notin R
  <2> HIDE DEF F, R
  <2> QED
    BY <1>1, <1>2, <1>3, WFMin
<1>5. PICK n \in T : X = 0..n
  BY <1>4
<1>6. ASSUME NEW m \in T PROVE n <= m
  <2> SUFFICES ASSUME m < n PROVE FALSE
    OBVIOUS
  <2>1. 0..m \subseteq 0..n /\ 0..m # 0..n /\ 0..m \in SUBSET Nat /\ 0..n \in SUBSET Nat
    <3>1. n \in 0..n /\ n \notin 0..m
      OBVIOUS
    <3> QED
      BY <3>1
  <2>2. <<0..m, X>> \in R
    BY <2>1, <1>5 DEF StrictSubsetOrdering
  <2> QED
    BY <2>2, <1>4
<1> QED
  BY <1>6

-----------------------------------------------------------------------------
(* One piece behind the other: FlattenSeq *)

Pieces == Seq(Seq(Byte))

\* The first i pieces, for each i up to m.
Joined(f, s, m) ==
    /\ f \in [1..m -> Seq(Byte)]
    /\ \A i \in 1..m : f[i] = IF i = 1 THEN s[i] ELSE f[i - 1] \o s[i]

\* Pieces can be joined one by one.
LEMMA JoinedExists ==
    ASSUME NEW s \in Pieces, NEW m \in Nat, m <= Len(s)
    PROVE  \E f : Joined(f, s, m)
<1> DEFINE T == {k \in Nat : k <= Len(s) /\ ~ \E f : Joined(f, s, k)}
<1>1. Len(s) \in Nat /\ \A i \in 1..Len(s) : s[i] \in Seq(Byte)
  BY LenProperties DEF Pieces
<1>2. T = {}
  <2> SUFFICES ASSUME T # {} PROVE FALSE
    OBVIOUS
  <2>1. PICK k \in T : \A j \in T : k <= j
    <3> HIDE DEF T
    <3>1. T \subseteq Nat
      BY DEF T
    <3> QED
      BY NatLeast, <3>1
  <2>2. k \in Nat /\ k <= Len(s) /\ ~ \E f : Joined(f, s, k)
    BY <2>1
  <2>3. CASE k = 0
    <3> DEFINE f == [i \in 1..0 |-> <<>>]
    <3>1. Joined(f, s, 0)
      BY DEF Joined
    <3> QED
      BY <3>1, <2>2, <2>3
  <2>4. CASE k # 0
    <3> DEFINE j == k - 1
    <3>1. j \in Nat /\ j <= Len(s) /\ ~(k <= j) /\ k \in 1..Len(s)
      BY <2>2, <2>4, <1>1
    <3>2. PICK f : Joined(f, s, j)
      BY <2>1, <3>1
    <3> DEFINE last == IF k = 1 THEN s[k] ELSE f[j] \o s[k]
               g == [i \in 1..k |-> IF i = k THEN last ELSE f[i]]
    <3>3. last \in Seq(Byte)
      <4>1. s[k] \in Seq(Byte)
        BY <3>1, <1>1
      <4>2. CASE k = 1
        BY <4>1, <4>2
      <4>3. CASE k # 1
        <5>1. j \in 1..j
          BY <3>1, <4>3
        <5>2. f[j] \in Seq(Byte)
          BY <5>1, <3>2 DEF Joined
        <5> QED
          BY <4>1, <4>3, <5>2, ConcatProperties
      <4> QED
        BY <4>2, <4>3
    <3>4. g \in [1..k -> Seq(Byte)]
      <4> HIDE DEF last
      <4>1. \A i \in 1..k : i # k => i \in 1..j
        BY <3>1
      <4> QED
        BY <3>3, <4>1, <3>2 DEF Joined
    <3>5. ASSUME NEW i \in 1..k PROVE g[i] = IF i = 1 THEN s[i] ELSE g[i - 1] \o s[i]
      <4>1. CASE i = k
        <5>1. i # 1 => j \in 1..k /\ j # k /\ i - 1 = j
          BY <3>1, <4>1
        <5> QED
          BY <4>1, <5>1
      <4>2. CASE i # k
        <5>1. i \in 1..j /\ (i # 1 => i - 1 \in 1..k /\ i - 1 # k)
          BY <3>1, <4>2
        <5>2. f[i] = IF i = 1 THEN s[i] ELSE f[i - 1] \o s[i]
          BY <5>1, <3>2 DEF Joined
        <5> HIDE DEF last
        <5> QED
          BY <4>2, <5>1, <5>2
      <4> QED
        BY <4>1, <4>2
    <3>6. Joined(g, s, k)
      <4> HIDE DEF g
      <4> QED
        BY <3>4, <3>5 DEF Joined
    <3> QED
      BY <3>6, <2>2
  <2> QED
    BY <2>3, <2>4
<1> QED
  BY <1>2

\* FlattenSeq joins all of them.
LEMMA FlattenJoined ==
    ASSUME NEW s \in Pieces, Len(s) > 0
    PROVE  \E f : Joined(f, s, Len(s)) /\ FlattenSeq(s) = f[Len(s)]
<1> DEFINE n == Len(s)
           flatten[i \in 1..n] == IF i = 1 THEN s[i] ELSE flatten[i - 1] \o s[i]
           Eq(f) == f = [i \in 1..n |-> IF i = 1 THEN s[i] ELSE f[i - 1] \o s[i]]
<1>0. n \in Nat /\ n <= n /\ Len(s) # 0
  BY LenProperties DEF Pieces
<1>1. FlattenSeq(s) = flatten[n]
  BY <1>0 DEF FlattenSeq
<1>2. flatten = CHOOSE f : Eq(f)
  OBVIOUS
<1> HIDE DEF flatten
<1>3. PICK g : Joined(g, s, n)
  BY <1>0, JoinedExists
<1> HIDE DEF n
<1>4. Eq(g)
  BY <1>3 DEF Joined
<1>5. Eq(flatten)
  <2> HIDE DEF Eq
  <2> QED
    BY <1>2, <1>4, Zenon
<1> DEFINE T == {i \in Nat : i \in 1..n /\ flatten[i] # g[i]}
<1>6. T = {}
  <2> SUFFICES ASSUME T # {} PROVE FALSE
    OBVIOUS
  <2>1. PICK i \in T : \A j \in T : i <= j
    <3> HIDE DEF T
    <3>1. T \subseteq Nat
      BY DEF T
    <3> QED
      BY NatLeast, <3>1
  <2>2. i \in 1..n /\ flatten[i] # g[i]
    BY <2>1
  <2>3. flatten[i] = IF i = 1 THEN s[i] ELSE flatten[i - 1] \o s[i]
    BY <2>2, <1>5
  <2>4. g[i] = IF i = 1 THEN s[i] ELSE g[i - 1] \o s[i]
    BY <2>2, <1>4
  <2>5. i # 1 => i - 1 \in 1..n /\ i - 1 \in Nat /\ ~(i <= i - 1)
    BY <2>2, <1>0
  <2>6. i # 1 => flatten[i - 1] = g[i - 1]
    BY <2>1, <2>5
  <2> QED
    BY <2>2, <2>3, <2>4, <2>6
<1>7. n \in 1..n /\ n \in Nat
  BY <1>0 DEF n
<1>8. flatten[n] = g[n]
  BY <1>6, <1>7
<1> QED
  BY <1>1, <1>3, <1>8 DEF n

\* Nothing joined is nothing; else the first piece comes first.
LEMMA FlattenFirst ==
    ASSUME NEW s \in Pieces
    PROVE  /\ FlattenSeq(s) \in Seq(Byte)
           /\ s = <<>> => FlattenSeq(s) = <<>>
           /\ s # <<>> => /\ Tail(s) \in Pieces
                          /\ s[1] \in Seq(Byte)
                          /\ FlattenSeq(s) = s[1] \o FlattenSeq(Tail(s))
<1>0. Len(s) \in Nat /\ \A i \in 1..Len(s) : s[i] \in Seq(Byte)
  BY LenProperties DEF Pieces
<1>1. CASE s = <<>>
  BY <1>1 DEF FlattenSeq
<1>2. CASE s # <<>>
  <2> DEFINE n == Len(s)
             t == Tail(s)
             m == Len(t)
  <2>1. /\ t \in Pieces /\ n \in Nat /\ n > 0 /\ m = n - 1
        /\ \A i \in 1..m : t[i] = s[i + 1]
    BY <1>2, HeadTailProperties, EmptySeq DEF Pieces
  <2>2. s[1] \in Seq(Byte) /\ s[1] = s[1]
    BY <2>1, <1>0
  <2>3. PICK f : Joined(f, s, n) /\ FlattenSeq(s) = f[n]
    BY <2>1, FlattenJoined
  <2>4. FlattenSeq(s) \in Seq(Byte)
    BY <2>1, <2>3 DEF Joined
  <2> HIDE DEF n, t, m
  <2>5. f[1] = s[1]
    <3>1. 1 \in 1..n
      BY <2>1
    <3> QED
      BY <2>3, <3>1 DEF Joined
  <2>6. CASE m = 0
    <3>1. n = 1
      BY <2>1, <2>6
    <3>2. t = <<>>
      BY <2>1, <2>6, EmptySeq DEF Pieces, m
    <3>3. FlattenSeq(t) = <<>>
      BY <3>2 DEF FlattenSeq
    <3>4. s[1] \o <<>> = s[1]
      BY <2>2, ConcatEmptySeq
    <3> QED
      BY <2>1, <2>2, <2>3, <2>4, <2>5, <3>1, <3>3, <3>4, <1>2 DEF t
  <2>7. CASE m # 0
    <3>0. m \in Nat /\ m > 0 /\ Len(t) > 0
      BY <2>1, <2>7 DEF m
    <3>1. PICK g : Joined(g, t, m) /\ FlattenSeq(t) = g[m]
      BY <2>1, <3>0, FlattenJoined DEF m
    <3> DEFINE T == {i \in Nat : i \in 1..m /\ f[i + 1] # s[1] \o g[i]}
    <3>2. T = {}
      <4> SUFFICES ASSUME T # {} PROVE FALSE
        OBVIOUS
      <4>1. PICK i \in T : \A j \in T : i <= j
        <5> HIDE DEF T
        <5>1. T \subseteq Nat
          BY DEF T
        <5> QED
          BY NatLeast, <5>1
      <4>2. i \in 1..m /\ f[i + 1] # s[1] \o g[i]
        BY <4>1
      <4>3. i + 1 \in 1..n /\ i + 1 # 1 /\ (i + 1) - 1 = i
        BY <4>2, <2>1, <3>0
      <4>4. f[i + 1] = f[i] \o t[i]
        <5>1. f[i + 1] = f[(i + 1) - 1] \o s[i + 1]
          BY <4>3, <2>3 DEF Joined
        <5> QED
          BY <5>1, <4>2, <4>3, <2>1
      <4>5. g[i] = IF i = 1 THEN t[i] ELSE g[i - 1] \o t[i]
        BY <4>2, <3>1 DEF Joined
      <4>6. CASE i = 1
        BY <4>2, <4>4, <4>5, <4>6, <2>5
      <4>7. CASE i # 1
        <5> DEFINE k == i - 1
        <5>1. k \in 1..m /\ k \in Nat /\ k + 1 = i /\ ~(i <= k)
          BY <4>2, <4>7, <3>0
        <5>2. f[i] = s[1] \o g[k]
          BY <4>1, <5>1
        <5>3. g[k] \in Seq(Byte)
          BY <5>1, <3>1 DEF Joined
        <5>4. t[i] \in Seq(Byte)
          BY <4>2, <4>3, <2>1, <1>0 DEF n
        <5> HIDE DEF k
        <5>5. (s[1] \o g[k]) \o t[i] = s[1] \o (g[k] \o t[i])
          BY <2>2, <5>3, <5>4, Regroup
        <5>6. g[i] = g[k] \o t[i]
          BY <4>5, <4>7 DEF k
        <5> QED
          BY <4>2, <4>4, <5>2, <5>5, <5>6
      <4> QED
        BY <4>6, <4>7
    <3>3. m \in 1..m /\ m + 1 = n
      BY <3>0, <2>1
    <3>4. f[n] = s[1] \o g[m]
      BY <3>2, <3>3, <3>0
    <3> QED
      BY <2>1, <2>2, <2>3, <2>4, <3>1, <3>4, <1>2 DEF t
  <2> QED
    BY <2>6, <2>7
<1> QED
  BY <1>1, <1>2

-----------------------------------------------------------------------------
(* The writer writes bytes *)

\* Numbers of any size are cut into bytes.
LEMMA NumberBytes ==
    ASSUME NEW n \in Int
    PROVE  Int16(n) \in Seq(Byte) /\ Int32(n) \in Seq(Byte)
<1>1. \A x \in Int : x % 256 \in Byte
  BY DEF Byte
<1> DEFINE a == (n \div 16777216) % 256
           b == (n \div 65536) % 256
           c == (n \div 256) % 256
           d == n % 256
<1>2. a \in Byte /\ b \in Byte /\ c \in Byte /\ d \in Byte
  BY <1>1
<1>3. Int32(n) = <<a, b, c, d>> /\ Int16(n) = <<c, d>>
  BY DEF Int32, Int16
<1> HIDE DEF a, b, c, d
<1>4. <<a, b, c, d>> \in Seq(Byte) /\ <<c, d>> \in Seq(Byte)
  BY <1>2
<1> QED
  BY <1>3, <1>4

\* The first bytes of a string.
LEMMA FrontBytes ==
    ASSUME NEW s \in Seq(Byte), NEW n \in Nat, n <= Len(s)
    PROVE  SubSeq(s, 1, n) \in Seq(Byte)
<1>1. \A i \in 1..n : s[i] \in Byte
  BY LenProperties
<1> QED
  BY <1>1, SubSeqProperties

\* A string is bytes with its length.
LEMMA StringBytes ==
    ASSUME NEW s \in Seq(Byte)
    PROVE  TinyString(s) \in Seq(Byte) /\ ShortString(s) \in Seq(Byte) /\ LongString(s) \in Seq(Byte)
<1>0. Len(s) \in Nat /\ Len(s) \in Int
  BY LenNat
<1>1. TinyString(s) \in Seq(Byte)
  <2>1. CASE Len(s) >= 255
    <3>1. SubSeq(s, 1, 255) \in Seq(Byte)
      BY <1>0, <2>1, FrontBytes
    <3>2. Int32(255) \in Seq(Byte)
      BY NumberBytes
    <3>3. Int32(255) \o SubSeq(s, 1, 255) \in Seq(Byte)
      BY <3>1, <3>2, ConcatProperties
    <3> QED
      BY <2>1, <3>3 DEF TinyString
  <2>2. CASE ~(Len(s) >= 255)
    <3>1. <<Len(s)>> \in Seq(Byte)
      <4>1. Len(s) < 255
        BY <1>0, <2>2
      <4>2. Len(s) \in Byte
        BY <1>0, <4>1, SmallNumbers, Zenon
      <4> QED
        BY <4>2, FirstByte
    <3>2. <<Len(s)>> \o s \in Seq(Byte)
      BY <3>1, ConcatProperties
    <3> QED
      BY <2>2, <3>2 DEF TinyString
  <2> QED
    BY <2>1, <2>2
<1>2. ShortString(s) \in Seq(Byte)
  <2> DEFINE limit == 65535
  <2>0. limit \in Nat /\ limit \in Int
    OBVIOUS
  <2>1. ShortString(s) = IF Len(s) >= limit THEN Int32(limit) \o SubSeq(s, 1, limit)
                         ELSE Int16(Len(s)) \o s
    BY DEF ShortString
  <2> HIDE DEF limit
  <2>2. Int32(limit) \in Seq(Byte) /\ Int16(Len(s)) \in Seq(Byte)
    BY <1>0, <2>0, NumberBytes
  <2>3. CASE Len(s) >= limit
    <3>1. SubSeq(s, 1, limit) \in Seq(Byte)
      BY <1>0, <2>0, <2>3, FrontBytes
    <3> QED
      BY <2>1, <2>2, <2>3, <3>1, ConcatProperties
  <2>4. CASE ~(Len(s) >= limit)
    BY <2>1, <2>2, <2>4, ConcatProperties
  <2> QED
    BY <2>3, <2>4
<1>3. LongString(s) \in Seq(Byte)
  <2>1. Int32(Len(s)) \in Seq(Byte)
    BY <1>0, NumberBytes
  <2> QED
    BY <2>1, ConcatProperties DEF LongString
<1> QED
  BY <1>1, <1>2, <1>3

Language == [1..3 -> Letter] \X Seq(Byte)

\* What is written for one language.
Entry(l, short) == l[1] \o IF short THEN ShortString(l[2]) ELSE TinyString(l[2])

\* A code is three bytes, the first of them not 0.
LEMMA CodeBytes ==
    ASSUME NEW l \in Language
    PROVE  /\ l = <<l[1], l[2]>> /\ l[2] \in Seq(Byte)
           /\ l[1] \in Seq(Byte) /\ Len(l[1]) = 3 /\ l[1][1] # 0
<1>1. l = <<l[1], l[2]>> /\ l[2] \in Seq(Byte) /\ l[1] \in [1..3 -> Letter]
  BY DEF Language
<1> DEFINE c == l[1]
<1>2. c \in [1..3 -> Letter]
  BY <1>1
<1> HIDE DEF c
<1>3. 1 \in 1..3 /\ c[1] \in Letter
  BY <1>2
<1>4. c \in [1..3 -> Byte]
  BY <1>2 DEF Letter
<1>5. c \in Seq(Byte) /\ Len(c) = 3
  <2>1. c \in Seq(Byte)
    BY <1>4, SeqDef
  <2>2. DOMAIN c = 1..3 /\ DOMAIN c = 1..Len(c) /\ Len(c) \in Nat
    BY <1>4, <2>1, LenProperties
  <2> QED
    BY <2>1, <2>2
<1> QED
  BY <1>1, <1>3, <1>5 DEF c, Letter

\* An entry is bytes.
LEMMA EntryBytes ==
    ASSUME NEW l \in Language, NEW short
    PROVE  Entry(l, short) \in Seq(Byte)
<1>1. l[1] \in Seq(Byte) /\ l[2] \in Seq(Byte)
  BY CodeBytes
<1>2. ShortString(l[2]) \in Seq(Byte) /\ TinyString(l[2]) \in Seq(Byte)
  BY <1>1, StringBytes
<1>3. l[1] \o ShortString(l[2]) \in Seq(Byte) /\ l[1] \o TinyString(l[2]) \in Seq(Byte)
  BY <1>1, <1>2, ConcatProperties
<1> QED
  BY <1>3 DEF Entry

\* The languages: bytes, one entry after the other, and a terminator.
LEMMA LanguagesBytes ==
    ASSUME NEW list \in LanguageLists, NEW short
    PROVE  /\ Languages(list, short) \in Seq(Byte)
           /\ list = <<>> => Languages(list, short) = <<0>>
           /\ list # <<>> => /\ Tail(list) \in LanguageLists
                             /\ list[1] \in Language
                             /\ Languages(list, short)
                                    = Entry(list[1], short) \o Languages(Tail(list), short)
<1> DEFINE Pcs(l) == [i \in 1..Len(l) |-> Entry(l[i], short)]
<1>0. <<0>> \in Seq(Byte)
  BY DEF Byte
<1>1. ASSUME NEW l \in LanguageLists
      PROVE  /\ Len(l) \in Nat /\ \A i \in 1..Len(l) : l[i] \in Language
             /\ Pcs(l) \in Pieces /\ Len(Pcs(l)) = Len(l)
             /\ Languages(l, short) = FlattenSeq(Pcs(l)) \o <<0>>
  <2>1. Len(l) \in Nat /\ \A i \in 1..Len(l) : l[i] \in Language
    BY LenProperties DEF LanguageLists, Language
  <2>2. \A i \in 1..Len(l) : Entry(l[i], short) \in Seq(Byte)
    BY <2>1, EntryBytes
  <2>3. Pcs(l) \in Pieces /\ Len(Pcs(l)) = Len(l)
    BY <2>1, <2>2 DEF Pieces
  <2> QED
    BY <2>1, <2>3 DEF Languages, Entry, Terminator
<1>2. Languages(list, short) \in Seq(Byte)
  <2>1. FlattenSeq(Pcs(list)) \in Seq(Byte)
    BY <1>1, FlattenFirst
  <2> QED
    BY <1>0, <1>1, <2>1, ConcatProperties
<1>3. CASE list = <<>>
  <2>1. Len(Pcs(list)) = 0 /\ Pcs(list) \in Pieces
    BY <1>1, <1>3
  <2> HIDE DEF Pcs
  <2>2. Pcs(list) = <<>>
    BY <2>1, EmptySeq DEF Pieces
  <2>3. FlattenSeq(Pcs(list)) = <<>>
    BY <2>1, <2>2, FlattenFirst
  <2> QED
    BY <1>0, <1>1, <1>2, <1>3, <2>3, ConcatEmptySeq
<1>4. CASE list # <<>>
  <2> DEFINE t == Tail(list)
  <2>1. /\ t \in LanguageLists /\ Len(t) = Len(list) - 1 /\ Len(list) > 0
        /\ \A i \in 1..Len(t) : t[i] = list[i + 1]
    BY <1>4, <1>1, HeadTailProperties, EmptySeq DEF LanguageLists
  <2> HIDE DEF t
  <2>2. 1 \in 1..Len(list) /\ Pcs(list)[1] = Entry(list[1], short) /\ list[1] \in Language
    BY <1>1, <2>1
  <2>3. Pcs(list) # <<>>
    BY <1>1, <2>1
  <2>4. Tail(Pcs(list)) = Pcs(t)
    <3> DEFINE a == Pcs(list)
               b == Pcs(t)
    <3>1. a \in Pieces /\ b \in Pieces /\ a # <<>> /\ Len(b) = Len(t) /\ Len(a) = Len(list)
      BY <1>1, <2>1, <2>3
    <3>2. \A i \in 1..Len(t) : a[i + 1] = b[i]
      BY <1>1, <2>1
    <3> HIDE DEF a, b
    <3>3. Tail(a) \in Pieces /\ Len(Tail(a)) = Len(t) /\ \A i \in 1..Len(t) : Tail(a)[i] = a[i + 1]
      BY <3>1, <2>1, HeadTailProperties DEF Pieces
    <3>4. Tail(a) = b
      BY <3>1, <3>2, <3>3, SeqEqual DEF Pieces
    <3> QED
      BY <3>4 DEF a, b
  <2>5. FlattenSeq(Pcs(list)) = Entry(list[1], short) \o FlattenSeq(Pcs(t))
    <3> HIDE DEF Pcs
    <3> QED
      BY <1>1, <2>2, <2>3, <2>4, FlattenFirst
  <2>6. FlattenSeq(Pcs(t)) \in Seq(Byte) /\ Entry(list[1], short) \in Seq(Byte)
    BY <1>1, <2>1, <2>2, FlattenFirst, EntryBytes
  <2> HIDE DEF Pcs
  <2>7. (Entry(list[1], short) \o FlattenSeq(Pcs(t))) \o <<0>>
            = Entry(list[1], short) \o (FlattenSeq(Pcs(t)) \o <<0>>)
    BY <2>6, <1>0, Regroup
  <2>8. Languages(list, short) = Entry(list[1], short) \o Languages(t, short)
    BY <1>1, <2>1, <2>5, <2>7
  <2> QED
    BY <1>2, <1>4, <2>1, <2>2, <2>8 DEF t
<1> QED
  BY <1>2, <1>3, <1>4

\* A packet as it can be written.
IsPacket(p) ==
    /\ p.kind \in {"number", "string", "enum"}
    /\ DOMAIN p.fields \subseteq Options
    /\ \A o \in DOMAIN p.fields : IsField(o, p.fields[o], p.kind)
    /\ p.changed \subseteq Options /\ p.all \in BOOLEAN
    /\ "value" \in p.changed => "value" \in DOMAIN p.fields

\* The options, in the order they are written in.
LEMMA OptionNames ==
    /\ Len(Order) = 9
    /\ \A i \in 1..9 : Order[i] \in Options
    /\ \A o \in Options : \E i \in 1..9 : Order[i] = o
    /\ Options = {"value", "label", "description", "tags", "order", "parent",
                  "userdata", "userid", "readonly"}
    /\ \A i, j \in 1..9 : Order[i] = Order[j] => i = j
<1>1. Len(Order) = 9
  BY DEF Order
<1>2. \A i \in 1..9 : Order[i] \in Options
  BY <1>1 DEF Options
<1>3. \A o \in Options : \E i \in 1..9 : Order[i] = o
  BY <1>1 DEF Options
<1>4. \A i \in 1..9 : i = 1 \/ i = 2 \/ i = 3 \/ i = 4 \/ i = 5 \/ i = 6 \/ i = 7 \/ i = 8 \/ i = 9
  OBVIOUS
<1>5. /\ Order[1] = "value" /\ Order[2] = "label" /\ Order[3] = "description"
      /\ Order[4] = "tags" /\ Order[5] = "order" /\ Order[6] = "parent"
      /\ Order[7] = "userdata" /\ Order[8] = "userid" /\ Order[9] = "readonly"
  BY DEF Order
<1>6. Options = {"value", "label", "description", "tags", "order", "parent",
                 "userdata", "userid", "readonly"}
  <2>1. \A o \in Options : o \in {"value", "label", "description", "tags", "order", "parent",
                 "userdata", "userid", "readonly"}
    BY <1>3, <1>4, <1>5
  <2>2. 1 \in 1..9 /\ 2 \in 1..9 /\ 3 \in 1..9 /\ 4 \in 1..9 /\ 5 \in 1..9 /\ 6 \in 1..9
        /\ 7 \in 1..9 /\ 8 \in 1..9 /\ 9 \in 1..9
    OBVIOUS
  <2>3. \A o \in {"value", "label", "description", "tags", "order", "parent",
                 "userdata", "userid", "readonly"} : o \in Options
    BY <1>2, <1>5, <2>2
  <2> QED
    BY <2>1, <2>3
<1>7. \A i, j \in 1..9 : Order[i] = Order[j] => i = j
  BY <1>4, <1>5
<1> QED
  BY <1>1, <1>2, <1>3, <1>6, <1>7

\* What is written for an option.
BodyOf(p, o) == IF o \in DOMAIN p.fields THEN Body(o, p.fields[o], p.kind) ELSE Cleared(o)

\* It is bytes.
LEMMA BodyBytes ==
    ASSUME NEW p, IsPacket(p), NEW o \in Options
    PROVE  BodyOf(p, o) \in Seq(Byte)
<1>1. CASE o \in DOMAIN p.fields
  <2> DEFINE v == p.fields[o]
             kind == p.kind
  <2>1. IsField(o, v, kind)
    BY <1>1 DEF IsPacket
  <2> HIDE DEF v, kind
  <2>2. Body(o, v, kind) \in Seq(Byte)
    <3>1. CASE o = "value" /\ kind = "number"
      <4>1. IsInt32(v)
        BY <2>1, <3>1 DEF IsField
      <4>2. v \in Int
        BY <4>1 DEF IsInt32
      <4>3. Body(o, v, kind) = Int32(v)
        BY <3>1 DEF Body
      <4> QED
        BY <4>2, <4>3, NumberBytes
    <3>2. CASE o = "value" /\ kind # "number"
      <4>1. v \in Seq(Byte)
        BY <2>1, <3>2 DEF IsField
      <4> QED
        BY <4>1, <3>2, StringBytes DEF Body
    <3>3. CASE o = "label"
      BY <2>1, <3>3, LanguagesBytes DEF IsField, Body
    <3>4. CASE o = "description"
      BY <2>1, <3>4, LanguagesBytes DEF IsField, Body
    <3>5. CASE o \in {"tags", "userid"}
      <4>1. v \in Seq(Byte)
        BY <2>1, <3>5 DEF IsField
      <4> QED
        BY <4>1, <3>5, StringBytes DEF Body
    <3>6. CASE o = "order"
      BY <2>1, <3>6, NumberBytes DEF IsField, IsInt32, Body
    <3>7. CASE o = "parent"
      BY <2>1, <3>7, NumberBytes DEF IsField, IsInt16, Body
    <3>8. CASE o = "userdata"
      BY <2>1, <3>8 DEF IsField, Body
    <3>9. CASE o = "readonly"
      <4>1. <<0>> \in Seq(Byte) /\ <<1>> \in Seq(Byte)
        BY DEF Byte
      <4>2. v \in {<<0>>, <<1>>}
        BY <2>1, <3>9 DEF IsField
      <4> QED
        BY <4>1, <4>2, <3>9 DEF Body
    <3> QED
      BY <3>1, <3>2, <3>3, <3>4, <3>5, <3>6, <3>7, <3>8, <3>9, OptionNames, Zenon
  <2> QED
    BY <1>1, <2>2 DEF BodyOf, v, kind
<1>2. CASE o \notin DOMAIN p.fields
  <2>1. Int32(0) \in Seq(Byte) /\ Int16(0) \in Seq(Byte) /\ <<0>> \in Seq(Byte)
    BY NumberBytes DEF Byte
  <2> QED
    BY <1>2, <2>1 DEF BodyOf, Cleared
<1> QED
  BY <1>1, <1>2

\* An option is left out, or it is its code and its body.
LEMMA OptionBytes ==
    ASSUME NEW p, IsPacket(p), NEW o \in Options
    PROVE  /\ Code[o] \in Byte /\ Code[o] # 0
           /\ Option(p, o) \in Seq(Byte)
           /\ Option(p, o) # <<>> => Option(p, o) = <<Code[o]>> \o BodyOf(p, o)
           /\ Option(p, o) # <<>> => o \in DOMAIN p.fields \/ o \in p.changed
<1>1. Code[o] \in Byte /\ Code[o] # 0
  BY OptionNames DEF Code, Byte
<1>2. BodyOf(p, o) \in Seq(Byte) /\ <<Code[o]>> \in Seq(Byte)
  BY <1>1, BodyBytes, FirstByte
<1>3. <<Code[o]>> \o BodyOf(p, o) \in Seq(Byte)
  BY <1>2, ConcatProperties
<1>4. <<>> \in Seq(Byte)
  OBVIOUS
<1>5. CASE o \in DOMAIN p.fields /\ (p.all \/ o \in p.changed)
  BY <1>1, <1>3, <1>5 DEF Option, BodyOf
<1>6. CASE o \notin DOMAIN p.fields /\ o \in p.changed
  BY <1>1, <1>3, <1>6 DEF Option, BodyOf
<1>7. CASE ~(o \in DOMAIN p.fields /\ (p.all \/ o \in p.changed)) /\ ~(o \notin DOMAIN p.fields /\ o \in p.changed)
  BY <1>1, <1>4, <1>7 DEF Option
<1> QED
  BY <1>5, <1>6, <1>7

\* The options from the k-th on, and the terminator.
Behind(p, k) == FlattenSeq([i \in 1..(10 - k) |-> Option(p, Order[i + k - 1])]) \o <<0>>

\* All of them is what is written, none of them the terminator, and each of
\* them stands in front of the next.
LEMMA BehindBytes ==
    ASSUME NEW p, IsPacket(p), NEW k \in 1..10
    PROVE  /\ Behind(p, k) \in Seq(Byte)
           /\ Behind(p, 1) = Written(p)
           /\ Behind(p, 10) = <<0>>
           /\ k # 10 => Behind(p, k) = Option(p, Order[k]) \o Behind(p, k + 1)
<1> DEFINE Opts(j) == [i \in 1..(10 - j) |-> Option(p, Order[i + j - 1])]
<1>0. <<0>> \in Seq(Byte)
  BY DEF Byte
<1>1. ASSUME NEW j \in 1..10
      PROVE  /\ Opts(j) \in Pieces /\ Len(Opts(j)) = 10 - j
             /\ Behind(p, j) = FlattenSeq(Opts(j)) \o <<0>>
  <2>1. \A i \in 1..(10 - j) : i + j - 1 \in 1..9
    OBVIOUS
  <2>2. \A i \in 1..(10 - j) : Option(p, Order[i + j - 1]) \in Seq(Byte)
    BY <2>1, OptionNames, OptionBytes
  <2>3. 10 - j \in Nat
    OBVIOUS
  <2>4. Opts(j) \in Pieces /\ Len(Opts(j)) = 10 - j
    BY <2>2, <2>3 DEF Pieces
  <2> QED
    BY <2>4 DEF Behind
<1>2. ASSUME NEW j \in 1..10 PROVE Behind(p, j) \in Seq(Byte)
  <2>1. FlattenSeq(Opts(j)) \in Seq(Byte)
    BY <1>1, FlattenFirst
  <2> QED
    BY <1>0, <1>1, <2>1, ConcatProperties
<1>3. Behind(p, 1) = Written(p)
  <2>1. Opts(1) = [i \in 1..Len(Order) |-> Option(p, Order[i])]
    <3>1. 1..(10 - 1) = 1..Len(Order)
      BY OptionNames
    <3>2. \A i \in 1..(10 - 1) : i + 1 - 1 = i
      OBVIOUS
    <3> QED
      BY <3>1, <3>2
  <2>2. 1 \in 1..10
    OBVIOUS
  <2> HIDE DEF Opts
  <2> QED
    BY <1>1, <2>1, <2>2 DEF Written, Terminator
<1>4. Behind(p, 10) = <<0>>
  <2>0. 10 \in 1..10 /\ 10 - 10 = 0
    OBVIOUS
  <2>1. Opts(10) \in Pieces /\ Len(Opts(10)) = 10 - 10 /\ Behind(p, 10) = FlattenSeq(Opts(10)) \o <<0>>
    BY <1>1, <2>0
  <2> HIDE DEF Opts
  <2>2. Opts(10) = <<>>
    BY <2>1, EmptySeq DEF Pieces
  <2>3. FlattenSeq(Opts(10)) = <<>>
    BY <2>1, <2>2, FlattenFirst
  <2> QED
    BY <1>0, <2>1, <2>3, ConcatEmptySeq
<1>5. ASSUME k # 10 PROVE Behind(p, k) = Option(p, Order[k]) \o Behind(p, k + 1)
  <2> DEFINE a == Opts(k)
             b == Opts(k + 1)
  <2>0. k + 1 \in 1..10 /\ k \in 1..9
    BY <1>5
  <2>1. /\ a \in Pieces /\ Len(a) = 10 - k /\ b \in Pieces /\ Len(b) = 10 - (k + 1)
        /\ Behind(p, k) = FlattenSeq(a) \o <<0>>
        /\ Behind(p, k + 1) = FlattenSeq(b) \o <<0>>
    BY <1>1, <2>0
  <2>2. a[1] = Option(p, Order[k])
    BY <2>0
  <2>3. \A i \in 1..Len(b) : b[i] = a[i + 1]
    <3>1. ASSUME NEW i \in 1..(10 - (k + 1)) PROVE b[i] = a[i + 1]
      <4>1. i + 1 \in 1..(10 - k) /\ (i + 1) + k - 1 = i + (k + 1) - 1
        BY <2>0
      <4> QED
        BY <4>1
    <3> HIDE DEF a, b
    <3> QED
      BY <2>1, <3>1
  <2> HIDE DEF a, b
  <2>4. a # <<>>
    BY <2>0, <2>1
  <2>5. Tail(a) = b
    <3>1. Tail(a) \in Pieces /\ Len(Tail(a)) = Len(b) /\ \A i \in 1..Len(b) : Tail(a)[i] = a[i + 1]
      BY <2>0, <2>1, <2>4, HeadTailProperties DEF Pieces
    <3> QED
      BY <2>1, <2>3, <3>1, SeqEqual DEF Pieces
  <2>6. /\ FlattenSeq(a) = Option(p, Order[k]) \o FlattenSeq(b)
        /\ FlattenSeq(b) \in Seq(Byte) /\ Option(p, Order[k]) \in Seq(Byte)
    BY <2>1, <2>2, <2>4, <2>5, FlattenFirst
  <2>7. (Option(p, Order[k]) \o FlattenSeq(b)) \o <<0>>
            = Option(p, Order[k]) \o (FlattenSeq(b) \o <<0>>)
    BY <1>0, <2>6, Regroup
  <2> QED
    BY <2>1, <2>6, <2>7
<1> QED
  BY <1>2, <1>3, <1>4, <1>5

-----------------------------------------------------------------------------
(* The types *)

\* What is left of a stream of bytes is one.
LEMMA FromBytes ==
    ASSUME NEW s \in Seq(Byte), NEW n \in Nat, n >= 1
    PROVE  From(s, n) \in Seq(Byte)
<1>1. Len(s) \in Nat /\ \A i \in n..Len(s) : s[i] \in Byte
  BY LenProperties
<1> QED
  BY <1>1, SubSeqProperties DEF From

\* Whatever size is read, the rest is bytes.
LEMMA FilledBytes ==
    ASSUME NEW s \in Seq(Byte), NEW n, NEW width, NEW r \in Filled(n, width, s)
    PROVE  r.rest \in Seq(Byte)
<1>1. <<>> \in Seq(Byte)
  OBVIOUS
<1>2. Eof.rest = <<>> /\ Throws.rest = <<>>
  BY DEF Eof, Throws
<1>3. CASE n \in 0..Len(s)
  <2>1. n \in Nat /\ n + 1 \in Nat /\ n + 1 >= 1
    BY <1>3, LenNat
  <2>2. From(s, n + 1) \in Seq(Byte)
    BY <2>1, FromBytes
  <2>3. r = Text(SubSeq(s, 1, n), From(s, n + 1))
    BY <1>3 DEF Filled
  <2> QED
    BY <2>2, <2>3 DEF Text
<1>4. CASE n \notin 0..Len(s)
  <2>1. r = Eof \/ r = Throws
    BY <1>4 DEF Filled, Unfilled
  <2> QED
    BY <1>1, <1>2, <2>1
<1> QED
  BY <1>3, <1>4

\* ... and whatever its width.
LEMMA SizedBytes ==
    ASSUME NEW s \in Seq(Byte), NEW n, NEW width \in Nat, NEW r \in Sized(width, s, n)
    PROVE  r.rest \in Seq(Byte)
<1>1. CASE Len(s) >= width
  <2>1. width + 1 \in Nat /\ width + 1 >= 1
    OBVIOUS
  <2>2. From(s, width + 1) \in Seq(Byte)
    BY <2>1, FromBytes
  <2>3. r \in Filled(n, width, From(s, width + 1))
    BY <1>1 DEF Sized
  <2> QED
    BY <2>2, <2>3, FilledBytes
<1>2. CASE ~(Len(s) >= width)
  <2>1. r = Eof \/ r = Throws
    BY <1>2 DEF Sized, Unfilled
  <2>2. Eof.rest = <<>> /\ Throws.rest = <<>> /\ <<>> \in Seq(Byte)
    BY DEF Eof, Throws
  <2> QED
    BY <2>1, <2>2
<1> QED
  BY <1>1, <1>2

\* The readers of numbers.
LEMMA FixedBytes ==
    ASSUME NEW s \in Seq(Byte), NEW width \in Nat, NEW r \in Fixed(width, s)
    PROVE  r.rest \in Seq(Byte)
<1>1. From(s, width + 1) \in Seq(Byte)
  <2>1. width + 1 \in Nat /\ width + 1 >= 1
    OBVIOUS
  <2> QED
    BY <2>1, FromBytes
<1>2. CASE Len(s) < width
  <2>1. r = Eof
    BY <1>2 DEF Fixed
  <2>2. Eof.rest = <<>> /\ <<>> \in Seq(Byte)
    BY DEF Eof
  <2> QED
    BY <2>1, <2>2
<1>3. CASE ~(Len(s) < width)
  <2>1. r = Text(Number(SubSeq(s, 1, width)), From(s, width + 1))
    BY <1>3 DEF Fixed
  <2> QED
    BY <1>1, <2>1 DEF Text
<1> QED
  BY <1>2, <1>3

\* The readers of strings.
LEMMA ReadBytes ==
    ASSUME NEW s \in Seq(Byte)
    PROVE  /\ \A r \in ReadTinyString(s) : r.rest \in Seq(Byte)
           /\ \A r \in ReadShortString(s) : r.rest \in Seq(Byte)
           /\ \A r \in ReadLongString(s) : r.rest \in Seq(Byte)
<1>1. 1 \in Nat /\ 2 \in Nat /\ 4 \in Nat
  OBVIOUS
<1>2. \A r \in ReadTinyString(s) : r.rest \in Seq(Byte)
  BY <1>1, SizedBytes DEF ReadTinyString
<1>3. \A r \in ReadShortString(s) : r.rest \in Seq(Byte)
  BY <1>1, SizedBytes DEF ReadShortString
<1>4. \A r \in ReadLongString(s) : r.rest \in Seq(Byte)
  BY <1>1, SizedBytes DEF ReadLongString
<1> QED
  BY <1>2, <1>3, <1>4

Modes == {"unsent", "options", "label", "description"} \cup Ends

TypeInv ==
    /\ packet \in Packets
    /\ mode \in Modes
    /\ stream \in Seq(Byte)
    /\ DOMAIN got \subseteq Options

\* Every packet is one that can be written.
LEMMA Packet == TypeInv => IsPacket(packet)
BY PacketsTyped DEF TypeInv, IsPacket

\* Reading an option keeps the types.
LEMMA TakeTypes ==
    ASSUME TypeInv, NEW o \in Options, NEW outcomes,
           \A r \in outcomes : r.rest \in Seq(Byte),
           Take(o, outcomes), UNCHANGED packet
    PROVE  TypeInv'
<1>1. PICK r \in outcomes :
        \/ r.how = "text" /\ Keep(o, r.text) /\ stream' = r.rest /\ mode' = "options"
        \/ Fail(r)
  BY DEF Take
<1>2. r.rest \in Seq(Byte) /\ <<>> \in Seq(Byte)
  OBVIOUS
<1>3. CASE Keep(o, r.text) /\ stream' = r.rest /\ mode' = "options"
  <2>1. DOMAIN got' = DOMAIN got \cup {o}
    BY <1>3 DEF Keep
  <2> QED
    BY <1>2, <1>3, <2>1 DEF TypeInv, Modes
<1>4. CASE Fail(r)
  BY <1>2, <1>4 DEF TypeInv, Modes, Fail, Stop, Ends
<1> QED
  BY <1>1, <1>3, <1>4

\* A code is in front of the rest of the stream.
LEMMA FoundTail ==
    ASSUME TypeInv, NEW o \in Options, Found(o)
    PROVE  stream # <<>> /\ Head(stream) = Code[o] /\ Tail(stream) \in Seq(Byte)
<1>1. Code[o] # 0
  BY OptionNames DEF Code
<1>2. stream # <<>> /\ Head(stream) = Code[o]
  BY <1>1 DEF Found, Prefix, Terminator
<1> QED
  BY <1>2, HeadTailProperties DEF TypeInv

\* Every step keeps the types.
LEMMA NextTypes ==
    ASSUME TypeInv, [Next]_vars
    PROVE  TypeInv'
<1>0. /\ "value" \in Options /\ "label" \in Options /\ "description" \in Options
      /\ "tags" \in Options /\ "order" \in Options /\ "parent" \in Options
      /\ "userdata" \in Options /\ "userid" \in Options /\ "readonly" \in Options
  BY OptionNames
<1>1. stream \in Seq(Byte) /\ <<>> \in Seq(Byte) /\ IsPacket(packet)
  BY Packet DEF TypeInv
<1>2. CASE Write
  <2>1. 1 \in 1..10
    OBVIOUS
  <2>2. Written(packet) \in Seq(Byte)
    BY <1>1, <2>1, BehindBytes
  <2> QED
    BY <1>2, <2>2 DEF Write, TypeInv, Modes
<1>3. CASE ParseEnd
  BY <1>1, <1>3 DEF ParseEnd, Stop, TypeInv, Modes, Ends
<1>4. CASE ParseValue
  <2>1. Tail(stream) \in Seq(Byte)
    BY <1>0, <1>4, FoundTail DEF ParseValue
  <2>2. packet.kind \in {"number", "string", "enum"} /\ 4 \in Nat
    BY <1>1 DEF IsPacket
  <2> DEFINE outcomes == CASE packet.kind = "number" -> Fixed(4, Tail(stream))
                           [] packet.kind = "string" -> ReadLongString(Tail(stream))
                           [] packet.kind = "enum"   -> ReadTinyString(Tail(stream))
  <2>3. \A r \in outcomes : r.rest \in Seq(Byte)
    <3>1. CASE packet.kind = "number"
      BY <2>1, <2>2, <3>1, FixedBytes
    <3>2. CASE packet.kind = "string"
      BY <2>1, <3>2, ReadBytes
    <3>3. CASE packet.kind = "enum"
      BY <2>1, <3>3, ReadBytes
    <3> QED
      BY <2>2, <3>1, <3>2, <3>3
  <2>4. Take("value", outcomes) /\ UNCHANGED packet
    BY <1>4 DEF ParseValue
  <2> HIDE DEF outcomes
  <2> QED
    BY <1>0, <2>3, <2>4, TakeTypes
<1>5. CASE ParseLanguages
  <2>1. PICK o \in {"label", "description"} :
          Found(o) /\ mode' = o /\ stream' = Tail(stream) /\ UNCHANGED <<packet, got>>
    BY <1>5 DEF ParseLanguages
  <2>2. Tail(stream) \in Seq(Byte)
    BY <1>0, <2>1, FoundTail
  <2> QED
    BY <2>1, <2>2 DEF TypeInv, Modes
<1>6. CASE ReadLanguage
  <2> DEFINE text == From(stream, 4)
             outcomes == IF mode = "label" THEN ReadTinyString(text) ELSE ReadShortString(text)
             list == IF mode \in DOMAIN got THEN got[mode] ELSE <<>>
             peek == IF stream = <<>> THEN -1 ELSE Head(stream)
  <2>0. packet' = packet /\ mode \in {"label", "description"}
    BY <1>6 DEF ReadLanguage
  <2>1. text \in Seq(Byte)
    <3>1. 4 \in Nat /\ 4 >= 1
      OBVIOUS
    <3> QED
      BY <1>1, <3>1, FromBytes
  <2> HIDE DEF text
  <2>2. \A r \in outcomes : r.rest \in Seq(Byte)
    BY <2>1, ReadBytes
  <2> HIDE DEF outcomes
  <2>3. CASE peek = 0
    <3>1. mode' = "options" /\ stream' = Tail(stream) /\ UNCHANGED got
      BY <1>6, <2>3 DEF ReadLanguage
    <3>2. stream # <<>>
      BY <2>3
    <3>3. Tail(stream) \in Seq(Byte)
      BY <1>1, <3>2, HeadTailProperties
    <3> QED
      BY <2>0, <3>1, <3>3 DEF TypeInv, Modes
  <2>4. CASE peek # 0 /\ Len(stream) < 3
    <3>1. Stop("done") /\ UNCHANGED got
      BY <1>6, <2>4 DEF ReadLanguage
    <3> QED
      BY <1>1, <2>0, <3>1 DEF TypeInv, Modes, Stop, Ends
  <2>5. CASE peek # 0 /\ ~(Len(stream) < 3)
    <3>1. \E r \in outcomes :
            \/ /\ r.how = "text"
               /\ Keep(mode, Append(list, <<SubSeq(stream, 1, 3), r.text>>))
               /\ stream' = r.rest /\ UNCHANGED mode
            \/ Fail(r)
      BY <1>6, <2>5 DEF ReadLanguage, outcomes, text
    <3>2. PICK r \in outcomes :
            \/ /\ r.how = "text"
               /\ Keep(mode, Append(list, <<SubSeq(stream, 1, 3), r.text>>))
               /\ stream' = r.rest /\ UNCHANGED mode
            \/ Fail(r)
      BY <3>1
    <3>3. r.rest \in Seq(Byte)
      BY <2>2
    <3>4. CASE Fail(r)
      BY <1>1, <2>0, <3>4 DEF TypeInv, Modes, Fail, Stop, Ends
    <3>5. CASE Keep(mode, Append(list, <<SubSeq(stream, 1, 3), r.text>>)) /\ stream' = r.rest /\ UNCHANGED mode
      <4>1. DOMAIN got' = DOMAIN got \cup {mode}
        BY <3>5 DEF Keep
      <4> QED
        BY <1>0, <2>0, <3>3, <3>5, <4>1 DEF TypeInv
    <3> QED
      BY <3>2, <3>4, <3>5
  <2> QED
    BY <2>3, <2>4, <2>5
<1>7. CASE ParseText
  <2>1. PICK o \in {"tags", "userid"} :
          Found(o) /\ Take(o, ReadTinyString(Tail(stream))) /\ UNCHANGED packet
    BY <1>7 DEF ParseText
  <2>2. Tail(stream) \in Seq(Byte) /\ o \in Options
    BY <1>0, <2>1, FoundTail
  <2>3. \A r \in ReadTinyString(Tail(stream)) : r.rest \in Seq(Byte)
    BY <2>2, ReadBytes
  <2> QED
    BY <2>1, <2>2, <2>3, TakeTypes
<1>8. CASE ParseFixed
  <2>0. 4 \in Nat /\ 1 \in Nat
    OBVIOUS
  <2>1. PICK o \in {"order", "readonly"}, w \in {4, 1} :
          Found(o) /\ Take(o, Fixed(w, Tail(stream))) /\ UNCHANGED packet
    BY <1>8 DEF ParseFixed
  <2>2. Tail(stream) \in Seq(Byte) /\ o \in Options /\ w \in Nat
    BY <1>0, <2>0, <2>1, FoundTail
  <2>3. \A r \in Fixed(w, Tail(stream)) : r.rest \in Seq(Byte)
    BY <2>2, FixedBytes
  <2> QED
    BY <2>1, <2>2, <2>3, TakeTypes
<1>9. CASE ParseParent
  <2>0. 2 \in Nat
    OBVIOUS
  <2>1. Tail(stream) \in Seq(Byte) /\ packet' = packet
    BY <1>0, <1>9, FoundTail DEF ParseParent
  <2>2. PICK r \in Fixed(2, Tail(stream)) :
          \/ stream' = r.rest /\ UNCHANGED <<mode, got>>
          \/ Take("parent", {r})
    BY <1>9 DEF ParseParent
  <2>3. r.rest \in Seq(Byte)
    BY <2>0, <2>1, FixedBytes
  <2>4. CASE stream' = r.rest /\ UNCHANGED <<mode, got>>
    BY <2>1, <2>3, <2>4 DEF TypeInv
  <2>5. CASE Take("parent", {r})
    <3>1. \A x \in {r} : x.rest \in Seq(Byte)
      BY <2>3
    <3> QED
      BY <1>0, <2>1, <2>5, <3>1, TakeTypes
  <2> QED
    BY <2>2, <2>4, <2>5
<1>10. CASE ParseUserdata
  <2>0. 4 \in Nat
    OBVIOUS
  <2>1. Tail(stream) \in Seq(Byte) /\ packet' = packet
    BY <1>0, <1>10, FoundTail DEF ParseUserdata
  <2>2. PICK r \in Sized(4, Tail(stream), Signed32(Tail(stream))) :
          \/ Keep("userdata", From(stream, 6)) /\ Stop("done")
          \/ Take("userdata", {r})
    BY <1>10 DEF ParseUserdata
  <2>3. r.rest \in Seq(Byte)
    BY <2>0, <2>1, SizedBytes
  <2>4. CASE Keep("userdata", From(stream, 6)) /\ Stop("done")
    <3>1. DOMAIN got' = DOMAIN got \cup {"userdata"}
      BY <2>4 DEF Keep
    <3> QED
      BY <1>0, <1>1, <2>1, <2>4, <3>1 DEF TypeInv, Modes, Stop, Ends
  <2>5. CASE Take("userdata", {r})
    <3>1. \A x \in {r} : x.rest \in Seq(Byte)
      BY <2>3
    <3> QED
      BY <1>0, <2>1, <2>5, <3>1, TakeTypes
  <2> QED
    BY <2>2, <2>4, <2>5
<1>11. CASE SkipWidget
  <2>1. stream # <<>>
    BY <1>11 DEF SkipWidget, Found, Prefix, Terminator, Code
  <2>2. Tail(stream) \in Seq(Byte)
    BY <1>1, <2>1, HeadTailProperties
  <2> QED
    BY <1>11, <2>2 DEF SkipWidget, TypeInv
<1>12. CASE ParseUnknown
  BY <1>1, <1>12 DEF ParseUnknown, Stop, TypeInv, Modes, Ends
<1>13. CASE UNCHANGED vars
  BY <1>13 DEF vars, TypeInv
<1> QED
  BY <1>2, <1>3, <1>4, <1>5, <1>6, <1>7, <1>8, <1>9, <1>10, <1>11, <1>12, <1>13 DEF Next, Parse

\* For every packet the stream holds bytes, and the parser sets nothing but
\* options.
THEOREM OptionTypes == Spec => []TypeOK
<1>1. Init => TypeInv
  BY DEF Init, TypeInv, Modes, NoOptions
<1>2. TypeInv /\ [Next]_vars => TypeInv'
  BY NextTypes
<1>3. TypeInv => TypeOK
  <2> SUFFICES ASSUME TypeInv PROVE TypeOK
    OBVIOUS
  <2>1. \A i \in 1..Len(stream) : stream[i] \in Byte
    BY ElementOfSeq DEF TypeInv
  <2> QED
    BY <2>1 DEF TypeInv, TypeOK, Modes
<1> QED
  BY <1>1, <1>2, <1>3, PTL DEF Spec

-----------------------------------------------------------------------------
(* The parser reads an option as it was written *)

\* The bytes of a number or a flag are taken off the stream.
LEMMA FixedFront ==
    ASSUME NEW a \in Seq(Byte), NEW rest \in Seq(Byte)
    PROVE  Fixed(Len(a), a \o rest) = {Text(Number(a), rest)}
<1>1. /\ ~(Len(a \o rest) < Len(a))
      /\ SubSeq(a \o rest, 1, Len(a)) = a
      /\ From(a \o rest, Len(a) + 1) = rest
  <2>1. Len(a) \in Nat /\ Len(rest) \in Nat
    BY LenProperties
  <2> QED
    BY <2>1, FrontAndBack
<1> QED
  BY <1>1 DEF Fixed

\* A number of 32 bits, one of 16 bits, and a flag.
LEMMA FixedArrives ==
    ASSUME NEW rest \in Seq(Byte)
    PROVE  /\ \A n : IsInt32(n) => Fixed(4, Int32(n) \o rest) = {Text(n, rest)}
           /\ \A n : IsInt16(n) => Fixed(2, Int16(n) \o rest) = {Text(n, rest)}
           /\ \A b \in Byte : Fixed(1, <<b>> \o rest) = {Text(<<b>>, rest)}
<1>1. ASSUME NEW n, IsInt32(n) PROVE Fixed(4, Int32(n) \o rest) = {Text(n, rest)}
  <2> DEFINE a == Int32(n)
  <2>1. n \in Int /\ -32768 <= n \div 65536 /\ n \div 65536 <= 32767
    BY <1>1 DEF IsInt32, IsInt16
  <2>2. a \in Seq(Byte) /\ Len(a) = 4 /\ Signed32(a) = n
    BY <2>1, LongBytes
  <2> HIDE DEF a
  <2>3. Number(a) = n
    BY <2>2 DEF Number
  <2>4. Fixed(Len(a), a \o rest) = {Text(Number(a), rest)}
    BY <2>2, FixedFront
  <2> QED
    BY <2>2, <2>3, <2>4 DEF a
<1>2. ASSUME NEW n, IsInt16(n) PROVE Fixed(2, Int16(n) \o rest) = {Text(n, rest)}
  <2> DEFINE a == Int16(n)
  <2>1. n \in Int /\ -32768 <= n /\ n <= 65535 /\ n <= 32767
    BY <1>2 DEF IsInt16
  <2>2. a \in Seq(Byte) /\ Len(a) = 2 /\ Signed16(a) = n
    BY <2>1, ShortBytes
  <2> HIDE DEF a
  <2>3. Number(a) = n
    BY <2>2 DEF Number
  <2>4. Fixed(Len(a), a \o rest) = {Text(Number(a), rest)}
    BY <2>2, FixedFront
  <2> QED
    BY <2>2, <2>3, <2>4 DEF a
<1>3. ASSUME NEW b \in Byte PROVE Fixed(1, <<b>> \o rest) = {Text(<<b>>, rest)}
  <2> DEFINE a == <<b>>
  <2>1. a \in Seq(Byte) /\ Len(a) = 1
    BY FirstByte
  <2> HIDE DEF a
  <2>2. Number(a) = a
    BY <2>1 DEF Number
  <2>3. Fixed(Len(a), a \o rest) = {Text(Number(a), rest)}
    BY <2>1, FixedFront
  <2> QED
    BY <2>1, <2>2, <2>3 DEF a
<1> QED
  BY <1>1, <1>2, <1>3

\* Nothing, as a string and as data.
LEMMA NothingArrives ==
    ASSUME NEW rest \in Seq(Byte)
    PROVE  /\ ReadTinyString(<<0>> \o rest) = {Text(<<>>, rest)}
           /\ ReadLongString(Int32(0) \o rest) = {Text(<<>>, rest)}
<1> DEFINE e == <<>>
<1>1. e \in Seq(Byte) /\ Len(e) = 0
  OBVIOUS
<1>2. <<0>> \in Seq(Byte)
  BY DEF Byte
<1>3. TinyString(e) = <<0>>
  <2>1. <<0>> \o e = <<0>>
    BY <1>2, ConcatEmptySeq
  <2> QED
    BY <1>1, <2>1 DEF TinyString
<1> DEFINE z == Int32(0)
<1>4. z \in Seq(Byte) /\ Len(z) = 4 /\ Signed32(z) = 0
  <2>1. 0 \in Int /\ -32768 <= 0 \div 65536 /\ 0 \div 65536 <= 32767
    OBVIOUS
  <2> QED
    BY <2>1, LongBytes
<1> HIDE DEF e, z
<1>5. z \o e = z
  BY <1>4, ConcatEmptySeq DEF e
<1>6. ReadTinyString(TinyString(e) \o rest) = {Text(e, rest)}
  <2>1. Len(e) < 128
    BY <1>1
  <2> QED
    BY <1>1, <2>1, TinyStringArrives, Zenon
<1>7. ReadLongString((z \o e) \o rest) = {Text(e, rest)}
  <2>1. Signed32(z) = Len(e)
    BY <1>1, <1>4
  <2> QED
    BY <1>1, <1>4, <2>1, LongSized
<1> QED
  BY <1>3, <1>5, <1>6, <1>7 DEF e, z

\* A long string whose length is a number of 32 bits.
LEMMA LongArrives ==
    ASSUME NEW s \in Seq(Byte), IsInt32(Len(s)), NEW rest \in Seq(Byte)
    PROVE  ReadLongString(LongString(s) \o rest) = {Text(s, rest)}
<1>1. Len(s) \div 65536 <= 32767
  BY DEF IsInt32, IsInt16
<1> QED
  BY <1>1, LongStringArrives

\* The texts of languages are short strings, those of descriptions long ones.
ReadText(text, long) == IF long THEN ReadShortString(text) ELSE ReadTinyString(text)
Limit(long) == IF long THEN 65535 ELSE 128

\* Three letters in front of a stream are not its terminator.
LEMMA EntryShape ==
    ASSUME NEW c \in Seq(Byte), Len(c) = 3, c[1] # 0, NEW body \in Seq(Byte)
    PROVE  /\ c \o body \in Seq(Byte) /\ c \o body # <<>>
           /\ Head(c \o body) # 0 /\ ~(Len(c \o body) < 3)
           /\ SubSeq(c \o body, 1, 3) = c /\ From(c \o body, 4) = body
<1> DEFINE s == c \o body
<1>1. s \in Seq(Byte) /\ Len(s) >= 3 /\ s[1] = c[1]
  <2>1. 1 \in 1..Len(c)
    OBVIOUS
  <2> QED
    BY <2>1, InFront
<1>2. SubSeq(s, 1, Len(c)) = c /\ From(s, Len(c) + 1) = body
  BY FrontAndBack
<1> HIDE DEF s
<1>3. SubSeq(s, 1, 3) = c /\ From(s, 4) = body
  <2>1. Len(c) = 3 /\ Len(c) + 1 = 4
    OBVIOUS
  <2> QED
    BY <1>2, <2>1
<1>4. s # <<>> /\ Head(s) # 0 /\ ~(Len(s) < 3)
  <2>1. Len(s) \in Nat
    BY <1>1, LenProperties
  <2> QED
    BY <1>1, <2>1
<1> QED
  BY <1>1, <1>3, <1>4 DEF s

\* A language is read as a code and a text.
LEMMA EntryArrives ==
    ASSUME NEW l \in Language, NEW rest \in Seq(Byte), NEW short \in BOOLEAN
    PROVE  LET s == Entry(l, short) \o rest
           IN  /\ s \in Seq(Byte) /\ s # <<>> /\ Head(s) # 0 /\ ~(Len(s) < 3)
               /\ SubSeq(s, 1, 3) = l[1]
               /\ Len(l[2]) < Limit(short) => ReadText(From(s, 4), short) = {Text(l[2], rest)}
<1> DEFINE c == l[1]
           t == l[2]
           b == IF short THEN ShortString(t) ELSE TinyString(t)
           body == b \o rest
           s == Entry(l, short) \o rest
<1>1. c \in Seq(Byte) /\ Len(c) = 3 /\ c[1] # 0 /\ t \in Seq(Byte)
  BY CodeBytes
<1>2. b \in Seq(Byte)
  BY <1>1, StringBytes
<1>3. s = (c \o b) \o rest
  BY DEF Entry
<1> HIDE DEF b, s, c
<1>4. body \in Seq(Byte) /\ s = c \o body
  BY <1>1, <1>2, <1>3, ConcatProperties, Regroup
<1> HIDE DEF body
<1>5. /\ s \in Seq(Byte) /\ s # <<>> /\ Head(s) # 0 /\ ~(Len(s) < 3)
      /\ SubSeq(s, 1, 3) = c /\ From(s, 4) = body
  BY <1>1, <1>4, EntryShape
<1>6. Len(t) < Limit(short) => ReadText(body, short) = {Text(t, rest)}
  <2>1. CASE short
    BY <1>1, <2>1, ShortStringArrives DEF body, b, Limit, ReadText
  <2>2. CASE ~short
    BY <1>1, <2>2, TinyStringArrives DEF body, b, Limit, ReadText
  <2> QED
    BY <2>1, <2>2
<1> QED
  BY <1>5, <1>6 DEF s, c

-----------------------------------------------------------------------------
(* The parser stays in step *)

\* All options that are sent fit.
Fit == \A o \in Options : Option(packet, o) # <<>> => Fits(o)

\* The i-th option has arrived; it has not been read.
Gotten(i) == LET o == Order[i] IN Meant(o) = IF o \in DOMAIN got THEN {got[o]} ELSE {}
Missing(i) == Order[i] \notin DOMAIN got

\* Those before the k-th were read, but maybe the one that is being read.
ReadTo(k, but) == \A i \in (1..9) \ but : IF i < k THEN Gotten(i) ELSE Missing(i)

ListOf(o) == IF o \in DOMAIN packet.fields THEN packet.fields[o] ELSE <<>>

\* Of the list of the k-th option done was read and todo was not.
InList(k, done, todo) ==
    /\ ListOf(mode) = done \o todo
    /\ stream = Languages(todo, mode = "description") \o Behind(packet, k + 1)
    /\ IF done = <<>> THEN mode \notin DOMAIN got ELSE mode \in DOMAIN got /\ got[mode] = done
    /\ ReadTo(k, {k})

\* The parser is at the k-th option, in a list, or through.
StepInv ==
    \/ mode = "unsent" /\ DOMAIN got = {}
    \/ mode = "options" /\ \E k \in 1..10 : stream = Behind(packet, k) /\ ReadTo(k, {})
    \/ /\ mode \in {"label", "description"}
       /\ \E k \in 1..9 : /\ Order[k] = mode /\ Option(packet, mode) # <<>>
                          /\ \E done, todo \in LanguageLists : InList(k, done, todo)
    \/ mode = "done" /\ ReadTo(10, {})

\* In front of the k-th option, which is sent.
AtOption(k) ==
    /\ mode = "options" /\ k \in 1..9 /\ ReadTo(k, {})
    /\ Option(packet, Order[k]) # <<>>
    /\ stream = <<Code[Order[k]]>> \o (BodyOf(packet, Order[k]) \o Behind(packet, k + 1))

AtEnd == mode = "options" /\ stream = <<0>> /\ ReadTo(10, {})

\* Options that are left out leave nothing to be read.
LEMMA NextOption ==
    ASSUME IsPacket(packet), mode = "options",
           NEW k \in 1..10, stream = Behind(packet, k), ReadTo(k, {})
    PROVE  AtEnd \/ \E j \in 1..9 : AtOption(j)
<1> DEFINE At(j) == stream = Behind(packet, j) /\ ReadTo(j, {})
           T == {d \in Nat : d <= 9 /\ At(10 - d)}
<1>1. 10 - k \in T
  <2>1. 10 - k \in Nat /\ 10 - k <= 9 /\ 10 - (10 - k) = k
    OBVIOUS
  <2> QED
    BY <2>1
<1>2. PICK d \in T : \A e \in T : d <= e
  <2> HIDE DEF T
  <2>1. T \subseteq Nat
    BY DEF T
  <2> QED
    BY <1>1, <2>1, NatLeast
<1> DEFINE j == 10 - d
<1>3. d \in Nat /\ j \in 1..10 /\ At(j)
  BY <1>2
<1>4. CASE j = 10
  <2>1. 10 \in 1..10
    OBVIOUS
  <2>2. Behind(packet, 10) = <<0>>
    BY <2>1, BehindBytes
  <2>3. stream = Behind(packet, 10) /\ ReadTo(10, {})
    BY <1>3, <1>4
  <2> QED
    BY <2>2, <2>3 DEF AtEnd
<1>5. CASE j # 10
  <2> DEFINE o == Order[j]
  <2>1. j \in 1..9 /\ j + 1 \in 1..10 /\ o \in Options
    BY <1>3, <1>5, OptionNames
  <2>2. /\ Behind(packet, j) = Option(packet, o) \o Behind(packet, j + 1)
        /\ Behind(packet, j + 1) \in Seq(Byte)
    BY <1>3, <1>5, <2>1, BehindBytes
  <2>3. CASE Option(packet, o) = <<>>
    <3>1. Behind(packet, j) = Behind(packet, j + 1)
      BY <2>2, <2>3, ConcatEmptySeq
    <3>2. ReadTo(j + 1, {})
      <4>1. ASSUME NEW i \in 1..9 PROVE IF i < j + 1 THEN Gotten(i) ELSE Missing(i)
        <5>1. IF i < j THEN Gotten(i) ELSE Missing(i)
          BY <1>3 DEF ReadTo
        <5>2. CASE i = j
          <6>1. Missing(j)
            BY <5>1, <5>2
          <6>2. Meant(o) = {}
            BY <2>3 DEF Meant
          <6>3. Gotten(j)
            BY <6>1, <6>2 DEF Missing, Gotten
          <6> QED
            BY <5>2, <6>3, <2>1
        <5>3. CASE i # j
          BY <5>1, <5>3, <2>1
        <5> QED
          BY <5>2, <5>3
      <4> HIDE DEF j
      <4> QED
        BY <4>1 DEF ReadTo
    <3>3. d - 1 \in Nat /\ d - 1 <= 9 /\ 10 - (d - 1) = j + 1 /\ ~(d <= d - 1)
      BY <1>3, <2>1
    <3>4. At(10 - (d - 1))
      <4>1. stream = Behind(packet, j + 1)
        BY <1>3, <3>1
      <4> HIDE DEF j
      <4> QED
        BY <3>2, <3>3, <4>1
    <3>5. d - 1 \in T
      <4> HIDE DEF At, j
      <4> QED
        BY <3>3, <3>4
    <3> QED
      BY <1>2, <3>3, <3>5
  <2>4. CASE Option(packet, o) # <<>>
    <3> DEFINE rest == Behind(packet, j + 1)
               b == BodyOf(packet, o)
    <3>1. Option(packet, o) = <<Code[o]>> \o b /\ Code[o] \in Byte
      BY <2>1, <2>4, OptionBytes
    <3>2. b \in Seq(Byte) /\ <<Code[o]>> \in Seq(Byte) /\ rest \in Seq(Byte)
      BY <2>1, <2>2, <3>1, BodyBytes, FirstByte
    <3> HIDE DEF rest, b
    <3>3. (<<Code[o]>> \o b) \o rest = <<Code[o]>> \o (b \o rest)
      BY <3>2, Regroup
    <3>4. stream = <<Code[o]>> \o (b \o rest)
      BY <1>3, <2>2, <3>1, <3>3 DEF rest
    <3>5. AtOption(j)
      <4> HIDE DEF j
      <4> QED
        BY <1>3, <2>1, <2>4, <3>4 DEF AtOption, rest, b
    <3> QED
      BY <2>1, <3>5
  <2> QED
    BY <2>3, <2>4
<1> QED
  BY <1>4, <1>5

\* What the parser finds there.
LEMMA AtOptionFinds ==
    ASSUME IsPacket(packet), NEW k, AtOption(k)
    PROVE  /\ k \in 1..9 /\ Order[k] \in Options
           /\ Prefix = Code[Order[k]]
           /\ Tail(stream) = BodyOf(packet, Order[k]) \o Behind(packet, k + 1)
           /\ BodyOf(packet, Order[k]) \in Seq(Byte)
           /\ Behind(packet, k + 1) \in Seq(Byte)
<1> DEFINE o == Order[k]
           rest == Behind(packet, k + 1)
           b == BodyOf(packet, o)
           tail == b \o rest
           c == Code[o]
<1>1. k \in 1..9 /\ k + 1 \in 1..10 /\ o \in Options
  BY OptionNames DEF AtOption
<1>2. c \in Byte /\ b \in Seq(Byte) /\ rest \in Seq(Byte)
  BY <1>1, OptionBytes, BodyBytes, BehindBytes
<1>3. stream = <<c>> \o tail
  BY DEF AtOption
<1> HIDE DEF b, c, rest
<1>4. tail \in Seq(Byte)
  BY <1>2, ConcatProperties
<1> HIDE DEF tail
<1>5. stream \in Seq(Byte) /\ stream[1] = c /\ Len(stream) >= 1 /\ Len(stream) = 1 + Len(tail)
  <2>1. <<c>> \in Seq(Byte) /\ Len(<<c>>) = 1
    BY <1>2, FirstByte
  <2>2. Len(<<c>> \o tail) = Len(<<c>>) + Len(tail)
    BY <1>4, <2>1, ConcatProperties
  <2> QED
    BY <1>2, <1>3, <1>4, <2>1, <2>2, FirstByte
<1>6. stream # <<>> /\ Head(stream) = c
  BY <1>5
<1>7. Tail(stream) = tail
  <2>1. Tail(stream) = SubSeq(stream, 2, Len(stream))
    BY <1>5, <1>6, TailIsSubSeq
  <2>2. <<c>> \in Seq(Byte) /\ Len(<<c>>) + 1 = 2
    BY <1>2, FirstByte
  <2>3. From(<<c>> \o tail, Len(<<c>>) + 1) = tail
    BY <1>4, <2>2, FrontAndBack
  <2> QED
    BY <1>3, <2>1, <2>2, <2>3 DEF From
<1> QED
  BY <1>1, <1>2, <1>6, <1>7 DEF Prefix, b, c, rest, tail

\* An option that was read as it was meant leaves the parser at the next one.
LEMMA Arrived ==
    ASSUME IsPacket(packet), NEW k, AtOption(k), NEW v,
           Meant(Order[k]) = {v}, Keep(Order[k], v),
           mode' = "options", stream' = Behind(packet, k + 1), UNCHANGED packet
    PROVE  StepInv'
<1> DEFINE o == Order[k]
<1>1. k \in 1..9 /\ k + 1 \in 1..10 /\ ReadTo(k, {})
  BY DEF AtOption
<1>2. DOMAIN got' = DOMAIN got \cup {o} /\ got'[o] = v
  BY DEF Keep
<1>3. \A x \in DOMAIN got : x # o => got'[x] = got[x]
  BY DEF Keep
<1>4. \A x : Meant(x)' = Meant(x)
  BY DEF Meant, Option
<1>5. ASSUME NEW i \in 1..9 PROVE IF i < k + 1 THEN Gotten(i)' ELSE Missing(i)'
  <2>1. CASE i = k
    <3>1. Meant(o)' = {v} /\ o \in DOMAIN got' /\ got'[o] = v
      BY <1>2, <1>4
    <3>2. Gotten(k)'
      BY <3>1 DEF Gotten
    <3> QED
      BY <1>1, <2>1, <3>2
  <2>2. CASE i # k
    <3>1. Order[i] # o
      BY <1>1, <2>2, OptionNames
    <3>2. IF i < k THEN Gotten(i) ELSE Missing(i)
      BY <1>1 DEF ReadTo
    <3>3. i < k => Gotten(i)'
      BY <1>2, <1>3, <1>4, <3>1, <3>2 DEF Gotten
    <3>4. ~(i < k) => Missing(i)'
      BY <1>2, <3>1, <3>2 DEF Missing
    <3> QED
      BY <1>1, <2>2, <3>3, <3>4
  <2> QED
    BY <2>1, <2>2
<1>6. ReadTo(k + 1, {})'
  BY <1>5 DEF ReadTo
<1>7. (stream = Behind(packet, k + 1))'
  BY DEF Behind, Option, Body, Cleared
<1> QED
  BY <1>1, <1>6, <1>7 DEF StepInv

\* One whose only outcome is what was meant.
LEMMA TakeArrived ==
    ASSUME IsPacket(packet), NEW k, AtOption(k), NEW v, NEW outcomes,
           Meant(Order[k]) = {v}, outcomes = {Text(v, Behind(packet, k + 1))},
           Take(Order[k], outcomes), UNCHANGED packet
    PROVE  StepInv'
<1> DEFINE r == Text(v, Behind(packet, k + 1))
<1>1. \/ Keep(Order[k], r.text) /\ stream' = r.rest /\ mode' = "options"
      \/ Fail(r)
  BY DEF Take
<1>2. r.how = "text" /\ r.text = v /\ r.rest = Behind(packet, k + 1)
  BY DEF Text
<1> HIDE DEF r
<1>3. ~Fail(r)
  BY <1>2 DEF Fail
<1>4. Keep(Order[k], v) /\ stream' = Behind(packet, k + 1) /\ mode' = "options"
  BY <1>1, <1>2, <1>3
<1> QED
  BY <1>4, Arrived

\* Codes tell the options apart.
LEMMA CodesDiffer ==
    /\ \A o, q \in Options : Code[o] = Code[q] => o = q
    /\ \A o \in Options : /\ Code[o] # 0 /\ Code[o] # Code["widget"]
                          /\ Code[o] \in {Code[x] : x \in DOMAIN Code}
    /\ 0 \notin {Code[x] : x \in DOMAIN Code}
<1>1. \A o, q \in Options : Code[o] = Code[q] => o = q
  BY OptionNames DEF Code
<1>2. \A o \in Options : /\ Code[o] # 0 /\ Code[o] # Code["widget"]
                         /\ Code[o] \in {Code[x] : x \in DOMAIN Code}
  BY OptionNames DEF Code
<1>3. 0 \notin {Code[x] : x \in DOMAIN Code}
  BY DEF Code
<1> QED
  BY <1>1, <1>2, <1>3

\* The value.
LEMMA ValueArrives ==
    ASSUME IsPacket(packet), Fit, NEW k, AtOption(k), Order[k] = "value", ParseValue
    PROVE  StepInv'
<1> DEFINE v == packet.fields["value"]
           rest == Behind(packet, k + 1)
           kind == packet.kind
<1>1. /\ Option(packet, "value") # <<>> /\ "value" \in Options
      /\ Tail(stream) = BodyOf(packet, "value") \o rest /\ rest \in Seq(Byte)
  BY AtOptionFinds DEF AtOption
<1>2. "value" \in DOMAIN packet.fields
  BY <1>1, OptionBytes DEF IsPacket
<1>3. IsField("value", v, kind) /\ kind # "enum" /\ kind \in {"number", "string", "enum"}
  BY <1>1, <1>2 DEF IsPacket, Fit, Fits
<1>4. Meant("value") = {v}
  BY <1>1, <1>2 DEF Meant
<1>5. Tail(stream) = Body("value", v, kind) \o rest
  BY <1>1, <1>2 DEF BodyOf
<1> DEFINE outcomes == CASE kind = "number" -> Fixed(4, Tail(stream))
                         [] kind = "string" -> ReadLongString(Tail(stream))
                         [] kind = "enum"   -> ReadTinyString(Tail(stream))
<1>6. Take("value", outcomes) /\ UNCHANGED packet
  BY DEF ParseValue
<1>7. outcomes = {Text(v, rest)}
  <2> HIDE DEF v, rest, kind
  <2>1. CASE kind = "number"
    <3>1. IsInt32(v)
      BY <1>3, <2>1 DEF IsField
    <3>2. Body("value", v, kind) = Int32(v)
      BY <2>1 DEF Body
    <3>3. Fixed(4, Tail(stream)) = {Text(v, rest)}
      BY <1>1, <1>5, <3>1, <3>2, FixedArrives
    <3> QED
      BY <2>1, <3>3 DEF kind
  <2>2. CASE kind = "string"
    <3>1. v \in Seq(Byte) /\ IsInt32(Len(v))
      BY <1>3, <2>2 DEF IsField
    <3>2. Body("value", v, kind) = LongString(v)
      BY <2>2 DEF Body
    <3>4. ReadLongString(Tail(stream)) = {Text(v, rest)}
      BY <1>1, <1>5, <3>1, <3>2, LongArrives
    <3> QED
      BY <2>2, <3>4 DEF kind
  <2> QED
    BY <1>3, <2>1, <2>2
<1> HIDE DEF outcomes, v, rest
<1> QED
  BY <1>4, <1>6, <1>7, TakeArrived DEF rest

\* Tags and the user id, set and cleared.
LEMMA TextArrives ==
    ASSUME IsPacket(packet), Fit, NEW k, AtOption(k), Order[k] \in {"tags", "userid"},
           Take(Order[k], ReadTinyString(Tail(stream))), UNCHANGED packet
    PROVE  StepInv'
<1> DEFINE o == Order[k]
           rest == Behind(packet, k + 1)
           outcomes == ReadTinyString(Tail(stream))
<1>1. /\ Option(packet, o) # <<>> /\ o \in Options /\ o \in {"tags", "userid"}
      /\ Tail(stream) = BodyOf(packet, o) \o rest /\ rest \in Seq(Byte)
  BY AtOptionFinds DEF AtOption
<1>2. Take(o, outcomes)
  OBVIOUS
<1> HIDE DEF rest, o
<1>3. CASE o \in DOMAIN packet.fields
  <2> DEFINE v == packet.fields[o]
  <2>1. IsField(o, v, packet.kind) /\ Fits(o)
    BY <1>1, <1>3 DEF IsPacket, Fit
  <2>2. v \in Seq(Byte)
    BY <1>1, <2>1 DEF IsField
  <2>3. Len(v) < 128
    BY <1>1, <1>3, <2>1 DEF Fits
  <2>4. Meant(o) = {v}
    BY <1>1, <1>3 DEF Meant
  <2>5. Tail(stream) = TinyString(v) \o rest
    BY <1>1, <1>3 DEF BodyOf, Body
  <2> HIDE DEF v
  <2>6. outcomes = {Text(v, rest)}
    BY <1>1, <2>2, <2>3, <2>5, TinyStringArrives
  <2> HIDE DEF outcomes
  <2> QED
    BY <1>2, <2>4, <2>6, TakeArrived DEF rest, o
<1>4. CASE o \notin DOMAIN packet.fields
  <2>1. Meant(o) = {<<>>}
    BY <1>1, <1>4 DEF Meant
  <2>2. Tail(stream) = <<0>> \o rest
    BY <1>1, <1>4 DEF BodyOf, Cleared
  <2>3. outcomes = {Text(<<>>, rest)}
    BY <1>1, <2>2, NothingArrives
  <2> HIDE DEF outcomes
  <2> QED
    BY <1>2, <2>1, <2>3, TakeArrived DEF rest, o
<1> QED
  BY <1>3, <1>4

\* The order.
LEMMA OrderArrives ==
    ASSUME IsPacket(packet), NEW k, AtOption(k), Order[k] = "order",
           Take("order", Fixed(4, Tail(stream))), UNCHANGED packet
    PROVE  StepInv'
<1> DEFINE rest == Behind(packet, k + 1)
           outcomes == Fixed(4, Tail(stream))
           v == IF "order" \in DOMAIN packet.fields THEN packet.fields["order"] ELSE 0
<1>1. /\ Option(packet, "order") # <<>>
      /\ Tail(stream) = BodyOf(packet, "order") \o rest /\ rest \in Seq(Byte)
  BY AtOptionFinds DEF AtOption
<1>2. IsInt32(v)
  <2>1. CASE "order" \in DOMAIN packet.fields
    <3>1. IsField("order", v, packet.kind)
      BY <2>1 DEF IsPacket
    <3> QED
      BY <3>1 DEF IsField
  <2>2. CASE "order" \notin DOMAIN packet.fields
    BY <2>2 DEF IsInt32, IsInt16
  <2> QED
    BY <2>1, <2>2
<1>3. Meant("order") = {v}
  BY <1>1 DEF Meant
<1>4. BodyOf(packet, "order") = Int32(v)
  BY DEF BodyOf, Body, Cleared
<1> HIDE DEF v, rest
<1>5. outcomes = {Text(v, rest)}
  BY <1>1, <1>2, <1>4, FixedArrives
<1> HIDE DEF outcomes
<1> QED
  BY <1>3, <1>5, TakeArrived DEF rest, outcomes

\* The flag.
LEMMA FlagArrives ==
    ASSUME IsPacket(packet), NEW k, AtOption(k), Order[k] = "readonly",
           Take("readonly", Fixed(1, Tail(stream))), UNCHANGED packet
    PROVE  StepInv'
<1> DEFINE rest == Behind(packet, k + 1)
           outcomes == Fixed(1, Tail(stream))
           v == IF "readonly" \in DOMAIN packet.fields THEN packet.fields["readonly"] ELSE <<0>>
<1>1. /\ Option(packet, "readonly") # <<>>
      /\ Tail(stream) = BodyOf(packet, "readonly") \o rest /\ rest \in Seq(Byte)
  BY AtOptionFinds DEF AtOption
<1>2. v \in {<<0>>, <<1>>}
  <2>1. CASE "readonly" \in DOMAIN packet.fields
    <3>1. IsField("readonly", v, packet.kind)
      BY <2>1 DEF IsPacket
    <3> QED
      BY <3>1 DEF IsField
  <2> QED
    BY <2>1
<1>3. Meant("readonly") = {v}
  BY <1>1 DEF Meant
<1>4. BodyOf(packet, "readonly") = v
  BY DEF BodyOf, Body, Cleared
<1> HIDE DEF v, rest
<1>5. outcomes = {Text(v, rest)}
  <2>1. 0 \in Byte /\ 1 \in Byte
    BY DEF Byte
  <2>2. PICK b \in Byte : v = <<b>>
    BY <1>2, <2>1
  <2>3. Fixed(1, <<b>> \o rest) = {Text(<<b>>, rest)}
    BY <1>1, FixedArrives
  <2> QED
    BY <1>1, <1>4, <2>2, <2>3
<1> HIDE DEF outcomes
<1> QED
  BY <1>3, <1>5, TakeArrived DEF rest, outcomes

\* The parent, set; when it was cleared the parser goes on.
LEMMA ParentArrives ==
    ASSUME IsPacket(packet), NEW k, AtOption(k), Order[k] = "parent", ParseParent
    PROVE  StepInv'
<1> DEFINE rest == Behind(packet, k + 1)
           v == IF "parent" \in DOMAIN packet.fields THEN packet.fields["parent"] ELSE 0
<1>0. k \in 1..9 /\ k + 1 \in 1..10
  BY DEF AtOption
<1>1. /\ Option(packet, "parent") # <<>> /\ k \in 1..9 /\ k + 1 \in 1..10
      /\ Tail(stream) = BodyOf(packet, "parent") \o rest /\ rest \in Seq(Byte)
  BY <1>0, AtOptionFinds DEF AtOption
<1>2. IsInt16(v) /\ ("parent" \in DOMAIN packet.fields <=> v # 0)
  <2>1. CASE "parent" \in DOMAIN packet.fields
    <3>1. IsField("parent", v, packet.kind)
      BY <2>1 DEF IsPacket
    <3> QED
      BY <2>1, <3>1 DEF IsField
  <2>2. CASE "parent" \notin DOMAIN packet.fields
    BY <2>2 DEF IsInt16
  <2> QED
    BY <2>1, <2>2
<1>3. Meant("parent") = IF v # 0 THEN {v} ELSE {}
  BY <1>1, <1>2 DEF Meant
<1>4. BodyOf(packet, "parent") = Int16(v)
  BY DEF BodyOf, Body, Cleared
<1> HIDE DEF v, rest
<1> DEFINE r == Text(v, rest)
<1>5. Fixed(2, Tail(stream)) = {r}
  BY <1>1, <1>2, <1>4, FixedArrives
<1>6. r.how = "text" /\ r.text = v /\ r.rest = rest
  BY DEF Text
<1> HIDE DEF r
<1>7. UNCHANGED packet /\ IF v = 0 THEN stream' = rest /\ UNCHANGED <<mode, got>> ELSE Take("parent", {r})
  BY <1>5, <1>6 DEF ParseParent
<1>8. CASE v # 0
  BY <1>3, <1>7, <1>8, TakeArrived DEF rest, r
<1>9. CASE v = 0
  <2>1. stream' = Behind(packet, k + 1) /\ mode' = "options" /\ got' = got /\ packet' = packet
    BY <1>7, <1>9 DEF rest, AtOption
  <2>2. \A x : Meant(x)' = Meant(x)
    BY <2>1 DEF Meant, Option
  <2>3. ASSUME NEW i \in 1..9 PROVE IF i < k + 1 THEN Gotten(i)' ELSE Missing(i)'
    <3>1. IF i < k THEN Gotten(i) ELSE Missing(i)
      BY DEF ReadTo, AtOption
    <3>2. Gotten(i)' = Gotten(i) /\ Missing(i)' = Missing(i)
      BY <2>1, <2>2 DEF Gotten, Missing
    <3>3. i = k => Gotten(i)
      BY <1>1, <1>3, <1>9, <3>1 DEF Gotten, Missing
    <3> QED
      BY <1>1, <3>1, <3>2, <3>3
  <2>4. ReadTo(k + 1, {})'
    BY <2>3 DEF ReadTo
  <2>5. (stream = Behind(packet, k + 1))'
    BY <2>1 DEF Behind, Option, Body, Cleared
  <2> QED
    BY <1>1, <2>1, <2>4, <2>5 DEF StepInv
<1> QED
  BY <1>8, <1>9

\* User data that are cleared.
LEMMA UserdataArrive ==
    ASSUME IsPacket(packet), Fit, NEW k, AtOption(k), Order[k] = "userdata", ParseUserdata
    PROVE  StepInv'
<1> DEFINE rest == Behind(packet, k + 1)
           r == Text(<<>>, rest)
<1>1. /\ Option(packet, "userdata") # <<>> /\ "userdata" \in Options
      /\ Tail(stream) = BodyOf(packet, "userdata") \o rest /\ rest \in Seq(Byte)
  BY AtOptionFinds DEF AtOption
<1>2. "userdata" \notin DOMAIN packet.fields
  BY <1>1 DEF Fit, Fits
<1>3. Meant("userdata") = {<<>>}
  BY <1>1, <1>2 DEF Meant
<1>4. BodyOf(packet, "userdata") = Int32(0)
  BY <1>2 DEF BodyOf, Cleared
<1> HIDE DEF rest
<1>5. ReadLongString(Tail(stream)) = {r}
  BY <1>1, <1>4, NothingArrives
<1>6. Sized(4, Tail(stream), Signed32(Tail(stream))) = {r} /\ r.how = "text"
  BY <1>5 DEF ReadLongString, Text
<1> HIDE DEF r
<1>7. UNCHANGED packet /\ Take("userdata", {r})
  BY <1>6 DEF ParseUserdata
<1> QED
  BY <1>3, <1>7, TakeArrived DEF rest, r

\* A list of languages, set or cleared.
LEMMA ListMeant ==
    ASSUME IsPacket(packet), Fit, NEW o \in {"label", "description"}, Option(packet, o) # <<>>
    PROVE  /\ ListOf(o) \in LanguageLists
           /\ BodyOf(packet, o) = Languages(ListOf(o), o = "description")
           /\ Meant(o) = IF ListOf(o) = <<>> THEN {} ELSE {ListOf(o)}
           /\ \A i \in 1..Len(ListOf(o)) :
                  Len(ListOf(o)[i][2]) < Limit(o = "description")
<1>0. <<>> \in LanguageLists /\ o \in Options
  BY OptionNames DEF LanguageLists
<1>1. CASE o \in DOMAIN packet.fields
  <2> DEFINE v == packet.fields[o]
  <2>1. IsField(o, v, packet.kind) /\ Fits(o) /\ ListOf(o) = v
    BY <1>0, <1>1 DEF IsPacket, Fit, ListOf
  <2>2. v \in LanguageLists
    BY <2>1 DEF IsField
  <2>3. Body(o, v, packet.kind) = Languages(v, o = "description")
    <3>1. CASE o = "label"
      <4>1. (o = "description") = FALSE
        BY <3>1
      <4> QED
        BY <3>1, <4>1 DEF Body
    <3>2. CASE o = "description"
      <4>1. (o = "description") = TRUE
        BY <3>2
      <4> QED
        BY <3>2, <4>1 DEF Body
    <3> QED
      BY <3>1, <3>2
  <2>4. Meant(o) = IF v = <<>> THEN {} ELSE {v}
    BY <1>1 DEF Meant
  <2>5. \A i \in 1..Len(v) : Len(v[i][2]) < Limit(o = "description")
    BY <1>1, <2>1 DEF Fits, Limit
  <2> QED
    BY <1>1, <2>1, <2>2, <2>3, <2>4, <2>5 DEF BodyOf
<1>2. CASE o \notin DOMAIN packet.fields
  <2>1. ListOf(o) = <<>> /\ Len(<<>>) = 0
    BY <1>2 DEF ListOf
  <2>2. BodyOf(packet, o) = <<0>>
    BY <1>2 DEF BodyOf, Cleared
  <2>3. Languages(<<>>, o = "description") = <<0>>
    BY <1>0, LanguagesBytes
  <2>4. Meant(o) = {}
    BY <1>2 DEF Meant
  <2> QED
    BY <1>0, <2>1, <2>2, <2>3, <2>4
<1> QED
  BY <1>1, <1>2

\* What was meant and what is written depend on the packet alone.
LEMMA PacketSame ==
    ASSUME UNCHANGED packet
    PROVE  /\ \A x : Meant(x)' = Meant(x) /\ Option(packet, x)' = Option(packet, x)
                     /\ ListOf(x)' = ListOf(x)
           /\ \A k : Behind(packet, k)' = Behind(packet, k)
           /\ \A l, s : Languages(l, s)' = Languages(l, s)
<1>1. \A x : Meant(x)' = Meant(x) /\ Option(packet, x)' = Option(packet, x) /\ ListOf(x)' = ListOf(x)
  BY DEF Meant, Option, ListOf
<1>2. \A k : Behind(packet, k)' = Behind(packet, k)
  BY DEF Behind, Option, Body, Cleared
<1> QED
  BY <1>1, <1>2

\* The parser enters a list.
LEMMA ListStarts ==
    ASSUME IsPacket(packet), Fit, NEW k, AtOption(k), Order[k] \in {"label", "description"},
           mode' = Order[k], stream' = Tail(stream), UNCHANGED <<packet, got>>
    PROVE  StepInv'
<1> DEFINE o == Order[k]
           list == ListOf(o)
<1>1. /\ k \in 1..9 /\ Option(packet, o) # <<>> /\ ReadTo(k, {}) /\ Missing(k)
      /\ Tail(stream) = BodyOf(packet, o) \o Behind(packet, k + 1)
  BY AtOptionFinds DEF AtOption, ReadTo
<1>2. list \in LanguageLists /\ BodyOf(packet, o) = Languages(list, o = "description")
  BY <1>1, ListMeant
<1>3. packet' = packet /\ got' = got
  OBVIOUS
<1>4. ListOf(o)' = list /\ Option(packet, o)' = Option(packet, o)
  BY <1>3 DEF ListOf, Option
<1>5. ReadTo(k, {k})'
  <2>1. ASSUME NEW i \in (1..9) \ {k} PROVE IF i < k THEN Gotten(i)' ELSE Missing(i)'
    <3>1. IF i < k THEN Gotten(i) ELSE Missing(i)
      BY <1>1 DEF ReadTo
    <3>2. Gotten(i)' = Gotten(i) /\ Missing(i)' = Missing(i)
      BY <1>3 DEF Gotten, Missing, Meant, Option
    <3> QED
      BY <3>1, <3>2
  <2> QED
    BY <2>1 DEF ReadTo
<1>6. <<>> \in LanguageLists /\ <<>> \o list = list
  <2>1. <<>> \in LanguageLists
    BY DEF LanguageLists
  <2> QED
    BY <1>2, <2>1, ConcatEmptySeq DEF LanguageLists
<1>7. (stream = Languages(list, o = "description") \o Behind(packet, k + 1))'
  <2>1. stream' = Languages(list, o = "description") \o Behind(packet, k + 1)
    BY <1>1, <1>2
  <2>2. Behind(packet, k + 1)' = Behind(packet, k + 1)
    BY <1>3 DEF Behind, Option
  <2> QED
    BY <1>4, <2>1, <2>2
<1>8. InList(k, <<>>, list)'
  <2>1. ListOf(mode)' = <<>> \o list
    BY <1>4, <1>6
  <2>2. mode' \notin DOMAIN got'
    BY <1>1, <1>3 DEF Missing
  <2> QED
    BY <1>4, <1>5, <1>7, <2>1, <2>2 DEF InList
<1> QED
  BY <1>1, <1>2, <1>4, <1>6, <1>8 DEF StepInv

\* All of a list has been read: the terminator ends it.
LEMMA ListEnds ==
    ASSUME IsPacket(packet), Fit, mode \in {"label", "description"},
           NEW k \in 1..9, Order[k] = mode, Option(packet, mode) # <<>>,
           NEW done \in LanguageLists, InList(k, done, <<>>), ReadLanguage
    PROVE  StepInv'
<1> DEFINE rest == Behind(packet, k + 1)
<1>0. k + 1 \in 1..10 /\ <<>> \in LanguageLists
  BY DEF LanguageLists
<1>1. rest \in Seq(Byte)
  BY <1>0, BehindBytes
<1>2. stream = <<0>> \o rest
  BY <1>0, LanguagesBytes DEF InList
<1> HIDE DEF rest
<1>3. stream \in Seq(Byte) /\ stream # <<>> /\ Head(stream) = 0 /\ Tail(stream) = rest
  <2>1. <<0>> \in Seq(Byte) /\ Len(<<0>>) = 1 /\ 0 \in Byte
    BY DEF Byte
  <2>2. stream \in Seq(Byte) /\ Len(stream) >= 1 /\ stream[1] = 0
    BY <1>1, <1>2, <2>1, FirstByte
  <2>3. stream # <<>> /\ Head(stream) = 0
    BY <2>2
  <2>4. Tail(stream) = SubSeq(stream, 2, Len(stream))
    BY <2>2, <2>3, TailIsSubSeq
  <2>5. From(<<0>> \o rest, Len(<<0>>) + 1) = rest
    BY <1>1, <2>1, FrontAndBack
  <2> QED
    BY <1>2, <2>1, <2>2, <2>3, <2>4, <2>5 DEF From
<1>4. mode' = "options" /\ stream' = rest /\ got' = got /\ packet' = packet
  <2> DEFINE peek == IF stream = <<>> THEN -1 ELSE Head(stream)
  <2>1. peek = 0
    BY <1>3
  <2>2. mode' = "options" /\ stream' = Tail(stream) /\ UNCHANGED got
    BY <2>1 DEF ReadLanguage
  <2> QED
    BY <1>3, <2>2 DEF ReadLanguage
<1>5. ListOf(mode) = done
  BY ConcatEmptySeq DEF InList, LanguageLists
<1>6. Gotten(k)
  BY <1>5, ListMeant DEF Gotten, InList
<1>7. ReadTo(k + 1, {})'
  <2>1. ASSUME NEW i \in 1..9 PROVE IF i < k + 1 THEN Gotten(i)' ELSE Missing(i)'
    <3>1. i # k => IF i < k THEN Gotten(i) ELSE Missing(i)
      BY DEF InList, ReadTo
    <3>2. Gotten(i)' = Gotten(i) /\ Missing(i)' = Missing(i)
      BY <1>4 DEF Gotten, Missing, Meant, Option
    <3>3. CASE i = k
      BY <1>6, <3>2, <3>3
    <3>4. CASE i # k
      BY <3>1, <3>2, <3>4
    <3> QED
      BY <3>3, <3>4
  <2> QED
    BY <2>1 DEF ReadTo
<1>8. (stream = Behind(packet, k + 1))'
  <2>1. Behind(packet, k + 1)' = Behind(packet, k + 1)
    BY <1>4, PacketSame
  <2> QED
    BY <1>4, <2>1 DEF rest
<1> QED
  BY <1>0, <1>4, <1>7, <1>8 DEF StepInv

\* One element of a list goes from what is to do to what is done.
LEMMA MoveOne ==
    ASSUME NEW done \in LanguageLists, NEW todo \in LanguageLists, todo # <<>>
    PROVE  /\ todo[1] \in Language /\ Tail(todo) \in LanguageLists
           /\ Append(done, todo[1]) \in LanguageLists
           /\ Append(done, todo[1]) # <<>>
           /\ Append(done, todo[1]) \o Tail(todo) = done \o todo
           /\ Len(done) + 1 \in 1..Len(done \o todo)
           /\ (done \o todo)[Len(done) + 1] = todo[1]
<1> USE DEF LanguageLists
<1> DEFINE S == [1..3 -> Letter] \X Seq(Byte)
           l == todo[1]
           t == Tail(todo)
<1>0. done \in Seq(S) /\ todo \in Seq(S)
  OBVIOUS
<1>00. Language = S
  BY DEF Language
<1> HIDE DEF S
<1>1. Len(done) \in Nat /\ Len(todo) \in Nat /\ Len(todo) > 0
  BY <1>0, EmptySeq, LenProperties
<1>2. l \in S /\ t \in Seq(S)
  BY <1>0, <1>1, ElementOfSeq, HeadTailProperties
<1>3. Append(done, l) \in Seq(S) /\ Append(done, l) # <<>> /\ Append(done, l) = done \o <<l>>
  BY <1>0, <1>2, AppendProperties, AppendIsConcat
<1>4. <<l>> \o t = todo
  <2>1. 1 \in 1..Len(todo) /\ Len(todo) \in 1..Len(todo)
    BY <1>1
  <2>2. SubSeq(todo, 1, Len(todo)) = <<todo[1]>> \o SubSeq(todo, 1 + 1, Len(todo))
    BY <1>0, <2>1, SubSeqRecursiveFirst
  <2>3. SubSeq(todo, 1, Len(todo)) = todo /\ t = SubSeq(todo, 2, Len(todo)) /\ 1 + 1 = 2
    BY <1>0, SubSeqFull, TailIsSubSeq
  <2> QED
    BY <2>2, <2>3
<1>5. (done \o <<l>>) \o t = done \o (<<l>> \o t)
  <2>1. <<l>> \in Seq(S)
    BY <1>2
  <2> QED
    BY <1>0, <1>2, <2>1, ConcatAssociative
<1>6. Len(done \o todo) = Len(done) + Len(todo) /\ Len(done) + 1 \in 1..(Len(done) + Len(todo))
  BY <1>0, <1>1, ConcatProperties
<1>7. (done \o todo)[Len(done) + 1] = todo[1]
  <2>1. ~(Len(done) + 1 <= Len(done)) /\ (Len(done) + 1) - Len(done) = 1
    BY <1>1
  <2>2. (done \o todo)[Len(done) + 1] = todo[(Len(done) + 1) - Len(done)]
    BY <1>0, <1>6, <2>1, ConcatProperties
  <2> QED
    BY <2>1, <2>2
<1>8. LanguageLists = Seq(S)
  BY DEF S
<1> HIDE DEF LanguageLists
<1> QED
  BY <1>00, <1>2, <1>3, <1>4, <1>5, <1>6, <1>7, <1>8

\* The next language of a list is read.
LEMMA ListGoesOn ==
    ASSUME IsPacket(packet), Fit, mode \in {"label", "description"},
           NEW k \in 1..9, Order[k] = mode, Option(packet, mode) # <<>>,
           NEW done \in LanguageLists, NEW todo \in LanguageLists, todo # <<>>,
           InList(k, done, todo), ReadLanguage
    PROVE  StepInv'
<1> DEFINE behind == Behind(packet, k + 1)
           short == mode = "description"
           l == todo[1]
           rest == Languages(Tail(todo), short) \o behind
           text == From(stream, 4)
           outcomes == ReadText(text, short)
           r == Text(l[2], rest)
           list == IF mode \in DOMAIN got THEN got[mode] ELSE <<>>
<1>0. k + 1 \in 1..10 /\ short \in BOOLEAN /\ (short <=> mode # "label")
  OBVIOUS
<1>1. PICK more \in LanguageLists :
      /\ more = Append(done, l) /\ more # <<>> /\ more \o Tail(todo) = done \o todo
      /\ l \in Language /\ Tail(todo) \in LanguageLists
      /\ Len(done) + 1 \in 1..Len(done \o todo)
      /\ (done \o todo)[Len(done) + 1] = l
  BY MoveOne
<1> HIDE DEF short
<1>2. behind \in Seq(Byte) /\ Languages(Tail(todo), short) \in Seq(Byte) /\ Entry(l, short) \in Seq(Byte)
  BY <1>0, <1>1, BehindBytes, LanguagesBytes, EntryBytes
<1>3. rest \in Seq(Byte) /\ stream = Entry(l, short) \o rest
  <2>1. Languages(todo, short) = Entry(l, short) \o Languages(Tail(todo), short)
    BY LanguagesBytes
  <2>2. stream = Languages(todo, short) \o behind
    BY DEF InList, short
  <2> HIDE DEF behind
  <2>3. (Entry(l, short) \o Languages(Tail(todo), short)) \o behind = Entry(l, short) \o rest
    BY <1>2, Regroup
  <2> QED
    BY <1>2, <2>1, <2>2, <2>3, ConcatProperties
<1> HIDE DEF rest
<1>4. Len(l[2]) < Limit(short)
  <2> DEFINE i == Len(done) + 1
  <2>1. ListOf(mode) = done \o todo /\ i \in 1..Len(done \o todo) /\ (done \o todo)[i] = l
    BY <1>1 DEF InList
  <2>2. \A j \in 1..Len(ListOf(mode)) : Len(ListOf(mode)[j][2]) < Limit(short)
    BY ListMeant DEF short
  <2> HIDE DEF i
  <2> QED
    BY <2>1, <2>2
<1>5. /\ stream # <<>> /\ Head(stream) # 0 /\ ~(Len(stream) < 3) /\ SubSeq(stream, 1, 3) = l[1]
      /\ outcomes = {r}
  BY <1>0, <1>1, <1>3, <1>4, EntryArrives
<1>6. <<l[1], l[2]>> = l
  BY <1>1, CodeBytes
<1>7. list = done
  BY DEF InList
<1> HIDE DEF outcomes
<1>8. /\ packet' = packet
      /\ \E x \in outcomes :
            \/ /\ x.how = "text"
               /\ Keep(mode, Append(list, <<SubSeq(stream, 1, 3), x.text>>))
               /\ stream' = x.rest /\ UNCHANGED mode
            \/ Fail(x)
  <2> DEFINE peek == IF stream = <<>> THEN -1 ELSE Head(stream)
  <2>1. peek # 0 /\ ~(peek # 0 /\ Len(stream) < 3)
    BY <1>5
  <2> QED
    BY <1>0, <2>1 DEF ReadLanguage, ReadText, outcomes
<1>9. r.how = "text" /\ r.text = l[2] /\ r.rest = rest
  BY DEF Text
<1> HIDE DEF r, l, list
<1>10. Keep(mode, Append(done, <<l[1], l[2]>>)) /\ stream' = rest /\ mode' = mode /\ packet' = packet
  <2>1. ~Fail(r)
    BY <1>9 DEF Fail
  <2> QED
    BY <1>5, <1>7, <1>8, <1>9, <2>1
<1>11. Keep(mode, more)
  BY <1>1, <1>6, <1>10
<1>12. DOMAIN got' = DOMAIN got \cup {mode} /\ got'[mode] = more /\ \A x \in DOMAIN got : x # mode => got'[x] = got[x]
  BY <1>11 DEF Keep
<1>13. ReadTo(k, {k})'
  <2>1. ASSUME NEW i \in (1..9) \ {k} PROVE IF i < k THEN Gotten(i)' ELSE Missing(i)'
    <3>1. IF i < k THEN Gotten(i) ELSE Missing(i)
      BY DEF InList, ReadTo
    <3>2. Order[i] # mode
      BY OptionNames
    <3>3. Meant(Order[i])' = Meant(Order[i])
      BY <1>10, PacketSame
    <3>4. Gotten(i) => Gotten(i)'
      BY <1>12, <3>2, <3>3 DEF Gotten
    <3>5. Missing(i) => Missing(i)'
      BY <1>12, <3>2 DEF Missing
    <3> QED
      BY <3>1, <3>4, <3>5
  <2> QED
    BY <2>1 DEF ReadTo
<1>14. InList(k, more, Tail(todo))'
  <2>1. ListOf(mode)' = more \o Tail(todo)
    <3>1. ListOf(mode) = done \o todo
      BY DEF InList
    <3>2. ListOf(mode)' = ListOf(mode)
      BY <1>10 DEF ListOf
    <3> QED
      BY <1>1, <3>1, <3>2
  <2>2. (stream = Languages(Tail(todo), mode = "description") \o Behind(packet, k + 1))'
    <3>1. Behind(packet, k + 1)' = Behind(packet, k + 1)
      BY <1>10, PacketSame
    <3> QED
      BY <1>10, <3>1 DEF rest, short
  <2> QED
    BY <1>1, <1>10, <1>12, <1>13, <2>1, <2>2 DEF InList
<1>15. (Order[k] = mode /\ Option(packet, mode) # <<>>)'
  BY <1>10 DEF Option
<1> QED
  BY <1>1, <1>10, <1>14, <1>15 DEF StepInv

ArriveInv == TypeInv /\ (Fit => StepInv)

\* Every step of the parser at an option.
LEMMA OptionStep ==
    ASSUME IsPacket(packet), Fit, NEW k, AtOption(k), Parse
    PROVE  StepInv'
<1> DEFINE o == Order[k]
<1>1. k \in 1..9 /\ o \in Options /\ Prefix = Code[o] /\ mode = "options"
  BY AtOptionFinds DEF AtOption
<1> HIDE DEF o
<1>2. ASSUME NEW q \in Options, Found(q) PROVE o = q
  BY <1>1, <1>2, CodesDiffer DEF Found
<1>3. /\ "value" \in Options /\ "label" \in Options /\ "description" \in Options
      /\ "tags" \in Options /\ "order" \in Options /\ "parent" \in Options
      /\ "userdata" \in Options /\ "userid" \in Options /\ "readonly" \in Options
  BY OptionNames
<1>4. ~ParseEnd
  BY <1>1, CodesDiffer DEF ParseEnd, Terminator
<1>5. CASE ParseValue
  <2>1. o = "value"
    BY <1>2, <1>3, <1>5 DEF ParseValue
  <2> QED
    BY <1>5, <2>1, ValueArrives DEF o
<1>6. CASE ParseLanguages
  <2>1. PICK q \in {"label", "description"} :
          Found(q) /\ mode' = q /\ stream' = Tail(stream) /\ UNCHANGED <<packet, got>>
    BY <1>6 DEF ParseLanguages
  <2>2. o = q
    BY <1>2, <1>3, <2>1
  <2> QED
    BY <2>1, <2>2, ListStarts DEF o
<1>7. ~ReadLanguage
  BY <1>1 DEF ReadLanguage
<1>8. CASE ParseText
  <2>1. PICK q \in {"tags", "userid"} :
          Found(q) /\ Take(q, ReadTinyString(Tail(stream))) /\ UNCHANGED packet
    BY <1>8 DEF ParseText
  <2>2. o = q
    BY <1>2, <1>3, <2>1
  <2> QED
    BY <2>1, <2>2, TextArrives DEF o
<1>9. CASE ParseFixed
  <2>1. CASE Found("order") /\ Take("order", Fixed(4, Tail(stream))) /\ UNCHANGED packet
    <3>1. o = "order"
      BY <1>2, <1>3, <2>1
    <3> QED
      BY <2>1, <3>1, OrderArrives DEF o
  <2>2. CASE Found("readonly") /\ Take("readonly", Fixed(1, Tail(stream))) /\ UNCHANGED packet
    <3>1. o = "readonly"
      BY <1>2, <1>3, <2>2
    <3> QED
      BY <2>2, <3>1, FlagArrives DEF o
  <2> QED
    BY <1>9, <2>1, <2>2 DEF ParseFixed
<1>10. CASE ParseParent
  <2>1. o = "parent"
    BY <1>2, <1>3, <1>10 DEF ParseParent
  <2> QED
    BY <1>10, <2>1, ParentArrives DEF o
<1>11. CASE ParseUserdata
  <2>1. o = "userdata"
    BY <1>2, <1>3, <1>11 DEF ParseUserdata
  <2> QED
    BY <1>11, <2>1, UserdataArrive DEF o
<1>12. ~SkipWidget
  BY <1>1, CodesDiffer DEF SkipWidget, Found
<1>13. ~ParseUnknown
  <2>1. Code[o] \in {Code[x] : x \in DOMAIN Code}
    BY <1>1, CodesDiffer
  <2> QED
    BY <1>1, <2>1 DEF ParseUnknown
<1> QED
  BY <1>4, <1>5, <1>6, <1>7, <1>8, <1>9, <1>10, <1>11, <1>12, <1>13 DEF Parse

\* Behind the last option the terminator is all there is.
LEMMA EndStep ==
    ASSUME AtEnd, Parse
    PROVE  StepInv'
<1>1. mode = "options" /\ Prefix = 0 /\ ReadTo(10, {})
  BY DEF AtEnd, Prefix
<1>2. \A o \in DOMAIN Code : ~Found(o)
  BY <1>1, CodesDiffer DEF Found
<1>3. \A o \in Options : o \in DOMAIN Code
  BY OptionNames DEF Code
<1>4. /\ "value" \in Options /\ "label" \in Options /\ "description" \in Options
      /\ "tags" \in Options /\ "order" \in Options /\ "parent" \in Options
      /\ "userdata" \in Options /\ "userid" \in Options /\ "readonly" \in Options
      /\ "widget" \in DOMAIN Code
  BY OptionNames DEF Code
<1>5. ParseEnd
  <2>1. ~ParseValue /\ ~ParseParent /\ ~ParseUserdata /\ ~SkipWidget /\ ~ParseFixed
    BY <1>2, <1>3, <1>4 DEF ParseValue, ParseParent, ParseUserdata, SkipWidget, ParseFixed
  <2>2. ~ParseLanguages /\ ~ParseText
    BY <1>2, <1>3, <1>4 DEF ParseLanguages, ParseText
  <2>3. ~ReadLanguage /\ ~ParseUnknown
    BY <1>1 DEF ReadLanguage, ParseUnknown, Terminator
  <2> QED
    BY <2>1, <2>2, <2>3 DEF Parse
<1>6. mode' = "done" /\ UNCHANGED <<packet, got>>
  BY <1>5 DEF ParseEnd, Stop
<1>7. ReadTo(10, {})'
  <2>1. ASSUME NEW i \in 1..9 PROVE Gotten(i)' = Gotten(i) /\ Missing(i)' = Missing(i)
    BY <1>6 DEF Gotten, Missing, Meant, Option
  <2> QED
    BY <1>1, <2>1 DEF ReadTo
<1> QED
  BY <1>6, <1>7 DEF StepInv

\* Every step keeps the parser in step.
LEMMA NextArrives ==
    ASSUME ArriveInv, [Next]_vars
    PROVE  ArriveInv'
<1>1. TypeInv'
  BY NextTypes DEF ArriveInv
<1>2. IsPacket(packet)
  BY Packet DEF ArriveInv
<1>3. packet' = packet
  BY DEF Next, Write, Parse, ParseEnd, ParseValue, ParseLanguages, ReadLanguage, ParseText,
         ParseFixed, ParseParent, ParseUserdata, SkipWidget, ParseUnknown, vars
<1>4. Fit' = Fit
  BY <1>3 DEF Fit, Fits, Option
<1>5. ASSUME Fit, UNCHANGED vars PROVE StepInv'
  <2>1. StepInv
    BY <1>5 DEF ArriveInv
  <2>2. \A i : Gotten(i)' = Gotten(i) /\ Missing(i)' = Missing(i)
    BY <1>5 DEF vars, Gotten, Missing, Meant, Option
  <2>3. \A k, but : ReadTo(k, but)' = ReadTo(k, but)
    BY <2>2 DEF ReadTo
  <2>4. \A k : Behind(packet, k)' = Behind(packet, k)
    BY <1>3, PacketSame
  <2>5. ASSUME NEW k, NEW done, NEW todo
        PROVE  InList(k, done, todo)' = InList(k, done, todo)
    <3>1. mode' = mode /\ stream' = stream /\ got' = got
      BY <1>5 DEF vars
    <3>2. ListOf(mode)' = ListOf(mode)
      BY <1>3, <3>1 DEF ListOf
    <3>3. Languages(todo, mode = "description")' = Languages(todo, mode = "description")
      BY <3>1 DEF Languages
    <3>4. Behind(packet, k + 1)' = Behind(packet, k + 1)
      BY <2>4
    <3>5. ReadTo(k, {k})' = ReadTo(k, {k})
      BY <2>3
    <3> QED
      BY <3>1, <3>2, <3>3, <3>4, <3>5 DEF InList
  <2>6. \A o : Option(packet, o)' = Option(packet, o)
    BY <1>3, PacketSame
  <2> QED
    BY <1>5, <2>1, <2>3, <2>4, <2>5, <2>6 DEF StepInv, vars
<1>6. ASSUME Fit, Next PROVE StepInv'
  <2>1. CASE mode = "unsent" /\ DOMAIN got = {}
    <3>1. Write
      BY <1>6, <2>1 DEF Next, Parse, ParseEnd, ParseValue, ParseLanguages, ReadLanguage, ParseText,
         ParseFixed, ParseParent, ParseUserdata, SkipWidget, ParseUnknown, Found
    <3>2. 1 \in 1..10 /\ mode' = "options" /\ stream' = Written(packet) /\ got' = got
      BY <3>1 DEF Write
    <3>3. (stream = Behind(packet, 1))'
      <4>1. stream' = Behind(packet, 1)
        BY <1>2, <3>2, BehindBytes
      <4> QED
        BY <1>3, <4>1, PacketSame
    <3>4. ReadTo(1, {})'
      <4>1. \A i \in 1..9 : ~(i < 1) /\ Missing(i)'
        BY <2>1, <3>2 DEF Missing
      <4> QED
        BY <4>1 DEF ReadTo
    <3> QED
      BY <3>2, <3>3, <3>4 DEF StepInv
  <2>2. CASE mode = "options" /\ \E k \in 1..10 : stream = Behind(packet, k) /\ ReadTo(k, {})
    <3>1. Parse
      BY <1>6, <2>2 DEF Next, Write
    <3>2. AtEnd \/ \E j \in 1..9 : AtOption(j)
      BY <1>2, <2>2, NextOption
    <3> QED
      BY <1>2, <1>6, <3>1, <3>2, EndStep, OptionStep
  <2>3. ASSUME mode \in {"label", "description"},
               NEW k \in 1..9, Order[k] = mode, Option(packet, mode) # <<>>,
               NEW done \in LanguageLists, NEW todo \in LanguageLists, InList(k, done, todo)
        PROVE  StepInv'
    <3>1. ReadLanguage
      BY <1>6, <2>3 DEF Next, Write, Parse, ParseEnd, ParseValue, ParseLanguages, ParseText,
         ParseFixed, ParseParent, ParseUserdata, SkipWidget, ParseUnknown, Found
    <3>2. CASE todo = <<>>
      BY <1>2, <1>6, <2>3, <3>1, <3>2, ListEnds
    <3>3. CASE todo # <<>>
      BY <1>2, <1>6, <2>3, <3>1, <3>3, ListGoesOn
    <3> QED
      BY <3>2, <3>3
  <2>4. mode # "done"
    BY <1>6 DEF Next, Write, Parse, ParseEnd, ParseValue, ParseLanguages, ReadLanguage, ParseText,
         ParseFixed, ParseParent, ParseUserdata, SkipWidget, ParseUnknown, Found
  <2> QED
    BY <1>6, <2>1, <2>2, <2>3, <2>4 DEF ArriveInv, StepInv
<1> QED
  BY <1>1, <1>4, <1>5, <1>6 DEF ArriveInv

\* For every packet whose options fit, whatever their values: the parser ends
\* with each option that was sent, and with no other.
THEOREM OptionsInStep == Spec => []OptionsArrive
<1>1. Init => ArriveInv
  BY DEF Init, ArriveInv, TypeInv, Modes, NoOptions, StepInv
<1>2. ArriveInv /\ [Next]_vars => ArriveInv'
  BY NextArrives
<1>3. ArriveInv => OptionsArrive
  <2> SUFFICES ASSUME TypeInv, Fit, StepInv
               PROVE  /\ mode # "thrown"
                      /\ mode = "done" =>
                             \A o \in Options : Meant(o) = IF o \in DOMAIN got THEN {got[o]} ELSE {}
    BY DEF ArriveInv, OptionsArrive, Fit
  <2>1. mode # "thrown"
    BY DEF StepInv
  <2>2. mode = "done" => ReadTo(10, {})
    BY DEF StepInv
  <2>3. ASSUME ReadTo(10, {}), NEW o \in Options
        PROVE  Meant(o) = IF o \in DOMAIN got THEN {got[o]} ELSE {}
    <3>1. PICK i \in 1..9 : Order[i] = o
      BY OptionNames
    <3>2. i < 10 /\ Gotten(i)
      BY <2>3, <3>1 DEF ReadTo
    <3> QED
      BY <3>1, <3>2 DEF Gotten
  <2> QED
    BY <2>1, <2>2, <2>3
<1> QED
  BY <1>1, <1>2, <1>3, PTL DEF Spec
=============================================================================
