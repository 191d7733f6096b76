------------------------- MODULE RcpProtocolProofs -------------------------
(***************************************************************************)
(* Theorems about RcpProtocol, for every number of clients, ids, values    *)
(* and packets under way.                                                  *)
(*                                                                         *)
(*   ProtocolTypeCorrect   the types                                       *)
(*   RemovedEmpty          what TreeInv, an invariant about the groups at  *)
(*                         the server and at a client, shows               *)
(*   QuietMirrors          what MirrorInv, an invariant about labels,      *)
(*                         values and groups, shows together with it       *)
(*                                                                         *)
(* Both invariants say what a client will have of a parameter when it took *)
(* everything that is under way to it.  What the packets under way say is  *)
(* one notion, Ends: the last packet of one kind that no packet of another *)
(* kind follows.  The first part is about Ends and the walks over maps     *)
(* that update() and _init build their packets with.                       *)
(***************************************************************************)
EXTENDS RcpProtocol, FiniteSetTheorems, SequenceTheorems, TLAPS

\* A set of natural numbers has a least one: the induction the proofs below use.
LEMMA NatLeast ==
    ASSUME NEW T, T \subseteq Nat, T # {}
    PROVE  \E n \in T : \A m \in T : n <= m
<1> DEFINE F == {0..n : n \in T}
           R == StrictSubsetOrdering(Nat)
<1>1. F \subseteq FiniteSubsetsOf(Nat)
  <2> SUFFICES ASSUME NEW n \in T PROVE 0..n \in FiniteSubsetsOf(Nat)
    OBVIOUS
  <2>1. IsFiniteSet(0..n)
    BY FS_Interval
  <2>2. 0..n \subseteq Nat
    OBVIOUS
  <2> QED
    BY <2>1, <2>2 DEF FiniteSubsetsOf
<1>2. F # {}
  OBVIOUS
<1>3. IsWellFoundedOn(R, FiniteSubsetsOf(Nat))
  BY FS_StrictSubsetOrderingWellFounded
<1>4. PICK X \in F : \A Y \in F : <<Y, X>> \notin R
  <2> HIDE DEF F, R
  <2> QED
    BY <1>1, <1>2, <1>3, WFMin
<1>5. PICK n \in T : X = 0..n
  BY <1>4
<1>6. ASSUME NEW m \in T PROVE n <= m
  <2> SUFFICES ASSUME m < n PROVE FALSE
    OBVIOUS
  <2>1. 0..m \subseteq 0..n /\ 0..m # 0..n /\ 0..m \in SUBSET Nat /\ 0..n \in SUBSET Nat
    <3>1. n \in 0..n /\ n \notin 0..m
      OBVIOUS
    <3> QED
      BY <3>1
  <2>2. <<0..m, X>> \in R
    BY <2>1, <1>5 DEF StrictSubsetOrdering
  <2> QED
    BY <2>2, <1>4
<1> QED
  BY <1>6

\* A set of ids is finite.
LEMMA FiniteIds ==
    ASSUME NEW n \in Nat, NEW S \in SUBSET (1..n)
    PROVE  IsFiniteSet(S) /\ Cardinality(S) \in Nat
<1>1. IsFiniteSet(1..n)
  BY FS_Interval
<1>2. IsFiniteSet(S)
  BY <1>1, FS_Subset
<1> QED
  BY <1>2, FS_CardinalityType

-----------------------------------------------------------------------------
(* Walking a map: InOrder *)

\* The sequences up to an id, one after the other.
UpTo(f, s) == f[0] = <<>> /\ \A n \in Id : f[n] = f[n - 1] \o s[n]

\* A map of sequences has those prefixes ...
LEMMA UpToExists ==
    ASSUME NEW P, NEW s \in [Id -> Seq(P)]
    PROVE  \E f \in [0..MaxId -> Seq(P)] : UpTo(f, s)
<1> DEFINE F == [0..MaxId -> Seq(P)]
           Good(f, m) == f[0] = <<>> /\ \A n \in Id : n <= m => f[n] = f[n - 1] \o s[n]
           T == {m \in Nat : ~ \E f \in F : Good(f, m)}
<1>0. MaxId \in Nat
  BY Bounds
<1>1. T = {}
  <2> SUFFICES ASSUME T # {} PROVE FALSE
    OBVIOUS
  <2>1. PICK m \in T : \A k \in T : m <= k
    <3> HIDE DEF T
    <3>1. T \subseteq Nat
      BY DEF T
    <3> QED
      BY NatLeast, <3>1
  <2>2. m \in Nat /\ ~ \E f \in F : Good(f, m)
    BY <2>1
  <2>3. \E f \in F : Good(f, m)
    <3>1. CASE m = 0
      <4> DEFINE f == [n \in 0..MaxId |-> <<>>]
      <4>1. f \in F
        OBVIOUS
      <4>2. Good(f, 0)
        <5>1. f[0] = <<>>
          BY <1>0
        <5>2. \A n \in Id : ~(n <= 0)
          BY <1>0 DEF Id
        <5> HIDE DEF f
        <5> QED
          BY <5>1, <5>2
      <4> HIDE DEF f
      <4> QED
        BY <4>1, <4>2, <3>1
    <3>2. CASE m # 0
      <4>1. m - 1 \in Nat /\ ~(m <= m - 1)
        BY <2>2, <3>2
      <4>2. PICK f \in F : Good(f, m - 1)
        <5> HIDE DEF Good, F
        <5> QED
          BY <2>1, <4>1
      <4>3. CASE m \notin 0..MaxId
        <5>1. Good(f, m)
          <6>1. \A n \in Id : n <= m => n <= m - 1
            BY <4>3, <2>2, <1>0 DEF Id
          <6> QED
            BY <6>1, <4>2
        <5> QED
          BY <5>1
      <4>4. CASE m \in 0..MaxId
        <5> DEFINE h == [n \in 0..MaxId |-> IF n = m THEN f[m - 1] \o s[m] ELSE f[n]]
        <5>1. f[m - 1] \o s[m] \in Seq(P)
          <6>1. m \in Id /\ m - 1 \in 0..MaxId
            BY <4>4, <3>2, <1>0 DEF Id
          <6> QED
            BY <6>1, ConcatProperties
        <5>2. h \in F
          <6>1. \A n \in 0..MaxId : f[n] \in Seq(P)
            OBVIOUS
          <6> QED
            BY <5>1, <6>1
        <5>3. Good(h, m)
          <6>0. h[0] = f[0]
            <7>1. 0 \in 0..MaxId
              BY <1>0
            <7>2. ~(0 = m)
              BY <3>2
            <7> QED
              BY <7>1, <7>2, Zenon
          <6> SUFFICES ASSUME NEW n \in Id, n <= m
                       PROVE  h[n] = h[n - 1] \o s[n]
            BY <6>0, <4>2
          <6>1. n \in 0..MaxId /\ n - 1 \in 0..MaxId /\ n \in Nat
            BY <1>0 DEF Id
          <6>2. h[n - 1] = f[n - 1]
            BY <6>1, <2>2
          <6>3. CASE n = m
            <7>1. h[n] = f[m - 1] \o s[m]
              BY <6>1, <6>3
            <7> HIDE DEF h
            <7> QED
              BY <7>1, <6>2, <6>3
          <6>4. CASE n # m
            <7>1. h[n] = f[n]
              BY <6>1, <6>4
            <7>2. f[n] = f[n - 1] \o s[n]
              <8>1. n <= m - 1
                BY <6>1, <6>4, <2>2
              <8> QED
                BY <8>1, <4>2
            <7> HIDE DEF h
            <7> QED
              BY <7>1, <7>2, <6>2
          <6> QED
            BY <6>3, <6>4
        <5> QED
          BY <5>2, <5>3
      <4> QED
        BY <4>3, <4>4
    <3> QED
      BY <3>1, <3>2
  <2> QED
    BY <2>2, <2>3
<1>2. PICK f \in F : Good(f, MaxId)
  <2> HIDE DEF Good, F
  <2> QED
    BY <1>0, <1>1
<1>3. UpTo(f, s)
  <2>1. \A n \in Id : n <= MaxId
    BY <1>0 DEF Id
  <2> QED
    BY <1>2, <2>1 DEF UpTo
<1> QED
  BY <1>3

\* ... and InOrder is the last of them.
LEMMA InOrderUpTo ==
    ASSUME NEW P, NEW s \in [Id -> Seq(P)]
    PROVE  \E f \in [0..MaxId -> Seq(P)] : UpTo(f, s) /\ InOrder(s) = f[MaxId]
<1> DEFINE upTo[n \in 0..MaxId] == IF n = 0 THEN <<>> ELSE upTo[n - 1] \o s[n]
           Eq(f) == f = [n \in 0..MaxId |-> IF n = 0 THEN <<>> ELSE f[n - 1] \o s[n]]
<1>0. MaxId \in Nat
  BY Bounds
<1>1. InOrder(s) = upTo[MaxId]
  BY DEF InOrder
<1>2. upTo = CHOOSE f : Eq(f)
  OBVIOUS
<1> HIDE DEF upTo
<1>3. PICK g \in [0..MaxId -> Seq(P)] : UpTo(g, s)
  BY UpToExists
<1>4. Eq(g)
  <2>1. ASSUME NEW n \in 0..MaxId PROVE g[n] = IF n = 0 THEN <<>> ELSE g[n - 1] \o s[n]
    <3>1. n # 0 => n \in Id
      BY <1>0 DEF Id
    <3> QED
      BY <3>1, <1>3 DEF UpTo
  <2> QED
    BY <2>1
<1>5. Eq(upTo)
  <2> HIDE DEF Eq
  <2> QED
    BY <1>2, <1>4, Zenon
<1>6. UpTo(upTo, s)
  <2>1. ASSUME NEW n \in 0..MaxId PROVE upTo[n] = IF n = 0 THEN <<>> ELSE upTo[n - 1] \o s[n]
    BY <1>5
  <2>2. 0 \in 0..MaxId /\ \A n \in Id : n \in 0..MaxId /\ n # 0
    BY <1>0 DEF Id
  <2>3. upTo[0] = <<>>
    BY <2>1, <2>2
  <2>4. ASSUME NEW n \in Id PROVE upTo[n] = upTo[n - 1] \o s[n]
    BY <2>1, <2>2
  <2> QED
    BY <2>3, <2>4 DEF UpTo
<1> DEFINE T == {n \in Nat : n <= MaxId /\ upTo[n] \notin Seq(P)}
<1>7. T = {}
  <2> SUFFICES ASSUME T # {} PROVE FALSE
    OBVIOUS
  <2>1. PICK n \in T : \A m \in T : n <= m
    <3> HIDE DEF T
    <3>1. T \subseteq Nat
      BY DEF T
    <3> QED
      BY NatLeast, <3>1
  <2>2. n \in 0..MaxId /\ upTo[n] \notin Seq(P)
    BY <2>1, <1>0
  <2>3. CASE n = 0
    <3>1. <<>> \in Seq(P)
      OBVIOUS
    <3> QED
      BY <3>1, <2>2, <2>3, <1>6 DEF UpTo
  <2>4. CASE n # 0
    <3>1. n - 1 \in Nat /\ n - 1 <= MaxId /\ ~(n <= n - 1) /\ n \in Id
      BY <2>2, <2>4, <1>0 DEF Id
    <3>2. upTo[n - 1] \in Seq(P)
      BY <2>1, <3>1
    <3>3. s[n] \in Seq(P)
      BY <3>1
    <3>4. upTo[n - 1] \o s[n] \in Seq(P)
      BY <3>2, <3>3, ConcatProperties
    <3>5. upTo[n] = upTo[n - 1] \o s[n]
      BY <3>1, <1>6 DEF UpTo
    <3> QED
      BY <3>4, <3>5, <2>2
  <2> QED
    BY <2>3, <2>4
<1>8. upTo \in [0..MaxId -> Seq(P)]
  <2>1. \A n \in 0..MaxId : upTo[n] \in Seq(P)
    BY <1>7, <1>0
  <2>2. upTo = [n \in 0..MaxId |-> upTo[n]]
    BY <1>5
  <2> QED
    BY <2>1, <2>2
<1> QED
  BY <1>1, <1>6, <1>8

-----------------------------------------------------------------------------
(* What a queue ends with *)

\* Somewhere in q is a packet of A, and none of B after it.
Ends(q, A, B) == \E n \in DOMAIN q : q[n] \in A /\ \A k \in DOMAIN q : k > n => q[k] \notin B

Holds(q, A) == \E n \in DOMAIN q : q[n] \in A

\* Where the elements of a concatenation are.
LEMMA ConcatPlaces ==
    ASSUME NEW P, NEW q \in Seq(P), NEW r \in Seq(P)
    PROVE  /\ q \o r \in Seq(P)
           /\ DOMAIN q = 1..Len(q) /\ DOMAIN r = 1..Len(r) /\ DOMAIN (q \o r) = 1..(Len(q) + Len(r))
           /\ Len(q) \in Nat /\ Len(r) \in Nat
           /\ \A n \in 1..Len(q) : (q \o r)[n] = q[n]
           /\ \A n \in 1..Len(r) : (q \o r)[Len(q) + n] = r[n]
<1>1. Len(q \o r) = Len(q) + Len(r) /\ q \o r \in Seq(P)
  BY ConcatProperties
<1>2. Len(q) \in Nat /\ Len(r) \in Nat /\ DOMAIN q = 1..Len(q) /\ DOMAIN r = 1..Len(r)
  BY LenProperties
<1>3. DOMAIN (q \o r) = 1..(Len(q) + Len(r))
  BY <1>1, LenProperties
<1>4. ASSUME NEW n \in 1..(Len(q) + Len(r))
      PROVE  (q \o r)[n] = IF n <= Len(q) THEN q[n] ELSE r[n - Len(q)]
  BY ConcatProperties
<1>5. ASSUME NEW n \in 1..Len(q) PROVE (q \o r)[n] = q[n]
  <2>1. n \in 1..(Len(q) + Len(r)) /\ n <= Len(q)
    BY <1>2
  <2> QED
    BY <2>1, <1>4
<1>6. ASSUME NEW n \in 1..Len(r) PROVE (q \o r)[Len(q) + n] = r[n]
  <2>1. Len(q) + n \in 1..(Len(q) + Len(r)) /\ ~(Len(q) + n <= Len(q)) /\ (Len(q) + n) - Len(q) = n
    BY <1>2
  <2>2. (q \o r)[Len(q) + n] = r[(Len(q) + n) - Len(q)]
    BY <2>1, <1>4
  <2> QED
    BY <2>1, <2>2
<1> QED
  BY <1>1, <1>2, <1>3, <1>5, <1>6

\* What a concatenation ends with: its second part decides, if it can.
LEMMA EndsConcat ==
    ASSUME NEW P, NEW q \in Seq(P), NEW r \in Seq(P), NEW S, NEW B
    PROVE  Ends(q \o r, S, B) <=> Ends(r, S, B) \/ (Ends(q, S, B) /\ ~Holds(r, B))
<1> DEFINE qr == q \o r
           a == Len(q)
           b == Len(r)
<1>1. /\ DOMAIN q = 1..a /\ DOMAIN r = 1..b /\ DOMAIN qr = 1..(a + b) /\ a \in Nat /\ b \in Nat
      /\ \A n \in 1..a : qr[n] = q[n]
      /\ \A n \in 1..b : qr[a + n] = r[n]
  BY ConcatPlaces
<1> HIDE DEF qr, a, b
<1>2. ASSUME Ends(r, S, B) PROVE Ends(qr, S, B)
  <2>1. PICK n \in 1..b : r[n] \in S /\ \A k \in 1..b : k > n => r[k] \notin B
    BY <1>1, <1>2 DEF Ends
  <2>2. a + n \in 1..(a + b) /\ qr[a + n] \in S
    BY <2>1, <1>1
  <2>3. ASSUME NEW k \in 1..(a + b), k > a + n PROVE qr[k] \notin B
    <3>1. k - a \in 1..b /\ k - a > n /\ k = a + (k - a)
      BY <2>3, <1>1
    <3> QED
      BY <3>1, <2>1, <1>1
  <2> QED
    BY <2>2, <2>3, <1>1 DEF Ends
<1>3. ASSUME Ends(q, S, B), ~Holds(r, B) PROVE Ends(qr, S, B)
  <2>1. PICK n \in 1..a : q[n] \in S /\ \A k \in 1..a : k > n => q[k] \notin B
    BY <1>1, <1>3 DEF Ends
  <2>2. n \in 1..(a + b) /\ qr[n] \in S
    BY <2>1, <1>1
  <2>3. ASSUME NEW k \in 1..(a + b), k > n PROVE qr[k] \notin B
    <3>1. CASE k \in 1..a
      BY <3>1, <2>3, <2>1, <1>1
    <3>2. CASE k \notin 1..a
      <4>1. k - a \in 1..b /\ k = a + (k - a)
        BY <3>2, <1>1
      <4>2. r[k - a] \notin B
        BY <4>1, <1>1, <1>3 DEF Holds
      <4> QED
        BY <4>1, <4>2, <1>1
    <3> QED
      BY <3>1, <3>2
  <2> QED
    BY <2>2, <2>3, <1>1 DEF Ends
<1>4. ASSUME Ends(qr, S, B), ~Ends(r, S, B) PROVE Ends(q, S, B) /\ ~Holds(r, B)
  <2>1. PICK n \in 1..(a + b) : qr[n] \in S /\ \A k \in 1..(a + b) : k > n => qr[k] \notin B
    BY <1>1, <1>4 DEF Ends
  <2>2. n \in 1..a
    <3> SUFFICES ASSUME n \notin 1..a PROVE FALSE
      OBVIOUS
    <3>1. n - a \in 1..b /\ n = a + (n - a)
      BY <1>1
    <3>2. r[n - a] \in S
      BY <3>1, <2>1, <1>1
    <3>3. ASSUME NEW k \in 1..b, k > n - a PROVE r[k] \notin B
      <4>1. a + k \in 1..(a + b) /\ a + k > n
        BY <3>1, <3>3, <1>1
      <4> QED
        BY <4>1, <2>1, <1>1
    <3> QED
      BY <3>1, <3>2, <3>3, <1>1, <1>4 DEF Ends
  <2>3. q[n] \in S
    BY <2>1, <2>2, <1>1
  <2>4. ASSUME NEW k \in 1..a, k > n PROVE q[k] \notin B
    <3>1. k \in 1..(a + b)
      BY <1>1
    <3> QED
      BY <3>1, <2>1, <2>4, <1>1
  <2>5. ASSUME NEW k \in 1..b PROVE r[k] \notin B
    <3>1. a + k \in 1..(a + b) /\ a + k > n
      BY <2>2, <1>1
    <3> QED
      BY <3>1, <2>1, <1>1
  <2> QED
    BY <2>2, <2>3, <2>4, <2>5, <1>1 DEF Ends, Holds
<1> QED
  BY <1>2, <1>3, <1>4 DEF qr

\* What a concatenation holds.
LEMMA HoldsConcat ==
    ASSUME NEW P, NEW q \in Seq(P), NEW r \in Seq(P), NEW S
    PROVE  Holds(q \o r, S) <=> Holds(q, S) \/ Holds(r, S)
<1>1. \A t \in Seq(P) : Holds(t, S) <=> Ends(t, S, {})
  BY DEF Holds, Ends
<1>2. ~Holds(r, {})
  BY DEF Holds
<1>3. Ends(q \o r, S, {}) <=> Ends(r, S, {}) \/ (Ends(q, S, {}) /\ ~Holds(r, {}))
  BY EndsConcat
<1>4. q \o r \in Seq(P)
  BY ConcatProperties
<1> QED
  BY <1>1, <1>2, <1>3, <1>4

\* An empty queue says nothing.
LEMMA ViewEmpty ==
    ASSUME NEW S, NEW B
    PROVE  ~Ends(<<>>, S, B) /\ ~Holds(<<>>, S)
BY DEF Ends, Holds

\* A queue of one packet says what the packet says.
LEMMA ViewOne ==
    ASSUME NEW p, NEW S, NEW B
    PROVE  (Ends(<<p>>, S, B) <=> p \in S) /\ (Holds(<<p>>, S) <=> p \in S)
<1>1. DOMAIN <<p>> = {1} /\ <<p>>[1] = p
  OBVIOUS
<1>2. \A n \in {1}, k \in {1} : ~(k > n)
  OBVIOUS
<1> QED
  BY <1>1, <1>2 DEF Ends, Holds

\* A queue is its head and its tail.
LEMMA Halves ==
    ASSUME NEW P, NEW q \in Seq(P), q # <<>>
    PROVE  Head(q) \in P /\ Tail(q) \in Seq(P) /\ q = <<Head(q)>> \o Tail(q) /\ Len(q) = Len(Tail(q)) + 1
<1>1. Head(q) \in P /\ Tail(q) \in Seq(P)
  BY HeadTailProperties
<1>2. Len(q) = Len(Tail(q)) + 1 /\ \A n \in 1..Len(Tail(q)) : Tail(q)[n] = q[n + 1]
  BY HeadTailProperties
<1>3. <<Head(q)>> \in Seq(P) /\ Len(<<Head(q)>>) = 1 /\ <<Head(q)>>[1] = q[1]
  BY <1>1
<1> DEFINE r == <<Head(q)>> \o Tail(q)
<1>4. /\ r \in Seq(P) /\ DOMAIN r = 1..(1 + Len(Tail(q))) /\ Len(Tail(q)) \in Nat
      /\ \A n \in 1..1 : r[n] = q[1]
      /\ \A n \in 1..Len(Tail(q)) : r[1 + n] = Tail(q)[n]
  BY <1>1, <1>3, ConcatPlaces
<1>5. \A n \in 1..Len(q) : r[n] = q[n]
  <2> TAKE n \in 1..Len(q)
  <2>1. CASE n = 1
    BY <2>1, <1>4
  <2>2. CASE n # 1
    <3>1. n - 1 \in 1..Len(Tail(q)) /\ 1 + (n - 1) = n /\ (n - 1) + 1 = n
      BY <2>2, <1>2, <1>4
    <3>2. r[1 + (n - 1)] = Tail(q)[n - 1] /\ Tail(q)[n - 1] = q[(n - 1) + 1]
      BY <3>1, <1>4, <1>2
    <3> QED
      BY <3>1, <3>2
  <2> QED
    BY <2>1, <2>2
<1>6. Len(r) = Len(q)
  BY <1>4, <1>2, LenProperties
<1>7. r = q
  BY <1>4, <1>5, <1>6, SeqEqual
<1> QED
  BY <1>1, <1>2, <1>7

-----------------------------------------------------------------------------
(* What a walk over a map ends with *)

\* Every packet of S in q has one of T before it.
Preceded(q, S, T) ==
    \A n \in DOMAIN q : q[n] \in S => \E k \in DOMAIN q : k < n /\ q[k] \in T

\* Both parts in the right order, or the first part holding what has to come first.
LEMMA PrecededConcat ==
    ASSUME NEW P, NEW q \in Seq(P), NEW r \in Seq(P), NEW S, NEW T,
           Preceded(q, S, T), Preceded(r, S, T) \/ Holds(q, T)
    PROVE  Preceded(q \o r, S, T)
<1> DEFINE qr == q \o r
           a == Len(q)
           b == Len(r)
<1>1. /\ DOMAIN q = 1..a /\ DOMAIN r = 1..b /\ DOMAIN qr = 1..(a + b) /\ a \in Nat /\ b \in Nat
      /\ \A n \in 1..a : qr[n] = q[n]
      /\ \A n \in 1..b : qr[a + n] = r[n]
  BY ConcatPlaces
<1> HIDE DEF qr, a, b
<1>2. SUFFICES ASSUME NEW n \in 1..(a + b), qr[n] \in S
               PROVE  \E k \in 1..(a + b) : k < n /\ qr[k] \in T
  BY <1>1 DEF Preceded, qr
<1>3. CASE n \in 1..a
  <2>1. PICK k \in 1..a : k < n /\ q[k] \in T
    BY <1>1, <1>2, <1>3 DEF Preceded
  <2>2. k \in 1..(a + b) /\ qr[k] \in T
    BY <2>1, <1>1
  <2> QED
    BY <2>1, <2>2
<1>4. CASE n \notin 1..a
  <2>1. n - a \in 1..b /\ n = a + (n - a)
    BY <1>4, <1>1
  <2>2. r[n - a] \in S
    BY <2>1, <1>1, <1>2
  <2>3. CASE Preceded(r, S, T)
    <3>1. PICK k \in 1..b : k < n - a /\ r[k] \in T
      BY <2>1, <2>2, <2>3, <1>1 DEF Preceded
    <3>2. a + k \in 1..(a + b) /\ a + k < n /\ qr[a + k] \in T
      BY <3>1, <2>1, <1>1
    <3> QED
      BY <3>2
  <2>4. CASE Holds(q, T)
    <3>1. PICK k \in 1..a : q[k] \in T
      BY <2>4, <1>1 DEF Holds
    <3>2. k \in 1..(a + b) /\ k < n /\ qr[k] \in T
      BY <3>1, <1>4, <1>1
    <3> QED
      BY <3>2
  <2> QED
    BY <2>3, <2>4
<1> QED
  BY <1>3, <1>4

\* The walk over a map is a sequence of its elements.
LEMMA InOrderType ==
    ASSUME NEW P, NEW s \in [Id -> Seq(P)]
    PROVE  InOrder(s) \in Seq(P)
<1>1. PICK f \in [0..MaxId -> Seq(P)] : UpTo(f, s) /\ InOrder(s) = f[MaxId]
  BY InOrderUpTo
<1>2. MaxId \in 0..MaxId
  BY Bounds
<1> QED
  BY <1>1, <1>2

\* What is true of nothing and stays true with every id is true of all.
LEMMA InOrderInduction ==
    ASSUME NEW P, NEW s \in [Id -> Seq(P)], NEW f \in [0..MaxId -> Seq(P)], UpTo(f, s),
           NEW G \in [0..MaxId -> BOOLEAN],
           G[0], \A n \in Id : G[n - 1] => G[n]
    PROVE  \A n \in 0..MaxId : G[n]
<1> DEFINE T == {n \in Nat : n <= MaxId /\ ~G[n]}
<1>0. MaxId \in Nat
  BY Bounds
<1>9. SUFFICES T = {}
  <2>1. \A n \in 0..MaxId : n \in Nat /\ n <= MaxId
    BY <1>0
  <2> SUFFICES ASSUME NEW n \in 0..MaxId PROVE G[n]
    OBVIOUS
  <2>2. n \notin T
    BY <1>9
  <2>3. G[n] \in BOOLEAN
    OBVIOUS
  <2> QED
    BY <2>1, <2>2, <2>3
<1> SUFFICES ASSUME T # {} PROVE FALSE
  OBVIOUS
<1>1. PICK n \in T : \A m \in T : n <= m
  <2> HIDE DEF T
  <2>1. T \subseteq Nat
    BY DEF T
  <2> QED
    BY NatLeast, <2>1
<1>2. n \in Nat /\ n <= MaxId /\ ~G[n] /\ n # 0
  BY <1>1
<1>3. n \in Id /\ n - 1 \in Nat /\ n - 1 <= MaxId /\ ~(n <= n - 1)
  BY <1>2, <1>0 DEF Id
<1>4. G[n - 1]
  BY <1>1, <1>3
<1> QED
  BY <1>2, <1>3, <1>4

\* The walk holds what one of its sequences holds.
LEMMA InOrderHolds ==
    ASSUME NEW P, NEW s \in [Id -> Seq(P)], NEW S
    PROVE  Holds(InOrder(s), S) <=> \E i \in Id : Holds(s[i], S)
<1>1. PICK f \in [0..MaxId -> Seq(P)] : UpTo(f, s) /\ InOrder(s) = f[MaxId]
  BY InOrderUpTo
<1>0. MaxId \in Nat /\ MaxId \in 0..MaxId
  BY Bounds
<1>7. ASSUME NEW n \in Id
      PROVE  /\ n \in 0..MaxId /\ n - 1 \in 0..MaxId /\ 1..n = 1..(n - 1) \cup {n}
             /\ f[n] = f[n - 1] \o s[n]
             /\ f[n - 1] \in Seq(P) /\ s[n] \in Seq(P)
  <2>1. n \in 0..MaxId /\ n - 1 \in 0..MaxId
    BY <1>0 DEF Id
  <2>2. 1..n = 1..(n - 1) \cup {n}
    BY <1>0 DEF Id
  <2>3. f[n] = f[n - 1] \o s[n]
    BY <1>1 DEF UpTo
  <2>4. f[n - 1] \in Seq(P) /\ s[n] \in Seq(P)
    BY <2>1
  <2> QED
    BY <2>1, <2>2, <2>3, <2>4
<1> DEFINE G == [n \in 0..MaxId |-> Holds(f[n], S) <=> \E i \in 1..n : Holds(s[i], S)]
<1>2. G \in [0..MaxId -> BOOLEAN]
  OBVIOUS
<1>3. G[0]
  <2>1. ~Holds(f[0], S)
    BY <1>1, ViewEmpty DEF UpTo
  <2>2. 0 \in 0..MaxId /\ 1..0 = {}
    BY <1>0
  <2> QED
    BY <2>1, <2>2
<1>4. ASSUME NEW n \in Id, G[n - 1] PROVE G[n]
  <2>1. n \in 0..MaxId /\ n - 1 \in 0..MaxId /\ 1..n = 1..(n - 1) \cup {n} /\ f[n] = f[n - 1] \o s[n]
        /\ f[n - 1] \in Seq(P) /\ s[n] \in Seq(P)
    BY <1>7
  <2>2. Holds(f[n], S) <=> Holds(f[n - 1], S) \/ Holds(s[n], S)
    BY <2>1, HoldsConcat
  <2>3. Holds(f[n - 1], S) <=> \E i \in 1..(n - 1) : Holds(s[i], S)
    BY <2>1, <1>4
  <2>4. Holds(f[n], S) <=> \E i \in 1..n : Holds(s[i], S)
    BY <2>1, <2>2, <2>3
  <2> QED
    BY <2>1, <2>4
<1>5. G[MaxId]
  <2> HIDE DEF G
  <2>1. \A n \in 0..MaxId : G[n]
    BY <1>1, <1>2, <1>3, <1>4, InOrderInduction
  <2> QED
    BY <2>1, <1>0
<1> QED
  BY <1>5, <1>0, <1>1 DEF Id

\* Every sequence in the right order, and the walk is.
LEMMA InOrderPreceded ==
    ASSUME NEW P, NEW s \in [Id -> Seq(P)], NEW S, NEW T, \A i \in Id : Preceded(s[i], S, T)
    PROVE  Preceded(InOrder(s), S, T)
<1>1. PICK f \in [0..MaxId -> Seq(P)] : UpTo(f, s) /\ InOrder(s) = f[MaxId]
  BY InOrderUpTo
<1>0. MaxId \in Nat /\ MaxId \in 0..MaxId
  BY Bounds
<1>7. ASSUME NEW n \in Id
      PROVE  /\ n \in 0..MaxId /\ n - 1 \in 0..MaxId /\ 1..n = 1..(n - 1) \cup {n}
             /\ f[n] = f[n - 1] \o s[n]
             /\ f[n - 1] \in Seq(P) /\ s[n] \in Seq(P)
  <2>1. n \in 0..MaxId /\ n - 1 \in 0..MaxId
    BY <1>0 DEF Id
  <2>2. 1..n = 1..(n - 1) \cup {n}
    BY <1>0 DEF Id
  <2>3. f[n] = f[n - 1] \o s[n]
    BY <1>1 DEF UpTo
  <2>4. f[n - 1] \in Seq(P) /\ s[n] \in Seq(P)
    BY <2>1
  <2> QED
    BY <2>1, <2>2, <2>3, <2>4
<1> DEFINE G == [n \in 0..MaxId |-> Preceded(f[n], S, T)]
<1>2. G \in [0..MaxId -> BOOLEAN]
  BY DEF Preceded
<1>3. G[0]
  <2>1. Preceded(f[0], S, T)
    BY <1>1 DEF UpTo, Preceded
  <2>2. 0 \in 0..MaxId
    BY <1>0
  <2> QED
    BY <2>1, <2>2
<1>4. ASSUME NEW n \in Id, G[n - 1] PROVE G[n]
  <2>1. n \in 0..MaxId /\ n - 1 \in 0..MaxId /\ f[n] = f[n - 1] \o s[n]
        /\ f[n - 1] \in Seq(P) /\ s[n] \in Seq(P)
    BY <1>7
  <2>2. Preceded(f[n - 1], S, T)
    BY <2>1, <1>4
  <2>3. Preceded(f[n - 1] \o s[n], S, T)
    BY <2>1, <2>2, PrecededConcat
  <2> QED
    BY <2>1, <2>3
<1>5. G[MaxId]
  <2> HIDE DEF G
  <2>1. \A n \in 0..MaxId : G[n]
    BY <1>1, <1>2, <1>3, <1>4, InOrderInduction
  <2> QED
    BY <2>1, <1>0
<1> QED
  BY <1>5, <1>0, <1>1

\* What only id i has packets of, the whole says as the packets of i do.
LEMMA InOrderEnds ==
    ASSUME NEW P, NEW s \in [Id -> Seq(P)], NEW i \in Id, NEW S, NEW B,
           \A j \in Id \ {i} : ~Holds(s[j], S) /\ ~Holds(s[j], B)
    PROVE  Ends(InOrder(s), S, B) <=> Ends(s[i], S, B)
<1>1. PICK f \in [0..MaxId -> Seq(P)] : UpTo(f, s) /\ InOrder(s) = f[MaxId]
  BY InOrderUpTo
<1>0. MaxId \in Nat /\ MaxId \in 0..MaxId
  BY Bounds
<1>7. ASSUME NEW n \in Id
      PROVE  /\ n \in 0..MaxId /\ n - 1 \in 0..MaxId /\ 1..n = 1..(n - 1) \cup {n}
             /\ f[n] = f[n - 1] \o s[n]
             /\ f[n - 1] \in Seq(P) /\ s[n] \in Seq(P)
  <2>1. n \in 0..MaxId /\ n - 1 \in 0..MaxId
    BY <1>0 DEF Id
  <2>2. 1..n = 1..(n - 1) \cup {n}
    BY <1>0 DEF Id
  <2>3. f[n] = f[n - 1] \o s[n]
    BY <1>1 DEF UpTo
  <2>4. f[n - 1] \in Seq(P) /\ s[n] \in Seq(P)
    BY <2>1
  <2> QED
    BY <2>1, <2>2, <2>3, <2>4
<1> DEFINE G == [n \in 0..MaxId |-> Ends(f[n], S, B) <=> n >= i /\ Ends(s[i], S, B)]
<1>2. G \in [0..MaxId -> BOOLEAN]
  OBVIOUS
<1>3. G[0]
  <2>1. ~Ends(f[0], S, B)
    BY <1>1, ViewEmpty DEF UpTo
  <2>2. 0 \in 0..MaxId /\ ~(0 >= i)
    BY <1>0 DEF Id
  <2> QED
    BY <2>1, <2>2
<1>4. ASSUME NEW n \in Id, G[n - 1] PROVE G[n]
  <2>1. n \in 0..MaxId /\ n - 1 \in 0..MaxId /\ f[n] = f[n - 1] \o s[n]
        /\ f[n - 1] \in Seq(P) /\ s[n] \in Seq(P)
    BY <1>7
  <2>2. Ends(f[n], S, B) <=> Ends(s[n], S, B) \/ (Ends(f[n - 1], S, B) /\ ~Holds(s[n], B))
    BY <2>1, EndsConcat
  <2>3. Ends(f[n - 1], S, B) <=> n - 1 >= i /\ Ends(s[i], S, B)
    BY <2>1, <1>4
  <2>4. Ends(f[n], S, B) <=> n >= i /\ Ends(s[i], S, B)
    <3>1. CASE n = i
      <4>1. ~(n - 1 >= i) /\ n >= i
        BY <3>1 DEF Id
      <4> QED
        BY <4>1, <2>2, <2>3, <3>1
    <3>2. CASE n # i
      <4>1. n - 1 >= i <=> n >= i
        BY <3>2 DEF Id
      <4>2. ~Ends(s[n], S, B) /\ ~Holds(s[n], B)
        BY <3>2 DEF Ends, Holds
      <4> QED
        BY <4>1, <4>2, <2>2, <2>3
    <3> QED
      BY <3>1, <3>2
  <2> QED
    BY <2>1, <2>4
<1>5. G[MaxId]
  <2> HIDE DEF G
  <2>1. \A n \in 0..MaxId : G[n]
    BY <1>1, <1>2, <1>3, <1>4, InOrderInduction
  <2> QED
    BY <2>1, <1>0
<1>6. MaxId >= i
  BY <1>0 DEF Id
<1> QED
  BY <1>5, <1>6, <1>0, <1>1

\* There is a last packet of S.
LEMMA HasLast ==
    ASSUME NEW P, NEW q \in Seq(P), NEW S, Holds(q, S)
    PROVE  Ends(q, S, S)
<1> DEFINE T == {n \in Nat : Len(q) - n \in DOMAIN q /\ q[Len(q) - n] \in S}
<1>1. Len(q) \in Nat /\ DOMAIN q = 1..Len(q)
  BY LenProperties
<1>2. T # {}
  <2>1. PICK n \in 1..Len(q) : q[n] \in S
    BY <1>1 DEF Holds
  <2>2. Len(q) - n \in Nat /\ Len(q) - (Len(q) - n) = n
    BY <1>1
  <2> QED
    BY <1>1, <2>1, <2>2
<1>3. PICK n \in T : \A m \in T : n <= m
  <2> HIDE DEF T
  <2>1. T \subseteq Nat
    BY DEF T
  <2> QED
    BY NatLeast, <1>2, <2>1
<1>4. ASSUME NEW k \in 1..Len(q), k > Len(q) - n PROVE q[k] \notin S
  <2>1. Len(q) - k \in Nat /\ Len(q) - (Len(q) - k) = k /\ ~(n <= Len(q) - k)
    BY <1>4, <1>1, <1>3
  <2> QED
    BY <2>1, <1>3, <1>1
<1> QED
  BY <1>1, <1>3, <1>4 DEF Ends

-----------------------------------------------------------------------------
(* The walk of _init *)

\* The packet _init sends of i.
Shown(i) == UPDATE(i, params[i], IF Short(i) THEN {} ELSE Fields)

Present == {i \in Id : params[i] # None}

Member(i, V, g) == i \in V /\ params[i] # None /\ params[i].par = g

Members(w, V, g) ==
    [i \in Id |-> IF i \in V /\ params[i] # None /\ params[i].par = g
                  THEN <<Shown(i)>> \o w[V \ {i}][i] ELSE <<>>]

Walks == [SUBSET Id -> [Id \cup {0} -> Seq({Shown(i) : i \in Present})]]

IsWalk(w) == \A V \in SUBSET Id : \A g \in Id \cup {0} : w[V][g] = InOrder(Members(w, V, g))

\* The members of a group and what is below them are packets.
LEMMA MembersType ==
    ASSUME NEW w \in Walks, NEW V \in SUBSET Id, NEW g \in Id \cup {0}
    PROVE  /\ Members(w, V, g) \in [Id -> Seq({Shown(i) : i \in Present})]
           /\ InOrder(Members(w, V, g)) \in Seq({Shown(i) : i \in Present})
<1> DEFINE P == {Shown(i) : i \in Present}
<1>1. ASSUME NEW i \in Id, i \in V /\ params[i] # None /\ params[i].par = g
      PROVE  <<Shown(i)>> \o w[V \ {i}][i] \in Seq(P)
  <2>1. Shown(i) \in P
    BY <1>1 DEF Present
  <2>2. <<Shown(i)>> \in Seq(P)
    <3> HIDE DEF P
    <3> QED
      BY <2>1
  <2>3. w[V \ {i}][i] \in Seq(P)
    BY <1>1 DEF Walks
  <2> HIDE DEF P
  <2> QED
    BY <2>2, <2>3, ConcatProperties
<1>2. <<>> \in Seq(P)
  OBVIOUS
<1> HIDE DEF P
<1>3. Members(w, V, g) \in [Id -> Seq(P)]
  BY <1>1, <1>2 DEF Members
<1>4. InOrder(Members(w, V, g)) \in Seq(P)
  BY <1>3, InOrderType
<1> QED
  BY <1>3, <1>4 DEF P

\* Good for the sets of at most n ids
WalksTo(w, n) ==
    \A V \in SUBSET Id : \A g \in Id \cup {0} :
        Cardinality(V) <= n => w[V][g] = InOrder(Members(w, V, g))

\* The set of what is not above the group shrinks on the way down.
LEMMA Fewer ==
    ASSUME NEW V \in SUBSET Id, NEW i \in V
    PROVE  V \ {i} \in SUBSET Id /\ Cardinality(V) \in Nat /\ Cardinality(V) # 0
           /\ Cardinality(V \ {i}) = Cardinality(V) - 1
<1>1. MaxId \in Nat
  BY Bounds
<1>2. IsFiniteSet(V) /\ Cardinality(V) \in Nat
  BY <1>1, FiniteIds DEF Id
<1>3. Cardinality(V \ {i}) = Cardinality(V) - 1
  BY <1>2, FS_RemoveElement
<1>4. Cardinality(V \ {i}) \in Nat
  <2>1. V \ {i} \in SUBSET (1..MaxId)
    BY DEF Id
  <2> QED
    BY <1>1, <2>1, FiniteIds
<1> QED
  BY <1>2, <1>3, <1>4

\* The recursive function of InitPackets is defined ...
LEMMA WalkExists == \E w \in Walks : IsWalk(w)
<1> DEFINE T == {n \in Nat : ~ \E w \in Walks : WalksTo(w, n)}
<1>0. MaxId \in Nat
  BY Bounds
<1>1. ASSUME NEW V \in SUBSET Id PROVE Cardinality(V) \in Nat /\ Cardinality(V) <= MaxId
  <2>1. IsFiniteSet(Id) /\ Cardinality(Id) = MaxId
    BY <1>0, FS_Interval DEF Id
  <2>2. Cardinality(V) <= Cardinality(Id)
    BY <2>1, FS_Subset
  <2> QED
    BY <2>1, <2>2, <1>0, FiniteIds DEF Id
<1>2. T = {}
  <2> SUFFICES ASSUME T # {} PROVE FALSE
    OBVIOUS
  <2>1. PICK n \in T : \A k \in T : n <= k
    <3> HIDE DEF T
    <3>1. T \subseteq Nat
      BY DEF T
    <3> QED
      BY NatLeast, <3>1
  <2>2. n \in Nat /\ ~ \E w \in Walks : WalksTo(w, n)
    BY <2>1
  <2>3. PICK w \in Walks : \A V \in SUBSET Id, g \in Id \cup {0} :
            Cardinality(V) < n => w[V][g] = InOrder(Members(w, V, g))
    <3>1. CASE n = 0
      <4> DEFINE v == [V \in SUBSET Id |-> [g \in Id \cup {0} |-> <<>>]]
      <4>1. <<>> \in Seq({Shown(i) : i \in Present})
        OBVIOUS
      <4>2. v \in Walks
        BY <4>1 DEF Walks
      <4>3. \A V \in SUBSET Id : ~(Cardinality(V) < n)
        BY <1>1, <3>1
      <4> HIDE DEF v
      <4> QED
        BY <4>2, <4>3
    <3>2. CASE n # 0
      <4>1. n - 1 \in Nat /\ n - 1 \notin T
        BY <2>1, <2>2, <3>2
      <4>2. PICK w \in Walks : WalksTo(w, n - 1)
        BY <4>1
      <4>3. \A V \in SUBSET Id : Cardinality(V) < n => Cardinality(V) <= n - 1
        BY <1>1, <2>2
      <4> QED
        BY <4>2, <4>3 DEF WalksTo
    <3> QED
      BY <3>1, <3>2
  <2> DEFINE v == [V \in SUBSET Id |-> [g \in Id \cup {0} |->
                    IF Cardinality(V) = n THEN InOrder(Members(w, V, g)) ELSE w[V][g]]]
  <2>4. v \in Walks
    <3>1. \A V \in SUBSET Id, g \in Id \cup {0} :
            /\ InOrder(Members(w, V, g)) \in Seq({Shown(i) : i \in Present})
            /\ w[V][g] \in Seq({Shown(i) : i \in Present})
      BY MembersType DEF Walks
    <3> QED
      BY <3>1 DEF Walks
  <2>5. ASSUME NEW V \in SUBSET Id, NEW g \in Id \cup {0}, Cardinality(V) <= n
        PROVE  v[V][g] = InOrder(Members(v, V, g))
    <3>1. ASSUME NEW i \in V, i \in Id PROVE v[V \ {i}][i] = w[V \ {i}][i]
      <4>1. V \ {i} \in SUBSET Id /\ Cardinality(V \ {i}) = Cardinality(V) - 1 /\ Cardinality(V) \in Nat
        BY Fewer
      <4>2. Cardinality(V \ {i}) # n
        BY <4>1, <2>5, <2>2
      <4> QED
        BY <4>1, <4>2, <3>1
    <3>2. Members(v, V, g) = Members(w, V, g)
      <4> HIDE DEF v
      <4> QED
        BY <3>1 DEF Members
    <3>3. v[V][g] = InOrder(Members(w, V, g))
      <4>1. CASE Cardinality(V) = n
        BY <4>1
      <4>2. CASE Cardinality(V) # n
        <5>1. Cardinality(V) < n
          BY <4>2, <2>5, <1>1, <2>2
        <5>2. w[V][g] = InOrder(Members(w, V, g))
          BY <5>1, <2>3
        <5>3. v[V][g] = w[V][g]
          BY <4>2
        <5> QED
          BY <5>2, <5>3
      <4> QED
        BY <4>1, <4>2
    <3> QED
      BY <3>2, <3>3
  <2> HIDE DEF v
  <2>6. WalksTo(v, n)
    BY <2>5 DEF WalksTo
  <2> QED
    BY <2>2, <2>4, <2>6
<1>3. PICK w \in Walks : WalksTo(w, MaxId)
  BY <1>0, <1>2
<1> QED
  BY <1>3, <1>1 DEF WalksTo, IsWalk

\* ... and InitPackets is its value at the root.
LEMMA InitPacketsWalk == \E w \in Walks : IsWalk(w) /\ InitPackets = w[Id][0]
<1> DEFINE walk[V \in SUBSET Id] == [g \in Id \cup {0} |-> InOrder([i \in Id |->
                IF i \in V /\ params[i] # None /\ params[i].par = g
                THEN <<UPDATE(i, params[i], IF Short(i) THEN {} ELSE Fields)>> \o walk[V \ {i}][i]
                ELSE <<>>])]
           Eq(w) == w = [V \in SUBSET Id |-> [g \in Id \cup {0} |-> InOrder([i \in Id |->
                IF i \in V /\ params[i] # None /\ params[i].par = g
                THEN <<UPDATE(i, params[i], IF Short(i) THEN {} ELSE Fields)>> \o w[V \ {i}][i]
                ELSE <<>>])]]
<1>1. InitPackets = walk[Id][0]
  BY DEF InitPackets
<1>2. walk = CHOOSE w : Eq(w)
  OBVIOUS
<1> HIDE DEF walk
<1>3. PICK w \in Walks : IsWalk(w)
  BY WalkExists
<1>4. ASSUME NEW v PROVE Eq(v) <=> v = [V \in SUBSET Id |-> [g \in Id \cup {0} |-> InOrder(Members(v, V, g))]]
  BY DEF Members, Shown
<1>5. Eq(w)
  <2>1. w = [V \in SUBSET Id |-> [g \in Id \cup {0} |-> w[V][g]]]
    BY DEF Walks
  <2>2. w = [V \in SUBSET Id |-> [g \in Id \cup {0} |-> InOrder(Members(w, V, g))]]
    BY <2>1, <1>3 DEF IsWalk
  <2> HIDE DEF Eq
  <2> QED
    BY <2>2, <1>4
<1>6. Eq(walk)
  <2> HIDE DEF Eq
  <2> QED
    BY <1>2, <1>5, Zenon
<1>7. walk = [V \in SUBSET Id |-> [g \in Id \cup {0} |-> InOrder(Members(walk, V, g))]]
  <2> HIDE DEF Eq
  <2> QED
    BY <1>4, <1>6
<1> HIDE DEF Eq
<1>8. IsWalk(walk)
  <2>1. ASSUME NEW V \in SUBSET Id, NEW g \in Id \cup {0}
        PROVE  walk[V][g] = InOrder(Members(walk, V, g))
    BY <1>7
  <2> QED
    BY <2>1 DEF IsWalk
<1>9. \A V \in SUBSET Id : walk[V] = w[V]
  <2> DEFINE T == {n \in Nat : \E V \in SUBSET Id : Cardinality(V) = n /\ walk[V] # w[V]}
  <2>1. \A V \in SUBSET Id : Cardinality(V) \in Nat
    <3>1. MaxId \in Nat
      BY Bounds
    <3> QED
      BY <3>1, FiniteIds DEF Id
  <2> SUFFICES ASSUME T # {} PROVE FALSE
    <3>1. \A V \in SUBSET Id : walk[V] # w[V] => Cardinality(V) \in T
      BY <2>1
    <3> QED
      BY <3>1
  <2>2. PICK n \in T : \A k \in T : n <= k
    <3> HIDE DEF T
    <3>1. T \subseteq Nat
      BY DEF T
    <3> QED
      BY NatLeast, <3>1
  <2>3. PICK V \in SUBSET Id : Cardinality(V) = n /\ walk[V] # w[V]
    BY <2>2
  <2>4. ASSUME NEW i \in V PROVE walk[V \ {i}] = w[V \ {i}]
    <3>1. V \ {i} \in SUBSET Id /\ Cardinality(V) # 0 /\ Cardinality(V) \in Nat
          /\ Cardinality(V \ {i}) = Cardinality(V) - 1
      BY Fewer
    <3>2. Cardinality(V \ {i}) \notin T
      <4>1. ~(n <= Cardinality(V \ {i}))
        BY <3>1, <2>3
      <4> HIDE DEF T
      <4> QED
        BY <4>1, <2>2
    <3>3. Cardinality(V \ {i}) \in Nat
      BY <3>1
    <3> QED
      BY <3>1, <3>2, <3>3
  <2>5. \A g \in Id \cup {0} : Members(walk, V, g) = Members(w, V, g)
    BY <2>4 DEF Members
  <2>6. w[V] = [g \in Id \cup {0} |-> InOrder(Members(w, V, g))]
    <3>1. w[V] = [g \in Id \cup {0} |-> w[V][g]]
      BY DEF Walks
    <3> QED
      BY <3>1, <1>3 DEF IsWalk
  <2>7. walk[V] = [g \in Id \cup {0} |-> InOrder(Members(walk, V, g))]
    BY <1>7
  <2> QED
    BY <2>3, <2>5, <2>6, <2>7
<1> QED
  BY <1>1, <1>3, <1>9

\* The packets of two ids differ.
LEMMA ShownOnce ==
    ASSUME NEW i, NEW j
    PROVE  Shown(i) = Shown(j) <=> i = j
BY DEF Shown, UPDATE, Packet

\* In the walk of V below g every packet of i comes after that of its group,
\* and with a group all its members in V.
WalkGood(w, V, g) ==
    /\ \A i \in Present : \A h \in Id \ {g} :
        params[i].par = h => Preceded(w[V][g], {Shown(i)}, {Shown(h)})
    /\ \A i \in Present \cap V : \A h \in Id :
        params[i].par = h /\ Holds(w[V][g], {Shown(h)}) => Holds(w[V][g], {Shown(i)})
    /\ \A i \in Present \cap V : params[i].par = g => Holds(w[V][g], {Shown(i)})

\* HoldsConcat as a formula.
LEMMA JoinedHolds ==
    \A P, S : \A q, r \in Seq(P) : Holds(q \o r, S) <=> Holds(q, S) \/ Holds(r, S)
BY HoldsConcat

\* What holds one level down holds here ...
LEMMA WalkGoodStep ==
    ASSUME NEW w \in Walks, IsWalk(w), NEW V \in SUBSET Id, NEW g \in Id \cup {0},
           \A i \in V : WalkGood(w, V \ {i}, i)
    PROVE  WalkGood(w, V, g)
<1> DEFINE P == {Shown(i) : i \in Present}
           s == Members(w, V, g)
           q == w[V][g]
<1>1. s \in [Id -> Seq(P)] /\ q = InOrder(s)
  BY MembersType DEF IsWalk
<1>2. ASSUME NEW i \in Id
      PROVE  /\ Member(i, V, g) => s[i] = <<Shown(i)>> \o w[V \ {i}][i]
             /\ ~Member(i, V, g) => s[i] = <<>>
  BY DEF Members, Member
<1> HIDE DEF s
<1>3. ASSUME NEW i \in Id, Member(i, V, g)
      PROVE  <<Shown(i)>> \in Seq(P) /\ w[V \ {i}][i] \in Seq(P) /\ i \in Present /\ i \in V /\ params[i].par = g
  <2>1. Shown(i) \in P /\ i \in Present /\ i \in V /\ params[i].par = g
    BY <1>3 DEF Present, Member
  <2>2. w[V \ {i}][i] \in Seq(P)
    BY DEF Walks
  <2> HIDE DEF P
  <2> QED
    BY <2>1, <2>2
<1> HIDE DEF P
<1>4. ASSUME NEW i \in Present, NEW h \in Id \ {g}, params[i].par = h
      PROVE  Preceded(q, {Shown(i)}, {Shown(h)})
  <2>1. ASSUME NEW j \in Id PROVE Preceded(s[j], {Shown(i)}, {Shown(h)})
    <3>1. CASE ~Member(j, V, g)
      <4>1. s[j] = <<>>
        BY <3>1, <1>2
      <4> QED
        BY <4>1 DEF Preceded
    <3>2. CASE Member(j, V, g)
      <4>1. Shown(j) # Shown(i)
        BY <3>2, <1>3, <1>4, ShownOnce
      <4>2. Preceded(<<Shown(j)>>, {Shown(i)}, {Shown(h)})
        BY <4>1 DEF Preceded
      <4>3. Preceded(w[V \ {j}][j], {Shown(i)}, {Shown(h)}) \/ Holds(<<Shown(j)>>, {Shown(h)})
        <5>1. CASE h = j
          BY <5>1, ViewOne
        <5>2. CASE h # j
          <6>1. WalkGood(w, V \ {j}, j)
            BY <3>2, <1>3
          <6> QED
            BY <6>1, <5>2, <1>4 DEF WalkGood
        <5> QED
          BY <5>1, <5>2
      <4>4. <<Shown(j)>> \in Seq(P) /\ w[V \ {j}][j] \in Seq(P)
        BY <3>2, <1>3
      <4>5. Preceded(<<Shown(j)>> \o w[V \ {j}][j], {Shown(i)}, {Shown(h)})
        BY <4>2, <4>3, <4>4, PrecededConcat
      <4> QED
        BY <4>5, <1>2, <3>2
    <3> QED
      BY <3>1, <3>2
  <2> QED
    BY <2>1, <1>1, InOrderPreceded
<1>5. ASSUME NEW i \in Present \cap V, params[i].par = g
      PROVE  Holds(q, {Shown(i)})
  <2>1. i \in Id /\ Member(i, V, g)
    BY <1>5 DEF Present, Member
  <2>2. Holds(<<Shown(i)>>, {Shown(i)})
    BY ViewOne
  <2>3. Holds(s[i], {Shown(i)})
    <3>1. <<Shown(i)>> \in Seq(P) /\ w[V \ {i}][i] \in Seq(P) /\ s[i] = <<Shown(i)>> \o w[V \ {i}][i]
      BY <2>1, <1>2, <1>3
    <3>2. Holds(<<Shown(i)>> \o w[V \ {i}][i], {Shown(i)})
      BY <3>1, <2>2, JoinedHolds
    <3> QED
      BY <3>1, <3>2
  <2> QED
    BY <2>1, <2>3, <1>1, InOrderHolds
<1>6. ASSUME NEW i \in Present \cap V, NEW h \in Id, params[i].par = h, Holds(q, {Shown(h)})
      PROVE  Holds(q, {Shown(i)})
  <2>0. i \in Id
    BY DEF Present
  <2>1. PICK j \in Id : Holds(s[j], {Shown(h)})
    BY <1>1, <1>6, InOrderHolds
  <2>2. Member(j, V, g)
    BY <2>1, <1>2, ViewEmpty
  <2>3. /\ <<Shown(j)>> \in Seq(P) /\ w[V \ {j}][j] \in Seq(P) /\ j \in Present /\ j \in V
        /\ s[j] = <<Shown(j)>> \o w[V \ {j}][j]
    BY <2>2, <1>2, <1>3
  <2>6. Holds(s[j], {Shown(h)}) <=> Holds(<<Shown(j)>>, {Shown(h)}) \/ Holds(w[V \ {j}][j], {Shown(h)})
    <3>1. Holds(<<Shown(j)>> \o w[V \ {j}][j], {Shown(h)})
            <=> Holds(<<Shown(j)>>, {Shown(h)}) \/ Holds(w[V \ {j}][j], {Shown(h)})
      BY <2>3, JoinedHolds
    <3> QED
      BY <3>1, <2>3
  <2>7. Holds(s[j], {Shown(i)}) <=> Holds(<<Shown(j)>>, {Shown(i)}) \/ Holds(w[V \ {j}][j], {Shown(i)})
    <3>1. Holds(<<Shown(j)>> \o w[V \ {j}][j], {Shown(i)})
            <=> Holds(<<Shown(j)>>, {Shown(i)}) \/ Holds(w[V \ {j}][j], {Shown(i)})
      BY <2>3, JoinedHolds
    <3> QED
      BY <3>1, <2>3
  <2>4. CASE i = j
    BY <2>2, <2>4, <1>5, <1>3
  <2>5. CASE i # j
    <3>1. i \in Present \cap (V \ {j}) /\ WalkGood(w, V \ {j}, j)
      BY <2>5, <2>3
    <3>2. Holds(w[V \ {j}][j], {Shown(i)})
      <4>1. CASE h = j
        BY <4>1, <3>1, <1>6 DEF WalkGood
      <4>2. CASE h # j
        <5>1. ~Holds(<<Shown(j)>>, {Shown(h)})
          <6>1. Shown(j) # Shown(h)
            BY <4>2, ShownOnce
          <6> QED
            BY <6>1, ViewOne
        <5>2. Holds(w[V \ {j}][j], {Shown(h)})
          BY <5>1, <2>1, <2>6
        <5> QED
          BY <5>2, <3>1, <1>6 DEF WalkGood
      <4> QED
        BY <4>1, <4>2
    <3>3. Holds(s[j], {Shown(i)})
      BY <3>2, <2>7
    <3> QED
      BY <3>3, <1>1, InOrderHolds
  <2> QED
    BY <2>4, <2>5
<1> QED
  BY <1>4, <1>5, <1>6 DEF WalkGood

\* ... so it holds for every group.
LEMMA WalkIsGood ==
    ASSUME NEW w \in Walks, IsWalk(w)
    PROVE  \A V \in SUBSET Id, g \in Id \cup {0} : WalkGood(w, V, g)
<1> DEFINE T == {n \in Nat : \E V \in SUBSET Id, g \in Id \cup {0} : Cardinality(V) = n /\ ~WalkGood(w, V, g)}
<1>1. \A V \in SUBSET Id : Cardinality(V) \in Nat
  <2>1. MaxId \in Nat
    BY Bounds
  <2> QED
    BY <2>1, FiniteIds DEF Id
<1> SUFFICES ASSUME T # {} PROVE FALSE
  <2>1. \A V \in SUBSET Id, g \in Id \cup {0} : ~WalkGood(w, V, g) => Cardinality(V) \in T
    BY <1>1
  <2> QED
    BY <2>1
<1>2. PICK n \in T : \A k \in T : n <= k
  <2> HIDE DEF T
  <2>1. T \subseteq Nat
    BY DEF T
  <2> QED
    BY NatLeast, <2>1
<1>3. PICK V \in SUBSET Id, g \in Id \cup {0} : Cardinality(V) = n /\ ~WalkGood(w, V, g)
  BY <1>2
<1>4. ASSUME NEW i \in V PROVE WalkGood(w, V \ {i}, i)
  <2>1. V \ {i} \in SUBSET Id /\ Cardinality(V) # 0 /\ Cardinality(V) \in Nat
        /\ Cardinality(V \ {i}) = Cardinality(V) - 1
    BY Fewer
  <2>2. Cardinality(V \ {i}) \notin T
    <3>1. ~(n <= Cardinality(V \ {i}))
      BY <2>1, <1>3
    <3> HIDE DEF T
    <3> QED
      BY <3>1, <1>2
  <2>3. Cardinality(V \ {i}) \in Nat /\ i \in Id
    BY <2>1
  <2> QED
    BY <2>1, <2>2, <2>3
<1> HIDE DEF T
<1> QED
  BY <1>3, <1>4, WalkGoodStep

\* _init sends everything below the root, and a group before its members.
LEMMA InitPacketsShow ==
    /\ InitPackets \in Seq({Shown(i) : i \in Present})
    /\ \A i \in Present \cap Below(params, 0) : Holds(InitPackets, {Shown(i)})
    /\ \A i \in Present : \A h \in Id :
        params[i].par = h => Preceded(InitPackets, {Shown(i)}, {Shown(h)})
<1>1. PICK w \in Walks : IsWalk(w) /\ InitPackets = w[Id][0]
  BY InitPacketsWalk
<1>0. 0 \notin Id
  BY DEF Id
<1>2. WalkGood(w, Id, 0)
  BY <1>1, WalkIsGood
<1>3. InitPackets \in Seq({Shown(i) : i \in Present})
  BY <1>1 DEF Walks
<1>4. ASSUME NEW i \in Present \cap Below(params, 0) PROVE Holds(InitPackets, {Shown(i)})
  <2> DEFINE S == {0} \cup {k \in Present : Holds(InitPackets, {Shown(k)})}
  <2>1. S \in SUBSET (Id \cup {0}) /\ 0 \in S
    BY DEF Present
  <2>2. ASSUME NEW k \in Id, params[k] # None, params[k].par \in S PROVE k \in S
    <3>1. k \in Present \cap Id
      BY <2>2 DEF Present
    <3>2. Holds(InitPackets, {Shown(k)})
      <4>1. CASE params[k].par = 0
        BY <4>1, <3>1, <1>1, <1>2 DEF WalkGood
      <4>2. CASE params[k].par # 0
        <5>1. params[k].par \in Id /\ Holds(InitPackets, {Shown(params[k].par)})
          BY <4>2, <2>2 DEF Present
        <5> QED
          BY <5>1, <3>1, <1>1, <1>2 DEF WalkGood
      <4> QED
        BY <4>1, <4>2
    <3> QED
      BY <3>1, <3>2
  <2> HIDE DEF S
  <2>3. i \in S
    BY <2>1, <2>2 DEF Below
  <2> QED
    BY <2>3, <1>0 DEF S, Present
<1>5. ASSUME NEW i \in Present, NEW h \in Id, params[i].par = h
      PROVE  Preceded(InitPackets, {Shown(i)}, {Shown(h)})
  BY <1>0, <1>1, <1>2, <1>5 DEF WalkGood
<1> QED
  BY <1>3, <1>4, <1>5

-----------------------------------------------------------------------------
(* The fields of packets and parameters *)

Params == [Id -> Parameter \cup {None}]

\* An update packet has the fields it was told to write.
LEMMA UpdateFields ==
    ASSUME NEW i \in Id, NEW r \in Parameter, NEW f \in SUBSET Fields
    PROVE  /\ UPDATE(i, r, f) \in Updates /\ UPDATE(i, r, f) \in FromServers /\ UPDATE(i, r, f) \in FromClients
           /\ UPDATE(i, r, f).cmd = "UPDATE" /\ UPDATE(i, r, f).id = i /\ UPDATE(i, r, f).group = r.group
           /\ UPDATE(i, r, f).label <=> "label" \in f /\ r.label
           /\ "val" \in f => UPDATE(i, r, f).val = r.val
           /\ "val" \notin f => UPDATE(i, r, f).val = None
           /\ "par" \in f => UPDATE(i, r, f).par = r.par
           /\ "par" \notin f => UPDATE(i, r, f).par = 0
<1> DEFINE u == UPDATE(i, r, f)
<1>1. u = [cmd |-> "UPDATE", id |-> i, group |-> r.group, label |-> "label" \in f /\ r.label,
           val |-> IF "val" \in f THEN r.val ELSE None, par |-> IF "par" \in f THEN r.par ELSE 0]
  BY DEF UPDATE, Packet
<1>2. r.group \in BOOLEAN /\ ("label" \in f /\ r.label) \in BOOLEAN
      /\ (IF "val" \in f THEN r.val ELSE None) \in Vals \cup {None}
      /\ (IF "par" \in f THEN r.par ELSE 0) \in Id \cup {0}
  BY DEF Parameter
<1>3. u \in Updates
  BY <1>1, <1>2 DEF Updates
<1>4. /\ u.cmd = "UPDATE" /\ u.id = i /\ u.group = r.group
      /\ u.label = ("label" \in f /\ r.label)
      /\ u.val = (IF "val" \in f THEN r.val ELSE None)
      /\ u.par = (IF "par" \in f THEN r.par ELSE 0)
  BY <1>1
<1> HIDE DEF u
<1>5. u \in FromServers /\ u \in FromClients
  BY <1>3 DEF FromServers, FromClients
<1> QED
  BY <1>3, <1>4, <1>5 DEF u

\* The types of the fields of an update packet.
LEMMA PacketFields ==
    ASSUME NEW p \in Updates
    PROVE  /\ p.cmd = "UPDATE" /\ p.id \in Id /\ p.group \in BOOLEAN /\ p.label \in BOOLEAN
           /\ p.val \in Vals \cup {None} /\ p.par \in Id \cup {0}
BY DEF Updates

\* A remove packet names its id.
LEMMA RemoveFields ==
    ASSUME NEW i
    PROVE  REMOVE(i).cmd = "REMOVE" /\ REMOVE(i).id = i
BY DEF REMOVE, Packet

\* A server sends updates and removes.
LEMMA FromServersSplit ==
    ASSUME NEW p \in FromServers
    PROVE  /\ p.cmd = "UPDATE" => p \in Updates
           /\ p.cmd = "REMOVE" => p.id \in Id /\ p = REMOVE(p.id)
           /\ p.cmd \in {"UPDATE", "REMOVE"} /\ p.id \in Id
<1>1. CASE p \in Updates
  BY <1>1, PacketFields
<1>2. CASE p \in {REMOVE(i) : i \in Id}
  BY <1>2, RemoveFields
<1> QED
  BY <1>1, <1>2 DEF FromServers

\* A packet from a client that is an update.
LEMMA FromClientsSplit ==
    ASSUME NEW p \in FromClients
    PROVE  p.cmd = "UPDATE" => p \in Updates
<1>1. INITIALIZE.cmd = "INITIALIZE"
  BY DEF INITIALIZE, Packet
<1> QED
  BY <1>1, PacketFields DEF FromClients

\* Sending resets the flags and nothing else.
LEMMA SentFields ==
    ASSUME NEW r \in Parameter
    PROVE  /\ Sent(r) \in Parameter
           /\ Sent(r).group = r.group /\ Sent(r).label = r.label /\ Sent(r).par = r.par
           /\ Sent(r).val = r.val /\ Sent(r).chg = {}
BY DEF Sent, Parameter

\* Whether a packet brings a parameter something new
NewLabel(r, p) == p.label /\ ~r.label
NewVal(r, p) == p.val # None /\ r.group = p.group /\ p.val # r.val
NewPar(m, r, p) == IsGroup(m, p.par) /\ p.par # r.par

\* Parameter::update, field by field: what is news is taken and its flag set.
LEMMA AssignFields ==
    ASSUME NEW m, NEW r \in Parameter, NEW p \in Updates
    PROVE  /\ Assign(m, r, p) \in Parameter
           /\ Assign(m, r, p).group = r.group
           /\ Assign(m, r, p).label <=> r.label \/ p.label
           /\ NewVal(r, p) => Assign(m, r, p).val = p.val
           /\ ~NewVal(r, p) => Assign(m, r, p).val = r.val
           /\ NewPar(m, r, p) => Assign(m, r, p).par = p.par
           /\ ~NewPar(m, r, p) => Assign(m, r, p).par = r.par
           /\ r.chg \subseteq Assign(m, r, p).chg
           /\ "label" \in Assign(m, r, p).chg <=> "label" \in r.chg \/ NewLabel(r, p)
           /\ "val" \in Assign(m, r, p).chg <=> "val" \in r.chg \/ NewVal(r, p)
           /\ "par" \in Assign(m, r, p).chg <=> "par" \in r.chg \/ NewPar(m, r, p)
<1> DEFINE n1 == IF NewLabel(r, p) THEN {"label"} ELSE {}
           n2 == IF NewVal(r, p) THEN {"val"} ELSE {}
           n3 == IF NewPar(m, r, p) THEN {"par"} ELSE {}
           news == n1 \cup n2 \cup n3
           new == Assign(m, r, p)
<1>1. new = [r EXCEPT !.label = @ \/ p.label,
                      !.val = IF "val" \in news THEN p.val ELSE @,
                      !.par = IF "par" \in news THEN p.par ELSE @,
                      !.chg = @ \cup news]
  BY DEF Assign, NewLabel, NewVal, NewPar
<1>2. /\ "label" \in news <=> NewLabel(r, p)
      /\ "val" \in news <=> NewVal(r, p)
      /\ "par" \in news <=> NewPar(m, r, p)
      /\ news \in SUBSET Fields
  BY DEF Fields
<1>3. p.label \in BOOLEAN /\ p.val \in Vals \cup {None} /\ p.par \in Id \cup {0}
  BY PacketFields
<1>4. NewVal(r, p) => p.val \in Vals
  BY <1>3 DEF NewVal
<1> HIDE DEF news
<1>5. r \in [group : BOOLEAN, label : BOOLEAN, par : Id \cup {0}, val : Vals, chg : SUBSET Fields]
  BY DEF Parameter
<1>6. /\ new.group = r.group /\ new.label = (r.label \/ p.label)
      /\ new.val = (IF "val" \in news THEN p.val ELSE r.val)
      /\ new.par = (IF "par" \in news THEN p.par ELSE r.par)
      /\ new.chg = r.chg \cup news
  BY <1>1, <1>5
<1>7. new \in Parameter
  <2>1. (IF "val" \in news THEN p.val ELSE r.val) \in Vals
    BY <1>2, <1>4, <1>5
  <2>2. (IF "par" \in news THEN p.par ELSE r.par) \in Id \cup {0}
    BY <1>3, <1>5
  <2>3. new = [group |-> new.group, label |-> new.label, par |-> new.par, val |-> new.val,
               chg |-> new.chg]
    BY <1>1, <1>5
  <2>4. new.group \in BOOLEAN /\ new.label \in BOOLEAN /\ new.chg \in SUBSET Fields
        /\ new.par \in Id \cup {0} /\ new.val \in Vals
    BY <1>2, <1>3, <1>5, <1>6, <2>1, <2>2
  <2> HIDE DEF new
  <2> QED
    BY <2>3, <2>4 DEF Parameter
<1> HIDE DEF new
<1>8. /\ new.label <=> r.label \/ p.label
      /\ NewVal(r, p) => new.val = p.val
      /\ ~NewVal(r, p) => new.val = r.val
      /\ NewPar(m, r, p) => new.par = p.par
      /\ ~NewPar(m, r, p) => new.par = r.par
  BY <1>2, <1>6
<1>9. /\ r.chg \subseteq new.chg
      /\ "label" \in new.chg <=> "label" \in r.chg \/ NewLabel(r, p)
      /\ "val" \in new.chg <=> "val" \in r.chg \/ NewVal(r, p)
      /\ "par" \in new.chg <=> "par" \in r.chg \/ NewPar(m, r, p)
  BY <1>2, <1>6
<1> QED
  BY <1>6, <1>7, <1>8, <1>9 DEF new

\* update() of the server sends packets.
LEMMA FlushType ==
    ASSUME NEW m \in Params, NEW d \in SUBSET Id, \A i \in d : m[i] # None, removed \subseteq Id
    PROVE  FlushPackets(m, d) \in Seq(FromServers)
<1> DEFINE P == FromServers
           s == [i \in Id |-> IF i \in removed THEN <<REMOVE(i)>> ELSE <<>>]
           t == [i \in Id |-> IF i \in d THEN <<UPDATE(i, m[i], m[i].chg)>> ELSE <<>>]
<1>1. \A i \in Id : <<REMOVE(i)>> \in Seq(P)
  BY DEF FromServers
<1>2. ASSUME NEW i \in Id, i \in d PROVE <<UPDATE(i, m[i], m[i].chg)>> \in Seq(P)
  <2>1. m[i] \in Parameter /\ m[i].chg \in SUBSET Fields
    BY <1>2 DEF Params, Parameter
  <2>2. UPDATE(i, m[i], m[i].chg) \in P
    BY <2>1, UpdateFields
  <2> HIDE DEF P
  <2> QED
    BY <2>2
<1>3. <<>> \in Seq(P)
  OBVIOUS
<1> HIDE DEF P
<1>4. s \in [Id -> Seq(P)]
  BY <1>1, <1>3
<1>5. t \in [Id -> Seq(P)]
  BY <1>2, <1>3
<1> HIDE DEF s, t
<1>6. InOrder(s) \in Seq(P) /\ InOrder(t) \in Seq(P)
  BY <1>4, <1>5, InOrderType
<1>7. InOrder(s) \o InOrder(t) \in Seq(P)
  BY <1>6, ConcatProperties
<1> QED
  BY <1>7 DEF s, t, P, FlushPackets

\* What _init writes of a parameter is a packet.
LEMMA ShownType ==
    ASSUME params \in Params, NEW i \in Present
    PROVE  Shown(i) \in Updates /\ Shown(i) \in FromServers
<1>1. i \in Id /\ params[i] \in Parameter
  BY DEF Present, Params
<1>2. (IF Short(i) THEN {} ELSE Fields) \in SUBSET Fields
  OBVIOUS
<1> QED
  BY <1>1, <1>2, UpdateFields DEF Shown

\* _init sends packets.
LEMMA InitType ==
    ASSUME params \in Params
    PROVE  InitPackets \in Seq(FromServers)
<1>1. {Shown(i) : i \in Present} \subseteq FromServers
  BY ShownType
<1> QED
  BY <1>1, InitPacketsShow, SeqMonotonic

\* update() of a client sends packets.
LEMMA MessagesType ==
    ASSUME NEW f, NEW d \in SUBSET Id, \A i \in d : f[i] \in Parameter
    PROVE  InOrder([i \in Id |-> IF i \in d THEN <<UPDATE(i, f[i], f[i].chg)>> ELSE <<>>]) \in Seq(FromClients)
<1> DEFINE P == FromClients
           t == [i \in Id |-> IF i \in d THEN <<UPDATE(i, f[i], f[i].chg)>> ELSE <<>>]
<1>2. ASSUME NEW i \in Id, i \in d PROVE <<UPDATE(i, f[i], f[i].chg)>> \in Seq(P)
  <2>1. f[i] \in Parameter /\ f[i].chg \in SUBSET Fields
    BY <1>2 DEF Parameter
  <2>2. UPDATE(i, f[i], f[i].chg) \in P
    BY <2>1, UpdateFields
  <2> HIDE DEF P
  <2> QED
    BY <2>2
<1>3. <<>> \in Seq(P)
  OBVIOUS
<1> HIDE DEF P
<1>5. t \in [Id -> Seq(P)]
  BY <1>2, <1>3
<1> HIDE DEF t
<1>6. InOrder(t) \in Seq(P)
  BY <1>5, InOrderType
<1> QED
  BY <1>6 DEF t, P

-----------------------------------------------------------------------------
(* The types *)

\* What TypeOK says of one client
ClientTyped(c) ==
    /\ cache[c] \in Params /\ gone[c] \in Params
    /\ toServer[c] \in Seq(FromClients) /\ toClient[c] \in Seq(FromServers)
    /\ own[c] \subseteq Id /\ astray[c] \subseteq Id /\ lost[c] \subseteq Id
    /\ early[c] \in Nat /\ early[c] <= Len(toClient[c])
    /\ c \notin on =>
        /\ toServer[c] = <<>> /\ toClient[c] = <<>>
        /\ own[c] \cup astray[c] \cup lost[c] = {}
        /\ \A i \in Id : cache[c][i] = None /\ gone[c][i] = None

ClientsMapped ==
    /\ cache = [c \in Clients |-> cache[c]] /\ gone = [c \in Clients |-> gone[c]]
    /\ toServer = [c \in Clients |-> toServer[c]] /\ toClient = [c \in Clients |-> toClient[c]]
    /\ own = [c \in Clients |-> own[c]] /\ astray = [c \in Clients |-> astray[c]]
    /\ lost = [c \in Clients |-> lost[c]] /\ early = [c \in Clients |-> early[c]]

ServerTyped ==
    /\ params \in Params
    /\ dirty \subseteq {i \in Id : params[i] # None}
    /\ removed \subseteq Id
    /\ on \subseteq Clients
    /\ ops \in 0..MaxOps
    /\ spoilt \subseteq Id

\* TypeOK in parts: the server, the maps, each client ...
LEMMA TypeParts == TypeOK <=> ServerTyped /\ ClientsMapped /\ \A c \in Clients : ClientTyped(c)
<1>1. ASSUME TypeOK PROVE ServerTyped /\ ClientsMapped
  <2>1. ServerTyped
    BY <1>1 DEF TypeOK, ServerTyped, Params
  <2>2. ClientsMapped
    BY <1>1 DEF TypeOK, ClientsMapped
  <2> QED
    BY <2>1, <2>2
<1>2. ASSUME TypeOK, NEW c \in Clients PROVE ClientTyped(c)
  <2>1. /\ cache[c] \in Params /\ gone[c] \in Params
        /\ own[c] \subseteq Id /\ astray[c] \subseteq Id /\ lost[c] \subseteq Id
        /\ early[c] \in Nat /\ early[c] <= Len(toClient[c])
    BY <1>2 DEF TypeOK, Params
  <2>2. toServer[c] \in Seq(FromClients) /\ toClient[c] \in Seq(FromServers)
    BY <1>2 DEF TypeOK
  <2>3. c \notin on => /\ toServer[c] = <<>> /\ toClient[c] = <<>>
                       /\ own[c] \cup astray[c] \cup lost[c] = {}
                       /\ \A i \in Id : cache[c][i] = None /\ gone[c][i] = None
    BY <1>2 DEF TypeOK
  <2> QED
    BY <2>1, <2>2, <2>3 DEF ClientTyped
<1>3. ASSUME ServerTyped, ClientsMapped, \A c \in Clients : ClientTyped(c) PROVE TypeOK
  <2>1. cache \in [Clients -> Params] /\ gone \in [Clients -> Params]
    BY <1>3 DEF ClientsMapped, ClientTyped
  <2>2. toServer \in [Clients -> Seq(FromClients)] /\ toClient \in [Clients -> Seq(FromServers)]
    BY <1>3 DEF ClientsMapped, ClientTyped
  <2>3. own \in [Clients -> SUBSET Id] /\ astray \in [Clients -> SUBSET Id] /\ lost \in [Clients -> SUBSET Id]
    BY <1>3 DEF ClientsMapped, ClientTyped
  <2>4. early \in [Clients -> Nat] /\ \A c \in Clients : early[c] <= Len(toClient[c])
    BY <1>3 DEF ClientsMapped, ClientTyped
  <2>5. \A c \in Clients \ on :
            /\ toServer[c] = <<>> /\ toClient[c] = <<>>
            /\ own[c] \cup astray[c] \cup lost[c] = {}
            /\ \A i \in Id : cache[c][i] = None /\ gone[c][i] = None
    BY <1>3 DEF ClientTyped
  <2> QED
    BY <1>3, <2>1, <2>2, <2>3, <2>4, <2>5 DEF TypeOK, ServerTyped, Params
<1> QED
  BY <1>1, <1>2, <1>3

\* ... in the next state, too.
LEMMA TypePartsNext == (TypeOK <=> ServerTyped /\ ClientsMapped /\ \A c \in Clients : ClientTyped(c))'
BY TypeParts, PTL

\* A client that an action leaves alone
LEMMA SameClient ==
    ASSUME NEW c \in Clients, ClientTyped(c), on' = on \/ (c \in on <=> c \in on'),
           cache'[c] = cache[c], gone'[c] = gone[c], toServer'[c] = toServer[c], toClient'[c] = toClient[c],
           own'[c] = own[c], astray'[c] = astray[c], lost'[c] = lost[c], early'[c] = early[c]
    PROVE  ClientTyped(c)'
BY DEF ClientTyped

\* A client that only gets packets
LEMMA ServedClient ==
    ASSUME NEW c \in Clients, ClientTyped(c), on' = on, NEW r \in Seq(FromServers),
           toClient'[c] = IF c \in on THEN toClient[c] \o r ELSE <<>>,
           cache'[c] = cache[c], gone'[c] = gone[c],
           toServer'[c] = toServer[c] \/ (c \in on /\ toServer'[c] \in Seq(FromClients)),
           own'[c] = own[c], astray'[c] = astray[c], lost'[c] = lost[c],
           early'[c] = early[c] \/ (c \in on /\ early'[c] = Len(toClient[c]))
    PROVE  ClientTyped(c)'
<1>1. CASE c \in on
  <2>1. toClient[c] \in Seq(FromServers) /\ toClient'[c] = toClient[c] \o r
    BY <1>1 DEF ClientTyped
  <2>2. toClient'[c] \in Seq(FromServers) /\ Len(toClient'[c]) = Len(toClient[c]) + Len(r)
        /\ Len(r) \in Nat /\ Len(toClient[c]) \in Nat
    BY <2>1, ConcatProperties, LenProperties
  <2>3. early'[c] \in Nat /\ early'[c] <= Len(toClient'[c])
    BY <2>2 DEF ClientTyped
  <2>4. toServer'[c] \in Seq(FromClients)
    BY DEF ClientTyped
  <2> QED
    BY <1>1, <2>2, <2>3, <2>4 DEF ClientTyped
<1>2. CASE c \notin on
  <2>1. toClient'[c] = toClient[c]
    BY <1>2 DEF ClientTyped
  <2> QED
    BY <1>2, <2>1 DEF ClientTyped
<1> QED
  BY <1>1, <1>2

\* The types hold at the start.
LEMMA InitTyped == Init => TypeOK
<1> SUFFICES ASSUME Init PROVE TypeOK
  OBVIOUS
<1>1. ServerTyped
  BY Bounds DEF Init, ServerTyped, Params
<1>2. ClientsMapped
  BY DEF Init, ClientsMapped
<1>3. ASSUME NEW c \in Clients PROVE ClientTyped(c)
  <2>1. /\ cache[c] = [i \in Id |-> None] /\ gone[c] = [i \in Id |-> None]
        /\ toServer[c] = <<>> /\ toClient[c] = <<>>
        /\ own[c] = {} /\ astray[c] = {} /\ lost[c] = {} /\ early[c] = 0
    BY DEF Init
  <2>2. <<>> \in Seq(FromClients) /\ <<>> \in Seq(FromServers) /\ Len(<<>>) = 0
    OBVIOUS
  <2> QED
    BY <2>1, <2>2 DEF ClientTyped, Params
<1> QED
  BY <1>1, <1>2, <1>3, TypeParts

\* The bound on the operations is kept.
LEMMA OpsStep == ASSUME ServerTyped, Operation PROVE ops' \in 0..MaxOps
BY Bounds DEF ServerTyped, Operation

\* The application of the server touches no client.
LEMMA ServerOnly ==
    ASSUME TypeOK, ServerTyped', UNCHANGED <<on, client, net>>
    PROVE  TypeOK'
<1>1. ClientsMapped' /\ \A c \in Clients : ClientTyped(c)'
  <2>1. ClientsMapped /\ \A c \in Clients : ClientTyped(c)
    BY TypeParts
  <2> QED
    BY <2>1 DEF ClientsMapped, ClientTyped, client, net
<1> QED
  BY <1>1, TypePartsNext

\* Creating a parameter keeps the types.
LEMMA CreateTyped ==
    ASSUME TypeOK, NEW p \in Id \cup {0}, NEW isGroup \in BOOLEAN, NEW v \in Vals, Create(p, isGroup, v)
    PROVE  TypeOK'
<1>1. ServerTyped
  BY TypeParts
<1>2. PICK i \in Id :
        /\ params' = [params EXCEPT ![i] =
                [group |-> isGroup, label |-> TRUE, par |-> p, val |-> v,
                 chg |-> {"label", "par"} \cup IF v = Default THEN {} ELSE {"val"}]]
        /\ dirty' = dirty \cup {i}
  BY DEF Create
<1>3. [group |-> isGroup, label |-> TRUE, par |-> p, val |-> v,
       chg |-> {"label", "par"} \cup IF v = Default THEN {} ELSE {"val"}] \in Parameter
  BY DEF Parameter, Fields
<1>4. params' \in Params /\ dirty' \subseteq {j \in Id : params'[j] # None}
  BY <1>1, <1>2, <1>3, Values DEF ServerTyped, Params
<1>5. UNCHANGED <<removed, on, client, net, spoilt>>
  BY DEF Create
<1>6. ServerTyped'
  BY <1>1, <1>4, <1>5, OpsStep DEF ServerTyped, Create
<1> QED
  BY <1>5, <1>6, ServerOnly

\* Setting a value keeps them.
LEMMA SetValueTyped ==
    ASSUME TypeOK, NEW i \in Id, NEW v \in Vals, SetValue(i, v)
    PROVE  TypeOK'
<1>1. ServerTyped
  BY TypeParts
<1>2. params' = [params EXCEPT ![i].val = v, ![i].chg = @ \cup {"val"}] /\ dirty' = dirty \cup {i} /\ params[i] # None
  BY DEF SetValue
<1>3. params[i] \in Parameter
  BY <1>1, <1>2 DEF ServerTyped, Params
<1>4. [params[i] EXCEPT !.val = v, !.chg = @ \cup {"val"}] \in Parameter
  BY <1>3 DEF Parameter, Fields
<1>5. params' = [params EXCEPT ![i] = [params[i] EXCEPT !.val = v, !.chg = @ \cup {"val"}]]
  BY <1>1, <1>2 DEF ServerTyped, Params
<1>6. params' \in Params /\ dirty' \subseteq {j \in Id : params'[j] # None}
  BY <1>1, <1>2, <1>4, <1>5, Values DEF ServerTyped, Params
<1>7. UNCHANGED <<removed, on, client, net, spoilt>>
  BY DEF SetValue
<1>8. ServerTyped'
  BY <1>1, <1>6, <1>7, OpsStep DEF ServerTyped, SetValue
<1> QED
  BY <1>7, <1>8, ServerOnly

\* addChild keeps them.
LEMMA MoveTyped ==
    ASSUME TypeOK, NEW i \in Id, NEW g \in Id, Move(i, g)
    PROVE  TypeOK'
<1>1. ServerTyped
  BY TypeParts
<1>2. params' = [params EXCEPT ![i].par = g, ![i].chg = @ \cup {"par"}] /\ dirty' = dirty \cup {i} /\ params[i] # None
  BY DEF Move
<1>3. params[i] \in Parameter
  BY <1>1, <1>2 DEF ServerTyped, Params
<1>4. [params[i] EXCEPT !.par = g, !.chg = @ \cup {"par"}] \in Parameter
  BY <1>3 DEF Parameter, Fields
<1>5. params' = [params EXCEPT ![i] = [params[i] EXCEPT !.par = g, !.chg = @ \cup {"par"}]]
  BY <1>1, <1>2 DEF ServerTyped, Params
<1>6. params' \in Params /\ dirty' \subseteq {j \in Id : params'[j] # None}
  BY <1>1, <1>2, <1>4, <1>5, Values DEF ServerTyped, Params
<1>7. UNCHANGED <<removed, on, client, net, spoilt>>
  BY DEF Move
<1>8. ServerTyped'
  BY <1>1, <1>6, <1>7, OpsStep DEF ServerTyped, Move
<1> QED
  BY <1>7, <1>8, ServerOnly

\* removeParameter keeps them.
LEMMA RemoveParameterTyped ==
    ASSUME TypeOK, NEW i \in Id, RemoveParameter(i)
    PROVE  TypeOK'
<1>1. ServerTyped
  BY TypeParts
<1>2. params' = [params EXCEPT ![i] = None] /\ dirty' = dirty \ {i} /\ removed' = removed \cup {i}
  BY DEF RemoveParameter
<1>3. params' \in Params /\ dirty' \subseteq {j \in Id : params'[j] # None} /\ removed' \subseteq Id
  BY <1>1, <1>2 DEF ServerTyped, Params
<1>4. UNCHANGED <<on, client, net, spoilt>>
  BY DEF RemoveParameter
<1>5. ServerTyped'
  BY <1>1, <1>3, <1>4, OpsStep DEF ServerTyped, RemoveParameter
<1> QED
  BY <1>4, <1>5, ServerOnly

\* What the packets of a step do to the clients
LEMMA DeliverTyped ==
    ASSUME TypeOK, NEW out, \A c \in Clients : out[c] \in Seq(FromServers), Deliver(out),
           ServerTyped', on' = on, cache' = cache, gone' = gone, own' = own, astray' = astray, lost' = lost,
           \A c \in Clients : toServer'[c] = toServer[c] \/ (c \in on /\ toServer'[c] \in Seq(FromClients)),
           toServer' = [c \in Clients |-> toServer'[c]],
           \A c \in Clients : early'[c] = early[c] \/ (c \in on /\ early'[c] = Len(toClient[c])),
           early' = [c \in Clients |-> early'[c]]
    PROVE  TypeOK'
<1>1. ClientsMapped /\ \A c \in Clients : ClientTyped(c)
  BY TypeParts
<1>2. toClient' = [c \in Clients |-> IF c \in on THEN toClient[c] \o out[c] ELSE <<>>]
  BY DEF Deliver
<1>3. ClientsMapped'
  BY <1>1, <1>2 DEF ClientsMapped
<1>4. ASSUME NEW c \in Clients PROVE ClientTyped(c)'
  <2>1. toClient'[c] = IF c \in on THEN toClient[c] \o out[c] ELSE <<>>
    BY <1>2
  <2> QED
    BY <2>1, <1>1, ServedClient
<1> QED
  BY <1>3, <1>4, TypePartsNext

\* Resetting the flags of a set of parameters leaves parameters.
LEMMA AllSent ==
    ASSUME NEW m \in Params, NEW d \in SUBSET Id, \A i \in d : m[i] # None
    PROVE  [i \in Id |-> IF i \in d THEN Sent(m[i]) ELSE m[i]] \in Params
<1>1. \A i \in d : Sent(m[i]) \in Parameter
  BY SentFields DEF Params
<1> QED
  BY <1>1 DEF Params

\* update() keeps them.
LEMMA UpdateTyped == ASSUME TypeOK, Update PROVE TypeOK'
<1>1. ServerTyped /\ ClientsMapped
  BY TypeParts
<1>2. params \in Params /\ dirty \in SUBSET Id /\ removed \subseteq Id /\ \A i \in dirty : params[i] # None
  BY <1>1 DEF ServerTyped
<1>3. FlushPackets(params, dirty) \in Seq(FromServers)
  BY <1>2, FlushType
<1>4. params' \in Params
  BY <1>2, AllSent DEF Update
<1>5. ServerTyped'
  BY <1>1, <1>4 DEF ServerTyped, Update
<1> DEFINE out == [c \in Clients |-> FlushPackets(params, dirty)]
<1>6. Deliver(out) /\ UNCHANGED <<on, client, toServer>>
  BY DEF Update
<1>7. \A c \in Clients : out[c] \in Seq(FromServers)
  BY <1>3
<1> HIDE DEF out
<1> QED
  BY <1>1, <1>5, <1>6, <1>7, DeliverTyped DEF client, ClientsMapped

\* The packet the server takes, and what is left.
LEMMA HeadToServer ==
    ASSUME TypeOK, NEW c \in Clients, FromClient(c)
    PROVE  /\ Head(toServer[c]) \in FromClients /\ Tail(toServer[c]) \in Seq(FromClients)
           /\ Taken(c) => /\ toServer' = [d \in Clients |-> toServer'[d]]
                          /\ \A d \in Clients : toServer'[d] = IF d = c THEN Tail(toServer[c]) ELSE toServer[d]
<1>1. toServer[c] \in Seq(FromClients) /\ toServer[c] # <<>>
  BY TypeParts DEF ClientTyped, FromClient
<1>2. Head(toServer[c]) \in FromClients /\ Tail(toServer[c]) \in Seq(FromClients)
  BY <1>1, Halves
<1>3. ClientsMapped
  BY TypeParts
<1>4. ASSUME Taken(c)
      PROVE  /\ toServer' = [d \in Clients |-> toServer'[d]]
             /\ \A d \in Clients : toServer'[d] = IF d = c THEN Tail(toServer[c]) ELSE toServer[d]
  BY <1>3, <1>4 DEF Taken, ClientsMapped
<1> QED
  BY <1>2, <1>4

\* _init keeps them.
LEMMA ServeInitializeTyped == ASSUME TypeOK, NEW c \in Clients, ServeInitialize(c) PROVE TypeOK'
<1>1. ServerTyped /\ ClientsMapped
  BY TypeParts
<1>2. params \in Params
  BY <1>1 DEF ServerTyped
<1>3. InitPackets \in Seq(FromServers)
  BY <1>2, InitType
<1> DEFINE out == [d \in Clients |-> IF d = c THEN InitPackets ELSE <<>>]
           short == {i \in Id : params[i] # None /\ Short(i)}
<1>4. \A d \in Clients : out[d] \in Seq(FromServers)
  <2>1. <<>> \in Seq(FromServers)
    OBVIOUS
  <2> QED
    BY <1>3, <2>1
<1>5. /\ FromClient(c) /\ Taken(c) /\ Deliver(out)
      /\ params' = [i \in Id |-> IF i \in short THEN Sent(params[i]) ELSE params[i]]
      /\ spoilt' = spoilt \cup short \cup {i \in Id : params[i] # None /\ i \notin Below(params, 0)}
      /\ early' = [early EXCEPT ![c] = Len(toClient[c])]
      /\ UNCHANGED <<dirty, removed, on, cache, gone, own, astray, lost, ops>>
  BY DEF ServeInitialize
<1>6. short \in SUBSET Id /\ \A i \in short : params[i] # None
  OBVIOUS
<1> HIDE DEF out, short
<1>7. params' \in Params
  BY <1>2, <1>5, <1>6, AllSent
<1>8. \A i \in Id : params[i] # None => params'[i] # None
  <2>1. \A i \in short : Sent(params[i]) \in Parameter
    BY <1>2, <1>6, SentFields DEF Params
  <2> QED
    BY <1>5, <2>1, Values
<1>9. ServerTyped'
  BY <1>1, <1>5, <1>6, <1>7, <1>8 DEF ServerTyped
<1>10. c \in on /\ early' = [d \in Clients |-> early'[d]]
       /\ \A d \in Clients : early'[d] = IF d = c THEN Len(toClient[c]) ELSE early[d]
  BY <1>1, <1>5 DEF FromClient, ClientsMapped
<1>11. /\ toServer' = [d \in Clients |-> toServer'[d]]
       /\ \A d \in Clients : toServer'[d] = toServer[d] \/ (d \in on /\ toServer'[d] \in Seq(FromClients))
  BY <1>5, <1>10, HeadToServer
<1>12. \A d \in Clients : early'[d] = early[d] \/ (d \in on /\ early'[d] = Len(toClient[d]))
  BY <1>10
<1> QED
  BY <1>4, <1>5, <1>9, <1>10, <1>11, <1>12, DeliverTyped

\* The parameters after packet p, whether its parameter is known or not
Updated(p) ==
    [params EXCEPT ![p.id] = IF params[p.id] = None THEN None ELSE Assign(params, params[p.id], p)]

\* The registry after an update packet: the one parameter is assigned to, if it is there.
LEMMA UpdatedType ==
    ASSUME params \in Params, NEW p \in Updates
    PROVE  /\ Updated(p) \in Params
           /\ \A i \in Id : Updated(p)[i] = None <=> params[i] = None
           /\ \A i \in Id : i # p.id => Updated(p)[i] = params[i]
           /\ Updated(p)[p.id] = IF params[p.id] = None THEN None ELSE Assign(params, params[p.id], p)
<1>1. p.id \in Id
  BY PacketFields
<1>2. params[p.id] # None => params[p.id] \in Parameter
  BY <1>1 DEF Params
<1>3. params[p.id] # None => Assign(params, params[p.id], p) \in Parameter
  BY <1>2, AssignFields
<1>4. \A i \in Id : Updated(p)[i] =
        IF i = p.id THEN IF params[p.id] = None THEN None ELSE Assign(params, params[p.id], p) ELSE params[i]
  BY DEF Updated, Params
<1>5. Updated(p) \in Params
  BY <1>1, <1>3, <1>4 DEF Params, Updated
<1> QED
  BY <1>1, <1>3, <1>4, <1>5, Values

ServeUpdateDirty(p) == IF Updated(p)[p.id] = params[p.id] THEN dirty ELSE dirty \cup {p.id}

Raw(c) == [e \in Clients |-> IF e = c THEN <<>> ELSE <<Head(toServer[c])>>]

\* The three courses of _update
ServeQuietly(c, p) ==
    /\ params' = Updated(p) /\ dirty' = ServeUpdateDirty(p) /\ removed' = removed
    /\ Deliver(Raw(c))

ServeFlushing(c, p) ==
    /\ params' = [i \in Id |-> IF i \in ServeUpdateDirty(p) THEN Sent(Updated(p)[i]) ELSE Updated(p)[i]]
    /\ dirty' = {} /\ removed' = {}
    /\ Deliver([e \in Clients |-> FlushPackets(Updated(p), ServeUpdateDirty(p)) \o Raw(c)[e]])

ServeSetting(c, p, v) ==
    /\ params' = [Updated(p) EXCEPT ![p.id].val = v]
    /\ dirty' = ServeUpdateDirty(p) /\ removed' = removed
    /\ Deliver(Raw(c))

Callback(p) == params[p.id] # None /\ p.val # None /\ "val" \in Updated(p)[p.id].chg

\* ServeUpdate in parts: what the callback of the value does decides.
LEMMA ServeUpdateParts ==
    ASSUME TypeOK, NEW c \in Clients, ServeUpdate(c), NEW p, p = Head(toServer[c])
    PROVE  /\ FromClient(c) /\ p.cmd = "UPDATE" /\ p \in Updates /\ Taken(c)
           /\ \/ ServeQuietly(c, p)
              \/ Callback(p) /\ ServeFlushing(c, p)
              \/ Callback(p) /\ \E v \in Vals \ {Updated(p)[p.id].val} : ServeSetting(c, p, v)
           /\ spoilt' = IF Spoils(p) THEN spoilt \cup {p.id} ELSE spoilt
           /\ UNCHANGED <<on, client, ops>>
<1>1. FromClient(c) /\ p.cmd = "UPDATE" /\ Taken(c)
  BY DEF ServeUpdate
<1>2. p \in Updates
  BY <1>1, HeadToServer, FromClientsSplit
<1>3. params \in Params /\ p.id \in Id
  BY <1>2, PacketFields, TypeParts DEF ServerTyped
<1> DEFINE old == params[p.id]
           new == IF old = None THEN None ELSE Assign(params, old, p)
           m == [params EXCEPT ![p.id] = new]
           d == IF new = old THEN dirty ELSE dirty \cup {p.id}
           callback == old # None /\ p.val # None /\ "val" \in new.chg
           raw(e) == IF e = c THEN <<>> ELSE <<p>>
<1>4. /\ \/ /\ params' = m /\ dirty' = d
            /\ Deliver([e \in Clients |-> raw(e)])
            /\ UNCHANGED removed
         \/ /\ callback
            /\ params' = [i \in Id |-> IF i \in d THEN Sent(m[i]) ELSE m[i]]
            /\ dirty' = {} /\ removed' = {}
            /\ Deliver([e \in Clients |-> FlushPackets(m, d) \o raw(e)])
         \/ /\ callback
            /\ \E v \in Vals \ {new.val} : params' = [m EXCEPT ![p.id].val = v]
            /\ dirty' = d
            /\ Deliver([e \in Clients |-> raw(e)])
            /\ UNCHANGED removed
      /\ spoilt' = IF Spoils(p) THEN spoilt \cup {p.id} ELSE spoilt
      /\ UNCHANGED <<on, client, ops>>
  BY DEF ServeUpdate
<1>5. m = Updated(p) /\ new = Updated(p)[p.id]
  BY <1>3 DEF Updated, Params
<1>6. d = ServeUpdateDirty(p) /\ (callback <=> Callback(p))
  BY <1>5 DEF ServeUpdateDirty, Callback
<1>7. [e \in Clients |-> raw(e)] = Raw(c) /\ \A e \in Clients : raw(e) = Raw(c)[e]
  BY DEF Raw
<1> HIDE DEF m, d, new, callback, raw, old
<1>8. [e \in Clients |-> FlushPackets(m, d) \o raw(e)] = [e \in Clients |-> FlushPackets(m, d) \o Raw(c)[e]]
  BY <1>7
<1>9. \/ ServeQuietly(c, p)
      \/ Callback(p) /\ ServeFlushing(c, p)
      \/ Callback(p) /\ \E v \in Vals \ {Updated(p)[p.id].val} : ServeSetting(c, p, v)
  BY <1>4, <1>5, <1>6, <1>7, <1>8 DEF ServeQuietly, ServeFlushing, ServeSetting
<1> QED
  BY <1>1, <1>2, <1>4, <1>9

\* _update and the forwarding keep the types.
LEMMA ServeUpdateTyped == ASSUME TypeOK, NEW c \in Clients, ServeUpdate(c) PROVE TypeOK'
<1> DEFINE p == Head(toServer[c])
<1>1. ServerTyped /\ ClientsMapped
  BY TypeParts
<1>2. /\ FromClient(c) /\ p \in Updates /\ Taken(c)
      /\ \/ ServeQuietly(c, p)
         \/ Callback(p) /\ ServeFlushing(c, p)
         \/ Callback(p) /\ \E v \in Vals \ {Updated(p)[p.id].val} : ServeSetting(c, p, v)
      /\ spoilt' = IF Spoils(p) THEN spoilt \cup {p.id} ELSE spoilt
      /\ UNCHANGED <<on, client, ops>>
  BY ServeUpdateParts
<1>3. Raw(c) = [e \in Clients |-> IF e = c THEN <<>> ELSE <<p>>]
  BY DEF Raw
<1> HIDE DEF p
<1>4. /\ params \in Params /\ p.id \in Id /\ Updated(p) \in Params
      /\ \A i \in Id : Updated(p)[i] = None <=> params[i] = None
  BY <1>1, <1>2, UpdatedType, PacketFields DEF ServerTyped
<1>5. ServeUpdateDirty(p) \in SUBSET Id /\ \A i \in ServeUpdateDirty(p) : Updated(p)[i] # None
  <2>1. params[p.id] = None => ServeUpdateDirty(p) = dirty
    BY <1>4 DEF ServeUpdateDirty
  <2> QED
    BY <1>1, <1>4, <2>1 DEF ServeUpdateDirty, ServerTyped
<1>6. \A e \in Clients : Raw(c)[e] \in Seq(FromServers)
  <2>1. p \in FromServers /\ <<>> \in Seq(FromServers)
    BY <1>2 DEF FromServers
  <2>2. <<p>> \in Seq(FromServers)
    BY <2>1
  <2> QED
    BY <2>1, <2>2, <1>3
<1>7. spoilt' \subseteq Id /\ ops' \in 0..MaxOps /\ on' \subseteq Clients
  BY <1>1, <1>2, <1>4 DEF ServerTyped
<1>8. c \in on /\ ClientsMapped
  BY <1>1, <1>2 DEF FromClient
<1>9. /\ toServer' = [d \in Clients |-> toServer'[d]]
      /\ \A d \in Clients : toServer'[d] = toServer[d] \/ (d \in on /\ toServer'[d] \in Seq(FromClients))
  BY <1>2, <1>8, HeadToServer
<1>10. /\ on' = on /\ cache' = cache /\ gone' = gone /\ own' = own /\ astray' = astray /\ lost' = lost
       /\ early' = early /\ early' = [d \in Clients |-> early'[d]]
  BY <1>2, <1>8 DEF client, ClientsMapped
<1>11. CASE ServeQuietly(c, p)
  <2>1. ServerTyped'
    BY <1>1, <1>4, <1>5, <1>7, <1>11 DEF ServerTyped, ServeQuietly
  <2> QED
    BY <2>1, <1>6, <1>9, <1>10, <1>11, DeliverTyped DEF ServeQuietly
<1>12. CASE ServeFlushing(c, p)
  <2>1. params' \in Params
    BY <1>4, <1>5, <1>12, AllSent DEF ServeFlushing
  <2>2. ServerTyped'
    BY <2>1, <1>7, <1>12 DEF ServerTyped, ServeFlushing
  <2>3. FlushPackets(Updated(p), ServeUpdateDirty(p)) \in Seq(FromServers)
    BY <1>1, <1>4, <1>5, FlushType DEF ServerTyped
  <2> DEFINE out == [e \in Clients |-> FlushPackets(Updated(p), ServeUpdateDirty(p)) \o Raw(c)[e]]
  <2>4. \A e \in Clients : out[e] \in Seq(FromServers)
    BY <2>3, <1>6, ConcatProperties
  <2>5. Deliver(out)
    BY <1>12 DEF ServeFlushing
  <2> HIDE DEF out
  <2> QED
    BY <2>2, <2>4, <2>5, <1>9, <1>10, DeliverTyped
<1>13. ASSUME NEW v \in Vals, Callback(p), ServeSetting(c, p, v) PROVE TypeOK'
  <2>1. Updated(p)[p.id] \in Parameter
    BY <1>4, <1>13 DEF Callback, Params
  <2>2. [Updated(p)[p.id] EXCEPT !.val = v] \in Parameter
    BY <2>1 DEF Parameter
  <2>3. params' = [Updated(p) EXCEPT ![p.id] = [Updated(p)[p.id] EXCEPT !.val = v]]
    BY <1>4, <1>13 DEF ServeSetting, Params
  <2>4. params' \in Params /\ \A i \in Id : Updated(p)[i] # None => params'[i] # None
    BY <1>4, <2>2, <2>3, Values DEF Params
  <2>5. ServerTyped'
    BY <1>1, <1>5, <1>7, <1>13, <2>4 DEF ServerTyped, ServeSetting
  <2> QED
    BY <2>5, <1>6, <1>9, <1>10, <1>13, DeliverTyped DEF ServeSetting
<1> QED
  BY <1>2, <1>11, <1>12, <1>13

\* A step of one client
LEMMA OneClient ==
    ASSUME TypeOK, NEW d \in Clients, ServerTyped', ClientsMapped', ClientTyped(d)',
           \A c \in Clients \ {d} :
             /\ c \in on <=> c \in on'
             /\ cache'[c] = cache[c] /\ gone'[c] = gone[c] /\ toServer'[c] = toServer[c] /\ toClient'[c] = toClient[c]
             /\ own'[c] = own[c] /\ astray'[c] = astray[c] /\ lost'[c] = lost[c] /\ early'[c] = early[c]
    PROVE  TypeOK'
<1>1. \A c \in Clients : ClientTyped(c)
  BY TypeParts
<1>2. \A c \in Clients : ClientTyped(c)'
  <2> TAKE c \in Clients
  <2>1. CASE c = d
    BY <2>1
  <2>2. CASE c # d
    BY <2>2, <1>1, SameClient
  <2> QED
    BY <2>1, <2>2
<1> QED
  BY <1>2, TypePartsNext

\* Connecting keeps them.
LEMMA ConnectTyped == ASSUME TypeOK, NEW c \in Clients, Connect(c) PROVE TypeOK'
<1>1. ServerTyped /\ ClientsMapped /\ ClientTyped(c)
  BY TypeParts
<1>2. /\ on' = on \cup {c} /\ toServer' = [toServer EXCEPT ![c] = <<INITIALIZE>>]
      /\ UNCHANGED <<server, client, toClient, spoilt>>
  BY DEF Connect
<1>3. ServerTyped'
  BY <1>1, <1>2, OpsStep DEF ServerTyped, server, Connect
<1>4. ClientsMapped'
  BY <1>1, <1>2 DEF ClientsMapped, client
<1>5. toServer'[c] \in Seq(FromClients)
  <2>1. INITIALIZE \in FromClients
    BY DEF FromClients
  <2>2. <<INITIALIZE>> \in Seq(FromClients)
    BY <2>1
  <2> QED
    BY <2>2, <1>1, <1>2 DEF ClientsMapped
<1>6. ClientTyped(c)'
  BY <1>1, <1>2, <1>5 DEF ClientTyped, client
<1> QED
  BY <1>1, <1>2, <1>3, <1>4, <1>6, OneClient DEF client, ClientsMapped

\* Disconnecting keeps them.
LEMMA DisconnectTyped == ASSUME TypeOK, NEW c \in Clients, Disconnect(c) PROVE TypeOK'
<1>1. ServerTyped /\ ClientsMapped
  BY TypeParts
<1>2. /\ on' = on \ {c} /\ toServer' = [toServer EXCEPT ![c] = <<>>]
      /\ toClient' = [toClient EXCEPT ![c] = <<>>] /\ Forget(c)
      /\ UNCHANGED <<server, spoilt>>
  BY DEF Disconnect
<1>3. ServerTyped'
  BY <1>1, <1>2, OpsStep DEF ServerTyped, server, Disconnect
<1>4. ClientsMapped'
  BY <1>1, <1>2 DEF ClientsMapped, Forget
<1>5. ClientTyped(c)'
  <2>1. /\ toServer'[c] = <<>> /\ toClient'[c] = <<>>
        /\ cache'[c] = [i \in Id |-> None] /\ gone'[c] = [i \in Id |-> None]
        /\ own'[c] = {} /\ astray'[c] = {} /\ lost'[c] = {} /\ early'[c] = 0
    BY <1>1, <1>2 DEF Forget, ClientsMapped
  <2>2. <<>> \in Seq(FromClients) /\ <<>> \in Seq(FromServers) /\ Len(<<>>) = 0
    OBVIOUS
  <2> QED
    BY <2>1, <2>2 DEF ClientTyped, Params
<1>6. \A d \in Clients \ {c} :
        /\ d \in on <=> d \in on'
        /\ cache'[d] = cache[d] /\ gone'[d] = gone[d] /\ toServer'[d] = toServer[d] /\ toClient'[d] = toClient[d]
        /\ own'[d] = own[d] /\ astray'[d] = astray[d] /\ lost'[d] = lost[d] /\ early'[d] = early[d]
  BY <1>1, <1>2 DEF Forget, ClientsMapped
<1> QED
  BY <1>3, <1>4, <1>5, <1>6, OneClient

\* What a packet leaves behind
LEMMA TakePacketParts ==
    ASSUME TypeOK, NEW c \in Clients, c \in on, toClient[c] # <<>>, TakePacket(c)
    PROVE  /\ Head(toClient[c]) \in FromServers
           /\ toClient[c] = <<Head(toClient[c])>> \o Tail(toClient[c])
           /\ toClient[c] \in Seq(FromServers) /\ Tail(toClient[c]) \in Seq(FromServers)
           /\ toClient' = [d \in Clients |-> toClient'[d]] /\ early' = [d \in Clients |-> early'[d]]
           /\ toClient'[c] = Tail(toClient[c])
           /\ early'[c] = IF early[c] = 0 THEN 0 ELSE early[c] - 1
           /\ early'[c] \in Nat /\ early'[c] <= Len(toClient'[c])
           /\ \A d \in Clients \ {c} : toClient'[d] = toClient[d] /\ early'[d] = early[d]
<1>1. ClientsMapped /\ ClientTyped(c)
  BY TypeParts
<1>2. toClient[c] \in Seq(FromServers) /\ early[c] \in Nat /\ early[c] <= Len(toClient[c])
  BY <1>1 DEF ClientTyped
<1>3. /\ Head(toClient[c]) \in FromServers /\ toClient[c] = <<Head(toClient[c])>> \o Tail(toClient[c])
      /\ Tail(toClient[c]) \in Seq(FromServers) /\ Len(toClient[c]) = Len(Tail(toClient[c])) + 1
  BY <1>2, Halves
<1>4. /\ toClient' = [d \in Clients |-> toClient'[d]] /\ early' = [d \in Clients |-> early'[d]]
      /\ toClient'[c] = Tail(toClient[c])
      /\ early'[c] = IF early[c] = 0 THEN 0 ELSE early[c] - 1
      /\ \A d \in Clients \ {c} : toClient'[d] = toClient[d] /\ early'[d] = early[d]
  BY <1>1 DEF TakePacket, ClientsMapped
<1>5. Len(Tail(toClient[c])) \in Nat
  BY <1>3, LenProperties
<1>6. early'[c] \in Nat /\ early'[c] <= Len(toClient'[c])
  BY <1>2, <1>3, <1>4, <1>5
<1> QED
  BY <1>2, <1>3, <1>4, <1>6

Bare(p) == [group |-> p.group, label |-> FALSE, par |-> 0, val |-> Default, chg |-> {}]

\* The cached parameter after packet p
Cached(c, p) ==
    IF cache[c][p.id] = None THEN Sent(Assign(cache[c], Bare(p), p))
    ELSE Assign(cache[c], cache[c][p.id], p)

\* A new cached parameter is a parameter ...
LEMMA BareType == ASSUME NEW p \in Updates PROVE Bare(p) \in Parameter
<1>1. p.group \in BOOLEAN
  BY PacketFields
<1>2. [group |-> p.group, label |-> FALSE, par |-> 0, val |-> Default, chg |-> {}]
        \in [group : BOOLEAN, label : BOOLEAN, par : Id \cup {0}, val : Vals, chg : SUBSET Fields]
  BY <1>1, Values
<1> QED
  BY <1>2 DEF Bare, Parameter

\* ... and so is what a client makes of an update packet.
LEMMA CachedType ==
    ASSUME NEW c, cache[c] \in Params, NEW p \in Updates
    PROVE  Cached(c, p) \in Parameter
<1>1. CASE cache[c][p.id] = None
  BY <1>1, BareType, AssignFields, SentFields DEF Cached
<1>2. CASE cache[c][p.id] # None
  <2>1. cache[c][p.id] \in Parameter
    BY <1>2, PacketFields DEF Params
  <2> QED
    BY <1>2, <2>1, AssignFields DEF Cached
<1> QED
  BY <1>1, <1>2

\* TakeUpdate in parts.
LEMMA TakeUpdateParts ==
    ASSUME TypeOK, NEW c \in Clients, TakeUpdate(c), NEW p, p = Head(toClient[c])
    PROVE  /\ c \in on /\ toClient[c] # <<>> /\ TakePacket(c) /\ p.cmd = "UPDATE" /\ p \in Updates
           /\ cache' = [cache EXCEPT ![c][p.id] = Cached(c, p)]
           /\ gone' = IF cache[c][p.id] # None /\ Cached(c, p) # cache[c][p.id]
                      THEN [gone EXCEPT ![c][p.id] = None] ELSE gone
           /\ own' = [own EXCEPT ![c] = IF p.val = None THEN @ ELSE @ \ {p.id}]
           /\ astray' = [astray EXCEPT ![c] = IF p.par = 0 THEN @
                   ELSE IF IsGroup(cache[c], p.par) THEN @ \ {p.id} ELSE @ \cup {p.id}]
           /\ UNCHANGED <<server, on, toServer, ops, lost, spoilt>>
<1>1. c \in on /\ toClient[c] # <<>> /\ TakePacket(c) /\ p.cmd = "UPDATE"
  BY DEF TakeUpdate, FromServer
<1>2. p \in Updates
  BY <1>1, TakePacketParts, FromServersSplit
<1> QED
  BY <1>1, <1>2 DEF TakeUpdate, Cached, Bare

\* What a REMOVE takes out of the cache
Out(c, h) == {j \in Below(cache[c], h) : cache[c][j] # None}

\* A removed parameter that stays on the dirty list
Orphan(c, h, j) ==
    IF j \notin Out(c, h) THEN gone[c][j]
    ELSE IF cache[c][j].par # 0 THEN [cache[c][j] EXCEPT !.par = 0, !.chg = @ \cup {"par"}]
    ELSE IF cache[c][j].chg # {} THEN cache[c][j] ELSE gone[c][j]

\* TakeRemove in parts.
LEMMA TakeRemoveParts ==
    ASSUME TypeOK, NEW c \in Clients, TakeRemove(c), NEW p, p = Head(toClient[c])
    PROVE  /\ c \in on /\ toClient[c] # <<>> /\ TakePacket(c) /\ p.cmd = "REMOVE" /\ p.id \in Id /\ p = REMOVE(p.id)
           /\ Out(c, p.id) \subseteq Id
           /\ cache' = [cache EXCEPT ![c] = [j \in Id |-> IF j \in Out(c, p.id) THEN None ELSE cache[c][j]]]
           /\ gone' = [gone EXCEPT ![c] = [j \in Id |-> Orphan(c, p.id, j)]]
           /\ own' = [own EXCEPT ![c] = own[c] \ Out(c, p.id)]
           /\ astray' = [astray EXCEPT ![c] = astray[c] \ Out(c, p.id)]
           /\ lost' = [lost EXCEPT ![c] =
                   (IF Uninitialized(c) \/ early[c] # 0 THEN lost[c] ELSE lost[c] \cup Out(c, p.id)) \ {p.id}]
           /\ UNCHANGED <<server, on, toServer, ops, spoilt>>
<1>1. c \in on /\ toClient[c] # <<>> /\ TakePacket(c) /\ p.cmd = "REMOVE"
  BY DEF TakeRemove, FromServer
<1>2. p.id \in Id /\ p = REMOVE(p.id)
  BY <1>1, TakePacketParts, FromServersSplit
<1>3. Out(c, p.id) \subseteq Id
  BY DEF Out, Below
<1>4. ClientsMapped
  BY TypeParts
<1> DEFINE m == cache[c]
           out == {j \in Below(m, Head(toClient[c]).id) : m[j] # None}
<1>5. /\ cache' = [cache EXCEPT ![c] = [j \in Id |-> IF j \in out THEN None ELSE m[j]]]
      /\ gone' = [gone EXCEPT ![c] = [j \in Id |->
              IF j \notin out THEN @[j]
              ELSE IF m[j].par # 0 THEN [m[j] EXCEPT !.par = 0, !.chg = @ \cup {"par"}]
              ELSE IF m[j].chg # {} THEN m[j] ELSE @[j]]]
      /\ own' = [own EXCEPT ![c] = @ \ out]
      /\ astray' = [astray EXCEPT ![c] = @ \ out]
      /\ lost' = [lost EXCEPT ![c] =
             (IF Uninitialized(c) \/ early[c] # 0 THEN @ ELSE @ \cup out) \ {Head(toClient[c]).id}]
      /\ UNCHANGED <<server, on, toServer, ops, spoilt>>
  BY DEF TakeRemove
<1>6. out = Out(c, p.id)
  BY DEF Out
<1> HIDE DEF m, out
<1>7. gone' = [gone EXCEPT ![c] = [j \in Id |-> Orphan(c, p.id, j)]]
  <2>1. \A j : Orphan(c, p.id, j) =
          IF j \notin out THEN gone[c][j]
          ELSE IF m[j].par # 0 THEN [m[j] EXCEPT !.par = 0, !.chg = @ \cup {"par"}]
          ELSE IF m[j].chg # {} THEN m[j] ELSE gone[c][j]
    BY <1>6 DEF Orphan, m
  <2> QED
    BY <1>4, <1>5, <2>1 DEF ClientsMapped
<1>8. /\ own' = [own EXCEPT ![c] = own[c] \ Out(c, p.id)]
      /\ astray' = [astray EXCEPT ![c] = astray[c] \ Out(c, p.id)]
      /\ lost' = [lost EXCEPT ![c] =
              (IF Uninitialized(c) \/ early[c] # 0 THEN lost[c] ELSE lost[c] \cup Out(c, p.id)) \ {p.id}]
  BY <1>4, <1>5, <1>6 DEF ClientsMapped
<1>9. cache' = [cache EXCEPT ![c] = [j \in Id |-> IF j \in Out(c, p.id) THEN None ELSE cache[c][j]]]
  BY <1>5, <1>6 DEF m
<1> QED
  BY <1>1, <1>2, <1>3, <1>5, <1>7, <1>8, <1>9

\* _update at a client keeps the types.
LEMMA TakeUpdateTyped == ASSUME TypeOK, NEW c \in Clients, TakeUpdate(c) PROVE TypeOK'
<1> DEFINE p == Head(toClient[c])
<1>1. ServerTyped /\ ClientsMapped /\ ClientTyped(c)
  BY TypeParts
<1>2. /\ c \in on /\ toClient[c] # <<>> /\ TakePacket(c) /\ p \in Updates
      /\ cache' = [cache EXCEPT ![c][p.id] = Cached(c, p)]
      /\ gone' = IF cache[c][p.id] # None /\ Cached(c, p) # cache[c][p.id]
                 THEN [gone EXCEPT ![c][p.id] = None] ELSE gone
      /\ own' = [own EXCEPT ![c] = IF p.val = None THEN @ ELSE @ \ {p.id}]
      /\ astray' = [astray EXCEPT ![c] = IF p.par = 0 THEN @
              ELSE IF IsGroup(cache[c], p.par) THEN @ \ {p.id} ELSE @ \cup {p.id}]
      /\ UNCHANGED <<server, on, toServer, ops, lost, spoilt>>
  BY TakeUpdateParts
<1> HIDE DEF p
<1>3. p.id \in Id /\ Cached(c, p) \in Parameter
  BY <1>1, <1>2, PacketFields, CachedType DEF ClientTyped
<1>4. ServerTyped'
  BY <1>1, <1>2 DEF ServerTyped, server
<1>5. /\ toClient' = [d \in Clients |-> toClient'[d]] /\ early' = [d \in Clients |-> early'[d]]
      /\ toClient'[c] \in Seq(FromServers) /\ early'[c] \in Nat /\ early'[c] <= Len(toClient'[c])
      /\ \A d \in Clients \ {c} : toClient'[d] = toClient[d] /\ early'[d] = early[d]
  BY <1>2, TakePacketParts
<1>6. ClientsMapped'
  <2>1. cache' = [d \in Clients |-> cache'[d]]
    BY <1>1, <1>2 DEF ClientsMapped
  <2>2. gone' = [d \in Clients |-> gone'[d]]
    BY <1>1, <1>2 DEF ClientsMapped
  <2>3. own' = [d \in Clients |-> own'[d]] /\ astray' = [d \in Clients |-> astray'[d]]
    BY <1>1, <1>2 DEF ClientsMapped
  <2> QED
    BY <1>1, <1>2, <1>5, <2>1, <2>2, <2>3 DEF ClientsMapped
<1>7. ClientTyped(c)'
  <2>1. cache'[c] = [cache[c] EXCEPT ![p.id] = Cached(c, p)]
    BY <1>1, <1>2 DEF ClientsMapped
  <2>2. gone'[c] = [gone[c] EXCEPT ![p.id] = None] \/ gone'[c] = gone[c]
    BY <1>1, <1>2 DEF ClientsMapped
  <2>3. cache'[c] \in Params /\ gone'[c] \in Params
    BY <1>1, <1>3, <2>1, <2>2 DEF ClientTyped, Params
  <2>4. own'[c] \subseteq Id /\ astray'[c] \subseteq Id
    BY <1>1, <1>2, <1>3 DEF ClientTyped, ClientsMapped
  <2>5. c \in on' /\ lost'[c] \subseteq Id /\ toServer'[c] \in Seq(FromClients)
    BY <1>1, <1>2 DEF ClientTyped
  <2> QED
    BY <1>5, <2>3, <2>4, <2>5 DEF ClientTyped
<1>8. \A d \in Clients \ {c} :
        /\ d \in on <=> d \in on'
        /\ cache'[d] = cache[d] /\ gone'[d] = gone[d] /\ toServer'[d] = toServer[d] /\ toClient'[d] = toClient[d]
        /\ own'[d] = own[d] /\ astray'[d] = astray[d] /\ lost'[d] = lost[d] /\ early'[d] = early[d]
  BY <1>1, <1>2, <1>5 DEF ClientsMapped
<1> QED
  BY <1>4, <1>6, <1>7, <1>8, OneClient

\* _remove at a client keeps them.
LEMMA TakeRemoveTyped == ASSUME TypeOK, NEW c \in Clients, TakeRemove(c) PROVE TypeOK'
<1> DEFINE h == Head(toClient[c]).id
<1>1. ServerTyped /\ ClientsMapped /\ ClientTyped(c)
  BY TypeParts
<1>2. /\ c \in on /\ toClient[c] # <<>> /\ TakePacket(c) /\ h \in Id
      /\ Out(c, h) \subseteq Id
      /\ cache' = [cache EXCEPT ![c] = [j \in Id |-> IF j \in Out(c, h) THEN None ELSE cache[c][j]]]
      /\ gone' = [gone EXCEPT ![c] = [j \in Id |-> Orphan(c, h, j)]]
      /\ own' = [own EXCEPT ![c] = own[c] \ Out(c, h)]
      /\ astray' = [astray EXCEPT ![c] = astray[c] \ Out(c, h)]
      /\ lost' = [lost EXCEPT ![c] =
              (IF Uninitialized(c) \/ early[c] # 0 THEN lost[c] ELSE lost[c] \cup Out(c, h)) \ {h}]
      /\ UNCHANGED <<server, on, toServer, ops, spoilt>>
  BY TakeRemoveParts
<1> HIDE DEF h
<1>4. ServerTyped'
  BY <1>1, <1>2 DEF ServerTyped, server
<1>5. /\ toClient' = [d \in Clients |-> toClient'[d]] /\ early' = [d \in Clients |-> early'[d]]
      /\ toClient'[c] \in Seq(FromServers) /\ early'[c] \in Nat /\ early'[c] <= Len(toClient'[c])
      /\ \A d \in Clients \ {c} : toClient'[d] = toClient[d] /\ early'[d] = early[d]
  BY <1>2, TakePacketParts
<1>6. ClientsMapped'
  BY <1>1, <1>2, <1>5 DEF ClientsMapped
<1>7. ClientTyped(c)'
  <2>1. /\ cache'[c] = [j \in Id |-> IF j \in Out(c, h) THEN None ELSE cache[c][j]]
        /\ gone'[c] = [j \in Id |-> Orphan(c, h, j)]
    BY <1>1, <1>2 DEF ClientsMapped
  <2>2. ASSUME NEW j \in Id PROVE Orphan(c, h, j) \in Parameter \cup {None}
    <3>1. gone[c][j] \in Parameter \cup {None}
      BY <1>1 DEF ClientTyped, Params
    <3>2. j \in Out(c, h) => cache[c][j] \in Parameter
      BY <1>1 DEF ClientTyped, Params, Out
    <3>3. cache[c][j] \in Parameter => [cache[c][j] EXCEPT !.par = 0, !.chg = @ \cup {"par"}] \in Parameter
      BY DEF Parameter, Fields
    <3> QED
      BY <3>1, <3>2, <3>3 DEF Orphan
  <2>3. cache'[c] \in Params /\ gone'[c] \in Params
    BY <1>1, <2>1, <2>2 DEF ClientTyped, Params
  <2>4. own'[c] \subseteq Id /\ astray'[c] \subseteq Id
    BY <1>1, <1>2 DEF ClientTyped, ClientsMapped
  <2>5. c \in on' /\ toServer'[c] \in Seq(FromClients)
    BY <1>1, <1>2 DEF ClientTyped
  <2>6. lost'[c] \subseteq Id
    BY <1>1, <1>2 DEF ClientTyped, ClientsMapped
  <2> QED
    BY <1>5, <2>3, <2>4, <2>5, <2>6 DEF ClientTyped
<1>8. \A d \in Clients \ {c} :
        /\ d \in on <=> d \in on'
        /\ cache'[d] = cache[d] /\ gone'[d] = gone[d] /\ toServer'[d] = toServer[d] /\ toClient'[d] = toClient[d]
        /\ own'[d] = own[d] /\ astray'[d] = astray[d] /\ lost'[d] = lost[d] /\ early'[d] = early[d]
  BY <1>1, <1>2, <1>5 DEF ClientsMapped
<1> QED
  BY <1>4, <1>6, <1>7, <1>8, OneClient

\* setValue at a client keeps them.
LEMMA ClientSetTyped ==
    ASSUME TypeOK, NEW c \in Clients, NEW i \in Id, NEW v \in Vals, ClientSet(c, i, v)
    PROVE  TypeOK'
<1>1. ServerTyped /\ ClientsMapped /\ ClientTyped(c)
  BY TypeParts
<1>2. /\ c \in on /\ cache[c][i] # None
      /\ cache' = [cache EXCEPT ![c][i].val = v, ![c][i].chg = @ \cup {"val"}]
      /\ gone' = [gone EXCEPT ![c][i] = None]
      /\ own' = [own EXCEPT ![c] = @ \cup {i}]
      /\ UNCHANGED <<server, on, astray, early, lost, net, spoilt>>
  BY DEF ClientSet
<1>3. ServerTyped'
  BY <1>1, <1>2, OpsStep DEF ServerTyped, server, ClientSet
<1>4. ClientsMapped'
  BY <1>1, <1>2 DEF ClientsMapped, net
<1>5. ClientTyped(c)'
  <2>1. cache[c][i] \in Parameter
    BY <1>1, <1>2 DEF ClientTyped, Params
  <2>2. [cache[c][i] EXCEPT !.val = v, !.chg = @ \cup {"val"}] \in Parameter
    BY <2>1 DEF Parameter, Fields
  <2>3. cache'[c] = [cache[c] EXCEPT ![i] = [cache[c][i] EXCEPT !.val = v, !.chg = @ \cup {"val"}]]
    <3>1. cache[c] \in [Id -> Parameter \cup {None}]
      BY <1>1 DEF ClientTyped, Params
    <3> QED
      BY <1>1, <1>2, <3>1 DEF ClientsMapped
  <2>4. gone'[c] = [gone[c] EXCEPT ![i] = None] /\ own'[c] = own[c] \cup {i}
    BY <1>1, <1>2 DEF ClientsMapped
  <2>5. cache'[c] \in Params /\ gone'[c] \in Params
    BY <1>1, <2>2, <2>3, <2>4 DEF ClientTyped, Params
  <2> QED
    BY <1>1, <1>2, <2>4, <2>5 DEF ClientTyped, net
<1>6. \A d \in Clients \ {c} :
        /\ d \in on <=> d \in on'
        /\ cache'[d] = cache[d] /\ gone'[d] = gone[d] /\ toServer'[d] = toServer[d] /\ toClient'[d] = toClient[d]
        /\ own'[d] = own[d] /\ astray'[d] = astray[d] /\ lost'[d] = lost[d] /\ early'[d] = early[d]
  BY <1>1, <1>2 DEF ClientsMapped, net
<1> QED
  BY <1>3, <1>4, <1>5, <1>6, OneClient

\* What ClientUpdate sends
Listed(c, i) == IF gone[c][i] # None THEN gone[c][i] ELSE cache[c][i]
Due(c) == {i \in Id : Listed(c, i) # None /\ Listed(c, i).chg # {}}
Messages(c) ==
    InOrder([i \in Id |-> IF i \in Due(c) THEN <<UPDATE(i, Listed(c, i), Listed(c, i).chg)>> ELSE <<>>])

\* ClientUpdate in parts.
LEMMA ClientUpdateParts ==
    ASSUME TypeOK, NEW c \in Clients, ClientUpdate(c)
    PROVE  /\ c \in on /\ toServer' = [toServer EXCEPT ![c] = toServer[c] \o Messages(c)]
           /\ Messages(c) \in Seq(FromClients)
           /\ \A i \in Due(c) : i \in Id /\ Listed(c, i) \in Parameter
           /\ cache' = [cache EXCEPT ![c] = [i \in Id |-> IF cache[c][i] = None THEN None ELSE Sent(cache[c][i])]]
           /\ gone' = [gone EXCEPT ![c] = [i \in Id |-> None]]
           /\ own' = [own EXCEPT ![c] = {}]
           /\ UNCHANGED <<server, on, astray, early, lost, toClient, spoilt>>
<1>1. ClientsMapped /\ ClientTyped(c)
  BY TypeParts
<1>2. \A i \in Due(c) : i \in Id /\ Listed(c, i) \in Parameter
  <2>1. \A i \in Id : gone[c][i] \in Parameter \cup {None} /\ cache[c][i] \in Parameter \cup {None}
    BY <1>1 DEF ClientTyped, Params
  <2> QED
    BY <2>1 DEF Due, Listed
<1>3. Messages(c) \in Seq(FromClients)
  <2> DEFINE f == [i \in Id |-> Listed(c, i)]
  <2>1. Due(c) \in SUBSET Id /\ \A i \in Due(c) : f[i] \in Parameter
    BY <1>2
  <2>2. [i \in Id |-> IF i \in Due(c) THEN <<UPDATE(i, Listed(c, i), Listed(c, i).chg)>> ELSE <<>>]
          = [i \in Id |-> IF i \in Due(c) THEN <<UPDATE(i, f[i], f[i].chg)>> ELSE <<>>]
    OBVIOUS
  <2> HIDE DEF f
  <2>3. InOrder([i \in Id |-> IF i \in Due(c) THEN <<UPDATE(i, f[i], f[i].chg)>> ELSE <<>>]) \in Seq(FromClients)
    BY <2>1, MessagesType
  <2> QED
    BY <2>2, <2>3 DEF Messages
<1> DEFINE listed(i) == IF gone[c][i] # None THEN gone[c][i] ELSE cache[c][i]
           due == {i \in Id : listed(i) # None /\ listed(i).chg # {}}
<1>4. toServer' = [toServer EXCEPT ![c] =
          @ \o InOrder([i \in Id |-> IF i \in due THEN <<UPDATE(i, listed(i), listed(i).chg)>> ELSE <<>>])]
  BY DEF ClientUpdate
<1>5. due = Due(c) /\ \A i : listed(i) = Listed(c, i)
  BY DEF Due, Listed
<1> HIDE DEF listed, due
<1>6. InOrder([i \in Id |-> IF i \in due THEN <<UPDATE(i, listed(i), listed(i).chg)>> ELSE <<>>]) = Messages(c)
  BY <1>5 DEF Messages
<1>7. toServer' = [toServer EXCEPT ![c] = toServer[c] \o Messages(c)]
  BY <1>1, <1>4, <1>6 DEF ClientsMapped
<1>8. cache' = [cache EXCEPT ![c] = [i \in Id |-> IF cache[c][i] = None THEN None ELSE Sent(cache[c][i])]]
  BY <1>1 DEF ClientUpdate, ClientsMapped
<1> QED
  BY <1>2, <1>3, <1>7, <1>8 DEF ClientUpdate

\* update() of a client keeps them.
LEMMA ClientUpdateTyped == ASSUME TypeOK, NEW c \in Clients, ClientUpdate(c) PROVE TypeOK'
<1>1. ServerTyped /\ ClientsMapped /\ ClientTyped(c)
  BY TypeParts
<1>2. /\ c \in on /\ toServer' = [toServer EXCEPT ![c] = toServer[c] \o Messages(c)]
      /\ Messages(c) \in Seq(FromClients)
      /\ cache' = [cache EXCEPT ![c] = [i \in Id |-> IF cache[c][i] = None THEN None ELSE Sent(cache[c][i])]]
      /\ gone' = [gone EXCEPT ![c] = [i \in Id |-> None]]
      /\ own' = [own EXCEPT ![c] = {}]
      /\ UNCHANGED <<server, on, astray, early, lost, toClient, spoilt>>
  BY ClientUpdateParts
<1>3. ServerTyped'
  BY <1>1, <1>2, OpsStep DEF ServerTyped, server, ClientUpdate
<1>4. ClientsMapped'
  BY <1>1, <1>2 DEF ClientsMapped
<1>5. ClientTyped(c)'
  <2>1. cache'[c] = [i \in Id |-> IF cache[c][i] = None THEN None ELSE Sent(cache[c][i])]
        /\ gone'[c] = [i \in Id |-> None] /\ own'[c] = {} /\ toServer'[c] = toServer[c] \o Messages(c)
    BY <1>1, <1>2 DEF ClientsMapped
  <2>2. \A i \in Id : cache[c][i] # None => Sent(cache[c][i]) \in Parameter
    BY <1>1, SentFields DEF ClientTyped, Params
  <2>3. cache'[c] \in Params /\ gone'[c] \in Params
    BY <2>1, <2>2 DEF Params
  <2>4. toServer'[c] \in Seq(FromClients)
    BY <1>1, <1>2, <2>1, ConcatProperties DEF ClientTyped
  <2> QED
    BY <1>1, <1>2, <2>1, <2>3, <2>4 DEF ClientTyped
<1>6. \A d \in Clients \ {c} :
        /\ d \in on <=> d \in on'
        /\ cache'[d] = cache[d] /\ gone'[d] = gone[d] /\ toServer'[d] = toServer[d] /\ toClient'[d] = toClient[d]
        /\ own'[d] = own[d] /\ astray'[d] = astray[d] /\ lost'[d] = lost[d] /\ early'[d] = early[d]
  BY <1>1, <1>2 DEF ClientsMapped
<1> QED
  BY <1>3, <1>4, <1>5, <1>6, OneClient

\* Every step keeps the types.
LEMMA TypeStep == ASSUME TypeOK, [Next]_vars PROVE TypeOK'
<1>1. CASE UNCHANGED vars
  BY <1>1 DEF vars, server, client, net, TypeOK
<1>2. CASE Next
  BY <1>2, CreateTyped, SetValueTyped, MoveTyped, RemoveParameterTyped, UpdateTyped, ServeInitializeTyped,
     ServeUpdateTyped, ConnectTyped, DisconnectTyped, TakeUpdateTyped, TakeRemoveTyped, ClientSetTyped,
     ClientUpdateTyped DEF Next
<1> QED
  BY <1>1, <1>2

\* The registry, the caches and the packets have the shape the code declares
\* whatever the server, its application and the clients do in which order; a
\* client that is not connected has nothing cached and nothing under way.
THEOREM ProtocolTypeCorrect == Spec => []TypeOK
<1>1. Init => TypeOK
  BY InitTyped
<1>2. TypeOK /\ [Next]_vars => TypeOK'
  BY TypeStep
<1> QED
  BY <1>1, <1>2, PTL DEF Spec

-----------------------------------------------------------------------------
(* What a queue says of an id *)

About(i) == {p \in FromServers : p.id = i}
Removal(i) == {p \in FromServers : p.id = i /\ p.cmd = "REMOVE"}
Updating(i) == {p \in FromServers : p.id = i /\ p.cmd = "UPDATE"}
WithLabel(i) == {p \in Updating(i) : p.label}
WithVal(i) == {p \in Updating(i) : p.val # None}
WithPar(i) == {p \in Updating(i) : p.par # 0}
OfVal(i, v) == {p \in WithVal(i) : p.val = v}
OfPar(i, g) == {p \in WithPar(i) : p.par = g}
OfOther(i, b) == {p \in Updating(i) : p.group # b}

\* A packet of S that no REMOVE of i follows; the last of A is such a one, of S.
Live(q, S, i) == Ends(q, S, Removal(i))
Says(q, S, A, i) == Ends(q, S, A \cup Removal(i))

Cleared(q, i) == Holds(q, Removal(i))
Told(q, i) == Live(q, Updating(i), i)
SaysLabel(q, i) == Live(q, WithLabel(i), i)
TellsVal(q, i) == Live(q, WithVal(i), i)
SaysVal(q, i, v) == Says(q, OfVal(i, v), WithVal(i), i)
TellsPar(q, i) == Live(q, WithPar(i), i)
SaysPar(q, i, g) == Says(q, OfPar(i, g), WithPar(i), i)
SaysOther(q, i, b) == Live(q, OfOther(i, b), i)

\* Queue s is q with r added.
Adds(s, q, r) == q \in Seq(FromServers) /\ r \in Seq(FromServers) /\ s = q \o r

\* All r has of i is packet u; it has nothing of i.
Alone(r, i, u) == \A S, B \in SUBSET About(i) : Ends(r, S, B) <=> u \in S
Void(r, i) == \A S \in SUBSET About(i) : ~Holds(r, S)

\* The sets of packets about an id.
LEMMA AboutSets ==
    ASSUME NEW i, NEW v, NEW g, NEW b
    PROVE  /\ Removal(i) \in SUBSET About(i) /\ Updating(i) \in SUBSET About(i) /\ WithLabel(i) \in SUBSET About(i)
           /\ WithVal(i) \in SUBSET About(i) /\ WithPar(i) \in SUBSET About(i) /\ OfVal(i, v) \in SUBSET About(i)
           /\ OfPar(i, g) \in SUBSET About(i) /\ OfOther(i, b) \in SUBSET About(i)
BY DEF About, Removal, Updating, WithLabel, WithVal, WithPar, OfVal, OfPar, OfOther

\* To hold is to end with, when nothing can undo it.
LEMMA HoldsEnds == ASSUME NEW q, NEW S PROVE Holds(q, S) <=> Ends(q, S, {})
BY DEF Holds, Ends

\* A queue with nothing about an id ends with nothing about it.
LEMMA VoidEnds ==
    ASSUME NEW r, NEW i, Void(r, i), NEW S \in SUBSET About(i), NEW B
    PROVE  ~Ends(r, S, B)
BY DEF Void, Ends, Holds

\* One packet about the id is added ...
LEMMA JoinAlone ==
    ASSUME NEW s, NEW q, NEW r, Adds(s, q, r), NEW i, NEW u, Alone(r, i, u),
           NEW S \in SUBSET About(i), NEW B \in SUBSET About(i)
    PROVE  Ends(s, S, B) <=> u \in S \/ (Ends(q, S, B) /\ u \notin B)
<1>1. Ends(s, S, B) <=> Ends(r, S, B) \/ (Ends(q, S, B) /\ ~Holds(r, B))
  BY EndsConcat DEF Adds
<1>2. Ends(r, S, B) <=> u \in S
  BY DEF Alone
<1>3. Ends(r, B, {}) <=> u \in B
  BY DEF Alone
<1> QED
  BY <1>1, <1>2, <1>3, HoldsEnds

\* ... or none.
LEMMA JoinVoid ==
    ASSUME NEW s, NEW q, NEW r, Adds(s, q, r), NEW i, Void(r, i),
           NEW S \in SUBSET About(i), NEW B \in SUBSET About(i)
    PROVE  Ends(s, S, B) <=> Ends(q, S, B)
<1>1. Ends(s, S, B) <=> Ends(r, S, B) \/ (Ends(q, S, B) /\ ~Holds(r, B))
  BY EndsConcat DEF Adds
<1>2. ~Ends(r, S, B) /\ ~Holds(r, B)
  BY VoidEnds DEF Void
<1> QED
  BY <1>1, <1>2

\* Which of the sets a packet is in.
LEMMA Apart ==
    ASSUME NEW u \in FromServers, NEW i, NEW v, NEW g, NEW b, u.id = i
    PROVE  /\ u \in Removal(i) <=> u.cmd = "REMOVE"
           /\ u \in Updating(i) <=> u.cmd = "UPDATE"
           /\ u \in WithLabel(i) <=> u.cmd = "UPDATE" /\ u.label
           /\ u \in WithVal(i) <=> u.cmd = "UPDATE" /\ u.val # None
           /\ u \in OfVal(i, v) <=> u.cmd = "UPDATE" /\ u.val = v /\ v # None
           /\ u \in WithPar(i) <=> u.cmd = "UPDATE" /\ u.par # 0
           /\ u \in OfPar(i, g) <=> u.cmd = "UPDATE" /\ u.par = g /\ g # 0
           /\ u \in OfOther(i, b) <=> u.cmd = "UPDATE" /\ u.group # b
           /\ u.cmd = "UPDATE" <=> u.cmd # "REMOVE"
<1>1. u.cmd \in {"UPDATE", "REMOVE"}
  BY FromServersSplit
<1> QED
  BY <1>1 DEF Removal, Updating, WithLabel, WithVal, WithPar, OfVal, OfPar, OfOther

\* A queue with one more packet of i at its end
LEMMA SaidAlone ==
    ASSUME NEW s, NEW q, NEW r, Adds(s, q, r), NEW i, NEW u \in FromServers,
           u.id = i, Alone(r, i, u)
    PROVE  /\ Cleared(s, i) <=> Cleared(q, i) \/ u.cmd = "REMOVE"
           /\ Told(s, i) <=> u.cmd = "UPDATE"
           /\ SaysLabel(s, i) <=> u.cmd = "UPDATE" /\ (u.label \/ SaysLabel(q, i))
           /\ TellsVal(s, i) <=> u.cmd = "UPDATE" /\ (u.val # None \/ TellsVal(q, i))
           /\ \A v : SaysVal(s, i, v) <=>
                u.cmd = "UPDATE" /\ v # None /\ (u.val = v \/ (u.val = None /\ SaysVal(q, i, v)))
           /\ TellsPar(s, i) <=> u.cmd = "UPDATE" /\ (u.par # 0 \/ TellsPar(q, i))
           /\ \A g : SaysPar(s, i, g) <=>
                u.cmd = "UPDATE" /\ g # 0 /\ (u.par = g \/ (u.par = 0 /\ SaysPar(q, i, g)))
           /\ \A b : SaysOther(s, i, b) <=> u.cmd = "UPDATE" /\ (u.group # b \/ SaysOther(q, i, b))
<1>1. \A S, B \in SUBSET About(i) : Ends(s, S, B) <=> u \in S \/ (Ends(q, S, B) /\ u \notin B)
  BY JoinAlone
<1>2. Cleared(s, i) <=> Cleared(q, i) \/ u.cmd = "REMOVE"
  <2>1. Ends(s, Removal(i), {}) <=> u \in Removal(i) \/ Ends(q, Removal(i), {})
    BY <1>1, AboutSets
  <2> QED
    BY <2>1, HoldsEnds, Apart DEF Cleared
<1>3. Told(s, i) <=> u.cmd = "UPDATE"
  <2>1. Live(s, Updating(i), i) <=> u \in Updating(i) \/ (Live(q, Updating(i), i) /\ u \notin Removal(i))
    BY <1>1, AboutSets DEF Live
  <2> QED
    BY <2>1, Apart DEF Told
<1>4. SaysLabel(s, i) <=> u.cmd = "UPDATE" /\ (u.label \/ SaysLabel(q, i))
  <2>1. Live(s, WithLabel(i), i) <=> u \in WithLabel(i) \/ (Live(q, WithLabel(i), i) /\ u \notin Removal(i))
    BY <1>1, AboutSets DEF Live
  <2> QED
    BY <2>1, Apart DEF SaysLabel
<1>5. TellsVal(s, i) <=> u.cmd = "UPDATE" /\ (u.val # None \/ TellsVal(q, i))
  <2>1. Live(s, WithVal(i), i) <=> u \in WithVal(i) \/ (Live(q, WithVal(i), i) /\ u \notin Removal(i))
    BY <1>1, AboutSets DEF Live
  <2> QED
    BY <2>1, Apart DEF TellsVal
<1>6. TellsPar(s, i) <=> u.cmd = "UPDATE" /\ (u.par # 0 \/ TellsPar(q, i))
  <2>1. Live(s, WithPar(i), i) <=> u \in WithPar(i) \/ (Live(q, WithPar(i), i) /\ u \notin Removal(i))
    BY <1>1, AboutSets DEF Live
  <2> QED
    BY <2>1, Apart DEF TellsPar
<1>7. ASSUME NEW b PROVE SaysOther(s, i, b) <=> u.cmd = "UPDATE" /\ (u.group # b \/ SaysOther(q, i, b))
  <2>1. Live(s, OfOther(i, b), i) <=> u \in OfOther(i, b) \/ (Live(q, OfOther(i, b), i) /\ u \notin Removal(i))
    BY <1>1, AboutSets DEF Live
  <2> QED
    BY <2>1, Apart DEF SaysOther
<1>8. ASSUME NEW v
      PROVE  SaysVal(s, i, v) <=>
                u.cmd = "UPDATE" /\ v # None /\ (u.val = v \/ (u.val = None /\ SaysVal(q, i, v)))
  <2>1. WithVal(i) \cup Removal(i) \in SUBSET About(i) /\ OfVal(i, v) \in SUBSET About(i)
    BY AboutSets
  <2>2. Says(s, OfVal(i, v), WithVal(i), i) <=>
            u \in OfVal(i, v) \/ (Says(q, OfVal(i, v), WithVal(i), i) /\ u \notin WithVal(i) \cup Removal(i))
    BY <1>1, <2>1 DEF Says
  <2>3. v = None => ~Says(q, OfVal(i, v), WithVal(i), i)
    BY DEF Says, Ends, OfVal, WithVal
  <2> QED
    BY <2>2, <2>3, Apart DEF SaysVal
<1>9. ASSUME NEW g
      PROVE  SaysPar(s, i, g) <=>
                u.cmd = "UPDATE" /\ g # 0 /\ (u.par = g \/ (u.par = 0 /\ SaysPar(q, i, g)))
  <2>1. WithPar(i) \cup Removal(i) \in SUBSET About(i) /\ OfPar(i, g) \in SUBSET About(i)
    BY AboutSets
  <2>2. Says(s, OfPar(i, g), WithPar(i), i) <=>
            u \in OfPar(i, g) \/ (Says(q, OfPar(i, g), WithPar(i), i) /\ u \notin WithPar(i) \cup Removal(i))
    BY <1>1, <2>1 DEF Says
  <2>3. g = 0 => ~Says(q, OfPar(i, g), WithPar(i), i)
    BY DEF Says, Ends, OfPar, WithPar
  <2> QED
    BY <2>2, <2>3, Apart DEF SaysPar
<1> QED
  BY <1>2, <1>3, <1>4, <1>5, <1>6, <1>7, <1>8, <1>9

\* And with more that is not of i
LEMMA SaidVoid ==
    ASSUME NEW s, NEW q, NEW r, Adds(s, q, r), NEW i, Void(r, i)
    PROVE  /\ Cleared(s, i) <=> Cleared(q, i)
           /\ Told(s, i) <=> Told(q, i)
           /\ SaysLabel(s, i) <=> SaysLabel(q, i)
           /\ TellsVal(s, i) <=> TellsVal(q, i)
           /\ \A v : SaysVal(s, i, v) <=> SaysVal(q, i, v)
           /\ TellsPar(s, i) <=> TellsPar(q, i)
           /\ \A g : SaysPar(s, i, g) <=> SaysPar(q, i, g)
           /\ \A b : SaysOther(s, i, b) <=> SaysOther(q, i, b)
<1>1. \A S, B \in SUBSET About(i) : Ends(s, S, B) <=> Ends(q, S, B)
  BY JoinVoid
<1>2. Cleared(s, i) <=> Cleared(q, i)
  BY <1>1, AboutSets, HoldsEnds DEF Cleared
<1>3. Told(s, i) <=> Told(q, i)
  BY <1>1, AboutSets DEF Told, Live
<1>4. SaysLabel(s, i) <=> SaysLabel(q, i)
  BY <1>1, AboutSets DEF SaysLabel, Live
<1>5. TellsVal(s, i) <=> TellsVal(q, i)
  BY <1>1, AboutSets DEF TellsVal, Live
<1>6. TellsPar(s, i) <=> TellsPar(q, i)
  BY <1>1, AboutSets DEF TellsPar, Live
<1>7. ASSUME NEW b PROVE SaysOther(s, i, b) <=> SaysOther(q, i, b)
  BY <1>1, AboutSets DEF SaysOther, Live
<1>8. ASSUME NEW v PROVE SaysVal(s, i, v) <=> SaysVal(q, i, v)
  <2>1. WithVal(i) \cup Removal(i) \in SUBSET About(i) /\ OfVal(i, v) \in SUBSET About(i)
    BY AboutSets
  <2> QED
    BY <1>1, <2>1 DEF SaysVal, Says
<1>9. ASSUME NEW g PROVE SaysPar(s, i, g) <=> SaysPar(q, i, g)
  <2>1. WithPar(i) \cup Removal(i) \in SUBSET About(i) /\ OfPar(i, g) \in SUBSET About(i)
    BY AboutSets
  <2> QED
    BY <1>1, <2>1 DEF SaysPar, Says
<1> QED
  BY <1>2, <1>3, <1>4, <1>5, <1>6, <1>7, <1>8, <1>9

\* An empty queue says nothing of any id.
LEMMA SaidNothing ==
    ASSUME NEW i
    PROVE  /\ ~Cleared(<<>>, i) /\ ~Told(<<>>, i) /\ ~SaysLabel(<<>>, i) /\ ~TellsVal(<<>>, i) /\ ~TellsPar(<<>>, i)
           /\ \A v : ~SaysVal(<<>>, i, v)
           /\ \A g : ~SaysPar(<<>>, i, g)
           /\ \A b : ~SaysOther(<<>>, i, b)
BY ViewEmpty DEF Cleared, Told, SaysLabel, TellsVal, TellsPar, SaysVal, SaysPar, SaysOther, Live, Says

\* What a queue says is among what it tells.
LEMMA SaysTells ==
    ASSUME NEW q, NEW i
    PROVE  /\ \A v : SaysVal(q, i, v) => TellsVal(q, i)
           /\ \A g : SaysPar(q, i, g) => TellsPar(q, i)
           /\ SaysLabel(q, i) \/ TellsVal(q, i) \/ TellsPar(q, i) => Told(q, i)
           /\ \A b : SaysOther(q, i, b) => Told(q, i)
<1>1. \A v : SaysVal(q, i, v) => TellsVal(q, i)
  BY DEF SaysVal, TellsVal, Says, Live, Ends, OfVal
<1>2. \A g : SaysPar(q, i, g) => TellsPar(q, i)
  BY DEF SaysPar, TellsPar, Says, Live, Ends, OfPar
<1>3. SaysLabel(q, i) \/ TellsVal(q, i) \/ TellsPar(q, i) => Told(q, i)
  BY DEF SaysLabel, TellsVal, TellsPar, Told, Live, Ends, WithLabel, WithVal, WithPar
<1>4. \A b : SaysOther(q, i, b) => Told(q, i)
  BY DEF SaysOther, Told, Live, Ends, OfOther
<1> QED
  BY <1>1, <1>2, <1>3, <1>4

\* A queue of one packet is about one id.
LEMMA OneAlone ==
    ASSUME NEW p \in FromServers, NEW i
    PROVE  /\ <<p>> \in Seq(FromServers)
           /\ p.id = i => Alone(<<p>>, i, p)
           /\ p.id # i => Void(<<p>>, i)
<1>1. <<p>> \in Seq(FromServers)
  OBVIOUS
<1>2. \A S, B : (Ends(<<p>>, S, B) <=> p \in S) /\ (Holds(<<p>>, S) <=> p \in S)
  BY ViewOne
<1>3. p.id # i => p \notin About(i)
  BY DEF About
<1> QED
  BY <1>1, <1>2, <1>3 DEF Alone, Void

\* An empty queue is about none.
LEMMA NoneVoid == ASSUME NEW i PROVE Void(<<>>, i)
BY ViewEmpty DEF Void

\* To hold one of two sets.
LEMMA NoHolds ==
    ASSUME NEW t, NEW i, NEW S
    PROVE  Holds(t, S \cup Removal(i)) <=> Cleared(t, i) \/ Live(t, S, i)
BY DEF Holds, Cleared, Live, Ends

\* A queue with a packet before it
LEMMA SaidFirst ==
    ASSUME NEW p \in FromServers, NEW t \in Seq(FromServers), NEW i, p.id = i
    PROVE  /\ Cleared(<<p>> \o t, i) <=> p.cmd = "REMOVE" \/ Cleared(t, i)
           /\ Told(<<p>> \o t, i) <=> Told(t, i) \/ (p.cmd = "UPDATE" /\ ~Cleared(t, i))
           /\ SaysLabel(<<p>> \o t, i) <=> SaysLabel(t, i) \/ (p.cmd = "UPDATE" /\ p.label /\ ~Cleared(t, i))
           /\ TellsVal(<<p>> \o t, i) <=> TellsVal(t, i) \/ (p.cmd = "UPDATE" /\ p.val # None /\ ~Cleared(t, i))
           /\ \A v : SaysVal(<<p>> \o t, i, v) <=> SaysVal(t, i, v)
                \/ (p.cmd = "UPDATE" /\ p.val = v /\ v # None /\ ~Cleared(t, i) /\ ~TellsVal(t, i))
           /\ TellsPar(<<p>> \o t, i) <=> TellsPar(t, i) \/ (p.cmd = "UPDATE" /\ p.par # 0 /\ ~Cleared(t, i))
           /\ \A g : SaysPar(<<p>> \o t, i, g) <=> SaysPar(t, i, g)
                \/ (p.cmd = "UPDATE" /\ p.par = g /\ g # 0 /\ ~Cleared(t, i) /\ ~TellsPar(t, i))
           /\ \A b : SaysOther(<<p>> \o t, i, b) <=> SaysOther(t, i, b)
                \/ (p.cmd = "UPDATE" /\ p.group # b /\ ~Cleared(t, i))
<1> DEFINE q == <<p>> \o t
<1>0. <<p>> \in Seq(FromServers)
  OBVIOUS
<1>1. \A S, B : Ends(q, S, B) <=> Ends(t, S, B) \/ (p \in S /\ ~Holds(t, B))
  <2> TAKE S, B
  <2>1. Ends(q, S, B) <=> Ends(t, S, B) \/ (Ends(<<p>>, S, B) /\ ~Holds(t, B))
    BY <1>0, EndsConcat
  <2> QED
    BY <2>1, ViewOne
<1>2. ~Holds(t, {})
  BY DEF Holds
<1> HIDE DEF q
<1>3. Cleared(q, i) <=> p.cmd = "REMOVE" \/ Cleared(t, i)
  <2>1. Ends(q, Removal(i), {}) <=> Ends(t, Removal(i), {}) \/ p \in Removal(i)
    BY <1>1, <1>2
  <2> QED
    BY <2>1, HoldsEnds, Apart DEF Cleared
<1>4. Told(q, i) <=> Told(t, i) \/ (p.cmd = "UPDATE" /\ ~Cleared(t, i))
  BY <1>1, Apart DEF Told, Live, Cleared
<1>5. SaysLabel(q, i) <=> SaysLabel(t, i) \/ (p.cmd = "UPDATE" /\ p.label /\ ~Cleared(t, i))
  BY <1>1, Apart DEF SaysLabel, Live, Cleared
<1>6. TellsVal(q, i) <=> TellsVal(t, i) \/ (p.cmd = "UPDATE" /\ p.val # None /\ ~Cleared(t, i))
  BY <1>1, Apart DEF TellsVal, Live, Cleared
<1>7. TellsPar(q, i) <=> TellsPar(t, i) \/ (p.cmd = "UPDATE" /\ p.par # 0 /\ ~Cleared(t, i))
  BY <1>1, Apart DEF TellsPar, Live, Cleared
<1>8. ASSUME NEW v
      PROVE  SaysVal(q, i, v) <=> SaysVal(t, i, v)
                \/ (p.cmd = "UPDATE" /\ p.val = v /\ v # None /\ ~Cleared(t, i) /\ ~TellsVal(t, i))
  <2>1. Says(q, OfVal(i, v), WithVal(i), i) <=> Says(t, OfVal(i, v), WithVal(i), i)
            \/ (p \in OfVal(i, v) /\ ~Holds(t, WithVal(i) \cup Removal(i)))
    BY <1>1 DEF Says
  <2>2. Holds(t, WithVal(i) \cup Removal(i)) <=> Cleared(t, i) \/ TellsVal(t, i)
    BY NoHolds DEF TellsVal
  <2> QED
    BY <2>1, <2>2, Apart DEF SaysVal
<1>9. ASSUME NEW g
      PROVE  SaysPar(q, i, g) <=> SaysPar(t, i, g)
                \/ (p.cmd = "UPDATE" /\ p.par = g /\ g # 0 /\ ~Cleared(t, i) /\ ~TellsPar(t, i))
  <2>1. Says(q, OfPar(i, g), WithPar(i), i) <=> Says(t, OfPar(i, g), WithPar(i), i)
            \/ (p \in OfPar(i, g) /\ ~Holds(t, WithPar(i) \cup Removal(i)))
    BY <1>1 DEF Says
  <2>2. Holds(t, WithPar(i) \cup Removal(i)) <=> Cleared(t, i) \/ TellsPar(t, i)
    BY NoHolds DEF TellsPar
  <2> QED
    BY <2>1, <2>2, Apart DEF SaysPar
<1>10. ASSUME NEW b
       PROVE  SaysOther(q, i, b) <=> SaysOther(t, i, b) \/ (p.cmd = "UPDATE" /\ p.group # b /\ ~Cleared(t, i))
  BY <1>1, Apart DEF SaysOther, Live, Cleared
<1> QED
  BY <1>3, <1>4, <1>5, <1>6, <1>7, <1>8, <1>9, <1>10 DEF q

\* A packet in front that is about another id changes nothing.
LEMMA SaidFirstOther ==
    ASSUME NEW p \in FromServers, NEW t \in Seq(FromServers), NEW i, p.id # i
    PROVE  /\ Cleared(<<p>> \o t, i) <=> Cleared(t, i)
           /\ Told(<<p>> \o t, i) <=> Told(t, i)
           /\ SaysLabel(<<p>> \o t, i) <=> SaysLabel(t, i)
           /\ TellsVal(<<p>> \o t, i) <=> TellsVal(t, i)
           /\ \A v : SaysVal(<<p>> \o t, i, v) <=> SaysVal(t, i, v)
           /\ TellsPar(<<p>> \o t, i) <=> TellsPar(t, i)
           /\ \A g : SaysPar(<<p>> \o t, i, g) <=> SaysPar(t, i, g)
           /\ \A b : SaysOther(<<p>> \o t, i, b) <=> SaysOther(t, i, b)
<1> DEFINE q == <<p>> \o t
<1>0. <<p>> \in Seq(FromServers)
  OBVIOUS
<1>1. \A S \in SUBSET About(i) : \A B : Ends(q, S, B) <=> Ends(t, S, B)
  <2> TAKE S \in SUBSET About(i)
  <2> TAKE B
  <2>1. Ends(q, S, B) <=> Ends(t, S, B) \/ (Ends(<<p>>, S, B) /\ ~Holds(t, B))
    BY <1>0, EndsConcat
  <2>2. p \notin S
    BY DEF About
  <2> QED
    BY <2>1, <2>2, ViewOne
<1> HIDE DEF q
<1>2. Cleared(q, i) <=> Cleared(t, i)
  BY <1>1, AboutSets, HoldsEnds DEF Cleared
<1>3. /\ Told(q, i) <=> Told(t, i)
      /\ SaysLabel(q, i) <=> SaysLabel(t, i)
      /\ TellsVal(q, i) <=> TellsVal(t, i)
      /\ TellsPar(q, i) <=> TellsPar(t, i)
  BY <1>1, AboutSets DEF Told, SaysLabel, TellsVal, TellsPar, Live
<1>4. \A b : SaysOther(q, i, b) <=> SaysOther(t, i, b)
  BY <1>1, AboutSets DEF SaysOther, Live
<1>5. \A v : SaysVal(q, i, v) <=> SaysVal(t, i, v)
  BY <1>1, AboutSets DEF SaysVal, Says
<1>6. \A g : SaysPar(q, i, g) <=> SaysPar(t, i, g)
  BY <1>1, AboutSets DEF SaysPar, Says
<1> QED
  BY <1>2, <1>3, <1>4, <1>5, <1>6 DEF q

-----------------------------------------------------------------------------
(* What update() and _init say of an id *)

\* update() of the server says one thing at most of each id.
LEMMA FlushSays ==
    ASSUME NEW m \in Params, NEW d \in SUBSET Id, \A i \in d : m[i] # None, removed \in SUBSET Id,
           NEW i \in Id, ~(i \in d /\ i \in removed)
    PROVE  /\ FlushPackets(m, d) \in Seq(FromServers)
           /\ i \in removed => REMOVE(i) \in FromServers /\ Alone(FlushPackets(m, d), i, REMOVE(i))
           /\ i \in d => UPDATE(i, m[i], m[i].chg) \in FromServers
                         /\ Alone(FlushPackets(m, d), i, UPDATE(i, m[i], m[i].chg))
           /\ i \notin d \cup removed => Void(FlushPackets(m, d), i)
<1> DEFINE P == FromServers
           s == [j \in Id |-> IF j \in removed THEN <<REMOVE(j)>> ELSE <<>>]
           t == [j \in Id |-> IF j \in d THEN <<UPDATE(j, m[j], m[j].chg)>> ELSE <<>>]
<1>0. FlushPackets(m, d) = InOrder(s) \o InOrder(t)
  BY DEF FlushPackets
<1>1. \A j \in Id : REMOVE(j) \in P /\ REMOVE(j).id = j
  BY RemoveFields DEF FromServers
<1>2. ASSUME NEW j \in d PROVE UPDATE(j, m[j], m[j].chg) \in P /\ UPDATE(j, m[j], m[j].chg).id = j
  <2>1. m[j] \in Parameter /\ m[j].chg \in SUBSET Fields
    BY DEF Params, Parameter
  <2> QED
    BY <2>1, UpdateFields
<1>3. <<>> \in Seq(P) /\ \A u \in P : <<u>> \in Seq(P)
  OBVIOUS
<1>4. ASSUME NEW j \in Id
      PROVE  /\ j \in removed => s[j] = <<REMOVE(j)>>
             /\ j \notin removed => s[j] = <<>>
             /\ j \in d => t[j] = <<UPDATE(j, m[j], m[j].chg)>>
             /\ j \notin d => t[j] = <<>>
  OBVIOUS
<1>5. s \in [Id -> Seq(P)] /\ t \in [Id -> Seq(P)]
  <2> HIDE DEF P
  <2>1. \A j \in Id : s[j] \in Seq(P) /\ t[j] \in Seq(P)
    BY <1>1, <1>2, <1>3, <1>4
  <2> QED
    BY <2>1
<1> HIDE DEF s, t
<1>6. ASSUME NEW j \in Id, j # i, NEW S \in SUBSET About(i)
      PROVE  ~Holds(s[j], S) /\ ~Holds(t[j], S)
  <2>1. REMOVE(j) \notin S
    BY <1>1, <1>6 DEF About
  <2>2. j \in d => UPDATE(j, m[j], m[j].chg) \notin S
    BY <1>2, <1>6 DEF About
  <2> QED
    BY <1>4, <2>1, <2>2, ViewEmpty, ViewOne
<1>7. ASSUME NEW S \in SUBSET About(i), NEW B \in SUBSET About(i)
      PROVE  /\ Ends(InOrder(s), S, B) <=> Ends(s[i], S, B)
             /\ Ends(InOrder(t), S, B) <=> Ends(t[i], S, B)
  BY <1>5, <1>6, InOrderEnds
<1>8. InOrder(s) \in Seq(P) /\ InOrder(t) \in Seq(P)
  BY <1>5, InOrderType
<1>9. ASSUME NEW S \in SUBSET About(i), NEW B \in SUBSET About(i)
      PROVE  Ends(FlushPackets(m, d), S, B) <=> Ends(t[i], S, B) \/ (Ends(s[i], S, B) /\ ~Holds(t[i], B))
  <2>1. Ends(FlushPackets(m, d), S, B) <=> Ends(InOrder(t), S, B) \/ (Ends(InOrder(s), S, B) /\ ~Holds(InOrder(t), B))
    BY <1>0, <1>8, EndsConcat
  <2>2. Holds(InOrder(t), B) <=> Holds(t[i], B)
    <3>1. Ends(InOrder(t), B, {}) <=> Ends(t[i], B, {})
      BY <1>7
    <3> QED
      BY <3>1, HoldsEnds
  <2> QED
    BY <2>1, <2>2, <1>7
<1>10. CASE i \in removed
  <2>1. s[i] = <<REMOVE(i)>> /\ t[i] = <<>>
    BY <1>4, <1>10
  <2>2. Alone(FlushPackets(m, d), i, REMOVE(i))
    BY <1>9, <2>1, ViewEmpty, ViewOne DEF Alone
  <2> QED
    BY <2>2, <1>1, <1>10, FlushType
<1>11. CASE i \in d
  <2>1. s[i] = <<>> /\ t[i] = <<UPDATE(i, m[i], m[i].chg)>>
    BY <1>4, <1>11
  <2>2. Alone(FlushPackets(m, d), i, UPDATE(i, m[i], m[i].chg))
    BY <1>9, <2>1, ViewEmpty, ViewOne DEF Alone
  <2> QED
    BY <2>2, <1>2, <1>11, FlushType
<1>12. CASE i \notin d \cup removed
  <2>1. s[i] = <<>> /\ t[i] = <<>>
    BY <1>4, <1>12
  <2>2. \A S \in SUBSET About(i) : ~Ends(FlushPackets(m, d), S, {})
    BY <1>9, <2>1, ViewEmpty
  <2>3. Void(FlushPackets(m, d), i)
    BY <2>2, HoldsEnds DEF Void
  <2> QED
    BY <2>3, <1>12, FlushType
<1> QED
  BY <1>10, <1>11, <1>12

\* What _init reaches
Reached(i) == i \in Present /\ Holds(InitPackets, {Shown(i)})

\* _init says one thing of what it reaches, and nothing of the rest.
LEMMA InitSays ==
    ASSUME params \in Params, NEW i \in Id
    PROVE  /\ InitPackets \in Seq(FromServers)
           /\ Reached(i) => Shown(i) \in FromServers /\ Shown(i).id = i /\ Alone(InitPackets, i, Shown(i))
           /\ ~Reached(i) => Void(InitPackets, i)
<1>1. InitPackets \in Seq(FromServers)
  BY InitType
<1>2. ASSUME NEW n \in DOMAIN InitPackets PROVE \E j \in Present : InitPackets[n] = Shown(j) /\ Shown(j).id = j
  <2>1. InitPackets[n] \in {Shown(j) : j \in Present}
    BY InitPacketsShow
  <2> QED
    BY <2>1 DEF Shown, UPDATE, Packet
<1>3. ASSUME NEW n \in DOMAIN InitPackets, InitPackets[n] \in About(i)
      PROVE  InitPackets[n] = Shown(i) /\ Reached(i)
  <2>1. InitPackets[n] = Shown(i) /\ i \in Present
    BY <1>2, <1>3 DEF About
  <2> QED
    BY <2>1 DEF Reached, Holds
<1>4. ASSUME Reached(i) PROVE Shown(i) \in FromServers /\ Shown(i).id = i /\ Alone(InitPackets, i, Shown(i))
  <2>1. Shown(i) \in FromServers /\ Shown(i).id = i
    BY <1>4, ShownType DEF Reached, Shown, UPDATE, Packet
  <2>2. Ends(InitPackets, {Shown(i)}, {Shown(i)})
    BY <1>1, <1>4, HasLast DEF Reached
  <2>3. ASSUME NEW S \in SUBSET About(i), NEW B \in SUBSET About(i)
        PROVE  Ends(InitPackets, S, B) <=> Shown(i) \in S
    <3>1. ASSUME Shown(i) \in S PROVE Ends(InitPackets, S, B)
      <4>1. PICK n \in DOMAIN InitPackets : InitPackets[n] = Shown(i)
                /\ \A k \in DOMAIN InitPackets : k > n => InitPackets[k] # Shown(i)
        BY <2>2 DEF Ends
      <4>2. \A k \in DOMAIN InitPackets : k > n => InitPackets[k] \notin B
        BY <4>1, <1>3
      <4> QED
        BY <3>1, <4>1, <4>2 DEF Ends
    <3>2. ASSUME Ends(InitPackets, S, B) PROVE Shown(i) \in S
      BY <3>2, <1>3 DEF Ends
    <3> QED
      BY <3>1, <3>2
  <2> QED
    BY <2>1, <2>3 DEF Alone
<1>5. ASSUME ~Reached(i) PROVE Void(InitPackets, i)
  BY <1>3, <1>5 DEF Void, Holds
<1> QED
  BY <1>1, <1>4, <1>5

\* A part of a queue.
LEMMA SliceType ==
    ASSUME NEW P, NEW q \in Seq(P), NEW a \in Nat, NEW b \in Nat, b <= Len(q)
    PROVE  /\ SubSeq(q, a + 1, b) \in Seq(P)
           /\ Len(SubSeq(q, a + 1, b)) = IF a < b THEN b - a ELSE 0
           /\ \A n \in 1..(b - a) : SubSeq(q, a + 1, b)[n] = q[a + n]
<1>1. Len(q) \in Nat /\ DOMAIN q = 1..Len(q)
  BY LenProperties
<1>2. a + 1 \in Int /\ b \in Int /\ \A n \in (a + 1)..b : q[n] \in P
  <2>1. \A n \in (a + 1)..b : n \in 1..Len(q)
    BY <1>1
  <2>2. \A n \in 1..Len(q) : q[n] \in P
    BY ElementOfSeq
  <2> QED
    BY <2>1, <2>2
<1>3. /\ SubSeq(q, a + 1, b) \in Seq(P)
      /\ Len(SubSeq(q, a + 1, b)) = IF a + 1 <= b THEN b - (a + 1) + 1 ELSE 0
      /\ \A n \in 1..(b - (a + 1) + 1) : SubSeq(q, a + 1, b)[n] = q[(a + 1) + n - 1]
  BY <1>2, SubSeqProperties
<1>4. b - (a + 1) + 1 = b - a /\ (a + 1 <= b <=> a < b)
  OBVIOUS
<1>5. \A n \in 1..(b - a) : (a + 1) + n - 1 = a + n
  OBVIOUS
<1> QED
  BY <1>3, <1>4, <1>5

\* The start of a concatenation.
LEMMA PrefixJoin ==
    ASSUME NEW P, NEW q \in Seq(P), NEW r \in Seq(P), NEW n \in Nat, n <= Len(q) + Len(r)
    PROVE  SubSeq(q \o r, 1, n) =
             IF n <= Len(q) THEN SubSeq(q, 1, n) ELSE q \o SubSeq(r, 1, n - Len(q))
<1>1. /\ q \o r \in Seq(P) /\ Len(q) \in Nat /\ Len(r) \in Nat /\ Len(q \o r) = Len(q) + Len(r)
      /\ \A k \in 1..Len(q) : (q \o r)[k] = q[k]
      /\ \A k \in 1..Len(r) : (q \o r)[Len(q) + k] = r[k]
  BY ConcatPlaces, LenProperties
<1>2. /\ SubSeq(q \o r, 0 + 1, n) \in Seq(P) /\ Len(SubSeq(q \o r, 0 + 1, n)) = IF 0 < n THEN n - 0 ELSE 0
      /\ \A k \in 1..(n - 0) : SubSeq(q \o r, 0 + 1, n)[k] = (q \o r)[0 + k]
  BY <1>1, SliceType
<1>3. /\ SubSeq(q \o r, 1, n) \in Seq(P) /\ Len(SubSeq(q \o r, 1, n)) = n
      /\ \A k \in 1..n : SubSeq(q \o r, 1, n)[k] = (q \o r)[k]
  BY <1>2
<1>4. CASE n <= Len(q)
  <2>1. /\ SubSeq(q, 0 + 1, n) \in Seq(P) /\ Len(SubSeq(q, 0 + 1, n)) = IF 0 < n THEN n - 0 ELSE 0
        /\ \A k \in 1..(n - 0) : SubSeq(q, 0 + 1, n)[k] = q[0 + k]
    BY <1>4, SliceType
  <2>2. /\ SubSeq(q, 1, n) \in Seq(P) /\ Len(SubSeq(q, 1, n)) = n
        /\ \A k \in 1..n : SubSeq(q, 1, n)[k] = q[k]
    BY <2>1
  <2>3. \A k \in 1..n : k \in 1..Len(q)
    BY <1>4, <1>1
  <2>4. \A k \in 1..n : SubSeq(q \o r, 1, n)[k] = SubSeq(q, 1, n)[k]
    BY <1>1, <1>3, <2>2, <2>3
  <2>5. SubSeq(q \o r, 1, n) = SubSeq(q, 1, n)
    BY <1>3, <2>2, <2>4, SeqEqual
  <2> QED
    BY <1>4, <2>5
<1>5. CASE ~(n <= Len(q))
  <2> DEFINE k == n - Len(q)
             x == SubSeq(r, 1, k)
  <2>1. k \in Nat /\ k <= Len(r) /\ n = Len(q) + k
    BY <1>1, <1>5
  <2> HIDE DEF k
  <2>2. /\ SubSeq(r, 0 + 1, k) \in Seq(P) /\ Len(SubSeq(r, 0 + 1, k)) = IF 0 < k THEN k - 0 ELSE 0
        /\ \A l \in 1..(k - 0) : SubSeq(r, 0 + 1, k)[l] = r[0 + l]
    BY <2>1, SliceType
  <2>3. x \in Seq(P) /\ Len(x) = k /\ \A l \in 1..k : x[l] = r[l]
    BY <2>1, <2>2
  <2> HIDE DEF x
  <2>4. /\ q \o x \in Seq(P) /\ Len(q \o x) = Len(q) + k
        /\ \A l \in 1..Len(q) : (q \o x)[l] = q[l]
        /\ \A l \in 1..k : (q \o x)[Len(q) + l] = x[l]
    <3>1. Len(q \o x) = Len(q) + Len(x) /\ q \o x \in Seq(P)
      BY <2>3, ConcatProperties
    <3>2. /\ \A l \in 1..Len(q) : (q \o x)[l] = q[l]
          /\ \A l \in 1..Len(x) : (q \o x)[Len(q) + l] = x[l]
      BY <2>3, ConcatPlaces
    <3> QED
      BY <2>3, <3>1, <3>2
  <2>5. ASSUME NEW l \in 1..n PROVE SubSeq(q \o r, 1, n)[l] = (q \o x)[l]
    <3>1. CASE l \in 1..Len(q)
      BY <3>1, <1>1, <1>3, <2>4
    <3>2. CASE l \notin 1..Len(q)
      <4>1. l - Len(q) \in 1..k /\ l - Len(q) \in 1..Len(r) /\ l = Len(q) + (l - Len(q))
        BY <3>2, <1>1, <2>1
      <4>2. (q \o r)[l] = r[l - Len(q)] /\ (q \o x)[l] = x[l - Len(q)] /\ x[l - Len(q)] = r[l - Len(q)]
        BY <4>1, <1>1, <2>3, <2>4
      <4> QED
        BY <4>2, <1>3
    <3> QED
      BY <3>1, <3>2
  <2>6. SubSeq(q \o r, 1, n) = q \o x
    BY <1>3, <2>1, <2>4, <2>5, SeqEqual
  <2> QED
    BY <1>5, <2>6 DEF x, k
<1> QED
  BY <1>4, <1>5

-----------------------------------------------------------------------------
(* The tree: where the server and a client have a parameter *)

\* Cached, with no REMOVE of it under way: k is the cache, q what is under way.
HasNow(q, k, i) == k[i] # None /\ ~Cleared(q, i)

\* After q the client has j in group h; a is the set of what went astray.
Sits(q, k, a, j, h) ==
    \/ SaysPar(q, j, h)
    \/ ~TellsPar(q, j) /\ HasNow(q, k, j) /\ k[j].par = h /\ j \notin a

\* The server's own: what is pending is on a list, a group is known before its
\* members, what is removed is gone.
ServerParam(i, m, d, sp) ==
    m[i] # None =>
      /\ m[i].label
      /\ m[i].chg # {} => i \in d
      /\ m[i].par # 0 => IsGroup(m, m[i].par)
      /\ m[i].par # 0 /\ i \notin sp => "label" \notin m[m[i].par].chg
      /\ "label" \in m[i].chg => "par" \in m[i].chg
      /\ "label" \in m[i].chg /\ "val" \notin m[i].chg => m[i].val = Default

ServerOK(m, d, R, sp) ==
    /\ \A i \in Id : ServerParam(i, m, d, sp)
    /\ \A i \in R : m[i] = None

\* What is not there is forgotten, what is at the root stays there, what sits in
\* a group belongs there or is about to move, and not in a group to be removed.
TreeAt(i, m, R, q, k, a) ==
    /\ m[i] = None /\ i \notin R => ~Told(q, i) /\ ~HasNow(q, k, i)
    /\ m[i] # None /\ m[i].par = 0 => ~TellsPar(q, i) /\ (HasNow(q, k, i) => k[i].par = 0)
    /\ \A h \in Id : Sits(q, k, a, i, h) =>
            /\ i \in R \/ (m[i] # None /\ (m[i].par = h \/ "par" \in m[i].chg))
            /\ h \notin R

\* When a REMOVE comes nothing is left in its group.
Left(q, k, a, sp) ==
    \A n \in DOMAIN q : q[n].cmd = "REMOVE" =>
        \A j \in Id \ sp : ~Sits(SubSeq(q, 1, n - 1), k, a, j, q[n].id)

Tree(m, R, q, k, a, sp) ==
    /\ \A i \in Id \ sp : TreeAt(i, m, R, q, k, a)
    /\ Left(q, k, a, sp)

ClientTree(c) == Tree(params, removed, toClient[c], cache[c], astray[c], spoilt)

TreeInv ==
    /\ ServerOK(params, dirty, removed, spoilt)
    /\ \A c \in on : ClientTree(c)

\* Packet u moves its parameter to group h.
Into(u, h) == u.cmd = "UPDATE" /\ u.par = h

\* Where one more packet leaves a parameter ...
LEMMA SitsAlone ==
    ASSUME NEW s, NEW q, NEW r, Adds(s, q, r), NEW k, NEW a, NEW i, NEW u \in FromServers,
           u.id = i, Alone(r, i, u), NEW h \in Id
    PROVE  Sits(s, k, a, i, h) <=> Into(u, h) \/ (Into(u, 0) /\ Sits(q, k, a, i, h))
<1>1. u.cmd = "UPDATE" <=> u.cmd # "REMOVE"
  BY Apart
<1>2. h # 0
  BY DEF Id
<1>3. Cleared(s, i) <=> Cleared(q, i) \/ u.cmd = "REMOVE"
  BY SaidAlone
<1>4. TellsPar(s, i) <=> u.cmd = "UPDATE" /\ (u.par # 0 \/ TellsPar(q, i))
  BY SaidAlone
<1>5. SaysPar(s, i, h) <=>
        u.cmd = "UPDATE" /\ h # 0 /\ (u.par = h \/ (u.par = 0 /\ SaysPar(q, i, h)))
  BY SaidAlone
<1> QED
  BY <1>1, <1>2, <1>3, <1>4, <1>5 DEF HasNow, Sits, Into

\* ... and whether the client has it then.
LEMMA HasAlone ==
    ASSUME NEW s, NEW q, NEW r, Adds(s, q, r), NEW k, NEW i, NEW u \in FromServers,
           u.id = i, Alone(r, i, u)
    PROVE  HasNow(s, k, i) <=> HasNow(q, k, i) /\ u.cmd = "UPDATE"
<1>1. u.cmd = "UPDATE" <=> u.cmd # "REMOVE"
  BY Apart
<1>2. Cleared(s, i) <=> Cleared(q, i) \/ u.cmd = "REMOVE"
  BY SaidAlone
<1> QED
  BY <1>1, <1>2 DEF HasNow

\* Packets about others leave it where it was.
LEMMA SitsVoid ==
    ASSUME NEW s, NEW q, NEW r, Adds(s, q, r), NEW k, NEW a, NEW i, Void(r, i)
    PROVE  /\ HasNow(s, k, i) <=> HasNow(q, k, i)
           /\ \A h : Sits(s, k, a, i, h) <=> Sits(q, k, a, i, h)
<1>1. /\ Cleared(s, i) <=> Cleared(q, i)
      /\ TellsPar(s, i) <=> TellsPar(q, i)
      /\ \A h : SaysPar(s, i, h) <=> SaysPar(q, i, h)
  BY SaidVoid
<1> QED
  BY <1>1 DEF HasNow, Sits

\* Packets about others keep what holds of it.
LEMMA TreeVoid ==
    ASSUME NEW s, NEW q, NEW r, Adds(s, q, r), NEW k, NEW a, NEW i, Void(r, i),
           NEW m, NEW R, TreeAt(i, m, R, q, k, a)
    PROVE  TreeAt(i, m, R, s, k, a)
BY SitsVoid, SaidVoid DEF TreeAt

\* Only the group of a parameter matters to the tree.
LEMMA TreeSame ==
    ASSUME NEW i, NEW m, NEW n, NEW R, NEW q, NEW k, NEW a, TreeAt(i, m, R, q, k, a),
           m[i] = None <=> n[i] = None,
           m[i] # None => n[i].par = m[i].par \/ (n[i].par # 0 /\ "par" \in n[i].chg),
           m[i] # None /\ "par" \in m[i].chg => "par" \in n[i].chg
    PROVE  TreeAt(i, n, R, q, k, a)
BY DEF TreeAt

\* The tree is about groups only, not about labels and values.
LEMMA CacheSame ==
    ASSUME NEW q, NEW k, NEW l, NEW a, NEW sp, NEW m, NEW R,
           \A i \in Id : (k[i] = None <=> l[i] = None) /\ (k[i] # None => l[i].par = k[i].par)
    PROVE  /\ \A i \in Id : TreeAt(i, m, R, q, k, a) => TreeAt(i, m, R, q, l, a)
           /\ Left(q, k, a, sp) => Left(q, l, a, sp)
<1>1. \A t : \A i \in Id : HasNow(t, l, i) <=> HasNow(t, k, i)
  BY DEF HasNow
<1>2. \A t, h : \A i \in Id : Sits(t, l, a, i, h) <=> Sits(t, k, a, i, h)
  BY <1>1 DEF Sits, HasNow
<1>3. ASSUME NEW i \in Id, TreeAt(i, m, R, q, k, a) PROVE TreeAt(i, m, R, q, l, a)
  BY <1>1, <1>2, <1>3 DEF TreeAt, HasNow
<1>4. ASSUME Left(q, k, a, sp) PROVE Left(q, l, a, sp)
  BY <1>2, <1>4 DEF Left
<1> QED
  BY <1>3, <1>4

\* More packets, of which each REMOVE comes when its group is empty.
LEMMA LeftJoin ==
    ASSUME NEW q \in Seq(FromServers), NEW r \in Seq(FromServers), NEW k, NEW a, NEW sp, Left(q, k, a, sp),
           \A n \in DOMAIN r : r[n].cmd = "REMOVE" =>
              \A j \in Id \ sp : ~Sits(q \o SubSeq(r, 1, n - 1), k, a, j, r[n].id)
    PROVE  Left(q \o r, k, a, sp)
<1>1. /\ DOMAIN q = 1..Len(q) /\ DOMAIN r = 1..Len(r) /\ DOMAIN (q \o r) = 1..(Len(q) + Len(r))
      /\ Len(q) \in Nat /\ Len(r) \in Nat
      /\ \A n \in 1..Len(q) : (q \o r)[n] = q[n]
      /\ \A n \in 1..Len(r) : (q \o r)[Len(q) + n] = r[n]
  BY ConcatPlaces
<1> SUFFICES ASSUME NEW n \in 1..(Len(q) + Len(r)), (q \o r)[n].cmd = "REMOVE", NEW j \in Id \ sp
             PROVE  ~Sits(SubSeq(q \o r, 1, n - 1), k, a, j, (q \o r)[n].id)
  BY <1>1 DEF Left
<1>2. n - 1 \in Nat /\ n - 1 <= Len(q) + Len(r)
  BY <1>1
<1>3. SubSeq(q \o r, 1, n - 1) =
        IF n - 1 <= Len(q) THEN SubSeq(q, 1, n - 1) ELSE q \o SubSeq(r, 1, (n - 1) - Len(q))
  BY <1>2, PrefixJoin
<1>4. CASE n <= Len(q)
  <2>1. n \in DOMAIN q /\ (q \o r)[n] = q[n] /\ n - 1 <= Len(q)
    BY <1>1, <1>4
  <2> QED
    BY <2>1, <1>3 DEF Left
<1>5. CASE n > Len(q)
  <2> DEFINE l == n - Len(q)
  <2>1. l \in DOMAIN r /\ (q \o r)[n] = r[l] /\ (n - 1) - Len(q) = l - 1
    BY <1>1, <1>5
  <2>2. SubSeq(q \o r, 1, n - 1) = q \o SubSeq(r, 1, l - 1)
    <3>1. CASE n - 1 = Len(q)
      <4>1. SubSeq(q \o r, 1, n - 1) = SubSeq(q, 1, Len(q)) /\ l - 1 = 0
        BY <3>1, <1>1, <1>3
      <4>2. SubSeq(q, 1, Len(q)) = q
        BY SubSeqFull
      <4>3. SubSeq(r, 1, 0) = <<>>
        BY SubSeqEmpty
      <4>4. q \o <<>> = q
        BY ConcatEmptySeq
      <4> QED
        BY <4>1, <4>2, <4>3, <4>4
    <3>2. CASE n - 1 # Len(q)
      BY <3>2, <1>1, <1>3, <1>5, <2>1
    <3> QED
      BY <3>1, <3>2
  <2> HIDE DEF l
  <2> QED
    BY <2>1, <2>2
<1> QED
  BY <1>1, <1>4, <1>5

\* More packets without a REMOVE.
LEMMA LeftNoRemove ==
    ASSUME NEW q \in Seq(FromServers), NEW r \in Seq(FromServers), NEW k, NEW a, NEW sp, Left(q, k, a, sp),
           \A n \in DOMAIN r : r[n].cmd # "REMOVE"
    PROVE  Left(q \o r, k, a, sp)
BY LeftJoin

\* Packet p makes of cache k and of what is astray, a, the next ones l and b.
Took(p, k, a, l, b) ==
    \/ /\ p.cmd = "UPDATE"
       /\ \A j \in Id \ {p.id} : l[j] = k[j] /\ (j \in b <=> j \in a)
       /\ l[p.id] # None
       /\ p.par = 0 => /\ l[p.id].par = IF k[p.id] = None THEN 0 ELSE k[p.id].par
                       /\ p.id \in b <=> p.id \in a
       /\ p.par # 0 => p.id \in b \/ l[p.id].par = p.par
    \/ /\ p.cmd = "REMOVE"
       /\ l[p.id] = None
       /\ \A j \in Id : l[j] # None => l[j] = k[j] /\ (j \in b <=> j \in a)

\* A packet that is taken leaves nothing where it was not before.
LEMMA TookSits ==
    ASSUME NEW p \in FromServers, NEW t \in Seq(FromServers), NEW k, NEW a, NEW l, NEW b, Took(p, k, a, l, b),
           NEW j \in Id
    PROVE  /\ HasNow(t, l, j) => (p.cmd = "UPDATE" /\ p.id = j) \/ HasNow(<<p>> \o t, k, j)
           /\ \A h \in Id : Sits(t, l, b, j, h) => Sits(<<p>> \o t, k, a, j, h)
<1>0. \A h \in Id : h # 0
  BY DEF Id
<1>00. p.cmd \in {"UPDATE", "REMOVE"}
  BY FromServersSplit
<1>1. CASE p.id # j
  <2>1. Cleared(<<p>> \o t, j) <=> Cleared(t, j)
    BY <1>1, SaidFirstOther
  <2>2. TellsPar(<<p>> \o t, j) <=> TellsPar(t, j)
    BY <1>1, SaidFirstOther
  <2>3. \A h : SaysPar(<<p>> \o t, j, h) <=> SaysPar(t, j, h)
    BY <1>1, SaidFirstOther
  <2>4. l[j] # None => l[j] = k[j] /\ (j \in b <=> j \in a)
    BY <1>1 DEF Took
  <2> QED
    BY <2>1, <2>2, <2>3, <2>4 DEF HasNow, Sits
<1>2. CASE p.id = j /\ p.cmd = "REMOVE"
  <2>1. l[j] = None
    BY <1>2 DEF Took
  <2>2. \A h : SaysPar(t, j, h) => SaysPar(<<p>> \o t, j, h)
    BY <1>2, SaidFirst
  <2> QED
    BY <2>1, <2>2 DEF HasNow, Sits
<1>3. CASE p.id = j /\ p.cmd = "UPDATE"
  <2>1. Cleared(<<p>> \o t, j) <=> Cleared(t, j)
    BY <1>3, SaidFirst
  <2>2. TellsPar(<<p>> \o t, j) <=> TellsPar(t, j) \/ (p.par # 0 /\ ~Cleared(t, j))
    BY <1>3, SaidFirst
  <2>3. \A h : SaysPar(<<p>> \o t, j, h) <=> SaysPar(t, j, h)
            \/ (p.par = h /\ h # 0 /\ ~Cleared(t, j) /\ ~TellsPar(t, j))
    BY <1>3, SaidFirst
  <2>4. /\ l[j] # None
        /\ p.par = 0 => (l[j].par = IF k[j] = None THEN 0 ELSE k[j].par) /\ (j \in b <=> j \in a)
        /\ p.par # 0 => j \in b \/ l[j].par = p.par
    BY <1>3 DEF Took
  <2>5. ASSUME NEW h \in Id, Sits(t, l, b, j, h) PROVE Sits(<<p>> \o t, k, a, j, h)
    <3>1. CASE SaysPar(t, j, h)
      BY <3>1, <2>3 DEF Sits
    <3>2. CASE ~TellsPar(t, j) /\ HasNow(t, l, j) /\ l[j].par = h /\ j \notin b
      <4>1. ~Cleared(t, j)
        BY <3>2 DEF HasNow
      <4>2. CASE p.par = 0
        BY <4>1, <4>2, <3>2, <2>1, <2>2, <2>4, <1>0 DEF Sits, HasNow
      <4>3. CASE p.par # 0
        BY <4>1, <4>3, <3>2, <2>3, <2>4, <1>0 DEF Sits
      <4> QED
        BY <4>2, <4>3
    <3> QED
      BY <2>5, <3>1, <3>2 DEF Sits
  <2> QED
    BY <2>5, <1>3
<1> QED
  BY <1>00, <1>1, <1>2, <1>3

\* Taking a packet keeps what holds of a parameter ...
LEMMA TookTree ==
    ASSUME NEW p \in FromServers, NEW t \in Seq(FromServers), NEW k, NEW a, NEW l, NEW b, Took(p, k, a, l, b),
           NEW i \in Id, NEW m, NEW R, TreeAt(i, m, R, <<p>> \o t, k, a)
    PROVE  TreeAt(i, m, R, t, l, b)
<1>1. /\ HasNow(t, l, i) => (p.cmd = "UPDATE" /\ p.id = i) \/ HasNow(<<p>> \o t, k, i)
      /\ \A h \in Id : Sits(t, l, b, i, h) => Sits(<<p>> \o t, k, a, i, h)
  BY TookSits
<1>2. p.id = i \/ p.id # i
  OBVIOUS
<1>3. Told(t, i) => Told(<<p>> \o t, i)
  BY <1>2, SaidFirst, SaidFirstOther
<1>4. TellsPar(t, i) => TellsPar(<<p>> \o t, i)
  BY <1>2, SaidFirst, SaidFirstOther
<1>5. p.cmd = "UPDATE" /\ p.id = i /\ ~Cleared(t, i) => Told(<<p>> \o t, i)
  BY SaidFirst
<1>6. p.cmd = "UPDATE" /\ p.id = i /\ ~Cleared(t, i) /\ p.par # 0 => TellsPar(<<p>> \o t, i)
  BY SaidFirst
<1>7. p.cmd = "UPDATE" /\ p.id = i => (Cleared(<<p>> \o t, i) <=> Cleared(t, i))
  BY SaidFirst
<1>8. HasNow(t, l, i) => ~Cleared(t, i)
  BY DEF HasNow
<1>9. ASSUME m[i] = None, i \notin R PROVE ~Told(t, i) /\ ~HasNow(t, l, i)
  BY <1>1, <1>3, <1>5, <1>8, <1>9 DEF TreeAt
<1>10. ASSUME m[i] # None, m[i].par = 0 PROVE ~TellsPar(t, i) /\ (HasNow(t, l, i) => l[i].par = 0)
  <2>1. ~TellsPar(t, i)
    BY <1>4, <1>10 DEF TreeAt
  <2>2. ASSUME HasNow(t, l, i) PROVE l[i].par = 0
    <3>1. CASE p.cmd = "UPDATE" /\ p.id = i
      <4>1. p.par = 0
        BY <3>1, <1>6, <1>8, <2>2, <1>10 DEF TreeAt
      <4>2. l[i].par = IF k[i] = None THEN 0 ELSE k[i].par
        BY <3>1, <4>1 DEF Took
      <4>3. k[i] # None => k[i].par = 0
        BY <3>1, <1>7, <1>8, <2>2, <1>10 DEF TreeAt, HasNow
      <4> QED
        BY <4>2, <4>3
    <3>2. CASE ~(p.cmd = "UPDATE" /\ p.id = i)
      <4>1. HasNow(<<p>> \o t, k, i)
        BY <3>2, <2>2, <1>1
      <4>2. l[i] = k[i]
        BY <3>2, <2>2 DEF Took, HasNow
      <4> QED
        BY <4>1, <4>2, <1>10 DEF TreeAt
    <3> QED
      BY <3>1, <3>2
  <2> QED
    BY <2>1, <2>2
<1> QED
  BY <1>1, <1>9, <1>10 DEF TreeAt

\* ... and of the groups that are to be removed.
LEMMA TookLeft ==
    ASSUME NEW p \in FromServers, NEW t \in Seq(FromServers), NEW k, NEW a, NEW l, NEW b, Took(p, k, a, l, b),
           NEW sp, Left(<<p>> \o t, k, a, sp)
    PROVE  Left(t, l, b, sp)
<1> SUFFICES ASSUME NEW n \in DOMAIN t, t[n].cmd = "REMOVE", NEW j \in Id \ sp
             PROVE  ~Sits(SubSeq(t, 1, n - 1), l, b, j, t[n].id)
  BY DEF Left
<1>1. <<p>> \in Seq(FromServers) /\ Len(<<p>>) = 1
  OBVIOUS
<1>2. /\ DOMAIN t = 1..Len(t) /\ DOMAIN (<<p>> \o t) = 1..(1 + Len(t)) /\ Len(t) \in Nat
      /\ \A x \in 1..Len(t) : (<<p>> \o t)[1 + x] = t[x]
  BY <1>1, ConcatPlaces
<1>3. 1 + n \in DOMAIN (<<p>> \o t) /\ (<<p>> \o t)[1 + n] = t[n] /\ (1 + n) - 1 = n /\ n \in Nat
  BY <1>2
<1>4. ~Sits(SubSeq(<<p>> \o t, 1, n), k, a, j, t[n].id)
  BY <1>3 DEF Left
<1>5. SubSeq(<<p>> \o t, 1, n) = <<p>> \o SubSeq(t, 1, n - 1)
  <2>1. SubSeq(<<p>> \o t, 1, n) = IF n <= 1 THEN SubSeq(<<p>>, 1, n) ELSE <<p>> \o SubSeq(t, 1, n - 1)
    BY <1>1, <1>2, PrefixJoin
  <2>2. CASE n = 1
    <3>1. SubSeq(<<p>>, 1, Len(<<p>>)) = <<p>>
      BY <1>1, SubSeqFull
    <3>2. SubSeq(t, 1, 0) = <<>>
      BY SubSeqEmpty
    <3>3. <<p>> \o <<>> = <<p>>
      BY <1>1, ConcatEmptySeq
    <3> QED
      BY <2>1, <2>2, <1>1, <3>1, <3>2, <3>3
  <2>3. CASE n # 1
    BY <2>1, <2>3, <1>2
  <2> QED
    BY <2>2, <2>3
<1>6. SubSeq(t, 1, n - 1) \in Seq(FromServers)
  <2>1. n - 1 \in Nat /\ n - 1 <= Len(t) /\ 0 \in Nat /\ 0 + 1 = 1
    BY <1>2
  <2>2. SubSeq(t, 0 + 1, n - 1) \in Seq(FromServers)
    BY <2>1, SliceType
  <2> QED
    BY <2>2
<1>7. t[n].id \in Id
  BY FromServersSplit, ElementOfSeq, <1>2
<1> QED
  BY <1>4, <1>5, <1>6, <1>7, TookSits

-----------------------------------------------------------------------------
(* What the server does to the tree *)

\* After update() nothing is pending, and the client is told.
LEMMA FlushTree ==
    ASSUME NEW m \in Params, NEW d \in SUBSET Id, \A i \in d : m[i] # None, removed \in SUBSET Id,
           NEW sp, ServerOK(m, d, removed, sp), NEW i \in Id,
           NEW s, NEW q, Adds(s, q, FlushPackets(m, d)), NEW k, NEW a, TreeAt(i, m, removed, q, k, a),
           NEW n, n[i] = IF i \in d THEN Sent(m[i]) ELSE m[i]
    PROVE  TreeAt(i, n, {}, s, k, a)
<1> DEFINE r == FlushPackets(m, d)
<1>0. i \in d => i \notin removed
  BY DEF ServerOK
<1>1. /\ r \in Seq(FromServers)
      /\ i \in removed => REMOVE(i) \in FromServers /\ Alone(r, i, REMOVE(i))
      /\ i \in d => UPDATE(i, m[i], m[i].chg) \in FromServers /\ Alone(r, i, UPDATE(i, m[i], m[i].chg))
      /\ i \notin d \cup removed => Void(r, i)
  BY <1>0, FlushSays
<1>a. Adds(s, q, r)
  OBVIOUS
<1>2. m[i] # None => m[i] \in Parameter /\ m[i].chg \in SUBSET Fields /\ (m[i].chg # {} => i \in d)
  BY DEF Params, Parameter, ServerOK, ServerParam
<1>3. \A h \in Id : h # 0
  BY DEF Id
<1> HIDE DEF r
<1>4. CASE i \in removed
  <2>1. n[i] = None
    BY <1>0, <1>4 DEF ServerOK
  <2>2. REMOVE(i).id = i /\ REMOVE(i).cmd # "UPDATE"
    BY RemoveFields
  <2>3. ~Told(s, i)
    BY <1>a, <1>1, <1>4, <2>2, SaidAlone
  <2>4. ASSUME NEW h \in Id PROVE ~Sits(s, k, a, i, h)
    <3>1. Sits(s, k, a, i, h) <=> Into(REMOVE(i), h) \/ (Into(REMOVE(i), 0) /\ Sits(q, k, a, i, h))
      BY <1>a, <1>1, <1>4, <2>2, SitsAlone
    <3> QED
      BY <3>1, <2>2 DEF Into
  <2>5. ~HasNow(s, k, i)
    <3>1. Cleared(s, i)
      <4>1. REMOVE(i).cmd = "REMOVE"
        BY RemoveFields
      <4> QED
        BY <1>a, <1>1, <1>4, <2>2, <4>1, SaidAlone
    <3> QED
      BY <3>1 DEF HasNow
  <2> QED
    BY <2>1, <2>3, <2>4, <2>5 DEF TreeAt, r
<1>5. CASE i \in d
  <2> DEFINE u == UPDATE(i, m[i], m[i].chg)
  <2>1. /\ u.id = i /\ u.cmd = "UPDATE"
        /\ "par" \in m[i].chg => u.par = m[i].par
        /\ "par" \notin m[i].chg => u.par = 0
    BY <1>2, <1>5, UpdateFields
  <2>2. n[i].par = m[i].par /\ n[i] # None /\ m[i] # None
    BY <1>2, <1>5, SentFields, Values
  <2>3. u \in FromServers /\ Alone(r, i, u)
    BY <1>1, <1>5
  <2> HIDE DEF u
  <2>4. TellsPar(s, i) <=> u.par # 0 \/ TellsPar(q, i)
    BY <1>a, <1>1, <2>1, <2>3, SaidAlone
  <2>5. HasNow(s, k, i) => HasNow(q, k, i)
    BY <1>a, <1>1, <2>1, <2>3, HasAlone
  <2>6. ASSUME NEW h \in Id PROVE Sits(s, k, a, i, h) <=> u.par = h \/ (u.par = 0 /\ Sits(q, k, a, i, h))
    <3>1. Sits(s, k, a, i, h) <=> Into(u, h) \/ (Into(u, 0) /\ Sits(q, k, a, i, h))
      BY <1>a, <2>1, <2>3, SitsAlone
    <3> QED
      BY <3>1, <2>1 DEF Into
  <2>7. ASSUME m[i].par = 0 PROVE ~TellsPar(s, i) /\ (HasNow(s, k, i) => k[i].par = 0)
    BY <2>1, <2>2, <2>4, <2>5, <2>7 DEF TreeAt
  <2>8. ASSUME NEW h \in Id, Sits(s, k, a, i, h) PROVE m[i].par = h
    <3>1. CASE u.par = h
      BY <3>1, <2>1, <1>3
    <3>2. CASE u.par = 0 /\ Sits(q, k, a, i, h)
      <4>1. m[i].par = h \/ "par" \in m[i].chg
        BY <3>2, <1>0, <1>5 DEF TreeAt
      <4>2. ASSUME m[i].par = 0 PROVE FALSE
        <5>1. ~TellsPar(q, i) /\ (HasNow(q, k, i) => k[i].par = 0)
          BY <4>2, <2>2 DEF TreeAt
        <5>2. ~SaysPar(q, i, h)
          BY <5>1, SaysTells
        <5> QED
          BY <5>1, <5>2, <3>2, <1>3 DEF Sits
      <4> QED
        BY <4>1, <4>2, <3>2, <2>1
    <3> QED
      BY <3>1, <3>2, <2>6, <2>8
  <2> QED
    BY <2>2, <2>7, <2>8 DEF TreeAt, r
<1>6. CASE i \notin d \cup removed
  <2>1. n[i] = m[i]
    BY <1>6
  <2>2. Void(r, i)
    BY <1>1, <1>6
  <2>3. TreeAt(i, m, removed, s, k, a)
    BY <1>a, <1>1, <2>2, TreeVoid
  <2> QED
    BY <2>1, <2>3, <1>2, <1>6 DEF TreeAt, r
<1> QED
  BY <1>4, <1>5, <1>6

\* What is there after some removes was there before.
LEMMA RemovesWeaken ==
    ASSUME NEW q \in Seq(FromServers), NEW z \in Seq(FromServers), \A n \in DOMAIN z : z[n].cmd # "UPDATE",
           NEW k, NEW a, NEW j, NEW h, Sits(q \o z, k, a, j, h)
    PROVE  Sits(q, k, a, j, h)
<1> DEFINE s == q \o z
<1>1. \A S, B : Ends(s, S, B) <=> Ends(z, S, B) \/ (Ends(q, S, B) /\ ~Holds(z, B))
  BY EndsConcat
<1>2. \A S \in SUBSET Updating(j) : \A B : ~Ends(z, S, B)
  BY DEF Ends, Updating
<1>3. WithPar(j) \in SUBSET Updating(j) /\ OfPar(j, h) \in SUBSET Updating(j)
  BY DEF WithPar, OfPar
<1> HIDE DEF s
<1>4. SaysPar(s, j, h) => SaysPar(q, j, h)
  BY <1>1, <1>2, <1>3 DEF SaysPar, Says
<1>5. ASSUME ~Cleared(s, j) PROVE ~Cleared(q, j) /\ (TellsPar(q, j) => TellsPar(s, j))
  <2>1. ~Ends(s, Removal(j), {})
    BY <1>5, HoldsEnds DEF Cleared
  <2>2. ~Ends(z, Removal(j), {}) /\ (Holds(z, {}) \/ ~Ends(q, Removal(j), {}))
    BY <2>1, <1>1
  <2>3. ~Holds(z, {})
    BY DEF Holds
  <2>4. ~Holds(z, Removal(j)) /\ ~Holds(q, Removal(j))
    BY <2>2, <2>3, HoldsEnds
  <2> QED
    BY <2>4, <1>1 DEF Cleared, TellsPar, Live
<1> QED
  BY <1>4, <1>5 DEF Sits, HasNow, s

\* update() sends a REMOVE only of a group that will be empty.
LEMMA FlushLeft ==
    ASSUME NEW m \in Params, NEW d \in SUBSET Id, \A i \in d : m[i] # None, removed \in SUBSET Id,
           NEW sp, NEW q \in Seq(FromServers), NEW k, NEW a, Tree(m, removed, q, k, a, sp)
    PROVE  Left(q \o FlushPackets(m, d), k, a, sp)
<1> DEFINE P == {REMOVE(i) : i \in removed}
           f == [i \in Id |-> IF i \in removed THEN <<REMOVE(i)>> ELSE <<>>]
           g == [i \in Id |-> IF i \in d THEN <<UPDATE(i, m[i], m[i].chg)>> ELSE <<>>]
           x == InOrder(f)
           y == InOrder(g)
<1>1. x \in Seq(P)
  <2>1. <<>> \in Seq(P) /\ \A i \in removed : <<REMOVE(i)>> \in Seq(P)
    OBVIOUS
  <2>2. \A i \in Id : f[i] \in Seq(P)
    BY <2>1
  <2>3. f \in [Id -> Seq(P)]
    BY <2>2
  <2> HIDE DEF f, P
  <2> QED
    BY <2>3, InOrderType
<1>2. y \in Seq(Updates)
  <2>1. ASSUME NEW i \in d PROVE <<UPDATE(i, m[i], m[i].chg)>> \in Seq(Updates)
    <3>1. m[i] \in Parameter /\ m[i].chg \in SUBSET Fields
      BY DEF Params, Parameter
    <3>2. UPDATE(i, m[i], m[i].chg) \in Updates
      BY <3>1, UpdateFields
    <3> QED
      BY <3>2
  <2>2. <<>> \in Seq(Updates)
    OBVIOUS
  <2>3. \A i \in Id : g[i] \in Seq(Updates)
    BY <2>1, <2>2
  <2>4. g \in [Id -> Seq(Updates)]
    BY <2>3
  <2> HIDE DEF g
  <2> QED
    BY <2>4, InOrderType
<1>3. FlushPackets(m, d) = x \o y
  BY DEF FlushPackets
<1> HIDE DEF x, y
<1>4. P \subseteq FromServers /\ Updates \subseteq FromServers
  BY DEF FromServers
<1>5. x \in Seq(FromServers) /\ y \in Seq(FromServers)
  <2>1. Len(x) \in Nat /\ x \in [1..Len(x) -> P] /\ Len(y) \in Nat /\ y \in [1..Len(y) -> Updates]
    BY <1>1, <1>2, LenProperties
  <2>2. x \in [1..Len(x) -> FromServers] /\ y \in [1..Len(y) -> FromServers]
    BY <2>1, <1>4
  <2> QED
    BY <2>1, <2>2
<1>6. \A n \in DOMAIN x : x[n].cmd = "REMOVE" /\ x[n].id \in removed
  <2>1. \A n \in DOMAIN x : x[n] \in P
    BY <1>1, ElementOfSeq, LenProperties
  <2> QED
    BY <2>1, RemoveFields
<1>7. \A n \in DOMAIN y : y[n].cmd # "REMOVE"
  <2>1. \A n \in DOMAIN y : y[n] \in Updates
    BY <1>2, ElementOfSeq, LenProperties
  <2> QED
    BY <2>1, PacketFields
<1> HIDE DEF P
<1>8. ASSUME NEW n \in DOMAIN x, NEW j \in Id \ sp PROVE ~Sits(q \o SubSeq(x, 1, n - 1), k, a, j, x[n].id)
  <2>1. /\ DOMAIN x = 1..Len(x) /\ Len(x) \in Nat
        /\ n \in Nat /\ n - 1 \in Nat /\ n - 1 <= Len(x) /\ 0 \in Nat /\ 0 + 1 = 1
    BY <1>5, LenProperties
  <2>2. /\ SubSeq(x, 0 + 1, n - 1) \in Seq(FromServers)
        /\ Len(SubSeq(x, 0 + 1, n - 1)) = IF 0 < n - 1 THEN (n - 1) - 0 ELSE 0
        /\ \A l \in 1..((n - 1) - 0) : SubSeq(x, 0 + 1, n - 1)[l] = x[0 + l]
    BY <2>1, <1>5, SliceType
  <2> DEFINE z == SubSeq(x, 1, n - 1)
  <2>3. z \in Seq(FromServers) /\ Len(z) = n - 1 /\ \A l \in 1..(n - 1) : z[l] = x[l]
    BY <2>1, <2>2
  <2> HIDE DEF z
  <2>4. DOMAIN z = 1..(n - 1)
    BY <2>3, LenProperties
  <2>5. \A l \in DOMAIN z : z[l].cmd # "UPDATE"
    BY <2>1, <2>3, <2>4, <1>6
  <2>6. ~Sits(q, k, a, j, x[n].id)
    BY <1>6 DEF Tree, TreeAt
  <2> QED
    BY <2>3, <2>5, <2>6, RemovesWeaken DEF z
<1>9. Left(q \o x, k, a, sp)
  BY <1>5, <1>8, LeftJoin DEF Tree
<1>10. q \o x \in Seq(FromServers) /\ q \o (x \o y) = (q \o x) \o y
  BY <1>5, ConcatProperties, ConcatAssociative
<1> DEFINE t == q \o x
<1>11. t \in Seq(FromServers) /\ Left(t, k, a, sp) /\ q \o FlushPackets(m, d) = t \o y
  BY <1>3, <1>9, <1>10
<1> HIDE DEF t
<1>12. Left(t \o y, k, a, sp)
  BY <1>5, <1>7, <1>11, LeftNoRemove
<1> QED
  BY <1>11, <1>12

\* update() keeps the tree of a client.
LEMMA TreeFlush ==
    ASSUME NEW m \in Params, NEW d \in SUBSET Id, \A i \in d : m[i] # None, removed \in SUBSET Id,
           NEW sp, ServerOK(m, d, removed, sp),
           NEW s, NEW q, Adds(s, q, FlushPackets(m, d)), NEW k, NEW a, Tree(m, removed, q, k, a, sp),
           NEW n, \A i \in Id : n[i] = IF i \in d THEN Sent(m[i]) ELSE m[i]
    PROVE  Tree(n, {}, s, k, a, sp)
<1>1. \A i \in Id \ sp : TreeAt(i, m, removed, q, k, a)
  BY DEF Tree
<1>2. ASSUME NEW i \in Id \ sp PROVE TreeAt(i, n, {}, s, k, a)
  BY <1>1, FlushTree
<1>3. Left(s, k, a, sp)
  BY FlushLeft DEF Adds
<1> QED
  BY <1>2, <1>3 DEF Tree

\* update() keeps the server's own.
LEMMA FlushServer ==
    ASSUME NEW m \in Params, NEW d, NEW R, NEW sp, ServerOK(m, d, R, sp),
           NEW n, \A i \in Id : n[i] = IF i \in d THEN Sent(m[i]) ELSE m[i], \A i \in d : m[i] # None
    PROVE  ServerOK(n, {}, {}, sp)
<1>1. ASSUME NEW i \in Id
      PROVE  /\ n[i] = None <=> m[i] = None
             /\ m[i] # None => /\ n[i].group = m[i].group /\ n[i].label = m[i].label /\ n[i].par = m[i].par
                               /\ n[i].val = m[i].val /\ n[i].chg = {}
  <2>1. m[i] # None => m[i] \in Parameter
    BY DEF Params
  <2>2. m[i] # None /\ i \notin d => m[i].chg = {}
    BY DEF ServerOK, ServerParam
  <2>3. m[i] # None => Sent(m[i]) # None
    BY <2>1, SentFields, Values
  <2> QED
    BY <2>1, <2>2, <2>3, SentFields
<1>2. ASSUME NEW i \in Id PROVE ServerParam(i, n, {}, sp)
  <2>1. CASE n[i] = None
    BY <2>1 DEF ServerParam
  <2>2. CASE n[i] # None
    <3>1. /\ m[i] # None /\ m[i].label /\ m[i].par \in Id \cup {0}
          /\ m[i].par # 0 => IsGroup(m, m[i].par)
      BY <2>2, <1>1 DEF ServerOK, ServerParam, Params, Parameter
    <3>2. n[i].label /\ n[i].par = m[i].par /\ n[i].chg = {}
      BY <2>2, <1>1, <3>1
    <3>3. n[i].par # 0 => IsGroup(n, n[i].par) /\ "label" \notin n[n[i].par].chg
      BY <3>1, <3>2, <1>1 DEF IsGroup
    <3> QED
      BY <3>2, <3>3 DEF ServerParam
  <2> QED
    BY <2>1, <2>2
<1> QED
  BY <1>2 DEF ServerOK

\* With more ids excepted less is said ...
LEMMA ServerMore ==
    ASSUME NEW m, NEW d, NEW R, NEW sp, NEW tp, ServerOK(m, d, R, sp), sp \subseteq tp
    PROVE  ServerOK(m, d, R, tp)
BY DEF ServerOK, ServerParam

\* ... of the client, too.
LEMMA TreeMore ==
    ASSUME NEW m, NEW R, NEW q, NEW k, NEW a, NEW sp, NEW tp, Tree(m, R, q, k, a, sp), sp \subseteq tp
    PROVE  Tree(m, R, q, k, a, tp)
BY DEF Tree, Left

\* A change at the server that is pending keeps the tree.
LEMMA TreeChange ==
    ASSUME NEW m, NEW n, NEW R, NEW q, NEW k, NEW a, NEW sp, Tree(m, R, q, k, a, sp),
           \A i \in Id \ sp :
             /\ m[i] = None <=> n[i] = None
             /\ m[i] # None => n[i].par = m[i].par \/ (n[i].par # 0 /\ "par" \in n[i].chg)
             /\ m[i] # None /\ "par" \in m[i].chg => "par" \in n[i].chg
    PROVE  Tree(n, R, q, k, a, sp)
<1>1. ASSUME NEW i \in Id \ sp PROVE TreeAt(i, n, R, q, k, a)
  <2>1. TreeAt(i, m, R, q, k, a)
    BY DEF Tree
  <2> QED
    BY <2>1, TreeSame
<1> QED
  BY <1>1 DEF Tree

\* A packet that is forwarded and is not out of date keeps it.
LEMMA RawTree ==
    ASSUME NEW p \in Updates, NEW s, NEW q, Adds(s, q, <<p>>), NEW k, NEW a,
           NEW m, NEW R, TreeAt(p.id, m, R, q, k, a), m[p.id] # None, p.id \notin R,
           p.par # 0 => m[p.id].par = p.par /\ p.par \notin R
    PROVE  TreeAt(p.id, m, R, s, k, a)
<1> DEFINE i == p.id
           r == <<p>>
<1>1. p \in FromServers /\ p.cmd = "UPDATE" /\ i \in Id
  BY PacketFields DEF FromServers
<1>2. p.id = i /\ Alone(r, i, p) /\ Adds(s, q, r)
  BY <1>1, OneAlone
<1>3. TreeAt(i, m, R, q, k, a) /\ m[i] # None /\ i \notin R /\ (p.par # 0 => m[i].par = p.par /\ p.par \notin R)
  OBVIOUS
<1> HIDE DEF i, r
<1>4. TellsPar(s, i) <=> p.par # 0 \/ TellsPar(q, i)
  BY <1>1, <1>2, SaidAlone
<1>5. HasNow(s, k, i) => HasNow(q, k, i)
  BY <1>1, <1>2, HasAlone
<1>6. ASSUME NEW h \in Id PROVE Sits(s, k, a, i, h) <=> p.par = h \/ (p.par = 0 /\ Sits(q, k, a, i, h))
  <2>1. Sits(s, k, a, i, h) <=> Into(p, h) \/ (Into(p, 0) /\ Sits(q, k, a, i, h))
    BY <1>1, <1>2, SitsAlone
  <2> QED
    BY <1>1, <2>1 DEF Into
<1>7. m[i].par = 0 => ~TellsPar(s, i) /\ (HasNow(s, k, i) => k[i].par = 0)
  BY <1>3, <1>4, <1>5 DEF TreeAt
<1>8. ASSUME NEW h \in Id, Sits(s, k, a, i, h) PROVE (m[i].par = h \/ "par" \in m[i].chg) /\ h \notin R
  <2>1. CASE p.par = h
    <3>1. h # 0
      BY DEF Id
    <3> QED
      BY <2>1, <3>1, <1>3
  <2>2. CASE p.par = 0 /\ Sits(q, k, a, i, h)
    BY <2>2, <1>3 DEF TreeAt
  <2> QED
    BY <1>6, <1>8, <2>1, <2>2
<1> QED
  BY <1>3, <1>7, <1>8 DEF TreeAt, i

\* The invariant of the tree in parts, now and next.
LEMMA TreeInvParts ==
    /\ TreeInv <=> /\ ServerOK(params, dirty, removed, spoilt)
                   /\ \A c \in on : Tree(params, removed, toClient[c], cache[c], astray[c], spoilt)
    /\ TreeInv' <=> /\ ServerOK(params', dirty', removed', spoilt')
                    /\ \A c \in on' : Tree(params', removed', toClient'[c], cache'[c], astray'[c], spoilt')
BY DEF TreeInv, ClientTree

\* The root has no id.
LEMMA ZeroNoId == 0 \notin Id
BY DEF Id

\* A parameter nobody knows sits nowhere.
LEMMA SitsNowhere ==
    ASSUME NEW q, NEW k, NEW a, NEW i, NEW h, ~Told(q, i), ~HasNow(q, k, i)
    PROVE  ~Sits(q, k, a, i, h)
<1>1. ~SaysPar(q, i, h)
  BY SaysTells
<1> QED
  BY <1>1 DEF Sits

\* A client without a cache has nothing in a group.
LEMMA NothingSits ==
    ASSUME NEW k, NEW a, NEW m, NEW R, NEW sp, \A i \in Id : k[i] = None
    PROVE  Tree(m, R, <<>>, k, a, sp)
<1>1. ASSUME NEW i \in Id PROVE TreeAt(i, m, R, <<>>, k, a)
  <2>1. ~Told(<<>>, i) /\ ~TellsPar(<<>>, i) /\ ~HasNow(<<>>, k, i)
    BY SaidNothing DEF HasNow
  <2>2. \A h \in Id : ~Sits(<<>>, k, a, i, h)
    BY <2>1, SitsNowhere
  <2> QED
    BY <2>1, <2>2 DEF TreeAt
<1>2. Left(<<>>, k, a, sp)
  BY DEF Left
<1> QED
  BY <1>1, <1>2 DEF Tree

-----------------------------------------------------------------------------
(* The application of the server *)

\* Between two calls that create, move or remove all but values is sent.
LEMMA AllKnown ==
    ASSUME ServerTyped, ServerOK(params, dirty, removed, spoilt), StepByStep, MayRestructure
    PROVE  /\ removed = {}
           /\ \A i \in Id : params[i] # None => "label" \notin params[i].chg /\ "par" \notin params[i].chg
<1>1. removed = {} /\ \A i \in dirty : params[i].chg \subseteq {"val"}
  BY DEF MayRestructure
<1>2. \A i \in Id : params[i] # None /\ params[i].chg # {} => i \in dirty
  BY DEF ServerOK, ServerParam
<1> QED
  BY <1>1, <1>2

\* Creating a parameter keeps the tree.
LEMMA CreateTree ==
    ASSUME TypeOK, TreeInv, StepByStep,
           NEW p \in Id \cup {0}, NEW isGroup \in BOOLEAN, NEW v \in Vals, Create(p, isGroup, v)
    PROVE  TreeInv'
<1>1. ServerTyped /\ ServerOK(params, dirty, removed, spoilt)
  BY TypeParts, TreeInvParts
<1>2. PICK i \in Id :
        /\ params[i] = None /\ i \notin removed
        /\ params' = [params EXCEPT ![i] =
                [group |-> isGroup, label |-> TRUE, par |-> p, val |-> v,
                 chg |-> {"label", "par"} \cup IF v = Default THEN {} ELSE {"val"}]]
        /\ dirty' = dirty \cup {i}
  BY DEF Create
<1>3. /\ p = 0 \/ IsGroup(params, p)
      /\ removed' = removed /\ spoilt' = spoilt /\ on' = on
      /\ cache' = cache /\ astray' = astray /\ toClient' = toClient
  BY DEF Create, client, net
<1> DEFINE x == [group |-> isGroup, label |-> TRUE, par |-> p, val |-> v,
                 chg |-> {"label", "par"} \cup IF v = Default THEN {} ELSE {"val"}]
<1>4. x \in Parameter
  BY DEF Parameter, Fields
<1>5. /\ x.group = isGroup /\ x.label /\ x.par = p /\ x.val = v
      /\ "label" \in x.chg /\ "par" \in x.chg /\ ("val" \notin x.chg => v = Default)
  OBVIOUS
<1>6. x # None /\ params'[i] = x /\ \A j \in Id : j # i => params'[j] = params[j]
  BY <1>1, <1>2, <1>4, Values DEF ServerTyped, Params
<1>7. \A j \in Id : params[j] # None => "label" \notin params[j].chg /\ "par" \notin params[j].chg
  BY <1>1, AllKnown DEF Create
<1> HIDE DEF x
<1>8. ASSUME NEW j \in Id PROVE ServerParam(j, params', dirty', spoilt')
  <2>1. CASE j = i
    <3>1. CASE p = 0
      BY <3>1, <2>1, <1>2, <1>5, <1>6 DEF ServerParam
    <3>2. CASE p # 0
      <4>1. p \in Id /\ params[p] # None /\ params[p].group /\ p # i
        BY <3>2, <1>2, <1>3 DEF IsGroup
      <4>2. params'[p] = params[p] /\ "label" \notin params[p].chg
        BY <4>1, <1>6, <1>7
      <4> QED
        BY <3>2, <4>1, <4>2, <2>1, <1>2, <1>5, <1>6 DEF ServerParam, IsGroup
    <3> QED
      BY <3>1, <3>2
  <2>2. CASE j # i
    <3>1. ServerParam(j, params, dirty, spoilt) /\ params'[j] = params[j]
      BY <2>2, <1>1, <1>6 DEF ServerOK
    <3>2. ASSUME params[j] # None, params[j].par # 0
          PROVE  IsGroup(params, params[j].par) /\ params[j].par # i /\ params[j].par \in Id
      BY <3>1, <3>2, <1>1, <1>2 DEF ServerParam, IsGroup, ServerTyped, Params, Parameter
    <3>3. ASSUME params[j] # None, params[j].par # 0
          PROVE  IsGroup(params', params[j].par) /\ params'[params[j].par] = params[params[j].par]
      BY <3>2, <3>3, <1>6 DEF IsGroup
    <3> QED
      BY <3>1, <3>3, <1>2, <1>3 DEF ServerParam
  <2> QED
    BY <2>1, <2>2
<1>9. ServerOK(params', dirty', removed', spoilt')
  <2>1. \A j \in removed : params'[j] = None
    BY <1>1, <1>2, <1>6 DEF ServerOK, ServerTyped
  <2> QED
    BY <1>3, <1>8, <2>1 DEF ServerOK
<1>10. ASSUME NEW c \in on PROVE Tree(params', removed', toClient[c], cache[c], astray[c], spoilt)
  <2>1. Tree(params, removed, toClient[c], cache[c], astray[c], spoilt)
    BY <1>10, TreeInvParts
  <2> DEFINE q == toClient[c]
             k == cache[c]
             a == astray[c]
  <2> HIDE DEF q, k, a
  <2>2. ASSUME NEW j \in Id \ spoilt PROVE TreeAt(j, params', removed, q, k, a)
    <3>1. TreeAt(j, params, removed, q, k, a)
      BY <2>1 DEF Tree, q, k, a
    <3>2. CASE j = i
      <4>1. ~Told(q, i) /\ ~HasNow(q, k, i)
        BY <3>1, <3>2, <1>2 DEF TreeAt
      <4>2. \A h \in Id : ~Sits(q, k, a, i, h)
        BY <4>1, SitsNowhere
      <4>3. ~TellsPar(q, i)
        BY <4>1, SaysTells
      <4> QED
        BY <3>2, <4>1, <4>2, <4>3, <1>6 DEF TreeAt
    <3>3. CASE j # i
      BY <3>1, <3>3, <1>6 DEF TreeAt
    <3> QED
      BY <3>2, <3>3
  <2> QED
    BY <1>3, <2>1, <2>2 DEF Tree, q, k, a
<1> QED
  BY <1>3, <1>9, <1>10, TreeInvParts

\* What was only given another value or another group
LEMMA ChangedTree ==
    ASSUME ServerTyped, TreeInv, NEW i \in Id, NEW x \in Parameter, params[i] # None,
           params' = [params EXCEPT ![i] = x], dirty' = dirty \cup {i},
           x.group = params[i].group, x.label, params[i].chg \subseteq x.chg,
           "label" \in x.chg <=> "label" \in params[i].chg,
           "val" \in x.chg \/ x.val = params[i].val,
           x.par = params[i].par \/ (/\ "par" \in x.chg /\ x.par # 0
                                     /\ IsGroup(params, x.par) /\ "label" \notin params[x.par].chg),
           UNCHANGED <<removed, on, client, net, spoilt>>
    PROVE  TreeInv'
<1>1. removed' = removed /\ spoilt' = spoilt /\ on' = on /\ cache' = cache /\ astray' = astray /\ toClient' = toClient
  BY DEF client, net
<1>2. x # None /\ params'[i] = x /\ \A j \in Id : j # i => params'[j] = params[j]
  BY Values DEF ServerTyped, Params
<1>3. ServerOK(params, dirty, removed, spoilt)
  BY TreeInvParts
<1>4. \A j \in Id : /\ params'[j] = None <=> params[j] = None
                    /\ params[j] # None => params'[j].group = params[j].group
                    /\ params[j] # None => ("label" \in params'[j].chg <=> "label" \in params[j].chg)
  BY <1>2
<1>5. ASSUME NEW j \in Id PROVE ServerParam(j, params', dirty', spoilt')
  <2>1. ServerParam(j, params, dirty, spoilt)
    BY <1>3 DEF ServerOK
  <2>2. params[j] # None => params[j].par \in Id \cup {0}
    BY DEF ServerTyped, Params, Parameter
  <2>3. ASSUME NEW g \in Id, IsGroup(params, g)
        PROVE  IsGroup(params', g) /\ ("label" \notin params[g].chg => "label" \notin params'[g].chg)
    BY <2>3, <1>4 DEF IsGroup
  <2>4. CASE j = i
    <3>1. x.par \in Id \cup {0}
      BY DEF Parameter
    <3>2. x.par # 0 => IsGroup(params, x.par) /\ (j \notin spoilt => "label" \notin params[x.par].chg)
      BY <2>1, <2>4 DEF ServerParam
    <3>3. x.par # 0 => IsGroup(params', x.par) /\ (j \notin spoilt => "label" \notin params'[x.par].chg)
      BY <2>3, <3>1, <3>2
    <3>4. ("label" \in x.chg => "par" \in x.chg) /\ ("label" \in x.chg /\ "val" \notin x.chg => x.val = Default)
      BY <2>1, <2>4 DEF ServerParam
    <3> QED
      BY <2>4, <3>3, <3>4, <1>1, <1>2 DEF ServerParam
  <2>5. CASE j # i
    <3>1. params'[j] = params[j]
      BY <2>5, <1>2
    <3>2. ASSUME params[j] # None, params[j].par # 0
          PROVE  IsGroup(params', params[j].par) /\ (j \notin spoilt => "label" \notin params'[params[j].par].chg)
      BY <3>2, <2>1, <2>2, <2>3 DEF ServerParam
    <3> QED
      BY <2>1, <3>1, <3>2, <1>1 DEF ServerParam
  <2> QED
    BY <2>4, <2>5
<1>6. ServerOK(params', dirty', removed', spoilt')
  BY <1>1, <1>3, <1>4, <1>5 DEF ServerOK, ServerTyped
<1>7. ASSUME NEW c \in on PROVE Tree(params', removed', toClient'[c], cache'[c], astray'[c], spoilt')
  <2>1. Tree(params, removed, toClient[c], cache[c], astray[c], spoilt)
    BY <1>7, TreeInvParts
  <2>2. \A j \in Id :
             /\ params[j] = None <=> params'[j] = None
             /\ params[j] # None => params'[j].par = params[j].par \/ (params'[j].par # 0 /\ "par" \in params'[j].chg)
             /\ params[j] # None /\ "par" \in params[j].chg => "par" \in params'[j].chg
    BY <1>2
  <2>3. Tree(params', removed, toClient[c], cache[c], astray[c], spoilt)
    BY <2>1, <2>2, TreeChange
  <2> QED
    BY <2>3, <1>1
<1> QED
  BY <1>1, <1>6, <1>7, TreeInvParts

\* Setting a value keeps it.
LEMMA SetValueTree ==
    ASSUME TypeOK, TreeInv, NEW i \in Id, NEW v \in Vals, SetValue(i, v)
    PROVE  TreeInv'
<1>1. ServerTyped /\ ServerOK(params, dirty, removed, spoilt)
  BY TypeParts, TreeInvParts
<1>2. /\ params[i] # None
      /\ params' = [params EXCEPT ![i].val = v, ![i].chg = @ \cup {"val"}]
      /\ dirty' = dirty \cup {i} /\ UNCHANGED <<removed, on, client, net, spoilt>>
  BY DEF SetValue
<1>3. params \in Params /\ params[i] \in Parameter
  BY <1>1, <1>2 DEF ServerTyped, Params
<1> DEFINE r == params[i]
           x == [r EXCEPT !.val = v, !.chg = @ \cup {"val"}]
<1>4. x \in Parameter
  BY <1>3 DEF Parameter, Fields
<1>5. x.group = r.group /\ x.label = r.label /\ x.par = r.par /\ x.chg = r.chg \cup {"val"}
  BY <1>3 DEF Parameter
<1>6. params' = [params EXCEPT ![i] = x]
  BY <1>2, <1>3 DEF Params
<1>7. r.label
  BY <1>1, <1>2 DEF ServerOK, ServerParam
<1> HIDE DEF x
<1>8. r.chg \subseteq x.chg /\ ("label" \in x.chg <=> "label" \in r.chg) /\ "val" \in x.chg
  BY <1>5
<1> QED
  BY <1>1, <1>2, <1>4, <1>5, <1>6, <1>7, <1>8, ChangedTree

\* addChild keeps it.
LEMMA MoveTree ==
    ASSUME TypeOK, TreeInv, StepByStep, NEW i \in Id, NEW g \in Id, Move(i, g)
    PROVE  TreeInv'
<1>1. ServerTyped /\ ServerOK(params, dirty, removed, spoilt)
  BY TypeParts, TreeInvParts
<1>2. /\ params[i] # None /\ IsGroup(params, g)
      /\ params' = [params EXCEPT ![i].par = g, ![i].chg = @ \cup {"par"}]
      /\ dirty' = dirty \cup {i} /\ UNCHANGED <<removed, on, client, net, spoilt>>
  BY DEF Move
<1>3. params \in Params /\ params[i] \in Parameter
  BY <1>1, <1>2 DEF ServerTyped, Params
<1> DEFINE r == params[i]
           x == [r EXCEPT !.par = g, !.chg = @ \cup {"par"}]
<1>4. x \in Parameter
  BY <1>3 DEF Parameter, Fields
<1>5. x.group = r.group /\ x.label = r.label /\ x.par = g /\ x.val = r.val /\ x.chg = r.chg \cup {"par"}
  BY <1>3 DEF Parameter
<1>6. params' = [params EXCEPT ![i] = x]
  BY <1>2, <1>3 DEF Params
<1>7. r.label
  BY <1>1, <1>2 DEF ServerOK, ServerParam
<1>8. "label" \notin params[g].chg
  BY <1>1, <1>2, AllKnown DEF Move, IsGroup
<1> HIDE DEF x
<1>9. r.chg \subseteq x.chg /\ ("label" \in x.chg <=> "label" \in r.chg) /\ "par" \in x.chg /\ x.par # 0
  BY <1>5, ZeroNoId
<1> QED
  BY <1>1, <1>2, <1>4, <1>5, <1>6, <1>7, <1>8, <1>9, ChangedTree

\* removeParameter of an empty group keeps it.
LEMMA RemoveParameterTree ==
    ASSUME TypeOK, TreeInv, StepByStep, NEW i \in Id, RemoveParameter(i)
    PROVE  TreeInv'
<1>1. ServerTyped /\ ServerOK(params, dirty, removed, spoilt) /\ params \in Params
  BY TypeParts, TreeInvParts DEF ServerTyped
<1>2. /\ params[i] # None
      /\ \A j \in Id : params[j] # None => params[j].par # i
      /\ params' = [params EXCEPT ![i] = None]
      /\ dirty' = dirty \ {i} /\ removed' = removed \cup {i}
      /\ UNCHANGED <<on, client, net, spoilt>>
  BY DEF RemoveParameter
<1>3. spoilt' = spoilt /\ on' = on /\ cache' = cache /\ astray' = astray /\ toClient' = toClient
  BY <1>2 DEF client, net
<1>4. params'[i] = None /\ \A j \in Id : j # i => params'[j] = params[j]
  BY <1>1, <1>2 DEF Params
<1>5. removed = {} /\ \A j \in Id : params[j] # None => "par" \notin params[j].chg
  BY <1>1, AllKnown DEF RemoveParameter
<1>6. ASSUME NEW j \in Id PROVE ServerParam(j, params', dirty', spoilt')
  <2>1. CASE j = i
    BY <2>1, <1>4 DEF ServerParam
  <2>2. CASE j # i
    <3>1. ServerParam(j, params, dirty, spoilt) /\ params'[j] = params[j] /\ (j \in dirty => j \in dirty')
      BY <2>2, <1>1, <1>2, <1>4 DEF ServerOK
    <3>2. ASSUME params[j] # None, params[j].par # 0
          PROVE  IsGroup(params', params[j].par) /\ params'[params[j].par] = params[params[j].par]
      <4>1. params[j].par \in Id /\ params[j].par # i
        BY <3>2, <1>1, <1>2 DEF Params, Parameter
      <4>2. IsGroup(params, params[j].par)
        BY <3>1, <3>2 DEF ServerParam
      <4> QED
        BY <4>1, <4>2, <1>4 DEF IsGroup
    <3> QED
      BY <3>1, <3>2, <1>3 DEF ServerParam
  <2> QED
    BY <2>1, <2>2
<1>7. ServerOK(params', dirty', removed', spoilt')
  BY <1>2, <1>4, <1>5, <1>6 DEF ServerOK
<1>8. ASSUME NEW c \in on PROVE Tree(params', removed', toClient[c], cache[c], astray[c], spoilt)
  <2>1. Tree(params, removed, toClient[c], cache[c], astray[c], spoilt)
    BY <1>8, TreeInvParts
  <2> DEFINE q == toClient[c]
             k == cache[c]
             a == astray[c]
  <2> HIDE DEF q, k, a
  <2>2. ASSUME NEW j \in Id \ spoilt PROVE TreeAt(j, params', removed', q, k, a)
    <3>1. TreeAt(j, params, removed, q, k, a)
      BY <2>1 DEF Tree, q, k, a
    <3>2. ASSUME NEW h \in Id, Sits(q, k, a, j, h)
          PROVE  /\ j \in removed' \/ (params'[j] # None /\ (params'[j].par = h \/ "par" \in params'[j].chg))
                 /\ h \notin removed'
      <4>1. params[j] # None /\ params[j].par = h
        BY <3>1, <3>2, <1>5 DEF TreeAt
      <4>2. h # i /\ h \notin removed'
        BY <4>1, <1>2, <1>5
      <4> QED
        BY <4>1, <4>2, <1>2, <1>4
    <3> QED
      BY <3>1, <3>2, <1>2, <1>4, <1>5 DEF TreeAt
  <2> QED
    BY <2>1, <2>2 DEF Tree, q, k, a
<1> QED
  BY <1>3, <1>7, <1>8, TreeInvParts

\* What a client that is served finds in its queue
LEMMA Delivered ==
    ASSUME TypeOK, NEW out, NEW c \in on, Deliver(out), out[c] \in Seq(FromServers)
    PROVE  Adds(toClient'[c], toClient[c], out[c])
<1>1. c \in Clients /\ toClient[c] \in Seq(FromServers)
  BY TypeParts DEF ServerTyped, ClientTyped
<1> QED
  BY <1>1 DEF Deliver, Adds

\* update() keeps it.
LEMMA UpdateTree == ASSUME TypeOK, TreeInv, Update PROVE TreeInv'
<1>1. ServerTyped /\ ServerOK(params, dirty, removed, spoilt)
  BY TypeParts, TreeInvParts
<1>2. /\ params \in Params /\ dirty \in SUBSET Id /\ removed \in SUBSET Id /\ \A i \in dirty : params[i] # None
      /\ on \subseteq Clients
  BY <1>1 DEF ServerTyped
<1> DEFINE out == [c \in Clients |-> FlushPackets(params, dirty)]
<1>3. /\ Deliver(out) /\ params' = [i \in Id |-> IF i \in dirty THEN Sent(params[i]) ELSE params[i]]
      /\ dirty' = {} /\ removed' = {} /\ spoilt' = spoilt /\ on' = on /\ cache' = cache /\ astray' = astray
  BY DEF Update, client
<1>4. FlushPackets(params, dirty) \in Seq(FromServers) /\ \A c \in Clients : out[c] = FlushPackets(params, dirty)
  BY <1>2, FlushType
<1> HIDE DEF out
<1>5. \A i \in Id : params'[i] = IF i \in dirty THEN Sent(params[i]) ELSE params[i]
  BY <1>3
<1>6. ServerOK(params', {}, {}, spoilt)
  BY <1>1, <1>2, <1>5, FlushServer
<1>7. ASSUME NEW c \in on PROVE Tree(params', {}, toClient'[c], cache[c], astray[c], spoilt)
  <2>1. Tree(params, removed, toClient[c], cache[c], astray[c], spoilt)
    BY <1>7, TreeInvParts
  <2>2. Adds(toClient'[c], toClient[c], out[c])
    BY <1>2, <1>3, <1>4, Delivered
  <2>3. Adds(toClient'[c], toClient[c], FlushPackets(params, dirty))
    BY <2>2, <1>2, <1>4
  <2> QED
    BY <2>1, <2>3, <1>1, <1>2, <1>5, TreeFlush
<1> QED
  BY <1>3, <1>6, <1>7, TreeInvParts

\* Connecting keeps it.
LEMMA ConnectTree == ASSUME TypeOK, TreeInv, NEW c \in Clients, Connect(c) PROVE TreeInv'
<1>1. /\ c \notin on /\ on' = on \cup {c}
      /\ UNCHANGED <<params, dirty, removed, spoilt, cache, astray, toClient>>
  BY DEF Connect, server, client
<1>2. toClient[c] = <<>> /\ \A i \in Id : cache[c][i] = None
  BY <1>1, TypeParts DEF ClientTyped
<1>3. Tree(params, removed, toClient[c], cache[c], astray[c], spoilt)
  BY <1>2, NothingSits
<1> QED
  BY <1>1, <1>3, TreeInvParts

\* Disconnecting keeps it.
LEMMA DisconnectTree == ASSUME TypeOK, TreeInv, NEW c \in Clients, Disconnect(c) PROVE TreeInv'
<1>1. /\ on' = on \ {c} /\ UNCHANGED <<params, dirty, removed, spoilt>>
      /\ toClient' = [toClient EXCEPT ![c] = <<>>]
      /\ cache' = [cache EXCEPT ![c] = [i \in Id |-> None]] /\ astray' = [astray EXCEPT ![c] = {}]
  BY DEF Disconnect, server, Forget
<1>2. ClientsMapped /\ on \subseteq Clients
  BY TypeParts DEF ServerTyped
<1>3. ASSUME NEW d \in on'
      PROVE  d \in on /\ toClient'[d] = toClient[d] /\ cache'[d] = cache[d] /\ astray'[d] = astray[d]
  BY <1>1, <1>2, <1>3 DEF ClientsMapped
<1> QED
  BY <1>1, <1>3, TreeInvParts

-----------------------------------------------------------------------------
(* The handler of the server *)

\* _init removes nothing.
LEMMA InitNoRemove ==
    ASSUME NEW n \in DOMAIN InitPackets
    PROVE  InitPackets[n].cmd # "REMOVE"
<1>1. InitPackets[n] \in {Shown(i) : i \in Present}
  BY InitPacketsShow, ElementOfSeq, LenProperties
<1> QED
  BY <1>1 DEF Shown, UPDATE, Packet

\* _init keeps the tree.
LEMMA ServeInitializeTree ==
    ASSUME TypeOK, TreeInv, NEW c \in Clients, ServeInitialize(c)
    PROVE  TreeInv'
<1>1. ServerTyped /\ ServerOK(params, dirty, removed, spoilt) /\ params \in Params
  BY TypeParts, TreeInvParts DEF ServerTyped
<1> DEFINE out == [d \in Clients |-> IF d = c THEN InitPackets ELSE <<>>]
           short == {i \in Id : params[i] # None /\ Short(i)}
<1>2. /\ Deliver(out)
      /\ params' = [i \in Id |-> IF i \in short THEN Sent(params[i]) ELSE params[i]]
      /\ spoilt \subseteq spoilt' /\ short \subseteq spoilt'
      /\ UNCHANGED <<dirty, removed, on, cache, astray>>
  BY DEF ServeInitialize
<1>3. InitPackets \in Seq(FromServers)
  BY <1>1, InitType
<1>4. \A d \in Clients : out[d] = IF d = c THEN InitPackets ELSE <<>>
  OBVIOUS
<1>5. \A i \in short : params[i] # None
  OBVIOUS
<1> HIDE DEF out, short
<1>6. ASSUME NEW i \in Id
      PROVE  /\ params'[i] = None <=> params[i] = None
             /\ i \notin short => params'[i] = params[i]
             /\ i \in short => params'[i].chg = {}
             /\ params[i] # None => /\ params'[i].group = params[i].group /\ params'[i].label = params[i].label
                                    /\ params'[i].par = params[i].par /\ params'[i].val = params[i].val
  <2>1. params[i] # None => params[i] \in Parameter
    BY <1>1 DEF Params
  <2> QED
    BY <2>1, <1>2, <1>5, SentFields, Values
<1>7. ASSUME NEW j \in Id PROVE ServerParam(j, params', dirty', spoilt')
  <2>1. ServerParam(j, params, dirty, spoilt) /\ (params[j] # None => params[j].par \in Id \cup {0})
    BY <1>1 DEF ServerOK, Params, Parameter
  <2>2. ASSUME NEW g \in Id, IsGroup(params, g)
        PROVE  IsGroup(params', g) /\ ("label" \notin params[g].chg => "label" \notin params'[g].chg)
    BY <2>2, <1>6 DEF IsGroup
  <2>3. ASSUME params[j] # None, params[j].par # 0
        PROVE  IsGroup(params', params[j].par) /\ (j \notin spoilt => "label" \notin params'[params[j].par].chg)
    BY <2>1, <2>2, <2>3 DEF ServerParam
  <2> QED
    BY <2>1, <2>3, <1>2, <1>6 DEF ServerParam
<1>8. ServerOK(params', dirty', removed', spoilt')
  BY <1>1, <1>2, <1>6, <1>7 DEF ServerOK, ServerTyped
<1>9. ASSUME NEW d \in on PROVE Tree(params', removed, toClient'[d], cache[d], astray[d], spoilt')
  <2>1. Tree(params, removed, toClient[d], cache[d], astray[d], spoilt) /\ d \in Clients
    BY <1>1, <1>9, TreeInvParts DEF ServerTyped
  <2> DEFINE q == toClient[d]
             s == toClient'[d]
             k == cache[d]
             a == astray[d]
  <2>2. q \in Seq(FromServers)
    BY <2>1, TypeParts DEF ClientTyped
  <2>3. out[d] \in Seq(FromServers)
    <3>1. <<>> \in Seq(FromServers)
      OBVIOUS
    <3> QED
      BY <2>1, <3>1, <1>3, <1>4
  <2>4. Adds(s, q, out[d])
    BY <1>2, <2>3, Delivered
  <2> HIDE DEF q, s, k, a
  <2>5. Left(s, k, a, spoilt)
    <3>1. \A n \in DOMAIN out[d] : out[d][n].cmd # "REMOVE"
      BY <2>1, <1>4, InitNoRemove
    <3>2. Left(q, k, a, spoilt)
      BY <2>1 DEF Tree, q, k, a
    <3> DEFINE r == out[d]
    <3>3. s = q \o r /\ r \in Seq(FromServers)
      BY <2>3, <2>4 DEF Adds
    <3> HIDE DEF r
    <3>4. \A n \in DOMAIN r : r[n].cmd # "REMOVE"
      BY <3>1 DEF r
    <3> QED
      BY <2>2, <3>2, <3>3, <3>4, LeftNoRemove DEF q
  <2>6. ASSUME NEW i \in Id \ spoilt' PROVE TreeAt(i, params', removed, s, k, a)
    <3>1. params'[i] = params[i] /\ i \notin short /\ i \in Id \ spoilt
      BY <1>2, <1>6
    <3>2. TreeAt(i, params', removed, q, k, a)
      <4>1. TreeAt(i, params, removed, q, k, a)
        BY <2>1, <3>1 DEF Tree, q, k, a
      <4> QED
        BY <3>1, <4>1 DEF TreeAt
    <3>3. CASE d # c
      <4>1. Adds(s, q, <<>>)
        BY <3>3, <2>1, <2>4, <1>4
      <4> QED
        BY <3>2, <4>1, NoneVoid, TreeVoid
    <3>4. CASE d = c /\ ~Reached(i)
      <4>1. Adds(s, q, InitPackets)
        BY <3>4, <2>1, <2>4, <1>4
      <4>2. Void(InitPackets, i)
        BY <3>4, <1>1, InitSays
      <4> QED
        BY <3>2, <4>1, <4>2, TreeVoid
    <3>5. CASE d = c /\ Reached(i)
      <4> DEFINE u == Shown(i)
      <4>1. Adds(s, q, InitPackets)
        BY <3>5, <2>1, <2>4, <1>4
      <4>2. u \in FromServers /\ u.id = i /\ Alone(InitPackets, i, u)
        BY <3>5, <1>1, InitSays
      <4>3. params[i] # None /\ params[i] \in Parameter /\ ~Short(i)
        BY <3>1, <3>5, <1>1 DEF Reached, Present, short, Params
      <4>4. u.cmd = "UPDATE" /\ u.par = params[i].par
        <5>1. u = UPDATE(i, params[i], Fields)
          BY <4>3 DEF Shown
        <5> QED
          BY <5>1, <4>3, UpdateFields DEF Fields
      <4> HIDE DEF u
      <4>5. TellsPar(s, i) <=> u.par # 0 \/ TellsPar(q, i)
        BY <4>1, <4>2, <4>4, SaidAlone
      <4>6. HasNow(s, k, i) => HasNow(q, k, i)
        BY <4>1, <4>2, HasAlone
      <4>7. ASSUME NEW h \in Id PROVE Sits(s, k, a, i, h) <=> u.par = h \/ (u.par = 0 /\ Sits(q, k, a, i, h))
        <5>1. Sits(s, k, a, i, h) <=> Into(u, h) \/ (Into(u, 0) /\ Sits(q, k, a, i, h))
          BY <4>1, <4>2, SitsAlone
        <5> QED
          BY <4>4, <5>1 DEF Into
      <4>8. \A h \in Id : params[i].par = h => h \notin removed
        BY <1>1, <4>3, ZeroNoId DEF ServerOK, ServerParam, IsGroup
      <4> QED
        BY <3>1, <3>2, <4>3, <4>4, <4>5, <4>6, <4>7, <4>8 DEF TreeAt
    <3> QED
      BY <3>3, <3>4, <3>5
  <2>7. Left(s, k, a, spoilt')
    BY <1>2, <2>5 DEF Left
  <2> QED
    BY <2>6, <2>7 DEF Tree, q, s, k, a
<1> QED
  BY <1>2, <1>8, <1>9, TreeInvParts

\* What Parameter::update leaves of the tree
LEMMA AssignServer ==
    ASSUME ServerTyped, ServerOK(params, dirty, removed, spoilt), NEW p \in Updates,
           NEW sp, spoilt \subseteq sp, p.id \notin sp => ~Spoils(p)
    PROVE  ServerOK(Updated(p), ServeUpdateDirty(p), removed, sp)
<1> DEFINE m == Updated(p)
           i == p.id
<1>1. /\ m \in Params
      /\ \A j \in Id : m[j] = None <=> params[j] = None
      /\ \A j \in Id : j # i => m[j] = params[j]
      /\ params[i] # None => m[i] = Assign(params, params[i], p)
      /\ i \in Id /\ p.label \in BOOLEAN /\ p.par \in Id \cup {0}
  BY UpdatedType, PacketFields DEF ServerTyped
<1>2. params \in Params /\ (params[i] # None => params[i] \in Parameter)
  BY <1>1 DEF ServerTyped, Params
<1>3. dirty \subseteq ServeUpdateDirty(p) /\ (m[i] # params[i] => i \in ServeUpdateDirty(p))
  BY DEF ServeUpdateDirty
<1> HIDE DEF m, i
<1>4. \A j \in Id : params[j] # None => params[j].label
  BY DEF ServerOK, ServerParam
<1>5. params[i] # None =>
           /\ m[i].group = params[i].group
           /\ m[i].label
           /\ NewPar(params, params[i], p) => m[i].par = p.par
           /\ ~NewPar(params, params[i], p) => m[i].par = params[i].par
           /\ params[i].chg \subseteq m[i].chg
           /\ "label" \in m[i].chg <=> "label" \in params[i].chg
           /\ "val" \in m[i].chg \/ m[i].val = params[i].val
  BY <1>1, <1>2, <1>4, AssignFields DEF NewLabel
<1>6. \A j \in Id : params[j] # None =>
           /\ m[j].group = params[j].group
           /\ "label" \in m[j].chg <=> "label" \in params[j].chg
  BY <1>1, <1>5
<1>7. ASSUME NEW g \in Id, IsGroup(params, g)
      PROVE  IsGroup(m, g) /\ ("label" \notin params[g].chg => "label" \notin m[g].chg)
  BY <1>7, <1>1, <1>6 DEF IsGroup
<1>8. ASSUME NEW j \in Id PROVE ServerParam(j, m, ServeUpdateDirty(p), sp)
  <2>1. ServerParam(j, params, dirty, spoilt) /\ (params[j] # None => params[j].par \in Id \cup {0})
    BY <1>2 DEF ServerOK, Params, Parameter
  <2>2. ASSUME params[j] # None, params[j].par # 0
        PROVE  IsGroup(m, params[j].par) /\ (j \notin sp => "label" \notin m[params[j].par].chg)
    BY <2>1, <2>2, <1>7 DEF ServerParam
  <2>3. CASE j # i
    BY <2>1, <2>2, <2>3, <1>1, <1>3 DEF ServerParam
  <2>4. CASE j = i /\ params[i] # None
    <3>1. m[i].chg # {} => i \in ServeUpdateDirty(p)
      BY <2>1, <2>4, <1>3 DEF ServerParam
    <3>2. m[i].par # 0 => IsGroup(m, m[i].par) /\ (i \notin sp => "label" \notin m[m[i].par].chg)
      <4>1. CASE NewPar(params, params[i], p)
        <5>1. IsGroup(params, p.par) /\ p.par \in Id
          BY <4>1, <1>1 DEF NewPar, IsGroup
        <5>2. i \notin sp => "label" \notin params[p.par].chg
          BY <5>1 DEF Spoils, Announced, i, IsGroup
        <5> QED
          BY <4>1, <5>1, <5>2, <2>4, <1>5, <1>7
      <4>2. CASE ~NewPar(params, params[i], p)
        BY <4>2, <2>2, <2>4, <1>5
      <4> QED
        BY <4>1, <4>2
    <3>3. /\ "label" \in m[i].chg => "par" \in m[i].chg
          /\ "label" \in m[i].chg /\ "val" \notin m[i].chg => m[i].val = Default
      BY <2>1, <2>4, <1>5 DEF ServerParam
    <3> QED
      BY <2>4, <3>1, <3>2, <3>3, <1>5 DEF ServerParam
  <2>5. CASE j = i /\ params[i] = None
    BY <2>5, <1>1 DEF ServerParam
  <2> QED
    BY <2>3, <2>4, <2>5
<1>9. \A j \in removed : m[j] = None
  BY <1>1 DEF ServerOK, ServerTyped
<1> QED
  BY <1>8, <1>9 DEF ServerOK, m

\* Assigning a packet at the server keeps the tree of a client.
LEMMA AssignTree ==
    ASSUME params \in Params, NEW p \in Updates, NEW R, NEW q, NEW k, NEW a, NEW sp, Tree(params, R, q, k, a, sp)
    PROVE  Tree(Updated(p), R, q, k, a, sp)
<1> DEFINE m == Updated(p)
<1>1. ASSUME NEW j \in Id
      PROVE  /\ params[j] = None <=> m[j] = None
             /\ params[j] # None => m[j].par = params[j].par \/ (m[j].par # 0 /\ "par" \in m[j].chg)
             /\ params[j] # None /\ "par" \in params[j].chg => "par" \in m[j].chg
  <2>1. /\ m[j] = None <=> params[j] = None
        /\ j # p.id => m[j] = params[j]
        /\ j = p.id /\ params[j] # None => m[j] = Assign(params, params[j], p)
    BY UpdatedType
  <2>2. params[j] # None => params[j] \in Parameter
    BY DEF Params
  <2>3. CASE j = p.id /\ params[j] # None
    <3>1. m[j] = Assign(params, params[j], p)
      BY <2>1, <2>3
    <3> HIDE DEF m
    <3>2. /\ NewPar(params, params[j], p) => m[j].par = p.par
          /\ ~NewPar(params, params[j], p) => m[j].par = params[j].par
          /\ "par" \in m[j].chg <=> "par" \in params[j].chg \/ NewPar(params, params[j], p)
      BY <2>2, <2>3, <3>1, AssignFields
    <3>3. NewPar(params, params[j], p) => p.par # 0
      BY DEF NewPar, IsGroup
    <3> QED
      BY <2>1, <2>3, <3>2, <3>3
  <2>4. CASE j # p.id \/ params[j] = None
    BY <2>1, <2>4
  <2> QED
    BY <2>3, <2>4
<1> HIDE DEF m
<1>2. Tree(m, R, q, k, a, sp)
  BY <1>1, TreeChange
<1> QED
  BY <1>2 DEF m

\* Packet p may be forwarded: its parameter is there, in the group it names.
Ready(p, m, R) ==
    m[p.id] # None /\ p.id \notin R /\ (p.par # 0 => m[p.id].par = p.par /\ p.par \notin R)

\* Nothing is added.
LEMMA AddsNothing == ASSUME NEW s, NEW q, Adds(s, q, <<>>) PROVE s = q
BY ConcatEmptySeq DEF Adds

\* What is forwarded keeps the tree.
LEMMA Forwarded ==
    ASSUME NEW p \in Updates, NEW s, NEW q, NEW r, Adds(s, q, r), r = <<>> \/ r = <<p>>,
           NEW m, NEW R, NEW k, NEW a, NEW sp, Tree(m, R, q, k, a, sp), p.id \notin sp => Ready(p, m, R)
    PROVE  Tree(m, R, s, k, a, sp)
<1>1. CASE r = <<>>
  <2>1. s = q
    BY <1>1, AddsNothing
  <2> QED
    BY <2>1
<1>2. CASE r = <<p>>
  <2>1. p \in FromServers /\ p.cmd # "REMOVE"
    BY PacketFields DEF FromServers
  <2>2. ASSUME NEW i \in Id \ sp PROVE TreeAt(i, m, R, s, k, a)
    <3>1. TreeAt(i, m, R, q, k, a) /\ Adds(s, q, <<p>>)
      BY <1>2 DEF Tree
    <3>2. CASE p.id = i
      BY <3>1, <3>2, RawTree DEF Ready
    <3>3. CASE p.id # i
      <4>1. Void(<<p>>, i)
        BY <2>1, <3>3, OneAlone
      <4> QED
        BY <3>1, <4>1, TreeVoid
    <3> QED
      BY <3>2, <3>3
  <2>3. Left(s, k, a, sp)
    <3>1. s = q \o r /\ q \in Seq(FromServers) /\ r \in Seq(FromServers) /\ Left(q, k, a, sp)
      BY DEF Adds, Tree
    <3>2. \A n \in DOMAIN r : r[n].cmd # "REMOVE"
      BY <1>2, <2>1
    <3> QED
      BY <3>1, <3>2, LeftNoRemove
  <2> QED
    BY <2>2, <2>3 DEF Tree
<1> QED
  BY <1>1, <1>2

\* _update and the forwarding keep it.
LEMMA ServeUpdateTree == ASSUME TypeOK, TreeInv, NEW c \in Clients, ServeUpdate(c) PROVE TreeInv'
<1>1. ServerTyped /\ ServerOK(params, dirty, removed, spoilt) /\ params \in Params
  BY TypeParts, TreeInvParts DEF ServerTyped
<1> DEFINE p == Head(toServer[c])
           m == Updated(p)
           d == ServeUpdateDirty(p)
<1>2. /\ p \in Updates
      /\ \/ ServeQuietly(c, p)
         \/ Callback(p) /\ ServeFlushing(c, p)
         \/ Callback(p) /\ \E v \in Vals \ {m[p.id].val} : ServeSetting(c, p, v)
      /\ spoilt' = IF Spoils(p) THEN spoilt \cup {p.id} ELSE spoilt
      /\ on' = on /\ cache' = cache /\ astray' = astray
  BY ServeUpdateParts DEF client
<1>3. \A e \in Clients : Raw(c)[e] = <<>> \/ Raw(c)[e] = <<p>>
  BY DEF Raw
<1> HIDE DEF p
<1>4. spoilt \subseteq spoilt' /\ (p.id \notin spoilt' => ~Spoils(p))
  BY <1>2
<1>5. ServerOK(m, d, removed, spoilt')
  BY <1>1, <1>2, <1>4, AssignServer
<1>6. ASSUME NEW e \in on
      PROVE  /\ Tree(m, removed, toClient[e], cache[e], astray[e], spoilt')
             /\ e \in Clients /\ toClient[e] \in Seq(FromServers)
  <2>1. Tree(params, removed, toClient[e], cache[e], astray[e], spoilt)
    BY <1>6, TreeInvParts
  <2>2. Tree(params, removed, toClient[e], cache[e], astray[e], spoilt')
    BY <2>1, <1>4, TreeMore
  <2>3. Tree(m, removed, toClient[e], cache[e], astray[e], spoilt')
    BY <2>2, <1>1, <1>2, AssignTree
  <2>4. e \in Clients /\ toClient[e] \in Seq(FromServers)
    BY <1>1, TypeParts DEF ServerTyped, ClientTyped
  <2> QED
    BY <2>3, <2>4
<1>7. /\ m \in Params
      /\ \A j \in Id : m[j] = None <=> params[j] = None
      /\ params[p.id] # None => m[p.id] = Assign(params, params[p.id], p)
      /\ p.id \in Id /\ p.par \in Id \cup {0}
  BY <1>1, <1>2, UpdatedType, PacketFields
<1>8. d \in SUBSET Id /\ removed \in SUBSET Id /\ \A i \in d : m[i] # None
  <2>1. dirty \subseteq {i \in Id : params[i] # None} /\ removed \subseteq Id
    BY <1>1 DEF ServerTyped
  <2>2. m[p.id] # params[p.id] => params[p.id] # None
    BY <1>7
  <2> QED
    BY <2>1, <2>2, <1>7 DEF ServeUpdateDirty
<1> HIDE DEF m, d
<1>9. p.id \notin spoilt' => Ready(p, m, removed)
  <2> SUFFICES ASSUME p.id \notin spoilt' PROVE Ready(p, m, removed)
    OBVIOUS
  <2>1. params[p.id] # None /\ (p.par # 0 => IsGroup(params, p.par))
    BY <1>4 DEF Spoils, Announced
  <2>2. params[p.id] \in Parameter
    BY <2>1, <1>1, <1>7 DEF Params
  <2>3. m[p.id] # None /\ p.id \notin removed
    BY <2>1, <1>1, <1>7 DEF ServerOK
  <2>4. ASSUME p.par # 0 PROVE m[p.id].par = p.par /\ p.par \notin removed
    <3>1. IsGroup(params, p.par) /\ p.par \notin removed
      BY <2>1, <2>4, <1>1 DEF IsGroup, ServerOK
    <3>2. /\ NewPar(params, params[p.id], p) => m[p.id].par = p.par
          /\ ~NewPar(params, params[p.id], p) => m[p.id].par = params[p.id].par
      BY <2>1, <2>2, <1>2, <1>7, AssignFields
    <3> QED
      BY <3>1, <3>2 DEF NewPar
  <2> QED
    BY <2>3, <2>4 DEF Ready
<1>10. \A e \in Clients : Raw(c)[e] \in Seq(FromServers)
  <2>1. <<>> \in Seq(FromServers) /\ p \in FromServers
    BY <1>2 DEF FromServers
  <2>2. <<p>> \in Seq(FromServers)
    BY <2>1
  <2> QED
    BY <2>1, <2>2, <1>3
\* Only the value of the parameter differs from that of m.
<1>11. ASSUME NEW n, \A j \in Id : /\ n[j] = None <=> m[j] = None
                                   /\ m[j] # None => /\ n[j].label = m[j].label /\ n[j].group = m[j].group
                                                     /\ n[j].par = m[j].par /\ n[j].chg = m[j].chg
                                                     /\ n[j].val = m[j].val \/ "val" \in m[j].chg,
              params' = n, dirty' = d, removed' = removed, Deliver(Raw(c))
       PROVE  TreeInv'
  <2>1. ASSUME NEW j \in Id PROVE ServerParam(j, n, d, spoilt')
    <3>1. ServerParam(j, m, d, spoilt') /\ (m[j] # None => m[j].par \in Id \cup {0})
      BY <1>5, <1>7 DEF ServerOK, Params, Parameter
    <3>2. ASSUME m[j] # None, m[j].par # 0
          PROVE  IsGroup(n, m[j].par) /\ (j \notin spoilt' => "label" \notin n[m[j].par].chg)
      BY <3>1, <3>2, <1>11 DEF ServerParam, IsGroup
    <3> QED
      BY <3>1, <3>2, <1>11 DEF ServerParam
  <2>2. \A j \in removed : n[j] = None
    BY <1>5, <1>8, <1>11 DEF ServerOK
  <2>3. ServerOK(params', dirty', removed', spoilt')
    BY <2>1, <2>2, <1>11 DEF ServerOK
  <2>4. p.id \notin spoilt' => Ready(p, n, removed)
    BY <1>7, <1>9, <1>11 DEF Ready
  <2>5. ASSUME NEW e \in on PROVE Tree(n, removed, toClient'[e], cache[e], astray[e], spoilt')
    <3>1. \A j \in Id :
             /\ m[j] = None <=> n[j] = None
             /\ m[j] # None => n[j].par = m[j].par \/ (n[j].par # 0 /\ "par" \in n[j].chg)
             /\ m[j] # None /\ "par" \in m[j].chg => "par" \in n[j].chg
      BY <1>11
    <3>2. Tree(m, removed, toClient[e], cache[e], astray[e], spoilt') /\ e \in Clients
      BY <2>5, <1>6
    <3>3. Tree(n, removed, toClient[e], cache[e], astray[e], spoilt')
      BY <3>1, <3>2, TreeChange
    <3>4. Adds(toClient'[e], toClient[e], Raw(c)[e])
      BY <2>5, <3>2, <1>10, <1>11, Delivered
    <3> QED
      BY <3>2, <3>3, <3>4, <2>4, <1>2, <1>3, Forwarded
  <2> QED
    BY <2>3, <2>5, <1>2, <1>11, TreeInvParts
<1>12. CASE ServeQuietly(c, p)
  <2>1. params' = m /\ dirty' = d /\ removed' = removed /\ Deliver(Raw(c))
    BY <1>12 DEF ServeQuietly, m, d
  <2> QED
    BY <2>1, <1>11
<1>13. CASE Callback(p) /\ \E v \in Vals \ {m[p.id].val} : ServeSetting(c, p, v)
  <2>1. PICK v \in Vals : ServeSetting(c, p, v)
    BY <1>13
  <2>2. /\ params' = [m EXCEPT ![p.id].val = v]
        /\ dirty' = d /\ removed' = removed /\ Deliver(Raw(c))
    BY <2>1 DEF ServeSetting, m, d
  <2>3. m[p.id] # None /\ "val" \in m[p.id].chg
    BY <1>7, <1>13 DEF Callback, m
  <2> DEFINE x == [m[p.id] EXCEPT !.val = v]
  <2>4. m[p.id] \in Parameter
    BY <2>3, <1>7 DEF Params
  <2>5. /\ x.label = m[p.id].label /\ x.group = m[p.id].group /\ x.par = m[p.id].par /\ x.chg = m[p.id].chg
        /\ x \in Parameter
    BY <2>4 DEF Parameter
  <2>6. params' = [m EXCEPT ![p.id] = x]
    BY <2>2, <1>7 DEF Params
  <2> HIDE DEF x
  <2>7. x # None /\ params'[p.id] = x /\ \A j \in Id : j # p.id => params'[j] = m[j]
    BY <2>5, <2>6, <1>7, Values DEF Params
  <2>8. \A j \in Id : /\ params'[j] = None <=> m[j] = None
                      /\ m[j] # None => /\ params'[j].label = m[j].label /\ params'[j].group = m[j].group
                                        /\ params'[j].par = m[j].par /\ params'[j].chg = m[j].chg
                                        /\ params'[j].val = m[j].val \/ "val" \in m[j].chg
    BY <2>3, <2>5, <2>7
  <2> QED
    BY <2>2, <2>8, <1>11
<1>14. CASE ServeFlushing(c, p)
  <2> DEFINE f == FlushPackets(m, d)
             out == [e \in Clients |-> f \o Raw(c)[e]]
  <2>1. /\ params' = [i \in Id |-> IF i \in d THEN Sent(m[i]) ELSE m[i]]
        /\ dirty' = {} /\ removed' = {} /\ Deliver(out)
    BY <1>14 DEF ServeFlushing, m, d
  <2>2. f \in Seq(FromServers)
    BY <1>7, <1>8, FlushType
  <2>3. \A e \in Clients : out[e] = f \o Raw(c)[e]
    OBVIOUS
  <2> HIDE DEF out
  <2>4. \A i \in Id : params'[i] = IF i \in d THEN Sent(m[i]) ELSE m[i]
    BY <2>1
  <2>5. ServerOK(params', {}, {}, spoilt')
    BY <2>4, <1>5, <1>7, <1>8, FlushServer
  <2>6. p.id \notin spoilt' => Ready(p, params', {})
    <3>1. \A i \in Id : m[i] # None => params'[i] # None /\ params'[i].par = m[i].par
      <4>1. \A i \in Id : m[i] # None => m[i] \in Parameter
        BY <1>7 DEF Params
      <4> QED
        BY <4>1, <2>4, SentFields, Values
    <3> QED
      BY <3>1, <1>7, <1>9 DEF Ready
  <2>7. ASSUME NEW e \in on PROVE Tree(params', {}, toClient'[e], cache[e], astray[e], spoilt')
    <3> DEFINE q == toClient[e]
               t == q \o f
    <3>1. Tree(m, removed, q, cache[e], astray[e], spoilt') /\ e \in Clients /\ q \in Seq(FromServers)
      BY <2>7, <1>6
    <3>2. Raw(c)[e] \in Seq(FromServers) /\ (Raw(c)[e] = <<>> \/ Raw(c)[e] = <<p>>)
      BY <3>1, <1>3, <1>10
    <3> HIDE DEF f
    <3>3. Adds(t, q, f)
      BY <2>2, <3>1 DEF Adds
    <3>4. Tree(params', {}, t, cache[e], astray[e], spoilt')
      BY <3>1, <3>3, <2>4, <1>5, <1>7, <1>8, TreeFlush DEF f
    <3>5. out[e] = f \o Raw(c)[e] /\ out[e] \in Seq(FromServers)
      BY <2>2, <2>3, <3>1, <3>2, ConcatProperties
    <3>6. Adds(toClient'[e], q, out[e])
      BY <2>1, <3>5, <2>7, Delivered
    <3>7. toClient'[e] = t \o Raw(c)[e] /\ t \in Seq(FromServers)
      <4> DEFINE r == Raw(c)[e]
      <4>1. toClient'[e] = q \o (f \o r)
        BY <3>5, <3>6 DEF Adds
      <4> HIDE DEF q, r
      <4>2. q \in Seq(FromServers) /\ f \in Seq(FromServers) /\ r \in Seq(FromServers)
        BY <2>2, <3>1, <3>2 DEF r
      <4>3. (q \o f) \o r = q \o (f \o r) /\ q \o f \in Seq(FromServers)
        BY <4>2, ConcatAssociative, ConcatProperties
      <4> QED
        BY <4>1, <4>3 DEF r
    <3> HIDE DEF t
    <3>8. Adds(toClient'[e], t, Raw(c)[e])
      BY <3>2, <3>7 DEF Adds
    <3> QED
      BY <3>2, <3>4, <3>8, <2>6, <1>2, Forwarded
  <2> QED
    BY <2>1, <2>5, <2>7, <1>2, TreeInvParts
<1> QED
  BY <1>2, <1>12, <1>13, <1>14

-----------------------------------------------------------------------------
(* The clients *)

\* A client takes packet p: its cache and what is astray become l and b.
LEMMA TookStep ==
    ASSUME TypeOK, TreeInv, NEW c \in on, TakePacket(c), toClient[c] # <<>>,
           UNCHANGED <<params, dirty, removed, on, spoilt>>,
           Took(Head(toClient[c]), cache[c], astray[c], cache'[c], astray'[c]),
           \A d \in Clients \ {c} : cache'[d] = cache[d] /\ astray'[d] = astray[d]
    PROVE  TreeInv'
<1>1. c \in Clients /\ on \subseteq Clients
  BY TypeParts DEF ServerTyped
<1>2. /\ Head(toClient[c]) \in FromServers /\ Tail(toClient[c]) \in Seq(FromServers)
      /\ toClient[c] = <<Head(toClient[c])>> \o Tail(toClient[c])
      /\ toClient'[c] = Tail(toClient[c])
      /\ \A d \in Clients \ {c} : toClient'[d] = toClient[d]
  BY <1>1, TakePacketParts
<1> DEFINE p == Head(toClient[c])
           t == Tail(toClient[c])
           k == cache[c]
           a == astray[c]
           l == cache'[c]
           b == astray'[c]
<1>3. Tree(params, removed, toClient[c], k, a, spoilt)
  BY TreeInvParts
<1>4. Tree(params, removed, <<p>> \o t, k, a, spoilt)
  BY <1>2, <1>3
<1>5. p \in FromServers /\ t \in Seq(FromServers) /\ Took(p, k, a, l, b) /\ toClient'[c] = t
  BY <1>2
<1> HIDE DEF p, t, k, a, l, b
<1>6. Tree(params, removed, t, l, b, spoilt)
  <2>1. ASSUME NEW i \in Id \ spoilt PROVE TreeAt(i, params, removed, t, l, b)
    <3>1. TreeAt(i, params, removed, <<p>> \o t, k, a)
      BY <1>4 DEF Tree
    <3> QED
      BY <3>1, <1>5, TookTree
  <2>2. Left(<<p>> \o t, k, a, spoilt)
    BY <1>4 DEF Tree
  <2>3. Left(t, l, b, spoilt)
    BY <2>2, <1>5, TookLeft
  <2> QED
    BY <2>1, <2>3 DEF Tree
<1>7. ASSUME NEW d \in on PROVE Tree(params, removed, toClient'[d], cache'[d], astray'[d], spoilt)
  <2>1. CASE d = c
    BY <2>1, <1>5, <1>6 DEF l, b
  <2>2. CASE d # c
    BY <2>2, <1>1, <1>2, <1>7, TreeInvParts
  <2> QED
    BY <2>1, <2>2
<1> QED
  BY <1>7, TreeInvParts

\* _update at a client keeps it.
LEMMA TakeUpdateTree == ASSUME TypeOK, TreeInv, NEW c \in Clients, TakeUpdate(c) PROVE TreeInv'
<1> DEFINE p == Head(toClient[c])
<1>1. /\ c \in on /\ toClient[c] # <<>> /\ TakePacket(c) /\ p.cmd = "UPDATE" /\ p \in Updates
      /\ cache' = [cache EXCEPT ![c][p.id] = Cached(c, p)]
      /\ astray' = [astray EXCEPT ![c] = IF p.par = 0 THEN @
              ELSE IF IsGroup(cache[c], p.par) THEN @ \ {p.id} ELSE @ \cup {p.id}]
      /\ UNCHANGED <<server, on, toServer, ops, lost, spoilt>>
  BY TakeUpdateParts
<1>2. UNCHANGED <<params, dirty, removed, on, spoilt>>
  BY <1>1 DEF server
<1>3. ClientsMapped /\ cache[c] \in Params
  BY TypeParts DEF ClientTyped
<1>4. Cached(c, p) \in Parameter /\ Cached(c, p) # None /\ p.id \in Id
  BY <1>1, <1>3, CachedType, PacketFields, Values
<1>5. \A d \in Clients \ {c} : cache'[d] = cache[d] /\ astray'[d] = astray[d]
  BY <1>1, <1>3 DEF ClientsMapped
<1>6. /\ cache'[c][p.id] = Cached(c, p)
      /\ \A j \in Id : j # p.id => cache'[c][j] = cache[c][j]
  BY <1>1, <1>3, <1>4 DEF ClientsMapped, Params
<1>7. astray'[c] = IF p.par = 0 THEN astray[c]
              ELSE IF IsGroup(cache[c], p.par) THEN astray[c] \ {p.id} ELSE astray[c] \cup {p.id}
  BY <1>1, <1>3 DEF ClientsMapped
<1> DEFINE r == IF cache[c][p.id] = None THEN Bare(p) ELSE cache[c][p.id]
           x == Assign(cache[c], r, p)
<1>8. r \in Parameter
  BY <1>1, <1>3, <1>4, BareType DEF Params
<1>9. r.par = IF cache[c][p.id] = None THEN 0 ELSE cache[c][p.id].par
  BY DEF Bare
<1>10. Cached(c, p) = x \/ Cached(c, p) = Sent(x)
  BY DEF Cached
<1> HIDE DEF p, r
<1>11. /\ x \in Parameter
       /\ NewPar(cache[c], r, p) => x.par = p.par
       /\ ~NewPar(cache[c], r, p) => x.par = r.par
  BY <1>1, <1>8, AssignFields
<1> HIDE DEF x
<1>12. Cached(c, p).par = x.par
  BY <1>10, <1>11, SentFields
<1>13. p.par = 0 => Cached(c, p).par = r.par
  BY <1>11, <1>12 DEF NewPar, IsGroup
<1>14. p.par # 0 /\ IsGroup(cache[c], p.par) => Cached(c, p).par = p.par
  BY <1>11, <1>12 DEF NewPar
<1>15. Took(p, cache[c], astray[c], cache'[c], astray'[c])
  BY <1>1, <1>4, <1>6, <1>7, <1>9, <1>13, <1>14 DEF Took
<1> QED
  BY <1>1, <1>2, <1>5, <1>15, TookStep DEF p

\* _remove at a client keeps it.
LEMMA TakeRemoveTree == ASSUME TypeOK, TreeInv, NEW c \in Clients, TakeRemove(c) PROVE TreeInv'
<1> DEFINE p == Head(toClient[c])
           h == p.id
<1>1. /\ c \in on /\ toClient[c] # <<>> /\ TakePacket(c) /\ p.cmd = "REMOVE" /\ h \in Id
      /\ cache' = [cache EXCEPT ![c] = [j \in Id |-> IF j \in Out(c, h) THEN None ELSE cache[c][j]]]
      /\ astray' = [astray EXCEPT ![c] = astray[c] \ Out(c, h)]
      /\ UNCHANGED <<server, on, toServer, ops, spoilt>>
  BY TakeRemoveParts
<1>2. UNCHANGED <<params, dirty, removed, on, spoilt>>
  BY <1>1 DEF server
<1>3. ClientsMapped
  BY TypeParts
<1>4. \A d \in Clients \ {c} : cache'[d] = cache[d] /\ astray'[d] = astray[d]
  BY <1>1, <1>3 DEF ClientsMapped
<1>5. /\ \A j \in Id : cache'[c][j] = IF j \in Out(c, h) THEN None ELSE cache[c][j]
      /\ astray'[c] = astray[c] \ Out(c, h)
  BY <1>1, <1>3 DEF ClientsMapped
<1>6. h \in Below(cache[c], h)
  BY <1>1 DEF Below
<1>7. cache'[c][h] = None
  BY <1>1, <1>5, <1>6 DEF Out
<1>8. Took(p, cache[c], astray[c], cache'[c], astray'[c])
  BY <1>1, <1>5, <1>7 DEF Took
<1> QED
  BY <1>1, <1>2, <1>4, <1>8, TookStep

\* What a client does by itself moves no parameter.
LEMMA CacheStep ==
    ASSUME TypeOK, TreeInv, NEW c \in Clients, UNCHANGED <<params, dirty, removed, on, spoilt, astray, toClient>>,
           \A i \in Id : (cache[c][i] = None <=> cache'[c][i] = None)
                         /\ (cache[c][i] # None => cache'[c][i].par = cache[c][i].par),
           \A d \in Clients \ {c} : cache'[d] = cache[d]
    PROVE  TreeInv'
<1>1. on \subseteq Clients
  BY TypeParts DEF ServerTyped
<1>2. ASSUME NEW d \in on PROVE Tree(params, removed, toClient[d], cache'[d], astray[d], spoilt)
  <2>1. Tree(params, removed, toClient[d], cache[d], astray[d], spoilt)
    BY <1>2, TreeInvParts
  <2>2. CASE d # c
    BY <2>1, <2>2, <1>1
  <2>3. CASE d = c
    BY <2>1, <2>3, CacheSame DEF Tree
  <2> QED
    BY <2>2, <2>3
<1> QED
  BY <1>2, TreeInvParts

\* setValue at a client keeps it.
LEMMA ClientSetTree ==
    ASSUME TypeOK, TreeInv, NEW c \in Clients, NEW i \in Id, NEW v \in Vals, ClientSet(c, i, v)
    PROVE  TreeInv'
<1>1. /\ cache[c][i] # None
      /\ cache' = [cache EXCEPT ![c][i].val = v, ![c][i].chg = @ \cup {"val"}]
      /\ UNCHANGED <<server, on, astray, early, lost, net, spoilt>>
  BY DEF ClientSet
<1>2. ClientsMapped /\ cache[c] \in Params
  BY TypeParts DEF ClientTyped
<1>3. cache[c][i] \in Parameter
  BY <1>1, <1>2 DEF Params
<1> DEFINE x == [cache[c][i] EXCEPT !.val = v, !.chg = @ \cup {"val"}]
<1>4. x \in Parameter /\ x.par = cache[c][i].par
  BY <1>3 DEF Parameter, Fields
<1>5. \A d \in Clients \ {c} : cache'[d] = cache[d]
  BY <1>1, <1>2 DEF ClientsMapped
<1>6. cache'[c][i] = x /\ \A j \in Id : j # i => cache'[c][j] = cache[c][j]
  BY <1>1, <1>2, <1>3 DEF ClientsMapped, Params
<1> HIDE DEF x
<1>7. \A j \in Id : (cache[c][j] = None <=> cache'[c][j] = None)
                    /\ (cache[c][j] # None => cache'[c][j].par = cache[c][j].par)
  BY <1>1, <1>4, <1>6, Values
<1> QED
  BY <1>1, <1>5, <1>7, CacheStep DEF server, net

\* update() of a client keeps it.
LEMMA ClientUpdateTree == ASSUME TypeOK, TreeInv, NEW c \in Clients, ClientUpdate(c) PROVE TreeInv'
<1>1. /\ cache' = [cache EXCEPT ![c] = [i \in Id |-> IF cache[c][i] = None THEN None ELSE Sent(cache[c][i])]]
      /\ UNCHANGED <<server, on, astray, early, lost, toClient, spoilt>>
  BY ClientUpdateParts
<1>2. ClientsMapped /\ cache[c] \in Params
  BY TypeParts DEF ClientTyped
<1>3. \A d \in Clients \ {c} : cache'[d] = cache[d]
  BY <1>1, <1>2 DEF ClientsMapped
<1>4. \A j \in Id : cache'[c][j] = IF cache[c][j] = None THEN None ELSE Sent(cache[c][j])
  BY <1>1, <1>2 DEF ClientsMapped
<1>5. \A j \in Id : (cache[c][j] = None <=> cache'[c][j] = None)
                    /\ (cache[c][j] # None => cache'[c][j].par = cache[c][j].par)
  BY <1>2, <1>4, SentFields, Values DEF Params
<1> QED
  BY <1>1, <1>3, <1>5, CacheStep DEF server

-----------------------------------------------------------------------------
(* The theorem *)

\* The tree holds at the start.
LEMMA TreeInit == Init => TreeInv
BY DEF Init, TreeInv, ServerOK, ServerParam

\* Every step keeps it.
LEMMA TreeStep == ASSUME StepByStep, TypeOK, TreeInv, [Next]_vars PROVE TreeInv'
<1>1. CASE UNCHANGED vars
  BY <1>1, TreeInvParts DEF vars, server, client, net
<1>2. CASE Next
  BY <1>2, CreateTree, SetValueTree, MoveTree, RemoveParameterTree, UpdateTree, ServeInitializeTree,
     ServeUpdateTree, ConnectTree, DisconnectTree, TakeUpdateTree, TakeRemoveTree, ClientSetTree,
     ClientUpdateTree DEF Next
<1> QED
  BY <1>1, <1>2

\* The tree shows what RemovedIsEmpty says.
LEMMA TreeShows == ASSUME TypeOK, TreeInv PROVE RemovedIsEmpty
<1> SUFFICES ASSUME NEW c \in Clients, FromServer(c, "REMOVE"), NEW j \in Id \ (astray[c] \cup spoilt),
                    cache[c][j] # None
             PROVE  cache[c][j].par # Head(toClient[c]).id
  BY DEF RemovedIsEmpty
<1> DEFINE q == toClient[c]
<1>1. c \in on /\ q # <<>> /\ Head(q).cmd = "REMOVE" /\ q \in Seq(FromServers)
  BY TypeParts DEF FromServer, ClientTyped
<1>2. Left(q, cache[c], astray[c], spoilt)
  BY <1>1, TreeInvParts DEF Tree
<1> HIDE DEF q
<1>3. 1 \in DOMAIN q /\ Head(q) = q[1] /\ SubSeq(q, 1, 1 - 1) = <<>>
  <2>1. Len(q) \in Nat \ {0} /\ DOMAIN q = 1..Len(q)
    BY <1>1, EmptySeq, LenProperties
  <2>2. Head(q) = q[1]
    BY <1>1, HeadTailProperties
  <2>3. SubSeq(q, 1, 0) = <<>>
    BY SubSeqEmpty
  <2> QED
    BY <2>1, <2>2, <2>3
<1>4. ~Sits(<<>>, cache[c], astray[c], j, Head(q).id)
  BY <1>1, <1>2, <1>3 DEF Left
<1> QED
  BY <1>4, SaidNothing DEF Sits, HasNow, q

\* removeParameterDirect never has a member to remove with a group, at any
\* client, when the server's application calls update() between two calls that
\* create, move or remove: the flush sends the moves of the members before, or
\* removed them before, and nothing the clients or the forwarding do in between
\* puts one back.
THEOREM RemovedEmpty == ASSUME StepByStep PROVE Spec => []RemovedIsEmpty
<1>1. Init => TypeOK /\ TreeInv
  BY InitTyped, TreeInit
<1>2. TypeOK /\ TreeInv /\ [Next]_vars => TypeOK' /\ TreeInv'
  BY TypeStep, TreeStep
<1>3. TypeOK /\ TreeInv => RemovedIsEmpty
  BY TreeShows
<1> QED
  BY <1>1, <1>2, <1>3, PTL DEF Spec

-----------------------------------------------------------------------------
(* The mirror: what the server and a client have of a parameter *)

\* What was under way when _init was sent, and what comes after it
Before(c) == SubSeq(toClient[c], 1, early[c])
Late(c) == SubSeq(toClient[c], early[c] + 1, Len(toClient[c]))

\* The last packet of S that nothing of B follows comes after one of T that
\* nothing of D follows.
After(q, S, B, T, D) ==
    \E n \in DOMAIN q :
        /\ q[n] \in S /\ \A k \in DOMAIN q : k > n => q[k] \notin B
        /\ \E l \in DOMAIN q : l < n /\ q[l] \in T /\ \A k \in DOMAIN q : k > l => q[k] \notin D

\* The client learns of group g before it learns that i is in it.
Led(q, i, g) == After(q, OfPar(i, g), WithPar(i) \cup Removal(i), Updating(g), Removal(g))

\* The last value that is under way to the server
Sending(q, i, v) == Ends(q, OfVal(i, v), WithVal(i))

\* The ids with a value at client c that the server does not have yet
Owes(c) == own[c] \cup {i \in Id : gone[c][i] = None /\ cache[c][i] # None
                                   /\ Sending(toServer[c], i, cache[c][i].val)}

\* E and L are under way, E before what _init sent; k is the cache, lo what was lost.
Now(E, L, k, i) == E = <<>> /\ HasNow(L, k, i)
Lacks(E, L, lo, i) == i \in lo /\ ~Cleared(E, i) /\ ~Cleared(L, i)

GroupAt(i, m, q, k) ==
    ~SaysOther(q, i, m[i].group) /\ (HasNow(q, k, i) => k[i].group = m[i].group)

LabelAt(i, m, E, L, k, lo) ==
    "label" \notin m[i].chg =>
        Lacks(E, L, lo, i) \/ SaysLabel(L, i) \/ (Now(E, L, k, i) /\ k[i].label)

\* Nothing said the value, and nothing has to: it is the default.
Silent(i, m, E, L, k) ==
    /\ ~TellsVal(L, i) /\ m[i].val = Default
    /\ k[i] = None \/ Cleared(E, i) \/ Cleared(L, i)
    /\ Told(E, i) => Cleared(L, i)

ValueAt(i, m, E, L, k, lo, ow) ==
    \/ Lacks(E, L, lo, i) \/ "val" \in m[i].chg
    \/ SaysVal(L, i, m[i].val)
    \/ ~TellsVal(L, i) /\ Now(E, L, k, i) /\ (k[i].val = m[i].val \/ i \in ow)
    \/ Silent(i, m, E, L, k)

Follows(i, g, E, L, k) ==
    \/ Led(L, i, g)
    \/ SaysPar(L, i, g) /\ Now(E, L, k, g)
    \/ ~TellsPar(L, i) /\ Now(E, L, k, i) /\ k[i].par = g

FollowAt(i, m, sp, E, L, k, lo) ==
    m[i].par # 0 /\ "par" \notin m[i].chg /\ m[i].par \notin sp =>
        \/ Lacks(E, L, lo, i) \/ Lacks(E, L, lo, m[i].par)
        \/ Follows(i, m[i].par, E, L, k)

MirrorAt(i, m, sp, E, L, k, lo, ow) ==
    /\ LabelAt(i, m, E, L, k, lo)
    /\ ValueAt(i, m, E, L, k, lo, ow)
    /\ FollowAt(i, m, sp, E, L, k, lo)

Mirror(m, sp, E, L, k, lo, ow) ==
    \A i \in Id \ sp : m[i] # None => MirrorAt(i, m, sp, E, L, k, lo, ow)

Grouped(m, sp, q, k) == \A i \in Id \ sp : m[i] # None => GroupAt(i, m, q, k)

\* What the application of a client set is pending there.
Owned(c) ==
    \A i \in own[c] : cache[c][i] # None /\ gone[c][i] = None /\ "val" \in cache[c][i].chg

MirrorInv ==
    \A c \in on :
        /\ Grouped(params, spoilt, toClient[c], cache[c])
        /\ ~Uninitialized(c) => Mirror(params, spoilt, Before(c), Late(c), cache[c], lost[c], Owes(c))
        /\ Owned(c)

-----------------------------------------------------------------------------
(* Queues: what comes after what, and how one is cut in two *)

\* More packets keep a member led, if they do not move it or remove the group ...
LEMMA LedAdded ==
    ASSUME NEW s, NEW q, NEW r, Adds(s, q, r), NEW i, NEW g, Led(q, i, g),
           ~Holds(r, WithPar(i) \cup Removal(i)), ~Cleared(r, g)
    PROVE  Led(s, i, g)
<1>1. /\ s = q \o r /\ DOMAIN q = 1..Len(q) /\ DOMAIN r = 1..Len(r) /\ DOMAIN s = 1..(Len(q) + Len(r))
      /\ Len(q) \in Nat /\ Len(r) \in Nat
      /\ \A n \in 1..Len(q) : s[n] = q[n]
      /\ \A n \in 1..Len(r) : s[Len(q) + n] = r[n]
  BY ConcatPlaces DEF Adds
<1>2. PICK n \in DOMAIN q :
        /\ q[n] \in OfPar(i, g) /\ \A k \in DOMAIN q : k > n => q[k] \notin WithPar(i) \cup Removal(i)
        /\ \E l \in DOMAIN q : l < n /\ q[l] \in Updating(g) /\ \A k \in DOMAIN q : k > l => q[k] \notin Removal(g)
  BY DEF Led, After
<1>3. PICK l \in DOMAIN q :
        l < n /\ q[l] \in Updating(g) /\ \A k \in DOMAIN q : k > l => q[k] \notin Removal(g)
  BY <1>2
<1>4. n \in DOMAIN s /\ l \in DOMAIN s /\ s[n] = q[n] /\ s[l] = q[l]
  BY <1>1
<1>5. ASSUME NEW k \in DOMAIN s
      PROVE  (k \in DOMAIN q /\ s[k] = q[k]) \/ (s[k] \notin WithPar(i) \cup Removal(i) /\ s[k] \notin Removal(g))
  <2>1. CASE k \in 1..Len(q)
    BY <2>1, <1>1
  <2>2. CASE k \notin 1..Len(q)
    <3>1. k - Len(q) \in 1..Len(r) /\ Len(q) + (k - Len(q)) = k
      BY <2>2, <1>1
    <3>2. s[k] = r[k - Len(q)] /\ k - Len(q) \in DOMAIN r
      BY <3>1, <1>1
    <3> QED
      BY <3>2 DEF Holds, Cleared
  <2> QED
    BY <2>1, <2>2
<1>6. \A k \in DOMAIN s : k > n => s[k] \notin WithPar(i) \cup Removal(i)
  BY <1>2, <1>5
<1>7. \A k \in DOMAIN s : k > l => s[k] \notin Removal(g)
  BY <1>3, <1>5
<1> QED
  BY <1>2, <1>3, <1>4, <1>6, <1>7 DEF Led, After

\* ... and lead one they move into a group the client was told of.
LEMMA LedNew ==
    ASSUME NEW s, NEW q, NEW r, Adds(s, q, r), NEW i, NEW g,
           SaysPar(r, i, g), Told(q, g), ~Cleared(r, g)
    PROVE  Led(s, i, g)
<1>1. /\ s = q \o r /\ DOMAIN q = 1..Len(q) /\ DOMAIN r = 1..Len(r) /\ DOMAIN s = 1..(Len(q) + Len(r))
      /\ Len(q) \in Nat /\ Len(r) \in Nat
      /\ \A n \in 1..Len(q) : s[n] = q[n]
      /\ \A n \in 1..Len(r) : s[Len(q) + n] = r[n]
  BY ConcatPlaces DEF Adds
<1>2. PICK n \in DOMAIN r :
        r[n] \in OfPar(i, g) /\ \A k \in DOMAIN r : k > n => r[k] \notin WithPar(i) \cup Removal(i)
  BY DEF SaysPar, Says, Ends
<1>3. PICK l \in DOMAIN q : q[l] \in Updating(g) /\ \A k \in DOMAIN q : k > l => q[k] \notin Removal(g)
  BY DEF Told, Live, Ends
<1> DEFINE x == Len(q) + n
<1>4. x \in DOMAIN s /\ l \in DOMAIN s /\ s[x] = r[n] /\ s[l] = q[l] /\ l < x
  BY <1>1
<1>5. ASSUME NEW k \in DOMAIN s
      PROVE  \/ k \in DOMAIN q /\ s[k] = q[k] /\ ~(k > x)
             \/ k - Len(q) \in DOMAIN r /\ s[k] = r[k - Len(q)] /\ (k > x <=> k - Len(q) > n)
  <2>1. CASE k \in 1..Len(q)
    BY <2>1, <1>1
  <2>2. CASE k \notin 1..Len(q)
    <3>1. k - Len(q) \in 1..Len(r) /\ Len(q) + (k - Len(q)) = k
      BY <2>2, <1>1
    <3>2. s[k] = r[k - Len(q)] /\ k - Len(q) \in DOMAIN r
      BY <3>1, <1>1
    <3> QED
      BY <3>1, <3>2, <1>1
  <2> QED
    BY <2>1, <2>2
<1> HIDE DEF x
<1>6. \A k \in DOMAIN s : k > x => s[k] \notin WithPar(i) \cup Removal(i)
  BY <1>2, <1>5
<1>7. \A k \in DOMAIN s : k > l => s[k] \notin Removal(g)
  <2>1. \A k \in DOMAIN r : r[k] \notin Removal(g)
    BY DEF Cleared, Holds
  <2> QED
    BY <2>1, <1>3, <1>5
<1> QED
  BY <1>2, <1>3, <1>4, <1>6, <1>7 DEF Led, After

\* Taking the packet of the group leaves that of the member.
LEMMA LedTake ==
    ASSUME NEW p \in FromServers, NEW t \in Seq(FromServers), NEW i, NEW g, Led(<<p>> \o t, i, g)
    PROVE  Led(t, i, g) \/ (p.cmd = "UPDATE" /\ p.id = g /\ SaysPar(t, i, g) /\ ~Cleared(t, g))
<1> DEFINE s == <<p>> \o t
<1>0. <<p>> \in Seq(FromServers) /\ Len(<<p>>) = 1
  OBVIOUS
<1>1. /\ DOMAIN t = 1..Len(t) /\ DOMAIN s = 1..(1 + Len(t)) /\ Len(t) \in Nat
      /\ s[1] = p
      /\ \A n \in 1..Len(t) : s[1 + n] = t[n]
  BY <1>0, ConcatPlaces
<1>2. PICK n \in DOMAIN s :
        /\ s[n] \in OfPar(i, g) /\ \A k \in DOMAIN s : k > n => s[k] \notin WithPar(i) \cup Removal(i)
        /\ \E l \in DOMAIN s : l < n /\ s[l] \in Updating(g) /\ \A k \in DOMAIN s : k > l => s[k] \notin Removal(g)
  BY DEF Led, After
<1>3. PICK l \in DOMAIN s :
        l < n /\ s[l] \in Updating(g) /\ \A k \in DOMAIN s : k > l => s[k] \notin Removal(g)
  BY <1>2
<1> HIDE DEF s
<1>4. n - 1 \in DOMAIN t /\ t[n - 1] = s[n] /\ n \in Int /\ l \in Int
  <2>1. n - 1 \in 1..Len(t) /\ 1 + (n - 1) = n
    BY <1>1, <1>2, <1>3
  <2> QED
    BY <2>1, <1>1
<1>5. \A k \in DOMAIN t : k \in Int /\ 1 + k \in DOMAIN s /\ s[1 + k] = t[k]
  BY <1>1
<1>6. \A k \in DOMAIN t : k > n - 1 => t[k] \notin WithPar(i) \cup Removal(i)
  BY <1>2, <1>4, <1>5
<1>7. CASE l = 1
  <2>1. p \in Updating(g)
    BY <1>1, <1>3, <1>7
  <2>2. SaysPar(t, i, g)
    BY <1>2, <1>4, <1>6 DEF SaysPar, Says, Ends
  <2>3. \A k \in DOMAIN t : t[k] \notin Removal(g)
    <3>1. \A k \in DOMAIN t : 1 + k > l
      BY <1>1, <1>7
    <3> QED
      BY <3>1, <1>3, <1>5
  <2> QED
    BY <2>1, <2>2, <2>3 DEF Cleared, Holds, Updating
<1>8. CASE l # 1
  <2>1. l - 1 \in DOMAIN t /\ t[l - 1] = s[l]
    <3>1. l - 1 \in 1..Len(t) /\ 1 + (l - 1) = l
      BY <1>1, <1>3, <1>8
    <3> QED
      BY <3>1, <1>1
  <2>2. \A k \in DOMAIN t : k > l - 1 => t[k] \notin Removal(g)
    BY <1>3, <1>4, <1>5
  <2>3. l - 1 < n - 1
    BY <1>3, <1>4
  <2>4. t[n - 1] \in OfPar(i, g) /\ t[l - 1] \in Updating(g)
    BY <1>2, <1>3, <1>4, <2>1
  <2> QED
    BY <1>4, <1>6, <2>1, <2>2, <2>3, <2>4 DEF Led, After
<1> QED
  BY <1>7, <1>8

\* _init leads every member.
LEMMA LedInit ==
    ASSUME params \in Params, NEW i \in Id, NEW g \in Id, Reached(i), ~Short(i), params[i].par = g
    PROVE  Led(InitPackets, i, g)
<1>1. Shown(i) \in FromServers /\ Shown(i).id = i /\ Alone(InitPackets, i, Shown(i))
  BY InitSays
<1>2. params[i] \in Parameter /\ i \in Present
  BY DEF Reached, Present, Params
<1>3. Shown(i) \in OfPar(i, g)
  <2>1. Shown(i) = UPDATE(i, params[i], Fields)
    BY DEF Shown
  <2>2. Shown(i).cmd = "UPDATE" /\ Shown(i).par = g
    BY <1>2, <2>1, UpdateFields DEF Fields
  <2> QED
    BY <1>1, <2>2, ZeroNoId, Apart
<1>4. Ends(InitPackets, OfPar(i, g), WithPar(i) \cup Removal(i))
  <2>1. OfPar(i, g) \in SUBSET About(i) /\ WithPar(i) \cup Removal(i) \in SUBSET About(i)
    BY AboutSets
  <2> QED
    BY <1>1, <1>3, <2>1 DEF Alone
<1>5. PICK n \in DOMAIN InitPackets :
        /\ InitPackets[n] \in OfPar(i, g)
        /\ \A k \in DOMAIN InitPackets : k > n => InitPackets[k] \notin WithPar(i) \cup Removal(i)
  BY <1>4 DEF Ends
<1>6. InitPackets[n] = Shown(i)
  <2>1. InitPackets[n] \in {Shown(j) : j \in Present}
    BY <1>5, InitPacketsShow, ElementOfSeq, LenProperties
  <2>2. InitPackets[n].id = i
    BY <1>5 DEF OfPar, WithPar, Updating
  <2>3. \A j : Shown(j).id = j
    BY DEF Shown, UPDATE, Packet
  <2> QED
    BY <2>1, <2>2, <2>3
<1>7. PICK l \in DOMAIN InitPackets : l < n /\ InitPackets[l] = Shown(g)
  <2>1. Preceded(InitPackets, {Shown(i)}, {Shown(g)})
    BY <1>2, InitPacketsShow
  <2> QED
    BY <1>5, <1>6, <2>1 DEF Preceded
<1>8. Shown(g) \in Updating(g)
  <2>1. Shown(g) \in {Shown(j) : j \in Present}
    BY <1>7, InitPacketsShow, ElementOfSeq, LenProperties
  <2>2. g \in Present
    BY <2>1, ShownOnce
  <2>3. Shown(g) \in FromServers /\ Shown(g).id = g /\ Shown(g).cmd = "UPDATE"
    BY <2>2, ShownType DEF Shown, UPDATE, Packet
  <2> QED
    BY <2>3, Apart
<1>9. \A k \in DOMAIN InitPackets : InitPackets[k] \notin Removal(g)
  BY InitNoRemove DEF Removal
<1> QED
  BY <1>5, <1>7, <1>8, <1>9 DEF Led, After

\* A queue and its two parts
LEMMA JoinSays ==
    ASSUME NEW q \in Seq(FromServers), NEW r \in Seq(FromServers), NEW i
    PROVE  /\ Cleared(q \o r, i) <=> Cleared(q, i) \/ Cleared(r, i)
           /\ Told(q \o r, i) <=> Told(r, i) \/ (Told(q, i) /\ ~Cleared(r, i))
           /\ \A b : SaysOther(r, i, b) => SaysOther(q \o r, i, b)
<1>1. Cleared(q \o r, i) <=> Cleared(q, i) \/ Cleared(r, i)
  BY HoldsConcat DEF Cleared
<1>2. \A S : Live(q \o r, S, i) <=> Live(r, S, i) \/ (Live(q, S, i) /\ ~Cleared(r, i))
  BY EndsConcat DEF Live, Cleared
<1> QED
  BY <1>1, <1>2 DEF Told, SaysOther

\* A queue is cut in two ...
LEMMA CutJoins ==
    ASSUME NEW P, NEW q \in Seq(P), NEW e \in Nat, e <= Len(q)
    PROVE  /\ SubSeq(q, 1, e) \in Seq(P) /\ SubSeq(q, e + 1, Len(q)) \in Seq(P) /\ Len(SubSeq(q, 1, e)) = e
           /\ q = SubSeq(q, 1, e) \o SubSeq(q, e + 1, Len(q))
<1> DEFINE x == SubSeq(q, 1, e)
           y == SubSeq(q, e + 1, Len(q))
<1>1. Len(q) \in Nat
  BY LenProperties
<1>2. /\ SubSeq(q, 0 + 1, e) \in Seq(P) /\ Len(SubSeq(q, 0 + 1, e)) = IF 0 < e THEN e - 0 ELSE 0
      /\ \A n \in 1..(e - 0) : SubSeq(q, 0 + 1, e)[n] = q[0 + n]
  BY SliceType
<1>3. x \in Seq(P) /\ Len(x) = e /\ \A n \in 1..e : x[n] = q[n]
  BY <1>2
<1>4. /\ y \in Seq(P) /\ Len(y) = IF e < Len(q) THEN Len(q) - e ELSE 0
      /\ \A n \in 1..(Len(q) - e) : y[n] = q[e + n]
  BY <1>1, SliceType
<1>5. Len(y) = Len(q) - e
  BY <1>1, <1>4
<1> HIDE DEF x, y
<1>6. /\ x \o y \in Seq(P)
      /\ \A n \in 1..Len(x) : (x \o y)[n] = x[n]
      /\ \A n \in 1..Len(y) : (x \o y)[Len(x) + n] = y[n]
  BY <1>3, <1>4, ConcatPlaces
<1>a. Len(x \o y) = Len(x) + Len(y)
  BY <1>3, <1>4, ConcatProperties
<1>7. Len(x \o y) = Len(q)
  BY <1>3, <1>a, <1>5, <1>1
<1>8. ASSUME NEW n \in 1..Len(q) PROVE (x \o y)[n] = q[n]
  <2>1. CASE n <= e
    BY <2>1, <1>3, <1>6
  <2>2. CASE ~(n <= e)
    <3>1. n - e \in 1..Len(y) /\ e + (n - e) = n /\ n - e \in 1..(Len(q) - e)
      BY <2>2, <1>1, <1>5
    <3>2. (x \o y)[Len(x) + (n - e)] = y[n - e] /\ y[n - e] = q[e + (n - e)]
      BY <3>1, <1>4, <1>6
    <3> QED
      BY <3>1, <3>2, <1>3
  <2> QED
    BY <2>1, <2>2
<1>9. x \o y = q
  BY <1>6, <1>7, <1>8, SeqEqual
<1> QED
  BY <1>3, <1>4, <1>9 DEF x, y

\* ... and a concatenation where it was joined.
LEMMA JoinCuts ==
    ASSUME NEW P, NEW x \in Seq(P), NEW y \in Seq(P)
    PROVE  SubSeq(x \o y, 1, Len(x)) = x /\ SubSeq(x \o y, Len(x) + 1, Len(x \o y)) = y
<1> DEFINE q == x \o y
           a == SubSeq(q, 1, Len(x))
           b == SubSeq(q, Len(x) + 1, Len(q))
<1>1. /\ q \in Seq(P) /\ Len(q) = Len(x) + Len(y) /\ Len(x) \in Nat /\ Len(y) \in Nat
      /\ \A n \in 1..Len(x) : q[n] = x[n]
      /\ \A n \in 1..Len(y) : q[Len(x) + n] = y[n]
  BY ConcatPlaces, ConcatProperties
<1> HIDE DEF q
<1>2. Len(x) <= Len(q) /\ 0 + 1 = 1
  BY <1>1
<1>3. /\ SubSeq(q, 0 + 1, Len(x)) \in Seq(P) /\ Len(SubSeq(q, 0 + 1, Len(x))) = IF 0 < Len(x) THEN Len(x) - 0 ELSE 0
      /\ \A n \in 1..(Len(x) - 0) : SubSeq(q, 0 + 1, Len(x))[n] = q[0 + n]
  BY <1>1, <1>2, SliceType
<1>4. a \in Seq(P) /\ Len(a) = Len(x) /\ \A n \in 1..Len(x) : a[n] = x[n]
  BY <1>1, <1>2, <1>3
<1>5. /\ b \in Seq(P) /\ Len(b) = IF Len(x) < Len(q) THEN Len(q) - Len(x) ELSE 0
      /\ \A n \in 1..(Len(q) - Len(x)) : b[n] = q[Len(x) + n]
  BY <1>1, SliceType
<1>6. Len(b) = Len(y) /\ \A n \in 1..Len(y) : b[n] = y[n]
  BY <1>1, <1>5
<1> HIDE DEF a, b
<1>7. a = x /\ b = y
  BY <1>4, <1>5, <1>6, SeqEqual
<1> QED
  BY <1>7 DEF a, b, q

-----------------------------------------------------------------------------
(* What the server does to the mirror *)

\* Nothing is sent: what changed is flagged.
LEMMA MirrorKept ==
    ASSUME NEW i, NEW m, NEW n, NEW sp, NEW tp, sp \subseteq tp, NEW E, NEW L, NEW k, NEW lo, NEW ow, NEW vw,
           MirrorAt(i, m, sp, E, L, k, lo, ow),
           "label" \in m[i].chg => "label" \in n[i].chg,
           "val" \in n[i].chg \/ ("val" \notin m[i].chg /\ n[i].val = m[i].val),
           "par" \in n[i].chg \/ ("par" \notin m[i].chg /\ n[i].par = m[i].par),
           i \in ow => i \in vw \/ "val" \in n[i].chg \/ k[i].val = n[i].val
    PROVE  MirrorAt(i, n, tp, E, L, k, lo, vw)
<1>1. LabelAt(i, n, E, L, k, lo)
  BY DEF MirrorAt, LabelAt
<1>2. ValueAt(i, n, E, L, k, lo, vw)
  BY DEF MirrorAt, ValueAt, Silent
<1>3. FollowAt(i, n, tp, E, L, k, lo)
  BY DEF MirrorAt, FollowAt
<1> QED
  BY <1>1, <1>2, <1>3 DEF MirrorAt

\* What has gone before what is added
LEMMA ClearedAdded ==
    ASSUME NEW s, NEW q, NEW r, Adds(s, q, r), NEW i
    PROVE  /\ Cleared(s, i) <=> Cleared(q, i) \/ Cleared(r, i)
           /\ Told(q, i) /\ ~Cleared(r, i) => Told(s, i)
BY JoinSays DEF Adds

\* A queue that is not about an id does not remove it ...
LEMMA VoidClears == ASSUME NEW r, NEW i, Void(r, i) PROVE ~Cleared(r, i)
BY AboutSets DEF Void, Cleared

\* ... nor does one update of it.
LEMMA AloneClears ==
    ASSUME NEW r, NEW i, NEW u \in FromServers, u.id = i, u.cmd = "UPDATE", Alone(r, i, u)
    PROVE  ~Cleared(r, i)
<1>1. u \notin Removal(i)
  BY Apart
<1>2. Ends(r, Removal(i), {}) <=> u \in Removal(i)
  BY AboutSets DEF Alone
<1> QED
  BY <1>1, <1>2, HoldsEnds DEF Cleared

\* More packets that do not remove an id keep what a client has of it.
LEMMA AfterwardsKnown ==
    ASSUME NEW s, NEW q, NEW r, Adds(s, q, r), NEW i, ~Cleared(r, i), NEW E, NEW k, NEW lo
    PROVE  /\ Lacks(E, q, lo, i) => Lacks(E, s, lo, i)
           /\ Now(E, q, k, i) => Now(E, s, k, i)
BY ClearedAdded DEF Lacks, Now, HasNow

\* Nothing of i is added.
LEMMA MirrorVoid ==
    ASSUME NEW M, NEW L, NEW r, Adds(M, L, r), NEW i, Void(r, i),
           NEW m, NEW sp, NEW E, NEW k, NEW lo, NEW ow, MirrorAt(i, m, sp, E, L, k, lo, ow),
           m[i].par # 0 /\ m[i].par \notin sp => ~Cleared(r, m[i].par)
    PROVE  MirrorAt(i, m, sp, E, M, k, lo, ow)
<1>1. /\ Cleared(M, i) <=> Cleared(L, i)
      /\ SaysLabel(M, i) <=> SaysLabel(L, i)
      /\ TellsVal(M, i) <=> TellsVal(L, i)
      /\ \A v : SaysVal(M, i, v) <=> SaysVal(L, i, v)
      /\ TellsPar(M, i) <=> TellsPar(L, i)
      /\ \A g : SaysPar(M, i, g) <=> SaysPar(L, i, g)
  BY SaidVoid
<1>2. /\ Lacks(E, M, lo, i) <=> Lacks(E, L, lo, i)
      /\ Now(E, M, k, i) <=> Now(E, L, k, i)
  BY <1>1 DEF Lacks, Now, HasNow
<1>3. LabelAt(i, m, E, M, k, lo)
  BY <1>1, <1>2 DEF MirrorAt, LabelAt
<1>4. ValueAt(i, m, E, M, k, lo, ow)
  BY <1>1, <1>2 DEF MirrorAt, ValueAt, Silent
<1>5. FollowAt(i, m, sp, E, M, k, lo)
  <2> DEFINE g == m[i].par
  <2> SUFFICES ASSUME g # 0, "par" \notin m[i].chg, g \notin sp, ~Lacks(E, M, lo, i), ~Lacks(E, M, lo, g)
               PROVE  Follows(i, g, E, M, k)
    BY DEF FollowAt
  <2>1. ~Cleared(r, g)
    OBVIOUS
  <2> HIDE DEF g
  <2>2. ~Lacks(E, L, lo, i) /\ ~Lacks(E, L, lo, g)
    BY <2>1, <1>2, AfterwardsKnown
  <2>3. Follows(i, g, E, L, k)
    BY <2>2 DEF MirrorAt, FollowAt, g
  <2>4. Led(L, i, g) => Led(M, i, g)
    <3>1. WithPar(i) \cup Removal(i) \in SUBSET About(i)
      BY AboutSets
    <3>2. ~Holds(r, WithPar(i) \cup Removal(i))
      BY <3>1 DEF Void
    <3> QED
      BY <2>1, <3>2, LedAdded
  <2>5. Now(E, L, k, g) => Now(E, M, k, g)
    BY <2>1, AfterwardsKnown
  <2> QED
    BY <2>3, <2>4, <2>5, <1>1, <1>2 DEF Follows
<1> QED
  BY <1>3, <1>4, <1>5 DEF MirrorAt

\* The client knows of i, or will.
Known(i, E, L, k, lo) == Lacks(E, L, lo, i) \/ Told(L, i) \/ Now(E, L, k, i)

\* Of a parameter whose label was sent the client has been told, or lost it.
LEMMA LabelKnown ==
    ASSUME NEW i, NEW m, NEW E, NEW L, NEW k, NEW lo, LabelAt(i, m, E, L, k, lo), "label" \notin m[i].chg
    PROVE  Known(i, E, L, k, lo)
BY SaysTells DEF LabelAt, Known

\* An update of i is added, that says of it what is flagged no more.
LEMMA MirrorAlone ==
    ASSUME NEW M, NEW L, NEW r, Adds(M, L, r), NEW i \in Id, NEW u \in Updates, u.id = i, Alone(r, i, u),
           NEW m, NEW n, NEW sp, NEW E, NEW k, NEW lo, NEW ow, MirrorAt(i, m, sp, E, L, k, lo, ow),
           "label" \in n[i].chg \/ "label" \notin m[i].chg \/ u.label,
           \/ "val" \in n[i].chg
           \/ u.val # None /\ u.val = n[i].val
           \/ u.val = None /\ n[i].val = m[i].val /\ "val" \notin m[i].chg,
           n[i].par # 0 /\ n[i].par \notin sp /\ "par" \notin n[i].chg =>
             /\ ~Cleared(r, n[i].par)
             /\ \/ u.par = n[i].par /\ Known(n[i].par, E, L, k, lo)
                \/ u.par = 0 /\ n[i].par = m[i].par /\ "par" \notin m[i].chg
    PROVE  MirrorAt(i, n, sp, E, M, k, lo, ow)
<1>0. u \in FromServers /\ u.cmd = "UPDATE"
  BY PacketFields DEF FromServers
<1>1. Cleared(M, i) <=> Cleared(L, i)
  BY <1>0, SaidAlone
<1>2. SaysLabel(M, i) <=> u.label \/ SaysLabel(L, i)
  BY <1>0, SaidAlone
<1>3. TellsVal(M, i) <=> u.val # None \/ TellsVal(L, i)
  BY <1>0, SaidAlone
<1>4. \A v : SaysVal(M, i, v) <=> v # None /\ (u.val = v \/ (u.val = None /\ SaysVal(L, i, v)))
  BY <1>0, SaidAlone
<1>5. TellsPar(M, i) <=> u.par # 0 \/ TellsPar(L, i)
  BY <1>0, SaidAlone
<1>6. \A g : SaysPar(M, i, g) <=> g # 0 /\ (u.par = g \/ (u.par = 0 /\ SaysPar(L, i, g)))
  BY <1>0, SaidAlone
<1>7. /\ Lacks(E, M, lo, i) <=> Lacks(E, L, lo, i)
      /\ Now(E, M, k, i) <=> Now(E, L, k, i)
  BY <1>1 DEF Lacks, Now, HasNow
<1>8. LabelAt(i, n, E, M, k, lo)
  BY <1>2, <1>7 DEF MirrorAt, LabelAt
<1>9. ValueAt(i, n, E, M, k, lo, ow)
  <2>1. CASE "val" \in n[i].chg
    BY <2>1 DEF ValueAt
  <2>2. CASE u.val # None /\ u.val = n[i].val
    BY <2>2, <1>4 DEF ValueAt
  <2>3. CASE u.val = None /\ n[i].val = m[i].val /\ "val" \notin m[i].chg
    <3>1. SaysVal(L, i, m[i].val) => m[i].val # None
      BY DEF SaysVal, Says, Ends, OfVal, WithVal
    <3>2. Silent(i, m, E, L, k) => Silent(i, n, E, M, k)
      BY <2>3, <1>1, <1>3 DEF Silent
    <3> QED
      BY <2>3, <3>1, <3>2, <1>3, <1>4, <1>7 DEF MirrorAt, ValueAt
  <2> QED
    BY <2>1, <2>2, <2>3
<1>10. FollowAt(i, n, sp, E, M, k, lo)
  <2> DEFINE g == n[i].par
  <2> SUFFICES ASSUME g # 0, "par" \notin n[i].chg, g \notin sp, ~Lacks(E, M, lo, i), ~Lacks(E, M, lo, g)
               PROVE  Follows(i, g, E, M, k)
    BY DEF FollowAt
  <2>1. ~Cleared(r, g)
    OBVIOUS
  <2>2. \/ u.par = g /\ Known(g, E, L, k, lo)
        \/ u.par = 0 /\ g = m[i].par /\ "par" \notin m[i].chg
    OBVIOUS
  <2> HIDE DEF g
  <2>3. ~Lacks(E, L, lo, i) /\ ~Lacks(E, L, lo, g) /\ (Now(E, L, k, g) => Now(E, M, k, g))
    BY <2>1, <1>7, AfterwardsKnown
  <2>4. CASE u.par = g /\ Known(g, E, L, k, lo)
    <3>1. SaysPar(M, i, g)
      BY <2>4, <1>6
    <3>2. CASE Told(L, g)
      <4>1. SaysPar(r, i, g)
        <5>1. u \in OfPar(i, g)
          BY <2>4, <1>0, Apart
        <5>2. OfPar(i, g) \in SUBSET About(i) /\ WithPar(i) \cup Removal(i) \in SUBSET About(i)
          BY AboutSets
        <5> QED
          BY <5>1, <5>2 DEF Alone, SaysPar, Says
      <4>2. Led(M, i, g)
        BY <3>2, <4>1, <2>1, LedNew
      <4> QED
        BY <4>2 DEF Follows
    <3>3. CASE Now(E, L, k, g)
      BY <3>1, <3>3, <2>3 DEF Follows
    <3> QED
      BY <2>3, <2>4, <3>2, <3>3 DEF Known
  <2>5. CASE u.par = 0 /\ g = m[i].par /\ "par" \notin m[i].chg
    <3>1. Follows(i, g, E, L, k)
      BY <2>3, <2>5 DEF MirrorAt, FollowAt
    <3>2. Led(L, i, g) => Led(M, i, g)
      <4>1. u \notin WithPar(i) \cup Removal(i)
        BY <2>5, <1>0, Apart
      <4>2. WithPar(i) \cup Removal(i) \in SUBSET About(i) /\ {} \in SUBSET About(i)
        BY AboutSets
      <4>3. ~Ends(r, WithPar(i) \cup Removal(i), {})
        BY <4>1, <4>2 DEF Alone
      <4> QED
        BY <2>1, <4>3, HoldsEnds, LedAdded
    <3> QED
      BY <3>1, <3>2, <2>3, <2>5, <1>5, <1>6, <1>7 DEF Follows
  <2> QED
    BY <2>2, <2>4, <2>5
<1> QED
  BY <1>8, <1>9, <1>10 DEF MirrorAt

-----------------------------------------------------------------------------
(* The group of a parameter *)

\* Packets about others keep the kind of a parameter ...
LEMMA GroupVoid ==
    ASSUME NEW s, NEW q, NEW r, Adds(s, q, r), NEW i, Void(r, i),
           NEW m, NEW n, n[i].group = m[i].group, NEW k, GroupAt(i, m, q, k)
    PROVE  GroupAt(i, n, s, k)
<1>1. Cleared(s, i) <=> Cleared(q, i)
  BY SaidVoid
<1>2. \A b : SaysOther(s, i, b) <=> SaysOther(q, i, b)
  BY SaidVoid
<1> QED
  BY <1>1, <1>2 DEF GroupAt, HasNow

\* ... and one about it that is of its kind.
LEMMA GroupAlone ==
    ASSUME NEW s, NEW q, NEW r, Adds(s, q, r), NEW i, NEW u \in Updates, u.id = i, Alone(r, i, u),
           NEW m, NEW n, n[i].group = m[i].group, u.group = m[i].group, NEW k, GroupAt(i, m, q, k)
    PROVE  GroupAt(i, n, s, k)
<1>0. u \in FromServers /\ u.cmd = "UPDATE"
  BY PacketFields DEF FromServers
<1>1. Cleared(s, i) <=> Cleared(q, i)
  BY <1>0, SaidAlone
<1>2. \A b : SaysOther(s, i, b) <=> u.group # b \/ SaysOther(q, i, b)
  BY <1>0, SaidAlone
<1> QED
  BY <1>1, <1>2 DEF GroupAt, HasNow

\* What a flush clears is no parameter of the server.
LEMMA FlushClears ==
    ASSUME NEW m \in Params, NEW d \in SUBSET Id, \A i \in d : m[i] # None, removed \in SUBSET Id,
           NEW i \in Id \ removed
    PROVE  ~Cleared(FlushPackets(m, d), i)
<1>1. CASE i \in d
  <2>1. /\ UPDATE(i, m[i], m[i].chg) \in FromServers
        /\ Alone(FlushPackets(m, d), i, UPDATE(i, m[i], m[i].chg))
    BY <1>1, FlushSays
  <2>2. m[i] \in Parameter
    BY <1>1 DEF Params
  <2>3. m[i].chg \in SUBSET Fields
    BY <2>2 DEF Parameter
  <2>4. UPDATE(i, m[i], m[i].chg).id = i /\ UPDATE(i, m[i], m[i].chg).cmd = "UPDATE"
    BY <2>2, <2>3, UpdateFields
  <2> QED
    BY <2>1, <2>4, AloneClears
<1>2. CASE i \notin d
  <2>1. Void(FlushPackets(m, d), i)
    BY <1>2, FlushSays
  <2> QED
    BY <2>1, VoidClears
<1> QED
  BY <1>1, <1>2

\* A flush sends what is flagged, and a group is known before what is in it.
LEMMA MirrorFlushAt ==
    ASSUME NEW m \in Params, NEW d \in SUBSET Id, \A i \in d : m[i] # None, removed \in SUBSET Id,
           NEW sp, ServerOK(m, d, removed, sp),
           NEW M, NEW L, Adds(M, L, FlushPackets(m, d)),
           NEW E, NEW k, NEW lo, NEW ow, Mirror(m, sp, E, L, k, lo, ow),
           NEW i \in Id \ sp, m[i] # None, i \in d
    PROVE  MirrorAt(i, [m EXCEPT ![i] = Sent(m[i])], sp, E, M, k, lo, ow)
<1> DEFINE u == UPDATE(i, m[i], m[i].chg)
           n == [m EXCEPT ![i] = Sent(m[i])]
           r == FlushPackets(m, d)
<1>1. m[i] \in Parameter /\ m[i].chg \in SUBSET Fields
  BY DEF Params, Parameter
<1>2. n[i] = Sent(m[i])
  BY DEF Params
<1>3. n[i].par = m[i].par /\ n[i].val = m[i].val /\ n[i].chg = {}
  BY <1>1, <1>2, SentFields
<1>4. i \notin removed
  BY DEF ServerOK
<1>5. Alone(r, i, u)
  BY <1>4, FlushSays
<1>6. u \in Updates /\ u.id = i /\ (u.label <=> "label" \in m[i].chg /\ m[i].label)
      /\ ("val" \in m[i].chg => u.val = m[i].val) /\ ("val" \notin m[i].chg => u.val = None)
      /\ ("par" \in m[i].chg => u.par = m[i].par) /\ ("par" \notin m[i].chg => u.par = 0)
  BY <1>1, UpdateFields
<1>7. ServerParam(i, m, d, sp)
  BY DEF ServerOK
<1>8. MirrorAt(i, m, sp, E, L, k, lo, ow)
  BY DEF Mirror
<1>9. "label" \in n[i].chg \/ "label" \notin m[i].chg \/ u.label
  BY <1>6, <1>7 DEF ServerParam
<1>10. m[i].val # None
  BY <1>1, Values DEF Parameter
<1>11. \/ u.val # None /\ u.val = n[i].val
       \/ u.val = None /\ n[i].val = m[i].val /\ "val" \notin m[i].chg
  BY <1>6, <1>10, <1>3
<1>12. ASSUME n[i].par # 0, n[i].par \notin sp
       PROVE  /\ ~Cleared(r, n[i].par)
              /\ \/ u.par = n[i].par /\ Known(n[i].par, E, L, k, lo)
                 \/ u.par = 0 /\ n[i].par = m[i].par /\ "par" \notin m[i].chg
  <2> DEFINE g == n[i].par
  <2>1. g \in Id /\ g = m[i].par /\ g \notin sp
    BY <1>1, <1>3, <1>12 DEF Parameter
  <2>2. m[g] # None /\ "label" \notin m[g].chg
    BY <1>7, <1>12, <2>1 DEF ServerParam, IsGroup
  <2>3. g \notin removed
    BY <2>2 DEF ServerOK
  <2>4. ~Cleared(r, g)
    BY <2>1, <2>3, FlushClears
  <2>5. LabelAt(g, m, E, L, k, lo)
    BY <2>1, <2>2 DEF Mirror, MirrorAt
  <2>6. Known(g, E, L, k, lo)
    BY <2>2, <2>5, LabelKnown
  <2> HIDE DEF g, u, r, n
  <2> QED
    BY <1>6, <2>1, <2>4, <2>6 DEF g
<1> HIDE DEF u, r, n
<1>13. Adds(M, L, r)
  BY DEF r
<1>14. MirrorAt(i, n, sp, E, M, k, lo, ow)
  BY <1>5, <1>6, <1>8, <1>9, <1>11, <1>12, <1>13, MirrorAlone
<1> QED
  BY <1>14 DEF n

\* What is said of a parameter depends on that parameter only.
LEMMA MirrorLocal ==
    ASSUME NEW i, NEW m, NEW n, n[i] = m[i], NEW sp, NEW E, NEW L, NEW k, NEW lo, NEW ow,
           MirrorAt(i, m, sp, E, L, k, lo, ow)
    PROVE  MirrorAt(i, n, sp, E, L, k, lo, ow)
BY DEF MirrorAt, LabelAt, ValueAt, FollowAt, Silent

\* update() tells everything that is pending.
LEMMA MirrorFlush ==
    ASSUME NEW m \in Params, NEW d \in SUBSET Id, \A i \in d : m[i] # None, removed \in SUBSET Id,
           NEW sp, ServerOK(m, d, removed, sp),
           NEW M, NEW L, Adds(M, L, FlushPackets(m, d)),
           NEW E, NEW k, NEW lo, NEW ow, Mirror(m, sp, E, L, k, lo, ow),
           NEW n, \A i \in Id : n[i] = IF i \in d THEN Sent(m[i]) ELSE m[i]
    PROVE  Mirror(n, sp, E, M, k, lo, ow)
<1> SUFFICES ASSUME NEW i \in Id \ sp, n[i] # None
             PROVE  MirrorAt(i, n, sp, E, M, k, lo, ow)
  BY DEF Mirror
<1>1. m[i] # None
  OBVIOUS
<1>2. CASE i \in d
  <2> DEFINE x == [m EXCEPT ![i] = Sent(m[i])]
  <2>1. MirrorAt(i, x, sp, E, M, k, lo, ow)
    BY <1>1, <1>2, MirrorFlushAt
  <2>2. n[i] = x[i]
    BY <1>2 DEF Params
  <2> HIDE DEF x
  <2> QED
    BY <2>1, <2>2, MirrorLocal
<1>3. CASE i \notin d
  <2>1. i \notin removed
    BY <1>1 DEF ServerOK
  <2>2. Void(FlushPackets(m, d), i)
    BY <1>3, <2>1, FlushSays
  <2>3. MirrorAt(i, m, sp, E, L, k, lo, ow)
    BY <1>1 DEF Mirror
  <2>4. ASSUME m[i].par # 0, m[i].par \notin sp
        PROVE  ~Cleared(FlushPackets(m, d), m[i].par)
    <3>1. m[i].par \in Id
      BY <1>1, <2>4 DEF Params, Parameter
    <3>2. m[m[i].par] # None
      BY <1>1, <2>4 DEF ServerOK, ServerParam, IsGroup
    <3>3. m[i].par \notin removed
      BY <3>2 DEF ServerOK
    <3> QED
      BY <3>1, <3>3, FlushClears
  <2>5. MirrorAt(i, m, sp, E, M, k, lo, ow)
    BY <2>2, <2>3, <2>4, MirrorVoid
  <2> QED
    BY <1>3, <2>5, MirrorLocal
<1> QED
  BY <1>2, <1>3

\* update() sends a parameter as what it is.
LEMMA GroupFlush ==
    ASSUME NEW m \in Params, NEW d \in SUBSET Id, \A i \in d : m[i] # None, removed \in SUBSET Id,
           NEW sp, ServerOK(m, d, removed, sp),
           NEW s, NEW q, Adds(s, q, FlushPackets(m, d)), NEW k, Grouped(m, sp, q, k),
           NEW n, \A i \in Id : n[i] = IF i \in d THEN Sent(m[i]) ELSE m[i]
    PROVE  Grouped(n, sp, s, k)
<1> SUFFICES ASSUME NEW i \in Id \ sp, n[i] # None
             PROVE  GroupAt(i, n, s, k)
  BY DEF Grouped
<1>1. m[i] # None /\ m[i] \in Parameter /\ m[i].chg \in SUBSET Fields
  BY DEF Params, Parameter
<1>2. n[i].group = m[i].group
  BY <1>1, SentFields
<1>3. i \notin removed
  BY <1>1 DEF ServerOK
<1>4. GroupAt(i, m, q, k)
  BY <1>1 DEF Grouped
<1>5. CASE i \in d
  <2> DEFINE u == UPDATE(i, m[i], m[i].chg)
  <2>1. Alone(FlushPackets(m, d), i, u)
    BY <1>3, <1>5, FlushSays
  <2>2. u \in Updates /\ u.id = i /\ u.group = m[i].group
    BY <1>1, UpdateFields
  <2> HIDE DEF u
  <2> QED
    BY <1>2, <1>4, <2>1, <2>2, GroupAlone
<1>6. CASE i \notin d
  <2>1. Void(FlushPackets(m, d), i)
    BY <1>3, <1>6, FlushSays
  <2> QED
    BY <1>2, <1>4, <2>1, GroupVoid
<1> QED
  BY <1>5, <1>6

-----------------------------------------------------------------------------
(* The mirror of one client in a step *)

MirrorOf(c) ==
    /\ Grouped(params, spoilt, toClient[c], cache[c])
    /\ ~Uninitialized(c) => Mirror(params, spoilt, Before(c), Late(c), cache[c], lost[c], Owes(c))
    /\ Owned(c)

\* The invariant of the mirror in parts, now and next.
LEMMA MirrorInvParts ==
    /\ MirrorInv <=> \A c \in on : MirrorOf(c)
    /\ MirrorInv' <=> \A c \in on' : /\ Grouped(params', spoilt', toClient'[c], cache'[c])
                                     /\ ~Uninitialized(c)' => Mirror(params', spoilt', Before(c)', Late(c)',
                                                                     cache'[c], lost'[c], Owes(c)')
                                     /\ Owned(c)'
BY DEF MirrorInv, MirrorOf

\* What is under way to a client, cut where _init was sent ...
LEMMA CutClient ==
    ASSUME TypeOK, NEW c \in Clients
    PROVE  /\ Before(c) \in Seq(FromServers) /\ Late(c) \in Seq(FromServers)
           /\ Len(Before(c)) = early[c]
           /\ toClient[c] \in Seq(FromServers) /\ toClient[c] = Before(c) \o Late(c)
<1>1. toClient[c] \in Seq(FromServers) /\ early[c] \in Nat /\ early[c] <= Len(toClient[c])
  BY TypeParts DEF ClientTyped
<1> QED
  BY <1>1, CutJoins DEF Before, Late

\* ... in the next state, too.
LEMMA CutNext ==
    ASSUME NEW c, NEW E \in Seq(FromServers), NEW L \in Seq(FromServers),
           toClient'[c] = E \o L, early'[c] = Len(E)
    PROVE  Before(c)' = E /\ Late(c)' = L
<1>1. SubSeq(E \o L, 1, Len(E)) = E /\ SubSeq(E \o L, Len(E) + 1, Len(E \o L)) = L
  BY JoinCuts
<1>2. Before(c)' = SubSeq(E \o L, 1, Len(E)) /\ Late(c)' = SubSeq(E \o L, Len(E) + 1, Len(E \o L))
  BY DEF Before, Late
<1> QED
  BY <1>1, <1>2

\* Nothing of early is left: all is late.
LEMMA AllLate ==
    ASSUME TypeOK, NEW c \in Clients, early[c] = 0
    PROVE  Before(c) = <<>> /\ Late(c) = toClient[c]
<1>1. Before(c) \in Seq(FromServers) /\ Late(c) \in Seq(FromServers) /\ Len(Before(c)) = 0
      /\ toClient[c] = Before(c) \o Late(c)
  BY CutClient
<1>2. Before(c) = <<>>
  BY <1>1, EmptySeq
<1> QED
  BY <1>1, <1>2, ConcatEmptySeq

\* What is added comes after the cut.
LEMMA LateAdded ==
    ASSUME TypeOK, NEW c \in Clients, NEW r, Adds(toClient'[c], toClient[c], r), early'[c] = early[c]
    PROVE  Before(c)' = Before(c) /\ Adds(Late(c)', Late(c), r)
<1> DEFINE E == Before(c)
           L == Late(c)
<1>1. E \in Seq(FromServers) /\ L \in Seq(FromServers) /\ Len(E) = early[c] /\ toClient[c] = E \o L
  BY CutClient
<1>2. r \in Seq(FromServers) /\ toClient'[c] = toClient[c] \o r
  BY DEF Adds
<1> HIDE DEF E, L
<1>3. (E \o L) \o r = E \o (L \o r) /\ L \o r \in Seq(FromServers)
  BY <1>1, <1>2, ConcatAssociative, ConcatProperties
<1>4. Before(c)' = E /\ Late(c)' = L \o r
  BY <1>1, <1>2, <1>3, CutNext
<1> QED
  BY <1>1, <1>2, <1>4 DEF Adds, E, L

\* A client that nothing happens to owes the same.
LEMMA OwesSame ==
    ASSUME NEW c, cache'[c] = cache[c], gone'[c] = gone[c], own'[c] = own[c], toServer'[c] = toServer[c]
    PROVE  Owes(c)' = Owes(c) /\ (Owned(c)' <=> Owned(c)) /\ (Uninitialized(c)' <=> Uninitialized(c))
BY DEF Owes, Owned, Uninitialized

\* Packet p says what the server has.
Carries(p, m) ==
    LET r == m[p.id]
    IN  /\ r # None /\ "label" \notin r.chg /\ p.group = r.group
        /\ p.val # None => p.val = r.val \/ "val" \in r.chg
        /\ p.par # 0 => r.par = p.par /\ m[p.par] # None /\ "label" \notin m[p.par].chg

\* A forwarded packet that carries what the server has keeps the mirror ...
LEMMA ForwardedMirror ==
    ASSUME NEW p \in Updates, NEW M, NEW L, NEW r, Adds(M, L, r), r = <<>> \/ r = <<p>>,
           NEW m \in Params, NEW sp, NEW E, NEW k, NEW lo, NEW ow, Mirror(m, sp, E, L, k, lo, ow),
           p.id \notin sp => Carries(p, m)
    PROVE  Mirror(m, sp, E, M, k, lo, ow)
<1>1. CASE r = <<>>
  BY <1>1, AddsNothing
<1>2. CASE r = <<p>>
  <2> SUFFICES ASSUME NEW i \in Id \ sp, m[i] # None
               PROVE  MirrorAt(i, m, sp, E, M, k, lo, ow)
    BY DEF Mirror
  <2>1. MirrorAt(i, m, sp, E, L, k, lo, ow) /\ Adds(M, L, <<p>>)
    BY <1>2 DEF Mirror
  <2>2. p \in FromServers /\ p.cmd = "UPDATE" /\ p.id \in Id /\ p.par \in Id \cup {0}
    BY PacketFields DEF FromServers
  <2>3. \A g : ~Cleared(<<p>>, g)
    <3>1. \A g : p \notin Removal(g)
      BY <2>2 DEF Removal
    <3> QED
      BY <3>1, ViewOne DEF Cleared
  <2>4. CASE p.id # i
    <3>1. Void(<<p>>, i)
      BY <2>2, <2>4, OneAlone
    <3> QED
      BY <2>1, <2>3, <3>1, MirrorVoid
  <2>5. CASE p.id = i
    <3>1. Alone(<<p>>, i, p)
      BY <2>2, <2>5, OneAlone
    <3>2. Carries(p, m)
      BY <2>5
    <3>3. "label" \notin m[i].chg
      BY <2>5, <3>2 DEF Carries
    <3>4. \/ "val" \in m[i].chg
          \/ p.val # None /\ p.val = m[i].val
          \/ p.val = None /\ m[i].val = m[i].val /\ "val" \notin m[i].chg
      BY <2>5, <3>2 DEF Carries
    <3>5. ASSUME m[i].par # 0, m[i].par \notin sp, "par" \notin m[i].chg
          PROVE  /\ ~Cleared(<<p>>, m[i].par)
                 /\ \/ p.par = m[i].par /\ Known(m[i].par, E, L, k, lo)
                    \/ p.par = 0 /\ m[i].par = m[i].par /\ "par" \notin m[i].chg
      <4>1. CASE p.par = 0
        BY <2>3, <3>5, <4>1
      <4>2. CASE p.par # 0
        <5> DEFINE g == p.par
        <5>1. m[i].par = g /\ m[g] # None /\ "label" \notin m[g].chg /\ g \in Id
          BY <2>2, <2>5, <3>2, <4>2 DEF Carries
        <5>2. LabelAt(g, m, E, L, k, lo)
          BY <5>1, <3>5 DEF Mirror, MirrorAt
        <5>3. Known(g, E, L, k, lo)
          BY <5>1, <5>2, LabelKnown
        <5> QED
          BY <2>3, <5>1, <5>3
      <4> QED
        BY <4>1, <4>2
    <3> QED
      BY <2>1, <2>5, <3>1, <3>3, <3>4, <3>5, MirrorAlone
  <2> QED
    BY <2>4, <2>5
<1> QED
  BY <1>1, <1>2

\* ... and the kind of the parameter.
LEMMA ForwardedGroup ==
    ASSUME NEW p \in Updates, NEW s, NEW q, NEW r, Adds(s, q, r), r = <<>> \/ r = <<p>>,
           NEW m, NEW sp, NEW k, Grouped(m, sp, q, k), p.id \notin sp => Carries(p, m)
    PROVE  Grouped(m, sp, s, k)
<1>1. CASE r = <<>>
  BY <1>1, AddsNothing
<1>2. CASE r = <<p>>
  <2> SUFFICES ASSUME NEW i \in Id \ sp, m[i] # None
               PROVE  GroupAt(i, m, s, k)
    BY DEF Grouped
  <2>1. GroupAt(i, m, q, k) /\ Adds(s, q, <<p>>) /\ p \in FromServers
    BY <1>2 DEF Grouped, FromServers
  <2>2. CASE p.id # i
    <3>1. Void(<<p>>, i)
      BY <2>1, <2>2, OneAlone
    <3> QED
      BY <2>1, <3>1, GroupVoid
  <2>3. CASE p.id = i
    <3>1. Alone(<<p>>, i, p)
      BY <2>1, <2>3, OneAlone
    <3>2. p.group = m[i].group
      BY <2>3 DEF Carries
    <3> QED
      BY <2>1, <2>3, <3>1, <3>2, GroupAlone
  <2> QED
    BY <2>2, <2>3
<1> QED
  BY <1>1, <1>2

\* A change of the server that keeps the kind of everything.
LEMMA GroupSame ==
    ASSUME NEW m, NEW n, NEW sp, NEW tp, sp \subseteq tp, NEW q, NEW k, Grouped(m, sp, q, k),
           \A i \in Id \ tp : n[i] # None => m[i] # None /\ n[i].group = m[i].group
    PROVE  Grouped(n, tp, q, k)
<1> SUFFICES ASSUME NEW i \in Id \ tp, n[i] # None PROVE GroupAt(i, n, q, k)
  BY DEF Grouped
<1>1. GroupAt(i, m, q, k) /\ n[i].group = m[i].group
  BY DEF Grouped
<1> QED
  BY <1>1 DEF GroupAt

\* A change of the server whose news is pending keeps the mirror.
LEMMA MirrorSame ==
    ASSUME NEW m, NEW n, NEW sp, NEW tp, sp \subseteq tp, NEW E, NEW L, NEW k, NEW lo, NEW ow, NEW vw,
           Mirror(m, sp, E, L, k, lo, ow),
           \A i \in Id \ tp : n[i] # None =>
             /\ m[i] # None
             /\ "label" \in m[i].chg => "label" \in n[i].chg
             /\ "val" \in n[i].chg \/ ("val" \notin m[i].chg /\ n[i].val = m[i].val)
             /\ "par" \in n[i].chg \/ ("par" \notin m[i].chg /\ n[i].par = m[i].par)
             /\ i \in ow => i \in vw \/ "val" \in n[i].chg \/ k[i].val = n[i].val
    PROVE  Mirror(n, tp, E, L, k, lo, vw)
<1> SUFFICES ASSUME NEW i \in Id \ tp, n[i] # None PROVE MirrorAt(i, n, tp, E, L, k, lo, vw)
  BY DEF Mirror
<1>1. MirrorAt(i, m, sp, E, L, k, lo, ow)
  BY DEF Mirror
<1> QED
  BY <1>1, MirrorKept

\* What ServeUpdate makes of the parameter, flagging what is new
LEMMA AssignSays ==
    ASSUME ServerTyped, ServerOK(params, dirty, removed, spoilt), NEW p \in Updates, params[p.id] # None
    PROVE  LET r == params[p.id]
               n == Updated(p)[p.id]
           IN  /\ n # None /\ n \in Parameter /\ n.group = r.group
               /\ "label" \in n.chg <=> "label" \in r.chg
               /\ "val" \in n.chg \/ ("val" \notin r.chg /\ n.val = r.val)
               /\ "par" \in n.chg \/ ("par" \notin r.chg /\ n.par = r.par)
               /\ p.val # None /\ p.group = r.group => n.val = p.val
               /\ IsGroup(params, p.par) => n.par = p.par
<1> DEFINE r == params[p.id]
           n == Updated(p)[p.id]
<1>1. n = Assign(params, r, p) /\ params \in Params
  BY UpdatedType DEF ServerTyped
<1>2. p.id \in Id
  BY PacketFields
<1>3. r \in Parameter
  BY <1>1, <1>2 DEF Params
<1>4. r.label
  BY <1>2 DEF ServerOK, ServerParam
<1> HIDE DEF n, r
<1>5. /\ n \in Parameter
      /\ n.group = r.group
      /\ NewVal(r, p) => n.val = p.val
      /\ ~NewVal(r, p) => n.val = r.val
      /\ NewPar(params, r, p) => n.par = p.par
      /\ ~NewPar(params, r, p) => n.par = r.par
      /\ "label" \in n.chg <=> "label" \in r.chg \/ NewLabel(r, p)
      /\ "val" \in n.chg <=> "val" \in r.chg \/ NewVal(r, p)
      /\ "par" \in n.chg <=> "par" \in r.chg \/ NewPar(params, r, p)
  BY <1>1, <1>3, AssignFields
<1>6. ~NewLabel(r, p)
  BY <1>4 DEF NewLabel
<1>7. n # None
  BY <1>5, Values
<1>8. p.val # None /\ p.group = r.group => n.val = p.val
  BY <1>5 DEF NewVal
<1>9. IsGroup(params, p.par) => n.par = p.par
  BY <1>5 DEF NewPar
<1> QED
  BY <1>5, <1>6, <1>7, <1>8, <1>9 DEF n, r

\* Assigning a packet at the server: its news is pending, and its value is no longer owed.
LEMMA AssignMirror ==
    ASSUME ServerTyped, ServerOK(params, dirty, removed, spoilt), NEW p \in Updates,
           NEW sp, spoilt \subseteq sp, p.id \notin sp => ~Spoils(p),
           NEW E, NEW L, NEW k, NEW lo, NEW ow, NEW vw, Mirror(params, spoilt, E, L, k, lo, ow),
           \A i \in ow : i \in vw \/ (i = p.id /\ p.val # None /\ k[i].val = p.val)
    PROVE  Mirror(Updated(p), sp, E, L, k, lo, vw)
<1> DEFINE m == Updated(p)
<1>1. /\ \A j \in Id : m[j] = None <=> params[j] = None
      /\ \A j \in Id : j # p.id => m[j] = params[j]
  BY UpdatedType DEF ServerTyped
<1>2. ASSUME NEW i \in Id \ sp, m[i] # None
      PROVE  /\ params[i] # None
             /\ "label" \in params[i].chg => "label" \in m[i].chg
             /\ "val" \in m[i].chg \/ ("val" \notin params[i].chg /\ m[i].val = params[i].val)
             /\ "par" \in m[i].chg \/ ("par" \notin params[i].chg /\ m[i].par = params[i].par)
             /\ i \in ow => i \in vw \/ "val" \in m[i].chg \/ k[i].val = m[i].val
  <2>1. params[i] # None
    BY <1>1, <1>2
  <2>2. CASE i # p.id
    <3>1. m[i] = params[i]
      BY <1>1, <2>2
    <3> QED
      BY <2>1, <2>2, <3>1
  <2>3. CASE i = p.id
    <3>1. ~Spoils(p)
      BY <2>3
    <3>2. p.group = params[i].group
      BY <2>3, <3>1 DEF Spoils
    <3>3. /\ "label" \in m[i].chg <=> "label" \in params[i].chg
          /\ "val" \in m[i].chg \/ ("val" \notin params[i].chg /\ m[i].val = params[i].val)
          /\ "par" \in m[i].chg \/ ("par" \notin params[i].chg /\ m[i].par = params[i].par)
          /\ p.val # None /\ p.group = params[i].group => m[i].val = p.val
      BY <2>1, <2>3, AssignSays
    <3> HIDE DEF m
    <3> QED
      BY <2>1, <3>2, <3>3
  <2> QED
    BY <2>2, <2>3
<1> HIDE DEF m
<1>3. Mirror(m, sp, E, L, k, lo, vw)
  BY <1>2, MirrorSame
<1> QED
  BY <1>3 DEF m

\* Assigning a packet keeps the kind of a parameter.
LEMMA AssignGroup ==
    ASSUME ServerTyped, ServerOK(params, dirty, removed, spoilt), NEW p \in Updates,
           NEW sp, spoilt \subseteq sp, NEW q, NEW k, Grouped(params, spoilt, q, k)
    PROVE  Grouped(Updated(p), sp, q, k)
<1> DEFINE m == Updated(p)
<1>1. /\ \A j \in Id : m[j] = None <=> params[j] = None
      /\ \A j \in Id : j # p.id => m[j] = params[j]
  BY UpdatedType DEF ServerTyped
<1>2. params[p.id] # None => m[p.id].group = params[p.id].group
  BY AssignSays
<1> HIDE DEF m
<1>3. \A i \in Id \ sp : m[i] # None => params[i] # None /\ m[i].group = params[i].group
  BY <1>1, <1>2
<1>4. Grouped(m, sp, q, k)
  BY <1>3, GroupSame
<1> QED
  BY <1>4 DEF m

\* An update that spoils nothing says what the server has then.
LEMMA AssignCarries ==
    ASSUME ServerTyped, ServerOK(params, dirty, removed, spoilt), NEW p \in Updates, ~Spoils(p)
    PROVE  Carries(p, Updated(p)) /\ (p.val # None => p.val = Updated(p)[p.id].val)
<1> DEFINE m == Updated(p)
<1>1. /\ \A j \in Id : m[j] = None <=> params[j] = None
      /\ \A j \in Id : j # p.id => m[j] = params[j]
  BY UpdatedType DEF ServerTyped
<1>2. /\ params[p.id] # None /\ "label" \notin params[p.id].chg /\ params[p.id].group = p.group
      /\ p.par # 0 => IsGroup(params, p.par) /\ params[p.par] # None /\ "label" \notin params[p.par].chg
  BY DEF Spoils, Announced
<1>3. /\ m[p.id] # None /\ m[p.id].group = params[p.id].group
      /\ "label" \in m[p.id].chg <=> "label" \in params[p.id].chg
      /\ p.val # None /\ p.group = params[p.id].group => m[p.id].val = p.val
      /\ IsGroup(params, p.par) => m[p.id].par = p.par
  BY <1>2, AssignSays
<1>4. p.par \in Id \cup {0}
  BY PacketFields
<1> HIDE DEF m
<1>5. p.par # 0 => m[p.id].par = p.par /\ m[p.par] # None /\ "label" \notin m[p.par].chg
  <2>1. CASE p.par = p.id
    BY <1>2, <1>3, <2>1
  <2>2. CASE p.par # p.id
    BY <1>1, <1>2, <1>3, <1>4, <2>2
  <2> QED
    BY <2>1, <2>2
<1>6. Carries(p, m) /\ (p.val # None => p.val = m[p.id].val)
  BY <1>2, <1>3, <1>5 DEF Carries
<1> QED
  BY <1>6 DEF m

-----------------------------------------------------------------------------
(* The handler of packets, and the mirror *)

\* Of what a client owes, the server takes at most the value of the packet.
LEMMA OwesServed ==
    ASSUME TypeOK, NEW c \in Clients, FromClient(c), Taken(c), NEW p, p = Head(toServer[c]), p \in Updates,
           UNCHANGED <<cache, gone, own>>, NEW e \in Clients
    PROVE  /\ \A i \in Owes(e) : i \in Owes(e)' \/ (i = p.id /\ p.val # None /\ cache[e][i].val = p.val)
           /\ Owned(e)' <=> Owned(e)
           /\ ~Uninitialized(e)' => ~Uninitialized(e)
<1>1. /\ \A d \in Clients : toServer'[d] = IF d = c THEN Tail(toServer[c]) ELSE toServer[d]
      /\ toServer[c] \in Seq(FromClients) /\ toServer[c] # <<>>
  BY HeadToServer, TypeParts DEF ClientTyped, FromClient
<1>2. CASE e # c
  <2>1. Owes(e)' = Owes(e) /\ (Owned(e)' <=> Owned(e)) /\ (Uninitialized(e)' <=> Uninitialized(e))
    BY <1>1, <1>2, OwesSame
  <2> QED
    BY <2>1
<1>3. CASE e = c
  <2> DEFINE t == Tail(toServer[c])
  <2>1. t \in Seq(FromClients) /\ toServer[c] = <<p>> \o t /\ toServer'[c] = t /\ p \in FromClients
    BY <1>1, Halves
  <2>2. ~Uninitialized(c)
    BY PacketFields DEF Uninitialized
  <2>3. Owned(c)' <=> Owned(c)
    BY DEF Owned
  <2>4. ASSUME NEW i \in Owes(c)
        PROVE  i \in Owes(c)' \/ (i = p.id /\ p.val # None /\ cache[c][i].val = p.val)
    <3>1. CASE i \in own[c]
      BY <3>1 DEF Owes
    <3>2. CASE i \notin own[c]
      <4> DEFINE S == OfVal(i, cache[c][i].val)
                 B == WithVal(i)
      <4>1. i \in Id /\ gone[c][i] = None /\ cache[c][i] # None /\ Ends(toServer[c], S, B)
        BY <2>4, <3>2 DEF Owes, Sending
      <4> HIDE DEF S, B, t
      <4>2. <<p>> \in Seq(FromClients)
        BY <2>1
      <4>3. Ends(t, S, B) \/ Ends(<<p>>, S, B)
        <5> DEFINE h == <<p>>
        <5>1. h \in Seq(FromClients) /\ t \in Seq(FromClients) /\ Ends(h \o t, S, B)
          BY <2>1, <4>1, <4>2
        <5> HIDE DEF h
        <5>2. Ends(t, S, B) \/ Ends(h, S, B)
          BY <5>1, EndsConcat
        <5> QED
          BY <5>2 DEF h
      <4>4. CASE Ends(t, S, B)
        BY <2>1, <4>1, <4>4 DEF S, B, Owes, Sending
      <4>5. CASE p \in S
        BY <4>5 DEF S, OfVal, WithVal, Updating
      <4> QED
        BY <4>3, <4>4, <4>5, ViewOne
    <3> QED
      BY <3>1, <3>2
  <2> QED
    BY <1>3, <2>2, <2>3, <2>4
<1> QED
  BY <1>2, <1>3

\* _update and the forwarding keep the mirror.
LEMMA ServeUpdateMirror == ASSUME TypeOK, TreeInv, MirrorInv, NEW c \in Clients, ServeUpdate(c) PROVE MirrorInv'
<1>1. ServerTyped /\ ServerOK(params, dirty, removed, spoilt) /\ params \in Params
  BY TypeParts, TreeInvParts DEF ServerTyped
<1> DEFINE p == Head(toServer[c])
           m == Updated(p)
           d == ServeUpdateDirty(p)
<1>2. /\ p \in Updates /\ FromClient(c) /\ Taken(c)
      /\ \/ ServeQuietly(c, p)
         \/ Callback(p) /\ ServeFlushing(c, p)
         \/ Callback(p) /\ \E v \in Vals \ {m[p.id].val} : ServeSetting(c, p, v)
      /\ spoilt' = IF Spoils(p) THEN spoilt \cup {p.id} ELSE spoilt
      /\ on' = on /\ cache' = cache /\ gone' = gone /\ own' = own /\ lost' = lost /\ early' = early
  BY ServeUpdateParts DEF client
<1>3. \A e \in Clients : Raw(c)[e] = <<>> \/ Raw(c)[e] = <<p>>
  BY DEF Raw
<1>4. spoilt \subseteq spoilt' /\ (p.id \notin spoilt' => ~Spoils(p))
  BY <1>2
<1>5. ServerOK(m, d, removed, spoilt')
  BY <1>1, <1>2, <1>4, AssignServer
<1>6. ASSUME NEW e \in on
      PROVE  /\ Grouped(m, spoilt', toClient[e], cache[e])
             /\ ~Uninitialized(e)' => Mirror(m, spoilt', Before(e), Late(e), cache[e], lost[e], Owes(e)')
             /\ Owned(e)'
             /\ e \in Clients /\ toClient[e] \in Seq(FromServers)
  <2>1. e \in Clients /\ MirrorOf(e)
    BY <1>1, <1>6, MirrorInvParts DEF ServerTyped
  <2>2. /\ \A i \in Owes(e) : i \in Owes(e)' \/ (i = p.id /\ p.val # None /\ cache[e][i].val = p.val)
        /\ Owned(e)' <=> Owned(e)
        /\ ~Uninitialized(e)' => ~Uninitialized(e)
    BY <1>2, <2>1, OwesServed
  <2>3. toClient[e] \in Seq(FromServers)
    BY <2>1, TypeParts DEF ClientTyped
  <2>4. Grouped(m, spoilt', toClient[e], cache[e])
    BY <2>1, <1>1, <1>2, <1>4, AssignGroup DEF MirrorOf
  <2>5. ASSUME ~Uninitialized(e)'
        PROVE  Mirror(m, spoilt', Before(e), Late(e), cache[e], lost[e], Owes(e)')
    <3>1. Mirror(params, spoilt, Before(e), Late(e), cache[e], lost[e], Owes(e))
      BY <2>1, <2>2, <2>5 DEF MirrorOf
    <3> DEFINE ow == Owes(e)
               vw == Owes(e)'
               k == cache[e]
    <3>2. \A i \in ow : i \in vw \/ (i = p.id /\ p.val # None /\ k[i].val = p.val)
      BY <2>2
    <3> HIDE DEF ow, vw, k, p, m
    <3>3. Mirror(params, spoilt, Before(e), Late(e), k, lost[e], ow)
      BY <3>1 DEF ow, k
    <3>4. Mirror(Updated(p), spoilt', Before(e), Late(e), k, lost[e], vw)
      BY <1>1, <1>2, <1>4, <3>2, <3>3, AssignMirror
    <3> QED
      BY <3>4 DEF vw, k, m
  <2> QED
    BY <2>1, <2>2, <2>3, <2>4, <2>5 DEF MirrorOf
<1> HIDE DEF p
<1>7. /\ m \in Params
      /\ \A j \in Id : m[j] = None <=> params[j] = None
      /\ p.id \in Id /\ p.par \in Id \cup {0}
  BY <1>1, <1>2, UpdatedType, PacketFields
<1>8. d \in SUBSET Id /\ removed \in SUBSET Id /\ \A i \in d : m[i] # None
  <2>1. dirty \subseteq {i \in Id : params[i] # None} /\ removed \subseteq Id
    BY <1>1 DEF ServerTyped
  <2>2. m[p.id] # params[p.id] => params[p.id] # None
    BY <1>1, <1>2, UpdatedType
  <2> QED
    BY <2>1, <2>2, <1>7 DEF ServeUpdateDirty
<1>9. p.id \notin spoilt' => Carries(p, m) /\ (p.val # None => p.val = m[p.id].val)
  BY <1>1, <1>2, <1>4, AssignCarries
<1>10. \A e \in Clients : Raw(c)[e] \in Seq(FromServers)
  <2>1. <<>> \in Seq(FromServers) /\ p \in FromServers
    BY <1>2 DEF FromServers
  <2>2. <<p>> \in Seq(FromServers)
    BY <2>1
  <2> QED
    BY <2>1, <2>2, <1>3
<1> HIDE DEF m, d
\* Only the value of the parameter differs from that of m.
<1>11. ASSUME NEW n \in Params,
              \A j \in Id : /\ n[j] = None <=> m[j] = None
                            /\ m[j] # None => /\ n[j].group = m[j].group
                                              /\ n[j].par = m[j].par /\ n[j].chg = m[j].chg
                                              /\ n[j].val = m[j].val \/ "val" \in m[j].chg,
              params' = n, Deliver(Raw(c))
       PROVE  MirrorInv'
  <2>1. p.id \notin spoilt' => Carries(p, n)
    BY <1>7, <1>9, <1>11 DEF Carries
  <2>2. ASSUME NEW e \in on
        PROVE  /\ Grouped(n, spoilt', toClient'[e], cache'[e])
               /\ ~Uninitialized(e)' => Mirror(n, spoilt', Before(e)', Late(e)', cache'[e], lost'[e], Owes(e)')
               /\ Owned(e)'
    <3> DEFINE r == Raw(c)[e]
    <3>1. e \in Clients /\ toClient[e] \in Seq(FromServers) /\ r \in Seq(FromServers) /\ (r = <<>> \/ r = <<p>>)
      BY <2>2, <1>3, <1>6, <1>10
    <3>2. Adds(toClient'[e], toClient[e], r)
      BY <2>2, <3>1, <1>11, Delivered
    <3>3. Before(e)' = Before(e) /\ Adds(Late(e)', Late(e), r)
      BY <3>1, <3>2, <1>2, LateAdded
    <3> HIDE DEF r
    <3>4. Grouped(n, spoilt', toClient[e], cache[e])
      <4>1. \A j \in Id \ spoilt' : n[j] # None => m[j] # None /\ n[j].group = m[j].group
        BY <1>11
      <4>2. Grouped(m, spoilt', toClient[e], cache[e])
        BY <2>2, <1>6
      <4> QED
        BY <4>1, <4>2, GroupSame
    <3>5. Grouped(n, spoilt', toClient'[e], cache[e])
      BY <3>1, <3>2, <3>4, <2>1, <1>2, ForwardedGroup
    <3>6. ASSUME ~Uninitialized(e)'
          PROVE  Mirror(n, spoilt', Before(e), Late(e)', cache[e], lost[e], Owes(e)')
      <4>1. Mirror(m, spoilt', Before(e), Late(e), cache[e], lost[e], Owes(e)')
        BY <2>2, <3>6, <1>6
      <4> DEFINE vw == Owes(e)'
      <4> HIDE DEF vw
      <4>2. Mirror(m, spoilt', Before(e), Late(e), cache[e], lost[e], vw)
        BY <4>1 DEF vw
      <4>3. Mirror(n, spoilt', Before(e), Late(e), cache[e], lost[e], vw)
        BY <4>2, <1>11, MirrorSame
      <4>4. Mirror(n, spoilt', Before(e), Late(e)', cache[e], lost[e], vw)
        BY <4>3, <3>1, <3>3, <2>1, <1>2, <1>11, ForwardedMirror
      <4> QED
        BY <4>4 DEF vw
    <3> QED
      BY <2>2, <3>3, <3>5, <3>6, <1>2, <1>6
  <2> QED
    BY <2>2, <1>2, <1>11, MirrorInvParts
<1>12. CASE ServeQuietly(c, p)
  <2>1. params' = m /\ Deliver(Raw(c))
    BY <1>12 DEF ServeQuietly, m
  <2> QED
    BY <2>1, <1>7, <1>11
<1>13. CASE Callback(p) /\ \E v \in Vals \ {m[p.id].val} : ServeSetting(c, p, v)
  <2>1. PICK v \in Vals : ServeSetting(c, p, v)
    BY <1>13
  <2>2. params' = [m EXCEPT ![p.id].val = v] /\ Deliver(Raw(c))
    BY <2>1 DEF ServeSetting, m
  <2>3. m[p.id] # None /\ "val" \in m[p.id].chg
    BY <1>7, <1>13 DEF Callback, m
  <2> DEFINE x == [m[p.id] EXCEPT !.val = v]
  <2>4. m[p.id] \in Parameter
    BY <2>3, <1>7 DEF Params
  <2>5. /\ x.group = m[p.id].group /\ x.par = m[p.id].par /\ x.chg = m[p.id].chg
        /\ x \in Parameter
    BY <2>4 DEF Parameter
  <2>6. params' = [m EXCEPT ![p.id] = x]
    BY <2>2, <1>7 DEF Params
  <2> HIDE DEF x
  <2>7. /\ x # None /\ params'[p.id] = x /\ \A j \in Id : j # p.id => params'[j] = m[j]
        /\ params' \in Params
    BY <2>5, <2>6, <1>7, Values DEF Params
  <2>8. \A j \in Id : /\ params'[j] = None <=> m[j] = None
                      /\ m[j] # None => /\ params'[j].group = m[j].group
                                        /\ params'[j].par = m[j].par /\ params'[j].chg = m[j].chg
                                        /\ params'[j].val = m[j].val \/ "val" \in m[j].chg
    BY <2>3, <2>5, <2>7
  <2> QED
    BY <2>2, <2>7, <2>8, <1>11
<1>14. CASE ServeFlushing(c, p)
  <2> DEFINE f == FlushPackets(m, d)
             out == [e \in Clients |-> f \o Raw(c)[e]]
  <2>1. params' = [i \in Id |-> IF i \in d THEN Sent(m[i]) ELSE m[i]] /\ Deliver(out)
    BY <1>14 DEF ServeFlushing, m, d
  <2>2. f \in Seq(FromServers)
    BY <1>7, <1>8, FlushType
  <2>3. \A e \in Clients : out[e] = f \o Raw(c)[e]
    OBVIOUS
  <2> HIDE DEF out
  <2>4. (\A i \in Id : params'[i] = IF i \in d THEN Sent(m[i]) ELSE m[i]) /\ params' \in Params
    BY <2>1, <1>7, <1>8, AllSent
  <2>5. p.id \notin spoilt' => Carries(p, params')
    <3>1. \A i \in Id : m[i] # None => /\ params'[i] # None /\ params'[i].par = m[i].par
                                       /\ params'[i].group = m[i].group /\ params'[i].val = m[i].val
                                       /\ "label" \in params'[i].chg => "label" \in m[i].chg
      <4>1. \A i \in Id : m[i] # None => m[i] \in Parameter
        BY <1>7 DEF Params
      <4> QED
        BY <4>1, <2>4, SentFields, Values
    <3> QED
      BY <3>1, <1>7, <1>9 DEF Carries
  <2>6. ASSUME NEW e \in on
        PROVE  /\ Grouped(params', spoilt', toClient'[e], cache'[e])
               /\ ~Uninitialized(e)' => Mirror(params', spoilt', Before(e)', Late(e)', cache'[e], lost'[e], Owes(e)')
               /\ Owned(e)'
    <3> DEFINE q == toClient[e]
               t == q \o f
               r == Raw(c)[e]
               M == Late(e) \o f
    <3>1. e \in Clients /\ q \in Seq(FromServers) /\ Late(e) \in Seq(FromServers)
      BY <2>6, <1>6, CutClient
    <3>2. r \in Seq(FromServers) /\ (r = <<>> \/ r = <<p>>)
      BY <3>1, <1>3, <1>10
    <3>3. out[e] = f \o r
      BY <2>3, <3>1
    <3> HIDE DEF f, r
    <3>4. out[e] \in Seq(FromServers)
      BY <2>2, <3>2, <3>3, ConcatProperties
    <3>5. Adds(toClient'[e], q, out[e])
      BY <2>1, <2>6, <3>4, Delivered
    <3>6. Before(e)' = Before(e) /\ Adds(Late(e)', Late(e), out[e])
      BY <3>1, <3>5, <1>2, LateAdded
    <3>7. Adds(toClient'[e], t, r) /\ Adds(t, q, f)
      <4>1. toClient'[e] = q \o (f \o r)
        BY <3>3, <3>5 DEF Adds
      <4> HIDE DEF q
      <4>2. (q \o f) \o r = q \o (f \o r) /\ q \o f \in Seq(FromServers)
        BY <2>2, <3>1, <3>2, ConcatAssociative, ConcatProperties
      <4> QED
        BY <2>2, <3>1, <3>2, <4>1, <4>2 DEF Adds
    <3>8. Adds(Late(e)', M, r) /\ Adds(M, Late(e), f)
      <4>1. Late(e)' = Late(e) \o (f \o r)
        BY <3>3, <3>6 DEF Adds
      <4>2. (Late(e) \o f) \o r = Late(e) \o (f \o r) /\ Late(e) \o f \in Seq(FromServers)
        BY <2>2, <3>1, <3>2, ConcatAssociative, ConcatProperties
      <4> QED
        BY <2>2, <3>1, <3>2, <4>1, <4>2 DEF Adds
    <3> HIDE DEF t, M, q
    <3>9. Grouped(m, spoilt', q, cache[e])
      BY <2>6, <1>6 DEF q
    <3>10. Grouped(params', spoilt', t, cache[e])
      BY <2>4, <3>7, <3>9, <1>5, <1>7, <1>8, GroupFlush DEF f
    <3>11. Grouped(params', spoilt', toClient'[e], cache[e])
      BY <3>2, <3>7, <3>10, <2>5, <1>2, ForwardedGroup
    <3>12. ASSUME ~Uninitialized(e)'
           PROVE  Mirror(params', spoilt', Before(e), Late(e)', cache[e], lost[e], Owes(e)')
      <4> DEFINE vw == Owes(e)'
      <4>1. Mirror(m, spoilt', Before(e), Late(e), cache[e], lost[e], vw)
        BY <2>6, <3>12, <1>6
      <4> HIDE DEF vw
      <4>2. Mirror(params', spoilt', Before(e), M, cache[e], lost[e], vw)
        BY <4>1, <2>4, <3>8, <1>5, <1>7, <1>8, MirrorFlush DEF f
      <4>3. Mirror(params', spoilt', Before(e), Late(e)', cache[e], lost[e], vw)
        BY <4>2, <2>4, <2>5, <3>2, <3>8, <1>2, ForwardedMirror
      <4> QED
        BY <4>3 DEF vw
    <3> QED
      BY <2>6, <3>6, <3>11, <3>12, <1>2, <1>6
  <2> QED
    BY <2>6, <1>2, MirrorInvParts
<1> QED
  BY <1>2, <1>12, <1>13, <1>14

-----------------------------------------------------------------------------
(* The application of the server, connections, and the mirror *)

\* The server's application does something.
LEMMA ServerMirror ==
    ASSUME TypeOK, MirrorInv, UNCHANGED <<on, client, net, spoilt>>,
           \A e \in on : \A i \in Id \ spoilt : params'[i] # None =>
             \/ /\ params[i] # None /\ params'[i].group = params[i].group
                /\ "label" \in params[i].chg => "label" \in params'[i].chg
                /\ "val" \in params'[i].chg \/ ("val" \notin params[i].chg /\ params'[i].val = params[i].val)
                /\ "par" \in params'[i].chg \/ ("par" \notin params[i].chg /\ params'[i].par = params[i].par)
             \/ /\ GroupAt(i, params', toClient[e], cache[e])
                /\ MirrorAt(i, params', spoilt, Before(e), Late(e), cache[e], lost[e], Owes(e))
    PROVE  MirrorInv'
<1>1. /\ on' = on /\ spoilt' = spoilt /\ cache' = cache /\ gone' = gone /\ own' = own /\ lost' = lost
      /\ early' = early /\ toServer' = toServer /\ toClient' = toClient
  BY DEF client, net
<1>2. ASSUME NEW e \in on
      PROVE  /\ Grouped(params', spoilt', toClient'[e], cache'[e])
             /\ ~Uninitialized(e)' => Mirror(params', spoilt', Before(e)', Late(e)', cache'[e], lost'[e], Owes(e)')
             /\ Owned(e)'
  <2>1. Before(e)' = Before(e) /\ Late(e)' = Late(e)
    BY <1>1 DEF Before, Late
  <2>2. Owes(e)' = Owes(e) /\ (Owned(e)' <=> Owned(e)) /\ (Uninitialized(e)' <=> Uninitialized(e))
    BY <1>1, OwesSame
  <2>3. MirrorOf(e)
    BY <1>2, MirrorInvParts
  <2> DEFINE q == toClient[e]
             k == cache[e]
             E == Before(e)
             L == Late(e)
             lo == lost[e]
             ow == Owes(e)
  <2> HIDE DEF q, k, E, L, lo, ow
  <2>4. Grouped(params', spoilt, q, k)
    <3> SUFFICES ASSUME NEW i \in Id \ spoilt, params'[i] # None PROVE GroupAt(i, params', q, k)
      BY DEF Grouped
    <3>1. CASE params[i] # None /\ params'[i].group = params[i].group
      <4>1. GroupAt(i, params, q, k)
        BY <2>3, <3>1 DEF MirrorOf, Grouped, q, k
      <4> QED
        BY <3>1, <4>1 DEF GroupAt
    <3>2. CASE GroupAt(i, params', toClient[e], cache[e])
      BY <3>2 DEF q, k
    <3> QED
      BY <1>2, <3>1, <3>2
  <2>5. ASSUME ~Uninitialized(e)
        PROVE  Mirror(params', spoilt, E, L, k, lo, ow)
    <3> SUFFICES ASSUME NEW i \in Id \ spoilt, params'[i] # None
                 PROVE  MirrorAt(i, params', spoilt, E, L, k, lo, ow)
      BY DEF Mirror
    <3>1. CASE /\ params[i] # None
               /\ "label" \in params[i].chg => "label" \in params'[i].chg
               /\ "val" \in params'[i].chg \/ ("val" \notin params[i].chg /\ params'[i].val = params[i].val)
               /\ "par" \in params'[i].chg \/ ("par" \notin params[i].chg /\ params'[i].par = params[i].par)
      <4>1. MirrorAt(i, params, spoilt, E, L, k, lo, ow)
        BY <2>3, <2>5, <3>1 DEF MirrorOf, Mirror, E, L, k, lo, ow
      <4> QED
        BY <3>1, <4>1, MirrorKept
    <3>2. CASE MirrorAt(i, params', spoilt, Before(e), Late(e), cache[e], lost[e], Owes(e))
      BY <3>2 DEF E, L, k, lo, ow
    <3> QED
      BY <1>2, <3>1, <3>2
  <2> QED
    BY <1>1, <2>1, <2>2, <2>3, <2>4, <2>5 DEF MirrorOf, q, k, E, L, lo, ow
<1> QED
  BY <1>1, <1>2, MirrorInvParts

\* What is new was not said yet.
LEMMA NewMirror ==
    ASSUME NEW i, NEW m, m[i].chg \subseteq Fields, {"label", "par"} \subseteq m[i].chg,
           "val" \notin m[i].chg => m[i].val = Default,
           NEW E \in Seq(FromServers), NEW L \in Seq(FromServers), NEW q, q = E \o L,
           NEW k, ~Told(q, i), ~HasNow(q, k, i),
           NEW sp, NEW lo, NEW ow
    PROVE  GroupAt(i, m, q, k) /\ MirrorAt(i, m, sp, E, L, k, lo, ow)
<1>1. /\ Cleared(q, i) <=> Cleared(E, i) \/ Cleared(L, i)
      /\ Told(q, i) <=> Told(L, i) \/ (Told(E, i) /\ ~Cleared(L, i))
  BY JoinSays
<1>2. GroupAt(i, m, q, k)
  BY SaysTells DEF GroupAt
<1>3. ~TellsVal(L, i)
  BY <1>1, SaysTells
<1>4. k[i] = None \/ Cleared(E, i) \/ Cleared(L, i)
  BY <1>1 DEF HasNow
<1>5. ValueAt(i, m, E, L, k, lo, ow)
  BY <1>1, <1>3, <1>4 DEF ValueAt, Silent
<1> QED
  BY <1>2, <1>5 DEF MirrorAt, LabelAt, FollowAt

\* Creating a parameter keeps it: nobody was told of the id.
LEMMA CreateMirror ==
    ASSUME TypeOK, TreeInv, MirrorInv,
           NEW p \in Id \cup {0}, NEW isGroup \in BOOLEAN, NEW v \in Vals, Create(p, isGroup, v)
    PROVE  MirrorInv'
<1> DEFINE new == [group |-> isGroup, label |-> TRUE, par |-> p, val |-> v,
                   chg |-> {"label", "par"} \cup IF v = Default THEN {} ELSE {"val"}]
<1>1. PICK i \in Id : /\ params[i] = None /\ i \notin removed
                      /\ params' = [params EXCEPT ![i] = new]
  BY DEF Create
<1>2. UNCHANGED <<on, client, net, spoilt>>
  BY DEF Create
<1>3. /\ new.chg \subseteq Fields /\ {"label", "par"} \subseteq new.chg
      /\ "val" \notin new.chg => new.val = Default
  BY DEF Fields
<1> HIDE DEF new
<1>4. params'[i] = new /\ \A j \in Id : j # i => params'[j] = params[j]
  BY <1>1, TypeParts DEF ServerTyped, Params
<1>5. ASSUME NEW e \in on, i \notin spoilt
      PROVE  /\ GroupAt(i, params', toClient[e], cache[e])
             /\ MirrorAt(i, params', spoilt, Before(e), Late(e), cache[e], lost[e], Owes(e))
  <2> DEFINE q == toClient[e]
             k == cache[e]
             E == Before(e)
             L == Late(e)
  <2>1. e \in Clients
    BY TypeParts DEF ServerTyped
  <2>2. E \in Seq(FromServers) /\ L \in Seq(FromServers) /\ q = E \o L
    BY <2>1, CutClient
  <2>3. ~Told(q, i) /\ ~HasNow(q, k, i)
    BY <1>1, <1>5, TreeInvParts DEF Tree, TreeAt
  <2> HIDE DEF q, k, E, L
  <2>4. \A lo, ow : GroupAt(i, params', q, k) /\ MirrorAt(i, params', spoilt, E, L, k, lo, ow)
    BY <1>3, <1>4, <2>2, <2>3, NewMirror
  <2> QED
    BY <2>4 DEF q, k, E, L
<1>6. ASSUME NEW e \in on, NEW j \in Id \ spoilt, params'[j] # None, j # i
      PROVE  /\ params[j] # None /\ params'[j].group = params[j].group
             /\ "label" \in params[j].chg => "label" \in params'[j].chg
             /\ "val" \in params'[j].chg \/ ("val" \notin params[j].chg /\ params'[j].val = params[j].val)
             /\ "par" \in params'[j].chg \/ ("par" \notin params[j].chg /\ params'[j].par = params[j].par)
  BY <1>4, <1>6
<1> QED
  BY <1>2, <1>5, <1>6, ServerMirror

\* A parameter changes, and the change is pending.
LEMMA ChangedMirror ==
    ASSUME TypeOK, MirrorInv, NEW i \in Id, params[i] # None, NEW x,
           params' = [params EXCEPT ![i] = x], x.group = params[i].group,
           "label" \in params[i].chg => "label" \in x.chg,
           "val" \in x.chg \/ ("val" \notin params[i].chg /\ x.val = params[i].val),
           "par" \in x.chg \/ ("par" \notin params[i].chg /\ x.par = params[i].par),
           UNCHANGED <<on, client, net, spoilt>>
    PROVE  MirrorInv'
<1>1. params'[i] = x /\ \A j \in Id : j # i => params'[j] = params[j]
  BY TypeParts DEF ServerTyped, Params
<1>2. ASSUME NEW j \in Id, params'[j] # None
      PROVE  /\ params[j] # None /\ params'[j].group = params[j].group
             /\ "label" \in params[j].chg => "label" \in params'[j].chg
             /\ "val" \in params'[j].chg \/ ("val" \notin params[j].chg /\ params'[j].val = params[j].val)
             /\ "par" \in params'[j].chg \/ ("par" \notin params[j].chg /\ params'[j].par = params[j].par)
  BY <1>1, <1>2
<1> QED
  BY <1>2, ServerMirror

\* Setting a value keeps the mirror.
LEMMA SetValueMirror ==
    ASSUME TypeOK, MirrorInv, NEW i \in Id, NEW v \in Vals, SetValue(i, v)
    PROVE  MirrorInv'
<1>1. /\ params[i] # None
      /\ params' = [params EXCEPT ![i].val = v, ![i].chg = @ \cup {"val"}]
      /\ UNCHANGED <<on, client, net, spoilt>>
  BY DEF SetValue
<1>2. params \in Params /\ params[i] \in Parameter
  BY <1>1, TypeParts DEF ServerTyped, Params
<1> DEFINE r == params[i]
           x == [r EXCEPT !.val = v, !.chg = @ \cup {"val"}]
<1>3. x.group = r.group /\ x.par = r.par /\ x.chg = r.chg \cup {"val"}
  BY <1>2 DEF Parameter
<1>4. params' = [params EXCEPT ![i] = x]
  BY <1>1, <1>2 DEF Params
<1> HIDE DEF x
<1>5. /\ "label" \in r.chg => "label" \in x.chg
      /\ "val" \in x.chg
      /\ "par" \in x.chg \/ ("par" \notin r.chg /\ x.par = r.par)
  BY <1>3
<1> QED
  BY <1>1, <1>3, <1>4, <1>5, ChangedMirror

\* addChild keeps it.
LEMMA MoveMirror ==
    ASSUME TypeOK, MirrorInv, NEW i \in Id, NEW g \in Id, Move(i, g)
    PROVE  MirrorInv'
<1>1. /\ params[i] # None
      /\ params' = [params EXCEPT ![i].par = g, ![i].chg = @ \cup {"par"}]
      /\ UNCHANGED <<on, client, net, spoilt>>
  BY DEF Move
<1>2. params \in Params /\ params[i] \in Parameter
  BY <1>1, TypeParts DEF ServerTyped, Params
<1> DEFINE r == params[i]
           x == [r EXCEPT !.par = g, !.chg = @ \cup {"par"}]
<1>3. x.group = r.group /\ x.val = r.val /\ x.chg = r.chg \cup {"par"}
  BY <1>2 DEF Parameter
<1>4. params' = [params EXCEPT ![i] = x]
  BY <1>1, <1>2 DEF Params
<1> HIDE DEF x
<1>5. /\ "label" \in r.chg => "label" \in x.chg
      /\ "val" \in x.chg \/ ("val" \notin r.chg /\ x.val = r.val)
      /\ "par" \in x.chg
  BY <1>3
<1> QED
  BY <1>1, <1>3, <1>4, <1>5, ChangedMirror

\* removeParameter keeps it.
LEMMA RemoveParameterMirror ==
    ASSUME TypeOK, MirrorInv, NEW i \in Id, RemoveParameter(i)
    PROVE  MirrorInv'
<1>1. params' = [params EXCEPT ![i] = None] /\ UNCHANGED <<on, client, net, spoilt>>
  BY DEF RemoveParameter
<1>2. \A j \in Id : params'[j] # None => params'[j] = params[j]
  BY <1>1, TypeParts DEF ServerTyped, Params
<1>3. ASSUME NEW j \in Id, params'[j] # None
      PROVE  /\ params[j] # None /\ params'[j].group = params[j].group
             /\ "label" \in params[j].chg => "label" \in params'[j].chg
             /\ "val" \in params'[j].chg \/ ("val" \notin params[j].chg /\ params'[j].val = params[j].val)
             /\ "par" \in params'[j].chg \/ ("par" \notin params[j].chg /\ params'[j].par = params[j].par)
  BY <1>2, <1>3
<1> QED
  BY <1>1, <1>3, ServerMirror

\* update() keeps it.
LEMMA UpdateMirror == ASSUME TypeOK, TreeInv, MirrorInv, Update PROVE MirrorInv'
<1>1. ServerTyped /\ ServerOK(params, dirty, removed, spoilt)
  BY TypeParts, TreeInvParts
<1>2. /\ params \in Params /\ dirty \in SUBSET Id /\ removed \in SUBSET Id /\ \A i \in dirty : params[i] # None
      /\ on \subseteq Clients
  BY <1>1 DEF ServerTyped
<1> DEFINE out == [c \in Clients |-> FlushPackets(params, dirty)]
<1>3. /\ Deliver(out) /\ params' = [i \in Id |-> IF i \in dirty THEN Sent(params[i]) ELSE params[i]]
      /\ spoilt' = spoilt /\ on' = on /\ cache' = cache /\ gone' = gone /\ own' = own /\ lost' = lost
      /\ early' = early /\ toServer' = toServer
  BY DEF Update, client
<1>4. FlushPackets(params, dirty) \in Seq(FromServers) /\ \A c \in Clients : out[c] = FlushPackets(params, dirty)
  BY <1>2, FlushType
<1> HIDE DEF out
<1>5. \A i \in Id : params'[i] = IF i \in dirty THEN Sent(params[i]) ELSE params[i]
  BY <1>3
<1>6. ASSUME NEW e \in on
      PROVE  /\ Grouped(params', spoilt', toClient'[e], cache'[e])
             /\ ~Uninitialized(e)' => Mirror(params', spoilt', Before(e)', Late(e)', cache'[e], lost'[e], Owes(e)')
             /\ Owned(e)'
  <2>1. e \in Clients /\ MirrorOf(e)
    BY <1>2, <1>6, MirrorInvParts
  <2>2. Adds(toClient'[e], toClient[e], FlushPackets(params, dirty))
    <3>1. Adds(toClient'[e], toClient[e], out[e])
      BY <1>3, <1>4, <1>6, <2>1, Delivered
    <3> QED
      BY <3>1, <1>4, <2>1
  <2>3. Before(e)' = Before(e) /\ Adds(Late(e)', Late(e), FlushPackets(params, dirty))
    BY <1>3, <2>1, <2>2, LateAdded
  <2>4. Owes(e)' = Owes(e) /\ (Owned(e)' <=> Owned(e)) /\ (Uninitialized(e)' <=> Uninitialized(e))
    BY <1>3, OwesSame
  <2>5. Grouped(params', spoilt, toClient'[e], cache[e])
    BY <1>1, <1>2, <1>5, <2>1, <2>2, GroupFlush DEF MirrorOf
  <2>6. ASSUME ~Uninitialized(e)
        PROVE  Mirror(params', spoilt, Before(e), Late(e)', cache[e], lost[e], Owes(e))
    <3>1. Mirror(params, spoilt, Before(e), Late(e), cache[e], lost[e], Owes(e))
      BY <2>1, <2>6 DEF MirrorOf
    <3> QED
      BY <1>1, <1>2, <1>5, <2>3, <3>1, MirrorFlush
  <2> QED
    BY <1>3, <2>1, <2>3, <2>4, <2>5, <2>6 DEF MirrorOf
<1> QED
  BY <1>3, <1>6, MirrorInvParts

\* Connecting keeps it: the client is not initialised.
LEMMA ConnectMirror == ASSUME TypeOK, MirrorInv, NEW c \in Clients, Connect(c) PROVE MirrorInv'
<1>1. /\ c \notin on /\ on' = on \cup {c}
      /\ params' = params /\ spoilt' = spoilt /\ cache' = cache /\ gone' = gone /\ own' = own /\ lost' = lost
      /\ early' = early /\ toClient' = toClient /\ toServer' = [toServer EXCEPT ![c] = <<INITIALIZE>>]
  BY DEF Connect, server, client
<1>2. /\ toClient[c] = <<>> /\ own[c] = {} /\ \A i \in Id : cache[c][i] = None
      /\ \A e \in on : toServer'[e] = toServer[e]
      /\ toServer'[c] = <<INITIALIZE>>
  BY <1>1, TypeParts DEF ClientTyped, ClientsMapped, ServerTyped
<1>3. ASSUME NEW e \in on
      PROVE  /\ Grouped(params', spoilt', toClient'[e], cache'[e])
             /\ ~Uninitialized(e)' => Mirror(params', spoilt', Before(e)', Late(e)', cache'[e], lost'[e], Owes(e)')
             /\ Owned(e)'
  <2>1. Owes(e)' = Owes(e) /\ (Owned(e)' <=> Owned(e)) /\ (Uninitialized(e)' <=> Uninitialized(e))
    BY <1>1, <1>2, <1>3, OwesSame
  <2>2. Before(e)' = Before(e) /\ Late(e)' = Late(e)
    BY <1>1 DEF Before, Late
  <2>3. MirrorOf(e)
    BY <1>3, MirrorInvParts
  <2> QED
    BY <1>1, <2>1, <2>2, <2>3 DEF MirrorOf
<1>4. Grouped(params', spoilt', toClient'[c], cache'[c])
  BY <1>1, <1>2, SaidNothing DEF Grouped, GroupAt, HasNow
<1>5. Uninitialized(c)'
  BY <1>2 DEF Uninitialized, INITIALIZE, Packet
<1>6. Owned(c)'
  BY <1>1, <1>2 DEF Owned
<1> QED
  BY <1>1, <1>3, <1>4, <1>5, <1>6, MirrorInvParts

\* Disconnecting keeps it.
LEMMA DisconnectMirror == ASSUME TypeOK, MirrorInv, NEW c \in Clients, Disconnect(c) PROVE MirrorInv'
<1>1. /\ on' = on \ {c} /\ params' = params /\ spoilt' = spoilt
      /\ toServer' = [toServer EXCEPT ![c] = <<>>] /\ toClient' = [toClient EXCEPT ![c] = <<>>]
      /\ cache' = [cache EXCEPT ![c] = [i \in Id |-> None]] /\ gone' = [gone EXCEPT ![c] = [i \in Id |-> None]]
      /\ own' = [own EXCEPT ![c] = {}] /\ early' = [early EXCEPT ![c] = 0] /\ lost' = [lost EXCEPT ![c] = {}]
  BY DEF Disconnect, server, Forget
<1>2. ClientsMapped /\ on \subseteq Clients
  BY TypeParts DEF ServerTyped
<1>3. ASSUME NEW e \in on'
      PROVE  /\ Grouped(params', spoilt', toClient'[e], cache'[e])
             /\ ~Uninitialized(e)' => Mirror(params', spoilt', Before(e)', Late(e)', cache'[e], lost'[e], Owes(e)')
             /\ Owned(e)'
  <2>1. /\ e \in on /\ toServer'[e] = toServer[e] /\ toClient'[e] = toClient[e] /\ cache'[e] = cache[e]
        /\ gone'[e] = gone[e] /\ own'[e] = own[e] /\ early'[e] = early[e] /\ lost'[e] = lost[e]
    BY <1>1, <1>2, <1>3 DEF ClientsMapped
  <2>2. Owes(e)' = Owes(e) /\ (Owned(e)' <=> Owned(e)) /\ (Uninitialized(e)' <=> Uninitialized(e))
    BY <2>1, OwesSame
  <2>3. Before(e)' = Before(e) /\ Late(e)' = Late(e)
    BY <2>1 DEF Before, Late
  <2>4. MirrorOf(e)
    BY <2>1, MirrorInvParts
  <2> QED
    BY <1>1, <2>1, <2>2, <2>3, <2>4 DEF MirrorOf
<1> QED
  BY <1>3, MirrorInvParts

\* The mirror holds at the start.
LEMMA MirrorInit == Init => MirrorInv
BY DEF Init, MirrorInv

-----------------------------------------------------------------------------
(* _init makes the mirror *)

\* _init says everything about what it reaches.
LEMMA InitMirror ==
    ASSUME params \in Params, ServerOK(params, dirty, removed, spoilt),
           NEW i \in Id, Reached(i), ~Short(i),
           NEW E, NEW k, NEW sp, NEW lo, NEW ow
    PROVE  /\ MirrorAt(i, params, sp, E, InitPackets, k, lo, ow)
           /\ Shown(i) \in Updates /\ Shown(i).id = i /\ Shown(i).group = params[i].group
           /\ Alone(InitPackets, i, Shown(i))
<1> DEFINE u == Shown(i)
           r == params[i]
           L == InitPackets
<1>1. r # None /\ r \in Parameter
  BY DEF Reached, Present, Params
<1>2. u = UPDATE(i, r, Fields)
  BY DEF Shown
<1>3. L \in Seq(FromServers) /\ Alone(L, i, u) /\ u \in FromServers
  BY InitSays
<1> HIDE DEF u, L
<1>4. /\ u \in Updates /\ u.id = i /\ u.cmd = "UPDATE" /\ u.group = r.group /\ (u.label <=> r.label)
      /\ u.val = r.val
  BY <1>1, <1>2, UpdateFields DEF Fields
<1>5. PICK q : Adds(L, q, L)
  <2>1. Adds(L, <<>>, L)
    BY <1>3, ConcatEmptySeq DEF Adds
  <2> QED
    BY <2>1
<1>6. /\ SaysLabel(L, i) <=> u.cmd = "UPDATE" /\ (u.label \/ SaysLabel(q, i))
      /\ \A v : SaysVal(L, i, v) <=>
            u.cmd = "UPDATE" /\ v # None /\ (u.val = v \/ (u.val = None /\ SaysVal(q, i, v)))
  <2>1. u \in FromServers /\ u.id = i /\ Alone(L, i, u) /\ Adds(L, q, L)
    BY <1>3, <1>4, <1>5
  <2> QED
    BY <2>1, SaidAlone
<1>7. r.label /\ r.val # None
  BY <1>1, Values DEF ServerOK, ServerParam, Parameter
<1>8. LabelAt(i, params, E, L, k, lo)
  BY <1>4, <1>6, <1>7 DEF LabelAt
<1>9. ValueAt(i, params, E, L, k, lo, ow)
  BY <1>4, <1>6, <1>7 DEF ValueAt
<1>10. ASSUME r.par # 0 PROVE Led(L, i, r.par)
  <2>1. r.par \in Id
    BY <1>1, <1>10 DEF Parameter
  <2> QED
    BY <2>1, LedInit DEF L
<1>11. FollowAt(i, params, sp, E, L, k, lo)
  BY <1>10 DEF FollowAt, Follows
<1> QED
  BY <1>3, <1>4, <1>8, <1>9, <1>11 DEF MirrorAt, u, L

\* _init makes the mirror, or spoils what it could not send.
LEMMA ServeInitializeMirror ==
    ASSUME TypeOK, TreeInv, MirrorInv, NEW c \in Clients, ServeInitialize(c)
    PROVE  MirrorInv'
<1>1. ServerTyped /\ ServerOK(params, dirty, removed, spoilt) /\ params \in Params
  BY TypeParts, TreeInvParts DEF ServerTyped
<1> DEFINE out == [d \in Clients |-> IF d = c THEN InitPackets ELSE <<>>]
           short == {i \in Id : params[i] # None /\ Short(i)}
<1>2. /\ Deliver(out) /\ FromClient(c) /\ Taken(c)
      /\ params' = [i \in Id |-> IF i \in short THEN Sent(params[i]) ELSE params[i]]
      /\ spoilt' = spoilt \cup short \cup {i \in Id : params[i] # None /\ i \notin Below(params, 0)}
      /\ early' = [early EXCEPT ![c] = Len(toClient[c])]
      /\ on' = on /\ cache' = cache /\ gone' = gone /\ own' = own /\ lost' = lost
  BY DEF ServeInitialize
<1>3. InitPackets \in Seq(FromServers)
  BY <1>1, InitType
<1>4. \A d \in Clients : out[d] = IF d = c THEN InitPackets ELSE <<>>
  OBVIOUS
<1>5. ASSUME NEW i \in Id \ spoilt', params'[i] # None
      PROVE  params'[i] = params[i] /\ i \notin spoilt /\ Reached(i) /\ ~Short(i)
  <2>1. i \notin short /\ params'[i] = params[i] /\ i \notin spoilt
    BY <1>2, <1>5
  <2>2. i \in Below(params, 0) /\ i \in Present /\ ~Short(i)
    BY <1>2, <1>5, <2>1 DEF Present
  <2> QED
    BY <2>1, <2>2, InitPacketsShow DEF Reached
<1> HIDE DEF out, short
<1>6. /\ \A e \in Clients \ {c} : toServer'[e] = toServer[e] /\ early'[e] = early[e]
      /\ early'[c] = Len(toClient[c])
      /\ spoilt \subseteq spoilt' /\ on \subseteq Clients /\ c \in on
  <2>1. \A e \in Clients : toServer'[e] = IF e = c THEN Tail(toServer[c]) ELSE toServer[e]
    BY <1>2, HeadToServer
  <2> QED
    BY <1>1, <1>2, <2>1, TypeParts DEF ClientsMapped, ServerTyped, FromClient
<1>7. ASSUME NEW e \in on
      PROVE  e \in Clients /\ MirrorOf(e) /\ Adds(toClient'[e], toClient[e], out[e])
  <2>1. e \in Clients /\ MirrorOf(e)
    BY <1>6, <1>7, MirrorInvParts
  <2>2. out[e] \in Seq(FromServers)
    <3>1. <<>> \in Seq(FromServers)
      OBVIOUS
    <3> QED
      BY <2>1, <3>1, <1>3, <1>4
  <2> QED
    BY <1>2, <2>1, <2>2, Delivered
<1>8. ASSUME NEW e \in on, e # c
      PROVE  /\ Grouped(params', spoilt', toClient'[e], cache'[e])
             /\ ~Uninitialized(e)' => Mirror(params', spoilt', Before(e)', Late(e)', cache'[e], lost'[e], Owes(e)')
             /\ Owned(e)'
  <2>1. toClient'[e] = toClient[e]
    BY <1>4, <1>7, <1>8, AddsNothing
  <2>2. Before(e)' = Before(e) /\ Late(e)' = Late(e)
    BY <1>6, <1>7, <1>8, <2>1 DEF Before, Late
  <2>3. Owes(e)' = Owes(e) /\ (Owned(e)' <=> Owned(e)) /\ (Uninitialized(e)' <=> Uninitialized(e))
    BY <1>2, <1>6, <1>7, <1>8, OwesSame
  <2>4. Grouped(params', spoilt', toClient[e], cache[e])
    <3>1. Grouped(params, spoilt, toClient[e], cache[e])
      BY <1>7, <1>8 DEF MirrorOf
    <3> QED
      BY <3>1, <1>5, <1>6, GroupSame
  <2>5. ASSUME ~Uninitialized(e)
        PROVE  Mirror(params', spoilt', Before(e), Late(e), cache[e], lost[e], Owes(e))
    <3>1. Mirror(params, spoilt, Before(e), Late(e), cache[e], lost[e], Owes(e))
      BY <1>7, <1>8, <2>5 DEF MirrorOf
    <3>2. \A i \in Id \ spoilt' : params'[i] # None =>
             /\ params[i] # None
             /\ "label" \in params[i].chg => "label" \in params'[i].chg
             /\ "val" \in params'[i].chg \/ ("val" \notin params[i].chg /\ params'[i].val = params[i].val)
             /\ "par" \in params'[i].chg \/ ("par" \notin params[i].chg /\ params'[i].par = params[i].par)
      BY <1>5
    <3> QED
      BY <3>1, <3>2, <1>6, MirrorSame
  <2> QED
    BY <1>2, <1>7, <1>8, <2>1, <2>2, <2>3, <2>4, <2>5 DEF MirrorOf
<1>9. /\ Grouped(params', spoilt', toClient'[c], cache'[c])
      /\ Mirror(params', spoilt', Before(c)', Late(c)', cache'[c], lost'[c], Owes(c)')
      /\ Owned(c)'
  <2>1. Adds(toClient'[c], toClient[c], InitPackets) /\ MirrorOf(c)
    BY <1>4, <1>6, <1>7
  <2>2. Before(c)' = toClient[c] /\ Late(c)' = InitPackets
    BY <2>1, <1>6, CutNext DEF Adds
  <2>3. Owned(c)'
    BY <1>2, <2>1 DEF MirrorOf, Owned
  <2>4. Grouped(params', spoilt', toClient'[c], cache[c])
    <3> SUFFICES ASSUME NEW i \in Id \ spoilt', params'[i] # None
                 PROVE  GroupAt(i, params', toClient'[c], cache[c])
      BY DEF Grouped
    <3>1. params'[i] = params[i] /\ i \notin spoilt /\ Reached(i) /\ ~Short(i)
      BY <1>5
    <3>2. /\ Shown(i) \in Updates /\ Shown(i).id = i /\ Shown(i).group = params[i].group
          /\ Alone(InitPackets, i, Shown(i))
      BY <1>1, <3>1, InitMirror
    <3>3. GroupAt(i, params, toClient[c], cache[c])
      BY <2>1, <3>1 DEF MirrorOf, Grouped
    <3> QED
      BY <2>1, <3>1, <3>2, <3>3, GroupAlone
  <2>5. ASSUME NEW E, NEW k, NEW lo, NEW ow PROVE Mirror(params', spoilt', E, InitPackets, k, lo, ow)
    <3> SUFFICES ASSUME NEW i \in Id \ spoilt', params'[i] # None
                 PROVE  MirrorAt(i, params', spoilt', E, InitPackets, k, lo, ow)
      BY DEF Mirror
    <3>1. params'[i] = params[i] /\ Reached(i) /\ ~Short(i)
      BY <1>5
    <3>2. MirrorAt(i, params, spoilt', E, InitPackets, k, lo, ow)
      BY <1>1, <3>1, InitMirror
    <3> QED
      BY <3>1, <3>2, MirrorLocal
  <2> QED
    BY <1>2, <2>2, <2>3, <2>4, <2>5
<1> QED
  BY <1>2, <1>6, <1>8, <1>9, MirrorInvParts

-----------------------------------------------------------------------------
(* A client takes an update *)

\* What it has of the parameter afterwards
Takes(p, k, l) ==
    LET j == p.id
    IN  /\ \A x \in Id \ {j} : l[x] = k[x]
        /\ l[j] # None
        /\ l[j].group = IF k[j] = None THEN p.group ELSE k[j].group
        /\ p.label \/ (k[j] # None /\ k[j].label) => l[j].label
        /\ p.val = None => l[j].val = IF k[j] = None THEN Default ELSE k[j].val
        /\ p.val # None /\ (k[j] = None \/ k[j].group = p.group) => l[j].val = p.val
        /\ IsGroup(k, p.par) => l[j].par = p.par
        /\ p.par = 0 => l[j].par = IF k[j] = None THEN 0 ELSE k[j].par

\* What a client caches is such a step.
LEMMA CachedTakes ==
    ASSUME NEW c, cache[c] \in Params, NEW p \in Updates,
           NEW l \in Params, l = [cache[c] EXCEPT ![p.id] = Cached(c, p)]
    PROVE  Takes(p, cache[c], l) /\ (cache[c][p.id] # None => cache[c][p.id].chg \subseteq l[p.id].chg)
<1> DEFINE k == cache[c]
           o == IF k[p.id] = None THEN Bare(p) ELSE k[p.id]
           n == Assign(k, o, p)
<1>1. p.id \in Id
  BY PacketFields
<1>2. l[p.id] = Cached(c, p) /\ \A x \in Id \ {p.id} : l[x] = k[x]
  BY <1>1 DEF Params
<1>3. o \in Parameter
  BY <1>1, BareType DEF Params
<1>4. Bare(p).group = p.group /\ Bare(p).val = Default /\ Bare(p).par = 0
  BY DEF Bare
<1>5. l[p.id] = IF k[p.id] = None THEN Sent(n) ELSE n
  BY <1>2 DEF Cached
<1> HIDE DEF n
<1>6. /\ n \in Parameter
      /\ n.group = o.group
      /\ n.label <=> o.label \/ p.label
      /\ NewVal(o, p) => n.val = p.val
      /\ ~NewVal(o, p) => n.val = o.val
      /\ NewPar(k, o, p) => n.par = p.par
      /\ ~NewPar(k, o, p) => n.par = o.par
      /\ o.chg \subseteq n.chg
  <2> HIDE DEF o, k
  <2> QED
    BY <1>3, AssignFields DEF n
<1>7. /\ Sent(n) \in Parameter /\ Sent(n).group = n.group /\ Sent(n).label = n.label
      /\ Sent(n).par = n.par /\ Sent(n).val = n.val
  BY <1>6, SentFields
<1>8. l[p.id] # None /\ l[p.id].group = n.group /\ l[p.id].label = n.label /\ l[p.id].par = n.par /\ l[p.id].val = n.val
  BY <1>5, <1>6, <1>7, Values
<1>9. n.group = IF k[p.id] = None THEN p.group ELSE k[p.id].group
  BY <1>4, <1>6
<1>10. p.label \/ (k[p.id] # None /\ k[p.id].label) => n.label
  BY <1>6
<1>11. p.val = None => n.val = IF k[p.id] = None THEN Default ELSE k[p.id].val
  BY <1>4, <1>6 DEF NewVal
<1>12. p.val # None /\ (k[p.id] = None \/ k[p.id].group = p.group) => n.val = p.val
  BY <1>4, <1>6 DEF NewVal
<1>13. IsGroup(k, p.par) => n.par = p.par
  BY <1>6 DEF NewPar
<1>14. p.par = 0 => n.par = IF k[p.id] = None THEN 0 ELSE k[p.id].par
  BY <1>4, <1>6 DEF NewPar, IsGroup
<1>15. k[p.id] # None => k[p.id].chg \subseteq l[p.id].chg
  BY <1>5, <1>6
<1> HIDE DEF k, o
<1>16. Takes(p, k, l)
  BY <1>2, <1>8, <1>9, <1>10, <1>11, <1>12, <1>13, <1>14 DEF Takes
<1> QED
  BY <1>15, <1>16 DEF k

\* Taking an update keeps the kind of a parameter.
LEMMA TakesGroup ==
    ASSUME NEW p \in Updates, NEW t \in Seq(FromServers), NEW k, NEW l, Takes(p, k, l),
           NEW i \in Id, NEW m, GroupAt(i, m, <<p>> \o t, k)
    PROVE  GroupAt(i, m, t, l)
<1> DEFINE q == <<p>> \o t
<1>0. p \in FromServers /\ p.cmd = "UPDATE"
  BY PacketFields DEF FromServers
<1>1. CASE p.id # i
  <2>1. /\ Cleared(q, i) <=> Cleared(t, i)
        /\ \A b : SaysOther(q, i, b) <=> SaysOther(t, i, b)
    BY <1>0, <1>1, SaidFirstOther
  <2>2. l[i] = k[i]
    BY <1>1 DEF Takes
  <2> HIDE DEF q
  <2>3. GroupAt(i, m, q, k)
    BY DEF q
  <2> QED
    BY <2>1, <2>2, <2>3 DEF GroupAt, HasNow
<1>2. CASE p.id = i
  <2>1. /\ Cleared(q, i) <=> p.cmd = "REMOVE" \/ Cleared(t, i)
        /\ \A b : SaysOther(q, i, b) <=> SaysOther(t, i, b)
                \/ (p.cmd = "UPDATE" /\ p.group # b /\ ~Cleared(t, i))
    BY <1>0, <1>2, SaidFirst
  <2>2. l[i].group = IF k[i] = None THEN p.group ELSE k[i].group
    BY <1>2 DEF Takes
  <2>3. GroupAt(i, m, q, k)
    OBVIOUS
  <2> HIDE DEF q
  <2> QED
    BY <1>0, <2>1, <2>2, <2>3 DEF GroupAt, HasNow
<1> QED
  BY <1>1, <1>2

\* The packet is one from before _init was sent.
LEMMA TakesEarly ==
    ASSUME NEW p \in Updates, NEW F \in Seq(FromServers), NEW k, NEW l, Takes(p, k, l),
           NEW i \in Id, NEW m, NEW sp, NEW L, NEW lo, NEW ow, NEW vw,
           MirrorAt(i, m, sp, <<p>> \o F, L, k, lo, ow)
    PROVE  MirrorAt(i, m, sp, F, L, l, lo, vw)
<1> DEFINE E == <<p>> \o F
<1>0. p \in FromServers /\ p.cmd = "UPDATE" /\ p.cmd # "REMOVE"
  BY PacketFields DEF FromServers
<1>1. E # <<>>
  OBVIOUS
<1>2. MirrorAt(i, m, sp, E, L, k, lo, ow)
  OBVIOUS
<1>3. \A x : Cleared(E, x) <=> Cleared(F, x)
  <2> TAKE x
  <2>1. CASE p.id = x
    BY <1>0, <2>1, SaidFirst
  <2>2. CASE p.id # x
    BY <1>0, <2>2, SaidFirstOther
  <2> QED
    BY <2>1, <2>2
<1>4. Told(F, i) => Told(E, i)
  <2>1. CASE p.id = i
    BY <1>0, <2>1, SaidFirst
  <2>2. CASE p.id # i
    BY <1>0, <2>2, SaidFirstOther
  <2> QED
    BY <2>1, <2>2
<1>5. p.id = i /\ ~Cleared(F, i) => Told(E, i)
  BY <1>0, SaidFirst
<1>6. p.id # i => l[i] = k[i]
  BY DEF Takes
<1> HIDE DEF E
<1>7. \A x : Lacks(E, L, lo, x) => Lacks(F, L, lo, x)
  BY <1>3 DEF Lacks
<1>8. \A x : ~Now(E, L, k, x)
  BY <1>1 DEF Now
<1>9. Silent(i, m, E, L, k) => Silent(i, m, F, L, l)
  BY <1>3, <1>4, <1>5, <1>6 DEF Silent
<1>10. LabelAt(i, m, F, L, l, lo)
  BY <1>2, <1>7, <1>8 DEF MirrorAt, LabelAt
<1>11. ValueAt(i, m, F, L, l, lo, vw)
  BY <1>2, <1>7, <1>8, <1>9 DEF MirrorAt, ValueAt
<1>12. FollowAt(i, m, sp, F, L, l, lo)
  BY <1>2, <1>7, <1>8 DEF MirrorAt, FollowAt, Follows
<1> QED
  BY <1>10, <1>11, <1>12 DEF MirrorAt

\* What came before the packet is done with.
LEMMA TakesLate ==
    ASSUME NEW p \in Updates, NEW t \in Seq(FromServers), NEW k, NEW l, Takes(p, k, l),
           NEW i \in Id, NEW m, NEW sp, NEW lo, NEW ow, NEW vw,
           MirrorAt(i, m, sp, <<>>, <<p>> \o t, k, lo, ow),
           GroupAt(i, m, <<p>> \o t, k),
           m[i].par # 0 /\ m[i].par \notin sp => m[m[i].par].group /\ GroupAt(m[i].par, m, <<p>> \o t, k),
           m[i].par \in Id \cup {0},
           i \in ow => i \in vw \/ (i = p.id /\ p.val # None)
    PROVE  MirrorAt(i, m, sp, <<>>, t, l, lo, vw)
<1> DEFINE q == <<p>> \o t
           e == <<>>
           g == m[i].par
<1>0. p \in FromServers /\ p.cmd = "UPDATE" /\ p.cmd # "REMOVE"
  BY PacketFields DEF FromServers
<1>1. MirrorAt(i, m, sp, e, q, k, lo, ow) /\ GroupAt(i, m, q, k)
      /\ (g # 0 /\ g \notin sp => m[g].group /\ GroupAt(g, m, q, k))
  OBVIOUS
<1>2. \A x : Cleared(q, x) <=> Cleared(t, x)
  <2> TAKE x
  <2>1. CASE p.id = x
    BY <1>0, <2>1, SaidFirst
  <2>2. CASE p.id # x
    BY <1>0, <2>2, SaidFirstOther
  <2> QED
    BY <2>1, <2>2
<1>3. Led(q, i, g) => Led(t, i, g) \/ (p.id = g /\ SaysPar(t, i, g) /\ ~Cleared(t, g))
  BY <1>0, LedTake
<1>4. ~Cleared(e, i) /\ ~Told(e, i)
  BY SaidNothing
<1>5. \A x \in Id : HasNow(q, k, x) => HasNow(t, l, x)
  BY <1>2 DEF HasNow, Takes
<1>6. p.id # i =>
        /\ SaysLabel(q, i) <=> SaysLabel(t, i)
        /\ TellsVal(q, i) <=> TellsVal(t, i)
        /\ \A v : SaysVal(q, i, v) <=> SaysVal(t, i, v)
        /\ TellsPar(q, i) <=> TellsPar(t, i)
        /\ \A h : SaysPar(q, i, h) <=> SaysPar(t, i, h)
  BY <1>0, SaidFirstOther
<1>7. p.id = i =>
        /\ SaysLabel(q, i) <=> SaysLabel(t, i) \/ (p.label /\ ~Cleared(t, i))
        /\ TellsVal(q, i) <=> TellsVal(t, i) \/ (p.val # None /\ ~Cleared(t, i))
        /\ \A v : SaysVal(q, i, v) <=> SaysVal(t, i, v)
                \/ (p.val = v /\ v # None /\ ~Cleared(t, i) /\ ~TellsVal(t, i))
        /\ TellsPar(q, i) <=> TellsPar(t, i) \/ (p.par # 0 /\ ~Cleared(t, i))
        /\ \A h : SaysPar(q, i, h) <=> SaysPar(t, i, h)
                \/ (p.par = h /\ h # 0 /\ ~Cleared(t, i) /\ ~TellsPar(t, i))
        /\ SaysOther(q, i, m[i].group) <=> SaysOther(t, i, m[i].group) \/ (p.group # m[i].group /\ ~Cleared(t, i))
  BY <1>0, SaidFirst
<1> HIDE DEF q, e, g
<1>8. \A x : Lacks(e, q, lo, x) => Lacks(e, t, lo, x)
  BY <1>2 DEF Lacks
<1>9. \A x \in Id : Now(e, q, k, x) => Now(e, t, l, x)
  BY <1>5 DEF Now
<1>10. \A x \in Id : p.id = x /\ ~Cleared(t, x) => Now(e, t, l, x)
  BY DEF Now, HasNow, Takes, e
<1>11. LabelAt(i, m, e, t, l, lo)
  <2>1. LabelAt(i, m, e, q, k, lo)
    BY <1>1 DEF MirrorAt
  <2>2. Now(e, q, k, i) /\ k[i].label => l[i].label
    BY DEF Now, HasNow, Takes
  <2>3. p.id = i /\ p.label => l[i].label
    BY DEF Takes
  <2> QED
    BY <2>1, <2>2, <2>3, <1>6, <1>7, <1>8, <1>9, <1>10 DEF LabelAt
<1>12. ValueAt(i, m, e, t, l, lo, vw)
  <2>1. ValueAt(i, m, e, q, k, lo, ow)
    BY <1>1 DEF MirrorAt
  <2>2. CASE Lacks(e, q, lo, i) \/ "val" \in m[i].chg
    BY <2>2, <1>8 DEF ValueAt
  <2>3. CASE SaysVal(q, i, m[i].val)
    <3>1. CASE SaysVal(t, i, m[i].val)
      BY <3>1 DEF ValueAt
    <3>2. CASE ~SaysVal(t, i, m[i].val)
      <4>1. p.id = i /\ p.val = m[i].val /\ p.val # None /\ ~Cleared(t, i) /\ ~TellsVal(t, i)
        BY <2>3, <3>2, <1>6, <1>7
      <4>2. k[i] # None => k[i].group = p.group
        BY <4>1, <1>1, <1>2, <1>7 DEF GroupAt, HasNow
      <4>3. l[i].val = m[i].val
        BY <4>1, <4>2 DEF Takes
      <4> QED
        BY <4>1, <4>3, <1>10 DEF ValueAt
    <3> QED
      BY <3>1, <3>2
  <2>4. CASE ~TellsVal(q, i) /\ Now(e, q, k, i) /\ (k[i].val = m[i].val \/ i \in ow)
    <3>1. k[i] # None /\ ~Cleared(t, i)
      BY <2>4, <1>2 DEF Now, HasNow
    <3>2. p.id = i => p.val = None
      BY <2>4, <3>1, <1>7
    <3>3. l[i].val = k[i].val
      BY <3>1, <3>2 DEF Takes
    <3>4. ~TellsVal(t, i)
      BY <2>4, <1>6, <1>7
    <3> QED
      BY <2>4, <3>2, <3>3, <3>4, <1>9 DEF ValueAt
  <2>5. CASE Silent(i, m, e, q, k)
    <3>1. ~TellsVal(q, i) /\ m[i].val = Default /\ (k[i] = None \/ Cleared(t, i))
      BY <2>5, <1>2, <1>4 DEF Silent
    <3>2. ~TellsVal(t, i)
      BY <3>1, <1>6, <1>7
    <3>3. CASE Cleared(t, i)
      BY <3>1, <3>2, <3>3, <1>4 DEF ValueAt, Silent
    <3>4. CASE ~Cleared(t, i) /\ p.id # i
      <4>1. l[i] = None
        BY <3>1, <3>4 DEF Takes
      <4> QED
        BY <3>1, <3>2, <4>1, <1>4 DEF ValueAt, Silent
    <3>5. CASE ~Cleared(t, i) /\ p.id = i
      <4>1. p.val = None /\ k[i] = None
        BY <3>1, <3>5, <1>7
      <4>2. l[i].val = Default
        BY <3>5, <4>1 DEF Takes
      <4> QED
        BY <3>1, <3>2, <3>5, <4>2, <1>10 DEF ValueAt
    <3> QED
      BY <3>3, <3>4, <3>5
  <2> QED
    BY <2>1, <2>2, <2>3, <2>4, <2>5 DEF ValueAt
<1>13. FollowAt(i, m, sp, e, t, l, lo)
  <2> SUFFICES ASSUME g # 0, "par" \notin m[i].chg, g \notin sp
               PROVE  Lacks(e, t, lo, i) \/ Lacks(e, t, lo, g) \/ Follows(i, g, e, t, l)
    BY DEF FollowAt, g
  <2>1. Lacks(e, q, lo, i) \/ Lacks(e, q, lo, g) \/ Follows(i, g, e, q, k)
    BY <1>1 DEF MirrorAt, FollowAt, g
  <2>2. g \in Id
    BY DEF g
  <2>3. CASE Led(q, i, g)
    BY <2>2, <2>3, <1>3, <1>10 DEF Follows
  <2>4. CASE SaysPar(q, i, g) /\ Now(e, q, k, g)
    <3>1. CASE SaysPar(t, i, g)
      BY <2>2, <2>4, <3>1, <1>9 DEF Follows
    <3>2. CASE ~SaysPar(t, i, g)
      <4>1. p.id = i /\ p.par = g /\ ~Cleared(t, i) /\ ~TellsPar(t, i)
        BY <2>4, <3>2, <1>6, <1>7
      <4>2. IsGroup(k, g)
        BY <2>4, <1>1 DEF Now, HasNow, GroupAt, IsGroup
      <4>3. l[i].par = g
        BY <4>1, <4>2 DEF Takes
      <4> QED
        BY <4>1, <4>3, <1>10 DEF Follows
    <3> QED
      BY <3>1, <3>2
  <2>5. CASE ~TellsPar(q, i) /\ Now(e, q, k, i) /\ k[i].par = g
    <3>1. k[i] # None /\ ~Cleared(t, i)
      BY <2>5, <1>2 DEF Now, HasNow
    <3>2. p.id = i => p.par = 0
      BY <2>5, <3>1, <1>7
    <3>3. l[i].par = k[i].par
      BY <3>1, <3>2 DEF Takes
    <3>4. ~TellsPar(t, i)
      BY <2>5, <1>6, <1>7
    <3> QED
      BY <2>5, <3>3, <3>4, <1>9 DEF Follows
  <2> QED
    BY <2>1, <2>3, <2>4, <2>5, <1>8 DEF Follows
<1> QED
  BY <1>11, <1>12, <1>13 DEF MirrorAt, e

\* The head and the tail of a packet before a queue.
LEMMA Peeled ==
    ASSUME NEW P, NEW h \in P, NEW x \in Seq(P)
    PROVE  Head(<<h>> \o x) = h /\ Tail(<<h>> \o x) = x
<1> DEFINE a == <<h>>
           s == a \o x
<1>1. a \in Seq(P) /\ Len(a) = 1 /\ a[1] = h
  OBVIOUS
<1> HIDE DEF a
<1>2. s \in Seq(P) /\ Len(s) = 1 + Len(x) /\ Len(x) \in Nat /\ s[1] = h
  <2>1. s \in Seq(P) /\ DOMAIN s = 1..(Len(a) + Len(x)) /\ Len(a) \in Nat /\ Len(x) \in Nat
        /\ \A n \in 1..Len(a) : s[n] = a[n]
    BY <1>1, ConcatPlaces
  <2> HIDE DEF s
  <2>2. DOMAIN s = 1..Len(s) /\ Len(s) \in Nat
    BY <2>1, LenProperties
  <2>3. s[1] = h
    BY <1>1, <2>1
  <2>4. Len(s) = 1 + Len(x)
    BY <1>1, <2>1, <2>2
  <2> QED
    BY <2>1, <2>3, <2>4
<1>3. SubSeq(s, Len(a) + 1, Len(s)) = x
  BY <1>1, JoinCuts
<1> HIDE DEF s
<1>4. s # <<>>
  BY <1>2
<1>5. Tail(s) = SubSeq(s, 2, Len(s))
  BY <1>2, <1>4, TailIsSubSeq
<1>6. Head(s) = s[1]
  BY <1>2, <1>4
<1> QED
  BY <1>1, <1>2, <1>3, <1>5, <1>6 DEF s, a

\* A client takes a packet from before _init, or has taken them all.
LEMMA TakeCut ==
    ASSUME TypeOK, NEW c \in Clients, c \in on, toClient[c] # <<>>, TakePacket(c),
           NEW p, p = Head(toClient[c])
    PROVE  \/ /\ early[c] = 0
              /\ Before(c) = <<>> /\ Late(c) = <<p>> \o Tail(toClient[c])
              /\ Before(c)' = <<>> /\ Late(c)' = Tail(toClient[c])
           \/ /\ early[c] # 0
              /\ Late(c)' = Late(c)
              /\ Before(c)' \in Seq(FromServers) /\ Before(c) = <<p>> \o Before(c)'
<1> DEFINE t == Tail(toClient[c])
           E == Before(c)
           L == Late(c)
<1>1. /\ p \in FromServers /\ toClient[c] = <<p>> \o t /\ t \in Seq(FromServers)
      /\ toClient'[c] = t /\ early'[c] = IF early[c] = 0 THEN 0 ELSE early[c] - 1
  BY TakePacketParts
<1>2. E \in Seq(FromServers) /\ L \in Seq(FromServers) /\ Len(E) = early[c] /\ toClient[c] = E \o L
  BY CutClient
<1> HIDE DEF t, E, L
<1>3. CASE early[c] = 0
  <2>1. E = <<>> /\ L = <<p>> \o t
    BY <1>1, <1>3, AllLate DEF E, L
  <2> DEFINE e == <<>>
  <2>2. e \in Seq(FromServers) /\ e \o t = t
    BY <1>1, EmptySeq, ConcatEmptySeq
  <2>3. toClient'[c] = e \o t /\ early'[c] = Len(e)
    BY <1>1, <1>3, <2>2
  <2> HIDE DEF e
  <2>4. Before(c)' = e /\ Late(c)' = t
    BY <1>1, <2>2, <2>3, CutNext
  <2> QED
    BY <1>3, <2>1, <2>4 DEF E, L, t, e
<1>4. CASE early[c] # 0
  <2>1. E # <<>>
    BY <1>2, <1>4, EmptySeq
  <2> DEFINE h == Head(E)
             F == Tail(E)
             a == <<h>>
  <2>2. h \in FromServers /\ F \in Seq(FromServers) /\ E = <<h>> \o F /\ Len(E) = Len(F) + 1
    BY <1>2, <2>1, Halves
  <2> HIDE DEF h, F
  <2>3. a \in Seq(FromServers)
    BY <2>2
  <2> HIDE DEF a
  <2>4. (a \o F) \o L = a \o (F \o L) /\ F \o L \in Seq(FromServers)
    BY <1>2, <2>2, <2>3, ConcatAssociative, ConcatProperties
  <2>5. toClient[c] = <<h>> \o (F \o L)
    BY <1>2, <2>2, <2>4 DEF a
  <2>6. Head(toClient[c]) = h /\ Tail(toClient[c]) = F \o L
    BY <2>2, <2>4, <2>5, Peeled
  <2>7. toClient'[c] = F \o L
    BY <1>1, <2>6 DEF t
  <2>8. early'[c] = Len(F)
    BY <1>1, <1>2, <1>4, <2>2, LenProperties
  <2>9. Before(c)' = F /\ Late(c)' = L
    BY <1>2, <2>2, <2>7, <2>8, CutNext
  <2> QED
    BY <1>4, <2>2, <2>6, <2>9 DEF E, L
<1> QED
  BY <1>3, <1>4

\* A client that nothing happened to
LEMMA OtherMirror ==
    ASSUME MirrorInv, NEW e \in on, params' = params, spoilt' = spoilt,
           cache'[e] = cache[e], gone'[e] = gone[e], own'[e] = own[e], lost'[e] = lost[e], early'[e] = early[e],
           toServer'[e] = toServer[e], toClient'[e] = toClient[e]
    PROVE  /\ Grouped(params', spoilt', toClient'[e], cache'[e])
           /\ ~Uninitialized(e)' => Mirror(params', spoilt', Before(e)', Late(e)', cache'[e], lost'[e], Owes(e)')
           /\ Owned(e)'
<1>1. Before(e)' = Before(e) /\ Late(e)' = Late(e)
  BY DEF Before, Late
<1>2. Owes(e)' = Owes(e) /\ (Owned(e)' <=> Owned(e)) /\ (Uninitialized(e)' <=> Uninitialized(e))
  BY OwesSame
<1>3. MirrorOf(e)
  BY MirrorInvParts
<1> QED
  BY <1>1, <1>2, <1>3 DEF MirrorOf

\* _update at a client keeps the mirror.
LEMMA TakeUpdateMirror ==
    ASSUME TypeOK, TreeInv, MirrorInv, NEW c \in Clients, TakeUpdate(c)
    PROVE  MirrorInv'
<1>1. ServerTyped /\ ClientsMapped /\ ServerOK(params, dirty, removed, spoilt) /\ params \in Params
  BY TypeParts, TreeInvParts DEF ServerTyped
<1> DEFINE p == Head(toClient[c])
           t == Tail(toClient[c])
           k == cache[c]
           l == cache'[c]
<1>2. /\ c \in on /\ toClient[c] # <<>> /\ TakePacket(c) /\ p.cmd = "UPDATE" /\ p \in Updates
      /\ cache' = [cache EXCEPT ![c][p.id] = Cached(c, p)]
      /\ gone' = IF cache[c][p.id] # None /\ Cached(c, p) # cache[c][p.id]
                 THEN [gone EXCEPT ![c][p.id] = None] ELSE gone
      /\ own' = [own EXCEPT ![c] = IF p.val = None THEN @ ELSE @ \ {p.id}]
      /\ params' = params /\ spoilt' = spoilt /\ on' = on /\ toServer' = toServer /\ lost' = lost
  BY TakeUpdateParts DEF server
<1>3. /\ toClient[c] = <<p>> \o t /\ t \in Seq(FromServers) /\ toClient'[c] = t
      /\ \A d \in Clients \ {c} : toClient'[d] = toClient[d] /\ early'[d] = early[d]
  BY <1>2, TakePacketParts
<1>4. p.id \in Id
  BY <1>2, PacketFields
<1>5. k \in Params /\ gone[c] \in Params /\ own[c] \subseteq Id
  BY TypeParts DEF ClientTyped
<1>6. l = [k EXCEPT ![p.id] = Cached(c, p)]
  BY <1>1, <1>2 DEF ClientsMapped
<1>7. /\ own'[c] = IF p.val = None THEN own[c] ELSE own[c] \ {p.id}
      /\ \A i \in Id : gone[c][i] = None => gone'[c][i] = None
      /\ \A i \in Id \ {p.id} : gone'[c][i] = gone[c][i]
  <2>1. own'[c] = IF p.val = None THEN own[c] ELSE own[c] \ {p.id}
    BY <1>1, <1>2 DEF ClientsMapped
  <2>2. CASE gone' = gone
    BY <2>1, <2>2
  <2>3. CASE gone' = [gone EXCEPT ![c][p.id] = None]
    <3>1. gone'[c] = [gone[c] EXCEPT ![p.id] = None]
      BY <1>1, <2>3 DEF ClientsMapped
    <3> QED
      BY <2>1, <3>1, <1>5 DEF Params
  <2> QED
    BY <1>2, <2>2, <2>3
<1>8. ASSUME NEW d \in on, d # c
      PROVE  /\ Grouped(params', spoilt', toClient'[d], cache'[d])
             /\ ~Uninitialized(d)' => Mirror(params', spoilt', Before(d)', Late(d)', cache'[d], lost'[d], Owes(d)')
             /\ Owned(d)'
  <2>1. d \in Clients
    BY <1>1, <1>8 DEF ServerTyped
  <2>2. /\ cache'[d] = cache[d] /\ gone'[d] = gone[d] /\ own'[d] = own[d] /\ lost'[d] = lost[d]
        /\ early'[d] = early[d] /\ toServer'[d] = toServer[d] /\ toClient'[d] = toClient[d]
    <3>1. cache'[d] = cache[d] /\ own'[d] = own[d] /\ early'[d] = early[d] /\ toClient'[d] = toClient[d]
          /\ lost'[d] = lost[d] /\ toServer'[d] = toServer[d]
      BY <1>1, <1>2, <1>3, <1>8, <2>1 DEF ClientsMapped
    <3>2. gone'[d] = gone[d]
      <4>1. CASE gone' = gone
        BY <4>1
      <4>2. CASE gone' = [gone EXCEPT ![c][p.id] = None]
        BY <4>2, <1>1, <1>8, <2>1 DEF ClientsMapped
      <4> QED
        BY <1>2, <4>1, <4>2
    <3> QED
      BY <3>1, <3>2
  <2> QED
    BY <1>2, <1>8, <2>2, OtherMirror
<1> HIDE DEF p, t
<1>9. l \in Params
  <2>1. Cached(c, p) \in Parameter
    BY <1>2, <1>5, CachedType
  <2> QED
    BY <2>1, <1>4, <1>5, <1>6 DEF Params
<1>10. Takes(p, k, l) /\ (k[p.id] # None => k[p.id].chg \subseteq l[p.id].chg)
  BY <1>2, <1>5, <1>6, <1>9, CachedTakes
<1>11. MirrorOf(c)
  BY <1>2, MirrorInvParts
<1>12. Owned(c)'
  <2> SUFFICES ASSUME NEW i \in own'[c]
               PROVE  cache'[c][i] # None /\ gone'[c][i] = None /\ "val" \in cache'[c][i].chg
    BY DEF Owned
  <2>1. i \in own[c] /\ i \in Id
    BY <1>5, <1>7
  <2>2. k[i] # None /\ gone[c][i] = None /\ "val" \in k[i].chg
    BY <2>1, <1>11 DEF MirrorOf, Owned
  <2>3. l[i] # None /\ "val" \in l[i].chg
    <3>1. CASE i = p.id
      BY <3>1, <2>2, <1>10 DEF Takes
    <3>2. CASE i # p.id
      BY <3>2, <2>1, <2>2, <1>10 DEF Takes
    <3> QED
      BY <3>1, <3>2
  <2> QED
    BY <2>1, <2>2, <2>3, <1>7
<1>13. ASSUME NEW i \in Owes(c)
       PROVE  i \in Owes(c)' \/ (i = p.id /\ p.val # None)
  <2>1. i \in Id
    BY <1>5 DEF Owes
  <2>2. CASE i \in own[c]
    BY <2>2, <1>7 DEF Owes
  <2>3. CASE i \notin own[c] /\ ~(i = p.id /\ p.val # None)
    <3>1. gone[c][i] = None /\ k[i] # None /\ Sending(toServer[c], i, k[i].val)
      BY <2>3 DEF Owes
    <3>2. l[i] # None /\ l[i].val = k[i].val
      <4>1. CASE i = p.id
        BY <4>1, <2>3, <3>1, <1>10 DEF Takes
      <4>2. CASE i # p.id
        BY <4>2, <2>1, <3>1, <1>10 DEF Takes
      <4> QED
        BY <4>1, <4>2
    <3>3. gone'[c][i] = None
      BY <2>1, <3>1, <1>7
    <3> QED
      BY <2>1, <3>1, <3>2, <3>3, <1>2 DEF Owes
  <2> QED
    BY <2>2, <2>3
<1> DEFINE ow == Owes(c)
           vw == Owes(c)'
           lo == lost[c]
<1>14. \A i \in ow : i \in vw \/ (i = p.id /\ p.val # None)
  BY <1>13
<1>15. Uninitialized(c)' <=> Uninitialized(c)
  BY <1>2 DEF Uninitialized
<1> HIDE DEF ow, vw, lo
<1>16. Grouped(params, spoilt, <<p>> \o t, k)
  BY <1>3, <1>11 DEF MirrorOf
<1> HIDE DEF k, l
<1>17. Grouped(params, spoilt, t, l)
  <2> SUFFICES ASSUME NEW i \in Id \ spoilt, params[i] # None PROVE GroupAt(i, params, t, l)
    BY DEF Grouped
  <2>1. GroupAt(i, params, <<p>> \o t, k)
    BY <1>16 DEF Grouped
  <2> QED
    BY <2>1, <1>2, <1>3, <1>10, TakesGroup
<1>18. ASSUME ~Uninitialized(c)
       PROVE  Mirror(params, spoilt, Before(c)', Late(c)', l, lo, vw)
  <2> SUFFICES ASSUME NEW i \in Id \ spoilt, params[i] # None
               PROVE  MirrorAt(i, params, spoilt, Before(c)', Late(c)', l, lo, vw)
    BY DEF Mirror
  <2>1. MirrorAt(i, params, spoilt, Before(c), Late(c), k, lo, ow)
    BY <1>11, <1>18 DEF MirrorOf, Mirror, k, lo, ow
  <2>2. \/ /\ early[c] = 0
           /\ Before(c) = <<>> /\ Late(c) = <<p>> \o t
           /\ Before(c)' = <<>> /\ Late(c)' = t
        \/ /\ early[c] # 0
           /\ Late(c)' = Late(c)
           /\ Before(c)' \in Seq(FromServers) /\ Before(c) = <<p>> \o Before(c)'
    BY <1>2, TakeCut DEF p, t
  <2>3. CASE /\ Late(c)' = Late(c)
             /\ Before(c)' \in Seq(FromServers) /\ Before(c) = <<p>> \o Before(c)'
    <3> DEFINE F == Before(c)'
    <3>1. F \in Seq(FromServers) /\ MirrorAt(i, params, spoilt, <<p>> \o F, Late(c), k, lo, ow)
      BY <2>1, <2>3
    <3> HIDE DEF F
    <3>2. MirrorAt(i, params, spoilt, F, Late(c), l, lo, vw)
      BY <3>1, <1>2, <1>10, TakesEarly
    <3> QED
      BY <2>3, <3>2 DEF F
  <2>4. CASE /\ Before(c) = <<>> /\ Late(c) = <<p>> \o t
             /\ Before(c)' = <<>> /\ Late(c)' = t
    <3>1. MirrorAt(i, params, spoilt, <<>>, <<p>> \o t, k, lo, ow)
      BY <2>1, <2>4
    <3>2. GroupAt(i, params, <<p>> \o t, k) /\ params[i].par \in Id \cup {0}
      BY <1>1, <1>16 DEF Grouped, Params, Parameter
    <3>3. ASSUME params[i].par # 0, params[i].par \notin spoilt
          PROVE  params[params[i].par].group /\ GroupAt(params[i].par, params, <<p>> \o t, k)
      <4>1. IsGroup(params, params[i].par)
        BY <3>3, <1>1 DEF ServerOK, ServerParam
      <4> QED
        BY <3>2, <3>3, <4>1, <1>16 DEF IsGroup, Grouped
    <3>4. MirrorAt(i, params, spoilt, <<>>, t, l, lo, vw)
      BY <3>1, <3>2, <3>3, <1>2, <1>3, <1>10, <1>14, TakesLate
    <3> QED
      BY <2>4, <3>4
  <2> QED
    BY <2>2, <2>3, <2>4
<1>19. /\ Grouped(params', spoilt', toClient'[c], cache'[c])
       /\ ~Uninitialized(c)' => Mirror(params', spoilt', Before(c)', Late(c)', cache'[c], lost'[c], Owes(c)')
  BY <1>2, <1>3, <1>15, <1>17, <1>18 DEF l, lo, vw
<1> QED
  BY <1>2, <1>8, <1>12, <1>19, MirrorInvParts

-----------------------------------------------------------------------------
(* A client takes a REMOVE *)

\* Cache k becomes l: the REMOVE of h takes the ids out away.
Drops(h, out, k, l) == l[h] = None /\ \A j \in Id : l[j] = IF j \in out THEN None ELSE k[j]

\* A REMOVE at the head of q says nothing but that it removes.
LEMMA RemoveFirst ==
    ASSUME NEW p \in FromServers, p.cmd = "REMOVE", NEW t \in Seq(FromServers), NEW i
    PROVE  /\ Cleared(<<p>> \o t, i) <=> p.id = i \/ Cleared(t, i)
           /\ Told(<<p>> \o t, i) <=> Told(t, i)
           /\ SaysLabel(<<p>> \o t, i) <=> SaysLabel(t, i)
           /\ TellsVal(<<p>> \o t, i) <=> TellsVal(t, i)
           /\ \A v : SaysVal(<<p>> \o t, i, v) <=> SaysVal(t, i, v)
           /\ TellsPar(<<p>> \o t, i) <=> TellsPar(t, i)
           /\ \A g : SaysPar(<<p>> \o t, i, g) <=> SaysPar(t, i, g)
           /\ \A b : SaysOther(<<p>> \o t, i, b) <=> SaysOther(t, i, b)
<1>1. p.cmd # "UPDATE"
  OBVIOUS
<1>2. CASE p.id = i
  BY <1>1, <1>2, SaidFirst
<1>3. CASE p.id # i
  BY <1>3, SaidFirstOther
<1> QED
  BY <1>2, <1>3

\* Taking a REMOVE keeps the kind of what is left.
LEMMA DropsGroup ==
    ASSUME NEW p \in FromServers, p.cmd = "REMOVE", NEW t \in Seq(FromServers),
           NEW out, NEW k, NEW l, Drops(p.id, out, k, l),
           NEW i \in Id, NEW m, GroupAt(i, m, <<p>> \o t, k)
    PROVE  GroupAt(i, m, t, l)
<1> DEFINE q == <<p>> \o t
<1>1. /\ Cleared(q, i) <=> p.id = i \/ Cleared(t, i)
      /\ \A b : SaysOther(q, i, b) <=> SaysOther(t, i, b)
  BY RemoveFirst
<1>2. GroupAt(i, m, q, k)
  OBVIOUS
<1> HIDE DEF q
<1> QED
  BY <1>1, <1>2 DEF GroupAt, HasNow, Drops

\* The packet is one from before _init was sent.
LEMMA DropsEarly ==
    ASSUME NEW p \in FromServers, p.cmd = "REMOVE", NEW F \in Seq(FromServers),
           NEW out, NEW k, NEW l, Drops(p.id, out, k, l),
           NEW i \in Id, NEW m, NEW sp, NEW L, NEW lo, NEW ow, NEW vw,
           MirrorAt(i, m, sp, <<p>> \o F, L, k, lo, ow)
    PROVE  MirrorAt(i, m, sp, F, L, l, lo \ {p.id}, vw)
<1> DEFINE E == <<p>> \o F
           ln == lo \ {p.id}
<1>1. E # <<>>
  OBVIOUS
<1>2. MirrorAt(i, m, sp, E, L, k, lo, ow)
  OBVIOUS
<1>3. \A x : Cleared(E, x) <=> p.id = x \/ Cleared(F, x)
  BY RemoveFirst
<1>4. Told(F, i) <=> Told(E, i)
  BY RemoveFirst
<1> HIDE DEF E
<1>5. \A x : Lacks(E, L, lo, x) => Lacks(F, L, ln, x)
  BY <1>3 DEF Lacks
<1> HIDE DEF ln
<1>6. \A x : ~Now(E, L, k, x)
  BY <1>1 DEF Now
<1>7. Silent(i, m, E, L, k) => Silent(i, m, F, L, l)
  BY <1>3, <1>4 DEF Silent, Drops
<1>8. LabelAt(i, m, F, L, l, ln)
  BY <1>2, <1>5, <1>6 DEF MirrorAt, LabelAt
<1>9. ValueAt(i, m, F, L, l, ln, vw)
  BY <1>2, <1>5, <1>6, <1>7 DEF MirrorAt, ValueAt
<1>10. FollowAt(i, m, sp, F, L, l, ln)
  BY <1>2, <1>5, <1>6 DEF MirrorAt, FollowAt, Follows
<1> QED
  BY <1>8, <1>9, <1>10 DEF MirrorAt, ln

\* What the client lost with a group it lacks from now on.
LEMMA DropsLate ==
    ASSUME NEW p \in FromServers, p.cmd = "REMOVE", NEW t \in Seq(FromServers),
           NEW out, NEW k, NEW l, Drops(p.id, out, k, l),
           NEW i \in Id, NEW m, NEW sp, NEW lo, NEW ow, NEW vw,
           MirrorAt(i, m, sp, <<>>, <<p>> \o t, k, lo, ow),
           m[i].par \in Id \cup {0},
           i \in ow => i \in vw \/ i \in out
    PROVE  MirrorAt(i, m, sp, <<>>, t, l, (lo \cup out) \ {p.id}, vw)
<1> DEFINE q == <<p>> \o t
           e == <<>>
           g == m[i].par
           ln == (lo \cup out) \ {p.id}
<1>1. MirrorAt(i, m, sp, e, q, k, lo, ow)
  OBVIOUS
<1>2. \A x : Cleared(q, x) <=> p.id = x \/ Cleared(t, x)
  BY RemoveFirst
<1>3. Led(q, i, g) => Led(t, i, g)
  BY LedTake
<1>4. ~Cleared(e, i) /\ ~Told(e, i)
  BY SaidNothing
<1>5. /\ SaysLabel(q, i) <=> SaysLabel(t, i)
      /\ TellsVal(q, i) <=> TellsVal(t, i)
      /\ \A v : SaysVal(q, i, v) <=> SaysVal(t, i, v)
      /\ TellsPar(q, i) <=> TellsPar(t, i)
      /\ \A h : SaysPar(q, i, h) <=> SaysPar(t, i, h)
  BY RemoveFirst
<1>6. \A x : ~Cleared(e, x)
  BY SaidNothing
<1> HIDE DEF q, g
<1>7. \A x : Lacks(e, q, lo, x) => Lacks(e, t, ln, x)
  BY <1>2 DEF Lacks
<1>8. \A x \in Id : Now(e, q, k, x) =>
          Lacks(e, t, ln, x) \/ (x \notin out /\ Now(e, t, l, x) /\ l[x] = k[x])
  <2> TAKE x \in Id
  <2> SUFFICES ASSUME Now(e, q, k, x) PROVE Lacks(e, t, ln, x) \/ (x \notin out /\ Now(e, t, l, x) /\ l[x] = k[x])
    OBVIOUS
  <2>1. k[x] # None /\ x # p.id /\ ~Cleared(t, x)
    BY <1>2 DEF Now, HasNow
  <2>2. CASE x \in out
    BY <2>1, <2>2, <1>6 DEF Lacks
  <2>3. CASE x \notin out
    BY <2>1, <2>3 DEF Drops, Now, HasNow
  <2> QED
    BY <2>2, <2>3
<1> HIDE DEF e, ln
<1>9. LabelAt(i, m, e, t, l, ln)
  <2>1. LabelAt(i, m, e, q, k, lo)
    BY <1>1 DEF MirrorAt
  <2> QED
    BY <2>1, <1>5, <1>7, <1>8 DEF LabelAt
<1>10. ValueAt(i, m, e, t, l, ln, vw)
  <2>1. ValueAt(i, m, e, q, k, lo, ow)
    BY <1>1 DEF MirrorAt
  <2>2. Silent(i, m, e, q, k) => Silent(i, m, e, t, l)
    BY <1>2, <1>4, <1>5 DEF Silent, Drops
  <2> QED
    BY <2>1, <2>2, <1>5, <1>7, <1>8 DEF ValueAt
<1>11. FollowAt(i, m, sp, e, t, l, ln)
  <2> SUFFICES ASSUME g # 0, "par" \notin m[i].chg, g \notin sp
               PROVE  Lacks(e, t, ln, i) \/ Lacks(e, t, ln, g) \/ Follows(i, g, e, t, l)
    BY DEF FollowAt, g
  <2>1. Lacks(e, q, lo, i) \/ Lacks(e, q, lo, g) \/ Follows(i, g, e, q, k)
    BY <1>1 DEF MirrorAt, FollowAt, g
  <2>2. g \in Id
    BY DEF g
  <2>3. Follows(i, g, e, q, k) => Lacks(e, t, ln, i) \/ Lacks(e, t, ln, g) \/ Follows(i, g, e, t, l)
    BY <2>2, <1>3, <1>5, <1>8 DEF Follows
  <2> QED
    BY <2>1, <2>3, <1>7
<1> QED
  BY <1>9, <1>10, <1>11 DEF MirrorAt, e, ln

\* _remove at a client keeps the mirror.
LEMMA TakeRemoveMirror ==
    ASSUME TypeOK, TreeInv, MirrorInv, NEW c \in Clients, TakeRemove(c)
    PROVE  MirrorInv'
<1>1. ServerTyped /\ ClientsMapped /\ params \in Params
  BY TypeParts DEF ServerTyped
<1> DEFINE p == Head(toClient[c])
           t == Tail(toClient[c])
           k == cache[c]
           l == cache'[c]
           out == Out(c, p.id)
<1>2. /\ c \in on /\ toClient[c] # <<>> /\ TakePacket(c) /\ p.cmd = "REMOVE" /\ p.id \in Id
      /\ out \subseteq Id
      /\ cache' = [cache EXCEPT ![c] = [j \in Id |-> IF j \in out THEN None ELSE cache[c][j]]]
      /\ gone' = [gone EXCEPT ![c] = [j \in Id |-> Orphan(c, p.id, j)]]
      /\ own' = [own EXCEPT ![c] = own[c] \ out]
      /\ lost' = [lost EXCEPT ![c] =
              (IF Uninitialized(c) \/ early[c] # 0 THEN lost[c] ELSE lost[c] \cup out) \ {p.id}]
      /\ params' = params /\ spoilt' = spoilt /\ on' = on /\ toServer' = toServer
  BY TakeRemoveParts DEF server
<1>3. /\ toClient[c] = <<p>> \o t /\ t \in Seq(FromServers) /\ toClient'[c] = t /\ p \in FromServers
      /\ \A d \in Clients \ {c} : toClient'[d] = toClient[d] /\ early'[d] = early[d]
  BY <1>2, TakePacketParts
<1>5. k \in Params /\ own[c] \subseteq Id
  BY TypeParts DEF ClientTyped
<1>6. /\ \A j \in Id : l[j] = IF j \in out THEN None ELSE k[j]
      /\ own'[c] = own[c] \ out
      /\ \A j \in Id \ out : gone'[c][j] = gone[c][j]
      /\ lost'[c] = (IF Uninitialized(c) \/ early[c] # 0 THEN lost[c] ELSE lost[c] \cup out) \ {p.id}
  BY <1>1, <1>2 DEF ClientsMapped, Orphan
<1>7. p.id \in Below(k, p.id)
  BY <1>2 DEF Below
<1>8. Drops(p.id, out, k, l)
  BY <1>2, <1>6, <1>7 DEF Drops, Out
<1>9. ASSUME NEW d \in on, d # c
      PROVE  /\ Grouped(params', spoilt', toClient'[d], cache'[d])
             /\ ~Uninitialized(d)' => Mirror(params', spoilt', Before(d)', Late(d)', cache'[d], lost'[d], Owes(d)')
             /\ Owned(d)'
  <2>1. d \in Clients
    BY <1>1, <1>9 DEF ServerTyped
  <2>2. /\ cache'[d] = cache[d] /\ gone'[d] = gone[d] /\ own'[d] = own[d] /\ lost'[d] = lost[d]
        /\ early'[d] = early[d] /\ toServer'[d] = toServer[d] /\ toClient'[d] = toClient[d]
    BY <1>1, <1>2, <1>3, <1>9, <2>1 DEF ClientsMapped
  <2> QED
    BY <1>2, <1>9, <2>2, OtherMirror
<1> HIDE DEF p, t, out
<1>11. MirrorOf(c)
  BY <1>2, MirrorInvParts
<1>12. Owned(c)'
  <2> SUFFICES ASSUME NEW i \in own'[c]
               PROVE  cache'[c][i] # None /\ gone'[c][i] = None /\ "val" \in cache'[c][i].chg
    BY DEF Owned
  <2>1. i \in own[c] /\ i \in Id \ out
    BY <1>5, <1>6
  <2>2. k[i] # None /\ gone[c][i] = None /\ "val" \in k[i].chg
    BY <2>1, <1>11 DEF MirrorOf, Owned
  <2> QED
    BY <2>1, <2>2, <1>6
<1>13. ASSUME NEW i \in Owes(c)
       PROVE  i \in Owes(c)' \/ i \in out
  <2> SUFFICES ASSUME i \notin out PROVE i \in Owes(c)'
    OBVIOUS
  <2>1. i \in Id
    BY <1>5 DEF Owes
  <2>2. CASE i \in own[c]
    BY <2>2, <1>6 DEF Owes
  <2>3. CASE i \notin own[c]
    <3>1. gone[c][i] = None /\ k[i] # None /\ Sending(toServer[c], i, k[i].val)
      BY <2>3 DEF Owes
    <3>2. l[i] = k[i] /\ gone'[c][i] = gone[c][i]
      BY <2>1, <1>6
    <3> QED
      BY <2>1, <3>1, <3>2, <1>2 DEF Owes
  <2> QED
    BY <2>2, <2>3
<1> DEFINE ow == Owes(c)
           vw == Owes(c)'
           lo == lost[c]
<1>14. \A i \in ow : i \in vw \/ i \in out
  BY <1>13
<1>15. Uninitialized(c)' <=> Uninitialized(c)
  BY <1>2 DEF Uninitialized
<1> HIDE DEF ow, vw, lo
<1>16. Grouped(params, spoilt, <<p>> \o t, k)
  BY <1>3, <1>11 DEF MirrorOf
<1> HIDE DEF k, l
<1>17. Grouped(params, spoilt, t, l)
  <2> SUFFICES ASSUME NEW i \in Id \ spoilt, params[i] # None PROVE GroupAt(i, params, t, l)
    BY DEF Grouped
  <2>1. GroupAt(i, params, <<p>> \o t, k)
    BY <1>16 DEF Grouped
  <2> QED
    BY <2>1, <1>2, <1>3, <1>8, DropsGroup
<1>18. ASSUME ~Uninitialized(c)
       PROVE  Mirror(params, spoilt, Before(c)', Late(c)', l, lost'[c], vw)
  <2> SUFFICES ASSUME NEW i \in Id \ spoilt, params[i] # None
               PROVE  MirrorAt(i, params, spoilt, Before(c)', Late(c)', l, lost'[c], vw)
    BY DEF Mirror
  <2>1. MirrorAt(i, params, spoilt, Before(c), Late(c), k, lo, ow)
    BY <1>11, <1>18 DEF MirrorOf, Mirror, k, lo, ow
  <2>2. \/ /\ early[c] = 0
           /\ Before(c) = <<>> /\ Late(c) = <<p>> \o t
           /\ Before(c)' = <<>> /\ Late(c)' = t
        \/ /\ early[c] # 0
           /\ Late(c)' = Late(c)
           /\ Before(c)' \in Seq(FromServers) /\ Before(c) = <<p>> \o Before(c)'
    BY <1>2, TakeCut DEF p, t
  <2>3. CASE /\ early[c] # 0
             /\ Late(c)' = Late(c)
             /\ Before(c)' \in Seq(FromServers) /\ Before(c) = <<p>> \o Before(c)'
    <3> DEFINE F == Before(c)'
    <3>1. F \in Seq(FromServers) /\ MirrorAt(i, params, spoilt, <<p>> \o F, Late(c), k, lo, ow)
      BY <2>1, <2>3
    <3> HIDE DEF F
    <3>2. MirrorAt(i, params, spoilt, F, Late(c), l, lo \ {p.id}, vw)
      BY <3>1, <1>2, <1>3, <1>8, DropsEarly
    <3>3. lost'[c] = lo \ {p.id}
      BY <2>3, <1>6 DEF lo
    <3> QED
      BY <2>3, <3>2, <3>3 DEF F
  <2>4. CASE /\ early[c] = 0
             /\ Before(c) = <<>> /\ Late(c) = <<p>> \o t
             /\ Before(c)' = <<>> /\ Late(c)' = t
    <3>1. MirrorAt(i, params, spoilt, <<>>, <<p>> \o t, k, lo, ow)
      BY <2>1, <2>4
    <3>2. params[i].par \in Id \cup {0}
      BY <1>1 DEF Params, Parameter
    <3>3. MirrorAt(i, params, spoilt, <<>>, t, l, (lo \cup out) \ {p.id}, vw)
      BY <3>1, <3>2, <1>2, <1>3, <1>8, <1>14, DropsLate
    <3>4. lost'[c] = (lo \cup out) \ {p.id}
      BY <2>4, <1>6, <1>18 DEF lo
    <3> QED
      BY <2>4, <3>3, <3>4
  <2> QED
    BY <2>2, <2>3, <2>4
<1>19. /\ Grouped(params', spoilt', toClient'[c], cache'[c])
       /\ ~Uninitialized(c)' => Mirror(params', spoilt', Before(c)', Late(c)', cache'[c], lost'[c], Owes(c)')
  BY <1>2, <1>3, <1>15, <1>17, <1>18 DEF l, vw
<1> QED
  BY <1>2, <1>9, <1>12, <1>19, MirrorInvParts

-----------------------------------------------------------------------------
(* What a client does itself *)

\* Cache k becomes l, the same but for values that the application set.
LEMMA MirrorCache ==
    ASSUME NEW m \in Params, NEW sp, NEW E, NEW L, NEW k, NEW l, NEW lo, NEW ow, NEW vw,
           Mirror(m, sp, E, L, k, lo, ow),
           \A j \in Id : /\ k[j] = None <=> l[j] = None
                         /\ k[j] # None => /\ l[j].label = k[j].label /\ l[j].par = k[j].par
                                           /\ l[j].val = k[j].val \/ j \in vw,
           \A j \in ow : j \in vw
    PROVE  Mirror(m, sp, E, L, l, lo, vw)
<1> SUFFICES ASSUME NEW i \in Id \ sp, m[i] # None PROVE MirrorAt(i, m, sp, E, L, l, lo, vw)
  BY DEF Mirror
<1> DEFINE g == m[i].par
<1>1. MirrorAt(i, m, sp, E, L, k, lo, ow)
  BY DEF Mirror
<1>2. g \in Id \cup {0}
  BY DEF Params, Parameter
<1>3. \A x \in Id : Now(E, L, k, x) => Now(E, L, l, x) /\ k[x] # None
  BY DEF Now, HasNow
<1>4. LabelAt(i, m, E, L, l, lo)
  BY <1>1, <1>3 DEF MirrorAt, LabelAt
<1>5. ValueAt(i, m, E, L, l, lo, vw)
  <2>1. ValueAt(i, m, E, L, k, lo, ow)
    BY <1>1 DEF MirrorAt
  <2>2. Silent(i, m, E, L, k) => Silent(i, m, E, L, l)
    BY DEF Silent
  <2> QED
    BY <2>1, <2>2, <1>3 DEF ValueAt
<1>6. FollowAt(i, m, sp, E, L, l, lo)
  <2>1. FollowAt(i, m, sp, E, L, k, lo)
    BY <1>1 DEF MirrorAt
  <2>2. g # 0 /\ Follows(i, g, E, L, k) => Follows(i, g, E, L, l)
    BY <1>2, <1>3 DEF Follows
  <2> QED
    BY <2>1, <2>2 DEF FollowAt
<1> QED
  BY <1>4, <1>5, <1>6 DEF MirrorAt

\* The kind of a cached parameter does not change with its value.
LEMMA GroupCache ==
    ASSUME NEW m, NEW sp, NEW q, NEW k, NEW l, Grouped(m, sp, q, k),
           \A j \in Id : (k[j] = None <=> l[j] = None) /\ (k[j] # None => l[j].group = k[j].group)
    PROVE  Grouped(m, sp, q, l)
BY DEF Grouped, GroupAt, HasNow

\* Client c does something to its own cache, and sends something perhaps.
LEMMA OwnMirror ==
    ASSUME TypeOK, MirrorInv, NEW c \in on,
           UNCHANGED <<server, on, astray, early, lost, toClient, spoilt>>,
           \A d \in Clients \ {c} : cache'[d] = cache[d] /\ gone'[d] = gone[d] /\ own'[d] = own[d]
                                    /\ toServer'[d] = toServer[d],
           Uninitialized(c) => Uninitialized(c)',
           \A j \in Id : /\ cache[c][j] = None <=> cache'[c][j] = None
                         /\ cache[c][j] # None =>
                              /\ cache'[c][j].label = cache[c][j].label /\ cache'[c][j].par = cache[c][j].par
                              /\ cache'[c][j].group = cache[c][j].group
                              /\ cache'[c][j].val = cache[c][j].val \/ j \in Owes(c)',
           \A j \in Owes(c) : j \in Owes(c)',
           Owned(c)'
    PROVE  MirrorInv'
<1>1. params \in Params /\ on \subseteq Clients
  BY TypeParts DEF ServerTyped
<1>2. params' = params /\ spoilt' = spoilt /\ on' = on /\ toClient' = toClient /\ early' = early /\ lost' = lost
  BY DEF server
<1>3. ASSUME NEW d \in on, d # c
      PROVE  /\ Grouped(params', spoilt', toClient'[d], cache'[d])
             /\ ~Uninitialized(d)' => Mirror(params', spoilt', Before(d)', Late(d)', cache'[d], lost'[d], Owes(d)')
             /\ Owned(d)'
  <2>1. d \in Clients
    BY <1>1, <1>3
  <2>2. /\ cache'[d] = cache[d] /\ gone'[d] = gone[d] /\ own'[d] = own[d] /\ lost'[d] = lost[d]
        /\ early'[d] = early[d] /\ toServer'[d] = toServer[d] /\ toClient'[d] = toClient[d]
    BY <1>2, <1>3, <2>1
  <2> QED
    BY <1>2, <1>3, <2>2, OtherMirror
<1>4. MirrorOf(c)
  BY MirrorInvParts
<1>5. Before(c)' = Before(c) /\ Late(c)' = Late(c)
  BY <1>2 DEF Before, Late
<1> DEFINE k == cache[c]
           l == cache'[c]
           ow == Owes(c)
           vw == Owes(c)'
<1>6. /\ \A j \in ow : j \in vw
      /\ \A j \in Id : /\ k[j] = None <=> l[j] = None
                       /\ k[j] # None => /\ l[j].label = k[j].label /\ l[j].par = k[j].par
                                         /\ l[j].group = k[j].group
                                         /\ l[j].val = k[j].val \/ j \in vw
  OBVIOUS
<1>7. /\ Grouped(params, spoilt, toClient[c], k)
      /\ ~Uninitialized(c) => Mirror(params, spoilt, Before(c), Late(c), k, lost[c], ow)
  BY <1>4 DEF MirrorOf
<1> HIDE DEF k, l, ow, vw
<1>8. Grouped(params, spoilt, toClient[c], l)
  BY <1>6, <1>7, GroupCache
<1>9. ~Uninitialized(c) => Mirror(params, spoilt, Before(c), Late(c), l, lost[c], vw)
  BY <1>1, <1>6, <1>7, MirrorCache
<1>10. /\ Grouped(params', spoilt', toClient'[c], cache'[c])
       /\ ~Uninitialized(c)' => Mirror(params', spoilt', Before(c)', Late(c)', cache'[c], lost'[c], Owes(c)')
  BY <1>2, <1>5, <1>8, <1>9 DEF l, vw
<1> QED
  BY <1>2, <1>3, <1>10, MirrorInvParts

\* setValue at a client keeps the mirror: the client owes the value from now on.
LEMMA ClientSetMirror ==
    ASSUME TypeOK, MirrorInv, NEW c \in Clients, NEW i \in Id, NEW v \in Vals, ClientSet(c, i, v)
    PROVE  MirrorInv'
<1>1. ClientsMapped /\ cache[c] \in Params /\ gone[c] \in Params /\ own[c] \subseteq Id
  BY TypeParts DEF ClientTyped
<1>2. /\ c \in on /\ cache[c][i] # None
      /\ cache' = [cache EXCEPT ![c][i].val = v, ![c][i].chg = @ \cup {"val"}]
      /\ gone' = [gone EXCEPT ![c][i] = None]
      /\ own' = [own EXCEPT ![c] = @ \cup {i}]
      /\ UNCHANGED <<server, on, astray, early, lost, net, spoilt>>
  BY DEF ClientSet
<1>3. /\ gone'[c] = [gone[c] EXCEPT ![i] = None] /\ own'[c] = own[c] \cup {i}
      /\ \A d \in Clients \ {c} : cache'[d] = cache[d] /\ gone'[d] = gone[d] /\ own'[d] = own[d]
  BY <1>1, <1>2 DEF ClientsMapped
<1>4. cache'[c] = [cache[c] EXCEPT ![i] = [[cache[c][i] EXCEPT !.val = v] EXCEPT !.chg = @ \cup {"val"}]]
  BY <1>1, <1>2 DEF ClientsMapped
<1>5. cache[c][i] \in Parameter
  BY <1>1, <1>2 DEF Params
<1>6. /\ cache'[c][i] # None /\ "val" \in cache'[c][i].chg
      /\ cache'[c][i].label = cache[c][i].label /\ cache'[c][i].par = cache[c][i].par
      /\ cache'[c][i].group = cache[c][i].group
  <2> DEFINE r == cache[c][i]
             x == [[r EXCEPT !.val = v] EXCEPT !.chg = @ \cup {"val"}]
  <2>1. x \in Parameter /\ "val" \in x.chg /\ x.label = r.label /\ x.par = r.par /\ x.group = r.group
    BY <1>5 DEF Parameter, Fields
  <2>2. x # None
    BY <2>1, Values
  <2>3. cache'[c][i] = x
    BY <1>1, <1>4 DEF Params
  <2> QED
    BY <2>1, <2>2, <2>3
<1>7. \A j \in Id \ {i} : cache'[c][j] = cache[c][j] /\ gone'[c][j] = gone[c][j]
  BY <1>1, <1>3, <1>4 DEF Params
<1>8. gone'[c][i] = None
  BY <1>1, <1>3 DEF Params
<1>9. toServer' = toServer /\ toClient' = toClient
  BY <1>2 DEF net
<1>10. i \in Owes(c)'
  BY <1>3 DEF Owes
<1>11. \A j \in Owes(c) : j \in Owes(c)'
  <2> TAKE j \in Owes(c)
  <2>1. CASE j \in own[c] \/ j = i
    BY <2>1, <1>3 DEF Owes
  <2>2. CASE j \notin own[c] /\ j # i
    BY <2>2, <1>7, <1>9 DEF Owes
  <2> QED
    BY <2>1, <2>2
<1>12. Owned(c)'
  <2>1. MirrorOf(c)
    BY <1>2, MirrorInvParts
  <2>2. \A j \in own[c] : cache[c][j] # None /\ gone[c][j] = None /\ "val" \in cache[c][j].chg
    BY <2>1 DEF MirrorOf, Owned
  <2> SUFFICES ASSUME NEW j \in own'[c]
               PROVE  cache'[c][j] # None /\ gone'[c][j] = None /\ "val" \in cache'[c][j].chg
    BY DEF Owned
  <2>3. CASE j = i
    BY <2>3, <1>6, <1>8
  <2>4. CASE j # i
    BY <2>2, <2>4, <1>1, <1>3, <1>7
  <2> QED
    BY <2>3, <2>4
<1>13. Uninitialized(c) => Uninitialized(c)'
  BY <1>9 DEF Uninitialized
<1> QED
  BY <1>2, <1>3, <1>6, <1>7, <1>9, <1>10, <1>11, <1>12, <1>13, OwnMirror

\* What update() of a client sends of one id
LEMMA MessagesSay ==
    ASSUME NEW c, \A i \in Due(c) : i \in Id /\ Listed(c, i) \in Parameter, NEW j \in Id,
           NEW S \in SUBSET About(j), NEW B \in SUBSET About(j)
    PROVE  /\ Ends(Messages(c), S, B) <=> j \in Due(c) /\ UPDATE(j, Listed(c, j), Listed(c, j).chg) \in S
           /\ Holds(Messages(c), B) <=> j \in Due(c) /\ UPDATE(j, Listed(c, j), Listed(c, j).chg) \in B
<1> DEFINE u(i) == UPDATE(i, Listed(c, i), Listed(c, i).chg)
           s == [i \in Id |-> IF i \in Due(c) THEN <<u(i)>> ELSE <<>>]
           P == FromClients
<1>1. \A i \in Due(c) : u(i) \in FromClients /\ u(i).id = i
  <2> TAKE i \in Due(c)
  <2>1. i \in Id /\ Listed(c, i) \in Parameter /\ Listed(c, i).chg \in SUBSET Fields
    BY DEF Parameter
  <2> QED
    BY <2>1, UpdateFields
<1>2. Messages(c) = InOrder(s)
  BY DEF Messages
<1> HIDE DEF u
<1>3. /\ \A i \in Id : s[i] = IF i \in Due(c) THEN <<u(i)>> ELSE <<>>
      /\ s \in [Id -> Seq(P)]
  BY <1>1
<1> HIDE DEF s, P
<1>4. ASSUME NEW i \in Id, i # j
      PROVE  ~Holds(s[i], S) /\ ~Holds(s[i], B)
  <2>1. i \in Due(c) => u(i) \notin S /\ u(i) \notin B
    BY <1>1, <1>4 DEF About
  <2> QED
    BY <1>3, <2>1, ViewEmpty, ViewOne
<1>5. Ends(InOrder(s), S, B) <=> Ends(s[j], S, B)
  BY <1>3, <1>4, InOrderEnds
<1>6. Holds(InOrder(s), B) <=> Holds(s[j], B)
  <2>1. Holds(InOrder(s), B) <=> \E i \in Id : Holds(s[i], B)
    BY <1>3, InOrderHolds
  <2> QED
    BY <2>1, <1>4
<1>7. /\ Ends(s[j], S, B) <=> j \in Due(c) /\ u(j) \in S
      /\ Holds(s[j], B) <=> j \in Due(c) /\ u(j) \in B
  <2>1. CASE j \in Due(c)
    <3>1. s[j] = <<u(j)>>
      BY <2>1, <1>3
    <3>2. (Ends(<<u(j)>>, S, B) <=> u(j) \in S) /\ (Holds(<<u(j)>>, B) <=> u(j) \in B)
      BY ViewOne
    <3> QED
      BY <2>1, <3>1, <3>2
  <2>2. CASE j \notin Due(c)
    BY <2>2, <1>3, ViewEmpty
  <2> QED
    BY <2>1, <2>2
<1> QED
  BY <1>2, <1>5, <1>6, <1>7 DEF u

\* update() of a client keeps it: what was set is under way.
LEMMA ClientUpdateMirror ==
    ASSUME TypeOK, MirrorInv, NEW c \in Clients, ClientUpdate(c)
    PROVE  MirrorInv'
<1>1. ClientsMapped /\ cache[c] \in Params /\ gone[c] \in Params /\ own[c] \subseteq Id
      /\ toServer[c] \in Seq(FromClients)
  BY TypeParts DEF ClientTyped
<1>2. /\ c \in on /\ toServer' = [toServer EXCEPT ![c] = toServer[c] \o Messages(c)]
      /\ Messages(c) \in Seq(FromClients)
      /\ \A i \in Due(c) : i \in Id /\ Listed(c, i) \in Parameter
      /\ cache' = [cache EXCEPT ![c] = [i \in Id |-> IF cache[c][i] = None THEN None ELSE Sent(cache[c][i])]]
      /\ gone' = [gone EXCEPT ![c] = [i \in Id |-> None]]
      /\ own' = [own EXCEPT ![c] = {}]
      /\ UNCHANGED <<server, on, astray, early, lost, toClient, spoilt>>
  BY ClientUpdateParts
<1>3. /\ toServer'[c] = toServer[c] \o Messages(c) /\ own'[c] = {}
      /\ \A j \in Id : gone'[c][j] = None
      /\ \A j \in Id : cache'[c][j] = IF cache[c][j] = None THEN None ELSE Sent(cache[c][j])
      /\ \A d \in Clients \ {c} : cache'[d] = cache[d] /\ gone'[d] = gone[d] /\ own'[d] = own[d]
                                  /\ toServer'[d] = toServer[d]
  BY <1>1, <1>2 DEF ClientsMapped
<1>4. \A j \in Id : cache[c][j] # None => cache[c][j] \in Parameter
  BY <1>1 DEF Params
<1>5. \A j \in Id : /\ cache[c][j] = None <=> cache'[c][j] = None
                    /\ cache[c][j] # None =>
                         /\ cache'[c][j].label = cache[c][j].label /\ cache'[c][j].par = cache[c][j].par
                         /\ cache'[c][j].group = cache[c][j].group
                         /\ cache'[c][j].val = cache[c][j].val
  <2> TAKE j \in Id
  <2>1. CASE cache[c][j] = None
    BY <2>1, <1>3
  <2>2. CASE cache[c][j] # None
    <3>1. cache'[c][j] = Sent(cache[c][j]) /\ cache[c][j] \in Parameter
      BY <2>2, <1>3, <1>4
    <3>2. Sent(cache[c][j]) # None
      BY <3>1, SentFields, Values
    <3> QED
      BY <2>2, <3>1, <3>2, SentFields
  <2> QED
    BY <2>1, <2>2
<1>6. Owned(c)'
  BY <1>3 DEF Owned
<1>7. Owned(c)
  BY <1>2, MirrorInvParts DEF MirrorOf
<1>8. ASSUME NEW j \in Owes(c)
      PROVE  j \in Owes(c)'
  <2> DEFINE v == cache[c][j].val
             u == UPDATE(j, Listed(c, j), Listed(c, j).chg)
             S == OfVal(j, v)
             B == WithVal(j)
  <2>1. j \in Id /\ cache[c][j] # None /\ gone[c][j] = None /\ (j \in own[c] => "val" \in cache[c][j].chg)
        /\ (j \in own[c] \/ Ends(toServer[c], S, B))
    BY <1>1, <1>7 DEF Owes, Owned, Sending
  <2>2. cache[c][j] \in Parameter /\ cache[c][j].chg \in SUBSET Fields /\ v \in Vals /\ v # None
    BY <2>1, <1>4, Values DEF Parameter
  <2>3. Listed(c, j) = cache[c][j]
    BY <2>1 DEF Listed
  <2>4. S \in SUBSET About(j) /\ B \in SUBSET About(j)
    BY AboutSets
  <2>5. /\ u \in FromServers /\ u.id = j /\ u.cmd = "UPDATE"
        /\ "val" \in cache[c][j].chg => u.val = v
        /\ "val" \notin cache[c][j].chg => u.val = None
    BY <2>1, <2>2, <2>3, UpdateFields
  <2>6. /\ u \in S <=> "val" \in cache[c][j].chg
        /\ u \in B <=> "val" \in cache[c][j].chg
    BY <2>2, <2>5, Apart
  <2> HIDE DEF u, S, B, v
  <2>7. /\ Ends(Messages(c), S, B) <=> j \in Due(c) /\ u \in S
        /\ Holds(Messages(c), B) <=> j \in Due(c) /\ u \in B
    BY <1>2, <2>1, <2>4, MessagesSay DEF u
  <2>8. Ends(toServer'[c], S, B) <=> Ends(Messages(c), S, B) \/ (Ends(toServer[c], S, B) /\ ~Holds(Messages(c), B))
    <3> DEFINE q == toServer[c]
               r == Messages(c)
    <3>1. q \in Seq(FromClients) /\ r \in Seq(FromClients) /\ toServer'[c] = q \o r
      BY <1>1, <1>2, <1>3
    <3> HIDE DEF q, r
    <3>2. Ends(q \o r, S, B) <=> Ends(r, S, B) \/ (Ends(q, S, B) /\ ~Holds(r, B))
      BY <3>1, EndsConcat
    <3> QED
      BY <3>1, <3>2 DEF q, r
  <2>9. "val" \in cache[c][j].chg => j \in Due(c)
    BY <2>1, <2>3 DEF Due
  <2>10. Ends(toServer'[c], S, B)
    BY <2>1, <2>6, <2>7, <2>8, <2>9
  <2>11. cache'[c][j].val = v /\ cache'[c][j] # None
    BY <2>1, <1>5 DEF v
  <2> QED
    BY <2>1, <2>10, <2>11, <1>3 DEF Owes, Sending, S, B
<1>9. Uninitialized(c) => Uninitialized(c)'
  <2> SUFFICES ASSUME Uninitialized(c) PROVE Uninitialized(c)'
    OBVIOUS
  <2> DEFINE q == toServer[c]
             r == Messages(c)
             s == q \o r
  <2>1. q \in Seq(FromClients) /\ r \in Seq(FromClients) /\ q # <<>>
    BY <1>1, <1>2 DEF Uninitialized
  <2>2. toServer'[c] = s
    BY <1>3
  <2> HIDE DEF q, r
  <2>3. s \in Seq(FromClients) /\ DOMAIN s = 1..(Len(q) + Len(r)) /\ Len(q) \in Nat /\ Len(r) \in Nat
        /\ \A n \in 1..Len(q) : s[n] = q[n]
    BY <2>1, ConcatPlaces
  <2> HIDE DEF s
  <2>4. Len(q) # 0
    BY <2>1, EmptySeq
  <2>5. s # <<>> /\ s[1] = q[1]
    <3>1. 1 \in 1..Len(q) /\ 1 \in DOMAIN s
      BY <2>3, <2>4
    <3> QED
      BY <2>3, <3>1
  <2>6. Head(s) = s[1] /\ Head(q) = q[1]
    BY <2>1, <2>3, <2>5
  <2> QED
    BY <2>2, <2>5, <2>6 DEF Uninitialized, q
<1> QED
  BY <1>2, <1>3, <1>5, <1>6, <1>8, <1>9, OwnMirror

-----------------------------------------------------------------------------
(* The theorem about the mirror *)

\* Every step keeps the mirror.
LEMMA MirrorStep == ASSUME TypeOK, TreeInv, MirrorInv, [Next]_vars PROVE MirrorInv'
<1>1. CASE UNCHANGED vars
  <2>1. /\ params' = params /\ spoilt' = spoilt /\ on' = on /\ cache' = cache /\ gone' = gone /\ own' = own
        /\ lost' = lost /\ early' = early /\ toServer' = toServer /\ toClient' = toClient
    BY <1>1 DEF vars, server, client, net
  <2>2. \A e \in on : /\ Grouped(params', spoilt', toClient'[e], cache'[e])
                      /\ ~Uninitialized(e)' =>
                            Mirror(params', spoilt', Before(e)', Late(e)', cache'[e], lost'[e], Owes(e)')
                      /\ Owned(e)'
    BY <2>1, OtherMirror
  <2> QED
    BY <2>1, <2>2, MirrorInvParts
<1>2. CASE Next
  BY <1>2, CreateMirror, SetValueMirror, MoveMirror, RemoveParameterMirror, UpdateMirror, ServeInitializeMirror,
     ServeUpdateMirror, ConnectMirror, DisconnectMirror, TakeUpdateMirror, TakeRemoveMirror, ClientSetMirror,
     ClientUpdateMirror DEF Next
<1> QED
  BY <1>1, <1>2

\* When nothing is under way a client has what the server has.
LEMMA MirrorShows == ASSUME TypeOK, TreeInv, MirrorInv PROVE QuietMirror
<1> SUFFICES ASSUME NEW c \in Clients, Quiet(c), NEW i \in Id \ (spoilt \cup own[c])
             PROVE  IF params[i] = None THEN cache[c][i] = None
                    ELSE \/ i \in lost[c]
                         \/ params[i].par \in spoilt \cup lost[c]
                         \/ cache[c][i] # None /\ Sent(cache[c][i]) = Sent(params[i])
  BY DEF QuietMirror
<1> DEFINE k == cache[c]
           e == <<>>
           g == params[i].par
<1>1. c \in on /\ toServer[c] = e /\ toClient[c] = e /\ dirty = {} /\ removed = {}
  BY DEF Quiet
<1>2. params \in Params /\ k \in Params /\ early[c] \in Nat /\ early[c] <= Len(toClient[c])
  BY TypeParts DEF ServerTyped, ClientTyped
<1>3. Before(c) = e /\ Late(c) = e
  <2>1. early[c] = 0
    BY <1>1, <1>2, EmptySeq
  <2> QED
    BY <1>1, <2>1, AllLate
<1>4. /\ ~Cleared(e, i) /\ ~Told(e, i) /\ ~SaysLabel(e, i) /\ ~TellsVal(e, i) /\ ~TellsPar(e, i)
      /\ \A v : ~SaysVal(e, i, v)
      /\ \A h : ~SaysPar(e, i, h)
  BY SaidNothing
<1>5. TreeAt(i, params, {}, e, k, astray[c]) /\ ServerParam(i, params, {}, spoilt)
  BY <1>1, TreeInvParts DEF Tree, ServerOK
<1>6. Grouped(params, spoilt, e, k) /\ Mirror(params, spoilt, e, e, k, lost[c], Owes(c))
  <2>1. MirrorOf(c) /\ ~Uninitialized(c)
    BY <1>1, MirrorInvParts DEF Uninitialized
  <2> QED
    BY <1>1, <1>3, <2>1 DEF MirrorOf
<1>7. ~Led(e, i, g)
  BY DEF Led, After
<1>8. i \notin Owes(c)
  <2>1. \A v : ~Sending(e, i, v)
    BY ViewEmpty DEF Sending
  <2> QED
    BY <1>1, <2>1 DEF Owes
<1> HIDE DEF e, k
<1>9. CASE params[i] = None
  BY <1>4, <1>5, <1>9 DEF TreeAt, HasNow, k
<1>10. CASE params[i] # None /\ (i \in lost[c] \/ g \in spoilt \cup lost[c])
  BY <1>10
<1>11. CASE params[i] # None /\ i \notin lost[c] /\ g \notin spoilt \cup lost[c]
  <2>1. params[i] \in Parameter /\ params[i].label /\ params[i].chg = {}
    BY <1>2, <1>5, <1>11 DEF Params, ServerParam
  <2>2. MirrorAt(i, params, spoilt, e, e, k, lost[c], Owes(c)) /\ GroupAt(i, params, e, k)
    BY <1>6, <1>11 DEF Mirror, Grouped
  <2>3. ~Lacks(e, e, lost[c], i) /\ ~Lacks(e, e, lost[c], g)
    BY <1>11 DEF Lacks
  <2>4. Now(e, e, k, i) /\ k[i].label
    BY <2>1, <2>2, <2>3, <1>4 DEF MirrorAt, LabelAt
  <2>5. k[i] # None /\ HasNow(e, k, i) /\ k[i] \in Parameter
    BY <2>4, <1>2 DEF Now, HasNow, Params
  <2>6. k[i].group = params[i].group
    BY <2>2, <2>5 DEF GroupAt
  <2>7. k[i].val = params[i].val
    <3>1. ValueAt(i, params, e, e, k, lost[c], Owes(c))
      BY <2>2 DEF MirrorAt
    <3>2. ~Silent(i, params, e, e, k)
      BY <2>5, <1>4 DEF Silent
    <3> QED
      BY <3>1, <3>2, <2>1, <2>3, <1>4, <1>8 DEF ValueAt
  <2>8. k[i].par = g
    <3>1. CASE g = 0
      BY <3>1, <2>5, <1>5, <1>11 DEF TreeAt
    <3>2. CASE g # 0
      <4>1. Follows(i, g, e, e, k)
        BY <3>2, <2>1, <2>2, <2>3, <1>11 DEF MirrorAt, FollowAt
      <4> QED
        BY <4>1, <1>4, <1>7 DEF Follows
    <3> QED
      BY <3>1, <3>2
  <2>9. Sent(k[i]) = Sent(params[i])
    <3>1. Sent(k[i]) \in Parameter /\ Sent(params[i]) \in Parameter
      BY <2>1, <2>5, SentFields
    <3>2. /\ Sent(k[i]).group = Sent(params[i]).group /\ Sent(k[i]).label = Sent(params[i]).label
          /\ Sent(k[i]).par = Sent(params[i]).par /\ Sent(k[i]).val = Sent(params[i]).val
          /\ Sent(k[i]).chg = Sent(params[i]).chg
      BY <2>1, <2>4, <2>5, <2>6, <2>7, <2>8, SentFields
    <3> DEFINE r == Sent(k[i])
               s == Sent(params[i])
    <3> HIDE DEF r, s
    <3>3. r = s
      BY <3>1, <3>2 DEF Parameter, r, s
    <3> QED
      BY <3>3 DEF r, s
  <2> QED
    BY <2>5, <2>9, <1>11 DEF k
<1> QED
  BY <1>9, <1>10, <1>11

\* When nothing is under way for a client, and nothing pending at the server,
\* the client's cache is the server's registry: in particular no echo, no
\* reconnect and no update of several clients at the same time leaves a
\* parameter in the wrong group or with an old value, but for the exceptions
\* that QuietMirror names.
THEOREM QuietMirrors == ASSUME StepByStep PROVE Spec => []QuietMirror
<1>1. Init => TypeOK /\ TreeInv /\ MirrorInv
  BY InitTyped, TreeInit, MirrorInit
<1>2. TypeOK /\ TreeInv /\ MirrorInv /\ [Next]_vars => TypeOK' /\ TreeInv' /\ MirrorInv'
  BY TypeStep, TreeStep, MirrorStep
<1>3. TypeOK /\ TreeInv /\ MirrorInv => QuietMirror
  BY MirrorShows
<1> QED
  BY <1>1, <1>2, <1>3, PTL DEF Spec

=============================================================================
