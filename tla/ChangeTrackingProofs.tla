------------------------ MODULE ChangeTrackingProofs ------------------------
(***************************************************************************)
(* Theorems about ChangeTracking, for any number of fields, values,        *)
(* clients and threads: first for every interleaving, then for operations  *)
(* that exclude each other, when INITIALIZE finds nothing pending.         *)
(***************************************************************************)
EXTENDS ChangeTracking, TLAPS

USE DEF Fields

Flushing == {"form", "write", "reset", "send", "done"}

\* While a flush is under way its thread holds the lock, builds a packet for
\* everybody, and the dirty list is what it was.
LockInv ==
    /\ \A t \in Threads : lock = t <=> pc[t] \in Flushing /\ to[t] = Nothing
    /\ lock # NoThread => dirty
    /\ \A t \in Threads : pc[t] \in {"idle", "flag", "mark", "done"} => to[t] = Nothing

\* The setter of field f is about to put the parameter on the dirty list.
Marking(f) == \E t \in Threads : pc[t] = "mark" /\ fld[t] = f

\* The writer on thread t will not look at field f any more.
Passed(t, f) ==
    \/ pc[t] \in {"send", "done"}
    \/ pc[t] \in {"write", "reset"} /\ (IF short[t] THEN f # ValueField ELSE f < fld[t])

\* What a flush has passed is not flagged, or will be marked after it.
PassedInv ==
    \A t \in Threads, f \in Fields :
        lock = t /\ Passed(t, f) /\ chg[f] => Marking(f)

\* In a short packet the value is the only field to write.
ShortInv ==
    \A t \in Threads : pc[t] \in {"write", "reset"} /\ short[t] => fld[t] = ValueField

TrackInv == TypeOK /\ LockInv /\ ShortInv /\ PassedInv /\ FlaggedIsDirty

-----------------------------------------------------------------------------
\* The invariant holds at the start.
LEMMA TrackInit == Init => TrackInv
BY FieldsExist, Values, ThreadsKnown
   DEF Init, TrackInv, TypeOK, LockInv, ShortInv, PassedInv, FlaggedIsDirty,
       Flushing, NoPacket, Passed

\* The writer stays within the fields.
LEMMA AdvanceType ==
    ASSUME TypeOK, NEW t \in Threads, Advance(t)
    PROVE  fld' \in [Threads -> Fields]
<1>1. fld[t] \in 1..Last
  BY DEF TypeOK
<1>2. CASE WrittenLast(t)
  BY <1>2, FieldsExist DEF Advance, TypeOK
<1>3. CASE ~WrittenLast(t)
  <2>1. fld[t] + 1 \in 1..Last
    BY <1>1, <1>3, FieldsExist DEF WrittenLast
  <2> QED
    BY <1>3, <2>1 DEF Advance, TypeOK
<1> QED
  BY <1>2, <1>3

\* Every step keeps the types.
LEMMA TypeStep == TypeOK /\ [Next]_vars => TypeOK'
<1> SUFFICES ASSUME TypeOK, [Next]_vars
             PROVE  TypeOK'
  OBVIOUS
<1> USE FieldsExist, Values DEF TypeOK, Goto, flags, packet, client
<1>1. ASSUME NEW t \in Threads, NEW f \in Fields, NEW v \in Vals, Set(t, f, v)
      PROVE  TypeOK'
  BY <1>1 DEF Set
<1>2. ASSUME NEW t \in Threads, NEW f \in Fields, ClearField(t, f)
      PROVE  TypeOK'
  BY <1>2 DEF ClearField
<1>3. ASSUME NEW t \in Threads, Flag(t)
      PROVE  TypeOK'
  BY <1>3 DEF Flag
<1>4. ASSUME NEW t \in Threads, Mark(t)
      PROVE  TypeOK'
  BY <1>4 DEF Mark
<1>5. ASSUME NEW t \in Threads, BeginFlush(t)
      PROVE  TypeOK'
  BY <1>5 DEF BeginFlush
<1>6. ASSUME NEW t \in Threads, EndFlush(t)
      PROVE  TypeOK'
  BY <1>6 DEF EndFlush
<1>7. ASSUME NEW t \in Threads, NEW c \in Clients, BeginInitialize(t, c)
      PROVE  TypeOK'
  BY <1>7 DEF BeginInitialize
<1>8. ASSUME NEW t \in Threads, ChooseForm(t)
      PROVE  TypeOK'
  BY <1>8 DEF ChooseForm, OnlyValueChanged
<1>9. ASSUME NEW t \in Threads, WriteField(t)
      PROVE  TypeOK'
  <2>1. Effective(fld[t]) \in Vals
    BY DEF Effective
  <2>2. pkt' \in [Threads -> [Fields -> Vals \cup {Nothing}]]
    <3>1. \/ pkt' = pkt
          \/ pkt' = [pkt EXCEPT ![t][fld[t]] = Effective(fld[t])]
      BY <1>9 DEF WriteField
    <3>2. [pkt[t] EXCEPT ![fld[t]] = Effective(fld[t])]
            \in [Fields -> Vals \cup {Nothing}]
      BY <2>1
    <3> QED
      BY <3>1, <3>2
  <2>3. fld' \in [Threads -> Fields]
    BY <1>9, AdvanceType DEF WriteField
  <2>4. pc' \in [Threads -> {"idle", "flag", "mark", "form", "write", "reset",
                             "send", "done"}]
    BY <1>9 DEF WriteField, Advance
  <2> QED
    BY <1>9, <2>2, <2>3, <2>4 DEF WriteField
<1>10. ASSUME NEW t \in Threads, ResetField(t)
       PROVE  TypeOK'
  BY <1>10 DEF ResetField, Advance, WrittenLast
<1>11. ASSUME NEW t \in Threads, Send(t)
       PROVE  TypeOK'
  <2>1. view' \in [Clients -> [Fields -> Vals \cup {Nothing}]]
    BY <1>11 DEF Send
  <2>2. ready' \subseteq Clients
    BY <1>11 DEF Send
  <2>3. /\ cmd' \in [Threads -> {"UPDATE", "UPDATEVALUE"}]
        /\ short' \in [Threads -> BOOLEAN]
        /\ to' \in [Threads -> Clients \cup {Nothing}]
        /\ pkt' \in [Threads -> [Fields -> Vals \cup {Nothing}]]
    BY <1>11 DEF Send, DropPacket, NoPacket
  <2>4. pc' \in [Threads -> {"idle", "flag", "mark", "form", "write", "reset",
                             "send", "done"}]
    BY <1>11 DEF Send
  <2> QED
    BY <1>11, <2>1, <2>2, <2>3, <2>4 DEF Send
<1>12. CASE UNCHANGED vars
  BY <1>12 DEF vars
<1> QED
  BY <1>1, <1>2, <1>3, <1>4, <1>5, <1>6, <1>7, <1>8, <1>9, <1>10, <1>11, <1>12 DEF Next

\* A flush under way holds the lock, and a short packet is at the value.
LEMMA LockStep == TypeOK /\ LockInv /\ ShortInv /\ [Next]_vars => LockInv' /\ ShortInv'
<1> SUFFICES ASSUME TypeOK, LockInv, ShortInv, [Next]_vars
             PROVE  LockInv' /\ ShortInv'
  OBVIOUS
<1> USE FieldsExist, Values, ThreadsKnown
    DEF TypeOK, LockInv, ShortInv, Flushing, Goto, flags, packet, client
<1>1. ASSUME NEW t \in Threads, NEW f \in Fields, NEW v \in Vals, Set(t, f, v)
      PROVE  LockInv' /\ ShortInv'
  BY <1>1 DEF Set, MayBegin
<1>2. ASSUME NEW t \in Threads, NEW f \in Fields, ClearField(t, f)
      PROVE  LockInv' /\ ShortInv'
  BY <1>2 DEF ClearField, MayBegin
<1>3. ASSUME NEW t \in Threads, Flag(t)
      PROVE  LockInv' /\ ShortInv'
  BY <1>3 DEF Flag
<1>4. ASSUME NEW t \in Threads, Mark(t)
      PROVE  LockInv' /\ ShortInv'
  BY <1>4 DEF Mark
<1>5. ASSUME NEW t \in Threads, BeginFlush(t)
      PROVE  LockInv' /\ ShortInv'
  BY <1>5 DEF BeginFlush, MayBegin
<1>6. ASSUME NEW t \in Threads, EndFlush(t)
      PROVE  LockInv' /\ ShortInv'
  BY <1>6 DEF EndFlush
<1>7. ASSUME NEW t \in Threads, NEW c \in Clients, BeginInitialize(t, c)
      PROVE  LockInv' /\ ShortInv'
  BY <1>7 DEF BeginInitialize, MayBegin
<1>8. ASSUME NEW t \in Threads, ChooseForm(t)
      PROVE  LockInv' /\ ShortInv'
  BY <1>8 DEF ChooseForm
<1>9. ASSUME NEW t \in Threads, WriteField(t)
      PROVE  LockInv' /\ ShortInv'
  BY <1>9 DEF WriteField, Advance, WrittenLast
<1>10. ASSUME NEW t \in Threads, ResetField(t)
       PROVE  LockInv' /\ ShortInv'
  BY <1>10 DEF ResetField, Advance, WrittenLast
<1>11. ASSUME NEW t \in Threads, Send(t)
       PROVE  LockInv' /\ ShortInv'
  BY <1>11 DEF Send, DropPacket
<1>12. CASE UNCHANGED vars
  BY <1>12 DEF vars
<1> QED
  BY <1>1, <1>2, <1>3, <1>4, <1>5, <1>6, <1>7, <1>8, <1>9, <1>10, <1>11, <1>12 DEF Next

\* A flush passes a field only when it is not flagged, and a flag that is set
\* behind it has its setter waiting for the lock.
LEMMA FlagStep ==
    TrackInv /\ [Next]_vars => PassedInv' /\ FlaggedIsDirty'
<1> SUFFICES ASSUME TrackInv, [Next]_vars
             PROVE  PassedInv' /\ FlaggedIsDirty'
  OBVIOUS
<1> USE FieldsExist, Values, ThreadsKnown
    DEF TypeOK, LockInv, ShortInv, TrackInv, PassedInv, FlaggedIsDirty, Marking, Passed,
        Flushing, Goto, flags, packet, client
<1>1. ASSUME NEW t \in Threads, NEW f \in Fields, NEW v \in Vals, Set(t, f, v)
      PROVE  PassedInv' /\ FlaggedIsDirty'
  <2>1. /\ UNCHANGED <<chg, dirty, lock, short, to>>
        /\ pc[t] = "idle" /\ pc'[t] \in {"idle", "flag"}
        /\ \A u \in Threads \ {t} : pc'[u] = pc[u] /\ fld'[u] = fld[u]
    BY <1>1 DEF Set, MayBegin
  <2>2. lock # t
    BY <2>1
  <2>3. \A g \in Fields : Marking(g) => Marking(g)'
    BY <2>1
  <2>4. FlaggedIsDirty'
    BY <2>1, <2>3
  <2>5. \A u \in Threads \ {t}, g \in Fields : Passed(u, g)' => Passed(u, g)
    BY <2>1
  <2>6. PassedInv'
    <3> SUFFICES ASSUME NEW u \in Threads, NEW g \in Fields,
                        lock' = u, Passed(u, g)', chg'[g]
                 PROVE  Marking(g)'
      BY DEF PassedInv
    <3>1. lock = u /\ u # t /\ chg[g]
      BY <2>1, <2>2
    <3>2. Passed(u, g)
      BY <2>5, <3>1
    <3>3. Marking(g)
      BY <3>1, <3>2
    <3> QED
      BY <2>3, <3>3
  <2> QED
    BY <2>4, <2>6
<1>2. ASSUME NEW t \in Threads, NEW f \in Fields, ClearField(t, f)
      PROVE  PassedInv' /\ FlaggedIsDirty'
  BY <1>2 DEF ClearField, MayBegin
<1>3. ASSUME NEW t \in Threads, Flag(t)
      PROVE  PassedInv' /\ FlaggedIsDirty'
  BY <1>3 DEF Flag
<1>4. ASSUME NEW t \in Threads, Mark(t)
      PROVE  PassedInv' /\ FlaggedIsDirty'
  BY <1>4 DEF Mark
<1>5. ASSUME NEW t \in Threads, BeginFlush(t)
      PROVE  PassedInv' /\ FlaggedIsDirty'
  BY <1>5 DEF BeginFlush, MayBegin
<1>6. ASSUME NEW t \in Threads, EndFlush(t)
      PROVE  PassedInv' /\ FlaggedIsDirty'
  BY <1>6 DEF EndFlush
<1>7. ASSUME NEW t \in Threads, NEW c \in Clients, BeginInitialize(t, c)
      PROVE  PassedInv' /\ FlaggedIsDirty'
  BY <1>7 DEF BeginInitialize, MayBegin
<1>8. ASSUME NEW t \in Threads, ChooseForm(t)
      PROVE  PassedInv' /\ FlaggedIsDirty'
  BY <1>8 DEF ChooseForm, OnlyValueChanged
<1>9. ASSUME NEW t \in Threads, WriteField(t)
      PROVE  PassedInv' /\ FlaggedIsDirty'
  <2>1. /\ pc[t] = "write"
        /\ UNCHANGED <<chg, dirty, lock, short, to>>
        /\ \A u \in Threads \ {t} : pc'[u] = pc[u] /\ fld'[u] = fld[u]
    BY <1>9 DEF WriteField, Advance
  <2>2. \A f \in Fields : Marking(f) => Marking(f)'
    BY <2>1
  <2>3. FlaggedIsDirty'
    BY <2>1, <2>2
  <2>4. ASSUME NEW f \in Fields, lock = t, Passed(t, f)', chg[f]
        PROVE  Marking(f)
    <3>1. to[t] = Nothing
      BY <2>4
    <3>2. CASE pc'[t] = "reset"
      <4>1. fld'[t] = fld[t]
        BY <1>9, <3>2 DEF WriteField, Advance
      <4> QED
        BY <2>1, <2>4, <3>2, <4>1
    <3>3. CASE pc'[t] # "reset"
      <4>1. ~short[t] /\ ~chg[fld[t]] /\ Advance(t)
        BY <1>9, <3>1, <3>3 DEF WriteField
      <4>2. f # fld[t]
        BY <2>4, <4>1
      <4>3. f < fld[t] \/ (fld[t] = Last /\ f < Last) \/ f < fld[t] + 1
        BY <2>1, <2>4, <4>1 DEF Advance, WrittenLast
      <4>4. f < fld[t]
        BY <4>2, <4>3
      <4> QED
        BY <2>1, <2>4, <4>1, <4>4
    <3> QED
      BY <3>2, <3>3
  <2>5. ASSUME NEW u \in Threads \ {t}, NEW f \in Fields, lock = u, Passed(u, f)', chg[f]
        PROVE  Marking(f)
    BY <2>1, <2>5
  <2> QED
    BY <2>1, <2>2, <2>3, <2>4, <2>5
<1>10. ASSUME NEW t \in Threads, ResetField(t)
       PROVE  PassedInv' /\ FlaggedIsDirty'
  BY <1>10 DEF ResetField, Advance, WrittenLast
<1>11. ASSUME NEW t \in Threads, Send(t)
       PROVE  PassedInv' /\ FlaggedIsDirty'
  BY <1>11 DEF Send, DropPacket
<1>12. CASE UNCHANGED vars
  BY <1>12 DEF vars
<1> QED
  BY <1>1, <1>2, <1>3, <1>4, <1>5, <1>6, <1>7, <1>8, <1>9, <1>10, <1>11, <1>12 DEF Next

\* Every step keeps the invariant.
LEMMA TrackStep == TrackInv /\ [Next]_vars => TrackInv'
BY TypeStep, LockStep, FlagStep DEF TrackInv

\* For every interleaving of setters, flushes and INITIALIZE, on any number of
\* threads: a changed flag is always backed by a dirty entry or by a setter
\* that is about to make one.
THEOREM FlagsAreSent == Spec => []FlaggedIsDirty
BY TrackInit, TrackStep, PTL DEF Spec, TrackInv

\* The variables keep their shape.
THEOREM TrackingTypes == Spec => []TypeOK
BY TrackInit, TrackStep, PTL DEF Spec, TrackInv

-----------------------------------------------------------------------------
(* Operations that exclude each other, and INITIALIZE when nothing is pending *)

\* One operation at a time.
AloneInv == \A t, u \in Threads : pc[t] # "idle" /\ pc[u] # "idle" => t = u

\* The command was chosen by the flags as they still are when the form is
\* chosen.
FormInv ==
    \A t \in Threads :
        /\ pc[t] \in {"idle", "flag", "mark", "done"} => cmd[t] = "UPDATE"
        /\ pc[t] \notin {"write", "reset", "send"} => ~short[t]
        /\ pc[t] = "form" => (cmd[t] = "UPDATEVALUE" <=> OnlyValueChanged)
        /\ pc[t] \in {"write", "reset", "send"} => (short[t] <=> cmd[t] = "UPDATEVALUE")

\* While INITIALIZE is answered nothing is flagged.
CleanInv == \A t \in Threads : to[t] # Nothing => ~short[t] /\ \A f \in Fields : ~chg[f]

SerialInv == TrackInv /\ AloneInv /\ FormInv /\ CleanInv

\* Without a changed flag nothing is sent in the short form.
LEMMA Unflagged ==
    ASSUME \A f \in Fields : ~chg[f]
    PROVE  ~OnlyValueChanged
BY FieldsExist DEF OnlyValueChanged

\* The invariant holds at the start ...
LEMMA SerialInit == Init => SerialInv
BY TrackInit DEF Init, SerialInv, AloneInv, FormInv, CleanInv

\* ... and under the discipline every step keeps it.
LEMMA SerialStep ==
    ASSUME Exclusive, FlushBeforeInit
    PROVE  SerialInv /\ [Next]_vars => SerialInv'
<1> SUFFICES ASSUME SerialInv, [Next]_vars
             PROVE  AloneInv' /\ FormInv' /\ CleanInv'
  BY TrackStep DEF SerialInv
<1> USE FieldsExist, Values, ThreadsKnown
    DEF SerialInv, TrackInv, TypeOK, LockInv, ShortInv, AloneInv, FormInv, CleanInv,
        OnlyValueChanged, Flushing, Goto, flags, packet, client
<1>1. ASSUME NEW t \in Threads, NEW f \in Fields, NEW v \in Vals, Set(t, f, v)
      PROVE  AloneInv' /\ FormInv' /\ CleanInv'
  BY <1>1 DEF Set, MayBegin
<1>2. ASSUME NEW t \in Threads, NEW f \in Fields, ClearField(t, f)
      PROVE  AloneInv' /\ FormInv' /\ CleanInv'
  BY <1>2 DEF ClearField, MayBegin
<1>3. ASSUME NEW t \in Threads, Flag(t)
      PROVE  AloneInv' /\ FormInv' /\ CleanInv'
  BY <1>3 DEF Flag
<1>4. ASSUME NEW t \in Threads, Mark(t)
      PROVE  AloneInv' /\ FormInv' /\ CleanInv'
  BY <1>4 DEF Mark
<1>5. ASSUME NEW t \in Threads, BeginFlush(t)
      PROVE  AloneInv' /\ FormInv' /\ CleanInv'
  BY <1>5 DEF BeginFlush, MayBegin
<1>6. ASSUME NEW t \in Threads, EndFlush(t)
      PROVE  AloneInv' /\ FormInv' /\ CleanInv'
  BY <1>6 DEF EndFlush
<1>7. ASSUME NEW t \in Threads, NEW c \in Clients, BeginInitialize(t, c)
      PROVE  AloneInv' /\ FormInv' /\ CleanInv'
  <2>1. /\ \A u \in Threads : pc[u] = "idle"
        /\ ~dirty
        /\ UNCHANGED <<chg, cmd, short>>
        /\ \A u \in Threads : u # t => pc'[u] = "idle" /\ to'[u] = to[u]
        /\ pc'[t] = "form"
    BY <1>7 DEF BeginInitialize, MayBegin
  <2>2. \A f \in Fields : ~chg[f]
    BY <2>1 DEF FlaggedIsDirty
  <2>3. ~OnlyValueChanged'
    <3>1. OnlyValueChanged' <=> OnlyValueChanged
      BY <2>1
    <3> QED
      BY <2>2, <3>1, Unflagged, Zenon
  <2>4. \A u \in Threads : cmd[u] = "UPDATE" /\ ~short[u]
    BY <2>1
  <2> HIDE DEF OnlyValueChanged
  <2>5. AloneInv'
    BY <2>1
  <2>6. FormInv'
    BY <2>1, <2>3, <2>4
  <2>7. CleanInv'
    BY <2>1, <2>2, <2>4
  <2> QED
    BY <2>5, <2>6, <2>7
<1>8. ASSUME NEW t \in Threads, ChooseForm(t)
      PROVE  AloneInv' /\ FormInv' /\ CleanInv'
  <2>1. /\ pc[t] = "form" /\ pc'[t] = "write"
        /\ UNCHANGED <<chg, cmd, to>>
        /\ short'[t] <=> OnlyValueChanged
        /\ \A u \in Threads : u # t => pc'[u] = pc[u] /\ short'[u] = short[u]
    BY <1>8 DEF ChooseForm
  <2>2. to[t] # Nothing => ~OnlyValueChanged
    <3>1. to[t] # Nothing => \A f \in Fields : ~chg[f]
      OBVIOUS
    <3> QED
      BY <3>1, Unflagged, Zenon
  <2>3. OnlyValueChanged' <=> OnlyValueChanged
    BY <2>1
  <2> HIDE DEF OnlyValueChanged
  <2>4. AloneInv'
    BY <2>1
  <2>5. FormInv'
    BY <2>1, <2>3
  <2>6. CleanInv'
    BY <2>1, <2>2
  <2> QED
    BY <2>4, <2>5, <2>6
<1>9. ASSUME NEW t \in Threads, WriteField(t)
      PROVE  AloneInv' /\ FormInv' /\ CleanInv'
  <2>1. /\ pc[t] = "write" /\ pc'[t] \in {"write", "reset", "send"}
        /\ UNCHANGED <<chg, cmd, short, to>>
        /\ \A u \in Threads : u # t => pc'[u] = pc[u]
    BY <1>9 DEF WriteField, Advance
  <2>2. OnlyValueChanged' <=> OnlyValueChanged
    BY <2>1
  <2> HIDE DEF OnlyValueChanged
  <2>3. AloneInv'
    <3>1. \A u \in Threads : u # t => pc'[u] = "idle"
      BY <2>1
    <3> QED
      BY <3>1
  <2>4. FormInv'
    BY <2>1, <2>2
  <2>5. CleanInv'
    BY <2>1
  <2> QED
    BY <2>3, <2>4, <2>5
<1>10. ASSUME NEW t \in Threads, ResetField(t)
       PROVE  AloneInv' /\ FormInv' /\ CleanInv'
  BY <1>10 DEF ResetField, Advance
<1>11. ASSUME NEW t \in Threads, Send(t)
       PROVE  AloneInv' /\ FormInv' /\ CleanInv'
  <2>1. /\ pc[t] = "send" /\ pc'[t] \in {"idle", "done"}
        /\ cmd'[t] = "UPDATE" /\ ~short'[t] /\ to'[t] = Nothing
        /\ UNCHANGED chg
        /\ \A u \in Threads : u # t =>
               pc'[u] = pc[u] /\ cmd'[u] = cmd[u] /\ short'[u] = short[u] /\ to'[u] = to[u]
    BY <1>11 DEF Send, DropPacket
  <2>2. OnlyValueChanged' <=> OnlyValueChanged
    BY <2>1
  <2> HIDE DEF OnlyValueChanged
  <2>3. AloneInv'
    BY <2>1
  <2>4. FormInv'
    BY <2>1, <2>2
  <2>5. CleanInv'
    BY <2>1
  <2> QED
    BY <2>3, <2>4, <2>5
<1>12. CASE UNCHANGED vars
  BY <1>12 DEF vars
<1> QED
  BY <1>1, <1>2, <1>3, <1>4, <1>5, <1>6, <1>7, <1>8, <1>9, <1>10, <1>11, <1>12 DEF Next

\* No packet goes out with a body of the form of another command.
THEOREM CommandsMatch ==
    ASSUME Exclusive, FlushBeforeInit
    PROVE  Spec => []CommandMatchesBody
<1>1. SerialInv => CommandMatchesBody
  BY DEF SerialInv, FormInv, CommandMatchesBody
<1> QED
  BY <1>1, SerialInit, SerialStep, PTL DEF Spec

-----------------------------------------------------------------------------
(* What the clients know.  The application clears no option. *)

\* An option that was never set holds what the clients take it for.
UnsetInv ==
    /\ \A f \in Fields : ~has[f] =>
           val[f] = Default /\ ~chg[f] /\ \A c \in Clients : view[c][f] = Default
    /\ \A t \in Threads : pc[t] \in {"flag", "mark"} => has[fld[t]]

\* A packet says what the server holds; a flag is reset when the field is in
\* the packet for everybody.
PacketInv ==
    /\ \A t \in Threads, f \in Fields :
           pkt[t][f] # Nothing => pc[t] \in {"write", "reset", "send"} /\ pkt[t][f] = val[f]
    /\ \A t \in Threads : pc[t] = "reset" =>
           to[t] = Nothing /\ pkt[t][fld[t]] = val[fld[t]]

\* What the answer to INITIALIZE has written so far.
AnswerInv ==
    \A t \in Threads, f \in Fields :
        /\ to[t] # Nothing /\ has[f]
        /\ pc[t] = "send" \/ (pc[t] = "write" /\ f < fld[t])
        => pkt[t][f] = val[f]

\* A setter or a flush is about to make up for field f.
Coming(f) ==
    \E t \in Threads :
        \/ pc[t] = "flag" /\ fld[t] = f
        \/ to[t] = Nothing /\ pkt[t][f] = val[f]

KnownInv == \A c \in ready, f \in Fields : chg[f] \/ view[c][f] = val[f] \/ Coming(f)

ViewInv == SerialInv /\ UnsetInv /\ PacketInv /\ AnswerInv /\ KnownInv

\* At the start nobody was told anything, and nothing is set.
LEMMA ViewInit == Init => ViewInv
BY SerialInit, FieldsExist, Values
   DEF Init, ViewInv, UnsetInv, PacketInv, AnswerInv, KnownInv, NoPacket

\* When all threads are idle, nothing is on its way but what a flush will send.
LEMMA ViewGoal == ViewInv => ViewsAgree
<1> SUFFICES ASSUME ViewInv, \A t \in Threads : pc[t] = "idle",
                    NEW c \in ready, NEW f \in Fields
             PROVE  (dirty /\ chg[f]) \/ view[c][f] = Effective(f)
  BY DEF ViewsAgree
<1> USE DEF ViewInv, SerialInv, TrackInv
<1>1. Effective(f) = val[f]
  BY DEF UnsetInv, Effective
<1>2. val[f] # Nothing
  <2>1. val[f] \in Vals
    BY DEF TypeOK
  <2> QED
    BY <2>1, Values
<1>3. ~Coming(f)
  BY <1>2 DEF Coming, PacketInv
<1>4. chg[f] => dirty
  BY DEF FlaggedIsDirty
<1> QED
  BY <1>1, <1>3, <1>4 DEF KnownInv

\* An operation that builds no packet and touches no field but by its flag.
LEMMA ControlKeeps ==
    ASSUME ViewInv, SerialInv', NEW t \in Threads,
           UNCHANGED <<has, val, pkt, view, ready>>,
           pc[t] \notin {"write", "reset", "send"}, pc'[t] \notin {"reset", "send"},
           \A u \in Threads : u # t => pc'[u] = pc[u] /\ fld'[u] = fld[u] /\ to'[u] = to[u],
           \A f \in Fields : chg'[f] <=> (chg[f] \/ (pc[t] = "flag" /\ fld[t] = f)),
           pc'[t] = "write" /\ to'[t] # Nothing => fld'[t] = 1,
           pc'[t] # "flag", pc'[t] = "mark" => pc[t] = "flag" /\ fld'[t] = fld[t]
    PROVE  ViewInv'
<1> USE DEF ViewInv, SerialInv, TrackInv
<1>1. \A f \in Fields : pkt[t][f] = Nothing /\ val[f] # Nothing
  <2>1. \A f \in Fields : val[f] \in Vals
    BY DEF TypeOK
  <2> QED
    BY <2>1, Values DEF PacketInv
<1>2. UnsetInv'
  BY DEF UnsetInv, TypeOK
<1>3. PacketInv'
  BY <1>1 DEF PacketInv
<1>4. AnswerInv'
  BY <1>1 DEF AnswerInv
<1>5. ASSUME NEW f \in Fields, Coming(f)
      PROVE  Coming(f)' \/ chg'[f]
  <2>1. PICK u \in Threads : \/ pc[u] = "flag" /\ fld[u] = f
                             \/ to[u] = Nothing /\ pkt[u][f] = val[f]
    BY <1>5 DEF Coming
  <2>2. CASE u = t
    BY <1>1, <2>1, <2>2
  <2>3. CASE u # t
    <3>1. \/ pc'[u] = "flag" /\ fld'[u] = f
          \/ to'[u] = Nothing /\ pkt'[u][f] = val'[f]
      BY <2>1, <2>3
    <3> QED
      BY <3>1 DEF Coming
  <2> QED
    BY <2>2, <2>3
<1>6. KnownInv'
  BY <1>5 DEF KnownInv
<1> QED
  BY <1>2, <1>3, <1>4, <1>6

\* A setter is about to flag the field it changed.
LEMMA ViewSet ==
    ASSUME ViewInv, SerialInv', Exclusive,
           NEW t \in Threads, NEW f \in Fields, NEW v \in Vals, Set(t, f, v)
    PROVE  ViewInv'
<1> USE DEF ViewInv, SerialInv, TrackInv
<1>1. /\ \A u \in Threads : pc[u] = "idle"
      /\ UNCHANGED <<chg, pkt, to, view, ready>>
      /\ \A u \in Threads : u # t => pc'[u] = "idle"
      /\ \A g \in Fields : g # f => val'[g] = val[g] /\ has'[g] = has[g]
      /\ val'[f] = v /\ has'[f]
      /\ \/ v = val[f] /\ pc'[t] = "idle"
         \/ pc'[t] = "flag" /\ fld'[t] = f
  BY DEF Set, MayBegin, TypeOK, Goto, packet, client
<1>2. \A u \in Threads, g \in Fields : pkt[u][g] = Nothing /\ val[g] # Nothing
  <2>1. \A g \in Fields : val[g] \in Vals
    BY DEF TypeOK
  <2> QED
    BY <1>1, <2>1, Values DEF PacketInv
<1>3. UnsetInv'
  BY <1>1 DEF UnsetInv
<1>4. PacketInv'
  BY <1>1, <1>2 DEF PacketInv
<1>5. AnswerInv'
  BY <1>1 DEF AnswerInv
<1>6. \A g \in Fields : ~Coming(g)
  BY <1>1, <1>2 DEF Coming
<1>7. KnownInv'
  <2>1. pc'[t] = "flag" => Coming(f)'
    BY <1>1 DEF Coming
  <2> QED
    BY <1>1, <1>6, <2>1 DEF KnownInv
<1> QED
  BY <1>3, <1>4, <1>5, <1>7

\* A flag is reset when the field is in a packet for everybody.
LEMMA ViewReset ==
    ASSUME ViewInv, SerialInv', NEW t \in Threads, ResetField(t)
    PROVE  ViewInv'
<1> USE DEF ViewInv, SerialInv, TrackInv
<1>1. /\ pc[t] = "reset" /\ pc'[t] \in {"write", "send"}
      /\ UNCHANGED <<has, val, pkt, to, view, ready>>
      /\ \A u \in Threads : u # t => pc'[u] = pc[u] /\ fld'[u] = fld[u]
      /\ \A f \in Fields : chg'[f] => chg[f]
      /\ \A f \in Fields : f # fld[t] => chg'[f] = chg[f]
  BY DEF ResetField, Advance, Goto, TypeOK, packet, client
<1>2. to[t] = Nothing /\ pkt[t][fld[t]] = val[fld[t]]
  BY <1>1 DEF PacketInv
<1>3. UnsetInv'
  BY <1>1 DEF UnsetInv
<1>4. PacketInv'
  BY <1>1 DEF PacketInv
<1>5. AnswerInv'
  BY <1>1, <1>2 DEF AnswerInv
<1>6. KnownInv'
  <2>1. \A f \in Fields : Coming(f) => Coming(f)'
    BY <1>1 DEF Coming
  <2>2. ASSUME NEW f \in Fields, f = fld[t]
        PROVE  Coming(f)'
    <3>1. to'[t] = Nothing /\ pkt'[t][f] = val'[f]
      BY <1>1, <1>2, <2>2
    <3> QED
      BY <3>1 DEF Coming
  <2> QED
    BY <1>1, <2>1, <2>2 DEF KnownInv
<1> QED
  BY <1>3, <1>4, <1>5, <1>6

\* Writing a field puts what the server holds into the packet.
LEMMA ViewWrite ==
    ASSUME ViewInv, SerialInv', NEW t \in Threads, WriteField(t)
    PROVE  ViewInv'
<1> USE DEF ViewInv, SerialInv, TrackInv
<1> DEFINE f == fld[t]
           written == short[t] \/ chg[f] \/ (to[t] # Nothing /\ has[f])
<1>0. f \in Fields /\ Effective(f) = val[f]
  BY DEF TypeOK, UnsetInv, Effective
<1>1. /\ pc[t] = "write" /\ pc'[t] \in {"write", "reset", "send"}
      /\ UNCHANGED <<has, val, chg, to, view, ready>>
      /\ \A u \in Threads : u # t =>
             pc'[u] = pc[u] /\ fld'[u] = fld[u] /\ pkt'[u] = pkt[u]
      /\ \A g \in Fields : g # f => pkt'[t][g] = pkt[t][g]
      /\ pkt'[t][f] = IF written THEN val[f] ELSE pkt[t][f]
  <2>1. /\ pc[t] = "write" /\ pc'[t] \in {"write", "reset", "send"}
        /\ UNCHANGED <<has, val, chg, to, view, ready>>
    BY DEF WriteField, Advance, Goto, TypeOK, flags, client
  <2>2. \A u \in Threads : u # t => pc'[u] = pc[u] /\ fld'[u] = fld[u]
    BY DEF WriteField, Advance, Goto, TypeOK
  <2>3. pkt' = IF written THEN [pkt EXCEPT ![t][f] = val[f]] ELSE pkt
    BY <1>0 DEF WriteField
  <2>4. pkt \in [Threads -> [Fields -> Vals \cup {Nothing}]]
    BY DEF TypeOK
  <2> HIDE DEF written, f
  <2>5. /\ \A u \in Threads : u # t => pkt'[u] = pkt[u]
        /\ \A g \in Fields : g # f => pkt'[t][g] = pkt[t][g]
        /\ pkt'[t][f] = IF written THEN val[f] ELSE pkt[t][f]
    <3>1. CASE written
      <4>1. pkt' = [pkt EXCEPT ![t][f] = val[f]]
        BY <2>3, <3>1
      <4> HIDE DEF ViewInv, SerialInv, TrackInv
      <4> QED
        BY <1>0, <2>4, <3>1, <4>1
    <3>2. CASE ~written
      BY <2>3, <3>2
    <3> QED
      BY <3>1, <3>2
  <2> QED
    BY <2>1, <2>2, <2>5
<1>2. pc'[t] = "reset" => to[t] = Nothing /\ written /\ fld'[t] = f
  <2>1. to[t] # Nothing => ~short[t] /\ ~chg[f]
    BY <1>0 DEF CleanInv
  <2> QED
    BY <2>1 DEF WriteField, Advance, Goto, TypeOK
<1>3. to[t] # Nothing => \/ pc'[t] = "write" /\ fld'[t] = f + 1
                         \/ pc'[t] = "send" /\ f = Last
  <2>1. to[t] # Nothing => ~short[t] /\ ~chg[f]
    BY <1>0 DEF CleanInv
  <2> QED
    BY <2>1 DEF WriteField, Advance, WrittenLast, Goto, TypeOK
<1> HIDE DEF written
<1>4. UnsetInv'
  BY <1>1 DEF UnsetInv
<1>5. PacketInv'
  BY <1>0, <1>1, <1>2 DEF PacketInv
<1>6. AnswerInv'
  <2> SUFFICES ASSUME NEW u \in Threads, NEW g \in Fields,
                      to'[u] # Nothing, has'[g],
                      pc'[u] = "send" \/ (pc'[u] = "write" /\ g < fld'[u])
               PROVE  pkt'[u][g] = val'[g]
    BY DEF AnswerInv
  <2>1. CASE u # t
    BY <1>1, <2>1 DEF AnswerInv
  <2>2. CASE u = t /\ g = f
    BY <1>1, <2>2 DEF written
  <2>3. CASE u = t /\ g # f
    <3>1. g < f
      BY <1>0, <1>1, <1>3, <2>3, FieldsExist
    <3> QED
      BY <1>1, <2>3, <3>1 DEF AnswerInv
  <2> QED
    BY <2>1, <2>2, <2>3
<1>7. KnownInv'
  <2>1. ASSUME NEW g \in Fields, Coming(g)
        PROVE  Coming(g)'
    <3>1. PICK u \in Threads : \/ pc[u] = "flag" /\ fld[u] = g
                               \/ to[u] = Nothing /\ pkt[u][g] = val[g]
      BY <2>1 DEF Coming
    <3>2. \/ pc'[u] = "flag" /\ fld'[u] = g
          \/ to'[u] = Nothing /\ pkt'[u][g] = val'[g]
      BY <1>0, <1>1, <3>1
    <3> QED
      BY <3>2 DEF Coming
  <2> QED
    BY <1>1, <2>1 DEF KnownInv
<1> QED
  BY <1>4, <1>5, <1>6, <1>7

\* Sending tells the receivers what is in the packet.
LEMMA ViewSend ==
    ASSUME ViewInv, SerialInv', NEW t \in Threads, Send(t)
    PROVE  ViewInv'
<1> USE DEF ViewInv, SerialInv, TrackInv
<1> DEFINE Said(c, f) == IF pkt[t][f] = Nothing THEN view[c][f] ELSE val[f]
<1>1. /\ pc[t] = "send" /\ pc'[t] \in {"idle", "done"}
      /\ UNCHANGED <<has, val, chg>>
      /\ \A u \in Threads : u # t =>
             pc'[u] = pc[u] /\ fld'[u] = fld[u] /\ pkt'[u] = pkt[u] /\ to'[u] = to[u]
      /\ \A f \in Fields : pkt'[t][f] = Nothing
      /\ to'[t] = Nothing
      /\ ready' = IF to[t] = Nothing THEN ready ELSE ready \cup {to[t]}
  BY DEF Send, DropPacket, NoPacket, Goto, TypeOK, flags
<1>2. \A f \in Fields : val[f] # Nothing
  <2>1. \A f \in Fields : val[f] \in Vals
    BY DEF TypeOK
  <2> QED
    BY <2>1, Values
<1>3. \A f \in Fields : pkt[t][f] # Nothing => pkt[t][f] = val[f]
  BY DEF PacketInv
<1>4. ASSUME NEW c \in Clients, NEW f \in Fields
      PROVE  view'[c][f] = IF to[t] = Nothing \/ to[t] = c THEN Said(c, f) ELSE view[c][f]
  <2>1. short[t] <=> cmd[t] = "UPDATEVALUE"
    BY <1>1 DEF FormInv
  <2>2. cmd[t] \in {"UPDATE", "UPDATEVALUE"}
    BY DEF TypeOK
  <2> QED
    BY <1>3, <2>1, <2>2 DEF Send
<1>5. UnsetInv'
  BY <1>1, <1>4 DEF UnsetInv
<1>6. PacketInv'
  BY <1>1 DEF PacketInv
<1>7. AnswerInv'
  BY <1>1 DEF AnswerInv
<1>8. KnownInv'
  <2> SUFFICES ASSUME NEW c \in ready', NEW f \in Fields, ~chg'[f], ~Coming(f)'
               PROVE  view'[c][f] = val'[f]
    BY DEF KnownInv
  <2>1. c \in Clients
    BY <1>1 DEF TypeOK
  <2>2. Coming(f) => to[t] = Nothing /\ pkt[t][f] = val[f]
    BY <1>1 DEF Coming
  <2>3. CASE to[t] = c
    <3>1. has[f] => pkt[t][f] = val[f]
      BY <1>1, <2>1, <2>3, Values DEF AnswerInv
    <3>2. ~has[f] => view[c][f] = val[f]
      BY <2>1 DEF UnsetInv
    <3> QED
      BY <1>1, <1>2, <1>4, <2>1, <2>3, <3>1, <3>2
  <2>4. CASE to[t] # c
    <3>1. c \in ready
      BY <1>1, <2>4
    <3>2. view[c][f] = val[f] \/ Coming(f)
      BY <1>1, <3>1 DEF KnownInv
    <3> QED
      BY <1>1, <1>2, <1>4, <2>1, <2>2, <2>4, <3>2
  <2> QED
    BY <2>3, <2>4
<1> QED
  BY <1>5, <1>6, <1>7, <1>8

\* Every step keeps the invariant when no option is cleared.
LEMMA ViewStep ==
    ASSUME Exclusive, FlushBeforeInit, ~AppClears
    PROVE  ViewInv /\ [Next]_vars => ViewInv'
<1> SUFFICES ASSUME ViewInv, [Next]_vars
             PROVE  ViewInv'
  OBVIOUS
<1>0. SerialInv'
  BY SerialStep DEF ViewInv
<1> USE <1>0 DEF TypeOK, Goto, flags, packet, client
<1>a. TypeOK
  BY DEF ViewInv, SerialInv, TrackInv
<1>1. ASSUME NEW t \in Threads, NEW f \in Fields, NEW v \in Vals, Set(t, f, v)
      PROVE  ViewInv'
  BY <1>1, ViewSet
<1>2. ASSUME NEW t \in Threads, NEW f \in Fields, ClearField(t, f)
      PROVE  ViewInv'
  BY <1>2 DEF ClearField
<1>3. ASSUME NEW t \in Threads, Flag(t)
      PROVE  ViewInv'
  BY <1>3, <1>a, ControlKeeps DEF Flag
<1>4. ASSUME NEW t \in Threads, Mark(t)
      PROVE  ViewInv'
  BY <1>4, <1>a, ControlKeeps DEF Mark
<1>5. ASSUME NEW t \in Threads, BeginFlush(t)
      PROVE  ViewInv'
  BY <1>5, <1>a, ControlKeeps DEF BeginFlush, MayBegin
<1>6. ASSUME NEW t \in Threads, EndFlush(t)
      PROVE  ViewInv'
  BY <1>6, <1>a, ControlKeeps DEF EndFlush
<1>7. ASSUME NEW t \in Threads, NEW c \in Clients, BeginInitialize(t, c)
      PROVE  ViewInv'
  BY <1>7, <1>a, ControlKeeps DEF BeginInitialize, MayBegin
<1>8. ASSUME NEW t \in Threads, ChooseForm(t)
      PROVE  ViewInv'
  BY <1>8, <1>a, ControlKeeps, Unflagged DEF ChooseForm, CleanInv, ViewInv, SerialInv
<1>9. ASSUME NEW t \in Threads, WriteField(t)
      PROVE  ViewInv'
  BY <1>9, ViewWrite
<1>10. ASSUME NEW t \in Threads, ResetField(t)
       PROVE  ViewInv'
  BY <1>10, ViewReset
<1>11. ASSUME NEW t \in Threads, Send(t)
       PROVE  ViewInv'
  BY <1>11, ViewSend
<1>12. CASE UNCHANGED vars
  BY <1>12 DEF vars, ViewInv, UnsetInv, PacketInv, AnswerInv, KnownInv, Coming
<1> QED
  BY <1>1, <1>2, <1>3, <1>4, <1>5, <1>6, <1>7, <1>8, <1>9, <1>10, <1>11, <1>12 DEF Next

\* A client that was answered knows what the server holds, but for what the
\* next flush sends, whatever was set, flushed and answered before: if
\* operations exclude each other, INITIALIZE finds nothing pending and no
\* option is cleared.
THEOREM ViewsFollow ==
    ASSUME Exclusive, FlushBeforeInit, ~AppClears
    PROVE  Spec => []ViewsAgree
BY ViewInit, ViewStep, ViewGoal, PTL DEF Spec
=============================================================================
