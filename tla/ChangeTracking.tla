--------------------------- MODULE ChangeTracking ---------------------------
(***************************************************************************)
(* How the options and the value of one exposed parameter reach the        *)
(* clients: the has/changed flags of rcp::Parameter, rcp::ValueParameter   *)
(* and the type definitions, the writer that reads and resets them, and    *)
(* the two callers of the writer, ParameterServer::update (changed fields, *)
(* to every client) and _init (all fields, to one client).                 *)
(*                                                                         *)
(* The fields are numbered in the order they are written: options of the   *)
(* type, the value, options of the parameter.  The flags belong to no      *)
(* lock; only the dirty list does.  So setters and writers are broken at   *)
(* every access of a flag another thread can get between.                  *)
(***************************************************************************)
EXTENDS Naturals, FiniteSets

CONSTANTS
    Last,           \* the number of fields
    ValueField,     \* the one that is the value
    Vals,           \* what a field can hold
    Default,        \* what it holds when it was never set
    Nothing,        \* not in the packet, or not a member of Vals
    Clients,        \* the connected clients
    Threads,        \* the application thread and the service threads
    Service,        \* the service threads: they answer INITIALIZE
    NoThread,       \* nobody holds the manager's lock
    Exclusive,      \* an operation begins only when no other is under way
    FlushBeforeInit,\* INITIALIZE is answered only when nothing is dirty
    AppClears       \* the application uses clearTags, clearOrder, ...

Fields == 1..Last

ASSUME FieldsExist == Last \in Nat /\ ValueField \in 1..Last
ASSUME Values == Default \in Vals /\ Nothing \notin Vals \cup Clients
ASSUME ThreadsKnown == Service \subseteq Threads /\ NoThread \notin Threads
ASSUME Discipline == {Exclusive, FlushBeforeInit, AppClears} \subseteq BOOLEAN

VARIABLES
    has,        \* field -> it is set
    val,        \* field -> what it holds, set or not
    chg,        \* field -> its *Changed flag
    dirty,      \* the parameter is on the manager's dirty list
    lock,       \* the thread that holds the manager's lock
    pc,         \* thread -> where it is
    fld,        \* thread -> the field it sets, or writes next
    cmd,        \* thread -> the command of the packet it builds
    short,      \* thread -> the packet has the form of an UPDATEVALUE
    to,         \* thread -> the client the packet is for, Nothing for all
    pkt,        \* thread -> field -> what the packet says
    view,       \* client -> field -> what the packets told it
    ready       \* the clients whose INITIALIZE was answered

flags  == <<has, val, chg>>
packet == <<cmd, short, to, pkt>>
client == <<view, ready>>
vars   == <<flags, dirty, lock, pc, fld, packet, client>>

-----------------------------------------------------------------------------
\* mutant: the options are not looked at
OnlyValueChanged_Alone == chg[ValueField]

\* onlyValueChanged
OnlyValueChanged ==
    /\ chg[ValueField]
    /\ \A f \in Fields \ {ValueField} : ~chg[f]

MayBegin(t) ==
    /\ pc[t] = "idle"
    /\ Exclusive => \A u \in Threads : pc[u] = "idle"

Goto(t, label) == pc' = [pc EXCEPT ![t] = label]

NoPacket == [f \in Fields |-> Nothing]

\* The packet of thread t was handed to the transporters.
DropPacket(t) ==
    /\ cmd' = [cmd EXCEPT ![t] = "UPDATE"]
    /\ short' = [short EXCEPT ![t] = FALSE]
    /\ to' = [to EXCEPT ![t] = Nothing]
    /\ pkt' = [pkt EXCEPT ![t] = NoPacket]

\* What a getter of the server returns, a cleared option being empty.
Effective(f) == IF has[f] \/ f = ValueField THEN val[f] ELSE Default

-----------------------------------------------------------------------------
Init ==
    /\ has = [f \in Fields |-> FALSE]
    /\ val = [f \in Fields |-> Default]
    /\ chg = [f \in Fields |-> FALSE]
    /\ dirty = TRUE
    /\ lock = NoThread
    /\ pc = [t \in Threads |-> "idle"]
    /\ fld = [t \in Threads |-> 1]
    /\ cmd = [t \in Threads |-> "UPDATE"]
    /\ short = [t \in Threads |-> FALSE]
    /\ to = [t \in Threads |-> Nothing]
    /\ pkt = [t \in Threads |-> NoPacket]
    /\ view = [c \in Clients |-> [f \in Fields |-> Default]]
    /\ ready = {}

(* Setters, on any thread: the application's, or an incoming update's *)

\* setX: nothing more to do for the value it has.
Set(t, f, v) ==
    /\ MayBegin(t)
    /\ has' = [has EXCEPT ![f] = TRUE]
    /\ val' = [val EXCEPT ![f] = v]
    /\ IF val[f] = v
       THEN UNCHANGED <<pc, fld>>
       ELSE Goto(t, "flag") /\ fld' = [fld EXCEPT ![t] = f]
    /\ UNCHANGED <<chg, dirty, lock, packet, client>>

\* clearX keeps what the field held.
ClearField(t, f) ==
    /\ MayBegin(t)
    /\ AppClears
    /\ has' = [has EXCEPT ![f] = FALSE]
    /\ fld' = [fld EXCEPT ![t] = f]
    /\ Goto(t, "flag")
    /\ UNCHANGED <<val, chg, dirty, lock, packet, client>>

\* ... xChanged = true ...
Flag(t) ==
    /\ pc[t] = "flag"
    /\ chg' = [chg EXCEPT ![fld[t]] = TRUE]
    /\ Goto(t, "mark")
    /\ UNCHANGED <<has, val, dirty, lock, fld, packet, client>>

\* mutant: the dirty list is edited without the lock
Mark_Unlocked(t) ==
    /\ pc[t] = "mark"
    /\ dirty' = TRUE
    /\ Goto(t, "idle")
    /\ fld' = [fld EXCEPT ![t] = 1]
    /\ UNCHANGED <<flags, lock, packet, client>>

\* ... setDirty(), under the manager's lock.
Mark(t) ==
    /\ pc[t] = "mark"
    /\ lock = NoThread
    /\ dirty' = TRUE
    /\ Goto(t, "idle")
    /\ fld' = [fld EXCEPT ![t] = 1]
    /\ UNCHANGED <<flags, lock, packet, client>>

(* ParameterServer::update *)

\* Take the lock; choose the command for the parameter if it is on the list.
BeginFlush(t) ==
    /\ MayBegin(t)
    /\ lock = NoThread
    /\ dirty
    /\ lock' = t
    /\ cmd' = [cmd EXCEPT ![t] = IF OnlyValueChanged THEN "UPDATEVALUE" ELSE "UPDATE"]
    /\ Goto(t, "form")
    /\ UNCHANGED <<flags, dirty, fld, short, to, pkt, client>>

\* The list is cleared and the lock released.
EndFlush(t) ==
    /\ pc[t] = "done"
    /\ dirty' = FALSE
    /\ lock' = NoThread
    /\ Goto(t, "idle")
    /\ UNCHANGED <<flags, fld, packet, client>>

(* ParameterServer::_init, without the lock *)

BeginInitialize(t, c) ==
    /\ MayBegin(t)
    /\ t \in Service
    /\ FlushBeforeInit => ~dirty
    /\ to' = [to EXCEPT ![t] = c]
    /\ Goto(t, "form")
    /\ UNCHANGED <<flags, dirty, lock, fld, cmd, short, pkt, client>>

(* The writer *)

\* mutant: the writer always writes the long form
ChooseForm_Long(t) ==
    /\ pc[t] = "form"
    /\ Goto(t, "write")
    /\ UNCHANGED <<flags, dirty, lock, fld, packet, client>>

\* ValueParameter::write asks onlyValueChanged again, whatever the command.
ChooseForm(t) ==
    /\ pc[t] = "form"
    /\ short' = [short EXCEPT ![t] = OnlyValueChanged]
    /\ fld' = [fld EXCEPT ![t] = IF OnlyValueChanged THEN ValueField ELSE 1]
    /\ Goto(t, "write")
    /\ UNCHANGED <<flags, dirty, lock, cmd, to, pkt, client>>

\* mutant: one field too many
WrittenLast_Over(t) == short[t] \/ fld[t] > Last

\* The field fld[t] was the last to write.
WrittenLast(t) == short[t] \/ fld[t] = Last

Advance(t) ==
    /\ Goto(t, IF WrittenLast(t) THEN "send" ELSE "write")
    /\ fld' = [fld EXCEPT ![t] = IF WrittenLast(t) THEN 1 ELSE @ + 1]

\* One field: written if all are, or if it changed; the flag of a field that
\* is not set is reset even when all are written.
WriteField(t) ==
    LET f   == fld[t]
        all == to[t] # Nothing
    IN  /\ pc[t] = "write"
        /\ IF short[t] \/ chg[f] \/ (all /\ has[f])
           THEN pkt' = [pkt EXCEPT ![t][f] = Effective(f)]
           ELSE pkt' = pkt
        /\ IF short[t] \/ (chg[f] /\ ~(all /\ has[f]))
           THEN Goto(t, "reset") /\ UNCHANGED fld
           ELSE Advance(t)
        /\ UNCHANGED <<flags, dirty, lock, cmd, short, to, client>>

\* ... xChanged = false
ResetField(t) ==
    /\ pc[t] = "reset"
    /\ chg' = [chg EXCEPT ![fld[t]] = FALSE]
    /\ Advance(t)
    /\ UNCHANGED <<has, val, dirty, lock, packet, client>>

\* The packet goes out.  The body of an UPDATEVALUE under an UPDATE header
\* reads as a parameter without options; the body of an UPDATE under an
\* UPDATEVALUE header reads as some value.
Send(t) ==
    /\ pc[t] = "send"
    /\ LET receivers == IF to[t] = Nothing THEN Clients ELSE {to[t]}
           told(c, f) ==
               IF cmd[t] = "UPDATEVALUE" /\ ~short[t]
               THEN IF f = ValueField THEN Nothing ELSE view[c][f]
               ELSE IF (cmd[t] = "UPDATE" /\ short[t]) \/ pkt[t][f] = Nothing
               THEN view[c][f]
               ELSE pkt[t][f]
       IN  view' = [c \in Clients |->
                       IF c \in receivers THEN [f \in Fields |-> told(c, f)]
                       ELSE view[c]]
    /\ IF to[t] = Nothing
       THEN Goto(t, "done") /\ UNCHANGED ready
       ELSE Goto(t, "idle") /\ ready' = ready \cup {to[t]}
    /\ DropPacket(t)
    /\ UNCHANGED <<flags, dirty, lock, fld>>

Next ==
    \/ \E t \in Threads, f \in Fields, v \in Vals : Set(t, f, v)
    \/ \E t \in Threads, f \in Fields : ClearField(t, f)
    \/ \E t \in Threads : Flag(t)
    \/ \E t \in Threads : Mark(t)
    \/ \E t \in Threads : BeginFlush(t)
    \/ \E t \in Threads : EndFlush(t)
    \/ \E t \in Threads, c \in Clients : BeginInitialize(t, c)
    \/ \E t \in Threads : ChooseForm(t)
    \/ \E t \in Threads : WriteField(t)
    \/ \E t \in Threads : ResetField(t)
    \/ \E t \in Threads : Send(t)

Spec == Init /\ [][Next]_vars

-----------------------------------------------------------------------------
(* Properties *)

\* The variables have the shape the code declares.
TypeOK ==
    /\ has \in [Fields -> BOOLEAN]
    /\ val \in [Fields -> Vals]
    /\ chg \in [Fields -> BOOLEAN]
    /\ dirty \in BOOLEAN
    /\ lock \in Threads \cup {NoThread}
    /\ pc \in [Threads -> {"idle", "flag", "mark", "form", "write", "reset",
                           "send", "done"}]
    /\ fld \in [Threads -> Fields]
    /\ cmd \in [Threads -> {"UPDATE", "UPDATEVALUE"}]
    /\ short \in [Threads -> BOOLEAN]
    /\ to \in [Threads -> Clients \cup {Nothing}]
    /\ pkt \in [Threads -> [Fields -> Vals \cup {Nothing}]]
    /\ view \in [Clients -> [Fields -> Vals \cup {Nothing}]]
    /\ ready \subseteq Clients

\* A changed flag never outlives the dirty entry that would send it: however
\* setters, flushes and INITIALIZE interleave, a flagged field is on the dirty
\* list or its setter is still about to put it there.
FlaggedIsDirty ==
    \A f \in Fields : chg[f] =>
        \/ dirty
        \/ \E t \in Threads : pc[t] = "mark" /\ fld[t] = f

\* A client whose INITIALIZE was answered knows what the server has, but for
\* the fields a flush is still going to send.
ViewsAgree ==
    (\A t \in Threads : pc[t] = "idle") =>
        \A c \in ready, f \in Fields :
            (dirty /\ chg[f]) \/ view[c][f] = Effective(f)

\* The body of a packet has the form its command announces.
CommandMatchesBody ==
    \A t \in Threads : pc[t] = "send" => (short[t] <=> cmd[t] = "UPDATEVALUE")
=============================================================================
