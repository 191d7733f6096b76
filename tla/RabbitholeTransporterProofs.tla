--------------------- MODULE RabbitholeTransporterProofs ---------------------
(***************************************************************************)
(* unbind leaves nothing running, for every number of sleeps.              *)
(*                                                                         *)
(* The inductive invariant follows the application thread through unbind:  *)
(* from its first step on m_doTryConnect is clear, and when it comes to    *)
(* close() the timer is off or was started late.                           *)
(***************************************************************************)
EXTENDS RabbitholeTransporter, TLAPS

Unbinding == {"stop", "wait", "joinTimer", "close", "joinAsio", "gone"}

UnbindIsFollowed ==
    /\ app \in Unbinding => ~doTry
    /\ app = "bind" => doTry
    /\ app = "close" => late \/ timer = "off"

SleepEnds == timer = "sleep" => slept < Ticks

QInv == Flags /\ Places /\ FlagsFollowTimer /\ SleepEnds /\ UnbindIsFollowed /\ UnboundIsQuiet

\* The invariant holds at the start.
LEMMA InitQInv == Init => QInv
<1> SUFFICES ASSUME Init PROVE QInv
  OBVIOUS
<1>1. Flags
  BY DEF Init, Flags
<1>2. Places /\ SleepEnds
  BY TicksPositive DEF Init, Places, SleepEnds
<1>3. FlagsFollowTimer
  BY DEF Init, FlagsFollowTimer
<1>4. UnbindIsFollowed /\ UnboundIsQuiet
  BY DEF Init, UnbindIsFollowed, UnboundIsQuiet, Unbinding
<1> QED
  BY <1>1, <1>2, <1>3, <1>4 DEF QInv

\* Whoever starts, stops or ends the thread leaves the flags Boolean ...
LEMMA FlagsKeep == ASSUME Flags, Next PROVE Flags'
BY DEF Flags, Next, SetUri, Bind, Unbind, App, BindStart, StartThread, StopThread,
   WaitForThread, JoinTimer, Close, JoinAsio, Timer, Sleep, Connect, ThreadEnds,
   Handler, Disconnected, TryConnect, OnOpen, OnFailOrClose, LeftOpens, LeftEnds,
   thread, socket, call

\* ... and in agreement with the timer's loop.
LEMMA FollowKeeps == ASSUME FlagsFollowTimer, Next PROVE FlagsFollowTimer'
BY DEF FlagsFollowTimer, Next, SetUri, Bind, Unbind, App, BindStart, StartThread,
   StopThread, WaitForThread, JoinTimer, Close, JoinAsio, Timer, Sleep, Connect,
   ThreadEnds, Handler, Disconnected, TryConnect, OnOpen, OnFailOrClose, LeftOpens,
   LeftEnds, thread, socket, call

\* The timer leaves its loop at the last sleep.
LEMMA PlacesKeep == ASSUME Places, SleepEnds, Next PROVE Places' /\ SleepEnds'
BY TicksPositive
   DEF Places, SleepEnds, Next, SetUri, Bind, Unbind, App, BindStart, StartThread,
   StopThread, WaitForThread, JoinTimer, Close, Closed, JoinAsio, Timer, Sleep,
   Connect, ThreadEnds, Handler, Disconnected, TryConnect, OnOpen, OnFailOrClose,
   LeftOpens, LeftEnds, thread, socket, call

\* unbind clears m_doTryConnect, waits for the timer and closes, in this order;
\* the one step of another thread that can undo it is a late TryConnect.
LEMMA UnbindKeeps ==
    ASSUME Flags, FlagsFollowTimer, Places, UnbindIsFollowed, UnboundIsQuiet, Next
    PROVE  UnbindIsFollowed' /\ UnboundIsQuiet'
<1> USE DEF UnbindIsFollowed, UnboundIsQuiet, Unbinding, FlagsFollowTimer, thread, socket, call
<1>1. CASE SetUri \/ Bind \/ \E forGood \in BOOLEAN : Unbind(forGood)
  BY <1>1 DEF SetUri, Bind, Unbind
<1>2. CASE App
  BY <1>2 DEF App, BindStart, StartThread, StopThread, WaitForThread, JoinTimer, Close, JoinAsio
<1>3. CASE Timer
  BY <1>3 DEF Timer, Sleep, Connect, ThreadEnds
<1>4. CASE Disconnected \/ OnOpen \/ OnFailOrClose
  BY <1>4 DEF Disconnected, OnOpen, OnFailOrClose
<1>5. CASE TryConnect
  BY <1>5 DEF TryConnect, StartThread
<1>6. CASE LeftOpens \/ LeftEnds({"connecting", "closing", "open"})
  BY <1>6 DEF LeftOpens, LeftEnds
<1> QED
  BY <1>1, <1>2, <1>3, <1>4, <1>5, <1>6 DEF Next, Handler

\* Every step keeps it.
LEMMA NextKeeps == QInv /\ [Next]_vars => QInv'
<1> SUFFICES ASSUME QInv, [Next]_vars PROVE QInv'
  OBVIOUS
<1>1. CASE UNCHANGED vars
  BY <1>1 DEF vars, thread, socket, call, QInv, Flags, Places, FlagsFollowTimer, SleepEnds,
     UnbindIsFollowed, UnboundIsQuiet, Unbinding
<1>2. CASE Next
  BY <1>2, FlagsKeep, FollowKeeps, PlacesKeep, UnbindKeeps DEF QInv
<1> QED
  BY <1>1, <1>2

\* The shape of the variables; ofThread's two flags agree with its loop.
THEOREM TypeSafe == Spec => []TypeOK
<1>1. QInv => TypeOK
  BY DEF QInv, TypeOK
<1> QED
  BY InitQInv, NextKeeps, <1>1, PTL DEF Spec

\* When unbind has returned no timer runs and no connection has handlers,
\* unless a handler that had tested m_doTryConnect before was late.
THEOREM UnboundSafe == Spec => []UnboundIsQuiet
<1>1. QInv => UnboundIsQuiet
  BY DEF QInv
<1> QED
  BY InitQInv, NextKeeps, <1>1, PTL DEF Spec
=============================================================================
