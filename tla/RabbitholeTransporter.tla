------------------------ MODULE RabbitholeTransporter ------------------------
(***************************************************************************)
(* rabbitholeWsServerTransporter, which keeps one connection to a relay    *)
(* and tries again when it is lost, on top of websocketClient and ofThread.*)
(* Three threads: the application binds, unbinds and destroys; "timer", an *)
(* ofThread, sleeps and then connects; "asio" runs the handlers of         *)
(* websocketpp, which start the timer.                                     *)
(*                                                                         *)
(* m_con and m_sslCon are one connection here, whose state is con.  close()*)
(* takes the handlers off it; what goes on with it after that is in left.  *)
(***************************************************************************)
EXTENDS Naturals

CONSTANT Ticks  \* how often the timer sleeps before it connects

ASSUME TicksPositive == Ticks \in Nat \ {0}

VARIABLES
    doTry,      \* m_doTryConnect
    running,    \* ofThread: threadRunning
    done,       \* ofThread: threadDone
    app,        \* where the application thread is
    destroying, \* it runs the destructor
    timer,      \* where the timer thread is
    slept,      \* how often it has slept
    asio,       \* where the handler is that asio runs, disconnected()
    con,        \* the connection
    left,       \* the states of the connections without handlers
    usable,     \* a connection can be made for the uri
    gaveUp,     \* the last attempt was refused by ofThread, or had no usable uri
    late        \* a handler started the timer after unbind had waited for it

thread == <<running, done, timer, slept>>
socket == <<con, left>>
call   == <<app, destroying>>
vars   == <<doTry, thread, call, asio, socket, usable, gaveUp, late>>

Init ==
    /\ doTry = FALSE
    /\ running = FALSE /\ done = TRUE
    /\ app = "idle" /\ destroying = FALSE
    /\ timer = "off" /\ slept = 0
    /\ asio = "idle"
    /\ con = "none" /\ left = {}
    /\ usable \in BOOLEAN
    /\ gaveUp = FALSE /\ late = FALSE

-----------------------------------------------------------------------------
(* ofThread and websocketClient *)

\* startThread: not before the last run has ended.
StartThread ==
    IF running \/ ~done
    THEN gaveUp' = TRUE /\ UNCHANGED thread
    ELSE /\ running' = TRUE /\ done' = FALSE
         /\ timer' = "sleep" /\ slept' = 0
         /\ gaveUp' = FALSE

\* close: the handlers are taken off, and an open connection is closed.  One
\* that is still connecting goes on.
Closed ==
    CASE con = "open" -> left \cup {"closing"}
      [] con = "connecting" -> left \cup {"connecting"}
      [] OTHER -> left

-----------------------------------------------------------------------------
(* The application thread *)

SetUri ==
    /\ app = "idle"
    /\ usable' = ~usable
    /\ UNCHANGED <<doTry, thread, call, asio, socket, gaveUp, late>>

Bind ==
    /\ app = "idle"
    /\ doTry' = TRUE
    /\ app' = "bind"
    /\ UNCHANGED <<destroying, thread, asio, socket, usable, gaveUp, late>>

BindStart ==
    /\ app = "bind"
    /\ StartThread
    /\ app' = "idle"
    /\ UNCHANGED <<doTry, destroying, asio, socket, usable, late>>

\* mutant: m_doTryConnect is left set
Unbind_StillTries(forGood) ==
    /\ app = "idle"
    /\ app' = "stop" /\ destroying' = forGood
    /\ UNCHANGED <<doTry, thread, asio, socket, usable, gaveUp, late>>

\* unbind, on its own or in the destructor: no more attempts, ...
Unbind(forGood) ==
    /\ app = "idle"
    /\ doTry' = FALSE
    /\ app' = "stop" /\ destroying' = forGood
    /\ UNCHANGED <<thread, asio, socket, usable, gaveUp, late>>

\* ... stopThread, ...
StopThread ==
    /\ app = "stop"
    /\ running' = FALSE
    /\ app' = "wait"
    /\ UNCHANGED <<doTry, done, timer, slept, destroying, asio, socket, usable, gaveUp, late>>

\* mutant: unbind does not wait for the thread
WaitForThread_Not ==
    /\ app = "wait"
    /\ app' = "close"
    /\ UNCHANGED <<doTry, thread, destroying, asio, socket, usable, gaveUp, late>>

\* ... waitForThread, which stops the thread once more, ...
WaitForThread ==
    /\ app = "wait"
    /\ \/ done /\ app' = "close" /\ UNCHANGED running
       \/ ~done /\ app' = "joinTimer" /\ running' = FALSE
    /\ UNCHANGED <<doTry, done, timer, slept, destroying, asio, socket, usable, gaveUp, late>>

JoinTimer ==
    /\ app = "joinTimer" /\ done
    /\ app' = "close"
    /\ UNCHANGED <<doTry, thread, destroying, asio, socket, usable, gaveUp, late>>

\* ... and close.  The destructor of websocketClient follows and joins asio.
Close ==
    /\ app = "close"
    /\ con' = "none" /\ left' = Closed
    /\ app' = IF destroying THEN "joinAsio" ELSE "idle"
    /\ UNCHANGED <<doTry, thread, destroying, asio, usable, gaveUp, late>>

\* Without perpetual work asio's thread ends when no connection is left.
JoinAsio ==
    /\ app = "joinAsio"
    /\ con \in {"none", "over"} /\ left = {} /\ asio = "idle"
    /\ app' = "gone"
    /\ UNCHANGED <<doTry, thread, destroying, asio, socket, usable, gaveUp, late>>

-----------------------------------------------------------------------------
(* The timer thread *)

\* mutant: one sleep too many
Sleep_Over ==
    /\ timer = "sleep"
    /\ slept' = slept + 1
    /\ timer' = IF ~running THEN "end" ELSE IF slept > Ticks THEN "connect" ELSE "sleep"
    /\ UNCHANGED <<doTry, running, done, call, asio, socket, usable, gaveUp, late>>

\* threadedFunction: sleep, and return when the thread was stopped meanwhile.
Sleep ==
    /\ timer = "sleep"
    /\ slept' = slept + 1
    /\ timer' = IF ~running THEN "end" ELSE IF slept' = Ticks THEN "connect" ELSE "sleep"
    /\ UNCHANGED <<doTry, running, done, call, asio, socket, usable, gaveUp, late>>

\* websocketClient::connect
Connect ==
    /\ timer = "connect"
    /\ left' = Closed
    /\ con' = IF usable THEN "connecting" ELSE "none"
    /\ gaveUp' = ~usable
    /\ timer' = "end"
    /\ UNCHANGED <<doTry, running, done, slept, call, asio, usable, late>>

\* The thread is detached and marked done.
ThreadEnds ==
    /\ timer = "end"
    /\ timer' = "off" /\ slept' = 0
    /\ running' = FALSE /\ done' = TRUE
    /\ UNCHANGED <<doTry, call, asio, socket, usable, gaveUp, late>>

-----------------------------------------------------------------------------
(* The asio thread *)

\* connected() does nothing.
OnOpen ==
    /\ asio = "idle"
    /\ con = "connecting"
    /\ con' = "open"
    /\ UNCHANGED <<doTry, thread, call, asio, left, usable, gaveUp, late>>

\* mutant: there is no handler for a close
OnFailOrClose_OnlyFail ==
    /\ asio = "idle"
    /\ con \in {"connecting", "open"}
    /\ asio' = IF con = "connecting" THEN "test" ELSE "idle"
    /\ con' = "over"
    /\ UNCHANGED <<doTry, thread, call, left, usable, gaveUp, late>>

\* on_fail, on_close: disconnected() ...
OnFailOrClose ==
    /\ asio = "idle"
    /\ con \in {"connecting", "open"}
    /\ con' = "over"
    /\ asio' = "test"
    /\ UNCHANGED <<doTry, thread, call, left, usable, gaveUp, late>>

\* ... if (m_doTryConnect) ...
Disconnected ==
    /\ asio = "test"
    /\ asio' = IF doTry THEN "start" ELSE "idle"
    /\ UNCHANGED <<doTry, thread, call, socket, usable, gaveUp, late>>

\* ... tryConnect()
TryConnect ==
    /\ asio = "start"
    /\ StartThread
    /\ asio' = "idle"
    /\ IF done /\ ~doTry /\ app \in {"close", "idle", "joinAsio", "gone"}
       THEN late' = TRUE
       ELSE UNCHANGED late
    /\ UNCHANGED <<doTry, call, socket, usable>>

\* Without handlers a connecting connection opens, or it fails; a closing one
\* ends by its timeout at the latest; an open one when the relay closes it.
LeftOpens ==
    /\ "connecting" \in left
    /\ left' \in {left \cup {"open"}, (left \cup {"open"}) \ {"connecting"}}
    /\ UNCHANGED <<doTry, thread, call, asio, con, usable, gaveUp, late>>

LeftEnds(S) ==
    \E s \in S \cap left :
        /\ left' = left \ {s}
        /\ UNCHANGED <<doTry, thread, call, asio, con, usable, gaveUp, late>>

-----------------------------------------------------------------------------
App == BindStart \/ StopThread \/ WaitForThread \/ JoinTimer \/ Close \/ JoinAsio
Timer == Sleep \/ Connect \/ ThreadEnds
Handler == Disconnected \/ TryConnect

Next ==
    \/ SetUri \/ Bind \/ \E forGood \in BOOLEAN : Unbind(forGood)
    \/ App \/ Timer \/ Handler
    \/ OnOpen \/ OnFailOrClose
    \/ LeftOpens \/ LeftEnds({"connecting", "closing", "open"})

\* Threads run, and websocketpp's timeouts end a handshake.  The relay, and the
\* application between two calls, need not do anything.
Fairness ==
    /\ WF_vars(App) /\ WF_vars(Timer) /\ WF_vars(Handler)
    /\ WF_vars(LeftEnds({"connecting"})) /\ WF_vars(LeftEnds({"closing"}))

Spec == Init /\ [][Next]_vars /\ Fairness

-----------------------------------------------------------------------------
(* Properties *)

Flags ==
    /\ doTry \in BOOLEAN /\ running \in BOOLEAN /\ done \in BOOLEAN
    /\ destroying \in BOOLEAN /\ usable \in BOOLEAN
    /\ gaveUp \in BOOLEAN /\ late \in BOOLEAN

Places ==
    /\ app \in {"idle", "bind", "stop", "wait", "joinTimer", "close", "joinAsio", "gone"}
    /\ timer \in {"off", "sleep", "connect", "end"}
    /\ slept \in 0..Ticks
    /\ asio \in {"idle", "test", "start"}
    /\ con \in {"none", "connecting", "open", "over"}
    /\ left \subseteq {"connecting", "closing", "open"}

\* ofThread's flags and the timer's loop agree on whether the thread runs.
FlagsFollowTimer ==
    /\ done <=> timer = "off"
    /\ running => ~done

\* The variables have the shape the code declares, and ofThread's flags agree
\* with its loop.
TypeOK == Flags /\ Places /\ FlagsFollowTimer

\* Whatever unbind meets - a timer that sleeps, or connects already, a handler
\* that is about to start it - when it returns no timer runs and no connection
\* has handlers, unless a handler had looked at m_doTryConnect before unbind
\* cleared it and starts the timer only now.
UnboundIsQuiet ==
    ~doTry /\ app = "idle" => late \/ (timer = "off" /\ con = "none")

\* A transporter that is bound and has no connection tries again, for as long
\* as it is bound, unless the attempt came too early for the thread that made
\* the last one, or the uri was of no use.
Reconnects ==
    doTry /\ con \in {"none", "over"} ~>
        con \in {"connecting", "open"} \/ ~doTry \/ gaveUp

\* The destructor ends, whatever timer and connection do meanwhile, unless a
\* connection that was connecting when it lost its handlers has opened since.
DestroyEnds == destroying ~> app = "gone" \/ late \/ "open" \in left
=============================================================================
