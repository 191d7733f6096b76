--------------------- MODULE WebsocketServerTransporter ---------------------
(***************************************************************************)
(* websocketServerTransporter and the threads that meet in it: "asio"      *)
(* (threadedFunction) runs the handlers of websocketpp, which queue        *)
(* actions; "svc" (process_messages) carries them out, editing the         *)
(* connection list and passing messages to ParameterServer::received;      *)
(* "app" binds, unbinds, sends with ParameterServer::update() and destroys *)
(* the transporter.                                                        *)
(*                                                                         *)
(* m_connection_lock is taken by one thread only and left out.  An update()*)
(* that a value callback runs on the service thread waits for the          *)
(* manager's mutex and sends, as the forwarding of the message does.       *)
(***************************************************************************)
EXTENDS Naturals, Sequences

CONSTANTS
    Conns,      \* the connections, each opened once
    MaxMsgs,    \* how many messages a client sends, a bound for TLC
    NoConn,
    Settled     \* the transporter is destroyed only after its threads began

ASSUME ConnsDistinct == NoConn \notin Conns
ASSUME MaxMsgsNat == MaxMsgs \in Nat
ASSUME SettledFlag == Settled \in BOOLEAN

VARIABLES
    pc,             \* thread -> where it is
    conn,           \* connection -> its state in websocketpp
    sent,           \* connection -> how many messages it sent
    actions,        \* m_actions
    inHand,         \* the action the service thread popped
    connections,    \* m_connections
    toSend,         \* thread -> the connections its send has still to visit
    run,            \* m_run
    listening,      \* m_server.is_listening()
    stopped,        \* m_server.stop() was called; nothing resets it
    managerLocked,  \* the application thread locked the ParameterManager's mutex
    dead            \* an exception or a data race ended the process

peers == <<conn, sent>>
lists == <<connections, toSend>>
vars  == <<pc, peers, actions, inHand, lists, run, listening, stopped,
           managerLocked, dead>>

NoAction == [type |-> "NONE", hdl |-> NoConn]

-----------------------------------------------------------------------------
Goto(t, label) == pc' = [pc EXCEPT ![t] = label]

\* The service thread holds m_action_lock.
ActionLocked == pc["svc"] \in {"locked", "towait"}

\* m_action_cond.notify_one()
Notified == IF pc["svc"] = "waiting" THEN [pc EXCEPT !["svc"] = "lock"] ELSE pc

\* mutant: what is pushed last is popped first
Push_Front(type, c) ==
    /\ ~ActionLocked
    /\ actions' = <<[type |-> type, hdl |-> c]>> \o actions
    /\ Goto("asio", "notify")

\* The first half of a handler: the action is queued under m_action_lock.
Push(type, c) ==
    /\ ~ActionLocked
    /\ actions' = Append(actions, [type |-> type, hdl |-> c])
    /\ Goto("asio", "notify")

Init ==
    /\ pc = [app |-> "idle", asio |-> "off", svc |-> "start"]
    /\ conn = [c \in Conns |-> "new"]
    /\ sent = [c \in Conns |-> 0]
    /\ actions = <<>>
    /\ inHand = NoAction
    /\ connections = {}
    /\ toSend = [t \in {"app", "svc"} |-> {}]
    /\ run = FALSE
    /\ listening = FALSE
    /\ stopped = FALSE
    /\ managerLocked = FALSE
    /\ dead = FALSE

-----------------------------------------------------------------------------
(* The asio thread *)

\* listen, start_accept, run; or an exception, when the port is taken.
Listen ==
    /\ pc["asio"] = "starting"
    /\ \/ Goto("asio", "running") /\ listening' = TRUE
       \/ Goto("asio", "off") /\ UNCHANGED listening
    /\ UNCHANGED <<peers, actions>>

\* run() returns once the io_service is stopped.
RunReturns ==
    /\ pc["asio"] = "running" /\ stopped
    /\ Goto("asio", "off")
    /\ UNCHANGED <<peers, actions, listening>>

OnOpen(c) ==
    /\ conn[c] = "new"
    /\ conn' = [conn EXCEPT ![c] = "open"]
    /\ Push("SUBSCRIBE", c)
    /\ UNCHANGED <<sent, listening>>

\* The close handshake began.
CloseFrame(c) ==
    /\ conn[c] = "open"
    /\ conn' = [conn EXCEPT ![c] = "closing"]
    /\ UNCHANGED <<pc, sent, actions, listening>>

OnClose(c) ==
    /\ conn[c] \in {"open", "closing"}
    /\ conn' = [conn EXCEPT ![c] = "closed"]
    /\ Push("UNSUBSCRIBE", c)
    /\ UNCHANGED <<sent, listening>>

\* A MESSAGE: its packet asks for an answer (INITIALIZE, INFO) or updates a
\* parameter.
OnMessage(c, packet) ==
    /\ conn[c] = "open"
    /\ sent[c] < MaxMsgs
    /\ sent' = [sent EXCEPT ![c] = @ + 1]
    /\ Push(packet, c)
    /\ UNCHANGED <<conn, listening>>

\* mutant: the service thread is not notified
HandlerNotify_Silent ==
    /\ pc["asio"] = "notify"
    /\ Goto("asio", "running")
    /\ UNCHANGED <<peers, actions, listening>>

\* The second half of a handler.
HandlerNotify ==
    /\ pc["asio"] = "notify"
    /\ pc' = [Notified EXCEPT !["asio"] = "running"]
    /\ UNCHANGED <<peers, actions, listening>>

-----------------------------------------------------------------------------
(* The service thread *)

\* m_run = true
Start ==
    /\ pc["svc"] = "start"
    /\ run' = TRUE
    /\ Goto("svc", "lock")
    /\ UNCHANGED <<actions, inHand, lists>>

\* Take m_action_lock, at the head of the loop or after a wait.
Lock ==
    /\ pc["svc"] = "lock"
    /\ Goto("svc", "locked")
    /\ UNCHANGED <<actions, inHand, lists, run>>

\* Nothing to do: wait, which gives the lock back as it falls asleep, ...
Wait ==
    /\ \/ pc["svc"] = "locked" /\ run /\ actions = <<>> /\ Goto("svc", "towait")
       \/ pc["svc"] = "towait" /\ Goto("svc", "waiting")
    /\ UNCHANGED <<actions, inHand, lists, run>>

\* ... and may wake up unasked.
WakeUp ==
    /\ pc["svc"] = "waiting"
    /\ Goto("svc", "lock")
    /\ UNCHANGED <<actions, inHand, lists, run>>

\* if (!m_run) break
Leave ==
    /\ pc["svc"] = "locked" /\ ~run
    /\ Goto("svc", "ended")
    /\ UNCHANGED <<actions, inHand, lists, run>>

\* mutant: the queue is not looked at again after a wait
Pop_NotRechecked ==
    /\ pc["svc"] = "locked" /\ run
    /\ inHand' = IF actions = <<>> THEN NoAction ELSE Head(actions)
    /\ actions' = IF actions = <<>> THEN actions ELSE Tail(actions)
    /\ Goto("svc", "handle")
    /\ UNCHANGED <<lists, run>>

Pop ==
    /\ pc["svc"] = "locked" /\ run /\ actions # <<>>
    /\ inHand' = Head(actions)
    /\ actions' = Tail(actions)
    /\ Goto("svc", "handle")
    /\ UNCHANGED <<lists, run>>

\* The service thread works on an action of these types, and goes on at label.
Handle(types, label) ==
    /\ pc["svc"] = "handle" /\ inHand.type \in types
    /\ inHand' = NoAction
    /\ Goto("svc", label)
    /\ UNCHANGED <<actions, run>>

HandleSubscribe ==
    /\ Handle({"SUBSCRIBE"}, "lock")
    /\ connections' = connections \cup {inHand.hdl}
    /\ UNCHANGED toSend

\* mutant: the connection stays in the list
HandleUnsubscribe_Keeps ==
    /\ Handle({"UNSUBSCRIBE"}, "lock")
    /\ UNCHANGED lists

HandleUnsubscribe ==
    /\ Handle({"UNSUBSCRIBE"}, "lock")
    /\ connections' = connections \ {inHand.hdl}
    /\ UNCHANGED toSend

\* Both sends do nothing unless the server listens.
WillSend(t, S) == toSend' = [toSend EXCEPT ![t] = IF listening THEN S ELSE {}]

\* received(): an answer is sent to the client that asked.
HandleInitialize ==
    /\ Handle({"INITIALIZE"}, "sending")
    /\ WillSend("svc", {inHand.hdl} \cap connections)
    /\ UNCHANGED connections

\* received(): the parameter is set, which takes the manager's mutex for a
\* moment, and the packet forwarded to the other clients.
HandleUpdate ==
    /\ Handle({"UPDATE"}, "sending")
    /\ ~managerLocked
    /\ WillSend("svc", connections \ {inHand.hdl})
    /\ UNCHANGED connections

\* The connection object is gone: nobody receives the message.
HandleGone ==
    /\ Handle({"INITIALIZE", "UPDATE"}, "lock")
    /\ conn[inHand.hdl] = "closed"
    /\ UNCHANGED lists

Sent ==
    /\ pc["svc"] = "sending" /\ toSend["svc"] = {}
    /\ Goto("svc", "lock")
    /\ UNCHANGED <<actions, inHand, lists, run>>

-----------------------------------------------------------------------------
(* Sending, on either thread: one connection after the other *)

\* c takes the packet, or its object is gone, or the list lost it meanwhile.
Send(t, c) ==
    /\ pc[t] = "sending" /\ c \in toSend[t]
    /\ conn[c] # "closing" \/ c \notin connections
    /\ toSend' = [toSend EXCEPT ![t] = @ \ {c}]
    /\ UNCHANGED <<pc, connections, managerLocked, dead>>

\* websocketpp throws for a connection that is not open.  Nobody catches on the
\* service thread.  On the application thread the exception leaves update()
\* before the mutex is unlocked; the application catches it, or dies.
Throw(t, c) ==
    /\ pc[t] = "sending" /\ c \in toSend[t] \cap connections
    /\ conn[c] \in {"closing", "closed"}
    /\ toSend' = [toSend EXCEPT ![t] = {}]
    /\ Goto(t, IF t = "app" THEN "idle" ELSE "ended")
    /\ dead' \in IF t = "app" THEN BOOLEAN ELSE {TRUE}
    /\ UNCHANGED <<connections, managerLocked>>

-----------------------------------------------------------------------------
(* The application thread *)

\* bind, once: an io_service that was stopped is never reset.
Bind ==
    /\ pc["app"] = "idle" /\ pc["asio"] = "off" /\ ~stopped
    /\ Goto("asio", "starting")
    /\ UNCHANGED <<lists, run, listening, stopped, managerLocked>>

\* stop_listening and stop, unless it does not listen.
Stop(next, otherwise) ==
    /\ Goto("app", IF listening THEN next ELSE otherwise)
    /\ listening' = FALSE
    /\ stopped' = (stopped \/ listening)
    /\ UNCHANGED <<lists, run, managerLocked>>

Unbind ==
    /\ pc["app"] = "idle"
    /\ Stop("unlist", "idle")

\* m_connections.clear()
Unlist ==
    /\ pc["app"] \in {"unlist", "unlist for good"}
    /\ connections' = {}
    /\ Goto("app", IF pc["app"] = "unlist" THEN "idle" ELSE "join asio")
    /\ UNCHANGED <<toSend, run, listening, stopped, managerLocked>>

\* update(): lock, sendToAll, unlock
CallUpdate ==
    /\ pc["app"] = "idle"
    /\ Goto("app", "locking")
    /\ UNCHANGED <<lists, run, listening, stopped, managerLocked>>

BeginUpdate ==
    /\ pc["app"] = "locking" /\ ~managerLocked
    /\ managerLocked' = TRUE
    /\ WillSend("app", connections)
    /\ Goto("app", "sending")
    /\ UNCHANGED <<connections, run, listening, stopped>>

EndUpdate ==
    /\ pc["app"] = "sending" /\ toSend["app"] = {}
    /\ managerLocked' = FALSE
    /\ Goto("app", "idle")
    /\ UNCHANGED <<lists, run, listening, stopped>>

\* The destructor: unbind, waitForThread, ...
Destroy ==
    /\ pc["app"] = "idle"
    /\ Settled => pc["svc"] # "start" /\ pc["asio"] # "starting"
    /\ Stop("unlist for good", "join asio")

JoinAsio ==
    /\ pc["app"] = "join asio" /\ pc["asio"] = "off"
    /\ Goto("app", "end run")
    /\ UNCHANGED <<lists, run, listening, stopped, managerLocked>>

\* mutant: m_run is cleared without the lock
EndRun_Unlocked ==
    /\ pc["app"] = "end run"
    /\ run' = FALSE
    /\ Goto("app", "notify")
    /\ UNCHANGED <<lists, listening, stopped, managerLocked>>

\* ... m_run = false under m_action_lock, notify_one, join
EndRun ==
    /\ pc["app"] = "end run" /\ ~ActionLocked
    /\ run' = FALSE
    /\ Goto("app", "notify")
    /\ UNCHANGED <<lists, listening, stopped, managerLocked>>

NotifyEnd ==
    /\ pc["app"] = "notify"
    /\ pc' = [Notified EXCEPT !["app"] = "join svc"]
    /\ UNCHANGED <<lists, run, listening, stopped, managerLocked>>

JoinSvc ==
    /\ pc["app"] = "join svc" /\ pc["svc"] = "ended"
    /\ Goto("app", "gone")
    /\ UNCHANGED <<lists, run, listening, stopped, managerLocked>>

\* The service thread edits the list, or the application clears it, while the
\* other thread is in it: the process may die.
RaceOnList ==
    /\ ~dead
    /\ \/ /\ pc["svc"] = "handle" /\ inHand.type \in {"SUBSCRIBE", "UNSUBSCRIBE"}
          /\ pc["app"] \in {"unlist", "unlist for good"} \/ toSend["app"] # {}
       \/ pc["svc"] = "sending" /\ pc["app"] \in {"unlist", "unlist for good"}
    /\ dead' = TRUE
    /\ UNCHANGED <<pc, peers, actions, inHand, lists, run, listening, stopped,
                   managerLocked>>

-----------------------------------------------------------------------------
\* What each thread leaves alone.
ByAsio(A) ==
    ~dead /\ A /\ UNCHANGED <<inHand, lists, run, stopped, managerLocked, dead>>
BySvc(A) == ~dead /\ A /\ UNCHANGED <<peers, listening, stopped, managerLocked, dead>>
ByApp(A) == ~dead /\ A /\ UNCHANGED <<peers, actions, inHand, dead>>
BySend(A) == ~dead /\ A /\ UNCHANGED <<peers, actions, inHand, run, listening, stopped>>

Handlers ==
    /\ pc["asio"] = "running" /\ ~stopped
    /\ \E c \in Conns :
        \/ OnOpen(c)
        \/ CloseFrame(c)
        \/ OnClose(c)
        \/ \E packet \in {"INITIALIZE", "UPDATE"} : OnMessage(c, packet)

Service ==
    \/ Start \/ Lock \/ Wait \/ Leave \/ Pop
    \/ HandleSubscribe \/ HandleUnsubscribe \/ HandleInitialize \/ HandleGone \/ Sent

Sending(t) == \E c \in Conns : Send(t, c) \/ Throw(t, c)

Continue == Unlist \/ BeginUpdate \/ EndUpdate \/ JoinAsio \/ NotifyEnd \/ JoinSvc

Next ==
    \/ ByAsio(Listen \/ RunReturns \/ HandlerNotify \/ Handlers)
    \/ BySvc(Service \/ HandleUpdate \/ WakeUp)
    \/ ByApp(Bind \/ Unbind \/ CallUpdate \/ Destroy \/ Continue \/ EndRun)
    \/ BySend(Sending("app") \/ Sending("svc"))
    \/ RaceOnList

\* Threads run, and get a mutex that is free again and again; clients and the
\* application need not do anything.
Fairness ==
    /\ WF_vars(ByAsio(Listen \/ RunReturns \/ HandlerNotify))
    /\ WF_vars(BySvc(Service)) /\ SF_vars(BySvc(HandleUpdate))
    /\ WF_vars(ByApp(Continue)) /\ SF_vars(ByApp(EndRun))
    /\ WF_vars(BySend(Sending("app"))) /\ WF_vars(BySend(Sending("svc")))

Spec == Init /\ [][Next]_vars /\ Fairness

-----------------------------------------------------------------------------
(* Properties *)

Action == [type : {"SUBSCRIBE", "UNSUBSCRIBE", "INITIALIZE", "UPDATE"}, hdl : Conns]

AppPlaces == {"idle", "unlist", "unlist for good", "locking", "sending", "join asio",
              "end run", "notify", "join svc", "gone"}

AsioPlaces == {"off", "starting", "running", "notify"}

SvcPlaces == {"start", "lock", "locked", "towait", "waiting", "handle", "sending", "ended"}

Places == pc["app"] \in AppPlaces /\ pc["asio"] \in AsioPlaces /\ pc["svc"] \in SvcPlaces

Queued ==
    /\ actions \in Seq(Action)
    /\ IF pc["svc"] = "handle" THEN inHand \in Action ELSE inHand = NoAction

Peers ==
    /\ conn \in [Conns -> {"new", "open", "closing", "closed"}]
    /\ sent \in [Conns -> 0..MaxMsgs]
    /\ connections \subseteq Conns
    /\ toSend \in [{"app", "svc"} -> SUBSET Conns]

Flags == {run, listening, stopped, managerLocked, dead} \subseteq BOOLEAN

\* The variables have the shape the code declares, and the service thread works
\* on an action it popped.
TypeOK == Places /\ Queued /\ Peers /\ Flags

\* What the service thread has still to carry out.
Todo == IF pc["svc"] = "handle" THEN <<inHand>> \o actions ELSE actions

\* Where the queue todo subscribes or unsubscribes c.
Edits(todo, c) ==
    {i \in 1..Len(todo) : todo[i].hdl = c /\ todo[i].type \in {"SUBSCRIBE", "UNSUBSCRIBE"}}

\* c is in the list as it will be when all of todo was carried out.
Listed(todo, list, c) ==
    IF Edits(todo, c) = {} THEN c \in list
    ELSE \E i \in Edits(todo, c) :
             todo[i].type = "SUBSCRIBE" /\ \A j \in Edits(todo, c) : j <= i

\* Nobody is forgotten in the connection list or left behind in it: while the
\* server is bound, what is queued makes it the connections not yet closed.
ListFollowsConnections ==
    ~stopped => \A c \in Conns :
        Listed(Todo, connections, c) <=> conn[c] \in {"open", "closing"}

\* A client that asks is found in the list when its message is handled: the
\* answer, sent with sendToOne, is not dropped.
SenderIsListed ==
    ~stopped /\ pc["svc"] = "handle" /\ inHand.type \in {"INITIALIZE", "UPDATE"} =>
        inHand.hdl \in connections

\* An exception left update() before the manager's mutex was unlocked.
Leaked == managerLocked /\ pc["app"] # "sending"

Destroying == pc["app"] \in {"unlist for good", "join asio", "end run", "notify",
                             "join svc", "gone"}

\* The destructor ends, whatever the service thread is doing when m_run is
\* cleared: no notification is lost and no two threads wait for each other.
ShutdownEnds == Destroying ~> pc["app"] = "gone" \/ dead \/ Leaked

\* What is queued is carried out, unless the transporter is destroyed first.
ActionsHandled == actions # <<>> ~> actions = <<>> \/ Destroying \/ dead \/ Leaked
=============================================================================
