------------------ MODULE WebsocketServerTransporterProofs ------------------
(***************************************************************************)
(* The queue of actions and the connection list, for any number of         *)
(* connections and messages.                                               *)
(***************************************************************************)
EXTENDS WebsocketServerTransporter, SequenceTheorems, TLAPS

Asked == {"INITIALIZE", "UPDATE"}

\* What carrying out action a makes of the list.
Applied(a, list) ==
    IF a.type = "SUBSCRIBE" THEN list \cup {a.hdl}
    ELSE IF a.type = "UNSUBSCRIBE" THEN list \ {a.hdl}
    ELSE list

\* An unsubscription is the last of its connection in the queue; a message
\* comes after its connection's subscription, or that was carried out.
Ordered(todo, list) ==
    /\ \A i, j \in 1..Len(todo) :
           i < j /\ todo[i].type = "UNSUBSCRIBE" => todo[j].hdl # todo[i].hdl
    /\ \A i \in 1..Len(todo) : todo[i].type \in Asked =>
           \/ todo[i].hdl \in list
           \/ \E j \in 1..Len(todo) :
                  j < i /\ todo[j].type = "SUBSCRIBE" /\ todo[j].hdl = todo[i].hdl

\* What is said of a queue at its end.
LEMMA ListedAppend ==
    ASSUME NEW q \in Seq(Action), NEW a \in Action, NEW list, NEW c \in Conns
    PROVE  Listed(Append(q, a), list, c) <=>
               IF a.hdl = c /\ a.type \notin Asked THEN a.type = "SUBSCRIBE"
               ELSE Listed(q, list, c)
<1> DEFINE n == Len(q) + 1
           p == Append(q, a)
<1>1. /\ Len(p) = n /\ p[n] = a /\ n \in Nat /\ Len(q) \in Nat
      /\ \A i \in 1..Len(q) : p[i] = q[i]
  OBVIOUS
<1>2. a.type \in {"SUBSCRIBE", "UNSUBSCRIBE"} <=> a.type \notin Asked
  BY DEF Action, Asked
<1> HIDE DEF p
<1>3. CASE a.hdl = c /\ a.type \notin Asked
  <2>1. n \in Edits(p, c) /\ \A j \in Edits(p, c) : j <= n
    BY <1>1, <1>2, <1>3 DEF Edits
  <2>2. \A i \in Edits(p, c) : (\A j \in Edits(p, c) : j <= i) => i = n
    BY <1>1, <2>1 DEF Edits
  <2> QED
    BY <1>1, <1>3, <2>1, <2>2 DEF Listed, p
<1>4. CASE ~(a.hdl = c /\ a.type \notin Asked)
  <2>1. Edits(p, c) = Edits(q, c)
    BY <1>1, <1>2, <1>4 DEF Edits
  <2>2. \A i \in Edits(q, c) : p[i] = q[i]
    BY <1>1 DEF Edits
  <2> QED
    BY <1>4, <2>1, <2>2 DEF Listed, p
<1> QED
  BY <1>3, <1>4

\* What is said of it when its first action is carried out.
LEMMA ListedTail ==
    ASSUME NEW q \in Seq(Action), q # <<>>, NEW list, NEW c \in Conns
    PROVE  Listed(Tail(q), Applied(Head(q), list), c) <=> Listed(q, list, c)
<1> DEFINE a == Head(q)
           t == Tail(q)
           done == Applied(a, list)
<1>1. /\ Len(q) \in Nat \ {0} /\ Len(t) = Len(q) - 1 /\ a = q[1] /\ a \in Action
      /\ \A i \in 1..Len(t) : t[i] = q[i + 1]
  OBVIOUS
<1>2. a.type \in {"SUBSCRIBE", "UNSUBSCRIBE"} <=> a.type \notin Asked
  BY <1>1 DEF Action, Asked
<1> HIDE DEF a, t
<1>3. \A i \in 1..Len(t) : i \in Edits(t, c) <=> i + 1 \in Edits(q, c)
  BY <1>1 DEF Edits
<1>4. \A i \in Edits(q, c) : i \in 1..Len(q) /\ (i = 1 \/ i - 1 \in Edits(t, c))
  BY <1>1, <1>3 DEF Edits
<1>5. \A i \in Edits(t, c) : i \in 1..Len(t) /\ i + 1 \in Edits(q, c)
  BY <1>3 DEF Edits
<1>6. 1 \in Edits(q, c) <=> a.hdl = c /\ a.type \notin Asked
  BY <1>1, <1>2 DEF Edits
<1>7. CASE Edits(t, c) = {}
  <2>1. Listed(t, done, c) <=> c \in done
    BY <1>7 DEF Listed
  <2>2. CASE 1 \in Edits(q, c)
    <3>1. Edits(q, c) = {1}
      BY <1>4, <1>7, <2>2
    <3>2. Listed(q, list, c) <=> a.type = "SUBSCRIBE"
      BY <1>1, <3>1 DEF Listed
    <3> QED
      BY <1>2, <1>6, <2>1, <2>2, <3>2 DEF Applied, done, Asked, a, t
  <2>3. CASE 1 \notin Edits(q, c)
    <3>1. Edits(q, c) = {}
      BY <1>4, <1>7, <2>3
    <3>2. c \in done <=> c \in list
      BY <1>2, <1>6, <2>3 DEF Applied, done, Asked
    <3> QED
      BY <2>1, <3>1, <3>2 DEF Listed, done, a, t
  <2> QED
    BY <2>2, <2>3 DEF a, t
<1>8. CASE Edits(t, c) # {}
  <2>1. Edits(q, c) # {}
    BY <1>5, <1>8
  <2>2. ASSUME NEW i \in Edits(t, c), \A j \in Edits(t, c) : j <= i
        PROVE  /\ i + 1 \in Edits(q, c) /\ q[i + 1] = t[i]
               /\ \A j \in Edits(q, c) : j <= i + 1
    <3>1. i + 1 \in Edits(q, c) /\ i \in 1..Len(t)
      BY <1>5
    <3>2. \A j \in Edits(q, c) : j <= i + 1
      BY <1>1, <1>4, <2>2, <3>1
    <3> QED
      BY <1>1, <3>1, <3>2
  <2>3. ASSUME NEW i \in Edits(q, c), \A j \in Edits(q, c) : j <= i
        PROVE  /\ i - 1 \in Edits(t, c) /\ t[i - 1] = q[i]
               /\ \A j \in Edits(t, c) : j <= i - 1
    <3>1. i # 1
      BY <1>1, <1>5, <1>8, <2>3
    <3>2. i - 1 \in Edits(t, c)
      BY <1>4, <3>1
    <3>3. t[i - 1] = q[i]
      BY <1>1, <1>4, <1>5, <3>2
    <3>4. \A j \in Edits(t, c) : j <= i - 1
      BY <1>1, <1>4, <1>5, <2>3
    <3> QED
      BY <3>2, <3>3, <3>4
  <2> QED
    BY <1>8, <2>1, <2>2, <2>3 DEF Listed, a, t
<1> QED
  BY <1>7, <1>8

\* Appending what a handler may say of a connection keeps the order ...
LEMMA OrderedAppend ==
    ASSUME NEW q \in Seq(Action), NEW a \in Action, NEW list \in SUBSET Conns, Ordered(q, list),
           \A i \in 1..Len(q) : q[i].type = "UNSUBSCRIBE" => q[i].hdl # a.hdl,
           a.type \in Asked => Listed(q, list, a.hdl)
    PROVE  Ordered(Append(q, a), list)
<1> DEFINE n == Len(q) + 1
           p == Append(q, a)
<1>1. /\ Len(p) = n /\ p[n] = a /\ n \in Nat /\ Len(q) \in Nat
      /\ \A i \in 1..Len(q) : p[i] = q[i]
  OBVIOUS
<1>2. a.type \in Asked =>
          a.hdl \in list \/ \E j \in 1..Len(q) : q[j].type = "SUBSCRIBE" /\ q[j].hdl = a.hdl
  BY DEF Listed, Edits
<1> HIDE DEF p
<1>3. \A i, j \in 1..n : i < j /\ p[i].type = "UNSUBSCRIBE" => p[j].hdl # p[i].hdl
  BY <1>1 DEF Ordered
<1>4. ASSUME NEW i \in 1..n, p[i].type \in Asked
      PROVE  \/ p[i].hdl \in list
             \/ \E j \in 1..n : j < i /\ p[j].type = "SUBSCRIBE" /\ p[j].hdl = p[i].hdl
  <2>1. CASE i = n
    BY <1>1, <1>2, <1>4, <2>1
  <2>2. CASE i # n
    <3>1. i \in 1..Len(q) /\ p[i] = q[i]
      BY <1>1, <2>2
    <3> QED
      BY <1>1, <1>4, <3>1 DEF Ordered
  <2> QED
    BY <2>1, <2>2
<1> QED
  BY <1>1, <1>3, <1>4 DEF Ordered, p

\* ... and so does carrying out the first action.
LEMMA OrderedTail ==
    ASSUME NEW q \in Seq(Action), q # <<>>, NEW list \in SUBSET Conns, Ordered(q, list)
    PROVE  Ordered(Tail(q), Applied(Head(q), list))
<1> DEFINE a == Head(q)
           t == Tail(q)
<1>1. /\ Len(q) \in Nat \ {0} /\ Len(t) = Len(q) - 1 /\ a = q[1]
      /\ \A i \in 1..Len(t) : t[i] = q[i + 1]
  OBVIOUS
<1> HIDE DEF a, t
<1>2. \A i, j \in 1..Len(t) : i < j /\ t[i].type = "UNSUBSCRIBE" => t[j].hdl # t[i].hdl
  BY <1>1 DEF Ordered
<1>3. ASSUME NEW i \in 1..Len(t), t[i].type \in Asked
      PROVE  \/ t[i].hdl \in Applied(a, list)
             \/ \E j \in 1..Len(t) :
                    j < i /\ t[j].type = "SUBSCRIBE" /\ t[j].hdl = t[i].hdl
  <2>1. t[i] = q[i + 1] /\ i + 1 \in 1..Len(q) /\ 1 \in 1..Len(q) /\ 1 < i + 1
    BY <1>1
  <2>2. CASE t[i].hdl \in list
    <3>1. a.type = "UNSUBSCRIBE" => a.hdl # t[i].hdl
      BY <1>1, <2>1 DEF Ordered
    <3> QED
      BY <2>2, <3>1 DEF Applied
  <2>3. CASE t[i].hdl \notin list
    <3>1. PICK j \in 1..Len(q) : /\ j < i + 1 /\ q[j].type = "SUBSCRIBE"
                                 /\ q[j].hdl = t[i].hdl
      BY <1>3, <2>1, <2>3 DEF Ordered
    <3>2. CASE j = 1
      BY <1>1, <3>1, <3>2 DEF Applied
    <3>3. CASE j # 1
      <4>1. j - 1 \in 1..Len(t) /\ j - 1 < i /\ t[j - 1] = q[j]
        BY <1>1, <3>1, <3>3
      <4> QED
        BY <3>1, <4>1
    <3> QED
      BY <3>2, <3>3
  <2> QED
    BY <2>2, <2>3
<1> QED
  BY <1>2, <1>3 DEF Ordered, a, t

-----------------------------------------------------------------------------
(* The threads keep their shape. *)

Labels == AppPlaces \cup AsioPlaces \cup SvcPlaces

Shape == TypeOK /\ pc \in [{"app", "asio", "svc"} -> Labels]

\* The shape at the start.
LEMMA ShapeInit == Init => Shape
<1> SUFFICES ASSUME Init
             PROVE  Shape
  OBVIOUS
<1>1. pc = [app |-> "idle", asio |-> "off", svc |-> "start"]
  BY DEF Init
<1>2. Places /\ pc \in [{"app", "asio", "svc"} -> Labels]
  <2>1. "idle" \in AppPlaces /\ "off" \in AsioPlaces /\ "start" \in SvcPlaces
    BY DEF AppPlaces, AsioPlaces, SvcPlaces
  <2> QED
    BY <1>1, <2>1 DEF Places, Labels
<1>3. Queued
  BY <1>1 DEF Init, Queued
<1>4. Peers
  BY MaxMsgsNat DEF Init, Peers
<1>5. Flags
  BY DEF Init, Flags
<1> QED
  BY <1>1, <1>2, <1>3, <1>4, <1>5 DEF Shape, TypeOK

\* A thread goes to one of its places.
LEMMA Goes ==
    ASSUME Places, pc \in [{"app", "asio", "svc"} -> Labels],
           \/ pc' = pc
           \/ \E l \in AppPlaces : pc' = [pc EXCEPT !["app"] = l]
           \/ \E l \in AsioPlaces : pc' = [pc EXCEPT !["asio"] = l]
           \/ \E l \in SvcPlaces : pc' = [pc EXCEPT !["svc"] = l]
    PROVE  Places' /\ pc' \in [{"app", "asio", "svc"} -> Labels]
BY DEF Places, Labels

\* Where the threads are.
LEMMA PlacesKeep ==
    ASSUME Places, pc \in [{"app", "asio", "svc"} -> Labels], Next
    PROVE  Places' /\ pc' \in [{"app", "asio", "svc"} -> Labels]
<1>1. CASE ByAsio(Listen \/ RunReturns \/ Handlers)
  <2>1. pc' = pc \/ \E l \in AsioPlaces : pc' = [pc EXCEPT !["asio"] = l]
    BY <1>1 DEF ByAsio, Listen, RunReturns, Handlers, OnOpen, CloseFrame, OnClose,
       OnMessage, Push, Goto, AsioPlaces
  <2> QED
    BY <2>1, Goes
<1>2. CASE HandlerNotify \/ ByApp(NotifyEnd)
  <2>1. "running" \in AsioPlaces /\ "lock" \in SvcPlaces /\ "join svc" \in AppPlaces
    BY DEF AsioPlaces, SvcPlaces, AppPlaces
  <2> QED
    BY <1>2, <2>1 DEF HandlerNotify, NotifyEnd, ByApp, Notified, Places, Labels
<1>3. CASE BySvc(Service \/ HandleUpdate \/ WakeUp)
  <2>1. \E l \in SvcPlaces : pc' = [pc EXCEPT !["svc"] = l]
    BY <1>3 DEF BySvc, Service, Start, Lock, Wait, Leave, WakeUp, Sent, Pop, HandleSubscribe,
       HandleUnsubscribe, HandleInitialize, HandleGone, HandleUpdate, Handle, Goto, SvcPlaces
  <2> QED
    BY <2>1, Goes
<1>4. CASE ByApp(Bind)
  <2>1. \E l \in AsioPlaces : pc' = [pc EXCEPT !["asio"] = l]
    BY <1>4 DEF ByApp, Bind, Goto, AsioPlaces
  <2> QED
    BY <2>1, Goes
<1>5. CASE ByApp(\/ Unbind \/ CallUpdate \/ Destroy \/ Unlist \/ BeginUpdate \/ EndUpdate
                 \/ JoinAsio \/ JoinSvc \/ EndRun)
  <2>1. \E l \in AppPlaces : pc' = [pc EXCEPT !["app"] = l]
    BY <1>5 DEF ByApp, Unbind, CallUpdate, Destroy, Stop, Unlist, BeginUpdate, EndUpdate,
       JoinAsio, JoinSvc, EndRun, Goto, AppPlaces
  <2> QED
    BY <2>1, Goes
<1>6. CASE BySend(Sending("app") \/ Sending("svc"))
  <2>1. \/ pc' = pc
        \/ \E l \in AppPlaces : pc' = [pc EXCEPT !["app"] = l]
        \/ \E l \in SvcPlaces : pc' = [pc EXCEPT !["svc"] = l]
    BY <1>6 DEF BySend, Sending, Send, Throw, Goto, AppPlaces, SvcPlaces
  <2> QED
    BY <2>1, Goes
<1>7. CASE RaceOnList
  BY <1>7, Goes DEF RaceOnList
<1> QED
  BY <1>1, <1>2, <1>3, <1>4, <1>5, <1>6, <1>7 DEF Next, ByAsio, ByApp, Continue

\* What the flags hold.
LEMMA FlagsKeep == ASSUME Flags, Next PROVE Flags'
<1> USE DEF Flags
<1>1. CASE ByAsio(Listen \/ RunReturns \/ HandlerNotify \/ Handlers)
  BY <1>1 DEF ByAsio, Listen, RunReturns, HandlerNotify, Handlers, OnOpen, CloseFrame,
     OnClose, OnMessage
<1>2. CASE BySvc(Service \/ HandleUpdate \/ WakeUp)
  BY <1>2 DEF BySvc, Service, Start, Lock, Wait, Leave, WakeUp, Sent, Pop, HandleSubscribe,
     HandleUnsubscribe, HandleInitialize, HandleGone, HandleUpdate, Handle
<1>3. CASE ByApp(Bind \/ Unbind \/ CallUpdate \/ Destroy \/ Continue \/ EndRun)
  BY <1>3 DEF ByApp, Bind, Unbind, CallUpdate, Destroy, Stop, Continue, Unlist, BeginUpdate,
     EndUpdate, JoinAsio, NotifyEnd, JoinSvc, EndRun
<1>4. CASE BySend(Sending("app") \/ Sending("svc"))
  BY <1>4 DEF BySend, Sending, Send, Throw
<1>5. CASE RaceOnList
  BY <1>5 DEF RaceOnList
<1> QED
  BY <1>1, <1>2, <1>3, <1>4, <1>5 DEF Next

\* A handler queues an action of a connection.
LEMMA PushKeeps ==
    ASSUME Queued, pc \in [{"app", "asio", "svc"} -> Labels], NEW c \in Conns,
           NEW type \in {"SUBSCRIBE", "UNSUBSCRIBE", "INITIALIZE", "UPDATE"},
           Push(type, c), UNCHANGED inHand
    PROVE  Queued'
<1>1. [type |-> type, hdl |-> c] \in Action
  BY DEF Action
<1>2. actions' \in Seq(Action)
  BY <1>1 DEF Push, Queued
<1>3. pc'["svc"] = pc["svc"]
  BY DEF Push, Goto
<1> QED
  BY <1>2, <1>3 DEF Queued

\* Steps that leave the queue alone.
LEMMA QueuedKeeps ==
    ASSUME Queued, UNCHANGED <<actions, inHand>>, pc'["svc"] = "handle" <=> pc["svc"] = "handle"
    PROVE  Queued'
BY DEF Queued

\* What is queued.
LEMMA QueuedNext ==
    ASSUME Queued, pc \in [{"app", "asio", "svc"} -> Labels], Next
    PROVE  Queued'
<1>1. CASE ByAsio(Listen \/ RunReturns \/ HandlerNotify \/ Handlers)
  <2>1. CASE Listen \/ RunReturns \/ HandlerNotify \/ \E c \in Conns : CloseFrame(c)
    <3>1. /\ UNCHANGED <<actions, inHand>>
          /\ pc'["svc"] = "handle" <=> pc["svc"] = "handle"
      BY <1>1, <2>1 DEF ByAsio, Listen, RunReturns, HandlerNotify, Notified, CloseFrame, Goto
    <3> QED
      BY <3>1, QueuedKeeps
  <2>2. ASSUME NEW c \in Conns, OnOpen(c) \/ OnClose(c)
        PROVE  Queued'
    BY <1>1, <2>2, PushKeeps DEF ByAsio, OnOpen, OnClose
  <2>3. ASSUME NEW c \in Conns, NEW packet \in {"INITIALIZE", "UPDATE"}, OnMessage(c, packet)
        PROVE  Queued'
    BY <1>1, <2>3, PushKeeps DEF ByAsio, OnMessage
  <2> QED
    BY <1>1, <2>1, <2>2, <2>3 DEF ByAsio, Handlers
<1>2. CASE BySvc(Service \/ HandleUpdate \/ WakeUp)
  <2>1. CASE Start \/ Lock \/ Wait \/ Leave \/ WakeUp \/ Sent
    <3>1. /\ UNCHANGED <<actions, inHand>>
          /\ pc'["svc"] = "handle" <=> pc["svc"] = "handle"
      BY <2>1 DEF Start, Lock, Wait, Leave, WakeUp, Sent, Goto
    <3> QED
      BY <3>1, QueuedKeeps
  <2>2. CASE Pop
    <3>1. actions \in Seq(Action) /\ actions # <<>>
      BY <2>2 DEF Pop, Queued
    <3>2. Head(actions) \in Action /\ Tail(actions) \in Seq(Action)
      BY <3>1
    <3>3. pc'["svc"] = "handle"
      BY <2>2 DEF Pop, Goto
    <3> QED
      BY <2>2, <3>2, <3>3 DEF Pop, Queued
  <2>3. CASE \/ HandleSubscribe \/ HandleUnsubscribe \/ HandleInitialize
             \/ HandleGone \/ HandleUpdate
    <3>1. /\ pc'["svc"] \in {"lock", "sending"} /\ inHand' = NoAction
          /\ UNCHANGED actions
      BY <2>3 DEF HandleSubscribe, HandleUnsubscribe, HandleInitialize, HandleGone,
         HandleUpdate, Handle, Goto
    <3> QED
      BY <3>1 DEF Queued, NoAction
  <2> QED
    BY <1>2, <2>1, <2>2, <2>3 DEF BySvc, Service
<1>3. CASE ByApp(Bind \/ Unbind \/ CallUpdate \/ Destroy \/ Continue \/ EndRun)
  <2>1. /\ UNCHANGED <<actions, inHand>>
        /\ pc'["svc"] = "handle" <=> pc["svc"] = "handle"
    BY <1>3 DEF ByApp, Bind, Unbind, CallUpdate, Destroy, Stop, Continue, Unlist, BeginUpdate,
       EndUpdate, JoinAsio, NotifyEnd, Notified, JoinSvc, EndRun, Goto
  <2> QED
    BY <2>1, QueuedKeeps
<1>4. CASE BySend(Sending("app") \/ Sending("svc")) \/ RaceOnList
  <2>1. /\ UNCHANGED <<actions, inHand>>
        /\ pc'["svc"] = "handle" <=> pc["svc"] = "handle"
    BY <1>4 DEF BySend, Sending, Send, Throw, Goto, RaceOnList
  <2> QED
    BY <2>1, QueuedKeeps
<1> QED
  BY <1>1, <1>2, <1>3, <1>4 DEF Next

\* What is known of the connections.
LEMMA PeersKeep ==
    ASSUME Peers, Queued, Next
    PROVE  Peers'
<1> USE DEF Peers, peers, lists
<1>1. CASE ByAsio(Listen \/ RunReturns \/ HandlerNotify \/ Handlers)
  <2>1. UNCHANGED <<connections, toSend>>
    BY <1>1 DEF ByAsio
  <2>2. CASE Listen \/ RunReturns \/ HandlerNotify
    BY <2>1, <2>2 DEF Listen, RunReturns, HandlerNotify
  <2>3. ASSUME NEW c \in Conns, OnOpen(c) \/ CloseFrame(c) \/ OnClose(c)
        PROVE  Peers'
    BY <2>1, <2>3 DEF OnOpen, CloseFrame, OnClose
  <2>4. ASSUME NEW c \in Conns, NEW packet \in {"INITIALIZE", "UPDATE"}, OnMessage(c, packet)
        PROVE  Peers'
    BY <2>1, <2>4, MaxMsgsNat DEF OnMessage
  <2> QED
    BY <1>1, <2>2, <2>3, <2>4 DEF ByAsio, Handlers
<1>2. CASE BySvc(Service \/ HandleUpdate \/ WakeUp)
  <2>1. UNCHANGED <<conn, sent>>
    BY <1>2 DEF BySvc
  <2>2. CASE Start \/ Lock \/ Wait \/ Leave \/ WakeUp \/ Sent \/ Pop
    BY <2>1, <2>2 DEF Start, Lock, Wait, Leave, WakeUp, Sent, Pop
  <2>3. CASE \/ HandleSubscribe \/ HandleUnsubscribe \/ HandleInitialize
             \/ HandleGone \/ HandleUpdate
    <3>1. inHand \in Action
      BY <2>3 DEF HandleSubscribe, HandleUnsubscribe, HandleInitialize, HandleGone,
         HandleUpdate, Handle, Queued
    <3>2. inHand.hdl \in Conns
      BY <3>1 DEF Action
    <3> QED
      BY <2>1, <2>3, <3>2 DEF HandleSubscribe, HandleUnsubscribe, HandleInitialize,
         HandleGone, HandleUpdate, Handle, WillSend
  <2> QED
    BY <1>2, <2>2, <2>3 DEF BySvc, Service
<1>3. CASE ByApp(Bind \/ Unbind \/ CallUpdate \/ Destroy \/ Continue \/ EndRun)
  BY <1>3 DEF ByApp, Bind, Unbind, CallUpdate, Destroy, Stop, Continue, Unlist, BeginUpdate,
     EndUpdate, JoinAsio, NotifyEnd, JoinSvc, EndRun, WillSend
<1>4. CASE BySend(Sending("app") \/ Sending("svc"))
  BY <1>4 DEF BySend, Sending, Send, Throw
<1>5. CASE RaceOnList
  BY <1>5 DEF RaceOnList
<1> QED
  BY <1>1, <1>2, <1>3, <1>4, <1>5 DEF Next

\* Every step keeps the shape.
LEMMA ShapeStep == Shape /\ [Next]_vars => Shape'
<1> SUFFICES ASSUME Shape, [Next]_vars
             PROVE  Shape'
  OBVIOUS
<1>1. CASE Next
  BY <1>1, PlacesKeep, QueuedNext, PeersKeep, FlagsKeep DEF Shape, TypeOK
<1>2. CASE UNCHANGED vars
  BY <1>2 DEF vars, peers, lists, Shape, TypeOK, Places, Queued, Peers, Flags
<1> QED
  BY <1>1, <1>2

\* The transporter's variables keep their shape.
THEOREM TransportTypes == Spec => []TypeOK
<1>1. Shape => TypeOK
  BY DEF Shape
<1> QED
  BY <1>1, ShapeInit, ShapeStep, PTL DEF Spec

-----------------------------------------------------------------------------
(* The queue and the list, while the server was not stopped. *)

QueueInv ==
    /\ \A c \in Conns : Listed(Todo, connections, c) <=> conn[c] \in {"open", "closing"}
    /\ Ordered(Todo, connections)
    /\ \A i \in 1..Len(Todo) :
           Todo[i].type = "UNSUBSCRIBE" => conn[Todo[i].hdl] = "closed"

\* unbind clears the list only after it stopped the server.
ListInv ==
    /\ Shape
    /\ pc["app"] \in {"unlist", "unlist for good"} => stopped
    /\ ~stopped => QueueInv

\* What there is to do are actions of connections.
LEMMA TodoType == ASSUME TypeOK PROVE Todo \in Seq(Action)
BY ConcatProperties DEF TypeOK, Queued, Todo

\* At the start the queue and the list are empty.
LEMMA ListInit == Init => ListInv
<1> SUFFICES ASSUME Init
             PROVE  ListInv
  OBVIOUS
<1>1. Todo = <<>> /\ connections = {} /\ \A c \in Conns : conn[c] = "new"
  BY DEF Init, Todo
<1>2. QueueInv
  BY <1>1 DEF QueueInv, Listed, Edits, Ordered
<1> QED
  BY <1>2, ShapeInit DEF ListInv, Init

\* A step that leaves the queue and the list alone.
LEMMA Untouched ==
    ASSUME ListInv, Shape', stopped => stopped', ~stopped' => connections' = connections,
           UNCHANGED <<actions, inHand, conn>>,
           pc'["svc"] = "handle" <=> pc["svc"] = "handle",
           pc'["app"] \in {"unlist", "unlist for good"} => stopped'
    PROVE  ListInv'
<1>1. Todo' = Todo
  BY DEF Todo
<1> QED
  BY <1>1 DEF ListInv, QueueInv

\* A handler appends what it says of c.
LEMMA Pushed ==
    ASSUME Shape, NEW type, NEW c, Push(type, c), UNCHANGED inHand
    PROVE  /\ Todo' = Append(Todo, [type |-> type, hdl |-> c])
           /\ pc'["app"] = pc["app"]
<1>1. pc'["svc"] = pc["svc"] /\ pc'["app"] = pc["app"]
  BY DEF Push, Goto, Shape
<1>2. actions' = Append(actions, [type |-> type, hdl |-> c])
  BY DEF Push
<1>3. CASE pc["svc"] = "handle"
  <2>1. inHand \in Action /\ actions \in Seq(Action)
    BY <1>3 DEF Shape, TypeOK, Queued
  <2> QED
    BY <1>1, <1>2, <1>3, <2>1 DEF Todo
<1>4. CASE pc["svc"] # "handle"
  BY <1>1, <1>2, <1>4 DEF Todo
<1> QED
  BY <1>1, <1>3, <1>4

\* The service thread carries out the first action of the queue.
LEMMA Handled ==
    ASSUME ListInv, Shape', pc["svc"] = "handle", pc'["svc"] # "handle",
           UNCHANGED <<actions, conn, stopped>>, pc'["app"] = pc["app"],
           connections' = Applied(inHand, connections)
    PROVE  ListInv'
<1>1. /\ Todo \in Seq(Action) /\ Todo # <<>> /\ Head(Todo) = inHand
      /\ Todo' = Tail(Todo) /\ connections \in SUBSET Conns
  <2>1. inHand \in Action /\ actions \in Seq(Action) /\ Todo = <<inHand>> \o actions
    BY DEF ListInv, Shape, TypeOK, Queued, Todo
  <2>2. Todo' = actions
    BY DEF Todo
  <2>3. Todo # <<>> /\ Head(Todo) = inHand /\ Tail(Todo) = actions
    BY <2>1
  <2>4. Todo \in Seq(Action)
    BY <2>1
  <2> QED
    BY <2>2, <2>3, <2>4 DEF ListInv, Shape, TypeOK, Peers
<1>2. ASSUME QueueInv
      PROVE  QueueInv'
  <2>1. \A c \in Conns : Listed(Todo', connections', c) <=> Listed(Todo, connections, c)
    BY <1>1, ListedTail
  <2>2. Ordered(Todo', connections')
    BY <1>1, <1>2, OrderedTail DEF QueueInv
  <2>3. \A i \in 1..Len(Todo') : i + 1 \in 1..Len(Todo) /\ Todo'[i] = Todo[i + 1]
    BY <1>1
  <2> QED
    BY <1>2, <2>1, <2>2, <2>3 DEF QueueInv
<1> QED
  BY <1>2 DEF ListInv

\* What a handler says of a connection is true of it.
LEMMA QueueGrows ==
    ASSUME ListInv, ~stopped, NEW a \in Action, Todo' = Append(Todo, a),
           UNCHANGED connections,
           conn[a.hdl] # "closed", conn'[a.hdl] # "closed" \/ a.type = "UNSUBSCRIBE",
           a.type = "UNSUBSCRIBE" => conn'[a.hdl] = "closed",
           a.type = "SUBSCRIBE" => conn'[a.hdl] = "open",
           a.type \in Asked => conn[a.hdl] = "open" /\ conn'[a.hdl] = "open",
           \A c \in Conns : c # a.hdl => conn'[c] = conn[c]
    PROVE  QueueInv'
<1>1. Todo \in Seq(Action) /\ QueueInv /\ connections \in SUBSET Conns /\ a.hdl \in Conns
  BY TodoType DEF ListInv, Shape, TypeOK, Peers, Action
<1>2. a.type \in {"SUBSCRIBE", "UNSUBSCRIBE"} \cup Asked
  BY DEF Action, Asked
<1>3. \A c \in Conns : Listed(Todo', connections', c) <=> conn'[c] \in {"open", "closing"}
  <2> SUFFICES ASSUME NEW c \in Conns
               PROVE  Listed(Todo', connections', c) <=> conn'[c] \in {"open", "closing"}
    OBVIOUS
  <2>1. Listed(Todo', connections', c) <=>
            IF a.hdl = c /\ a.type \notin Asked THEN a.type = "SUBSCRIBE"
            ELSE Listed(Todo, connections, c)
    BY <1>1, ListedAppend
  <2>2. Listed(Todo, connections, c) <=> conn[c] \in {"open", "closing"}
    BY <1>1 DEF QueueInv
  <2> QED
    BY <1>2, <2>1, <2>2 DEF Asked
<1>4. Ordered(Todo', connections')
  <2>1. \A i \in 1..Len(Todo) : Todo[i].type = "UNSUBSCRIBE" => Todo[i].hdl # a.hdl
    BY <1>1 DEF QueueInv
  <2>2. a.type \in Asked => Listed(Todo, connections, a.hdl)
    BY <1>1 DEF QueueInv
  <2>3. Ordered(Todo, connections)
    BY <1>1 DEF QueueInv
  <2> QED
    BY <1>1, <2>1, <2>2, <2>3, OrderedAppend
<1>5. \A i \in 1..Len(Todo') : Todo'[i].type = "UNSUBSCRIBE" => conn'[Todo'[i].hdl] = "closed"
  <2> SUFFICES ASSUME NEW i \in 1..Len(Todo'), Todo'[i].type = "UNSUBSCRIBE"
               PROVE  conn'[Todo'[i].hdl] = "closed"
    OBVIOUS
  <2>1. CASE i = Len(Todo) + 1
    BY <1>1, <2>1
  <2>2. CASE i # Len(Todo) + 1
    <3>1. i \in 1..Len(Todo) /\ Todo'[i] = Todo[i] /\ Todo[i] \in Action
      BY <1>1, <2>2
    <3>2. Todo[i].hdl \in Conns /\ conn[Todo[i].hdl] = "closed"
      BY <1>1, <3>1 DEF QueueInv, Action
    <3> QED
      BY <3>1, <3>2
  <2> QED
    BY <2>1, <2>2
<1> QED
  BY <1>3, <1>4, <1>5 DEF QueueInv

\* The handlers push what is true of the connection.
LEMMA ListAsio ==
    ASSUME ListInv, Shape', ByAsio(Listen \/ RunReturns \/ HandlerNotify \/ Handlers)
    PROVE  ListInv'
<1>1. UNCHANGED <<inHand, connections, stopped>>
  BY DEF ByAsio, lists
<1>2. CASE Listen \/ RunReturns \/ HandlerNotify
  <2>1. UNCHANGED <<actions, conn>>
    BY <1>2 DEF Listen, RunReturns, HandlerNotify, peers
  <2>2. pc'["app"] = pc["app"] /\ (pc'["svc"] = "handle" <=> pc["svc"] = "handle")
    BY <1>2 DEF Listen, RunReturns, HandlerNotify, Notified, Goto, ListInv, Shape
  <2> QED
    BY <1>1, <2>1, <2>2, Untouched DEF ListInv
<1>3. ASSUME NEW c \in Conns, NEW type \in {"SUBSCRIBE", "UNSUBSCRIBE", "INITIALIZE", "UPDATE"},
             Push(type, c), ~stopped, conn[c] # "closed",
             \A d \in Conns : d # c => conn'[d] = conn[d],
             conn'[c] = "closed" <=> type = "UNSUBSCRIBE",
             type = "SUBSCRIBE" => conn'[c] = "open",
             type \in Asked => conn[c] = "open" /\ conn'[c] = "open"
      PROVE  ListInv'
  <2> DEFINE a == [type |-> type, hdl |-> c]
  <2>1. a \in Action /\ a.type = type /\ a.hdl = c
    BY DEF Action
  <2>2. Todo' = Append(Todo, a) /\ pc'["app"] = pc["app"]
    BY <1>1, <1>3, Pushed DEF ListInv
  <2> HIDE DEF a
  <2>3. QueueInv'
    BY <1>1, <1>3, <2>1, <2>2, QueueGrows
  <2> QED
    BY <1>1, <2>2, <2>3 DEF ListInv
<1>4. CASE Handlers
  <2>1. ~stopped /\ conn \in [Conns -> {"new", "open", "closing", "closed"}]
    BY <1>4 DEF Handlers, ListInv, Shape, TypeOK, Peers
  <2>2. ASSUME NEW c \in Conns, OnOpen(c)
        PROVE  ListInv'
    BY <1>3, <2>1, <2>2 DEF OnOpen, Asked
  <2>3. ASSUME NEW c \in Conns, OnClose(c)
        PROVE  ListInv'
    BY <1>3, <2>1, <2>3 DEF OnClose, Asked
  <2>4. ASSUME NEW c \in Conns, NEW packet \in {"INITIALIZE", "UPDATE"}, OnMessage(c, packet)
        PROVE  ListInv'
    BY <1>3, <2>1, <2>4 DEF OnMessage, Asked
  <2>5. ASSUME NEW c \in Conns, CloseFrame(c)
        PROVE  ListInv'
    <3>1. Todo' = Todo /\ pc' = pc
      BY <1>1, <2>5 DEF CloseFrame, Todo
    <3>2. /\ conn[c] = "open" /\ conn'[c] = "closing"
          /\ \A d \in Conns : d # c => conn'[d] = conn[d]
      BY <2>1, <2>5 DEF CloseFrame
    <3>3. \A i \in 1..Len(Todo) : Todo[i].hdl \in Conns
      <4>1. Todo \in Seq(Action)
        BY TodoType DEF ListInv, Shape
      <4>2. \A i \in 1..Len(Todo) : Todo[i] \in Action
        BY <4>1
      <4> QED
        BY <4>2 DEF Action
    <3>4. QueueInv
      BY <2>1 DEF ListInv
    <3>5. QueueInv'
      BY <1>1, <3>1, <3>2, <3>3, <3>4 DEF QueueInv
    <3> QED
      BY <1>1, <3>1, <3>5 DEF ListInv
  <2> QED
    BY <1>4, <2>2, <2>3, <2>4, <2>5 DEF Handlers
<1> QED
  BY <1>2, <1>4 DEF ByAsio

\* The service thread pops and carries out.
LEMMA ListSvc ==
    ASSUME ListInv, Shape', BySvc(Service \/ HandleUpdate \/ WakeUp)
    PROVE  ListInv'
<1>1. UNCHANGED <<conn, stopped>>
  BY DEF BySvc, peers
<1>2. CASE Start \/ Lock \/ Wait \/ Leave \/ WakeUp \/ Sent
  <2>1. UNCHANGED <<actions, inHand, connections>>
    BY <1>2 DEF Start, Lock, Wait, Leave, WakeUp, Sent, lists
  <2>2. pc'["app"] = pc["app"] /\ (pc'["svc"] = "handle" <=> pc["svc"] = "handle")
    BY <1>2 DEF Start, Lock, Wait, Leave, WakeUp, Sent, Goto, ListInv, Shape
  <2> QED
    BY <1>1, <2>1, <2>2, Untouched DEF ListInv
<1>3. CASE Pop
  <2>1. /\ pc["svc"] # "handle" /\ pc'["svc"] = "handle" /\ pc'["app"] = pc["app"]
        /\ actions # <<>> /\ inHand' = Head(actions) /\ actions' = Tail(actions)
        /\ connections' = connections
    BY <1>3 DEF Pop, Goto, lists, ListInv, Shape
  <2>2. Todo' = Todo
    <3>1. actions \in Seq(Action)
      BY DEF ListInv, Shape, TypeOK, Queued
    <3>2. <<Head(actions)>> \o Tail(actions) = actions
      BY <2>1, <3>1
    <3> QED
      BY <2>1, <3>2 DEF Todo
  <2> QED
    BY <1>1, <2>1, <2>2 DEF ListInv, QueueInv
<1>4. CASE HandleSubscribe \/ HandleUnsubscribe \/ HandleInitialize \/ HandleGone \/ HandleUpdate
  <2>1. /\ pc["svc"] = "handle" /\ pc'["svc"] # "handle" /\ pc'["app"] = pc["app"]
        /\ actions' = actions
    BY <1>4 DEF HandleSubscribe, HandleUnsubscribe, HandleInitialize, HandleGone,
         HandleUpdate, Handle, Goto, ListInv, Shape
  <2>2. connections' = Applied(inHand, connections)
    BY <1>4 DEF HandleSubscribe, HandleUnsubscribe, HandleInitialize, HandleGone,
         HandleUpdate, Handle, Applied, lists
  <2> QED
    BY <1>1, <2>1, <2>2, Handled
<1> QED
  BY <1>2, <1>3, <1>4 DEF BySvc, Service

\* The application clears the list of a stopped server only.
LEMMA ListApp ==
    ASSUME ListInv, Shape',
           ByApp(Bind \/ Unbind \/ CallUpdate \/ Destroy \/ Continue \/ EndRun)
    PROVE  ListInv'
<1>1. UNCHANGED <<actions, inHand, conn>>
  BY DEF ByApp, peers
<1>2. CASE Unlist
  <2>1. /\ pc["app"] \in {"unlist", "unlist for good"} /\ stopped' = stopped
        /\ pc'["app"] \in {"idle", "join asio"} /\ pc'["svc"] = pc["svc"]
    BY <1>2 DEF Unlist, Goto, ListInv, Shape
  <2> QED
    BY <1>1, <2>1, Untouched DEF ListInv
<1>3. CASE Unbind \/ Destroy
  <2>1. /\ connections' = connections /\ pc'["svc"] = pc["svc"]
        /\ stopped => stopped'
    BY <1>3 DEF Unbind, Destroy, Stop, Goto, lists, ListInv, Shape
  <2>2. pc'["app"] \in {"unlist", "unlist for good"} => listening /\ stopped'
    BY <1>3 DEF Unbind, Destroy, Stop, Goto, ListInv, Shape
  <2> QED
    BY <1>1, <2>1, <2>2, Untouched
<1>4. CASE Bind \/ CallUpdate \/ BeginUpdate \/ EndUpdate \/ JoinAsio \/ NotifyEnd \/ JoinSvc
           \/ EndRun
  <2>1. /\ UNCHANGED <<connections, stopped>>
        /\ pc'["svc"] = "handle" <=> pc["svc"] = "handle"
        /\ pc'["app"] \in {"unlist", "unlist for good"} => pc'["app"] = pc["app"]
    BY <1>4 DEF Bind, CallUpdate, BeginUpdate, EndUpdate, JoinAsio, NotifyEnd, Notified,
       JoinSvc, EndRun, WillSend, Goto, lists, ListInv, Shape
  <2> QED
    BY <1>1, <2>1, Untouched DEF ListInv
<1> QED
  BY <1>2, <1>3, <1>4 DEF ByApp, Continue

\* Every step keeps the invariant.
LEMMA ListStep == ListInv /\ [Next]_vars => ListInv'
<1> SUFFICES ASSUME ListInv, [Next]_vars
             PROVE  ListInv'
  OBVIOUS
<1>1. Shape'
  BY ShapeStep DEF ListInv
<1>2. CASE RaceOnList \/ UNCHANGED vars
  <2>1. UNCHANGED <<pc, actions, inHand, conn, connections, stopped>>
    BY <1>2 DEF RaceOnList, vars, peers, lists
  <2> QED
    BY <1>1, <2>1, Untouched DEF ListInv
<1>3. ASSUME NEW t \in {"app", "svc"}, BySend(Sending(t))
      PROVE  ListInv'
  <2>1. UNCHANGED <<actions, inHand, conn, stopped, connections>>
    BY <1>3 DEF BySend, Sending, Send, Throw, peers
  <2>2. /\ pc'["svc"] = "handle" <=> pc["svc"] = "handle"
        /\ pc'["app"] \in {"unlist", "unlist for good"} => pc["app"] = pc'["app"]
    BY <1>3 DEF BySend, Sending, Send, Throw, Goto, ListInv, Shape
  <2> QED
    BY <1>1, <2>1, <2>2, Untouched DEF ListInv
<1> QED
  BY <1>1, <1>2, <1>3, ListAsio, ListSvc, ListApp DEF Next, BySend

\* For any number of connections, opened and closed in any order while the
\* service thread works: the queue makes the list the connections not closed.
THEOREM ListFollows == Spec => []ListFollowsConnections
<1>1. ListInv => ListFollowsConnections
  BY DEF ListInv, QueueInv, ListFollowsConnections
<1> QED
  BY <1>1, ListInit, ListStep, PTL DEF Spec

\* The answer to a client's message finds the client in the list.
THEOREM SenderListed == Spec => []SenderIsListed
<1>1. ASSUME ListInv, ~stopped, pc["svc"] = "handle", inHand.type \in {"INITIALIZE", "UPDATE"}
      PROVE  inHand.hdl \in connections
  <2>1. inHand \in Action /\ actions \in Seq(Action) /\ Todo = <<inHand>> \o actions
    BY <1>1 DEF ListInv, Shape, TypeOK, Queued, Todo
  <2>2. Len(Todo) \in Nat \ {0} /\ Todo[1] = inHand
    BY <2>1
  <2>3. Ordered(Todo, connections)
    BY <1>1 DEF ListInv, QueueInv
  <2> QED
    BY <1>1, <2>2, <2>3 DEF Ordered, Asked
<1>2. ListInv => SenderIsListed
  BY <1>1 DEF SenderIsListed
<1> QED
  BY <1>2, ListInit, ListStep, PTL DEF Spec
=============================================================================
