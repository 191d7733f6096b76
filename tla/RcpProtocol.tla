----------------------------- MODULE RcpProtocol -----------------------------
(***************************************************************************)
(* The conversation of a ParameterServer with its ParameterClients: what   *)
(* the registry of the server, the caches of the clients and the packets   *)
(* under way have to do with each other.  A websocket keeps the order of   *)
(* what is sent and loses it only with the connection.                     *)
(*                                                                         *)
(* A parameter is its label, its group, its value, and the set of those a  *)
(* *Changed flag is set for.  A cached parameter that is updated with      *)
(* something new sets its flag like one that the application sets, so the  *)
(* next update() of that client sends the news back.                       *)
(*                                                                         *)
(* A handler, and a call of the application, is one step here; modules     *)
(* ParameterManager and ChangeTracking break them up.  INFO packets only   *)
(* print and are left out.                                                 *)
(***************************************************************************)
EXTENDS Naturals, Sequences, FiniteSets

CONSTANTS
    Clients,
    MaxId,          \* the highest id getNextId hands out
    Vals,           \* the values of a parameter
    Default,        \* the one it has before it is set
    None,           \* no such parameter; a packet without a value
    MaxOps,         \* how often applications do something, a bound for TLC
    MaxQueue,       \* how many packets a connection holds, a bound for TLC
    StepByStep      \* the server's application calls update() between two
                    \* calls that create, move or remove

Id == 1..MaxId

\* A parameter, and the fields of it with a change to send.
Fields == {"label", "par", "val"}
Parameter == [group : BOOLEAN, label : BOOLEAN, par : Id \cup {0}, val : Vals,
              chg : SUBSET Fields]

ASSUME Values == Default \in Vals /\ None \notin Vals \cup Parameter
ASSUME Bounds == {MaxId, MaxOps, MaxQueue} \subseteq Nat
ASSUME StepByStepFlag == StepByStep \in BOOLEAN

VARIABLES
    params,     \* the server: id -> parameter
    dirty,      \* the ids with an update to send
    removed,    \* the ids with a remove to send
    on,         \* the clients that are connected
    cache,      \* client -> id -> parameter
    gone,       \* client -> id -> removed parameter on its dirty list
    toServer,   \* client -> packets under way
    toClient,   \* client -> packets under way
    ops,        \* how often an application did something
    own,        \* client -> the ids its application set and did not send
    astray,     \* client -> the ids whose last group it did not know
    early,      \* client -> packets under way that _init was not yet done for
    lost,       \* client -> the ids it lost with the group it had them in
    spoilt      \* the ids for which a packet went wrong, see Spoils

server == <<params, dirty, removed>>
client == <<cache, gone, own, astray, early, lost>>
net    == <<toServer, toClient>>
vars   == <<server, on, client, net, ops, spoilt>>

-----------------------------------------------------------------------------
(* Packets *)

Packet(cmd, i, isGroup, lab, v, p) ==
    [cmd |-> cmd, id |-> i, group |-> isGroup, label |-> lab, val |-> v, par |-> p]

INITIALIZE == Packet("INITIALIZE", 0, FALSE, FALSE, None, 0)
REMOVE(i)  == Packet("REMOVE", i, FALSE, FALSE, None, 0)

\* UPDATE, or UPDATEVALUE when F is {"val"}: the fields F of parameter r.
UPDATE(i, r, F) ==
    Packet("UPDATE", i, r.group, "label" \in F /\ r.label,
           IF "val" \in F THEN r.val ELSE None,
           IF "par" \in F THEN r.par ELSE 0)

\* What may be under way, to a client and from it.
Updates == [cmd : {"UPDATE"}, id : Id, group : BOOLEAN, label : BOOLEAN,
            val : Vals \cup {None}, par : Id \cup {0}]
FromServers == Updates \cup {REMOVE(i) : i \in Id}
FromClients == Updates \cup {INITIALIZE}

\* The packets s[i] of every id i: a map is walked in the order of its keys.
InOrder(s) ==
    LET upTo[n \in 0..MaxId] == IF n = 0 THEN <<>> ELSE upTo[n - 1] \o s[n]
    IN  upTo[MaxId]

-----------------------------------------------------------------------------
(* A manager's parameters, on either side *)

Sent(r) == [r EXCEPT !.chg = {}]

IsGroup(m, g) == g # 0 /\ m[g] # None /\ m[g].group

\* mutant: a parent is only taken if the parameter has none
Assign_KeepsParent(m, r, p) ==
    LET news == (IF p.label /\ ~r.label THEN {"label"} ELSE {})
                \cup (IF p.val # None /\ r.group = p.group /\ p.val # r.val THEN {"val"} ELSE {})
                \cup (IF IsGroup(m, p.par) /\ r.par = 0 THEN {"par"} ELSE {})
    IN  [r EXCEPT !.label = @ \/ p.label,
                  !.val = IF "val" \in news THEN p.val ELSE @,
                  !.par = IF "par" \in news THEN p.par ELSE @,
                  !.chg = @ \cup news]

\* Parameter::update: parameter r after packet p, parsed among the parameters
\* m.  A parent that is not known as a group, or is the root, is no parent.  A
\* value of another type is not taken.
Assign(m, r, p) ==
    LET news == (IF p.label /\ ~r.label THEN {"label"} ELSE {})
                \cup (IF p.val # None /\ r.group = p.group /\ p.val # r.val THEN {"val"} ELSE {})
                \cup (IF IsGroup(m, p.par) /\ p.par # r.par THEN {"par"} ELSE {})
    IN  [r EXCEPT !.label = @ \/ p.label,
                  !.val = IF "val" \in news THEN p.val ELSE @,
                  !.par = IF "par" \in news THEN p.par ELSE @,
                  !.chg = @ \cup news]

\* i and what is below it.
Below(m, i) ==
    {j \in Id : \A S \in SUBSET (Id \cup {0}) :
        i \in S /\ (\A k \in Id : m[k] # None /\ m[k].par \in S => k \in S) => j \in S}

-----------------------------------------------------------------------------
(* What the server sends *)

\* ParameterServer::update: removes, then the changes of what is dirty.
FlushPackets(m, d) ==
    InOrder([i \in Id |-> IF i \in removed THEN <<REMOVE(i)>> ELSE <<>>]) \o
    InOrder([i \in Id |-> IF i \in d THEN <<UPDATE(i, m[i], m[i].chg)>> ELSE <<>>])

\* Only the value is pending: ValueParameter::write takes the short form, whatever the command.
Short(i) == params[i].chg = {"val"}

\* mutant: the members of a group before the group
InitPackets_MembersFirst ==
    LET walk[V \in SUBSET Id] == [g \in Id \cup {0} |-> InOrder([i \in Id |->
            IF i \in V /\ params[i] # None /\ params[i].par = g
            THEN Append(walk[V \ {i}][i], UPDATE(i, params[i], IF Short(i) THEN {} ELSE Fields))
            ELSE <<>>])]
    IN  walk[Id][0]

\* _init: the tree below the root, a group before its members, every field of
\* it.  A client takes nothing from the short form.  walk[V][g]: the members of
\* g and what is below them, of V: what is not above g.
InitPackets ==
    LET walk[V \in SUBSET Id] == [g \in Id \cup {0} |-> InOrder([i \in Id |->
            IF i \in V /\ params[i] # None /\ params[i].par = g
            THEN <<UPDATE(i, params[i], IF Short(i) THEN {} ELSE Fields)>> \o walk[V \ {i}][i]
            ELSE <<>>])]
    IN  walk[Id][0]

\* Every connected client gets out[c].
Deliver(out) ==
    /\ toClient' = [c \in Clients |-> IF c \in on THEN toClient[c] \o out[c] ELSE <<>>]
    /\ \A c \in Clients : Len(toClient'[c]) <= MaxQueue

Init ==
    /\ params = [i \in Id |-> None]
    /\ dirty = {}
    /\ removed = {}
    /\ on = {}
    /\ cache = [c \in Clients |-> [i \in Id |-> None]]
    /\ gone = [c \in Clients |-> [i \in Id |-> None]]
    /\ toServer = [c \in Clients |-> <<>>]
    /\ toClient = [c \in Clients |-> <<>>]
    /\ ops = 0
    /\ own = [c \in Clients |-> {}]
    /\ astray = [c \in Clients |-> {}]
    /\ early = [c \in Clients |-> 0]
    /\ lost = [c \in Clients |-> {}]
    /\ spoilt = {}

Operation == ops < MaxOps /\ ops' = ops + 1

-----------------------------------------------------------------------------
(* The server's application *)

MayRestructure ==
    StepByStep => removed = {} /\ \A i \in dirty : params[i].chg \subseteq {"val"}

\* create*Parameter or createGroupParameter in group p, and setValue.
Create(p, isGroup, v) ==
    /\ Operation
    /\ MayRestructure
    /\ p = 0 \/ IsGroup(params, p)
    /\ isGroup => v = Default
    /\ \E i \in Id :
        /\ params[i] = None /\ \A j \in 1..(i - 1) : params[j] # None
        /\ i \notin removed
        /\ params' = [params EXCEPT ![i] =
                [group |-> isGroup, label |-> TRUE, par |-> p, val |-> v,
                 chg |-> {"label", "par"} \cup IF v = Default THEN {} ELSE {"val"}]]
        /\ dirty' = dirty \cup {i}
    /\ UNCHANGED <<removed, on, client, net, spoilt>>

\* setValue with another value
SetValue(i, v) ==
    /\ Operation
    /\ params[i] # None /\ ~params[i].group /\ params[i].val # v
    /\ params' = [params EXCEPT ![i].val = v, ![i].chg = @ \cup {"val"}]
    /\ dirty' = dirty \cup {i}
    /\ UNCHANGED <<removed, on, client, net, spoilt>>

\* addChild with another group; to the root a client would not follow
Move(i, g) ==
    /\ Operation
    /\ MayRestructure
    /\ params[i] # None /\ ~params[i].group /\ params[i].par # g
    /\ IsGroup(params, g)
    /\ params' = [params EXCEPT ![i].par = g, ![i].chg = @ \cup {"par"}]
    /\ dirty' = dirty \cup {i}
    /\ UNCHANGED <<removed, on, client, net, spoilt>>

\* mutant: the parameter stays on the dirty list
RemoveParameter_StaysDirty(i) ==
    /\ Operation
    /\ MayRestructure
    /\ params[i] # None
    /\ \A j \in Id : params[j] # None => params[j].par # i
    /\ params' = [params EXCEPT ![i] = None]
    /\ removed' = removed \cup {i}
    /\ UNCHANGED <<dirty, on, client, net, spoilt>>

\* removeParameter, for a group only when it is empty
RemoveParameter(i) ==
    /\ Operation
    /\ MayRestructure
    /\ params[i] # None
    /\ \A j \in Id : params[j] # None => params[j].par # i
    /\ params' = [params EXCEPT ![i] = None]
    /\ dirty' = dirty \ {i}
    /\ removed' = removed \cup {i}
    /\ UNCHANGED <<on, client, net, spoilt>>

Update ==
    /\ dirty \cup removed # {}
    /\ Deliver([c \in Clients |-> FlushPackets(params, dirty)])
    /\ params' = [i \in Id |-> IF i \in dirty THEN Sent(params[i]) ELSE params[i]]
    /\ dirty' = {}
    /\ removed' = {}
    /\ UNCHANGED <<on, client, toServer, ops, spoilt>>

-----------------------------------------------------------------------------
(* The server's handler of packets *)

FromClient(c) == c \in on /\ toServer[c] # <<>>

Taken(c) == toServer' = [toServer EXCEPT ![c] = Tail(@)]

\* _init.  Writing the short form resets the flag; what is dirty stays dirty.
ServeInitialize(c) ==
    /\ FromClient(c) /\ Head(toServer[c]).cmd = "INITIALIZE"
    /\ Taken(c)
    /\ Deliver([d \in Clients |-> IF d = c THEN InitPackets ELSE <<>>])
    /\ LET short == {i \in Id : params[i] # None /\ Short(i)}
       IN  /\ params' = [i \in Id |-> IF i \in short THEN Sent(params[i]) ELSE params[i]]
           /\ spoilt' = spoilt \cup short \cup
                   {i \in Id : params[i] # None /\ i \notin Below(params, 0)}
    /\ early' = [early EXCEPT ![c] = Len(toClient[c])]
    /\ UNCHANGED <<dirty, removed, on, cache, gone, own, astray, lost, ops>>

\* The server forwards what it did not take: for a parameter that is gone, for
\* the one that has the id now, into a group that is gone.
Announced(i) == params[i] # None /\ "label" \notin params[i].chg

Spoils(p) ==
    \/ ~Announced(p.id)
    \/ params[p.id].group # p.group
    \/ p.par # 0 /\ ~(IsGroup(params, p.par) /\ Announced(p.par))

\* _update and the forwarding: the packet goes to the other clients as it came,
\* whether the parameter is known or not.  In between the callback of a value
\* may do nothing, call update(), or set the value to something else.
ServeUpdate(c) ==
    LET p   == Head(toServer[c])
        old == params[p.id]
        new == IF old = None THEN None ELSE Assign(params, old, p)
        m   == [params EXCEPT ![p.id] = new]
        d   == IF new = old THEN dirty ELSE dirty \cup {p.id}
        callback == old # None /\ p.val # None /\ "val" \in new.chg
        raw(e)   == IF e = c THEN <<>> ELSE <<p>>
    IN  /\ FromClient(c) /\ p.cmd = "UPDATE"
        /\ Taken(c)
        /\ \/ /\ params' = m /\ dirty' = d
              /\ Deliver([e \in Clients |-> raw(e)])
              /\ UNCHANGED removed
           \/ /\ callback
              /\ params' = [i \in Id |-> IF i \in d THEN Sent(m[i]) ELSE m[i]]
              /\ dirty' = {} /\ removed' = {}
              /\ Deliver([e \in Clients |-> FlushPackets(m, d) \o raw(e)])
           \/ /\ callback
              /\ \E v \in Vals \ {new.val} : params' = [m EXCEPT ![p.id].val = v]
              /\ dirty' = d
              /\ Deliver([e \in Clients |-> raw(e)])
              /\ UNCHANGED removed
        /\ spoilt' = IF Spoils(p) THEN spoilt \cup {p.id} ELSE spoilt
        /\ UNCHANGED <<on, client, ops>>

-----------------------------------------------------------------------------
(* The clients *)

Forget(c) ==
    /\ cache' = [cache EXCEPT ![c] = [i \in Id |-> None]]
    /\ gone' = [gone EXCEPT ![c] = [i \in Id |-> None]]
    /\ own' = [own EXCEPT ![c] = {}]
    /\ astray' = [astray EXCEPT ![c] = {}]
    /\ early' = [early EXCEPT ![c] = 0]
    /\ lost' = [lost EXCEPT ![c] = {}]

\* connected() asks for everything.
Connect(c) ==
    /\ Operation
    /\ c \notin on
    /\ on' = on \cup {c}
    /\ toServer' = [toServer EXCEPT ![c] = <<INITIALIZE>>]
    /\ UNCHANGED <<server, client, toClient, spoilt>>

\* disconnected() clears the manager.
Disconnect(c) ==
    /\ Operation
    /\ c \in on
    /\ on' = on \ {c}
    /\ toServer' = [toServer EXCEPT ![c] = <<>>]
    /\ toClient' = [toClient EXCEPT ![c] = <<>>]
    /\ Forget(c)
    /\ UNCHANGED <<server, spoilt>>

FromServer(c, cmd) == c \in on /\ toClient[c] # <<>> /\ Head(toClient[c]).cmd = cmd

\* A client that was sent everything and took what was sent before that.
Uninitialized(c) == toServer[c] # <<>> /\ Head(toServer[c]).cmd = "INITIALIZE"

TakePacket(c) ==
    /\ toClient' = [toClient EXCEPT ![c] = Tail(@)]
    /\ early' = [early EXCEPT ![c] = IF @ = 0 THEN 0 ELSE @ - 1]

\* _update: a cached parameter is updated, another one is added, clean.
TakeUpdate(c) ==
    /\ FromServer(c, "UPDATE")
    /\ LET p    == Head(toClient[c])
           bare == [group |-> p.group, label |-> FALSE, par |-> 0, val |-> Default, chg |-> {}]
           old  == cache[c][p.id]
           new  == IF old = None THEN Sent(Assign(cache[c], bare, p)) ELSE Assign(cache[c], old, p)
       IN  /\ cache' = [cache EXCEPT ![c][p.id] = new]
           /\ gone' = IF old # None /\ new # old THEN [gone EXCEPT ![c][p.id] = None] ELSE gone
           /\ own' = [own EXCEPT ![c] = IF p.val = None THEN @ ELSE @ \ {p.id}]
           /\ astray' = [astray EXCEPT ![c] = IF p.par = 0 THEN @
                   ELSE IF IsGroup(cache[c], p.par) THEN @ \ {p.id} ELSE @ \cup {p.id}]
    /\ TakePacket(c)
    /\ UNCHANGED <<server, on, toServer, ops, lost, spoilt>>

\* _remove: what is removed leaves the cache, and its group, which is a change
\* to send, but does not leave the dirty list.
TakeRemove(c) ==
    /\ FromServer(c, "REMOVE")
    /\ LET m   == cache[c]
           out == {j \in Below(m, Head(toClient[c]).id) : m[j] # None}
       IN  /\ cache' = [cache EXCEPT ![c] = [j \in Id |-> IF j \in out THEN None ELSE m[j]]]
           /\ gone' = [gone EXCEPT ![c] = [j \in Id |->
                   IF j \notin out THEN @[j]
                   ELSE IF m[j].par # 0 THEN [m[j] EXCEPT !.par = 0, !.chg = @ \cup {"par"}]
                   ELSE IF m[j].chg # {} THEN m[j] ELSE @[j]]]
           /\ own' = [own EXCEPT ![c] = @ \ out]
           /\ astray' = [astray EXCEPT ![c] = @ \ out]
           /\ lost' = [lost EXCEPT ![c] = (IF Uninitialized(c) \/ early[c] # 0 THEN @ ELSE @ \cup out)
                   \ {Head(toClient[c]).id}]
    /\ TakePacket(c)
    /\ UNCHANGED <<server, on, toServer, ops, spoilt>>

\* The client's application: setValue with another value
ClientSet(c, i, v) ==
    /\ Operation
    /\ c \in on
    /\ cache[c][i] # None /\ ~cache[c][i].group /\ cache[c][i].val # v
    /\ cache' = [cache EXCEPT ![c][i].val = v, ![c][i].chg = @ \cup {"val"}]
    /\ gone' = [gone EXCEPT ![c][i] = None]
    /\ own' = [own EXCEPT ![c] = @ \cup {i}]
    /\ UNCHANGED <<server, on, astray, early, lost, net, spoilt>>

\* ParameterClient::update
ClientUpdate(c) ==
    /\ Operation
    /\ c \in on
    /\ LET listed(i) == IF gone[c][i] # None THEN gone[c][i] ELSE cache[c][i]
           due == {i \in Id : listed(i) # None /\ listed(i).chg # {}}
       IN  /\ due # {}
           /\ toServer' = [toServer EXCEPT ![c] =
                   @ \o InOrder([i \in Id |->
                       IF i \in due THEN <<UPDATE(i, listed(i), listed(i).chg)>> ELSE <<>>])]
           /\ Len(toServer'[c]) <= MaxQueue
    /\ cache' = [cache EXCEPT ![c] = [i \in Id |-> IF @[i] = None THEN None ELSE Sent(@[i])]]
    /\ gone' = [gone EXCEPT ![c] = [i \in Id |-> None]]
    /\ own' = [own EXCEPT ![c] = {}]
    /\ UNCHANGED <<server, on, astray, early, lost, toClient, spoilt>>

Next ==
    \/ \E p \in Id \cup {0}, isGroup \in BOOLEAN, v \in Vals : Create(p, isGroup, v)
    \/ \E i \in Id, v \in Vals : SetValue(i, v)
    \/ \E i, g \in Id : Move(i, g)
    \/ \E i \in Id : RemoveParameter(i)
    \/ Update
    \/ \E c \in Clients :
        \/ ServeInitialize(c) \/ ServeUpdate(c)
        \/ Connect(c) \/ Disconnect(c)
        \/ TakeUpdate(c) \/ TakeRemove(c)
        \/ \E i \in Id, v \in Vals : ClientSet(c, i, v)
        \/ ClientUpdate(c)

Spec == Init /\ [][Next]_vars

-----------------------------------------------------------------------------
(* Properties *)

\* The variables have the shape the code declares; a client that is not
\* connected has nothing.
TypeOK ==
    /\ params \in [Id -> Parameter \cup {None}]
    /\ dirty \subseteq {i \in Id : params[i] # None}
    /\ removed \subseteq Id
    /\ on \subseteq Clients
    /\ cache \in [Clients -> [Id -> Parameter \cup {None}]]
    /\ gone \in [Clients -> [Id -> Parameter \cup {None}]]
    /\ toServer \in [Clients -> Seq(FromClients)]
    /\ toClient \in [Clients -> Seq(FromServers)]
    /\ ops \in 0..MaxOps
    /\ {own, astray, lost} \subseteq [Clients -> SUBSET Id]
    /\ early \in [Clients -> Nat]
    /\ \A c \in Clients : early[c] <= Len(toClient[c])
    /\ \A c \in Clients \ on :
        /\ toServer[c] = <<>> /\ toClient[c] = <<>>
        /\ own[c] \cup astray[c] \cup lost[c] = {}
        /\ \A i \in Id : cache[c][i] = None /\ gone[c][i] = None
    /\ spoilt \subseteq Id

\* Nothing is pending at the server or under way from or to client c.
Quiet(c) ==
    c \in on /\ toServer[c] = <<>> /\ toClient[c] = <<>> /\ dirty \cup removed = {}

\* When all is quiet for a client it has exactly the server's parameters, in
\* the same groups, with the same values, but for what its application set and
\* did not send: whatever creates, moves, removes, updates of other clients,
\* echoes and reconnects came before.  An id for which a packet went wrong
\* (Spoils, Short) is excepted, with the members of that group.
QuietMirror ==
    \A c \in Clients : Quiet(c) => \A i \in Id \ (spoilt \cup own[c]) :
        IF params[i] = None THEN cache[c][i] = None
        ELSE \/ i \in lost[c]
             \/ params[i].par \in spoilt \cup lost[c]
             \/ cache[c][i] # None /\ Sent(cache[c][i]) = Sent(params[i])

\* A REMOVE reaches a client when the group it names is empty there too: the
\* recursion of removeParameterDirect, which reads freed memory, has nothing to
\* do and no member is lost.  Only a client that was not initialised yet can
\* have a member left there, one it could not follow to its new group.
RemovedIsEmpty ==
    \A c \in Clients : FromServer(c, "REMOVE") =>
        \A j \in Id \ (astray[c] \cup spoilt) :
            cache[c][j] # None => cache[c][j].par # Head(toClient[c]).id
=============================================================================
