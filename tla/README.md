# Verification of the RabbitControl server in ofxRabbitControl

TLA+ models of the code under `src/src`: the RCP parameter server
(`src/src/rabbitControl`), its openFrameworks front end (`ofxRabbitControl.cpp`)
and its websocket transports. The modules are translated from the C++ code; each
definition's lines are in the `map` of `PROJECT.json`. TLC checks small
instances (`MC*.tla`, `MC*.cfg`); TLAPS proves theorems for every value of the
constants (`*Proofs.tla`).

To run one check: `tlc -config MCParameterManager_tree.cfg MCParameterManager`.
To check the proofs: `tlapm ParameterManagerProofs.tla`.

Paths below are relative to `src/src`, and `rc/` is short for `rabbitControl/`.

## 1. The system

An application exposes parameters through a `ParameterServer`. Clients connect by
a transporter (a websocket server, or a websocket connection to a "rabbithole"
relay), ask for `INITIALIZE`, and then get `UPDATE`, `UPDATEVALUE` and `REMOVE`
packets whenever the application calls `update()`. A client can send an `UPDATE`
itself; the server applies it and forwards it to the other clients.

| Component | State | Operations | Talks to |
|---|---|---|---|
| `ParameterManager` (`rc/parametermanager.cpp`) | `ids`, `params`, `dirtyParameter`, `removedParameter`, a (non-recursive) mutex for these two | `create*Parameter`, `removeParameter`, `getParameter`, `setParameterDirty`, `setParameterRemoved`, `clear` | every parameter calls `setDirty` on it; the server walks its lists |
| Group tree (`rc/parameter_group.cpp`, `parameter_intern.h:1500-1560`) | a child map (by id) per group, a parent pointer per parameter | `addChild`, `removeChild`, `setParent`, `clearParent` | moving marks dirty |
| `ParameterServer` (`rc/parameterserver.cpp`) | root group, list of transporters | `update`, `received` (`INITIALIZE`, `UPDATE`, `UPDATEVALUE`, `INFO`), `clear`, `addTransporter`, `removeTransporter` | reads the lists under the manager's mutex, writes packets to the transporters |
| Parameter options and values (`rc/parameter_intern.h`, `type_*.h`) | a `has*` flag, a value and a `*Changed` flag per option; the value | setters, clears, `write(out, all)`, `update(other)`, callbacks | `setDirty` |
| `ParameterClient` (`rc/parameterclient.cpp`) | a cached tree | `_addParameter`, `_update`, `_remove`, `disconnected` | client transporter |
| Packets, parsers, streams (`rc/packet.h`, `parameter_parser.h`, `writer.h`, `stream_tools.cpp`) | none | write, parse | |
| `websocketServerTransporter` (`websocketServerTransporter.h`) | action queue, connection list, `m_run`, two threads | `bind`, `unbind`, `sendToOne`, `sendToAll` | calls `received` from its own thread |
| `rabbitholeWsServerTransporter`, `websocketClient` | uri, `m_doTryConnect`, a timer thread | `bind`, `unbind`, `connected`, `disconnected`, `threadedFunction` | one connection to the relay |
| `ofxRabbitControlServer` (`ofxRabbitControl.cpp`) | `paramIdMap`, `groupIdMap`: address of an `ofParameter` or group -> id | `expose`, `remove`, listeners `paramXChanged`, value callbacks | calls the server and `update()` |

What is hard here:

* **Threads.** Setters, `create`, `remove` and `update()` run on the application
  thread, `received` on the transporter's service thread. Only the dirty and
  removed lists are behind a mutex: `params`, `ids`, the tree and the flags are not.
* **Reuse of ids.** `getNextId` hands out the lowest free id, immediately after a
  remove and before the clients hear of the remove.
* **Batching.** A flush sends all removes, then all updates; what happens between
  two flushes has to come out right in that order.
* **Flags read twice.** `onlyValueChanged` is asked once for the command and once
  for the body, and `INITIALIZE` resets the same flags a flush relies on.
* **Recursion over what is being edited.** `removeParameterDirect` edits the child
  map it iterates; `addChild` puts a child into the new group before it leaves the old one.
* **Maps kept in parallel.** The address maps of `ofxRabbitControlServer` and the
  server's registry are changed by different calls.
* **Transports.** Threads that stop each other, a send that throws, a reconnect
  timer.

The properties that make each part correct: ids and registry agree; parents, child
maps and registry agree; `INITIALIZE` sends the registry; no change is forgotten; a
flush leaves the clients with exactly the registry; a packet has the form its
command says; clients know what the server has; an address maps to its own
parameter and both sides hold one value; the client's tree mirrors the
server's, queued actions are all carried out, shutdown ends, a lost relay connection
is retried, what is written is what is parsed.

The hazards, with their lines and the property that would show each going wrong, are
listed under `hazards` in `PROJECT.json`.

## 2. The modules

### ParameterManager

Models `ParameterManager`, the group tree and `ParameterServer::update`.

A parameter is an *object*, a member of `Obj`, created once; it owns an id, and ids
are reused. That is what tells the ghost of a removed parameter from its successor.

| Variable | Code |
|---|---|
| `ids`, `params`, `dirtyParameter`, `removedParameter` | the members of `ParameterManager` |
| `id`, `group` | a parameter's id; it is a `GroupParameter` |
| `parent`, `children` | `Parameter::m_parent`, `GroupParameter::m_children` |
| `changed` | some `*Changed` flag of the object is set (one bit: which, is the subject of ChangeTracking) |
| `removing` | the application is between `setParameterRemoved` and `removeParameterDirect` |
| `inflight`, `updating` | per service thread, the parameter `_update` found and whether it has been set |
| `transporters` | the transporter list is not empty |
| `announced` | history: what the packets sent so far say, per id |
| `crashed` | the process died of undefined behaviour |

`CreateParameter`, `SetOption`, `AddChild`, `BeginRemove`/`FinishRemove`, `Update`,
`AddTransporter`, `RemoveTransporter` and `Clear` are the application thread;
`RemoteFind`, `RemoteSet`, `RemoteFlush`, `RemoteDone` are a service thread
handling an incoming update, with anything in between. `RemoteFlush` is the
value callback that calls `update()`, as `ofxRabbitControl.cpp:176-213` does.

Grain of the steps. Removing takes the mutex for `setParameterRemoved` and again for
each dirty mark the removal makes, so it is two steps. A create or a move takes it
once; a flush of another thread inside it has the effect of the same flush just
after it, so it is one step. Data races on the containers themselves are not
broken down further.

Undefined behaviour in `removeParameterDirect`
(`rc/parametermanager.cpp:67-92`): its argument refers into the `params` map, whose
entry is erased at line 83 and used again at 86; for a group, the loop at 89 walks
a child map that the recursion erases from. The object stays alive through
`removedParameter` and the application's handle, and freed map nodes usually keep
their contents: then every child is visited (`FinishRemove`). Or the process dies
(`RemoveGroupCrash`, only for a group with children). The model has both outcomes.

The application's discipline, in the model everywhere: it passes registered
parameters and live groups only, and never moves a group below itself (the code
does not check). The constants name further discipline that some properties need:

* `FlushAfterRemove`: it calls `update()` between a remove and the next create,
  as `example/src/ofApp.cpp:95-104` does;
* `EmptyGroupsOnly`: it removes a group only when it is empty;
* `ServerClears`: it may call `clear()`.

Removing a group that is not empty marks its children dirty while they are being
unregistered (clearParent, from `rc/parametermanager.cpp:89`). Only the group is on the
removed list, so `setParameterDirty` accepts them, and the next flush sends updates of
parameters that no longer exist: this is what `EmptyGroupsOnly` excludes in `mirror`.

`SetOption` stands for the setters that mark dirty. The uri type's `setDefault` and
`clearDefault` (`rc/type_uri.h:76-88`) do not, and are left out.

### RegistryMirror

The abstract specification: parameters are created and removed, and a flush publishes
what is live. ParameterManager implements it (`MirrorSpec`) with
`live <- Registered` and `published <- Published`, the objects the packets
sent so far announce, when the application follows `FlushAfterRemove` and
`EmptyGroupsOnly`, does not clear, and no service thread sets parameters.

### ChangeTracking

Models how the fields (options and value) of one parameter get to the clients: the
`has`, value and `*Changed` flag of each field, the writer that reads and resets
the flags, `update()` and the answer to `INITIALIZE`. The flags belong to a parameter
each, so one parameter is enough. Fields are numbered in the order they are written:
the type's options, the value, the parameter's options.

Setters are three steps (value; flag; dirty mark under the lock), the writer takes one
step to write a field and one to reset its flag, because no lock protects them. A
flush holds the manager's lock from `BeginFlush` to `EndFlush`; `INITIALIZE` runs
without it. The body of an `UPDATEVALUE` under an `UPDATE` header reads as a parameter
without options (the parser takes the type and skips what it does not know, value
bytes assumed not to look like option codes); the reverse reads as some other value.

`INITIALIZE` while only the value is pending is answered in the short form, although
all options are asked for (`rc/parameter_intern.h:1030`), and resets the flag the flush
relies on: that is what `FlushBeforeInit` excludes.

Discipline: `Exclusive` (no two operations overlap), `FlushBeforeInit` (nothing is
pending when `INITIALIZE` arrives), `AppClears` (options may be cleared).

### OfxRabbitControl

Models `ofxRabbitControlServer`: `idMap` is both address maps, `owner`/`parentId`
what the registry holds per id, `rabbit` and `ofValue` the two sides of each value,
`listening` the listeners installed. One step is one call, with the callbacks it
makes. `ExposeGroup` creates the group and, recursively, each member that is not in
a map; `RemoveGroup` takes only the group's own address out of the map; `Listener`
is `paramXChanged`, which finds the id by address and sets the parameter if it has
the listener's type. Running out of ids, which throws in the code, is a disabled
expose. Names are left out.
A value is what the parameter's type holds: `ofFloatColor` is cut to 8 bits a channel
on the way to the parameter, so two float colours with the same channels are one value
here. The way back (`k / 255` and times 255 again, truncated) gives every one of the
256 channel values back, so a colour set by a client is not changed by the round trip.

### WebsocketServerTransporter

Models the transporter and its three threads: `pc["asio"]` runs websocketpp's
handlers, which push to `actions` under the action lock and notify in a second step;
`pc["svc"]` is `process_messages`, one step per access of the lock, the condition
variable, the queue and the list; `pc["app"]` binds, unbinds, calls `update()` and
runs the destructor. websocketpp is external: `CloseFrame` (a connection in its close
handshake) and the exception `send` throws for a connection that is not open
(`Throw`) are what its interface does. An exception ends the process on the service
thread; on the application thread it leaves `update()` before the manager's mutex is
unlocked, and the application catches it or dies. Two threads in the unlocked
connection list may end the process (`RaceOnList`).

The manager's mutex and the sends are where this module meets ParameterManager's
`Update` and `RemoteSet`.

Discipline: `bind` is called once, and with `Settled` the transporter is destroyed only
after its threads began. Both matter: a stopped `io_service` is never reset, so a
second `bind` accepts nobody; and `m_run` is set by the service thread, so a
destructor that clears it first waits for ever, as does one whose `unbind` finds the
server not listening yet.

### RcpProtocol

Composes the server with several `ParameterClient`s: `params`, `dirty`, `removed` are
the server's manager; `cache` is each client's manager, with `gone` the removed
parameters that are still on its dirty list; `toServer` and `toClient` are the packets
under way, which a websocket delivers in order or loses with the connection
(`Disconnect`). A parameter is its label, group and value, and the set of its changed
flags. Handlers and calls are one step each, as ParameterManager and ChangeTracking
break them up.

`ServeInitialize` sends the tree depth first. `ServeUpdate` applies a client's update,
lets the value's callback do nothing, call `update()` or set another value (as
`ofxRabbitControl.cpp:176-213` does), and forwards the packet as it came - also when
the parameter is unknown (`rc/parameterserver.cpp:271-281`). `TakeUpdate` is
`ParameterClient::_update`, which updates through the ordinary setters: a change
that arrives marks the cached parameter dirty, and `ClientUpdate` sends it back.
`TakeRemove` unregisters what is below a group too and leaves it on the dirty list
(`gone`).

The orders of packets that do go wrong, and how the properties deal with them:

* An update that crosses a REMOVE, or names an id that has a new owner, or a parent that
  is gone, or an owner or a parent that the server has not announced yet (`Announced`), is
  forwarded all the same; and `INITIALIZE` while only the value
  is unsent is answered in the short form, which a client without the parameter
  takes for one without options. History variable `spoilt` collects the ids this
  happened to and `QuietMirror` excepts them, and the members of such a group: a client
  can keep a parameter that the server does not have.
* A REMOVE takes along what the client has below the group, by way of a group that is
  spoilt or of a move that went astray. `lost` collects what the client is not told of
  again; what it lost before its `INITIALIZE` was answered comes back with the answer, and
  `early` counts the packets under way that are older than that answer.
* A client that is connected and not yet initialised gets moves into groups it does
  not know (`astray`); `RemovedIsEmpty` excepts these.
* A flush sends removes before updates and updates in id order. Moving a member out and
  removing its group in one flush loses the member at the client; a child created
  together with its group may come first. `StepByStep` is the discipline that avoids
  both: `update()` after each create, move or remove.
* Clients ignore a parent id of 0, so the application here moves into groups only.
* A callback that both sets the value and calls `update()` is sent before the raw
  packet is forwarded, which leaves the other clients with the older value: not a
  behaviour of the model's callbacks.

The history variable `own` holds what a client's application set and did not send. No
history variable decides what an action does to the others.

The exceptions are what the proof of `QuietMirror` needs and no more. An earlier form,
without `Announced` and `lost`, held in every instance TLC could exhaust; a random run of
more steps refuted it with an echo that puts a parameter into a group whose id was
removed and reused, and which no other client has been told of.

### RabbitholeTransporter

Models `rabbitholeWsServerTransporter` on `websocketClient` and `ofThread`. `app` is
where the application is in `bind`, `unbind` or the destructor, `timer` where the
timer thread is, `asio` where a handler is; `running` and `done` are ofThread's flags,
`con` the connection and `left` those that `close()` took the handlers off.
`startThread` does nothing before the last run ended (`StartThread`); `stopThread`
only clears the flag, and `waitForThread` waits for the loop. ofThread and
websocketpp are external and modelled from their interface. History variables:
`gaveUp`, the last attempt was refused or had no usable uri; `late`, a handler past its
test of `m_doTryConnect` started the timer after `unbind` had waited.

### ByteStrings and ParameterOptions

`ByteStrings` is pure: how integers and strings become bytes, and what reading them can
give (a text and the rest, the end of the stream, an exception), with the widths and
signs of the code. `write(UINT8_MAX)` selects the overload for `int` and writes four
bytes; the length of a tiny string is read as a `char`, which is signed in the model, as
it is on x86 and on Apple's platforms.

`ParameterOptions` sends the options of one parameter: `Written` is what
`ValueParameter::write` puts on the stream, and the actions `Parse*` are one turn
each of the loop in `parseOptions`. Nothing says how long an option is, so a reader
that takes one wrongly goes on at a wrong byte, and `got` may be anything. `Fits` says
what both sides agree about; the rest is left to the parser, which ends all the same. The assumption
`PacketsTyped` says what an option can be set to: strings are bytes, numbers and lengths
have the width the stream has for them, a code of a language is three letters none of
which is 0. A code that was shorter is written without an entry, so a list can be set
and be empty on the stream; then the client keeps the list it has (`Meant`). Codes that
are cut to the same three letters are left out (`DifferentCodes`): the server has two
texts, and the client keeps the later one.

### MC modules and proof modules

`MCParameterManager`, `MCChangeTracking`, `MCOfxRabbitControl` and `MCRcpProtocol` hold
symmetry sets, constant functions and a second initial state, `MCParameterOptions` the
packets; the transporters need nothing of this (symmetry is not sound with liveness)
and are run as they are. `ParameterManagerProofs`, `ChangeTrackingProofs`,
`OfxRabbitControlProofs`, `WebsocketServerTransporterProofs`, `RcpProtocolProofs`,
`RabbitholeTransporterProofs`, `ByteStringsProofs` and `ParameterOptionsProofs` hold the
theorems.

## 3. The runs

| Run | Instance | Checks |
|---|---|---|
| `clear` | 3 objects, 2 ids, 1 service thread, clears | `TypeOK`, `IdsMatchParams`, `NeverRemovedAndDirty` |
| `tree` | 4 objects, 3 ids, moves, recursive removes | `TreeConsistent`, `InitSendsRegistry` |
| `mirror` | 4 objects, 2 ids, disciplined application | `MirrorSpec` (refinement), `ChangesArePending` |
| `created` | 3 objects, 2 ids, empty groups only | violates `CreatedIsDirty` |
| `threads` | 2 fields, 2 values, 1 client, 3 threads | `TypeOK`, `FlaggedIsDirty` |
| `serial` | 3 fields, 3 values, 2 clients, 2 threads, `Exclusive`, `FlushBeforeInit` | `ViewsAgree`, `CommandMatchesBody` |
| `expose` | 3 ofParameters of 2 types, nested groups, 4 ids, 2 values | `TypeOK`, `RegisteredIsMapped`, `ValuesAgree` |
| `stale` | the same | violates `MappedIsRegistered` |
| `transport` | 2 connections, 1 message each, 3 threads | `TypeOK`, `ListFollowsConnections`, `SenderIsListed`; liveness: `ShutdownEnds`, `ActionsHandled` |
| `protocol` | 2 clients, 3 ids, 2 values, 5 calls, 3 packets a connection | `TypeOK`, `QuietMirror`, `RemovedIsEmpty` |
| `rabbithole` | 3 threads, the timer sleeps twice | `TypeOK`, `UnboundIsQuiet`; liveness: `Reconnects`, `DestroyEnds` |
| `wire` | pairs of all options, set or cleared, lengths and numbers at limits | `TypeOK`, `OptionsArrive`; liveness: `ParserEnds` |

Bounds. `Obj` bounds how many parameters are ever created, `MaxId` how many exist at
a time. With more objects than ids, ids are reused and run out. Four objects and three
ids are enough for a group in a group with a child, a move between groups, a recursive
remove two levels deep, and a reuse of the ids afterwards. Three threads in `threads`
give two overlapping writers beside a setter; three fields in `serial` put options on
both sides of the value. In `expose`, `g1` holds `p1` and `g2`, `g2` holds `p2`, and
`p3` has another type: enough for nested exposing, stale addresses of the same and of
another type, and a full registry. In `transport`, two connections with a message each
put opens, messages and closes of both in every order into the queue (up to six
actions), with a forwarded update between them. There is no state constraint: all
bounds are the sizes of constants, `MaxMsgs`, which guards `OnMessage`, and `MaxOps` and
`MaxQueue`, which guard the calls of applications and the queues of RcpProtocol.

`protocol` begins with nothing, or (`Populated`) with two groups, a parameter in the
first, and two clients that know them: five calls are then enough to move the parameter,
remove its group, reuse the id, set it from both clients and reconnect. Three packets a
connection let an update cross a remove and a create. Six calls were explored too.
`Ticks` is 2: being stopped before and between sleeps differ from being stopped
after. In `wire` each option is paired with each other one, before and behind it, with
lengths 0, 127, 128, 254, 255, 256, 65534, 65535 and numbers at a sign; user data look
like other options. Loosening any limit of `Fits` is refuted.

Symmetry is used for objects, clients and values, none of which
is named by a definition.

`CHECK_DEADLOCK FALSE` in the `MCParameterManager` runs: objects run out, and the
process may have crashed. In `transport` the process ends, in `rabbithole` the
transporter is destroyed, in `protocol` calls run out, in `wire` parsing ends.

Fairness. In `wire`, weak fairness of the loop. In `rabbithole`, weak fairness of the
three threads inside an operation, and of the end of a handshake, for which
websocketpp has timeouts; the relay need not answer or close anything. In
`transport`: each thread that can take a step goes on (weak
fairness of the service thread's steps, of the asio thread between `listen` and
`run` and inside a handler, and of an operation the application began): they are
threads of an operating system, and nothing else schedules them. Strong fairness of
`HandleUpdate` and `EndRun`: each waits for a mutex that is free again and again, as the
holder takes it for a moment in each round. Clients need not do anything, the
application need not begin anything, and the condition variable need not wake up
unasked. Both liveness properties end at an exception or a data race (`dead`,
`Leaked`), which is what the code does there: see the hazards.

### What the runs that fail show

* `created` - a parameter created with the id of a removed one before the flush is
  dropped by the test at `rc/parametermanager.cpp:399`, and is not announced until it changes again
  (comment at line 379: "parameters are dirty by default").
* `stale` - after a group is removed its members' addresses stay in the map
  (`ofxRabbitControl.cpp:142`, "remove from maps"), so exposing a member again
  returns nothing, or another parameter that got the id.

## 4. The proofs

All theorems are checked by TLAPS without unproved steps, from the `ASSUME`s of the
modules alone, which say that model values are distinct, that `MaxId` is a natural
number, that flags are Boolean, that the default is one of the values, and what an option
of a packet can be set to (`PacketsTyped`). A discipline of
the application is a hypothesis of the theorem that needs it.

`ParameterManagerProofs`:

* `BaseSafe`: `TypeOK`, `IdsMatchParams`, `NeverRemovedAndDirty` for every application
  and any number of service threads. The inductive invariant `BaseInv` adds
  that the parameter being removed is still registered between the two steps of a
  remove; without it `FinishRemove` could work on an id nobody owns.
* `TreeSafe`: without `clear()`, `TreeConsistent` and `InitSendsRegistry`. The inductive
  invariant adds to these `BaseInv` and `Reachable`, that every registered parameter is
  below the root, which a move keeps because no group is moved below itself. What a
  remove unregisters (`Subtree`) is defined as a least closed set, so that the
  lemmas `SubtreeClosed`, `SubtreeLeast` and `SubtreeParent` stand in for induction.
* `ChangesKept`: with `FlushAfterRemove`, no service threads and no clear,
  `ChangesArePending`. `PendingInv` adds that an id on the removed list
  is free or the one being removed, so nothing registered is refused by
  `setParameterDirty`, and that a dirty entry of a registered id is its own.
* `ServerImplementsMirror`: with `EmptyGroupsOnly` as well, the specification implements
  `RegistryMirror`: `MirrorInv` relates `announced` to the registry and both lists,
  and each step maps to a mirror step or a stutter.

`ChangeTrackingProofs`:

* `TrackingTypes`, `FlagsAreSent`: `FlaggedIsDirty` for any number of fields, clients
  and threads. `TrackInv` adds that a flush under way holds the lock (`LockInv`), that a
  short packet is at the value field (`ShortInv`), and that fields a flush has passed are
  flagged only when a setter is about to mark the parameter dirty (`PassedInv`): that
  is why clearing the list at the end loses nothing, as marking waits for the lock.

The second part of `ChangeTrackingProofs`, about threads that exclude each other
(`Exclusive`) and an `INITIALIZE` that finds nothing pending (`FlushBeforeInit`):

* `CommandsMatch`: `CommandMatchesBody`. `SerialInv` adds that one thread at most is not
  idle (`AloneInv`), that command and form agree from the choice of the form on
  (`FormInv`), and that an answer to `INITIALIZE` meets no changed flag and so is never in
  the short form (`CleanInv`).
* `ViewsFollow`: `ViewsAgree`, when the application clears no option either
  (`~AppClears`). `ViewInv` follows a field on its way to the clients: an option that
  was never set is unflagged and the clients take it for its default (`UnsetInv`), a
  packet says what the server holds, and a flag is reset only when the field is in a packet
  for everybody (`PacketInv`), the answer to `INITIALIZE` holds every set field it has
  passed (`AnswerInv`), and a field whose flag is clear is known or on its way
  (`KnownInv`).

`OfxRabbitControlProofs`:

* `MapTypes`, `ItemsAreMapped`, `ValuesFollow`: `TypeOK`, `RegisteredIsMapped` and
  `ValuesAgree` for every tree of groups. The last needs the second: the listener of an
  item reaches the item's own parameter because its address maps to it. Their conjunction
  is inductive. What an expose creates and a remove unregisters are least closed sets; that
  an expose creates only what is in no map (`ExposedIsUnmapped`) and that a remove
  takes the parameter of the item's own address (`RemovedIsGone`) is all the proof needs.

`WebsocketServerTransporterProofs`:

* `TransportTypes`, `ListFollows`, `SenderListed`: `TypeOK`, `ListFollowsConnections` and
  `SenderIsListed` for any number of connections and messages. `QueueInv` adds that the queue
  is `Ordered`: an unsubscription is the last of its connection, and a message comes after
  its connection's subscription or that was carried out; and that a queued unsubscription
  is of a closed connection. The queue grows at its end and shrinks at its head only:
  `ListedAppend`, `ListedTail`, `OrderedAppend` and `OrderedTail` say what either does to it.

`Types`, `IdsSafe` and `InitializeSafe` are corollaries for single invariants of the runs.

`RcpProtocolProofs`, for any number of clients, ids and values, and queues of any length:

* `ProtocolTypeCorrect`: `TypeOK`, of which most is about what update(), `_init` and a
  client's update() send: `InOrder`, the walk over a map, and `InitPackets`, the walk down the
  tree, are recursive functions, and that they exist (`UpToExists`, `WalkExists`) and what
  they return (`InOrderEnds`, `WalkIsGood`) is shown by least counterexamples (`NatLeast`).
* `RemovedEmpty`: with `StepByStep`, `RemovedIsEmpty`. The invariant must say what holds
  when the REMOVE comes, after everything before it on the connection was taken. `Ends`
  reads that off a queue: the last packet of one kind that none of another follows.
  With it `Sits` says in which group a client will have a parameter, and `TreeInv` that it
  will have it in no other group than the server does, or is about to be told (`TreeAt`), and
  that nothing sits in a group when its REMOVE comes (`Left`). At the server,
  `ServerParam`: a group is announced before its members are, and what changed is on
  the list. Each action changes a queue at one end only, which `SaidAlone` and
  `SaidFirst` treat once and for all.
* `QuietMirrors`: with `StepByStep`, `QuietMirror`. `MirrorInv` says of the label, value and
  group of each parameter what a client will have: it is pending at the server, or the
  last packet about it says it, or the client has it and no packet says anything else
  (`LabelAt`, `ValueAt`, `FollowAt`). Three things make it inductive. A parent counts only
  if the client will know the group by then, so the packet that tells of the group comes
  first (`Led`). A value that a client's application set and the server has not taken
  is not the server's yet (`Owes`); taking it marks it as pending for everybody. And a
  client is told everything by `_init` only, so what was under way before
  (`Before`) counts only for what it may remove again.

`RabbitholeTransporterProofs`:

* `TypeSafe`, `UnboundSafe`: `TypeOK` and `UnboundIsQuiet` for every number of sleeps.
  `QInv` adds that the timer sleeps fewer than `Ticks` times while it sleeps
  (`SleepEnds`) and, for each place of the application in `unbind`, what has been
  achieved by then (`UnbindIsFollowed`): the flag is clear from the first step, and at
  `close()` the timer is off or was started late. Without it the conclusion at the end of
  `unbind` does not follow from what the last step does.

`ByteStringsProofs`, about operators:

* `TinyStringArrives`, `LongTinyStringThrows`, `LongerTinyStringIsLost`: a tiny string of
  fewer than 128 bytes is read as it was written whatever follows; from 128 to 254
  reading it throws; from 255 on it is read as empty and its bytes as options.
* `ShortIdsDiffer`: `getNextId`'s cast to a signed number gives different numbers for
  different ids, and never 0.
* `ShortStringArrives`, `LongStringArrives`: a short string of fewer than 65535 bytes, and a
  long one whose length a signed 32-bit number holds, are read as they were written
  whatever follows: `ShortBytes` and `LongBytes` say that the two or four bytes of a number
  are read back as that number.

`ParameterOptionsProofs`, for every packet that `PacketsTyped` allows:

* `OptionTypes`: `TypeOK`. What a reader leaves is a tail of what it was given, so the
  stream stays bytes wherever the parser gets to.
* `OptionsInStep`: `OptionsArrive`. `StepInv` says where a parser can be when all options
  fit: before the k-th option with exactly the rest of the packet on the stream,
  inside the list of languages of one with the entries read so far in `got` (`done`)
  and the others on the stream (`todo`), or at the end; and that `got` holds what was meant
  by the options before the k-th (`Gotten`) and none of the others (`Missing`). Of
  `FlattenSeq` the proofs need only that it is its first piece and the rest flattened. An
  option without a change is an empty piece, so one turn of the parser moves it over
  several pieces. Each option has a lemma that says its bytes are read as its value
  (`ParentArrives`, `UserdataArrive`, ...), which rests on the theorems of
  `ByteStringsProofs`; the hypothesis is `Fits`, as in the property.

The theorems state every invariant that a passing run checks, and the refinement. The proof of
`OptionsArrive` was also a test of its statement: a list of languages that is set and empty
is read as nothing, which `Meant` had as an empty list, and no packet of the run
had one; two equal codes would be one entry at the client.

Out of the prover's reach and left to TLC: liveness under fairness and `ENABLED`
(`ShutdownEnds`, `ActionsHandled`, `Reconnects`, `DestroyEnds`, `ParserEnds`), and
induction over data: what the parser makes of a stream that is not in step is bounded by
`TypeOK` only.

## 5. What is not modelled

* Quiet clears of label and description. Clears of labels, descriptions and parents do
  not reach a client at all: the parser sets nothing for them (`Meant`).
* The options of the types on the wire, floats, 64-bit integers, timestamps, INFO. The
  entries of an enum are written with a count and read without
  (`rc/type_enum.h:297`, `187`); `update()` applies no type option to a cached parameter.
* In RcpProtocol, labels in languages and the options that behave like the label; `clear()`
  on the server while clients are connected.
* After `clear()`, the root group keeps its children, whose ids are handed out
  again. The tree properties are stated for servers that are never cleared; the hazard
  is listed.
* `ViewsAgree` is stated for applications that clear no option: a clear keeps the old
  value, and `INITIALIZE` resets the flag of a cleared option before the other
  clients hear of it. Both are listed as hazards.
* One thread is the application's; applications that use the server from several are
  not modelled.
* Value types, the examples, and the bundled websocketpp and asio.

## 6. Plan

Done: all modules above, their runs and theorems. What is left, in this order:

1. The options of the types in ParameterOptions.
2. Liveness of RcpProtocol: under which discipline of the clients echoes end.
