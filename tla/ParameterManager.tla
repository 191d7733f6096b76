-------------------------- MODULE ParameterManager --------------------------
(***************************************************************************)
(* The parameter registry of a RCP server: rcp::ParameterManager, the      *)
(* group tree (rcp::GroupParameter) and the flush of the pending removes   *)
(* and updates (rcp::ParameterServer::update).                             *)
(*                                                                         *)
(* A parameter is an object: a member of Obj that is created once and then *)
(* owns the id getNextId gave it.  Ids are reused, objects are not.  What  *)
(* an option or a value is does not matter here: `changed' holds the       *)
(* objects with a *Changed flag set that no packet carries yet.            *)
(*                                                                         *)
(* The application thread creates, sets, moves and removes parameters and  *)
(* calls update().  The threads of Updaters are the service threads of the *)
(* transporters: they look a parameter up for an incoming update and set   *)
(* it afterwards, with anything in between; the callback of the set may    *)
(* call update() as well.  Only dirtyParameter and removedParameter are    *)
(* behind the manager's mutex.  Removing takes it twice, so it is two      *)
(* steps; a flush inside a create or a move has the effect of the same     *)
(* flush right after it, so these are one step each.                       *)
(***************************************************************************)
EXTENDS Naturals, FiniteSets

CONSTANTS
    Obj,                \* the parameter objects that can be created
    Root,               \* the server's root group (id 0, never registered)
    None,               \* the null pointer
    MaxId,              \* the highest id getNextId hands out
    Updaters,           \* service threads that apply updates of clients
    FlushAfterRemove,   \* the application calls update() between a remove and a create
    EmptyGroupsOnly,    \* the application removes a group only when it is empty
    ServerClears        \* the application calls ParameterServer::clear()

ASSUME Distinct == Root \notin Obj /\ None \notin Obj \cup {Root}
ASSUME MaxIdNat == MaxId \in Nat
ASSUME Flags == {FlushAfterRemove, EmptyGroupsOnly, ServerClears} \subseteq BOOLEAN

VARIABLES
    ids,                \* the ids handed out
    params,             \* id -> registered object
    dirtyParameter,     \* id -> object with an update to send
    removedParameter,   \* id -> object with a remove to send
    id,                 \* object -> its id, 0 when not created yet (and for Root)
    group,              \* the objects that are groups
    parent,             \* object -> its group
    children,           \* group -> its children
    changed,            \* objects with a change no packet carried yet
    removing,           \* the id the application thread is removing, 0 if none
    inflight,           \* service thread -> the object it looked up
    updating,           \* the service threads that have set theirs
    transporters,       \* at least one transporter is registered
    announced,          \* id -> the object the packets sent so far announced
    crashed             \* the process died of undefined behaviour

tree    == <<id, group, parent, children>>
lists   == <<ids, params, dirtyParameter, removedParameter>>
service == <<inflight, updating>>
vars    == <<lists, tree, changed, removing, service, transporters, announced, crashed>>

Id == 1..MaxId
Node == Obj \cup {Root}

-----------------------------------------------------------------------------
(* Lookups *)

Registered == {o \in Obj : id[o] \in Id /\ params[id[o]] = o}

\* The groups the application can pass to a create or to addChild.
LiveGroups == {Root} \cup (group \cap Registered)

Closed(S) == \A g \in S : children[g] \subseteq S

\* o and everything below it.
Subtree(o) == {x \in Node : \A S \in SUBSET Node : o \in S /\ Closed(S) => x \in S}

\* getNextId: the lowest id not handed out.
IsNextId(i) == i \in Id \ ids /\ \A j \in Id \ ids : i <= j

\* The parameters _init sends to a client that asks for INITIALIZE.
SentByInit == Subtree(Root) \ {Root}

\* The application thread is between two calls.
AppIdle == ~crashed /\ removing = 0

-----------------------------------------------------------------------------
(* Helpers of the actions: the maps after a call *)

\* mutant: "only add if not already removed" is not checked
SetDirty_Unchecked(dirty, i, o) == [dirty EXCEPT ![i] = o]

\* setParameterDirty, for an object o with id i
SetDirty(dirty, i, o) ==
    IF removedParameter[i] = None THEN [dirty EXCEPT ![i] = o] ELSE dirty

\* mutant: the test for the id is inverted
InsertChild_Inverted(ch, g, o, i) ==
    IF \E c \in ch[g] : id[c] = i THEN [ch EXCEPT ![g] = @ \cup {o}] ELSE ch

\* GroupParameter::addChild inserts unless the id is there already
InsertChild(ch, g, o, i) ==
    IF \E c \in ch[g] : id[c] = i THEN ch ELSE [ch EXCEPT ![g] = @ \cup {o}]

\* mutant: the child's parent is cleared, the child map is not edited
EraseChild_Forgets(ch, g, o) == ch

\* GroupParameter::removeChild erases by id
EraseChild(ch, g, o) == [ch EXCEPT ![g] = {c \in @ : id[c] # id[o]}]

\* mutant: only updates are sent
Flush_NoRemoves ==
    /\ announced' = [i \in Id |->
            IF dirtyParameter[i] # None THEN dirtyParameter[i] ELSE announced[i]]
    /\ changed' = changed \ {dirtyParameter[i] : i \in Id}
    /\ removedParameter' = [i \in Id |-> None]
    /\ dirtyParameter' = [i \in Id |-> None]

\* The body of ParameterServer::update: under the manager's lock, a REMOVE for
\* each removed parameter, then an UPDATE or UPDATEVALUE for each dirty one.
Flush ==
    /\ announced' = [i \in Id |->
            IF dirtyParameter[i] # None THEN dirtyParameter[i]
            ELSE IF removedParameter[i] # None THEN None
            ELSE announced[i]]
    /\ changed' = changed \ {dirtyParameter[i] : i \in Id}
    /\ removedParameter' = [i \in Id |-> None]
    /\ dirtyParameter' = [i \in Id |-> None]

-----------------------------------------------------------------------------
Init ==
    /\ ids = {}
    /\ params = [i \in Id |-> None]
    /\ dirtyParameter = [i \in Id |-> None]
    /\ removedParameter = [i \in Id |-> None]
    /\ id = [n \in Node |-> 0]
    /\ group = {}
    /\ parent = [o \in Obj |-> None]
    /\ children = [n \in Node |-> {}]
    /\ changed = {}
    /\ removing = 0
    /\ inflight = [u \in Updaters |-> None]
    /\ updating = {}
    /\ transporters = FALSE
    /\ announced = [i \in Id |-> None]
    /\ crashed = FALSE

(* The application thread *)

\* create*Parameter and createGroupParameter: take an id, set manager and
\* label, mark dirty, add to the group, register.
CreateParameter(o, isGroup, g) ==
    /\ AppIdle
    /\ id[o] = 0
    /\ g \in LiveGroups
    /\ FlushAfterRemove => \A i \in Id : removedParameter[i] = None
    /\ \E i \in Id :
        /\ IsNextId(i)
        /\ ids' = ids \cup {i}
        /\ id' = [id EXCEPT ![o] = i]
        /\ dirtyParameter' = SetDirty(dirtyParameter, i, o)
        /\ children' = InsertChild(children, g, o, i)
        /\ params' = [params EXCEPT ![i] = o]
    /\ group' = IF isGroup THEN group \cup {o} ELSE group
    /\ parent' = [parent EXCEPT ![o] = g]
    /\ changed' = changed \cup {o}
    /\ UNCHANGED <<removedParameter, removing, service, transporters, announced, crashed>>

\* mutant: a setter that does not mark the parameter dirty
SetOption_Silent(o) ==
    /\ AppIdle
    /\ o \in Registered
    /\ changed' = changed \cup {o}
    /\ UNCHANGED <<lists, tree, removing, service, transporters, announced, crashed>>

\* A setter (setLabel, setValue, setMinimum, ...) with a new value: all but
\* the uri type's setDefault, which does not mark dirty.
SetOption(o) ==
    /\ AppIdle
    /\ o \in Registered
    /\ changed' = changed \cup {o}
    /\ dirtyParameter' = SetDirty(dirtyParameter, id[o], o)
    /\ UNCHANGED <<ids, params, removedParameter, tree, removing, service,
                   transporters, announced, crashed>>

\* GroupParameter::addChild on a parameter that may have a parent already.
\* The application never puts a group below itself.
AddChild(g, o) ==
    /\ AppIdle
    /\ o \in Registered
    /\ g \in LiveGroups \ Subtree(o)
    /\ LET inserted == InsertChild(children, g, o, id[o])
           p == parent[o]
       IN  IF p # None /\ id[p] = id[g]
           THEN children' = inserted /\ UNCHANGED <<parent, changed, dirtyParameter>>
           ELSE /\ children' = IF p = None THEN inserted ELSE EraseChild(inserted, p, o)
                /\ parent' = [parent EXCEPT ![o] = g]
                /\ changed' = changed \cup {o}
                /\ dirtyParameter' = SetDirty(dirtyParameter, id[o], o)
    /\ UNCHANGED <<ids, params, removedParameter, id, group, removing, service,
                   transporters, announced, crashed>>

\* removeParameter, first part: setParameterRemoved, for the parameter named
\* only, not for what is below it.
BeginRemove(i) ==
    /\ AppIdle
    /\ params[i] # None
    /\ EmptyGroupsOnly => children[params[i]] = {}
    /\ removedParameter' = [removedParameter EXCEPT ![i] = params[i]]
    /\ dirtyParameter' = [dirtyParameter EXCEPT ![i] = None]
    /\ removing' = i
    /\ UNCHANGED <<ids, params, tree, changed, service, transporters, announced, crashed>>

\* removeParameter, second part: removeParameterDirect unregisters the
\* parameter and everything below it.  Detaching a parameter from its group
\* clears its parent, a change that marks it dirty.
FinishRemove(i) ==
    /\ ~crashed
    /\ removing = i
    /\ LET o    == params[i]
           gone == Subtree(o)
           gids == {id[x] : x \in gone}
           p    == parent[o]
       IN  /\ dirtyParameter' = [j \in Id |->
                    IF j \in gids /\ removedParameter[j] = None THEN params[j]
                    ELSE dirtyParameter[j]]
           /\ ids' = ids \ gids
           /\ params' = [j \in Id |-> IF j \in gids THEN None ELSE params[j]]
           /\ parent' = [x \in Obj |-> IF x \in gone THEN None ELSE parent[x]]
           /\ children' = [n \in Node |->
                    IF n \in gone THEN {}
                    ELSE IF n = p THEN EraseChild(children, p, o)[n]
                    ELSE children[n]]
           /\ changed' = changed \cup gone
    /\ removing' = 0
    /\ UNCHANGED <<removedParameter, id, group, service, transporters, announced, crashed>>

\* The recursion of removeParameterDirect erases the map node its loop stands
\* on and reads parameters through freed nodes: the process may die instead.
RemoveGroupCrash(i) ==
    /\ ~crashed
    /\ removing = i
    /\ children[params[i]] # {}
    /\ crashed' = TRUE
    /\ UNCHANGED <<lists, tree, changed, removing, service, transporters, announced>>

\* ParameterServer::update: nothing without a transporter.
Update ==
    /\ AppIdle
    /\ transporters
    /\ Flush
    /\ UNCHANGED <<ids, params, tree, removing, service, transporters, crashed>>

AddTransporter ==
    /\ AppIdle
    /\ ~transporters
    /\ transporters' = TRUE
    /\ UNCHANGED <<lists, tree, changed, removing, service, announced, crashed>>

RemoveTransporter ==
    /\ AppIdle
    /\ transporters
    /\ transporters' = FALSE
    /\ UNCHANGED <<lists, tree, changed, removing, service, announced, crashed>>

\* mutant: the ids stay reserved
Clear_KeepsIds ==
    /\ AppIdle
    /\ ServerClears
    /\ params' = [i \in Id |-> None]
    /\ dirtyParameter' = [i \in Id |-> None]
    /\ removedParameter' = [i \in Id |-> None]
    /\ UNCHANGED <<ids, tree, changed, removing, service, transporters, announced, crashed>>

\* ParameterServer::clear empties the manager and leaves the tree alone.
Clear ==
    /\ AppIdle
    /\ ServerClears
    /\ ids' = {}
    /\ params' = [i \in Id |-> None]
    /\ dirtyParameter' = [i \in Id |-> None]
    /\ removedParameter' = [i \in Id |-> None]
    /\ UNCHANGED <<tree, changed, removing, service, transporters, announced, crashed>>

(* The service threads *)

\* _update finds the parameter of an incoming update ...
RemoteFind(u, o) ==
    /\ ~crashed
    /\ inflight[u] = None
    /\ o \in Registered
    /\ inflight' = [inflight EXCEPT ![u] = o]
    /\ UNCHANGED <<lists, tree, changed, removing, updating, transporters, announced,
                   crashed>>

\* mutant: the result of the lookup is not tested
RemoteSet_Unchecked(u) ==
    /\ ~crashed
    /\ u \notin updating
    /\ updating' = updating \cup {u}
    /\ changed' = changed \cup {inflight[u]}
    /\ UNCHANGED <<lists, tree, removing, inflight, transporters, announced, crashed>>

\* ... sets it ...
RemoteSet(u) ==
    /\ ~crashed
    /\ inflight[u] # None
    /\ u \notin updating
    /\ updating' = updating \cup {u}
    /\ changed' = changed \cup {inflight[u]}
    /\ dirtyParameter' = SetDirty(dirtyParameter, id[inflight[u]], inflight[u])
    /\ UNCHANGED <<ids, params, removedParameter, tree, removing, inflight,
                   transporters, announced, crashed>>

\* ... a callback calls update() ...
RemoteFlush(u) ==
    /\ ~crashed
    /\ u \in updating
    /\ transporters
    /\ Flush
    /\ UNCHANGED <<ids, params, tree, removing, service, transporters, crashed>>

\* ... and the handler returns.
RemoteDone(u) ==
    /\ ~crashed
    /\ u \in updating
    /\ updating' = updating \ {u}
    /\ inflight' = [inflight EXCEPT ![u] = None]
    /\ UNCHANGED <<lists, tree, changed, removing, transporters, announced, crashed>>

Next ==
    \/ \E o \in Obj, isGroup \in BOOLEAN, g \in Node : CreateParameter(o, isGroup, g)
    \/ \E o \in Obj : SetOption(o)
    \/ \E g \in Node, o \in Obj : AddChild(g, o)
    \/ \E i \in Id : BeginRemove(i)
    \/ \E i \in Id : FinishRemove(i)
    \/ \E i \in Id : RemoveGroupCrash(i)
    \/ Update
    \/ AddTransporter
    \/ RemoveTransporter
    \/ Clear
    \/ \E u \in Updaters, o \in Obj : RemoteFind(u, o)
    \/ \E u \in Updaters : RemoteSet(u)
    \/ \E u \in Updaters : RemoteFlush(u)
    \/ \E u \in Updaters : RemoteDone(u)

Spec == Init /\ [][Next]_vars

-----------------------------------------------------------------------------
(* Properties *)

\* The variables have the shape the code declares: maps from ids to pointers,
\* a tree of objects, flags.
TypeOK ==
    /\ ids \subseteq Id
    /\ params \in [Id -> Obj \cup {None}]
    /\ dirtyParameter \in [Id -> Obj \cup {None}]
    /\ removedParameter \in [Id -> Obj \cup {None}]
    /\ id \in [Node -> Id \cup {0}]
    /\ id[Root] = 0
    /\ group \subseteq Obj
    /\ parent \in [Obj -> Node \cup {None}]
    /\ children \in [Node -> SUBSET Obj]
    /\ changed \subseteq Obj
    /\ removing \in Id \cup {0}
    /\ inflight \in [Updaters -> Obj \cup {None}]
    /\ updating \subseteq Updaters
    /\ transporters \in BOOLEAN
    /\ announced \in [Id -> Obj \cup {None}]
    /\ crashed \in BOOLEAN

\* The two registers of ids agree: an id is handed out exactly while an object
\* with that id is registered, whatever creates, recursive removes and clears
\* came before.  getNextId reads one, every lookup reads the other.
IdsMatchParams ==
    /\ ids = {i \in Id : params[i] # None}
    /\ \A i \in ids : id[params[i]] = i

\* No id has both a REMOVE and an UPDATE pending: the flush sends all removes
\* before all updates, so a client would keep a parameter the server dropped.
NeverRemovedAndDirty ==
    \A i \in Id : removedParameter[i] = None \/ dirtyParameter[i] = None

\* Parent pointers, child maps and the registry tell the same story: every
\* registered parameter is in the child map of a live group, its parent, and
\* no child map holds anything else.  Moves and recursive removes edit the
\* three in separate steps.
TreeConsistent ==
    /\ \A o \in Registered : parent[o] \in LiveGroups /\ o \in children[parent[o]]
    /\ \A g \in Node : \A c \in children[g] : c \in Registered /\ parent[c] = g

\* INITIALIZE, which walks the tree from the root, sends every registered
\* parameter and nothing else.
InitSendsRegistry == SentByInit = Registered

\* A registered parameter with an unsent change is on the list the next flush
\* walks, as itself, unless it is being removed: no set, move or create is
\* forgotten.
ChangesArePending ==
    \A o \in Registered \cap changed :
        id[o] = removing \/ dirtyParameter[id[o]] = o

\* The parameters the packets sent so far describe.
Published == {o \in Obj : \E i \in Id : announced[i] = o}

\* A disciplined application's flushes publish exactly the registry.
Mirror == INSTANCE RegistryMirror WITH live <- Registered, published <- Published
MirrorSpec == Mirror!Spec

\* "called on server - parameters are dirty by default (so we send it out...)":
\* a parameter that has just been created is dirty.
CreatedIsDirty ==
    [][\A o \in Obj : o \in Registered' \ Registered =>
          dirtyParameter'[id'[o]] = o]_vars
=============================================================================
