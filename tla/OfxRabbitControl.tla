-------------------------- MODULE OfxRabbitControl --------------------------
(***************************************************************************)
(* ofxRabbitControlServer: the maps from the addresses of ofParameters and *)
(* ofParameterGroups to parameter ids, kept beside the server's registry,  *)
(* and the two-way binding of values.  The registry is what               *)
(* ParameterManager makes of it: the lowest free id is handed out, and     *)
(* removing a parameter removes everything below it.                       *)
(*                                                                         *)
(* One step is one call of the application, or one incoming value with the *)
(* callbacks it runs.                                                      *)
(***************************************************************************)
EXTENDS Naturals, FiniteSets

CONSTANTS
    Params,         \* the ofParameters
    Groups,         \* the ofParameterGroups
    Member,         \* group -> what the application put into it
    Kind,           \* ofParameter -> its type
    Vals,           \* the values
    MaxId,          \* the highest id getNextId hands out
    None            \* no owner, no value

Items == Params \cup Groups
Id == 1..MaxId

ASSUME ItemsDistinct == Params \cap Groups = {} /\ None \notin Items \cup Vals
ASSUME MemberTree ==
    /\ Member \in [Groups -> SUBSET Items]
    /\ \A g, h \in Groups : g # h => Member[g] \cap Member[h] = {}
ASSUME MaxIdNat == MaxId \in Nat

VARIABLES
    idMap,      \* paramIdMap and groupIdMap: item -> id, 0 when not in the map
    owner,      \* id -> the item its registered parameter was created for
    parentId,   \* id -> the id of its group, 0 for the root
    rabbit,     \* id -> the value of its parameter, None without one
    ofValue,    \* ofParameter -> its value
    listening   \* the ofParameters whose changes the server listens to

registry == <<owner, parentId>>
vars     == <<idMap, registry, rabbit, ofValue, listening>>

-----------------------------------------------------------------------------
\* mutant: getNextId tries one id too many
Free_Over == {i \in 1..(MaxId + 1) : i \notin Id \/ owner[i] = None}

\* The ids getNextId can hand out.
Free == {i \in Id : owner[i] = None}

\* mutant: members are created again though their address is in a map
ExposedWith_Again(g) ==
    LET closed == {S \in SUBSET Items : g \in S /\ \A h \in S \cap Groups : Member[h] \subseteq S}
    IN  {x \in Items : \A S \in closed : x \in S}

\* What expose(g) creates: g and, group by group, the members that are not in
\* the maps.
ExposedWith(g) ==
    LET closed == {S \in SUBSET Items :
            /\ g \in S
            /\ \A h \in S \cap Groups : {y \in Member[h] : idMap[y] = 0} \subseteq S}
    IN  {x \in Items : \A S \in closed : x \in S}

\* The parameters removeParameter(i) unregisters.
Below(i) ==
    LET closed == {S \in SUBSET Id :
            /\ i \in S
            /\ \A k \in Id : owner[k] # None /\ parentId[k] \in S => k \in S}
    IN  {j \in Id : \A S \in closed : j \in S}

\* The registry after removeParameter(i), which ignores an unknown id.
RemoveParameter(i) ==
    LET gone == IF i # 0 /\ owner[i] # None THEN Below(i) ELSE {}
    IN  /\ owner' = [j \in Id |-> IF j \in gone THEN None ELSE owner[j]]
        /\ parentId' = [j \in Id |-> IF j \in gone THEN 0 ELSE parentId[j]]
        /\ rabbit' = [j \in Id |-> IF j \in gone THEN None ELSE rabbit[j]]

\* mutant: the type of the parameter found is not compared
Listener_AnyKind(values, p, v) ==
    IF p \in listening /\ idMap[p] # 0 /\ owner[idMap[p]] \in Params
    THEN [values EXCEPT ![idMap[p]] = v]
    ELSE values

\* paramXChanged: p's new value goes to the parameter its address maps to, if
\* that has the type of p.
Listener(values, p, v) ==
    IF /\ p \in listening
       /\ idMap[p] # 0
       /\ owner[idMap[p]] \in Params
       /\ Kind[owner[idMap[p]]] = Kind[p]
    THEN [values EXCEPT ![idMap[p]] = v]
    ELSE values

-----------------------------------------------------------------------------
Init ==
    /\ idMap = [x \in Items |-> 0]
    /\ owner = [i \in Id |-> None]
    /\ parentId = [i \in Id |-> 0]
    /\ ofValue \in [Params -> Vals]
    /\ rabbit = [i \in Id |-> None]
    /\ listening = {}

\* Create parameters for the items of new, a group before its members and each
\* with the lowest free id, the topmost one below group at.  Values are taken
\* over, listeners added, addresses entered into the maps.
Create(new, at) ==
    \E f \in [new -> Free] :
        LET used == {f[x] : x \in new}
            \* the group x was found in, if that was exposed by this call
            above(x) == {h \in new \cap Groups : x \in Member[h]}
        IN  /\ \A x, y \in new : f[x] = f[y] => x = y
            /\ \A i \in used, j \in Free \ used : i < j
            /\ \A x \in new : \A h \in above(x) : f[h] < f[x]
            /\ idMap' = [x \in Items |-> IF x \in new THEN f[x] ELSE idMap[x]]
            /\ owner' = [i \in Id |-> IF i \in used THEN CHOOSE x \in new : f[x] = i
                                      ELSE owner[i]]
            /\ parentId' = [i \in Id |->
                   IF i \notin used THEN parentId[i]
                   ELSE LET x == CHOOSE y \in new : f[y] = i
                        IN  IF above(x) = {} THEN at ELSE f[CHOOSE h \in above(x) : TRUE]]
            /\ rabbit' = [i \in Id |->
                   IF \E p \in new \cap Params : f[p] = i
                   THEN ofValue[CHOOSE p \in new \cap Params : f[p] = i]
                   ELSE rabbit[i]]
            /\ listening' = listening \cup (new \cap Params)
            /\ UNCHANGED ofValue

\* The groups a call of the application can name: the root, or one it got from
\* an expose and did not remove.
Handles == {0} \cup {i \in Id : owner[i] \in Groups}

\* expose(ofParameter): nothing new when the address is in the map.
ExposeParam(p, at) ==
    /\ idMap[p] = 0
    /\ at \in Handles
    /\ Create({p}, at)

\* expose(ofParameterGroup), with everything in it.
ExposeGroup(g, at) ==
    /\ idMap[g] = 0
    /\ at \in Handles
    /\ Create(ExposedWith(g), at)

\* remove(ofParameter)
RemoveParam(p) ==
    /\ RemoveParameter(idMap[p])
    /\ idMap' = [idMap EXCEPT ![p] = 0]
    /\ listening' = listening \ {p}
    /\ UNCHANGED ofValue

\* remove(ofParameterGroup): only the group's own address leaves the map.
RemoveGroup(g) ==
    /\ RemoveParameter(idMap[g])
    /\ idMap' = [idMap EXCEPT ![g] = 0]
    /\ UNCHANGED <<ofValue, listening>>

\* The application sets an ofParameter.
Change(p, v) ==
    /\ ofValue' = [ofValue EXCEPT ![p] = v]
    /\ rabbit' = Listener(rabbit, p, v)
    /\ UNCHANGED <<idMap, registry, listening>>

\* A client sets a parameter: its callback sets the ofParameter, whose
\* listener sets the parameter of that address again.
RemoteValue(i, v) ==
    /\ owner[i] \in Params
    /\ rabbit[i] # v
    /\ ofValue' = [ofValue EXCEPT ![owner[i]] = v]
    /\ rabbit' = Listener([rabbit EXCEPT ![i] = v], owner[i], v)
    /\ UNCHANGED <<idMap, registry, listening>>

Next ==
    \/ \E p \in Params, at \in Id \cup {0} : ExposeParam(p, at)
    \/ \E g \in Groups, at \in Id \cup {0} : ExposeGroup(g, at)
    \/ \E p \in Params : RemoveParam(p)
    \/ \E g \in Groups : RemoveGroup(g)
    \/ \E p \in Params, v \in Vals : Change(p, v)
    \/ \E i \in Id, v \in Vals : RemoteValue(i, v)

Spec == Init /\ [][Next]_vars

-----------------------------------------------------------------------------
(* Properties *)

\* The variables have the shape the code declares.
TypeOK ==
    /\ idMap \in [Items -> Id \cup {0}]
    /\ owner \in [Id -> Items \cup {None}]
    /\ parentId \in [Id -> Id \cup {0}]
    /\ rabbit \in [Id -> Vals \cup {None}]
    /\ ofValue \in [Params -> Vals]
    /\ listening \subseteq Params

\* Whatever was exposed and removed before, with stale addresses in the maps
\* and ids reused: a registered parameter is the one its item's address maps
\* to, so a change of the item reaches it and the item is never exposed twice.
RegisteredIsMapped ==
    \A i \in Id : owner[i] # None =>
        idMap[owner[i]] = i /\ (owner[i] \in Params => owner[i] \in listening)

\* A parameter shows the value of its ofParameter, whichever of the two was
\* set and whatever was removed and exposed before, unless a stale address of
\* the same type maps to the same id.
ValuesAgree ==
    \A i \in Id : owner[i] \in Params =>
        \/ rabbit[i] = ofValue[owner[i]]
        \/ \E q \in Params \ {owner[i]} : idMap[q] = i /\ Kind[q] = Kind[owner[i]]

\* "remove from maps", "already exposed": what is in the maps is exposed.
MappedIsRegistered ==
    \A x \in Items : idMap[x] # 0 => owner[idMap[x]] = x
=============================================================================
