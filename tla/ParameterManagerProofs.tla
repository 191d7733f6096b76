----------------------- MODULE ParameterManagerProofs -----------------------
(***************************************************************************)
(* Theorems about ParameterManager, for any number of parameters, ids and  *)
(* service threads.                                                        *)
(***************************************************************************)
EXTENDS ParameterManager, TLAPS

USE DEF Id, Node

-----------------------------------------------------------------------------
(* The subtree below a parameter *)

\* Subtree(o) contains o, is closed under children, and is the least such set.
LEMMA SubtreeContains ==
    ASSUME NEW o \in Node
    PROVE  o \in Subtree(o)
BY DEF Subtree

\* What is below a removed parameter is closed under children ...
LEMMA SubtreeClosed ==
    ASSUME TypeOK, NEW o \in Node, NEW g \in Subtree(o), NEW c \in children[g]
    PROVE  c \in Subtree(o)
<1>1. c \in Node
  BY DEF Subtree, TypeOK
<1>2. ASSUME NEW S \in SUBSET Node, o \in S, Closed(S)
      PROVE  c \in S
  BY <1>2 DEF Subtree, Closed
<1> QED
  BY <1>1, <1>2 DEF Subtree

\* ... and is in every set that is.
LEMMA SubtreeLeast ==
    ASSUME NEW o \in Node, NEW S \in SUBSET Node, o \in S, Closed(S)
    PROVE  Subtree(o) \subseteq S
BY DEF Subtree

\* Everything in Subtree(o) but o itself is a child of something in it.
LEMMA SubtreeParent ==
    ASSUME TypeOK, NEW o \in Node, NEW x \in Subtree(o), x # o
    PROVE  \E g \in Subtree(o) : x \in children[g]
<1> SUFFICES ASSUME \A g \in Subtree(o) : x \notin children[g]
             PROVE  FALSE
  OBVIOUS
<1> DEFINE S == Subtree(o) \ {x}
<1>1. S \in SUBSET Node /\ o \in S
  BY SubtreeContains DEF Subtree
<1>2. Closed(S)
  BY SubtreeClosed DEF Closed
<1> QED
  BY <1>1, <1>2, SubtreeLeast

-----------------------------------------------------------------------------
(* What holds for every application *)

\* The parameter that is being removed is still registered.
RemovingRegistered == removing # 0 => params[removing] # None

BaseInv == TypeOK /\ IdsMatchParams /\ NeverRemovedAndDirty /\ RemovingRegistered

\* What the second part of a remove works on.
LEMMA RemovingObject ==
    ASSUME BaseInv, NEW i \in Id, FinishRemove(i)
    PROVE  /\ removing = i /\ i # 0 /\ removing' = 0
           /\ params[i] \in Obj /\ id[params[i]] = i
           /\ params[i] \in Registered
<1>1. removing = i /\ i # 0 /\ removing' = 0
  BY MaxIdNat DEF FinishRemove
<1>2. params[i] # None
  BY <1>1 DEF BaseInv, RemovingRegistered
<1>3. params[i] \in Obj
  BY <1>2 DEF BaseInv, TypeOK
<1>4. id[params[i]] = i
  BY <1>2 DEF BaseInv, IdsMatchParams
<1> QED
  BY <1>1, <1>3, <1>4 DEF Registered

\* The invariant holds at the start.
LEMMA BaseInit == Init => BaseInv
BY Distinct DEF Init, BaseInv, TypeOK, IdsMatchParams, NeverRemovedAndDirty,
                RemovingRegistered

\* What a flush does to the variables of the base invariant.
LEMMA BaseFlush ==
    ASSUME BaseInv, Flush,
           UNCHANGED <<ids, params, tree, removing, service, transporters, crashed>>
    PROVE  BaseInv'
BY Distinct DEF Flush, BaseInv, TypeOK, IdsMatchParams, NeverRemovedAndDirty,
                RemovingRegistered, tree, service

\* Every step keeps it.
LEMMA BaseStep == BaseInv /\ [Next]_vars => BaseInv'
<1> SUFFICES ASSUME BaseInv, [Next]_vars
             PROVE  BaseInv'
  OBVIOUS
<1> USE Distinct DEF BaseInv, RemovingRegistered
<1>1. ASSUME NEW o \in Obj, NEW isGroup \in BOOLEAN, NEW g \in Node,
             CreateParameter(o, isGroup, g)
      PROVE  BaseInv'
  <2>1. PICK i \in Id :
          /\ IsNextId(i)
          /\ ids' = ids \cup {i}
          /\ id' = [id EXCEPT ![o] = i]
          /\ dirtyParameter' = SetDirty(dirtyParameter, i, o)
          /\ children' = InsertChild(children, g, o, i)
          /\ params' = [params EXCEPT ![i] = o]
    BY <1>1 DEF CreateParameter
  <2>2. TypeOK'
    BY <1>1, <2>1 DEF CreateParameter, TypeOK, SetDirty, InsertChild, service
  <2>3. IdsMatchParams'
    BY <1>1, <2>1 DEF CreateParameter, TypeOK, IdsMatchParams
  <2>4. NeverRemovedAndDirty'
    BY <1>1, <2>1 DEF CreateParameter, TypeOK, NeverRemovedAndDirty, SetDirty
  <2>5. RemovingRegistered'
    BY <1>1, <2>1 DEF CreateParameter, AppIdle
  <2> QED
    BY <2>2, <2>3, <2>4, <2>5
<1>2. ASSUME NEW o \in Obj, SetOption(o)
      PROVE  BaseInv'
  BY <1>2 DEF SetOption, TypeOK, IdsMatchParams, NeverRemovedAndDirty, SetDirty,
              Registered, tree, service
<1>3. ASSUME NEW g \in Node, NEW o \in Obj, AddChild(g, o)
      PROVE  BaseInv'
  <2>1. TypeOK'
    BY <1>3 DEF AddChild, TypeOK, SetDirty, InsertChild, EraseChild, Registered, service
  <2>2. IdsMatchParams' /\ RemovingRegistered'
    BY <1>3 DEF AddChild, IdsMatchParams
  <2>3. NeverRemovedAndDirty'
    BY <1>3 DEF AddChild, TypeOK, NeverRemovedAndDirty, SetDirty, Registered
  <2> QED
    BY <2>1, <2>2, <2>3
<1>4. ASSUME NEW i \in Id, BeginRemove(i)
      PROVE  BaseInv'
  BY <1>4 DEF BeginRemove, TypeOK, IdsMatchParams, NeverRemovedAndDirty, tree, service
<1>5. ASSUME NEW i \in Id, FinishRemove(i)
      PROVE  BaseInv'
  <2> DEFINE o    == params[i]
             gone == Subtree(o)
             gids == {id[x] : x \in gone}
  <2>1. o \in Obj /\ gone \subseteq Node
    BY <1>5, MaxIdNat DEF FinishRemove, TypeOK, Subtree
  <2>2. gone \subseteq Obj
    <3>1. Closed(Obj)
      BY DEF Closed, TypeOK
    <3> QED
      BY <3>1, <2>1, SubtreeLeast
  <2>3. TypeOK'
    <3>1. /\ ids' \subseteq Id
          /\ params' \in [Id -> Obj \cup {None}]
          /\ dirtyParameter' \in [Id -> Obj \cup {None}]
      BY <1>5, <2>1 DEF FinishRemove, TypeOK
    <3>2. parent' \in [Obj -> Node \cup {None}]
      BY <1>5 DEF FinishRemove, TypeOK
    <3>3. children' \in [Node -> SUBSET Obj]
      BY <1>5 DEF FinishRemove, TypeOK, EraseChild
    <3>4. changed' \subseteq Obj
      BY <1>5, <2>2 DEF FinishRemove, TypeOK
    <3> QED
      BY <1>5, <3>1, <3>2, <3>3, <3>4 DEF FinishRemove, TypeOK, service
  <2>4. IdsMatchParams'
    BY <1>5, <2>1 DEF FinishRemove, TypeOK, IdsMatchParams
  <2>5. NeverRemovedAndDirty'
    BY <1>5 DEF FinishRemove, TypeOK, NeverRemovedAndDirty
  <2>6. RemovingRegistered'
    BY <1>5 DEF FinishRemove
  <2> QED
    BY <2>3, <2>4, <2>5, <2>6
<1>6. ASSUME NEW i \in Id, RemoveGroupCrash(i)
      PROVE  BaseInv'
  BY <1>6 DEF RemoveGroupCrash, TypeOK, IdsMatchParams, NeverRemovedAndDirty,
              lists, tree, service
<1>7. CASE Update
  BY <1>7, BaseFlush DEF Update
<1>8. CASE AddTransporter
  BY <1>8 DEF AddTransporter, TypeOK, IdsMatchParams, NeverRemovedAndDirty, lists, tree,
              service
<1>9. CASE RemoveTransporter
  BY <1>9 DEF RemoveTransporter, TypeOK, IdsMatchParams, NeverRemovedAndDirty,
              lists, tree, service
<1>10. CASE Clear
  BY <1>10 DEF Clear, AppIdle, TypeOK, IdsMatchParams, NeverRemovedAndDirty, tree, service
<1>11. ASSUME NEW u \in Updaters, NEW o \in Obj, RemoteFind(u, o)
       PROVE  BaseInv'
  BY <1>11 DEF RemoteFind, TypeOK, IdsMatchParams, NeverRemovedAndDirty, lists, tree
<1>12. ASSUME NEW u \in Updaters, RemoteSet(u)
       PROVE  BaseInv'
  BY <1>12 DEF RemoteSet, TypeOK, IdsMatchParams, NeverRemovedAndDirty, SetDirty, tree
<1>13. ASSUME NEW u \in Updaters, RemoteFlush(u)
       PROVE  BaseInv'
  BY <1>13, BaseFlush DEF RemoteFlush
<1>14. ASSUME NEW u \in Updaters, RemoteDone(u)
       PROVE  BaseInv'
  BY <1>14 DEF RemoteDone, TypeOK, IdsMatchParams, NeverRemovedAndDirty, lists, tree
<1>15. CASE UNCHANGED vars
  BY <1>15 DEF vars, TypeOK, IdsMatchParams, NeverRemovedAndDirty, lists, tree, service
<1> QED
  BY <1>1, <1>2, <1>3, <1>4, <1>5, <1>6, <1>7, <1>8, <1>9, <1>10, <1>11, <1>12, <1>13,
     <1>14, <1>15 DEF Next

\* The registry and the id list agree, and no id has both a REMOVE and an
\* UPDATE pending: for every application, with concurrent service threads.
THEOREM BaseSafe == Spec => [](TypeOK /\ IdsMatchParams /\ NeverRemovedAndDirty)
BY BaseInit, BaseStep, PTL DEF Spec, BaseInv

\* The maps, the tree and the flags keep their shape.
COROLLARY Types == Spec => []TypeOK
BY BaseSafe, PTL

\* An id is handed out exactly while a parameter with it is registered.
COROLLARY IdsSafe == Spec => []IdsMatchParams
BY BaseSafe, PTL

-----------------------------------------------------------------------------
(* The tree, for a server that is never cleared *)

TreeInv == BaseInv /\ TreeConsistent

\* Only these five variables matter to the tree.
LEMMA TreeFrame ==
    ASSUME TreeConsistent, UNCHANGED <<params, tree>>
    PROVE  TreeConsistent'
BY DEF TreeConsistent, LiveGroups, Registered, tree

\* The subtree of a registered parameter holds registered parameters only.
LEMMA SubtreeRegistered ==
    ASSUME TreeInv, NEW o \in Registered
    PROVE  Subtree(o) \subseteq Registered
<1>1. Registered \in SUBSET Node
  BY DEF Registered
<1>2. Closed(Registered)
  BY <1>1 DEF Closed, TreeInv, TreeConsistent
<1> QED
  BY <1>1, <1>2, SubtreeLeast

\* Adding a fresh child to a live group keeps the tree consistent.
LEMMA TreeCreate ==
    ASSUME TreeInv, NEW o \in Obj, NEW isGroup \in BOOLEAN, NEW g \in Node,
           CreateParameter(o, isGroup, g)
    PROVE  TreeConsistent'
<1> USE Distinct DEF TreeInv, BaseInv
<1>1. PICK i \in Id :
        /\ i \notin ids
        /\ id' = [id EXCEPT ![o] = i]
        /\ children' = InsertChild(children, g, o, i)
        /\ params' = [params EXCEPT ![i] = o]
  BY DEF CreateParameter, IsNextId
<1>2. o \notin Registered /\ params[i] = None
  BY <1>1 DEF CreateParameter, Registered, IdsMatchParams
<1>3. Registered' = Registered \cup {o}
  BY <1>1, <1>2 DEF Registered, TypeOK, IdsMatchParams
<1>4. LiveGroups \subseteq LiveGroups' /\ g \in LiveGroups
  BY <1>3 DEF LiveGroups, CreateParameter
<1>5. children' = [children EXCEPT ![g] = @ \cup {o}]
  <2>1. ~ \E c \in children[g] : id[c] = i
    BY <1>2 DEF TreeConsistent, Registered
  <2> QED
    BY <1>1, <2>1 DEF InsertChild
<1>6. parent' = [parent EXCEPT ![o] = g]
  BY DEF CreateParameter
<1>7. ASSUME NEW x \in Registered'
      PROVE  parent'[x] \in LiveGroups' /\ x \in children'[parent'[x]]
  <2>1. CASE x = o
    BY <2>1, <1>4, <1>5, <1>6 DEF TypeOK
  <2>2. CASE x # o
    <3>1. x \in Registered
      BY <1>3, <1>7, <2>2
    <3>2. parent[x] \in LiveGroups /\ x \in children[parent[x]]
      BY <3>1 DEF TreeConsistent
    <3>3. parent'[x] = parent[x] /\ parent[x] \in Node
      BY <3>1, <3>2, <2>2, <1>6 DEF Registered, TypeOK, LiveGroups
    <3> QED
      BY <3>2, <3>3, <1>4, <1>5 DEF TypeOK
  <2> QED
    BY <2>1, <2>2
<1>8. ASSUME NEW h \in Node, NEW c \in children'[h]
      PROVE  c \in Registered' /\ parent'[c] = h
  <2>1. CASE c = o
    <3>1. o \notin children[h]
      BY <1>2 DEF TreeConsistent
    <3>2. h = g
      BY <3>1, <2>1, <1>8, <1>5 DEF TypeOK
    <3> QED
      BY <3>2, <2>1, <1>3, <1>6 DEF TypeOK
  <2>2. CASE c # o
    <3>1. c \in children[h]
      BY <2>2, <1>8, <1>5 DEF TypeOK
    <3>2. c \in Registered /\ parent[c] = h
      BY <3>1 DEF TreeConsistent
    <3> QED
      BY <3>2, <2>2, <1>3, <1>6 DEF TypeOK, Registered
  <2> QED
    BY <2>1, <2>2
<1> QED
  BY <1>7, <1>8 DEF TreeConsistent

\* What a move does to the two maps it edits.
LEMMA MoveEffect ==
    ASSUME TreeInv, NEW g \in Node, NEW o \in Obj, AddChild(g, o)
    PROVE  /\ UNCHANGED <<params, id, group>>
           /\ o \in Registered /\ g \in LiveGroups \ Subtree(o)
           /\ \/ UNCHANGED <<parent, children>>
              \/ /\ parent[o] # g
                 /\ parent' = [parent EXCEPT ![o] = g]
                 /\ children' = [n \in Node |->
                        IF n = g THEN children[g] \cup {o} ELSE children[n] \ {o}]
<1> USE Distinct DEF TreeInv, BaseInv
<1> DEFINE p == parent[o]
           inserted == InsertChild(children, g, o, id[o])
<1>1. /\ o \in Registered /\ g \in LiveGroups \ Subtree(o)
      /\ UNCHANGED <<params, id, group>>
  BY DEF AddChild
<1>2. p \in LiveGroups /\ p \in Node /\ p # None /\ o \in children[p]
  <2>1. p \in LiveGroups /\ o \in children[p]
    BY <1>1 DEF TreeConsistent
  <2>2. LiveGroups \subseteq Node
    BY DEF LiveGroups, Registered
  <2> QED
    BY <2>1, <2>2
<1>3. \A x, y \in Registered : id[x] = id[y] => x = y
  BY DEF Registered
<1>4. \A x \in Registered : id[x] # 0
  BY DEF Registered
<1>5. \A h \in Node : \A c \in children[h] : c \in Registered /\ parent[c] = h
  BY DEF TreeConsistent
<1>6. CASE id[p] = id[g]
  <2>1. p = g
    BY <1>6, <1>1, <1>2, <1>3, <1>4 DEF LiveGroups, TypeOK
  <2>2. inserted = children
    BY <2>1, <1>2 DEF InsertChild
  <2>3. UNCHANGED <<parent, children>>
    BY <1>6, <1>2, <2>2 DEF AddChild
  <2> QED
    BY <1>1, <2>3
<1>7. CASE id[p] # id[g]
  <2>1. p # g
    BY <1>7
  <2>2. ~ \E c \in children[g] : id[c] = id[o]
    BY <1>1, <1>3, <1>5, <2>1
  <2>3. inserted = [children EXCEPT ![g] = @ \cup {o}]
    BY <2>2 DEF InsertChild
  <2>4. /\ parent' = [parent EXCEPT ![o] = g]
        /\ children' = EraseChild(inserted, p, o)
    BY <1>7, <1>2 DEF AddChild
  <2>5. {c \in children[p] : id[c] # id[o]} = children[p] \ {o}
    BY <1>1, <1>2, <1>3, <1>5
  <2>6. ASSUME NEW n \in Node, n # p
        PROVE  o \notin children[n]
    BY <2>6, <1>5
  <2>7. children' = [n \in Node |->
                        IF n = g THEN children[g] \cup {o} ELSE children[n] \ {o}]
    <3>1. children' = [inserted EXCEPT ![p] = {c \in children[p] : id[c] # id[o]}]
      BY <2>1, <2>3, <2>4, <1>2 DEF EraseChild, TypeOK
    <3>2. ASSUME NEW n \in Node
          PROVE  children'[n] = IF n = g THEN children[g] \cup {o}
                                         ELSE children[n] \ {o}
      <4>1. CASE n = g
        BY <4>1, <3>1, <2>1, <2>3, <1>2 DEF TypeOK
      <4>2. CASE n = p
        BY <4>2, <3>1, <2>1, <2>3, <2>5, <1>2 DEF TypeOK
      <4>3. CASE n # g /\ n # p
        <5>1. children'[n] = children[n]
          BY <4>3, <3>1, <2>3, <1>2 DEF TypeOK
        <5>2. children[n] \ {o} = children[n]
          BY <4>3, <2>6
        <5> QED
          BY <4>3, <5>1, <5>2
      <4> QED
        BY <4>1, <4>2, <4>3
    <3>3. children' = [n \in Node |-> children'[n]]
      BY <3>1, <2>3 DEF TypeOK
    <3> QED
      BY <3>2, <3>3
  <2> QED
    BY <1>1, <2>1, <2>4, <2>7
<1> QED
  BY <1>6, <1>7

\* Moving a parameter to another live group keeps the tree consistent.
LEMMA TreeMove ==
    ASSUME TreeInv, NEW g \in Node, NEW o \in Obj, AddChild(g, o)
    PROVE  TreeConsistent'
<1> USE Distinct DEF TreeInv, BaseInv
<1>1. CASE UNCHANGED <<parent, children>>
  BY <1>1, MoveEffect, TreeFrame DEF tree
<1>2. CASE ~ UNCHANGED <<parent, children>>
  <2>1. /\ parent' = [parent EXCEPT ![o] = g]
        /\ children' = [n \in Node |->
                IF n = g THEN children[g] \cup {o} ELSE children[n] \ {o}]
        /\ UNCHANGED <<params, id, group>>
        /\ o \in Registered /\ g \in LiveGroups
    BY <1>2, MoveEffect
  <2>2. Registered' = Registered /\ LiveGroups' = LiveGroups
    BY <2>1 DEF Registered, LiveGroups
  <2>3. ASSUME NEW x \in Registered'
        PROVE  parent'[x] \in LiveGroups' /\ x \in children'[parent'[x]]
    <3>1. x \in Obj /\ parent[x] \in LiveGroups /\ x \in children[parent[x]]
      BY <2>2 DEF TreeConsistent, Registered
    <3>2. LiveGroups \subseteq Node
      BY DEF LiveGroups, Registered
    <3> QED
      BY <2>1, <2>2, <3>1, <3>2 DEF TypeOK
  <2>4. ASSUME NEW h \in Node, NEW c \in children'[h]
        PROVE  c \in Registered' /\ parent'[c] = h
    <3>1. \A n \in Node : \A y \in children[n] : y \in Registered /\ parent[y] = n
      BY DEF TreeConsistent
    <3> QED
      BY <2>1, <2>2, <2>4, <3>1 DEF TypeOK, Registered
  <2> QED
    BY <2>3, <2>4 DEF TreeConsistent
<1> QED
  BY <1>1, <1>2

\* What a remove does: the whole subtree leaves the registry and the tree.
LEMMA RemoveEffect ==
    ASSUME TreeInv, NEW i \in Id, FinishRemove(i)
    PROVE  /\ params[i] \in Registered
           /\ Subtree(params[i]) \subseteq Registered
           /\ Registered' = Registered \ Subtree(params[i])
           /\ UNCHANGED <<id, group>>
           /\ parent' = [x \in Obj |->
                IF x \in Subtree(params[i]) THEN None ELSE parent[x]]
           /\ children' = [n \in Node |->
                IF n \in Subtree(params[i]) THEN {} ELSE children[n] \ Subtree(params[i])]
<1> USE Distinct DEF TreeInv, BaseInv
<1> DEFINE o    == params[i]
           gone == Subtree(o)
           gids == {id[x] : x \in gone}
<1>1. o \in Registered /\ id[o] = i
  BY RemovingObject
<1>2. gone \subseteq Registered /\ o \in gone
  BY <1>1, SubtreeRegistered, SubtreeContains DEF Registered
<1>3. \A x, y \in Registered : id[x] = id[y] => x = y
  BY DEF Registered
<1>4. /\ UNCHANGED <<id, group>>
      /\ parent' = [x \in Obj |-> IF x \in gone THEN None ELSE parent[x]]
      /\ params' = [j \in Id |-> IF j \in gids THEN None ELSE params[j]]
  BY DEF FinishRemove
<1>5. Registered' = Registered \ gone
  <2>1. ASSUME NEW x \in Registered
        PROVE  x \in Registered' <=> x \notin gone
    <3>1. id[x] \in gids <=> x \in gone
      BY <1>2, <1>3
    <3> QED
      BY <3>1, <1>4 DEF Registered
  <2>2. Registered' \subseteq Registered
    BY <1>4 DEF Registered
  <2> QED
    BY <2>1, <2>2
<1>6. \A h \in Node : \A c \in children[h] : c \in Registered /\ parent[c] = h
  BY DEF TreeConsistent
<1>7. ASSUME NEW n \in Node, n \notin gone
      PROVE  children'[n] = children[n] \ gone
  <2>1. ASSUME NEW c \in children[n], c \in gone
        PROVE  c = o /\ n = parent[o]
    <3>1. CASE c = o
      BY <3>1, <2>1, <1>6
    <3>2. CASE c # o
      <4>1. PICK h \in gone : c \in children[h]
        BY <3>2, <2>1, <1>1, SubtreeParent DEF Registered
      <4>2. h = n
        BY <4>1, <2>1, <1>2, <1>6 DEF Registered
      <4> QED
        BY <4>1, <4>2, <1>7
    <3> QED
      BY <3>1, <3>2
  <2>2. CASE n = parent[o]
    <3>1. children'[n] = {c \in children[n] : id[c] # id[o]}
      BY <2>2, <1>7 DEF FinishRemove, EraseChild, TypeOK
    <3>2. {c \in children[n] : id[c] # id[o]} = children[n] \ {o}
      BY <1>1, <1>3, <1>6
    <3> QED
      BY <3>1, <3>2, <2>1, <1>2
  <2>3. CASE n # parent[o]
    <3>1. children'[n] = children[n]
      BY <2>3, <1>7 DEF FinishRemove
    <3> QED
      BY <3>1, <2>1, <2>3
  <2> QED
    BY <2>2, <2>3
<1>8. ASSUME NEW n \in Node, n \in gone
      PROVE  children'[n] = {}
  BY <1>8 DEF FinishRemove
<1>9. children' = [n \in Node |-> children'[n]]
  BY DEF FinishRemove
<1>10. children' = [n \in Node |-> IF n \in gone THEN {} ELSE children[n] \ gone]
  BY <1>7, <1>8, <1>9
<1> QED
  BY <1>1, <1>2, <1>4, <1>5, <1>10

\* Removing a parameter and everything below it keeps the tree consistent.
LEMMA TreeRemove ==
    ASSUME TreeInv, NEW i \in Id, FinishRemove(i)
    PROVE  TreeConsistent'
<1> USE Distinct DEF TreeInv, BaseInv
<1> DEFINE gone == Subtree(params[i])
<1>1. /\ Registered' = Registered \ gone
      /\ gone \subseteq Registered
      /\ params[i] \in Registered
      /\ UNCHANGED <<id, group>>
      /\ parent' = [x \in Obj |-> IF x \in gone THEN None ELSE parent[x]]
      /\ children' = [n \in Node |-> IF n \in gone THEN {} ELSE children[n] \ gone]
  BY RemoveEffect
<1>2. LiveGroups' = LiveGroups \ gone
  BY <1>1 DEF LiveGroups, Registered
<1>3. ASSUME NEW x \in Registered'
      PROVE  parent'[x] \in LiveGroups' /\ x \in children'[parent'[x]]
  <2>1. x \in Obj /\ x \notin gone /\ parent'[x] = parent[x]
    BY <1>1 DEF Registered
  <2>2. parent[x] \in LiveGroups /\ x \in children[parent[x]]
    BY <1>1 DEF TreeConsistent
  <2>3. LiveGroups \subseteq Node
    BY DEF LiveGroups, Registered
  <2>4. parent[x] \notin gone
    BY <2>1, <2>2, <1>1, SubtreeClosed DEF Registered
  <2> QED
    BY <2>1, <2>2, <2>3, <2>4, <1>1, <1>2
<1>4. ASSUME NEW h \in Node, NEW c \in children'[h]
      PROVE  c \in Registered' /\ parent'[c] = h
  <2>1. h \notin gone /\ c \in children[h] /\ c \notin gone
    BY <1>1, <1>4
  <2>2. c \in Registered /\ parent[c] = h
    BY <2>1 DEF TreeConsistent
  <2> QED
    BY <2>1, <2>2, <1>1 DEF Registered
<1> QED
  BY <1>3, <1>4 DEF TreeConsistent

-----------------------------------------------------------------------------
(* Reachability: what INITIALIZE sends *)

\* Nothing but the root and registered parameters hangs below the root.
LEMMA ReachesOnlyRegistered ==
    ASSUME TreeInv
    PROVE  SentByInit \subseteq Registered
<1> DEFINE S == {Root} \cup Registered
<1>1. S \in SUBSET Node /\ Root \in S
  BY DEF Registered
<1>2. Closed(S)
  BY <1>1 DEF Closed, TreeInv, TreeConsistent
<1> QED
  BY <1>1, <1>2, SubtreeLeast DEF SentByInit

\* "Every registered parameter is below the root", stated on closed sets.
Reachable == \A S \in SUBSET Node : Root \in S /\ Closed(S) => Registered \subseteq S

\* When all that is registered is below the root, INITIALIZE sends it all.
LEMMA ReachableIsInit ==
    ASSUME TreeInv, Reachable
    PROVE  InitSendsRegistry
<1>1. Registered \subseteq Subtree(Root)
  BY DEF Reachable, Subtree, Registered
<1> QED
  BY <1>1, ReachesOnlyRegistered, Distinct DEF InitSendsRegistry, SentByInit, Registered

\* Steps that leave registry and tree alone.
LEMMA ReachFrame ==
    ASSUME Reachable, UNCHANGED <<params, tree>>
    PROVE  Reachable'
BY DEF Reachable, Closed, Registered, tree

\* A new parameter is below its group.
LEMMA ReachCreate ==
    ASSUME TreeInv, Reachable, NEW o \in Obj, NEW isGroup \in BOOLEAN, NEW g \in Node,
           CreateParameter(o, isGroup, g)
    PROVE  Reachable'
<1> USE Distinct DEF TreeInv, BaseInv
<1>1. PICK i \in Id :
        /\ i \notin ids
        /\ id' = [id EXCEPT ![o] = i]
        /\ children' = InsertChild(children, g, o, i)
        /\ params' = [params EXCEPT ![i] = o]
  BY DEF CreateParameter, IsNextId
<1>2. o \notin Registered /\ params[i] = None
  BY <1>1 DEF CreateParameter, Registered, IdsMatchParams
<1>3. Registered' = Registered \cup {o}
  BY <1>1, <1>2 DEF Registered, TypeOK, IdsMatchParams
<1>4. ~ \E c \in children[g] : id[c] = i
  BY <1>2 DEF TreeConsistent, Registered
<1>5. children' = [children EXCEPT ![g] = @ \cup {o}]
  BY <1>1, <1>4 DEF InsertChild
<1>6. ASSUME NEW S \in SUBSET Node, Root \in S, Closed(S)'
      PROVE  Registered' \subseteq S
  <2>1. \A n \in S : children'[n] \subseteq S
    BY <1>6 DEF Closed
  <2>2. \A n \in S : children[n] \subseteq children'[n]
    BY <1>5 DEF TypeOK
  <2>3. Registered \subseteq S
    BY <1>6, <2>1, <2>2 DEF Reachable, Closed
  <2>4. g \in S
    BY <1>6, <2>3 DEF CreateParameter, LiveGroups
  <2>5. o \in S
    BY <2>1, <2>4, <1>5 DEF TypeOK
  <2> QED
    BY <2>3, <2>5, <1>3
<1> QED
  BY <1>6 DEF Reachable

\* What remains after a remove is still below the root.
LEMMA ReachRemove ==
    ASSUME TreeInv, Reachable, NEW i \in Id, FinishRemove(i)
    PROVE  Reachable'
<1> USE Distinct DEF TreeInv, BaseInv
<1> DEFINE gone == Subtree(params[i])
<1>1. /\ Registered' = Registered \ gone
      /\ gone \subseteq Registered
      /\ params[i] \in Registered
      /\ children' = [n \in Node |-> IF n \in gone THEN {} ELSE children[n] \ gone]
  BY RemoveEffect
<1>2. ASSUME NEW S \in SUBSET Node, Root \in S, Closed(S)'
      PROVE  Registered' \subseteq S
  <2> DEFINE T == S \cup gone
  <2>1. T \in SUBSET Node /\ Root \in T
    BY <1>1, <1>2 DEF Registered
  <2>2. ASSUME NEW n \in T
        PROVE  children[n] \subseteq T
    <3>1. CASE n \in gone
      BY <3>1, <1>1, SubtreeClosed DEF Registered
    <3>2. CASE n \notin gone
      <4>1. n \in S /\ n \in Node
        BY <3>2
      <4>2. children'[n] \subseteq S
        BY <4>1, <1>2 DEF Closed
      <4>3. children'[n] = children[n] \ gone
        BY <4>1, <3>2, <1>1
      <4> QED
        BY <4>2, <4>3
    <3> QED
      BY <3>1, <3>2
  <2>3. Registered \subseteq T
    BY <2>1, <2>2 DEF Reachable, Closed
  <2> QED
    BY <2>3, <1>1
<1> QED
  BY <1>2 DEF Reachable

\* A group never moves below itself, so a move cuts nothing off: a closed set
\* with the root holds the target, hence o, hence the part of o's subtree it
\* shares with the old tree, which is all of it.
LEMMA ReachMove ==
    ASSUME TreeInv, Reachable, NEW g \in Node, NEW o \in Obj, AddChild(g, o)
    PROVE  Reachable'
<1> USE Distinct DEF TreeInv, BaseInv
<1>1. CASE UNCHANGED <<parent, children>>
  BY <1>1, MoveEffect, ReachFrame DEF tree
<1>2. CASE ~ UNCHANGED <<parent, children>>
  <2>1. /\ children' = [n \in Node |->
                IF n = g THEN children[g] \cup {o} ELSE children[n] \ {o}]
        /\ UNCHANGED <<params, id>>
        /\ o \in Registered /\ g \in LiveGroups \ Subtree(o)
    BY <1>2, MoveEffect
  <2>2. ASSUME NEW S \in SUBSET Node, Root \in S, Closed(S)'
        PROVE  Registered \subseteq S
    <3>1. \A n \in S : children'[n] \subseteq S
      BY <2>2 DEF Closed
    <3>2. \A n \in S : children[n] \subseteq S \cup {o}
      BY <3>1, <2>1
    <3> DEFINE T == S \cup Subtree(o)
    <3>3. T \in SUBSET Node /\ Root \in T /\ o \in Subtree(o)
      BY <2>1, <2>2, SubtreeContains DEF Registered, Subtree
    <3>4. Closed(T)
      BY <3>2, <3>3, <2>1, SubtreeClosed DEF Closed, Registered
    <3>5. Registered \subseteq T
      BY <3>3, <3>4 DEF Reachable
    <3>6. g \in S
      BY <3>5, <2>1, <2>2 DEF LiveGroups
    <3>7. o \in S
      BY <3>1, <3>6, <2>1
    <3>8. S \cap Subtree(o) \in SUBSET Node /\ o \in S \cap Subtree(o)
      BY <3>3, <3>7
    <3>9. Closed(S \cap Subtree(o))
      BY <3>2, <3>7, <2>1, SubtreeClosed DEF Closed, Registered
    <3>10. Subtree(o) \subseteq S
      BY <3>8, <3>9, <2>1, SubtreeLeast DEF Registered
    <3> QED
      BY <3>5, <3>10
  <2>3. Registered' = Registered
    BY <2>1 DEF Registered
  <2> QED
    BY <2>2, <2>3 DEF Reachable
<1> QED
  BY <1>1, <1>2

-----------------------------------------------------------------------------
(* The tree and INITIALIZE, assembled *)

\* The tree is consistent at the start.
LEMMA TreeInit == Init => TreeConsistent /\ Reachable
BY Distinct DEF Init, TreeConsistent, Reachable, Registered, LiveGroups

\* Every step keeps it so on a server that is never cleared.
LEMMA TreeStep ==
    ASSUME ~ServerClears
    PROVE  TreeInv /\ Reachable /\ [Next]_vars => (TreeInv /\ Reachable)'
<1> SUFFICES ASSUME TreeInv, Reachable, [Next]_vars
             PROVE  TreeInv' /\ Reachable'
  OBVIOUS
<1>1. BaseInv'
  BY BaseStep DEF TreeInv
<1>2. ASSUME NEW o \in Obj, NEW isGroup \in BOOLEAN, NEW g \in Node,
             CreateParameter(o, isGroup, g)
      PROVE  TreeConsistent' /\ Reachable'
  BY <1>2, TreeCreate, ReachCreate
<1>3. ASSUME NEW g \in Node, NEW o \in Obj, AddChild(g, o)
      PROVE  TreeConsistent' /\ Reachable'
  BY <1>3, TreeMove, ReachMove
<1>4. ASSUME NEW i \in Id, FinishRemove(i)
      PROVE  TreeConsistent' /\ Reachable'
  BY <1>4, TreeRemove, ReachRemove
<1>5. ASSUME UNCHANGED <<params, tree>>
      PROVE  TreeConsistent' /\ Reachable'
  <2>1. TreeConsistent'
    BY <1>5, TreeFrame DEF TreeInv
  <2>2. Reachable'
    BY <1>5, ReachFrame
  <2> QED
    BY <2>1, <2>2
<1>6. \/ \E o \in Obj, isGroup \in BOOLEAN, g \in Node : CreateParameter(o, isGroup, g)
      \/ \E g \in Node, o \in Obj : AddChild(g, o)
      \/ \E i \in Id : FinishRemove(i)
      \/ UNCHANGED <<params, tree>>
  BY DEF Next, vars, lists, SetOption, BeginRemove, RemoveGroupCrash, Update,
         AddTransporter, RemoveTransporter, Clear, RemoteFind, RemoteSet, RemoteFlush,
         RemoteDone
<1> QED
  BY <1>1, <1>2, <1>3, <1>4, <1>5, <1>6 DEF TreeInv

\* On a server that is never cleared, parents, child maps and registry agree,
\* and INITIALIZE sends exactly the registered parameters, whatever the
\* application and the service threads did before.
THEOREM TreeSafe ==
    ASSUME ~ServerClears
    PROVE  Spec => [](TreeConsistent /\ InitSendsRegistry)
<1>1. Init => TreeInv /\ Reachable
  BY BaseInit, TreeInit DEF TreeInv
<1>2. TreeInv /\ Reachable /\ [Next]_vars => (TreeInv /\ Reachable)'
  BY TreeStep
<1>3. TreeInv /\ Reachable => TreeConsistent /\ InitSendsRegistry
  BY ReachableIsInit DEF TreeInv
<1> QED
  BY <1>1, <1>2, <1>3, PTL DEF Spec

\* INITIALIZE sends every registered parameter and nothing else.
COROLLARY InitializeSafe ==
    ASSUME ~ServerClears
    PROVE  Spec => []InitSendsRegistry
BY TreeSafe, PTL

-----------------------------------------------------------------------------
(* No change is forgotten, when removes are flushed before ids are reused *)

\* A pending REMOVE has no registered successor yet (a parameter that is being
\* removed is one), and a pending UPDATE whose id is registered is about the
\* registered object.
PendingInv ==
    /\ \A i \in Id : removedParameter[i] # None => params[i] = None \/ removing = i
    /\ removing # 0 => removedParameter[removing] # None
    /\ \A i \in Id : dirtyParameter[i] # None /\ params[i] # None
                        => dirtyParameter[i] = params[i]
    /\ ChangesArePending

\* Every step keeps unsent changes pending under the discipline.
LEMMA PendingStep ==
    ASSUME FlushAfterRemove, Updaters = {}, ~ServerClears
    PROVE  BaseInv /\ PendingInv /\ [Next]_vars => PendingInv'
<1> SUFFICES ASSUME BaseInv, PendingInv, [Next]_vars
             PROVE  PendingInv'
  OBVIOUS
<1> USE Distinct, MaxIdNat DEF BaseInv, PendingInv
<1>1. ASSUME NEW o \in Obj, NEW isGroup \in BOOLEAN, NEW g \in Node,
             CreateParameter(o, isGroup, g)
      PROVE  PendingInv'
  <2>1. PICK i \in Id :
          /\ i \notin ids
          /\ id' = [id EXCEPT ![o] = i]
          /\ dirtyParameter' = SetDirty(dirtyParameter, i, o)
          /\ params' = [params EXCEPT ![i] = o]
    BY <1>1 DEF CreateParameter, IsNextId
  <2>2. /\ changed' = changed \cup {o}
        /\ \A j \in Id : removedParameter[j] = None
        /\ removedParameter' = removedParameter
        /\ id[o] = 0
        /\ removing = 0 /\ removing' = 0
    BY <1>1 DEF CreateParameter, AppIdle
  <2>3. dirtyParameter' = [dirtyParameter EXCEPT ![i] = o]
    BY <2>1, <2>2 DEF SetDirty
  <2>4. ChangesArePending'
    <3>1. ASSUME NEW x \in Registered', x \in changed'
          PROVE  dirtyParameter'[id'[x]] = x
      <4>1. CASE x = o
        BY <4>1, <2>1, <2>3 DEF TypeOK
      <4>2. CASE x # o
        <5>1. id'[x] = id[x] /\ x \in Obj /\ x \in changed /\ id[x] \in Id
          BY <4>2, <3>1, <2>1, <2>2 DEF Registered, TypeOK
        <5>2. id[x] # i /\ x \in Registered
          BY <4>2, <5>1, <2>1 DEF Registered, TypeOK
        <5>3. dirtyParameter[id[x]] = x
          BY <5>1, <5>2, <2>2 DEF ChangesArePending
        <5> QED
          BY <5>1, <5>2, <5>3, <2>3 DEF TypeOK
      <4> QED
        BY <4>1, <4>2
    <3> QED
      BY <3>1 DEF ChangesArePending
  <2>5. \A j \in Id : dirtyParameter'[j] # None /\ params'[j] # None
                        => dirtyParameter'[j] = params'[j]
    BY <2>1, <2>3 DEF TypeOK
  <2> QED
    BY <2>2, <2>4, <2>5
<1>2. ASSUME NEW o \in Obj, SetOption(o)
      PROVE  PendingInv'
  <2>1. /\ UNCHANGED <<params, removedParameter, id, removing>>
        /\ o \in Registered
        /\ changed' = changed \cup {o}
        /\ dirtyParameter' = SetDirty(dirtyParameter, id[o], o)
        /\ removing = 0
    BY <1>2 DEF SetOption, AppIdle, tree
  <2> QED
    BY <2>1 DEF SetDirty, Registered, TypeOK, ChangesArePending
<1>3. ASSUME NEW g \in Node, NEW o \in Obj, AddChild(g, o)
      PROVE  PendingInv'
  <2>1. /\ UNCHANGED <<params, removedParameter, id, removing>>
        /\ o \in Registered
        /\ \/ UNCHANGED <<changed, dirtyParameter>>
           \/ /\ changed' = changed \cup {o}
              /\ dirtyParameter' = SetDirty(dirtyParameter, id[o], o)
        /\ removing = 0
    BY <1>3 DEF AddChild, AppIdle
  <2>2. id[o] \in Id /\ id[o] # 0 /\ params[id[o]] = o
    BY <2>1 DEF Registered
  <2>3. removedParameter[id[o]] = None
    BY <2>1, <2>2
  <2>4. \/ UNCHANGED <<changed, dirtyParameter>>
        \/ /\ changed' = changed \cup {o}
           /\ dirtyParameter' = [dirtyParameter EXCEPT ![id[o]] = o]
    BY <2>1, <2>3 DEF SetDirty
  <2>5. ChangesArePending'
    BY <2>1, <2>2, <2>4 DEF ChangesArePending, Registered, TypeOK
  <2> QED
    BY <2>1, <2>2, <2>4, <2>5 DEF TypeOK
<1>4. ASSUME NEW i \in Id, BeginRemove(i)
      PROVE  PendingInv'
  <2>1. /\ UNCHANGED <<params, id, changed>>
        /\ params[i] # None
        /\ removedParameter' = [removedParameter EXCEPT ![i] = params[i]]
        /\ dirtyParameter' = [dirtyParameter EXCEPT ![i] = None]
        /\ removing = 0 /\ removing' = i
    BY <1>4 DEF BeginRemove, AppIdle, tree
  <2>2. ChangesArePending'
    BY <2>1 DEF ChangesArePending, Registered, TypeOK
  <2>3. \A j \in Id : removedParameter'[j] # None => params'[j] = None \/ removing' = j
    BY <2>1 DEF TypeOK
  <2> QED
    BY <2>1, <2>2, <2>3 DEF TypeOK
<1>5. ASSUME NEW i \in Id, FinishRemove(i)
      PROVE  PendingInv'
  <2> DEFINE gone == Subtree(params[i])
             gids == {id[x] : x \in gone}
  <2>1. /\ dirtyParameter' = [j \in Id |->
                IF j \in gids /\ removedParameter[j] = None THEN params[j]
                ELSE dirtyParameter[j]]
        /\ params' = [j \in Id |-> IF j \in gids THEN None ELSE params[j]]
        /\ changed' = changed \cup gone
        /\ UNCHANGED <<id, removedParameter>>
        /\ removing = i /\ removing' = 0
    BY <1>5 DEF FinishRemove
  <2>2. i \in gids
    <3>1. params[i] \in Node /\ id[params[i]] = i
      BY <2>1 DEF TypeOK, IdsMatchParams, RemovingRegistered
    <3> QED
      BY <3>1, SubtreeContains
  <2>3. ChangesArePending'
    <3>1. ASSUME NEW x \in Registered', x \in changed'
          PROVE  dirtyParameter'[id'[x]] = x
      <4>1. x \in Obj /\ id[x] \in Id /\ id[x] \notin gids /\ params[id[x]] = x
        BY <2>1, <3>1 DEF Registered
      <4>2. x \in changed /\ x \in Registered
        BY <2>1, <3>1, <4>1 DEF Registered
      <4>3. dirtyParameter[id[x]] = x
        BY <4>1, <4>2, <2>1, <2>2 DEF ChangesArePending
      <4> QED
        BY <2>1, <4>1, <4>3
    <3> QED
      BY <3>1 DEF ChangesArePending
  <2>4. \A j \in Id : removedParameter'[j] # None => params'[j] = None
    BY <2>1, <2>2
  <2>5. \A j \in Id : dirtyParameter'[j] # None /\ params'[j] # None
                        => dirtyParameter'[j] = params'[j]
    BY <2>1
  <2> QED
    BY <2>1, <2>3, <2>4, <2>5
<1>6. CASE Update
  <2>1. /\ changed' = changed \ {dirtyParameter[i] : i \in Id}
        /\ removedParameter' = [i \in Id |-> None]
        /\ dirtyParameter' = [i \in Id |-> None]
        /\ removing = 0 /\ removing' = 0
        /\ UNCHANGED <<id, params>>
    BY <1>6 DEF Update, Flush, AppIdle, tree
  <2>2. Registered' \cap changed' = {}
    BY <2>1 DEF ChangesArePending, Registered
  <2> QED
    BY <2>1, <2>2 DEF ChangesArePending
<1>7. CASE UNCHANGED <<lists, tree, changed, removing>>
  BY <1>7 DEF lists, tree, ChangesArePending, Registered
<1>8. \/ UNCHANGED <<lists, tree, changed, removing>>
      \/ \E o \in Obj, isGroup \in BOOLEAN, g \in Node : CreateParameter(o, isGroup, g)
      \/ \E o \in Obj : SetOption(o)
      \/ \E g \in Node, o \in Obj : AddChild(g, o)
      \/ \E i \in Id : BeginRemove(i)
      \/ \E i \in Id : FinishRemove(i)
      \/ Update
  BY DEF Next, vars, RemoveGroupCrash, AddTransporter, RemoveTransporter, Clear
<1> QED
  BY <1>1, <1>2, <1>3, <1>4, <1>5, <1>6, <1>7, <1>8

\* At the start nothing is pending.
LEMMA PendingInit == Init => PendingInv
BY Distinct DEF Init, PendingInv, ChangesArePending

\* When the application flushes a remove before it creates again, and no
\* service thread sets a parameter late, every unsent change of a registered
\* parameter is on the list of the next flush.
THEOREM ChangesKept ==
    ASSUME FlushAfterRemove, Updaters = {}, ~ServerClears
    PROVE  Spec => []ChangesArePending
<1>1. BaseInv /\ PendingInv /\ [Next]_vars => (BaseInv /\ PendingInv)'
  BY BaseStep, PendingStep
<1>2. Init => BaseInv /\ PendingInv
  BY BaseInit, PendingInit
<1>3. PendingInv => ChangesArePending
  BY DEF PendingInv
<1> QED
  BY <1>1, <1>2, <1>3, PTL DEF Spec

-----------------------------------------------------------------------------
(* The disciplined server implements RegistryMirror *)

\* Where the packets sent so far and the registry differ, the next flush has
\* the packet that makes them agree, and only such packets.
MirrorInv ==
    /\ \A i \in Id : dirtyParameter[i] # None => dirtyParameter[i] = params[i]
    /\ \A i \in Id : announced[i] # None => id[announced[i]] = i
    /\ \A i \in Id : announced[i] # None /\ announced[i] # params[i]
                        => removedParameter[i] # None
    /\ \A i \in Id : params[i] # None /\ announced[i] # params[i] /\ removing # i
                        => dirtyParameter[i] = params[i]
    /\ removing # 0 => children[params[removing]] = {}

\* The initial state maps to one of the mirror.
LEMMA MirrorInit == Init => MirrorInv /\ Mirror!Init
BY Distinct DEF Init, MirrorInv, Mirror!Init, Registered, Published

\* A flush leaves the clients with the registry.
LEMMA FlushEffect ==
    ASSUME BaseInv, PendingInv, MirrorInv, Update
    PROVE  announced' = params /\ Published' = Registered
<1> USE Distinct, MaxIdNat DEF BaseInv
<1>1. ASSUME NEW i \in Id
      PROVE  announced'[i] = params[i]
  <2>1. removing = 0 /\ i # removing
    BY DEF Update, AppIdle
  <2>2. announced'[i] = IF dirtyParameter[i] # None THEN dirtyParameter[i]
                        ELSE IF removedParameter[i] # None THEN None
                        ELSE announced[i]
    BY DEF Update, Flush
  <2>3. CASE dirtyParameter[i] # None
    BY <2>2, <2>3 DEF MirrorInv
  <2>4. CASE dirtyParameter[i] = None /\ removedParameter[i] # None
    BY <2>1, <2>2, <2>4 DEF PendingInv
  <2>5. CASE dirtyParameter[i] = None /\ removedParameter[i] = None
    <3>1. announced'[i] = announced[i]
      BY <2>2, <2>5
    <3>2. CASE params[i] # None
      BY <2>1, <2>5, <3>1, <3>2 DEF MirrorInv
    <3>3. CASE params[i] = None
      BY <2>5, <3>1, <3>3 DEF MirrorInv
    <3> QED
      BY <3>2, <3>3
  <2> QED
    BY <2>3, <2>4, <2>5
<1>2. announced' = params
  <2>1. announced' = [i \in Id |-> announced'[i]]
    BY DEF Update, Flush
  <2>2. params = [i \in Id |-> params[i]]
    BY DEF TypeOK
  <2> QED
    BY <2>1, <2>2, <1>1
<1>3. UNCHANGED id
  BY DEF Update, tree
<1>4. Published' = {o \in Obj : \E i \in Id : params[i] = o}
  BY <1>2 DEF Published
<1>5. ASSUME NEW o \in Obj, NEW i \in Id, params[i] = o
      PROVE  o \in Registered
  BY <1>5 DEF Registered, IdsMatchParams
<1>6. ASSUME NEW o \in Registered
      PROVE  \E i \in Id : params[i] = o
  BY DEF Registered
<1>7. Registered \subseteq Obj
  BY DEF Registered
<1> QED
  BY <1>2, <1>4, <1>5, <1>6, <1>7

\* An empty group, or a value parameter, is removed alone.
LEMMA RemoveAlone ==
    ASSUME TreeInv, MirrorInv, NEW i \in Id, FinishRemove(i)
    PROVE  Subtree(params[i]) = {params[i]}
<1>1. params[i] \in Node /\ children[params[i]] = {}
  BY RemovingObject DEF TreeInv, MirrorInv
<1>2. {params[i]} \in SUBSET Node /\ Closed({params[i]})
  BY <1>1 DEF Closed
<1> QED
  BY <1>1, <1>2, SubtreeLeast, SubtreeContains

\* Every step maps to a step of the mirror or to none.
LEMMA MirrorStep ==
    ASSUME FlushAfterRemove, EmptyGroupsOnly, Updaters = {}, ~ServerClears
    PROVE  TreeInv /\ PendingInv /\ MirrorInv /\ [Next]_vars
             => MirrorInv' /\ [Mirror!Next]_(Mirror!mvars)
<1> SUFFICES ASSUME TreeInv, PendingInv, MirrorInv, [Next]_vars
             PROVE  MirrorInv' /\ [Mirror!Next]_(Mirror!mvars)
  OBVIOUS
<1> USE Distinct, MaxIdNat DEF BaseInv, TreeInv
<1>1. ASSUME NEW o \in Obj, NEW isGroup \in BOOLEAN, NEW g \in Node,
             CreateParameter(o, isGroup, g)
      PROVE  MirrorInv' /\ Mirror!Create(o)
  <2>1. PICK i \in Id :
          /\ i \notin ids
          /\ id' = [id EXCEPT ![o] = i]
          /\ dirtyParameter' = SetDirty(dirtyParameter, i, o)
          /\ params' = [params EXCEPT ![i] = o]
    BY <1>1 DEF CreateParameter, IsNextId
  <2>2. /\ \A j \in Id : removedParameter[j] = None
        /\ UNCHANGED <<removedParameter, announced>>
        /\ id[o] = 0
        /\ removing = 0 /\ removing' = 0
    BY <1>1 DEF CreateParameter, AppIdle
  <2>3. dirtyParameter' = [dirtyParameter EXCEPT ![i] = o]
    BY <2>1, <2>2 DEF SetDirty
  <2>4. o \notin Registered /\ o \notin Published /\ params[i] = None
    BY <2>1, <2>2 DEF Registered, Published, MirrorInv, IdsMatchParams
  <2>5. Registered' = Registered \cup {o}
    BY <2>1, <2>4 DEF Registered, TypeOK, IdsMatchParams
  <2>6. Published' = Published
    BY <2>2 DEF Published
  <2>7. MirrorInv'
    BY <2>1, <2>2, <2>3, <2>4 DEF MirrorInv, TypeOK
  <2> QED
    BY <2>4, <2>5, <2>6, <2>7 DEF Mirror!Create
<1>2. ASSUME NEW o \in Obj, SetOption(o) \/ \E g \in Node : AddChild(g, o)
      PROVE  MirrorInv' /\ UNCHANGED Mirror!mvars
  <2>1. /\ UNCHANGED <<params, removedParameter, id, announced, removing>>
        /\ o \in Registered
        /\ \/ UNCHANGED dirtyParameter
           \/ dirtyParameter' = SetDirty(dirtyParameter, id[o], o)
        /\ removing = 0
    BY <1>2 DEF SetOption, AddChild, AppIdle, tree
  <2>2. MirrorInv'
    BY <2>1 DEF SetDirty, Registered, TypeOK, MirrorInv
  <2>3. Registered' = Registered /\ Published' = Published
    BY <2>1 DEF Registered, Published
  <2> QED
    BY <2>2, <2>3 DEF Mirror!mvars
<1>3. ASSUME NEW i \in Id, BeginRemove(i)
      PROVE  MirrorInv' /\ UNCHANGED Mirror!mvars
  <2>1. /\ UNCHANGED <<params, id, children, announced>>
        /\ params[i] # None
        /\ children[params[i]] = {}
        /\ removedParameter' = [removedParameter EXCEPT ![i] = params[i]]
        /\ dirtyParameter' = [dirtyParameter EXCEPT ![i] = None]
        /\ removing = 0 /\ removing' = i
    BY <1>3 DEF BeginRemove, AppIdle, tree
  <2>2. MirrorInv'
    BY <2>1 DEF MirrorInv, TypeOK
  <2>3. Registered' = Registered /\ Published' = Published
    BY <2>1 DEF Registered, Published
  <2> QED
    BY <2>2, <2>3 DEF Mirror!mvars
<1>4. ASSUME NEW i \in Id, FinishRemove(i)
      PROVE  MirrorInv' /\ Mirror!Next
  <2>1. Registered' = Registered \ {params[i]} /\ params[i] \in Registered
    BY <1>4, RemoveAlone, RemoveEffect
  <2>2. id[params[i]] = i /\ removing = i /\ removing' = 0
    BY <1>4, RemovingObject DEF MirrorInv, PendingInv, TreeInv
  <2>3. {id[x] : x \in Subtree(params[i])} = {i}
    BY <1>4, <2>2, RemoveAlone
  <2>4. params' = [j \in Id |-> IF j = i THEN None ELSE params[j]]
    BY <1>4, <2>3 DEF FinishRemove
  <2>5. dirtyParameter' = dirtyParameter
    <3>1. removedParameter[i] # None
      BY <2>2 DEF PendingInv
    <3>2. dirtyParameter' = [j \in Id |-> dirtyParameter[j]]
      BY <1>4, <2>3, <3>1 DEF FinishRemove
    <3> QED
      BY <3>2 DEF TypeOK
  <2>6. UNCHANGED <<id, announced, removedParameter>>
    BY <1>4 DEF FinishRemove
  <2>7. MirrorInv'
    <3>1. removedParameter[i] # None /\ dirtyParameter[i] = None
      BY <2>2 DEF PendingInv, NeverRemovedAndDirty
    <3> QED
      BY <2>2, <2>4, <2>5, <2>6, <3>1 DEF MirrorInv
  <2>8. Published' = Published
    BY <2>6 DEF Published
  <2>9. Mirror!Remove({params[i]}) /\ {params[i]} \in SUBSET Registered
    BY <2>1, <2>8 DEF Mirror!Remove
  <2> QED
    BY <2>7, <2>9 DEF Mirror!Next
<1>5. ASSUME Update
      PROVE  MirrorInv' /\ Mirror!Flush
  <2>1. announced' = params /\ Published' = Registered
    BY <1>5, FlushEffect
  <2>2. /\ UNCHANGED <<params, id>>
        /\ dirtyParameter' = [i \in Id |-> None]
        /\ removing' = 0
    BY <1>5 DEF Update, Flush, AppIdle, tree
  <2>3. Registered' = Registered
    BY <2>2 DEF Registered
  <2>4. MirrorInv'
    <3>1. \A i \in Id : announced'[i] = params'[i]
      BY <2>1, <2>2
    <3>2. \A i \in Id : params[i] # None => id[params[i]] = i
      BY DEF IdsMatchParams
    <3>3. \A i \in Id : dirtyParameter'[i] = None
      BY <2>2
    <3> QED
      BY <2>1, <2>2, <3>1, <3>2, <3>3 DEF MirrorInv
  <2> QED
    BY <2>1, <2>3, <2>4 DEF Mirror!Flush
<1>6. ASSUME UNCHANGED <<lists, tree, announced, removing>>
      PROVE  MirrorInv' /\ UNCHANGED Mirror!mvars
  BY <1>6 DEF lists, tree, MirrorInv, Registered, Published, Mirror!mvars
<1>7. \/ UNCHANGED <<lists, tree, announced, removing>>
      \/ \E o \in Obj, isGroup \in BOOLEAN, g \in Node : CreateParameter(o, isGroup, g)
      \/ \E o \in Obj : SetOption(o) \/ \E g \in Node : AddChild(g, o)
      \/ \E i \in Id : BeginRemove(i)
      \/ \E i \in Id : FinishRemove(i)
      \/ Update
  BY DEF Next, vars, RemoveGroupCrash, AddTransporter, RemoveTransporter, Clear
<1> QED
  BY <1>1, <1>2, <1>3, <1>4, <1>5, <1>6, <1>7 DEF Mirror!Next

\* An application that removes empty groups only, flushes before it creates
\* again and is the only one to set parameters, has a server that implements
\* RegistryMirror: every flush leaves the clients with exactly the registry.
THEOREM ServerImplementsMirror ==
    ASSUME FlushAfterRemove, EmptyGroupsOnly, Updaters = {}, ~ServerClears
    PROVE  Spec => MirrorSpec
<1> DEFINE Inv == TreeInv /\ Reachable /\ PendingInv /\ MirrorInv
<1>1. Init => Inv /\ Mirror!Init
  BY BaseInit, TreeInit, PendingInit, MirrorInit DEF TreeInv
<1>2. Inv /\ [Next]_vars => Inv'
  BY TreeStep, PendingStep, MirrorStep DEF TreeInv
<1>3. Inv /\ [Next]_vars => [Mirror!Next]_(Mirror!mvars)
  BY MirrorStep
<1> QED
  BY <1>1, <1>2, <1>3, PTL DEF Spec, MirrorSpec, Mirror!Spec
=============================================================================
