----------------------- MODULE OfxRabbitControlProofs -----------------------
(***************************************************************************)
(* Theorems of OfxRabbitControl: every tree of groups, any number of       *)
(* ofParameters, ids and values.                                           *)
(***************************************************************************)
EXTENDS OfxRabbitControl, TLAPS

\* An expose creates what is not in the maps.
LEMMA ExposedIsUnmapped ==
    ASSUME NEW g \in Groups, idMap[g] = 0
    PROVE  ExposedWith(g) \subseteq {x \in Items : idMap[x] = 0}
<1> DEFINE Unmapped == {x \in Items : idMap[x] = 0}
<1>1. g \in Unmapped
  BY DEF Items
<1>2. \A h \in Unmapped \cap Groups : {y \in Member[h] : idMap[y] = 0} \subseteq Unmapped
  BY MemberTree
<1>3. Unmapped \in SUBSET Items
  OBVIOUS
<1> QED
  BY <1>1, <1>2, <1>3 DEF ExposedWith

\* What is removed is gone itself, and no address but its own is touched.
LEMMA RemovedIsGone ==
    ASSUME TypeOK, NEW x \in Items, RemoveParameter(idMap[x])
    PROVE  /\ \A i \in Id : owner'[i] # None => owner'[i] = owner[i] /\ i # idMap[x]
           /\ \A i \in Id : owner'[i] # None => rabbit'[i] = rabbit[i]
<1>1. idMap[x] \in Id \cup {0}
  BY DEF TypeOK
<1>2. idMap[x] \in Id => idMap[x] \in Below(idMap[x])
  BY DEF Below
<1> DEFINE gone == IF idMap[x] # 0 /\ owner[idMap[x]] # None THEN Below(idMap[x]) ELSE {}
<1>3. /\ owner' = [j \in Id |-> IF j \in gone THEN None ELSE owner[j]]
      /\ rabbit' = [j \in Id |-> IF j \in gone THEN None ELSE rabbit[j]]
  BY DEF RemoveParameter
<1>4. \A i \in Id : owner[i] # None /\ i = idMap[x] => i \in gone
  BY <1>1, <1>2 DEF Id
<1> HIDE DEF gone
<1> QED
  BY <1>3, <1>4

\* A listener sets at most the parameter its address maps to, and sets it when
\* that is its own.
LEMMA ListenerSets ==
    ASSUME NEW values \in [Id -> Vals \cup {None}], NEW p \in Params, NEW v \in Vals, TypeOK
    PROVE  /\ Listener(values, p, v) \in [Id -> Vals \cup {None}]
           /\ \A i \in Id : \/ Listener(values, p, v)[i] = values[i]
                            \/ /\ idMap[p] = i
                               /\ owner[i] \in Params => Kind[owner[i]] = Kind[p]
                               /\ Listener(values, p, v)[i] = v
           /\ p \in listening /\ idMap[p] # 0 /\ owner[idMap[p]] = p
              => Listener(values, p, v)[idMap[p]] = v
<1>1. idMap[p] \in Id \cup {0}
  BY DEF TypeOK, Items
<1> QED
  BY <1>1 DEF Listener

-----------------------------------------------------------------------------
ExposeInv == TypeOK /\ RegisteredIsMapped /\ ValuesAgree

\* At the start nothing is exposed.
LEMMA ExposeInit == Init => ExposeInv
BY ItemsDistinct DEF Init, ExposeInv, TypeOK, RegisteredIsMapped, ValuesAgree, Items

\* Creating parameters for items that are in no map.
LEMMA CreateKeeps ==
    ASSUME ExposeInv, NEW new \in SUBSET Items, NEW at \in Id \cup {0},
           \A x \in new : idMap[x] = 0, Create(new, at)
    PROVE  ExposeInv'
<1> USE DEF ExposeInv
<1>1. PICK f \in [new -> Free] :
        LET used == {f[x] : x \in new}
            above(x) == {h \in new \cap Groups : x \in Member[h]}
        IN  /\ \A x, y \in new : f[x] = f[y] => x = y
            /\ idMap' = [x \in Items |-> IF x \in new THEN f[x] ELSE idMap[x]]
            /\ owner' = [i \in Id |-> IF i \in used THEN CHOOSE x \in new : f[x] = i
                                      ELSE owner[i]]
            /\ parentId' = [i \in Id |->
                   IF i \notin used THEN parentId[i]
                   ELSE LET x == CHOOSE y \in new : f[y] = i
                        IN  IF above(x) = {} THEN at ELSE f[CHOOSE h \in above(x) : TRUE]]
            /\ rabbit' = [i \in Id |->
                   IF \E p \in new \cap Params : f[p] = i
                   THEN ofValue[CHOOSE p \in new \cap Params : f[p] = i]
                   ELSE rabbit[i]]
            /\ listening' = listening \cup (new \cap Params)
            /\ UNCHANGED ofValue
  BY DEF Create
<1> DEFINE used == {f[x] : x \in new}
           above(x) == {h \in new \cap Groups : x \in Member[h]}
<1>2. \A x \in new : f[x] \in Id
  BY DEF Free
<1>3. \A x \in Items : idMap'[x] = IF x \in new THEN f[x] ELSE idMap[x]
  BY <1>1
<1>4. ASSUME NEW i \in Id, i \in used
      PROVE  \E x \in new : /\ f[x] = i /\ owner'[i] = x
                            /\ x \in Params => rabbit'[i] = ofValue[x]
                            /\ x \notin Params => rabbit'[i] = rabbit[i]
  <2>1. PICK x \in new : f[x] = i
    BY <1>4
  <2>2. \A y \in new : f[y] = i => y = x
    BY <1>1, <2>1
  <2>3. (CHOOSE y \in new : f[y] = i) = x
    BY <2>1, <2>2
  <2>4. owner'[i] = x
    BY <1>1, <1>4, <2>3
  <2>5. ASSUME x \in Params
        PROVE  rabbit'[i] = ofValue[x]
    <3>1. (CHOOSE p \in new \cap Params : f[p] = i) = x
      BY <2>1, <2>2, <2>5
    <3> QED
      BY <1>1, <2>1, <2>5, <3>1
  <2>6. x \notin Params => rabbit'[i] = rabbit[i]
    BY <1>1, <2>2
  <2> QED
    BY <2>1, <2>4, <2>5, <2>6
<1>5. \A i \in Id \ used : owner'[i] = owner[i] /\ rabbit'[i] = rabbit[i]
  BY <1>1
<1>6. TypeOK'
  <2>1. idMap' \in [Items -> Id \cup {0}]
    BY <1>1, <1>2 DEF TypeOK
  <2>2. owner' \in [Id -> Items \cup {None}]
    <3>1. \A i \in Id : owner'[i] \in Items \cup {None}
      BY <1>4, <1>5 DEF TypeOK
    <3> QED
      BY <1>1, <3>1
  <2>3. parentId' \in [Id -> Id \cup {0}]
    <3>1. ASSUME NEW x \in new
          PROVE  (IF above(x) = {} THEN at ELSE f[CHOOSE h \in above(x) : TRUE]) \in Id \cup {0}
      <4>1. above(x) # {} => (CHOOSE h \in above(x) : TRUE) \in above(x)
        OBVIOUS
      <4> QED
        BY <1>2, <4>1
    <3>2. \A i \in used : (CHOOSE y \in new : f[y] = i) \in new
      OBVIOUS
    <3>3. \A i \in Id : parentId'[i] \in Id \cup {0}
      BY <1>1, <3>1, <3>2 DEF TypeOK
    <3> QED
      BY <1>1, <3>3
  <2>4. rabbit' \in [Id -> Vals \cup {None}]
    <3>1. \A i \in Id : rabbit'[i] \in Vals \cup {None}
      BY <1>4, <1>5 DEF TypeOK
    <3> QED
      BY <1>1, <3>1
  <2> QED
    BY <1>1, <2>1, <2>2, <2>3, <2>4 DEF TypeOK
<1>7. RegisteredIsMapped'
  <2> SUFFICES ASSUME NEW i \in Id, owner'[i] # None
               PROVE  /\ idMap'[owner'[i]] = i
                      /\ owner'[i] \in Params => owner'[i] \in listening'
    BY DEF RegisteredIsMapped
  <2>1. CASE i \in used
    BY <1>1, <1>3, <1>4, <2>1
  <2>2. CASE i \notin used
    <3>1. owner'[i] = owner[i] /\ owner[i] \in Items /\ idMap[owner[i]] = i
      BY <1>5, <2>2 DEF TypeOK, RegisteredIsMapped
    <3>2. owner[i] \notin new
      BY <3>1 DEF Id
    <3> QED
      BY <1>1, <1>3, <3>1, <3>2 DEF RegisteredIsMapped
  <2> QED
    BY <2>1, <2>2
<1>8. ValuesAgree'
  <2> SUFFICES ASSUME NEW i \in Id, owner'[i] \in Params
               PROVE  \/ rabbit'[i] = ofValue'[owner'[i]]
                      \/ \E q \in Params \ {owner'[i]} :
                             idMap'[q] = i /\ Kind[q] = Kind[owner'[i]]
    BY DEF ValuesAgree
  <2>1. CASE i \in used
    BY <1>1, <1>4, <2>1
  <2>2. CASE i \notin used
    <3>1. owner'[i] = owner[i] /\ rabbit'[i] = rabbit[i]
      BY <1>5, <2>2
    <3>2. \A q \in Params : idMap[q] = i => idMap'[q] = i
      BY <1>3 DEF Items, Id
    <3>3. ofValue' = ofValue
      BY <1>1
    <3> HIDE DEF used
    <3> QED
      BY <3>1, <3>2, <3>3 DEF ValuesAgree
  <2> QED
    BY <2>1, <2>2
<1> QED
  BY <1>6, <1>7, <1>8

\* Removing takes the parameter with the item's address out of the registry.
LEMMA RemoveKeeps ==
    ASSUME ExposeInv, NEW x \in Items, RemoveParameter(idMap[x]),
           idMap' = [idMap EXCEPT ![x] = 0], listening' = listening \ {x}, UNCHANGED ofValue
    PROVE  ExposeInv'
<1> USE DEF ExposeInv
<1>1. /\ \A i \in Id : owner'[i] # None => owner'[i] = owner[i] /\ i # idMap[x]
      /\ \A i \in Id : owner'[i] # None => rabbit'[i] = rabbit[i]
  BY RemovedIsGone
<1>2. \A y \in Items : y # x => idMap'[y] = idMap[y]
  BY DEF TypeOK
<1>3. TypeOK'
  BY DEF RemoveParameter, TypeOK
<1>4. RegisteredIsMapped'
  <2> SUFFICES ASSUME NEW i \in Id, owner'[i] # None
               PROVE  /\ idMap'[owner'[i]] = i
                      /\ owner'[i] \in Params => owner'[i] \in listening'
    BY DEF RegisteredIsMapped
  <2>1. owner'[i] = owner[i] /\ i # idMap[x] /\ owner[i] \in Items /\ idMap[owner[i]] = i
    BY <1>1 DEF TypeOK, RegisteredIsMapped
  <2> QED
    BY <1>2, <2>1 DEF RegisteredIsMapped
<1>5. ValuesAgree'
  <2> SUFFICES ASSUME NEW i \in Id, owner'[i] \in Params
               PROVE  \/ rabbit'[i] = ofValue'[owner'[i]]
                      \/ \E q \in Params \ {owner'[i]} :
                             idMap'[q] = i /\ Kind[q] = Kind[owner'[i]]
    BY DEF ValuesAgree
  <2>1. owner'[i] = owner[i] /\ i # idMap[x] /\ rabbit'[i] = rabbit[i]
    BY <1>1, ItemsDistinct DEF Items
  <2>2. \A q \in Params : idMap[q] = i => idMap'[q] = i
    BY <1>2, <2>1 DEF Items
  <2> QED
    BY <2>1, <2>2 DEF ValuesAgree
<1> QED
  BY <1>3, <1>4, <1>5

\* The listener of an ofParameter sets its own parameter; another's only if a stale
\* address maps to it.
LEMMA ChangeKeeps ==
    ASSUME ExposeInv, NEW p \in Params, NEW v \in Vals, Change(p, v)
    PROVE  ExposeInv'
<1> USE DEF ExposeInv
<1>1. /\ rabbit' = Listener(rabbit, p, v)
      /\ UNCHANGED <<idMap, owner, parentId, listening>>
      /\ ofValue'[p] = v
      /\ \A q \in Params : q # p => ofValue'[q] = ofValue[q]
  BY DEF Change, registry, TypeOK
<1>2. /\ rabbit' \in [Id -> Vals \cup {None}]
      /\ \A i \in Id : \/ rabbit'[i] = rabbit[i]
                       \/ /\ idMap[p] = i
                          /\ owner[i] \in Params => Kind[owner[i]] = Kind[p]
      /\ p \in listening /\ idMap[p] # 0 /\ owner[idMap[p]] = p => rabbit'[idMap[p]] = v
  BY <1>1, ListenerSets DEF TypeOK
<1>3. TypeOK'
  BY <1>1, <1>2 DEF Change, TypeOK
<1>4. RegisteredIsMapped'
  BY <1>1 DEF RegisteredIsMapped
<1>5. ValuesAgree'
  <2> SUFFICES ASSUME NEW i \in Id, owner[i] \in Params
               PROVE  \/ rabbit'[i] = ofValue'[owner[i]]
                      \/ \E q \in Params \ {owner[i]} :
                             idMap[q] = i /\ Kind[q] = Kind[owner[i]]
    BY <1>1 DEF ValuesAgree
  <2>1. CASE owner[i] = p
    <3>1. p \in listening /\ idMap[p] = i /\ i # 0
      BY <2>1, ItemsDistinct DEF RegisteredIsMapped, Id, Items
    <3> QED
      BY <1>1, <1>2, <2>1, <3>1
  <2>2. CASE owner[i] # p
    BY <1>1, <1>2, <2>2 DEF ValuesAgree
  <2> QED
    BY <2>1, <2>2
<1> QED
  BY <1>3, <1>4, <1>5

\* A client's value reaches the ofParameter, whose listener finds its own parameter.
LEMMA RemoteValueKeeps ==
    ASSUME ExposeInv, NEW j \in Id, NEW v \in Vals, RemoteValue(j, v)
    PROVE  ExposeInv'
<1> USE DEF ExposeInv
<1> DEFINE o == owner[j]
           set == [rabbit EXCEPT ![j] = v]
<1>1. /\ o \in Params
      /\ rabbit' = Listener(set, o, v)
      /\ UNCHANGED <<idMap, owner, parentId, listening>>
      /\ ofValue'[o] = v
      /\ \A q \in Params : q # o => ofValue'[q] = ofValue[q]
  BY DEF RemoteValue, registry, TypeOK
<1>2. /\ set \in [Id -> Vals \cup {None}] /\ set[j] = v
      /\ \A i \in Id : i # j => set[i] = rabbit[i]
  BY DEF TypeOK
<1>3. idMap[o] = j
  BY <1>1, ItemsDistinct DEF RegisteredIsMapped, Items
<1> HIDE DEF o, set
<1>4. /\ rabbit' \in [Id -> Vals \cup {None}]
      /\ \A i \in Id : \/ rabbit'[i] = set[i]
                       \/ idMap[o] = i /\ rabbit'[i] = v
  BY <1>1, <1>2, ListenerSets
<1>5. rabbit'[j] = v /\ \A i \in Id : i # j => rabbit'[i] = rabbit[i]
  BY <1>2, <1>3, <1>4
<1>6. TypeOK'
  BY <1>1, <1>4 DEF RemoteValue, TypeOK
<1>7. RegisteredIsMapped'
  BY <1>1 DEF RegisteredIsMapped
<1>8. ValuesAgree'
  <2> SUFFICES ASSUME NEW i \in Id, owner[i] \in Params
               PROVE  \/ rabbit'[i] = ofValue'[owner[i]]
                      \/ \E q \in Params \ {owner[i]} :
                             idMap[q] = i /\ Kind[q] = Kind[owner[i]]
    BY <1>1 DEF ValuesAgree
  <2>1. CASE i = j
    BY <1>1, <1>5, <2>1 DEF o
  <2>2. CASE i # j
    <3>1. owner[i] # o
      BY <1>3, <2>2, ItemsDistinct DEF RegisteredIsMapped, Items
    <3> QED
      BY <1>1, <1>5, <2>2, <3>1 DEF ValuesAgree
  <2> QED
    BY <2>1, <2>2
<1> QED
  BY <1>6, <1>7, <1>8

\* Every call keeps the invariant.
LEMMA ExposeStep == ExposeInv /\ [Next]_vars => ExposeInv'
<1> SUFFICES ASSUME ExposeInv, [Next]_vars
             PROVE  ExposeInv'
  OBVIOUS
<1>1. ASSUME NEW p \in Params, NEW at \in Id \cup {0}, ExposeParam(p, at)
      PROVE  ExposeInv'
  <2>1. {p} \in SUBSET Items /\ (\A x \in {p} : idMap[x] = 0) /\ Create({p}, at)
    BY <1>1 DEF ExposeParam, Items
  <2> QED
    BY <2>1, CreateKeeps
<1>2. ASSUME NEW g \in Groups, NEW at \in Id \cup {0}, ExposeGroup(g, at)
      PROVE  ExposeInv'
  <2>1. ExposedWith(g) \subseteq {x \in Items : idMap[x] = 0} /\ Create(ExposedWith(g), at)
    BY <1>2, ExposedIsUnmapped DEF ExposeGroup
  <2> QED
    BY <2>1, CreateKeeps
<1>3. ASSUME NEW p \in Params, RemoveParam(p)
      PROVE  ExposeInv'
  BY <1>3, RemoveKeeps DEF RemoveParam, Items
<1>4. ASSUME NEW g \in Groups, RemoveGroup(g)
      PROVE  ExposeInv'
  <2>1. listening' = listening \ {g}
    BY <1>4, ItemsDistinct DEF RemoveGroup, ExposeInv, TypeOK
  <2> QED
    BY <1>4, <2>1, RemoveKeeps DEF RemoveGroup, Items
<1>5. ASSUME NEW p \in Params, NEW v \in Vals, Change(p, v)
      PROVE  ExposeInv'
  BY <1>5, ChangeKeeps
<1>6. ASSUME NEW i \in Id, NEW v \in Vals, RemoteValue(i, v)
      PROVE  ExposeInv'
  BY <1>6, RemoteValueKeeps
<1>7. CASE UNCHANGED vars
  BY <1>7 DEF vars, registry, ExposeInv, TypeOK, RegisteredIsMapped, ValuesAgree
<1> QED
  BY <1>1, <1>2, <1>3, <1>4, <1>5, <1>6, <1>7 DEF Next

\* The maps, the registry and the values keep their shape.
THEOREM MapTypes == Spec => []TypeOK
<1>1. ExposeInv => TypeOK
  BY DEF ExposeInv
<1> QED
  BY <1>1, ExposeInit, ExposeStep, PTL DEF Spec

\* Whatever is exposed, removed and exposed again: the address of a registered
\* item maps to its own parameter, and its listener is installed.
THEOREM ItemsAreMapped == Spec => []RegisteredIsMapped
<1>1. ExposeInv => RegisteredIsMapped
  BY DEF ExposeInv
<1> QED
  BY <1>1, ExposeInit, ExposeStep, PTL DEF Spec

\* An ofParameter and its parameter hold one value, whichever was set, unless a
\* stale address of the same type maps to the same id.
THEOREM ValuesFollow == Spec => []ValuesAgree
<1>1. ExposeInv => ValuesAgree
  BY DEF ExposeInv
<1> QED
  BY <1>1, ExposeInit, ExposeStep, PTL DEF Spec
=============================================================================
