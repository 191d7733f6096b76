--------------------------- MODULE RegistryMirror ---------------------------
(***************************************************************************)
(* What the server promises a client that stays connected: after a flush,  *)
(* the packets it was sent describe exactly the parameters that exist.     *)
(***************************************************************************)
CONSTANTS Obj

VARIABLES
    live,       \* the parameters that exist
    published   \* the parameters the packets sent so far describe

mvars == <<live, published>>

Init == live = {} /\ published = {}

\* A parameter is created, once in its life.
Create(o) ==
    /\ o \notin live \cup published
    /\ live' = live \cup {o}
    /\ UNCHANGED published

\* A parameter is removed, with everything below it.
Remove(S) ==
    /\ S \subseteq live
    /\ live' = live \ S
    /\ UNCHANGED published

Flush ==
    /\ published' = live
    /\ UNCHANGED live

Next ==
    \/ \E o \in Obj : Create(o)
    \/ \E S \in SUBSET live : Remove(S)
    \/ Flush

Spec == Init /\ [][Next]_mvars
=============================================================================
