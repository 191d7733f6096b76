---------------------------- MODULE MCRcpProtocol ----------------------------
EXTENDS RcpProtocol, TLC

Symmetric == Permutations(Clients)

\* Or it begins later: the server has groups and a parameter in the first of
\* them, the clients have them too, and all is quiet.
Populated ==
    LET group == [group |-> TRUE, label |-> TRUE, par |-> 0, val |-> Default, chg |-> {}]
        some  == [i \in Id |-> IF i < MaxId THEN group ELSE [group EXCEPT !.group = FALSE, !.par = 1]]
    IN  /\ params = some /\ dirty = {} /\ removed = {}
        /\ on = Clients
        /\ cache = [c \in Clients |-> some]
        /\ gone = [c \in Clients |-> [i \in Id |-> None]]
        /\ own = [c \in Clients |-> {}]
        /\ astray = [c \in Clients |-> {}]
        /\ early = [c \in Clients |-> 0]
        /\ lost = [c \in Clients |-> {}]
        /\ toServer = [c \in Clients |-> <<>>]
        /\ toClient = [c \in Clients |-> <<>>]
        /\ ops = 0
        /\ spoilt = {}

MCSpec == (Init \/ Populated) /\ [][Next]_vars
=============================================================================
