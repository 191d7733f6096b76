SPECIFICATION Spec
CONSTANTS
    p1 = p1
    p2 = p2
    p3 = p3
    g1 = g1
    g2 = g2
    Params = {p1, p2, p3}
    Groups = {g1, g2}
    Member <- MCMember
    Kind <- MCKind
    Vals = {v0, v1}
    MaxId = 4
    None = none
SYMMETRY Symmetry
INVARIANT MappedIsRegistered
