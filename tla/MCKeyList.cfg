SPECIFICATION Spec
CONSTANTS
    p1 = p1
    p2 = p2
    p3 = p3
    v1 = v1
    v2 = v2
    None = None
    Pairs <- MCPairs
    Values <- MCValues
    MaxInfos = 2
SYMMETRY Symmetry
INVARIANT ListIsInput
