SPECIFICATION GraphSpec
CONSTANTS
    t1 = t1
    t2 = t2
    t3 = t3
    a = a
    b = b
    local = local
    cheap = cheap
    frontier = frontier
    r1 = r1
    gate = gate
    w = w
    Old <- MCOld
    Order <- MCOrder
    Of <- MCOf
    Target <- MCTarget
    Rebuilders = {p1, p2}
    MaxRuns = 2
    MaxHops = 4
    Null = Null
CONSTRAINT MayStillSettle
SYMMETRY Symmetry
INVARIANT Rebuilt
INVARIANT HopsShortest
CHECK_DEADLOCK FALSE
