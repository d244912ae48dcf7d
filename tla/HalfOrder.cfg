CONSTANTS
    t1 = t1
    t2 = t2
    t3 = t3
    o1 = o1
    o2 = o2
    o3 = o3
    Thread = {t1, t2, t3}
    Order = {o1, o2, o3}
SPECIFICATION Spec
INVARIANT OrderAndEventTogether
SYMMETRY PoolSymmetry

