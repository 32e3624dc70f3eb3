CONSTANTS
    t1 = t1
    r1 = r1
    r2 = r2
    Txns = {t1, t2, t3, t4}
    Readers = {r1, r2}
    Setups <- Loads
SPECIFICATION Spec
SYMMETRY Symmetry
INVARIANTS ReadsAreExact AssertionsHold
CHECK_DEADLOCK FALSE
