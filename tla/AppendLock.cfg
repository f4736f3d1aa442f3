SPECIFICATION Spec
CONSTANTS
    Procs = {p1, p2, p3}
    Rounds = 3
SYMMETRY Symmetry
INVARIANT AcyclicUnlessLate
PROPERTY GrantedExclusion
