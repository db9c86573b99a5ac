SPECIFICATION Spec
CONSTANTS
    g1 = g1  g2 = g2
    None = None
    MaxId = 1
    Gor = {g1, g2}
    Interval = 1
    Cooldown = 3
    MaxTime = 3
    MaxBorn = 2
    MaxFaults = 1
SYMMETRY Symmetry
INVARIANTS
    EvaluatorInv
    AtMostOneDuplicate
PROPERTIES
    EvalTimesMonotone
