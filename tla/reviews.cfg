CONSTANTS
    Requests = {r1, r2, r3}
    Bodies = {b1, b2}
    NULL = NULL
SPECIFICATION Spec
INVARIANTS SerialInv AnalysisOnItsWay
PROPERTIES BodyGetsAnalyzed
