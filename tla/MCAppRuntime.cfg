SPECIFICATION Spec
CONSTANTS
    e1 = e1
    e2 = e2
    e3 = e3
    task1 = task1
    pump = pump
    outcome = outcome
    p = p
    q = q
    Events = {e1, e2, e3}
    Contexts = {task1}
    ContextOf <- MCContextOf
    Supported = {e1, e2}
    Calls = {pump, outcome}
    Procs = {p, q}
    MaxEffects = 1
    MaxStarts = 2
INVARIANTS ExecutedOnce ReductionsKept
PROPERTIES DecidedOnce NoBlindRetry SerialAbsorbing
SYMMETRY MCSymmetry
CONSTRAINT Short
CHECK_DEADLOCK FALSE
