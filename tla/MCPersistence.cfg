CONSTANTS
    Units = {u1, u2}
    KeySets = {k1}
    Block = 2
    MaxCounter = 3
    FirstNode = 2
    CommissionerNode = 3
    MaxSaves = 3
    MaxRestarts = 1
    Drained = TRUE
SPECIFICATION Spec
INVARIANTS
    NoCounterTwice
    AcknowledgedSurvives
    ForgottenNeverReturns
SYMMETRY AnyUnit
CHECK_DEADLOCK FALSE
