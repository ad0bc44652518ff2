SPECIFICATION Spec
CONSTANTS
    Request = {q1, q2, q3}
    Child = {a, b, c}
    Attempt = {1, 2}
    Estimate = {1, 2}
    Usage = {1, 3}
    MaxModelCalls = 2
    MaxTokens = 3
    MaxCalls = 2
    MaxParallel = 1
SYMMETRY Symmetry
INVARIANTS  SlotsAreKept
CHECK_DEADLOCK FALSE
