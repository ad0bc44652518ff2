\* A conversation, the branches off it and their turns.
CONSTANTS
    Run = {r1, r2, r3}
    Conversation = {c1, c2, c3}
    Assistant = {}
    Request = {q1, q2}
    Call = {}
    None = None
    MaxRecovery = 0
    MaxSeq = 0
    Budget = 1
    Window = 1
    MaxRows = 6
SPECIFICATION ConversationsSpec
SYMMETRY Symmetry
INVARIANTS RunsTakeTurns Transcript  BranchesAreFaithful SessionIsWhole
PROPERTY ImplementsLifecycle
VIEW Essential
CONSTRAINT Bound
ACTION_CONSTRAINT RoundsThatCount
