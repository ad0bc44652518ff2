CONSTANTS
    Run = {r1, r2}
    Conversation = {c1}
    Assistant = {}
    Request = {q1, q2}
    Call = {}
    None = None
    MaxRecovery = 0
    MaxSeq = 0
    Budget = 1
    Window = 1
    MaxRows = 6
SPECIFICATION ConversationsSpec
INVARIANT TurnsAreAnswered
