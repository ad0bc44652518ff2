SPECIFICATION AgentSpec
CONSTANTS
    Run = {r1}
    Conversation = {c1}
    Assistant = {}
    Request = {q1}
    Call = {k1}
    Writes = {k1}
    None = None
    MaxRecovery = 1
    MaxSeq = 0
    Budget = 1
    Mode = {"ask"}
    Chunks <- MCChunks
    Window = 2
INVARIANTS WaitIsNoTimeout
