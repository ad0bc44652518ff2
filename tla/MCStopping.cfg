SPECIFICATION MCFairSpec
CONSTANTS
    Run = {r1}
    Conversation = {c1}
    Assistant = {c1}
    Request = {q1}
    Call = {k1}
    None = None
    MaxRecovery = 2
    MaxSeq = 2
    Budget = 1
    Window = 2
    WorkerRun = {r1, r2}
    Mode = {"ask"}
    User = {owner, editor}
    Owner = owner
    Digest = {first}
    Script = {report}
    ScriptCall = {s1, s2}
INVARIANTS FencedByLease GateWithinDeadline CancelHonoured
PROPERTIES NothingIsTakenBack EveryRunEnds GatesSettle CancelReachesWorker RevocationReachesRuns
