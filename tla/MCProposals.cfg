SPECIFICATION Spec
CONSTANTS
    User = {o, a}
    Founder = o
    Project = {p}
    Invitation = {i, j}
    Given = {"admin", "viewer"}
    None = None
    Proposal = {r}
    Applier = {x, y}
    Offered = {"agent.update", "workflow.create", "member.set"}
    MaxSteps = 2
SYMMETRY Symmetry
INVARIANTS AuthorityIsBacked AppliedOnceInOrder RecordTellsTheTruth
CHECK_DEADLOCK FALSE
