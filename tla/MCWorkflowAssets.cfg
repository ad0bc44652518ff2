CONSTANTS
    Job <- MCJob
    Workflow <- MCWorkflow
    WorkflowOf <- MCWorkflowOf
    Generation = {"generation"}
    AppJob = {"execution"}
    Limit = 1
    Window = 1
    Node <- MCNode
    Kind <- MCKind
    Edge <- MCEdge
    Person <- MCPerson
    Edits <- MCEdits
    Definition = {"a", "b", "broken"}
    Valid = {"a", "b"}
    MaxRevisions = 3
    First = "broken"
SPECIFICATION AssetSpec
INVARIANTS JobsAreKept SuccessIsComplete 
PROPERTIES OnlyForward EveryJobEnds
