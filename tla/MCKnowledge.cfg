CONSTANTS
    Content <- MCContent
    Size <- MCSize
    Preview = {"preview"}
    Dimension = {2, 3}
    None = None
    MaxDocuments = 2
    MaxVersions = 2
    MaxChunks = 2
    Capacity = 4
    MaxSearches = 1
    MaxJobs = 3
    Window = 1
SPECIFICATION Spec
INVARIANTS SearchableIsWhole DocumentsAreKept HitsWereIndexed
PROPERTIES LastGoodStays
