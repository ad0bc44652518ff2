SPECIFICATION MCSpec
CONSTANTS
    None = None
    User = {owner, editor}
    Owner = owner
    Digest = {first, second}
    Bound = {first}
    ImportId = {p1, p2}
    MaxRequests = 2
    MaxReleases = 3
    Script = {report}
    Call = {s1, s2}
INVARIANTS ImportsAreAsShown ReleasesAreSound 
