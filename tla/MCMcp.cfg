SPECIFICATION Spec
CONSTANTS
    Server = {mail_service, map_service}
    Discovery = {d1, d2}
    Contract = {reviewed, redeployed}
    MaxSecrets = 2
    Call = {c1}
    MaxChanges = 1
    Window = 1
    None = None
SYMMETRY Symmetry
INVARIANTS DisabledServersAreQuiet 
PROPERTIES EndedDiscoveriesAreFinal
