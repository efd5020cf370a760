SPECIFICATION Spec
CONSTANTS
    Members = {m1, m2}
    Names = {n1, n2}
    Other = other
    Colours = {red, blue}
    RoleIds = {1, 2, 3, 4}
    OwnRoles = {1}
    RoleLimit = 3
    RoleWarning = 1
    MaxClicks = 2
    MaxChanges = 1
    MaxFailures = 1
INVARIANTS
    TypeOK
    NoDuplicateRoles
    SuccessMeansMatch
SYMMETRY Symmetry
