SPECIFICATION Spec
CONSTANTS
    Members = {m1, m2}
    Names = {n1, n2}
    Other = other
    Colours = {red, blue}
    RoleIds = {1, 2, 3, 4}
    OwnRoles = {1}
    RoleLimit = 3
    RoleWarning = 1
    MaxClicks = 2
    MaxChanges = 0
    MaxFailures = 0
INVARIANTS
    ChangesWereApproved
SYMMETRY Symmetry
