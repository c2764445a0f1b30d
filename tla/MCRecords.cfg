SPECIFICATION RecordsSpec
CONSTANTS
    Ids = {1, 2, 3, 4, 5}
    Asked <- AnyLimit
    DefaultLimit = 2
    MaxLimit = 3
    Workers = {x1, x2}
    Records = {y1, y2}
    Keys = {k1, k2}
    Scalars = {1}
    Depth = 2
    MaxLogs = 2
    Missing <- NoSnapshot
    Coding <- TwoCodes
    Tracing <- OneTrail
    Rooting <- ThreeCats
    Patching <- TwoCats
    Granting <- OneRole
    Joining <- TwoRoles
    w1 = w1  r1 = r1  n1 = n1  u1 = u1  i1 = i1
    Resource = Resource  All = All  Nobody = Nobody
SYMMETRY Symmetry
CHECK_DEADLOCK FALSE
INVARIANTS
    IInv DiffExact RecordsTraced TreeShowsRooted PermitsExactly
