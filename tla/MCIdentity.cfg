SPECIFICATION IdentitySpec
CONSTANTS
    Accounts = {a1}
    Tokens = {t1, t2, t3}
    Ids = {r1, r2}
    Reqs = {r1, r2}
    Passwords = {w1}
    KvFaults = TRUE
    Names = {"n1", "n2"}
    Phones = {"p1", "p2"}
    SeedPhone = "p1"
    SeedPassword = w1
    ChainVersions = 3
    ChainRecords = 3
    GuardVersions = 2
    GuardRecords = 2
SYMMETRY Symmetry
INVARIANTS
    SingleUse LogoutRevokesAccess WritesRecorded
PROPERTIES
    OneAdministrator
