SPECIFICATION Spec
CONSTANTS
    Accounts = {a1}
    Tokens = {t1, t2, t3}
    Reqs = {r1, r2}
    Passwords = {w1}
    KvFaults = FALSE
SYMMETRY Symmetry
INVARIANTS
    LogoutRevokesRefresh
