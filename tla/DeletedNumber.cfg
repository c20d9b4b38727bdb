\* An account is registered and deleted.
CONSTANTS
    Procs = {p1}
    Users = {u1, u2}
    Mobiles = {m1}
    Names = {n1}
    Hashes = {h1, h2}
    Tokens = {k1, k2}
    Ops = {"register", "delete"}
    DbFaults = {}
    StaleBound = 0
SPECIFICATION Spec
PROPERTY DeletionFreesNumber
