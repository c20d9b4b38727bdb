\* Two threads make every kind of request on one number (LoginByCode does what
\* LoginByPassword does, UpdateUser what ChangePassword does): two of them may
\* race to register it.  Any statement may fail.  A token and three refreshes of it fit
\* into four tokens.
CONSTANTS
    Procs = {p1, p2}
    Users = {u1, u2}
    Mobiles = {m1}
    Names = {n1}
    Hashes = {h1, h2}
    Tokens = {k1, k2, k3, k4}
    Ops = {"register", "loginPassword", "reset", "refresh", "logout",
           "logoutAll", "change", "delete", "disable", "enable"}
    DbFaults = {"delete", "insert", "reread", "find", "check", "save", "update", "revoke"}
    StaleBound = 1
SPECIFICATION Spec
SYMMETRY Symmetry
INVARIANTS DeadTokenRejected RevocationHolds OneAccountPerMobile RefreshesBounded
