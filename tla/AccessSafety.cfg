CONSTANTS
    Procs = {p1,p2}
    Users = {u1}
    AccessTtl = 1
    RefreshTtl = 2
    MaxLag = 1
    RolesSet = {"user", "admin"}
    Ops = {"listUsers", "getCurrentUser", "updateUser", "deleteUser",
           "resetPassword", "disable", "enable"}
    MaxTokens = 4
SPECIFICATION FairSpec
INVARIANTS AdminActsFresh AccountActsFresh
PROPERTY AuthorityEnds
