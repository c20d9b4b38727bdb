---------------------------- MODULE UserSessions ----------------------------
(***************************************************************************)
(* The account rows and the refresh-token sessions of the service, and the *)
(* requests that read and write them: AuthService and UserService over     *)
(* UserDB and TokenRepository.  gRPC threads run requests concurrently.    *)
(* Every SQL statement is an autocommit transaction of its own, so one     *)
(* action is one statement, and requests interleave between statements.    *)
(*                                                                         *)
(* A request is modelled from the point where its arguments and its        *)
(* captcha are accepted (Captcha models the captcha, LoginGuard the        *)
(* failure counter of password logins).  Arguments are chosen at the       *)
(* statement that first uses them.                                         *)
(***************************************************************************)
EXTENDS Naturals, FiniteSets

CONSTANTS
    Procs,       \* request threads
    Users,       \* primary keys users.id (and their uuids)
    Mobiles,
    Names,
    Hashes,      \* password hashes: the model's bound on different ones at once
    Tokens,      \* refresh tokens the service may issue: the model's bound
    Ops,         \* the requests the clients of an instance make
    DbFaults,    \* the steps at which a statement may fail with an exception
    StaleBound   \* the model's bound on tokens that expire

AllOps == {"register", "loginPassword", "loginCode", "reset", "refresh",
           "logout", "logoutAll", "update", "change", "delete", "disable",
           "enable"}

Steps == {"none", "insert", "reread", "find", "check", "delete", "save",
          "update", "revoke"}

ASSUME OpsAssumption == Ops \subseteq AllOps
ASSUME FaultsAssumption == DbFaults \subseteq Steps \ {"none"}
ASSUME ProcsAssumption == IsFiniteSet(Procs)
ASSUME BoundAssumption == StaleBound \in Nat
ASSUME NoneAssumption ==
    "none" \notin Users \cup Mobiles \cup Names \cup Hashes \cup Tokens

VARIABLES
    users,      \* table users; status "absent" where there is no row
    sessions,   \* token_hash column of table user_sessions
    issued,     \* refresh tokens handed to clients
    owner,      \* the uid inside each issued token
    stale,      \* issued tokens past their exp / expires_at
    req,        \* the request each thread runs
    \* History: what the properties need to remember.
    dead,       \* threads whose refresh began with a token not in sessions
    old,        \* threads whose login predates a revocation of their user
    crossed,    \* threads past their check when such a revocation happened
    oldTokens,  \* tokens that go back to a login before a revocation
    escaped,    \* tokens stored by a crossed request, or refreshed from one
    refreshes   \* how many refreshes each token has got past IsTokenValid,
                \* since its DELETE last failed

dbVars == <<users, sessions>>
tokenVars == <<issued, owner, stale>>
history == <<dead, old, crossed, oldTokens, escaped, refreshes>>
vars == <<users, sessions, issued, owner, stale, req,
          dead, old, crossed, oldTokens, escaped, refreshes>>

\* The password column holds a salted hash.  Which password a request
\* presents, and whether it matches, is a free choice of the client.
Row == [mobile : Mobiles \cup {"none"}, name : Names \cup {"none"},
        hash : Hashes \cup {"none"},
        status : {"absent", "active", "disabled"}]

NoRow == [mobile |-> "none", name |-> "none", hash |-> "none",
          status |-> "absent"]

Request == [op : AllOps \cup {"none"}, step : Steps,
            user : Users \cup {"none"}, tok : Tokens \cup {"none"}, row : Row]

NoRequest == [op |-> "none", step |-> "none", user |-> "none",
              tok |-> "none", row |-> NoRow]

TypeOK ==
    /\ users \in [Users -> Row]
    /\ sessions \in SUBSET Tokens
    /\ issued \in SUBSET Tokens
    /\ owner \in [Tokens -> Users \cup {"none"}]
    /\ stale \in SUBSET Tokens
    /\ req \in [Procs -> Request]
    /\ dead \in SUBSET Procs
    /\ old \in SUBSET Procs
    /\ crossed \in SUBSET Procs
    /\ oldTokens \in SUBSET Tokens
    /\ escaped \in SUBSET Tokens
    /\ refreshes \in [Tokens -> Nat]

Init ==
    /\ users = [u \in Users |-> NoRow]
    /\ sessions = {}
    /\ issued = {}
    /\ owner = [t \in Tokens |-> "none"]
    /\ stale = {}
    /\ req = [p \in Procs |-> NoRequest]
    /\ dead = {} /\ old = {} /\ crossed = {}
    /\ oldTokens = {} /\ escaped = {}
    /\ refreshes = [t \in Tokens |-> 0]

-----------------------------------------------------------------------------
(* The life of a request.                                                  *)

Registered == {u \in Users : users[u].status # "absent"}

\* Requests that end by handing out a refresh token.
Issuing == {"register", "loginPassword", "loginCode", "refresh"}

\* The client's credentials have been checked: the token will be issued.
PastCheck(p) == \/ req[p].op = "register" /\ req[p].step \in {"reread", "save"}
                \/ req[p].op = "refresh" /\ req[p].step \in {"delete", "save"}
                \/ req[p].op \in {"loginPassword", "loginCode"}
                   /\ req[p].step = "save"

\* What follows a successful SELECT, UPDATE users, DELETE of all sessions of
\* a user, in each request.
AfterFind == [op \in AllOps |->
    CASE op \in {"loginPassword", "loginCode"} -> "save"
      [] op = "refresh" -> "check"
      [] op \in {"delete", "logoutAll"} -> "revoke"
      [] OTHER -> "update"]

AfterUpdate == [op \in AllOps |->
    IF op \in {"reset", "disable"} THEN "revoke" ELSE "none"]

AfterRevoke == [op \in AllOps |-> IF op = "delete" THEN "update" ELSE "none"]

At(p, ops, step) == req[p].op \in ops /\ req[p].step = step

\* Go to the given step; "none" ends the request and forgets its locals.
Goto(p, r, step) ==
    req' = [req EXCEPT ![p] = IF step = "none" THEN NoRequest
                              ELSE [r EXCEPT !.step = step]]

\* The flags of an ended request are reset.
Forget(p, step) ==
    IF step = "none"
    THEN /\ dead' = dead \ {p}
         /\ old' = old \ {p}
         /\ crossed' = crossed \ {p}
    ELSE UNCHANGED <<dead, old, crossed>>

Fail(p) ==
    /\ Goto(p, NoRequest, "none")
    /\ Forget(p, "none")

\* Bound: an issuing request starts only while a token is left for it.
TokensLeft ==
    Cardinality(Tokens \ issued)
        > Cardinality({p \in Procs : req[p].op \in Issuing})

-----------------------------------------------------------------------------
(* Requests arrive.                                                        *)

\* The requests of a logged-in user or of an administrator: they carry the
\* uuid of a registered user, from an access token or from ListUsers.
ByUUID == {"update", "change", "delete", "disable", "enable", "logoutAll"}

\* Requests named by a mobile number or by a uuid.
Begin(p, op) ==
    /\ req[p].op = "none"
    /\ op \in Ops \ {"refresh", "logout"}
    /\ op \in Issuing => TokensLeft
    /\ op \in ByUUID => Registered # {}
    /\ req' = [req EXCEPT ![p] = [NoRequest EXCEPT
                  !.op = op,
                  !.step = IF op = "register" THEN "insert" ELSE "find"]]
    /\ UNCHANGED <<dbVars, tokenVars, history>>

\* RefreshToken: ParseRefreshToken has accepted signature and exp, and gives
\* the uid.
BeginRefresh(p, t) ==
    /\ req[p].op = "none"
    /\ "refresh" \in Ops
    /\ TokensLeft
    /\ t \in issued \ stale
    /\ req' = [req EXCEPT ![p] = [NoRequest EXCEPT
                  !.op = "refresh", !.step = "find",
                  !.user = owner[t], !.tok = t]]
    /\ dead' = IF t \in sessions THEN dead ELSE dead \cup {p}
    /\ old' = IF t \in oldTokens THEN old \cup {p} ELSE old
    /\ UNCHANGED <<dbVars, tokenVars, crossed, oldTokens, escaped, refreshes>>

BeginLogout(p, t) ==
    /\ req[p].op = "none"
    /\ "logout" \in Ops
    /\ t \in issued
    /\ req' = [req EXCEPT ![p] = [NoRequest EXCEPT
                  !.op = "logout", !.step = "delete", !.tok = t]]
    /\ UNCHANGED <<dbVars, tokenVars, history>>

-----------------------------------------------------------------------------
(* Table users: UserDB.                                                    *)

\* The key AUTO_INCREMENT gives to the next row.
NextId == CHOOSE u \in Users \ Registered : TRUE

\* Faulty variant of Insert: ExistsByMobile was asked earlier and there is no
\* unique key to stop the second INSERT.
InsertNoUniqueKey(p, m) ==
    /\ At(p, {"register"}, "insert")
    /\ \E u \in Users \ Registered, n \in Names, h \in Hashes :
          /\ u = NextId
          /\ users' = [users EXCEPT ![u] = [mobile |-> m, name |-> n,
                                           hash |-> h, status |-> "active"]]
          /\ Goto(p, [req[p] EXCEPT !.user = u], "reread")
          /\ Forget(p, "reread")
    /\ UNCHANGED <<sessions, tokenVars, oldTokens, escaped, refreshes>>

\* UserDB::Create, first statement.  uk_mobile rejects a taken number.
Insert(p, m) ==
    /\ At(p, {"register"}, "insert")
    /\ \/ /\ \A v \in Registered : users[v].mobile # m
          /\ \E u \in Users \ Registered, n \in Names, h \in Hashes :
                /\ u = NextId
                /\ users' = [users EXCEPT ![u] = [mobile |-> m, name |-> n,
                                                 hash |-> h,
                                                 status |-> "active"]]
                /\ Goto(p, [req[p] EXCEPT !.user = u], "reread")
                /\ Forget(p, "reread")
       \/ /\ \E v \in Registered : users[v].mobile = m
          /\ Fail(p)
          /\ UNCHANGED users
    /\ UNCHANGED <<sessions, tokenVars, oldTokens, escaped, refreshes>>

\* UserDB::Create, second statement: FindByUUID reads the row back.
Reread(p) ==
    /\ At(p, {"register"}, "reread")
    /\ Goto(p, req[p], "save")
    /\ UNCHANGED <<dbVars, tokenVars, history>>

\* LoginByPassword, LoginByCode and ResetPassword look the mobile up.
\* ResetPassword does not look at the status, and keeps the row to write it.
FindByMobile(p, m) ==
    /\ At(p, {"loginPassword", "loginCode", "reset"}, "find")
    /\ \/ /\ \A v \in Registered : users[v].mobile # m
          /\ Fail(p)
       \/ \E u \in Registered :
             /\ users[u].mobile = m
             /\ LET r == [req[p] EXCEPT
                            !.user = u,
                            !.row = IF req[p].op = "reset" THEN users[u]
                                    ELSE NoRow] IN
                \/ /\ req[p].op = "reset" \/ users[u].status = "active"
                   /\ Goto(p, r, AfterFind[req[p].op])
                   /\ Forget(p, AfterFind[req[p].op])
                \* Disabled account, or a wrong password.
                \/ /\ \/ req[p].op # "reset" /\ users[u].status = "disabled"
                      \/ req[p].op = "loginPassword"
                   /\ Fail(p)
    /\ UNCHANGED <<dbVars, tokenVars, oldTokens, escaped, refreshes>>

\* RefreshToken looks its user up by id.
FindById(p) ==
    /\ At(p, {"refresh"}, "find")
    /\ LET u == req[p].user IN
       \/ /\ users[u].status = "active"
          /\ Goto(p, req[p], AfterFind["refresh"])
          /\ Forget(p, AfterFind["refresh"])
       \/ /\ users[u].status # "active"
          /\ Fail(p)
    /\ UNCHANGED <<dbVars, tokenVars, oldTokens, escaped, refreshes>>

\* The requests of a logged-in user, or of an administrator, look the row up
\* by uuid and keep it until they write it back.
FindByUUID(p, u) ==
    /\ At(p, ByUUID, "find")
    /\ u \in Registered
    /\ LET op == req[p].op
           r == [req[p] EXCEPT
                   !.user = u,
                   !.row = IF op = "logoutAll" THEN NoRow ELSE users[u]] IN
       \/ /\ op \in {"update", "change"} => users[u].status = "active"
          /\ op = "disable" => users[u].status # "disabled"
          /\ op = "enable" => users[u].status # "active"
          /\ Goto(p, r, AfterFind[op])
          /\ Forget(p, AfterFind[op])
       \* Disabled account, no nickname or a bad one, wrong old password,
       \* refused captcha, or a status that needs no change.
       \/ /\ \/ op \in {"update", "change", "delete"}
             \/ op = "disable" /\ users[u].status = "disabled"
             \/ op = "enable" /\ users[u].status = "active"
          /\ Fail(p)
    /\ UNCHANGED <<dbVars, tokenVars, oldTokens, escaped, refreshes>>

\* PasswordHelper::Hash: a new salt gives a hash that neither the table nor
\* another request's copy of the row holds.
NewHash(p, h) ==
    /\ h # users[req[p].user].hash
    /\ \A q \in Procs \ {p} :
          req[q].user = req[p].user => req[q].row.hash # h

\* The row each request wants to see stored: the row it read, with its own
\* change.  DeleteUser also renames the mobile.
Wanted(p, n, h) ==
    LET row == req[p].row IN
    CASE req[p].op \in {"reset", "change"} -> [row EXCEPT !.hash = h]
      [] req[p].op = "update" -> [row EXCEPT !.name = n]
      [] req[p].op = "delete" -> [row EXCEPT !.status = "disabled",
                                             !.mobile = "none"]
      [] req[p].op = "disable" -> [row EXCEPT !.status = "disabled"]
      [] OTHER -> [row EXCEPT !.status = "active"]

\* UPDATE users SET display_name, password_hash, disabled, role: every
\* column of the row the request holds except the mobile.
Written(u, wanted) == [wanted EXCEPT !.mobile = users[u].mobile]

\* UserDB::Update.  MySQL reports no affected row when the row already reads
\* so; the code takes that for a missing user.
Update(p, n, h) ==
    /\ At(p, {"reset", "update", "change", "delete", "disable", "enable"},
          "update")
    /\ req[p].op \in {"reset", "change"} => NewHash(p, h)
    /\ LET u == req[p].user
           op == req[p].op
           new == Written(u, Wanted(p, n, h)) IN
       \/ /\ new # users[u]
          /\ users' = [users EXCEPT ![u] = new]
          /\ Goto(p, [req[p] EXCEPT !.row = NoRow], AfterUpdate[op])
          /\ Forget(p, AfterUpdate[op])
       \/ /\ new = users[u]
          /\ Fail(p)
          /\ UNCHANGED users
    /\ UNCHANGED <<sessions, tokenVars, oldTokens, escaped, refreshes>>

-----------------------------------------------------------------------------
(* Table user_sessions: TokenRepository.                                   *)

\* Faulty variant of CheckToken: the signature alone is trusted.
CheckTokenTrusting(p) ==
    /\ At(p, {"refresh"}, "check")
    /\ Goto(p, req[p], "delete")
    /\ crossed' = IF req[p].tok \in escaped THEN crossed \cup {p} ELSE crossed
    /\ refreshes' = [refreshes EXCEPT ![req[p].tok] = @ + 1]
    /\ UNCHANGED <<dbVars, tokenVars, dead, old, oldTokens, escaped>>

\* IsTokenValid: present and expires_at > NOW().
CheckToken(p) ==
    /\ At(p, {"refresh"}, "check")
    /\ \/ /\ req[p].tok \in sessions \ stale
          /\ Goto(p, req[p], "delete")
          /\ crossed' = IF req[p].tok \in escaped THEN crossed \cup {p}
                        ELSE crossed
          /\ refreshes' = [refreshes EXCEPT ![req[p].tok] = @ + 1]
          /\ UNCHANGED <<dead, old>>
       \/ /\ req[p].tok \notin sessions \ stale
          /\ Fail(p)
          /\ UNCHANGED refreshes
    /\ UNCHANGED <<dbVars, tokenVars, oldTokens, escaped>>

\* Faulty variant of DeleteToken: a refresh leaves the old token for later.
DeleteTokenLater(p) ==
    /\ At(p, {"refresh", "logout"}, "delete")
    /\ LET next == IF req[p].op = "refresh" THEN "save" ELSE "none" IN
       /\ Goto(p, req[p], next)
       /\ Forget(p, next)
    /\ sessions' = IF req[p].op = "refresh" THEN sessions ELSE sessions \ {req[p].tok}
    /\ UNCHANGED <<users, tokenVars, oldTokens, escaped, refreshes>>

\* DeleteByTokenHash, in RefreshToken and in Logout.
DeleteToken(p) ==
    /\ At(p, {"refresh", "logout"}, "delete")
    /\ LET next == IF req[p].op = "refresh" THEN "save" ELSE "none" IN
       /\ Goto(p, req[p], next)
       /\ Forget(p, next)
    /\ sessions' = sessions \ {req[p].tok}
    /\ UNCHANGED <<users, tokenVars, oldTokens, escaped, refreshes>>

\* GenerateTokenPair hands out token t for the request's user.
Issue(p, t) ==
    /\ t \in Tokens \ issued
    /\ issued' = issued \cup {t}
    /\ owner' = [owner EXCEPT ![t] = req[p].user]
    /\ oldTokens' = IF p \in old THEN oldTokens \cup {t} ELSE oldTokens
    /\ escaped' = IF p \in crossed THEN escaped \cup {t} ELSE escaped

\* GenerateTokenPair and StoreRefreshToken; the request returns Ok.
SaveToken(p, t) ==
    /\ At(p, Issuing, "save")
    /\ Issue(p, t)
    /\ sessions' = sessions \cup {t}
    /\ Goto(p, req[p], "none")
    /\ Forget(p, "none")
    /\ UNCHANGED <<users, stale, refreshes>>

\* Faulty variant of Revoke: LogoutAll for the caller's own token only.
RevokeSome(p) ==
    /\ At(p, {"reset", "delete", "disable", "logoutAll"}, "revoke")
    /\ LET u == req[p].user
           next == AfterRevoke[req[p].op] IN
       /\ \E t \in {x \in issued : owner[x] = u} : sessions' = sessions \ {t}
       /\ oldTokens' = oldTokens \cup {t \in issued : owner[t] = u}
       /\ Goto(p, req[p], next)
       /\ dead' = IF next = "none" THEN dead \ {p} ELSE dead
       /\ old' = (old \cup {q \in Procs : req[q].op \in Issuing
                                           /\ req[q].user = u}) \ {p}
       /\ crossed' = (crossed \cup {q \in Procs : PastCheck(q)
                                              /\ req[q].user = u}) \ {p}
    /\ UNCHANGED <<users, tokenVars, escaped, refreshes>>

\* DeleteByUserId, in ResetPassword, DeleteUser, SetUserDisabled and
\* LogoutAll.  (History: all tokens of the user now go back to a login
\* before a revocation, and so do the issuing requests under way.)
Revoke(p) ==
    /\ At(p, {"reset", "delete", "disable", "logoutAll"}, "revoke")
    /\ LET u == req[p].user
           next == AfterRevoke[req[p].op] IN
       /\ sessions' = {t \in sessions : owner[t] # u}
       /\ oldTokens' = oldTokens \cup {t \in issued : owner[t] = u}
       /\ Goto(p, req[p], next)
       /\ dead' = IF next = "none" THEN dead \ {p} ELSE dead
       /\ old' = (old \cup {q \in Procs : req[q].op \in Issuing
                                           /\ req[q].user = u}) \ {p}
       /\ crossed' = (crossed \cup {q \in Procs : PastCheck(q)
                                              /\ req[q].user = u}) \ {p}
    /\ UNCHANGED <<users, tokenVars, escaped, refreshes>>

\* TokenRepository::CleanExpiredTokens, run by TokenCleanupTask.
CleanExpired ==
    /\ sessions \cap stale # {}
    /\ sessions' = sessions \ stale
    /\ UNCHANGED <<users, tokenVars, req, history>>

\* Time passes.
Expire(t) ==
    /\ t \in issued \ stale
    /\ Cardinality(stale) < StaleBound
    /\ stale' = stale \cup {t}
    /\ UNCHANGED <<users, sessions, issued, owner, req, history>>

-----------------------------------------------------------------------------
(* A statement throws (no connection, lost connection, lock timeout).  The *)
(* actions below are statements that were not executed; one that was, and  *)
(* whose answer was lost, ends as if the next step had thrown.             *)

\* Steps whose result the request checks: it ends with an error.
FatalFault(p) ==
    /\ req[p].step \in DbFaults \cap {"insert", "reread", "find", "check", "update"}
    /\ Fail(p)
    /\ UNCHANGED <<dbVars, tokenVars, oldTokens, escaped, refreshes>>

\* DeleteByTokenHash and DeleteByUserId: the failure is logged at most and
\* the request goes on.
IgnoredDeleteFault(p) ==
    /\ req[p].step \in DbFaults \cap {"delete", "revoke"}
    /\ LET next == IF req[p].step = "revoke" THEN AfterRevoke[req[p].op]
                   ELSE IF req[p].op = "refresh" THEN "save" ELSE "none" IN
       /\ Goto(p, req[p], next)
       /\ Forget(p, next)
    /\ refreshes' = IF At(p, {"refresh"}, "delete")
                    THEN [refreshes EXCEPT ![req[p].tok] = 0] ELSE refreshes
    /\ UNCHANGED <<dbVars, tokenVars, oldTokens, escaped>>

\* StoreRefreshToken: the client gets a token that is in no session.
IgnoredSaveFault(p, t) ==
    /\ At(p, Issuing, "save")
    /\ "save" \in DbFaults
    /\ Issue(p, t)
    /\ Goto(p, req[p], "none")
    /\ Forget(p, "none")
    /\ UNCHANGED <<dbVars, stale, refreshes>>

-----------------------------------------------------------------------------
Next ==
    \/ \E p \in Procs :
          \/ \E op \in Ops : Begin(p, op)
          \/ \E t \in Tokens : BeginRefresh(p, t) \/ BeginLogout(p, t)
          \/ \E m \in Mobiles : Insert(p, m) \/ FindByMobile(p, m)
          \/ Reread(p)
          \/ FindById(p)
          \/ \E u \in Users : FindByUUID(p, u)
          \/ \E n \in Names, h \in Hashes : Update(p, n, h)
          \/ CheckToken(p)
          \/ DeleteToken(p)
          \/ \E t \in Tokens : SaveToken(p, t) \/ IgnoredSaveFault(p, t)
          \/ Revoke(p)
          \/ FatalFault(p)
          \/ IgnoredDeleteFault(p)
    \/ \E t \in Tokens : Expire(t)
    \/ CleanExpired

Spec == Init /\ [][Next]_vars

-----------------------------------------------------------------------------
(* Properties.                                                             *)

\* RefreshToken never succeeds for a token that was already gone from
\* user_sessions (rotated, logged out, revoked, cleaned up) when the request
\* arrived: no request puts a removed token back.
DeadTokenRejected ==
    \A p \in dead : req[p].op = "refresh" => ~PastCheck(p)

\* Logging a user out everywhere (ResetPassword, DeleteUser, SetUserDisabled,
\* LogoutAll) holds: a live session that goes back to an earlier login was
\* stored by a request that was already past its check when the DELETE ran,
\* or refreshed from such a session.
RevocationHolds == sessions \cap oldTokens \subseteq escaped

\* Concurrent registrations of one mobile create one account.
OneAccountPerMobile ==
    \A u, v \in Registered : users[u].mobile = users[v].mobile => u = v

\* Rotation: one refresh token is accepted at most once by each request
\* thread.  IsTokenValid and the DELETE are separate statements, so refreshes
\* that run at once may all pass with the same token, and this is all the gap
\* gives.  A DELETE that fails, which RefreshToken does not look at, leaves
\* the token for as many again.
RefreshesBounded == \A t \in Tokens : refreshes[t] <= Cardinality(Procs)

\* DeleteUser releases the number of the account: the UPDATE that disables the
\* row gives it another mobile, so that the number can be registered again.
DeletionFreesNumber ==
    [][\A p \in Procs : LET u == req[p].user IN
          (At(p, {"delete"}, "update") /\ users' # users /\ req'[p] # req[p])
              => users'[u].mobile # users[u].mobile]_vars
=============================================================================
