---------------------------- MODULE AccessTokens ----------------------------
(***************************************************************************)
(* What a signed token lets its holder do, and for how long: JwtService    *)
(* issues and verifies, JwtAuthenticator and RequireAdmin admit requests   *)
(* to the handlers by the token alone, and the row in table users moves on *)
(* underneath.                                                             *)
(*                                                                         *)
(* A signature cannot be forged, so the tokens that pass it are those the  *)
(* service has issued; any of them may be presented to any RPC.  Requests  *)
(* that a handler refuses for their arguments change nothing and are not   *)
(* steps.  Refresh tokens in table user_sessions are UserSessions' part:   *)
(* here IsTokenValid answers freely.                                       *)
(*                                                                         *)
(* Time is counted in ticks.  A token carries what is left until its exp.  *)
(***************************************************************************)
EXTENDS Naturals, FiniteSets

CONSTANTS
    Procs,       \* gRPC threads
    Users,
    AccessTtl,   \* access_token_ttl_seconds
    RefreshTtl,  \* refresh_token_ttl_seconds
    MaxLag,      \* ticks a request takes from reading the row to the tokens
    RolesSet,    \* what the operator writes into the role column
    Ops,         \* the requests that issue no token
    MaxTokens    \* the model's bound on tokens that have not expired

\* Values of the role column; 3 .. 255 are no role of the code.
Roles == {"user", "admin", "super", "other"}
Admins == {"admin", "super"}

Issuing == {"register", "login", "refresh"}
AdminOps == {"getUser", "listUsers"}
ReadOps == AdminOps \cup {"getCurrentUser", "validateToken"}
WriteOps == {"updateUser", "changePassword", "deleteUser"}
AccessOps == ReadOps \cup WriteOps
\* ResetPassword, which a captcha admits, and SetUserDisabled, which no handler
\* calls: whole-row writers that ask for no token.
ServiceOps == {"resetPassword", "disable", "enable"}
Steps == {"idle", "find", "issue", "serve", "write"}

ASSUME TtlAssumption == AccessTtl \in Nat /\ RefreshTtl \in Nat /\ MaxLag \in Nat
ASSUME RolesAssumption == RolesSet \subseteq Roles
ASSUME OpsAssumption == Ops \subseteq AccessOps \cup ServiceOps
ASSUME BoundAssumption == MaxTokens \in Nat
ASSUME UsersAssumption == "none" \notin Users

VARIABLES
    users,       \* table users: role and status
    tokens,      \* tokens issued that have not expired
    req,         \* the request of each thread
    \* History, capped at Cap: ticks since the row of a user said that ...
    sinceAdmin,  \* ... the user is an administrator
    sinceActive  \* ... the account is active

vars == <<users, tokens, req, sinceAdmin, sinceActive>>

Cap == AccessTtl + MaxLag + 1
Ages == 0 .. Cap

Row == [role : Roles, status : {"absent", "active", "disabled"}]

\* The claims; lag is history: how long the request took that issued the
\* token.
MaxTtl == IF AccessTtl > RefreshTtl THEN AccessTtl ELSE RefreshTtl
Token == [sub : {"access", "refresh"}, user : Users, role : Roles \cup {"none"},
          left : 0 .. MaxTtl, lag : 0 .. MaxLag]

\* admin, active are history: the ages of user's row when the request was
\* authenticated.
Request == [op : Issuing \cup AccessOps \cup ServiceOps \cup {"none"}, step : Steps,
            user : Users \cup {"none"}, row : Row, lag : 0 .. MaxLag, admin : Ages, active : Ages]

NoRow == [role |-> "user", status |-> "absent"]
NewRequest(op, step, u, row, admin, active) ==
    [op |-> op, step |-> step, user |-> u, row |-> row, lag |-> 0,
     admin |-> admin, active |-> active]
NoRequest == NewRequest("none", "idle", "none", NoRow, 0, 0)

TypeOK ==
    /\ users \in [Users -> Row]
    /\ tokens \in SUBSET Token
    /\ req \in [Procs -> Request]
    /\ sinceAdmin \in [Users -> Ages]
    /\ sinceActive \in [Users -> Ages]

\* Age of a fact about a row that now reads row.
AdminAge(row, age) == IF row.role \in Admins THEN 0 ELSE age
ActiveAge(row, age) == IF row.status = "active" THEN 0 ELSE age

Init ==
    /\ users \in [Users -> {NoRow} \cup [role : RolesSet, status : {"active"}]]
    /\ tokens = {}
    /\ req = [p \in Procs |-> NoRequest]
    /\ sinceAdmin = [u \in Users |-> AdminAge(users[u], Cap)]
    /\ sinceActive = [u \in Users |-> ActiveAge(users[u], Cap)]

SetRow(u, row) ==
    /\ users' = [users EXCEPT ![u] = row]
    /\ sinceAdmin' = [sinceAdmin EXCEPT ![u] = AdminAge(row, @)]
    /\ sinceActive' = [sinceActive EXCEPT ![u] = ActiveAge(row, @)]

Done(p) == req' = [req EXCEPT ![p] = NoRequest]

Idle(p) == req[p].step = "idle"

-----------------------------------------------------------------------------
(* JwtService.                                                             *)

\* UserRoleToString: what is no role of the code becomes a plain user.
UserRoleToString(r) == IF r \in Admins THEN r ELSE "user"

\* Faulty variant of GenerateAccessToken: the lifetimes are swapped.
GenerateAccessTokenSwapped(u, row, lag) ==
    [sub |-> "access", user |-> u, role |-> UserRoleToString(row.role),
     left |-> RefreshTtl, lag |-> lag]

GenerateAccessToken(u, row, lag) ==
    [sub |-> "access", user |-> u, role |-> UserRoleToString(row.role),
     left |-> AccessTtl, lag |-> lag]

\* No id, uuid, mobile or role.
GenerateRefreshToken(u, lag) ==
    [sub |-> "refresh", user |-> u, role |-> "none",
     left |-> RefreshTtl, lag |-> lag]

\* VerifyAccessToken: the signature holds, exp is not past, sub is "access",
\* and role is there.
VerifyAccessToken(t) == t.sub = "access" /\ t.role # "none"

\* ParseRefreshToken, likewise; the uid of a refresh token is the user's id.
ParseRefreshToken(t) == t.sub = "refresh"

-----------------------------------------------------------------------------
(* AuthHandler and AuthService: the requests that issue tokens.            *)

Begin(p, op, step, u, row) ==
    req' = [req EXCEPT ![p] = NewRequest(op, step, u, row, 0, 0)]

\* Bound: a pair of tokens fits.
TokensLeft ==
    Cardinality(tokens) + 2 * Cardinality({p \in Procs : req[p].op \in Issuing}) + 2
        <= MaxTokens

\* Register: a new row, with the role of a plain user.
Register(p, u) ==
    /\ Idle(p) /\ TokensLeft
    /\ users[u].status = "absent"
    /\ LET row == [role |-> "user", status |-> "active"] IN
       /\ SetRow(u, row)
       /\ Begin(p, "register", "issue", u, row)
    /\ UNCHANGED tokens

\* LoginByPassword, LoginByCode: FindByMobile, and the account is active.
Login(p, u) ==
    /\ Idle(p) /\ TokensLeft
    /\ users[u].status = "active"
    /\ Begin(p, "login", "issue", u, users[u])
    /\ UNCHANGED <<users, tokens, sinceAdmin, sinceActive>>

RefreshToken(p, t) ==
    /\ Idle(p) /\ TokensLeft
    /\ ParseRefreshToken(t)
    /\ Begin(p, "refresh", "find", t.user, NoRow)
    /\ UNCHANGED <<users, tokens, sinceAdmin, sinceActive>>

\* Faulty variant of FindById: a disabled account is not refused.
FindByIdAnyStatus(p) ==
    /\ req[p].op = "refresh" /\ req[p].step = "find"
    /\ \/ /\ users[req[p].user].status # "absent"
          /\ req' = [req EXCEPT ![p].step = "issue", ![p].row = users[req[p].user]]
       \/ Done(p)
    /\ UNCHANGED <<users, tokens, sinceAdmin, sinceActive>>

\* RefreshToken reads the row; then the table of sessions may refuse.
FindById(p) ==
    /\ req[p].op = "refresh" /\ req[p].step = "find"
    /\ \/ /\ users[req[p].user].status = "active"
          /\ req' = [req EXCEPT ![p].step = "issue", ![p].row = users[req[p].user]]
       \/ Done(p)
    /\ UNCHANGED <<users, tokens, sinceAdmin, sinceActive>>

\* GenerateTokenPair from the row that was read.
Issue(p) ==
    /\ req[p].step = "issue"
    /\ LET r == req[p] IN
       tokens' = tokens \cup {GenerateAccessToken(r.user, r.row, r.lag),
                              GenerateRefreshToken(r.user, r.lag)}
    /\ Done(p)
    /\ UNCHANGED <<users, sinceAdmin, sinceActive>>

-----------------------------------------------------------------------------
(* UserHandler, and AuthHandler::ValidateToken: requests with a token.     *)

\* Faulty variant of RequireAdmin: every role passes.
RequireAdminAny(role) == TRUE

RequireAdmin(role) == role \in Admins

\* JwtAuthenticator::Authenticate, RequireAdmin where the handler asks for
\* it.
Authenticate(p, op, t) ==
    /\ Idle(p)
    /\ VerifyAccessToken(t)
    /\ op \in AdminOps => RequireAdmin(t.role)
    /\ req' = [req EXCEPT ![p] =
                  NewRequest(op, IF op \in ReadOps THEN "serve" ELSE "find", t.user,
                             NoRow, sinceAdmin[t.user], sinceActive[t.user])]
    /\ UNCHANGED <<users, tokens, sinceAdmin, sinceActive>>

\* GetCurrentUser, GetUser, ListUsers read tables; ValidateToken answers from
\* the token.
Serve(p) ==
    /\ req[p].step = "serve"
    /\ Done(p)
    /\ UNCHANGED <<users, tokens, sinceAdmin, sinceActive>>

\* A request of ServiceOps begins.
BeginService(p, op, u) ==
    /\ Idle(p)
    /\ Begin(p, op, "find", u, NoRow)
    /\ UNCHANGED <<users, tokens, sinceAdmin, sinceActive>>

\* The request goes on with a row of this status: UpdateUser and
\* ChangePassword refuse a disabled account, SetUserDisabled returns when there
\* is nothing to change.
Accepts(op, status) ==
    CASE op \in {"updateUser", "changePassword", "disable"} -> status = "active"
      [] op = "enable" -> status = "disabled"
      [] OTHER -> status # "absent"

\* FindByUUID, FindByMobile; each request may be refused for other reasons
\* (name, old password, captcha).
FindRow(p) ==
    /\ req[p].op \in WriteOps \cup ServiceOps /\ req[p].step = "find"
    /\ \/ /\ Accepts(req[p].op, users[req[p].user].status)
          /\ req' = [req EXCEPT ![p].step = "write", ![p].row = users[req[p].user],
                                ![p].admin = 0, ![p].active = 0]
       \/ Done(p)
    /\ UNCHANGED <<users, tokens, sinceAdmin, sinceActive>>

\* The row as the request writes it: role and disabled as they were read,
\* unless the request is about disabled.
Written(op, row) ==
    [row EXCEPT !.status = CASE op \in {"deleteUser", "disable"} -> "disabled"
                             [] op = "enable" -> "active"
                             [] OTHER -> @]

\* UserDB::Update.
Write(p) ==
    /\ req[p].step = "write"
    /\ SetRow(req[p].user, Written(req[p].op, req[p].row))
    /\ Done(p)
    /\ UNCHANGED tokens

-----------------------------------------------------------------------------
(* The operator and the clock.                                             *)

\* No code of the service changes a role: the operator does, in the table.
SetRole(u, r) ==
    /\ users[u].status # "absent"
    /\ SetRow(u, [users[u] EXCEPT !.role = r])
    /\ UNCHANGED <<tokens, req>>

Older(age) == IF age < Cap THEN age + 1 ELSE Cap

\* VerifyJwt refuses a token once now > exp.
Valid(ts) == {[t EXCEPT !.left = @ - 1] : t \in {x \in ts : x.left > 0}}

Tick ==
    /\ \A p \in Procs : req[p].step = "issue" => req[p].lag < MaxLag
    /\ tokens' = Valid(tokens)
    /\ req' = [p \in Procs |-> IF req[p].step = "issue"
                               THEN [req[p] EXCEPT !.lag = @ + 1] ELSE req[p]]
    /\ sinceAdmin' = [u \in Users |-> AdminAge(users[u], Older(sinceAdmin[u]))]
    /\ sinceActive' = [u \in Users |-> ActiveAge(users[u], Older(sinceActive[u]))]
    /\ UNCHANGED users

Arrive(p) ==
    \/ \E u \in Users : Register(p, u) \/ Login(p, u)
    \/ \E t \in tokens : RefreshToken(p, t)
    \/ \E t \in tokens, op \in Ops \cap AccessOps : Authenticate(p, op, t)
    \/ \E u \in Users, op \in Ops \cap ServiceOps : BeginService(p, op, u)

Proceed(p) == FindById(p) \/ Issue(p) \/ Serve(p) \/ FindRow(p) \/ Write(p)

Next ==
    \/ \E p \in Procs : Arrive(p) \/ Proceed(p)
    \/ \E u \in Users, r \in RolesSet : SetRole(u, r)
    \/ Tick

Spec == Init /\ [][Next]_vars

\* Threads go on with what they have begun, and time passes; nobody has to
\* send a request or to change a role.
FairSpec == Spec /\ WF_vars(Tick) /\ \A p \in Procs : WF_vars(Proceed(p))

-----------------------------------------------------------------------------
(* Properties.                                                             *)

\* Whoever is admitted as an administrator was one in the table at most an
\* access token's lifetime earlier, plus the time the login or refresh took
\* between reading the row and signing: however often tokens were refreshed
\* and whatever was written meanwhile.
AdminActsFresh ==
    \A p \in Procs : (req[p].op \in AdminOps /\ req[p].step = "serve")
        => req[p].admin <= AccessTtl + MaxLag

\* Any request that is admitted by a token is of an account that was active
\* that recently: deleting or disabling an account ends its access within
\* this time, unless it was enabled again.
AccountActsFresh ==
    \A p \in Procs : (req[p].op \in AccessOps)
        => req[p].active <= AccessTtl + MaxLag

\* When a user is no administrator any more and stays so, the requests that
\* are admitted as an administrator's come to an end.
AuthorityEnds ==
    \A u \in Users :
        <>[](users[u].role \notin Admins)
            => <>[](\A p \in Procs : req[p].op \in AdminOps => req[p].user # u)
=============================================================================
