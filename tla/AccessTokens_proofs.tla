------------------------ MODULE AccessTokens_proofs ------------------------
(***************************************************************************)
(* Proofs about AccessTokens, for any number of threads, users and tokens, *)
(* and, in the second half, about Listing: ListUsers, which those tokens   *)
(* admit, for any table, page, size and filter.                            *)
(*                                                                         *)
(* AdminActsFresh looks at a request, whose authority comes from a token,  *)
(* whose role comes from a row read earlier: IInv says of each of the      *)
(* three how old what it says about the table can be.                      *)
(*                                                                         *)
(* The pages of a walk are compared by the rank of a row among those that  *)
(* match: ListingInv says which ranks a walk has been through.  Rows move  *)
(* down while none leaves the filter, and up while none enters it.         *)
(***************************************************************************)
EXTENDS AccessTokens, Listing, FiniteSetTheorems, TLAPS

\* A row that says so now has age 0.
RowAges ==
    \A u \in Users : /\ users[u].role \in Admins => sinceAdmin[u] = 0
                     /\ users[u].status = "active" => sinceActive[u] = 0

\* What an access token says was true when it had AccessTtl + lag to go.
TokenInv(t, admin, active) ==
    t.sub = "access" =>
        /\ active[t.user] + t.left <= AccessTtl + t.lag
        /\ t.role \in Admins => admin[t.user] + t.left <= AccessTtl + t.lag

\* What the row of a request that is about to issue says was true lag ticks
\* ago; what a token admitted was true within its life.
RequestInv(r, admin, active) ==
    /\ r.step # "idle" => r.user \in Users
    /\ r.step = "issue" =>
          /\ active[r.user] <= r.lag
          /\ r.row.role \in Admins => admin[r.user] <= r.lag
    /\ (r.op \in AdminOps /\ r.step = "serve") => r.admin <= AccessTtl + MaxLag
    /\ r.op \in AccessOps => r.active <= AccessTtl + MaxLag

TokensInv == \A t \in tokens : TokenInv(t, sinceAdmin, sinceActive)
RequestsInv == \A p \in Procs : RequestInv(req[p], sinceAdmin, sinceActive)

IInv == TypeOK /\ RowAges /\ TokensInv /\ RequestsInv

-----------------------------------------------------------------------------

\* Cap and the longest lifetime are naturals.
LEMMA Bounds == Cap \in Nat /\ MaxTtl \in Nat /\ AccessTtl <= MaxTtl /\ RefreshTtl <= MaxTtl
  BY TtlAssumption DEF Cap, MaxTtl

\* A row that is written never makes an age larger.
LEMMA AgesShrink ==
  ASSUME NEW row \in Row, NEW age \in Ages
  PROVE  /\ AdminAge(row, age) \in Ages /\ AdminAge(row, age) <= age
         /\ ActiveAge(row, age) \in Ages /\ ActiveAge(row, age) <= age
         /\ row.role \in Admins => AdminAge(row, age) = 0
         /\ row.status = "active" => ActiveAge(row, age) = 0
  BY Bounds DEF AdminAge, ActiveAge, Ages

\* A tick adds at most one.
LEMMA AgesGrow ==
  ASSUME NEW age \in Ages
  PROVE  Older(age) \in Ages /\ Older(age) <= age + 1
  BY Bounds DEF Older, Ages

\* Both idle values are of their type.
LEMMA Defaults == NoRow \in Row /\ NoRequest \in Request
  <1>1. NoRow \in Row
    BY DEF NoRow, Row, Roles
  <1>2. QED
    BY <1>1, Bounds, TtlAssumption DEF NoRequest, NewRequest, Request, Steps, Ages

\* A request that has just arrived.
LEMMA NewTyped ==
  ASSUME NEW op \in Issuing \cup AccessOps \cup ServiceOps, NEW step \in Steps, NEW u \in Users,
         NEW row \in Row, NEW a \in Ages, NEW x \in Ages
  PROVE  LET r == NewRequest(op, step, u, row, a, x) IN
           /\ r \in Request
           /\ r.op = op /\ r.step = step /\ r.user = u /\ r.row = row
           /\ r.lag = 0 /\ r.admin = a /\ r.active = x
  BY TtlAssumption DEF NewRequest, Request

\* The two tokens of a pair are tokens.
LEMMA PairTyped ==
  ASSUME NEW u \in Users, NEW row \in Row, NEW lag \in 0 .. MaxLag
  PROVE  /\ GenerateAccessToken(u, row, lag) \in Token
         /\ GenerateRefreshToken(u, lag) \in Token
  <1>1. AccessTtl \in 0 .. MaxTtl /\ RefreshTtl \in 0 .. MaxTtl
    BY Bounds, TtlAssumption
  <1>2. UserRoleToString(row.role) \in Roles
    BY DEF UserRoleToString, Admins, Roles
  <1>3. QED
    BY <1>1, <1>2 DEF GenerateAccessToken, GenerateRefreshToken, Token

\* The invariants of a token and of a request survive smaller ages.
LEMMA InvMonotone ==
  ASSUME TypeOK, NEW a \in [Users -> Ages], NEW x \in [Users -> Ages],
         \A u \in Users : a[u] <= sinceAdmin[u] /\ x[u] <= sinceActive[u]
  PROVE  /\ \A t \in Token : TokenInv(t, sinceAdmin, sinceActive) => TokenInv(t, a, x)
         /\ \A r \in Request : RequestInv(r, sinceAdmin, sinceActive) => RequestInv(r, a, x)
  <1> USE Bounds, TtlAssumption
  <1>1. \A u \in Users : /\ a[u] \in Nat /\ x[u] \in Nat
                         /\ sinceAdmin[u] \in Nat /\ sinceActive[u] \in Nat
    BY DEF TypeOK, Ages
  <1>2. ASSUME NEW t \in Token, TokenInv(t, sinceAdmin, sinceActive)
        PROVE  TokenInv(t, a, x)
    <2>1. t.user \in Users /\ t.left \in Nat /\ t.lag \in Nat
      BY DEF Token
    <2>2. QED
      BY <1>1, <1>2, <2>1 DEF TokenInv
  <1>3. ASSUME NEW r \in Request, RequestInv(r, sinceAdmin, sinceActive)
        PROVE  RequestInv(r, a, x)
    <2>1. r.lag \in Nat
      BY DEF Request
    <2>2. r.step = "issue" => r.user \in Users
      BY <1>3 DEF RequestInv
    <2>3. QED
      BY <1>1, <1>3, <2>1, <2>2 DEF RequestInv
  <1>4. QED
    BY <1>2, <1>3

\* A step that changes one request and nothing else.
LEMMA OneRequest ==
  ASSUME IInv, NEW p \in Procs, NEW r \in Request,
         req' = [req EXCEPT ![p] = r], RequestInv(r, sinceAdmin, sinceActive),
         UNCHANGED <<users, tokens, sinceAdmin, sinceActive>>
  PROVE  IInv'
  <1>1. TypeOK'
    BY DEF IInv, TypeOK
  <1>2. RowAges' /\ TokensInv'
    BY DEF IInv, RowAges, TokensInv
  <1>3. RequestsInv'
    BY DEF IInv, TypeOK, RequestsInv
  <1>4. QED
    BY <1>1, <1>2, <1>3 DEF IInv

\* A step that writes one row; the requests it changes satisfy the invariant.
LEMMA OneRow ==
  ASSUME IInv, NEW u \in Users, NEW row \in Row, SetRow(u, row), UNCHANGED tokens,
         req' \in [Procs -> Request],
         \A q \in Procs : \/ req'[q] = req[q]
                          \/ RequestInv(req'[q], sinceAdmin', sinceActive')
  PROVE  IInv'
  <1>1. /\ sinceAdmin' \in [Users -> Ages] /\ sinceActive' \in [Users -> Ages]
        /\ \A v \in Users : sinceAdmin'[v] <= sinceAdmin[v] /\ sinceActive'[v] <= sinceActive[v]
    <2>1. \A v \in Users : /\ sinceAdmin[v] \in Ages /\ sinceActive[v] \in Ages
                           /\ sinceAdmin[v] <= sinceAdmin[v] /\ sinceActive[v] <= sinceActive[v]
      BY Bounds DEF IInv, TypeOK, Ages
    <2>2. /\ AdminAge(row, sinceAdmin[u]) \in Ages /\ AdminAge(row, sinceAdmin[u]) <= sinceAdmin[u]
          /\ ActiveAge(row, sinceActive[u]) \in Ages /\ ActiveAge(row, sinceActive[u]) <= sinceActive[u]
      BY <2>1, AgesShrink
    <2>3. QED
      BY <2>1, <2>2 DEF SetRow, IInv, TypeOK
  <1>2. TypeOK'
    BY <1>1 DEF IInv, TypeOK, SetRow
  <1>3. RowAges'
    <2>1. sinceAdmin[u] \in Ages /\ sinceActive[u] \in Ages
      BY DEF IInv, TypeOK
    <2>2. /\ row.role \in Admins => AdminAge(row, sinceAdmin[u]) = 0
          /\ row.status = "active" => ActiveAge(row, sinceActive[u]) = 0
      BY <2>1, AgesShrink
    <2>3. QED
      BY <2>2 DEF SetRow, RowAges, IInv, TypeOK
  <1>4. /\ \A t \in Token : TokenInv(t, sinceAdmin, sinceActive) => TokenInv(t, sinceAdmin', sinceActive')
        /\ \A s \in Request : RequestInv(s, sinceAdmin, sinceActive) => RequestInv(s, sinceAdmin', sinceActive')
    BY <1>1, InvMonotone DEF IInv
  <1>5. TokensInv'
    BY <1>4 DEF IInv, TypeOK, TokensInv
  <1>6. RequestsInv'
    <2> SUFFICES ASSUME NEW q \in Procs PROVE RequestInv(req'[q], sinceAdmin', sinceActive')
      BY DEF RequestsInv
    <2>1. CASE req'[q] = req[q]
      BY <2>1, <1>4 DEF IInv, TypeOK, RequestsInv
    <2>2. QED
      BY <2>1
  <1>7. QED
    BY <1>2, <1>3, <1>5, <1>6 DEF IInv

\* Every request's idle value satisfies the invariant of requests.
LEMMA IdleInv ==
  ASSUME NEW a, NEW x
  PROVE  RequestInv(NoRequest, a, x)
  BY DEF RequestInv, NoRequest, NewRequest, AdminOps, AccessOps, ReadOps, WriteOps

-----------------------------------------------------------------------------

LEMMA InitIInv == Init => IInv
  <1> SUFFICES ASSUME Init PROVE IInv
    OBVIOUS
  <1>1. users \in [Users -> Row]
    BY Defaults, RolesAssumption DEF Init, Row
  <1>2. Cap \in Ages
    BY Bounds DEF Ages
  <1>3. \A u \in Users :
          /\ AdminAge(users[u], Cap) \in Ages /\ ActiveAge(users[u], Cap) \in Ages
          /\ users[u].role \in Admins => AdminAge(users[u], Cap) = 0
          /\ users[u].status = "active" => ActiveAge(users[u], Cap) = 0
    BY <1>1, <1>2, AgesShrink
  <1>4. TypeOK
    BY <1>1, <1>3, Defaults DEF Init, TypeOK
  <1>5. RowAges
    BY <1>3 DEF Init, RowAges
  <1>6. TokensInv
    BY DEF Init, TokensInv
  <1>7. RequestsInv
    BY IdleInv DEF Init, RequestsInv
  <1>8. QED
    BY <1>4, <1>5, <1>6, <1>7 DEF IInv

\* Requests that issue tokens: their row is as old as they say.
LEMMA IssuingSteps ==
  ASSUME IInv, NEW p \in Procs,
         \/ \E u \in Users : Register(p, u) \/ Login(p, u)
         \/ \E t \in tokens : RefreshToken(p, t)
         \/ FindById(p) \/ Issue(p)
  PROVE  IInv'
  <1> USE Defaults, Bounds, TtlAssumption
  <1> DEFINE Req(op, step, u, row) == NewRequest(op, step, u, row, 0, 0)
  <1>0. \A op \in Issuing, step \in Steps, u \in Users, row \in Row :
          /\ Req(op, step, u, row) \in Request
          /\ Req(op, step, u, row).op = op /\ Req(op, step, u, row).step = step
          /\ Req(op, step, u, row).user = u /\ Req(op, step, u, row).row = row
          /\ Req(op, step, u, row).lag = 0
    BY NewTyped DEF Ages
  <1> HIDE DEF Req
  <1>1. ASSUME NEW u \in Users, Register(p, u) PROVE IInv'
    <2> DEFINE row == [role |-> "user", status |-> "active"]
               r == Req("register", "issue", u, row)
    <2>1. row \in Row
      BY DEF Row, Roles
    <2>2. r \in Request /\ r.op = "register" /\ r.step = "issue" /\ r.user = u
          /\ r.row = row /\ r.lag = 0
      BY <2>1, <1>0 DEF Issuing, Steps
    <2>3. SetRow(u, row) /\ req' = [req EXCEPT ![p] = r] /\ UNCHANGED tokens
      BY <1>1 DEF Register, Begin, Req
    <2>4. sinceActive'[u] = 0
      BY <2>3 DEF SetRow, ActiveAge, IInv, TypeOK
    <2>5. RequestInv(r, sinceAdmin', sinceActive')
      BY <2>2, <2>4 DEF RequestInv, Admins, AdminOps, AccessOps, ReadOps, WriteOps
    <2> HIDE DEF row, r
    <2>6. req' \in [Procs -> Request] /\ \A q \in Procs : req'[q] = req[q] \/ req'[q] = r
      BY <2>2, <2>3 DEF IInv, TypeOK
    <2>7. QED
      BY <2>1, <2>3, <2>5, <2>6, OneRow
  <1>2. ASSUME NEW u \in Users, Login(p, u) PROVE IInv'
    <2> DEFINE r == Req("login", "issue", u, users[u])
    <2>1. users[u] \in Row
      BY DEF IInv, TypeOK
    <2>2. r \in Request /\ r.op = "login" /\ r.step = "issue" /\ r.user = u
          /\ r.row = users[u] /\ r.lag = 0
      BY <2>1, <1>0 DEF Issuing, Steps
    <2>3. req' = [req EXCEPT ![p] = r] /\ UNCHANGED <<users, tokens, sinceAdmin, sinceActive>>
      BY <1>2 DEF Login, Begin, Req
    <2>4. sinceActive[u] = 0 /\ (users[u].role \in Admins => sinceAdmin[u] = 0)
      BY <1>2 DEF Login, IInv, RowAges
    <2>5. RequestInv(r, sinceAdmin, sinceActive)
      BY <2>2, <2>4 DEF RequestInv, AdminOps, AccessOps, ReadOps, WriteOps
    <2> HIDE DEF r
    <2>6. QED
      BY <2>2, <2>3, <2>5, OneRequest
  <1>3. ASSUME NEW t \in tokens, RefreshToken(p, t) PROVE IInv'
    <2> DEFINE r == Req("refresh", "find", t.user, NoRow)
    <2>1. t.user \in Users
      BY DEF IInv, TypeOK, Token
    <2>2. r \in Request /\ r.op = "refresh" /\ r.step = "find" /\ r.user = t.user
      BY <2>1, <1>0 DEF Issuing, Steps
    <2>3. req' = [req EXCEPT ![p] = r] /\ UNCHANGED <<users, tokens, sinceAdmin, sinceActive>>
      BY <1>3 DEF RefreshToken, Begin, Req
    <2>5. RequestInv(r, sinceAdmin, sinceActive)
      BY <2>1, <2>2 DEF RequestInv, AdminOps, AccessOps, ReadOps, WriteOps
    <2> HIDE DEF r
    <2>6. QED
      BY <2>2, <2>3, <2>5, OneRequest
  <1>4. ASSUME FindById(p) PROVE IInv'
    <2>1. CASE Done(p)
      BY <1>4, <2>1, IdleInv, OneRequest DEF Done, FindById
    <2>2. CASE users[req[p].user].status = "active"
               /\ req' = [req EXCEPT ![p].step = "issue", ![p].row = users[req[p].user]]
      <3> DEFINE u == req[p].user
                 r == [req[p] EXCEPT !.step = "issue", !.row = users[u]]
      <3>1. req[p] \in Request /\ req[p].op = "refresh" /\ u \in Users /\ req[p].lag \in Nat
        BY <1>4 DEF FindById, IInv, TypeOK, RequestsInv, RequestInv, Request
      <3>2. users[u] \in Row /\ sinceActive[u] = 0 /\ (users[u].role \in Admins => sinceAdmin[u] = 0)
        BY <2>2, <3>1 DEF IInv, TypeOK, RowAges
      <3>3. r \in Request /\ r.op = "refresh" /\ r.step = "issue" /\ r.user = u
            /\ r.row = users[u] /\ r.lag \in Nat
        BY <3>1, <3>2 DEF Request, Steps
      <3>4. req' = [req EXCEPT ![p] = r] /\ UNCHANGED <<users, tokens, sinceAdmin, sinceActive>>
        BY <1>4, <2>2 DEF FindById, IInv, TypeOK
      <3>5. RequestInv(r, sinceAdmin, sinceActive)
        BY <3>1, <3>2, <3>3 DEF RequestInv, AdminOps, AccessOps, ReadOps, WriteOps
      <3> HIDE DEF r, u
      <3>6. QED
        BY <3>3, <3>4, <3>5, OneRequest
    <2>3. QED
      BY <1>4, <2>1, <2>2 DEF FindById
  <1>5. ASSUME Issue(p) PROVE IInv'
    <2> DEFINE r == req[p]
               acc == GenerateAccessToken(r.user, r.row, r.lag)
               ref == GenerateRefreshToken(r.user, r.lag)
    <2>1. r \in Request /\ r.step = "issue" /\ RequestInv(r, sinceAdmin, sinceActive)
      BY <1>5 DEF Issue, IInv, TypeOK, RequestsInv
    <2>2. r.user \in Users /\ r.row \in Row /\ r.lag \in 0 .. MaxLag
          /\ sinceActive[r.user] <= r.lag
          /\ (r.row.role \in Admins => sinceAdmin[r.user] <= r.lag)
      BY <2>1 DEF Request, RequestInv
    <2>3. acc \in Token /\ ref \in Token
      BY <2>2, PairTyped
    <2>4. tokens' = tokens \cup {acc, ref} /\ req' = [req EXCEPT ![p] = NoRequest]
          /\ UNCHANGED <<users, sinceAdmin, sinceActive>>
      BY <1>5 DEF Issue, Done
    <2>5. sinceActive[r.user] \in Nat /\ sinceAdmin[r.user] \in Nat
      BY <2>2 DEF IInv, TypeOK, Ages
    <2>6. TokenInv(acc, sinceAdmin, sinceActive)
      <3>1. acc.user = r.user /\ acc.left = AccessTtl /\ acc.lag = r.lag
            /\ (acc.role \in Admins => r.row.role \in Admins)
        BY DEF GenerateAccessToken, UserRoleToString, Admins
      <3> HIDE DEF acc
      <3>2. QED
        BY <2>2, <2>5, <3>1 DEF TokenInv
    <2>7. TokenInv(ref, sinceAdmin, sinceActive)
      BY DEF TokenInv, GenerateRefreshToken
    <2> HIDE DEF acc, ref
    <2>8. TypeOK'
      BY <2>3, <2>4 DEF IInv, TypeOK
    <2>9. RowAges'
      BY <2>4 DEF IInv, RowAges
    <2>10. TokensInv'
      BY <2>4, <2>6, <2>7 DEF IInv, TokensInv
    <2>11. RequestsInv'
      BY <2>4, IdleInv DEF IInv, TypeOK, RequestsInv
    <2>12. QED
      BY <2>8, <2>9, <2>10, <2>11 DEF IInv
  <1>6. QED
    BY <1>1, <1>2, <1>3, <1>4, <1>5

\* Requests that a token admits: the token's ages become the request's.  The
\* others bring none.
LEMMA AdmittedSteps ==
  ASSUME IInv, NEW p \in Procs,
         \/ \E t \in tokens, op \in Ops \cap AccessOps : Authenticate(p, op, t)
         \/ \E u \in Users, op \in Ops \cap ServiceOps : BeginService(p, op, u)
         \/ Serve(p) \/ FindRow(p)
  PROVE  IInv'
  <1> USE Defaults, Bounds, TtlAssumption
  <1>1. ASSUME NEW t \in tokens, NEW op \in Ops \cap AccessOps, Authenticate(p, op, t)
        PROVE  IInv'
    <2> DEFINE step == IF op \in ReadOps THEN "serve" ELSE "find"
               r == NewRequest(op, step, t.user, NoRow, sinceAdmin[t.user], sinceActive[t.user])
    <2>1. t \in Token /\ TokenInv(t, sinceAdmin, sinceActive)
      BY DEF IInv, TypeOK, TokensInv
    <2>2. t.user \in Users /\ t.left \in Nat /\ t.lag \in 0 .. MaxLag
      BY <2>1 DEF Token
    <2>3. sinceAdmin[t.user] \in Ages /\ sinceActive[t.user] \in Ages
      BY <2>2 DEF IInv, TypeOK
    <2>4. op \in AccessOps /\ step \in Steps
      BY DEF Steps
    <2>5. /\ r \in Request /\ r.op = op /\ r.step \in {"serve", "find"} /\ r.user = t.user
          /\ r.admin = sinceAdmin[t.user] /\ r.active = sinceActive[t.user]
      <3> HIDE DEF step
      <3>1. step \in {"serve", "find"}
        BY DEF step
      <3>2. QED
        BY <2>2, <2>3, <2>4, <3>1, NewTyped
    <2>6. req' = [req EXCEPT ![p] = r] /\ UNCHANGED <<users, tokens, sinceAdmin, sinceActive>>
      BY <1>1 DEF Authenticate
    <2> HIDE DEF r, step
    <2>7. sinceActive[t.user] <= AccessTtl + MaxLag
      BY <1>1, <2>1, <2>2, <2>3 DEF Authenticate, VerifyAccessToken, TokenInv, Ages
    <2>8. op \in AdminOps => sinceAdmin[t.user] <= AccessTtl + MaxLag
      BY <1>1, <2>1, <2>2, <2>3
         DEF Authenticate, VerifyAccessToken, RequireAdmin, TokenInv, Ages
    <2>9. RequestInv(r, sinceAdmin, sinceActive)
      BY <2>2, <2>5, <2>7, <2>8 DEF RequestInv
    <2>10. QED
      BY <2>5, <2>6, <2>9, OneRequest
  <1>2. ASSUME Serve(p) PROVE IInv'
    BY <1>2, IdleInv, OneRequest DEF Serve, Done
  <1>3. ASSUME FindRow(p) PROVE IInv'
    <2>1. CASE Done(p)
      BY <1>3, <2>1, IdleInv, OneRequest DEF Done, FindRow
    <2>2. CASE req' = [req EXCEPT ![p].step = "write", ![p].row = users[req[p].user],
                                  ![p].admin = 0, ![p].active = 0]
      <3> DEFINE u == req[p].user
                 r == [req[p] EXCEPT !.step = "write", !.row = users[u],
                                     !.admin = 0, !.active = 0]
      <3>1. req[p] \in Request /\ u \in Users
        BY <1>3 DEF FindRow, IInv, TypeOK, RequestsInv, RequestInv
      <3>2. users[u] \in Row /\ 0 \in Ages
        BY <3>1 DEF IInv, TypeOK, Ages
      <3>3. r \in Request /\ r.step = "write" /\ r.user = u /\ r.row = users[u] /\ r.active = 0
        BY <3>1, <3>2 DEF Request, Steps
      <3>4. req' = [req EXCEPT ![p] = r] /\ UNCHANGED <<users, tokens, sinceAdmin, sinceActive>>
        BY <1>3, <2>2 DEF FindRow, IInv, TypeOK
      <3> HIDE DEF r, u
      <3>5. RequestInv(r, sinceAdmin, sinceActive)
        BY <3>1, <3>3 DEF RequestInv
      <3>6. QED
        BY <3>3, <3>4, <3>5, OneRequest
    <2>3. QED
      BY <1>3, <2>1, <2>2 DEF FindRow
  <1>4. ASSUME NEW u \in Users, NEW op \in Ops \cap ServiceOps, BeginService(p, op, u) PROVE IInv'
    <2> DEFINE r == NewRequest(op, "find", u, NoRow, 0, 0)
    <2>1. 0 \in Ages /\ "find" \in Steps
      BY DEF Ages, Steps
    <2>2. r \in Request /\ r.op = op /\ r.step = "find" /\ r.user = u
      BY <2>1, NewTyped
    <2>3. req' = [req EXCEPT ![p] = r] /\ UNCHANGED <<users, tokens, sinceAdmin, sinceActive>>
      BY <1>4 DEF BeginService, Begin
    <2> HIDE DEF r
    <2>4. RequestInv(r, sinceAdmin, sinceActive)
      BY <2>2 DEF RequestInv, AccessOps, AdminOps, ReadOps, WriteOps, ServiceOps
    <2>5. QED
      BY <2>2, <2>3, <2>4, OneRequest
  <1>5. QED
    BY <1>1, <1>2, <1>3, <1>4

\* The steps that write a row: a handler's and the operator's.
LEMMA WritingSteps ==
  ASSUME IInv,
         \/ \E p \in Procs : Write(p)
         \/ \E u \in Users, r \in RolesSet : SetRole(u, r)
  PROVE  IInv'
  <1>1. ASSUME NEW p \in Procs, Write(p) PROVE IInv'
    <2> DEFINE r == req[p]
               row == Written(r.op, r.row)
    <2>1. r \in Request /\ r.user \in Users
      BY <1>1 DEF Write, IInv, TypeOK, RequestsInv, RequestInv
    <2>2. row \in Row
      BY <2>1 DEF Request, Row, Written
    <2>3. SetRow(r.user, row) /\ req' = [req EXCEPT ![p] = NoRequest] /\ UNCHANGED tokens
      BY <1>1 DEF Write, Done
    <2> HIDE DEF row
    <2>4. req' \in [Procs -> Request] /\ \A q \in Procs : req'[q] = req[q] \/ req'[q] = NoRequest
      BY <2>3, Defaults DEF IInv, TypeOK
    <2>5. RequestInv(NoRequest, sinceAdmin', sinceActive')
      BY IdleInv
    <2>6. QED
      BY <2>1, <2>2, <2>3, <2>4, <2>5, OneRow
  <1>2. ASSUME NEW u \in Users, NEW r \in RolesSet, SetRole(u, r) PROVE IInv'
    <2> DEFINE row == [users[u] EXCEPT !.role = r]
    <2>1. row \in Row
      BY RolesAssumption DEF IInv, TypeOK, Row
    <2>2. SetRow(u, row) /\ UNCHANGED <<tokens, req>>
      BY <1>2 DEF SetRole
    <2> HIDE DEF row
    <2>3. req' \in [Procs -> Request] /\ \A q \in Procs : req'[q] = req[q]
      BY <2>2 DEF IInv, TypeOK
    <2>4. QED
      BY <2>1, <2>2, <2>3, OneRow
  <1>3. QED
    BY <1>1, <1>2

\* Time: every age grows by at most what a token or a request grows older.
LEMMA TickStep ==
  ASSUME IInv, Tick
  PROVE  IInv'
  <1> USE Bounds, TtlAssumption
  <1>1. \A u \in Users :
          /\ users[u] \in Row /\ sinceAdmin[u] \in Nat /\ sinceActive[u] \in Nat
          /\ sinceAdmin'[u] \in Ages /\ sinceAdmin'[u] <= sinceAdmin[u] + 1
          /\ sinceActive'[u] \in Ages /\ sinceActive'[u] <= sinceActive[u] + 1
          /\ users[u].role \in Admins => sinceAdmin'[u] = 0
          /\ users[u].status = "active" => sinceActive'[u] = 0
    <2> TAKE u \in Users
    <2>1. users[u] \in Row /\ sinceAdmin[u] \in Ages /\ sinceActive[u] \in Ages
      BY DEF IInv, TypeOK
    <2> DEFINE a == Older(sinceAdmin[u])
               x == Older(sinceActive[u])
    <2>2. a \in Ages /\ a <= sinceAdmin[u] + 1 /\ x \in Ages /\ x <= sinceActive[u] + 1
      BY <2>1, AgesGrow
    <2>3. sinceAdmin'[u] = AdminAge(users[u], a) /\ sinceActive'[u] = ActiveAge(users[u], x)
      BY DEF Tick
    <2> HIDE DEF a, x
    <2>4. /\ AdminAge(users[u], a) \in Ages /\ AdminAge(users[u], a) <= a
          /\ ActiveAge(users[u], x) \in Ages /\ ActiveAge(users[u], x) <= x
          /\ users[u].role \in Admins => AdminAge(users[u], a) = 0
          /\ users[u].status = "active" => ActiveAge(users[u], x) = 0
      BY <2>1, <2>2, AgesShrink
    <2>5. QED
      BY <2>1, <2>2, <2>3, <2>4 DEF Ages
  <1>2. \A u \in Users : sinceAdmin'[u] \in Nat /\ sinceActive'[u] \in Nat
    BY <1>1 DEF Ages
  <1>3. ASSUME NEW t \in tokens' PROVE t \in Token /\ TokenInv(t, sinceAdmin', sinceActive')
    <2>1. PICK s \in tokens : s.left > 0 /\ t = [s EXCEPT !.left = @ - 1]
      BY <1>3 DEF Tick, Valid
    <2>2. s \in Token /\ TokenInv(s, sinceAdmin, sinceActive)
      BY DEF IInv, TypeOK, TokensInv
    <2>3. s.user \in Users /\ s.left \in 0 .. MaxTtl /\ s.lag \in Nat
      BY <2>2 DEF Token
    <2>4. s.left - 1 \in 0 .. MaxTtl
      BY <2>1, <2>3
    <2>5. t \in Token /\ t.sub = s.sub /\ t.user = s.user /\ t.role = s.role
          /\ t.left = s.left - 1 /\ t.lag = s.lag
      BY <2>1, <2>2, <2>4 DEF Token
    <2>6. TokenInv(t, sinceAdmin', sinceActive')
      BY <1>1, <1>2, <2>2, <2>3, <2>5 DEF TokenInv
    <2>7. QED
      BY <2>5, <2>6
  <1>4. ASSUME NEW p \in Procs
        PROVE  req'[p] \in Request /\ RequestInv(req'[p], sinceAdmin', sinceActive')
    <2> DEFINE r == req[p]
               s == IF r.step = "issue" THEN [r EXCEPT !.lag = @ + 1] ELSE r
    <2>1. r \in Request /\ RequestInv(r, sinceAdmin, sinceActive) /\ r.lag \in 0 .. MaxLag
      BY DEF IInv, TypeOK, RequestsInv, Request
    <2>2. req'[p] = s /\ (r.step = "issue" => r.lag < MaxLag)
      BY DEF Tick
    <2>3. r.step = "issue" => r.lag + 1 \in 0 .. MaxLag
      BY <2>1, <2>2
    <2>4. s \in Request /\ s.op = r.op /\ s.step = r.step /\ s.user = r.user /\ s.row = r.row
          /\ s.admin = r.admin /\ s.active = r.active
          /\ (r.step = "issue" => s.lag = r.lag + 1)
      BY <2>1, <2>3 DEF Request
    <2> HIDE DEF s
    <2>5. RequestInv(s, sinceAdmin', sinceActive')
      BY <1>1, <1>2, <2>1, <2>4 DEF RequestInv
    <2>6. QED
      BY <2>2, <2>4, <2>5
  <1>5. TypeOK'
    <2>1. users' \in [Users -> Row]
      BY DEF Tick, IInv, TypeOK
    <2>2. tokens' \in SUBSET Token
      BY <1>3
    <2>3. req' \in [Procs -> Request]
      BY <1>4 DEF Tick
    <2>4. sinceAdmin' \in [Users -> Ages] /\ sinceActive' \in [Users -> Ages]
      BY <1>1 DEF Tick
    <2>5. QED
      BY <2>1, <2>2, <2>3, <2>4 DEF TypeOK
  <1>6. RowAges'
    BY <1>1 DEF Tick, RowAges
  <1>7. TokensInv' /\ RequestsInv'
    BY <1>3, <1>4 DEF TokensInv, RequestsInv
  <1>8. QED
    BY <1>5, <1>6, <1>7 DEF IInv

LEMMA NextIInv == IInv /\ [Next]_vars => IInv'
  <1> SUFFICES ASSUME IInv, [Next]_vars PROVE IInv'
    OBVIOUS
  <1>1. ASSUME NEW p \in Procs, Arrive(p) PROVE IInv'
    BY <1>1, IssuingSteps, AdmittedSteps DEF Arrive
  <1>2. ASSUME NEW p \in Procs, Proceed(p) PROVE IInv'
    BY <1>2, IssuingSteps, AdmittedSteps, WritingSteps DEF Proceed
  <1>3. CASE \E u \in Users, r \in RolesSet : SetRole(u, r)
    BY <1>3, WritingSteps
  <1>4. CASE Tick
    BY <1>4, TickStep
  <1>5. CASE UNCHANGED vars
    BY <1>5 DEF vars, IInv, TypeOK, RowAges, TokensInv, RequestsInv
  <1>6. QED
    BY <1>1, <1>2, <1>3, <1>4, <1>5 DEF Next

-----------------------------------------------------------------------------
(* Theorems.                                                               *)

\* IInv holds in every reachable state.
THEOREM Invariance == Spec => []IInv
  BY InitIInv, NextIInv, PTL DEF Spec

\* Tokens, requests and ages keep their types; in particular a token is
\* dropped before its time left would pass zero (VerifyJwt).
THEOREM TypeCorrect == Spec => []TypeOK
  <1>1. IInv => TypeOK
    BY DEF IInv
  <1>2. QED
    BY <1>1, Invariance, PTL

\* An administrator's request is at most AccessTtl + MaxLag ticks behind the
\* role column, for any number of tokens, refreshes and writers.
THEOREM AuthorityIsFresh == Spec => []AdminActsFresh
  <1>1. IInv => AdminActsFresh
    BY DEF IInv, RequestsInv, RequestInv, AdminActsFresh
  <1>2. QED
    BY <1>1, Invariance, PTL

\* A request that a token admits is at most as far behind the status of its
\* account.
THEOREM AccessIsFresh == Spec => []AccountActsFresh
  <1>1. IInv => AccountActsFresh
    BY DEF IInv, RequestsInv, RequestInv, AccountActsFresh
  <1>2. QED
    BY <1>1, Invariance, PTL

-----------------------------------------------------------------------------
(* Listing: the arithmetic of pages.                                       *)

\* An offset that is an int is not changed by int arithmetic.
LEMMA WrapInt ==
    ASSUME NEW x \in 0 .. MaxInt
    PROVE  Wrap(x) = x
  <1>1. x + MaxInt + 1 \in Nat /\ 2 * MaxInt + 2 \in Nat /\ x + MaxInt + 1 < 2 * MaxInt + 2
    BY SizesAssumption
  <1>2. ASSUME NEW a \in Nat, NEW b \in Nat, a < b PROVE a % b = a
    BY <1>2
  <1>3. (x + MaxInt + 1) % (2 * MaxInt + 2) = x + MaxInt + 1
    BY <1>1, <1>2
  <1> QED BY <1>3, SizesAssumption DEF Wrap

\* Division rounds down.
LEMMA DivBounds ==
    ASSUME NEW n \in Nat, NEW s \in Nat \ {0}
    PROVE  n \div s \in Nat /\ s * (n \div s) <= n /\ n < s * (n \div s) + s
  OBVIOUS

\* A page is counted exactly if a row stands behind the pages before it.
LEMMA PageCounted ==
    ASSUME NEW total \in Nat, NEW s \in Nat \ {0}, NEW p \in Nat \ {0}
    PROVE  /\ TotalPages(total, s) \in 0 .. total
           /\ p <= TotalPages(total, s) <=> (p - 1) * s < total
  <1>1. PICK q \in Nat : /\ q = TotalPages(total, s)
                         /\ s * q <= total + s - 1 /\ total + s - 1 < s * q + s
    <2>1. total + s - 1 \in Nat
      OBVIOUS
    <2> QED BY <2>1, DivBounds DEF TotalPages
  <1>2. ASSUME p <= q PROVE (p - 1) * s < total
    <2>1. p * s <= q * s
      BY <1>2
    <2> QED BY <1>1, <2>1
  <1>3. ASSUME p > q PROVE (p - 1) * s >= total
    <2>1. (p - 1) * s >= q * s
      BY <1>3
    <2> QED BY <1>1, <2>1
  <1>4. q <= total
    <2>1. CASE q = 0
      BY <2>1
    <2>2. CASE q # 0
      <3>1. (q - 1) * s <= total - 1
        BY <1>1, <2>2
      <3>2. q - 1 <= (q - 1) * s
        BY <2>2
      <3> QED BY <3>1, <3>2
    <2> QED BY <2>1, <2>2
  <1> QED BY <1>1, <1>2, <1>3, <1>4

-----------------------------------------------------------------------------
(* Listing: the place of a row among those that match.                     *)

\* A table with its primary key.
Keyed(table) ==
    /\ table \in Seq(UserRow)
    /\ \A i, j \in DOMAIN table : table[i].id = table[j].id => i = j

\* The ids of the matching rows up to place i.
UpTo(f, table, i) == {table[j].id : j \in {k \in Matching(f, table) : k <= i}}

\* Ids are a finite set.
LEMMA IdSets ==
    ASSUME NEW S \in SUBSET Ids
    PROVE  IsFiniteSet(S) /\ Cardinality(S) \in 0 .. MaxUsers
  <1>1. IsFiniteSet(Ids) /\ Cardinality(Ids) = MaxUsers
    BY FS_Interval, TableAssumption DEF Ids
  <1>2. IsFiniteSet(S) /\ Cardinality(S) <= Cardinality(Ids)
    BY <1>1, FS_Subset
  <1> QED BY <1>1, <1>2, FS_CardinalityType, TableAssumption

LEMMA MatchingFacts ==
    ASSUME NEW f, NEW table \in Seq(UserRow)
    PROVE  /\ Matching(f, table) \subseteq 1 .. Len(table)
           /\ Matching(f, table) \subseteq Nat
           /\ \A i \in Matching(f, table) : i \in DOMAIN table /\ table[i].id \in MatchingIds(f, table)
           /\ MatchingIds(f, table) \subseteq Ids
           /\ \A i : UpTo(f, table, i) \subseteq MatchingIds(f, table)
  <1>1. Matching(f, table) \subseteq 1 .. Len(table) /\ Matching(f, table) \subseteq DOMAIN table
    BY DEF Matching
  <1>2. \A i \in Matching(f, table) : table[i].id \in MatchingIds(f, table)
    BY DEF MatchingIds
  <1>3. \A i \in Matching(f, table) : table[i].id \in Ids
    <2>1. \A i \in DOMAIN table : table[i] \in UserRow
      OBVIOUS
    <2> QED BY <1>1, <2>1 DEF UserRow
  <1>4. MatchingIds(f, table) \subseteq Ids
    BY <1>3 DEF MatchingIds
  <1>5. \A i : UpTo(f, table, i) \subseteq MatchingIds(f, table)
    BY DEF UpTo, MatchingIds
  <1>6. Matching(f, table) \subseteq Nat
    BY <1>1
  <1> QED BY <1>1, <1>2, <1>4, <1>5, <1>6

\* A row counts itself, and is counted among all that match.
LEMMA RankBounds ==
    ASSUME NEW f, NEW table \in Seq(UserRow), NEW i \in Matching(f, table)
    PROVE  /\ Rank(f, table, i) \in 1 .. Cardinality(MatchingIds(f, table))
           /\ Cardinality(MatchingIds(f, table)) \in 0 .. MaxUsers
  <1>1. /\ IsFiniteSet(MatchingIds(f, table)) /\ Cardinality(MatchingIds(f, table)) \in 0 .. MaxUsers
        /\ IsFiniteSet(UpTo(f, table, i)) /\ Cardinality(UpTo(f, table, i)) \in Nat
        /\ UpTo(f, table, i) \subseteq MatchingIds(f, table)
    <2>1. MatchingIds(f, table) \in SUBSET Ids /\ UpTo(f, table, i) \in SUBSET Ids
      BY MatchingFacts
    <2> QED BY <2>1, IdSets, MatchingFacts, TableAssumption
  <1>2. Cardinality(UpTo(f, table, i)) <= Cardinality(MatchingIds(f, table))
    BY <1>1, FS_Subset
  <1>3. table[i].id \in UpTo(f, table, i)
    BY MatchingFacts DEF UpTo
  <1>4. Cardinality(UpTo(f, table, i)) # 0
    BY <1>1, <1>3, FS_EmptySet
  <1> QED BY <1>1, <1>2, <1>4, TableAssumption DEF Rank, UpTo

\* Ranks grow with the places.
LEMMA RankOrder ==
    ASSUME NEW f, NEW table, Keyed(table), NEW i \in Matching(f, table),
           NEW j \in Matching(f, table), i < j
    PROVE  Rank(f, table, i) < Rank(f, table, j)
  <1>0. table \in Seq(UserRow) /\ i \in Nat /\ j \in Nat
    BY MatchingFacts DEF Keyed
  <1>1. UpTo(f, table, i) \subseteq UpTo(f, table, j)
    BY <1>0, MatchingFacts DEF UpTo
  <1>2. table[j].id \in UpTo(f, table, j)
    BY <1>0 DEF UpTo
  <1>3. table[j].id \notin UpTo(f, table, i)
    <2> SUFFICES ASSUME NEW k \in Matching(f, table), k <= i, table[k].id = table[j].id PROVE FALSE
        BY DEF UpTo
    <2>1. k = j
      BY <1>0, MatchingFacts DEF Keyed
    <2> QED BY <1>0, <2>1
  <1>4. UpTo(f, table, i) \in SUBSET Ids /\ UpTo(f, table, j) \in SUBSET Ids
    BY <1>0, MatchingFacts
  <1>5. /\ IsFiniteSet(UpTo(f, table, j))
        /\ Cardinality(UpTo(f, table, i)) \in Nat /\ Cardinality(UpTo(f, table, j)) \in Nat
    BY <1>4, IdSets, TableAssumption
  <1>6. Cardinality(UpTo(f, table, i)) < Cardinality(UpTo(f, table, j))
    BY <1>1, <1>2, <1>3, <1>5, FS_Subset
  <1> QED BY <1>6 DEF Rank, UpTo

\* Every number up to that of the matching rows is the rank of one row.
LEMMA RankOnto ==
    ASSUME NEW f, NEW table, Keyed(table), NEW k \in 1 .. Cardinality(MatchingIds(f, table))
    PROVE  \E i \in Matching(f, table) :
               /\ Rank(f, table, i) = k
               /\ \A j \in Matching(f, table) : Rank(f, table, j) = k => j = i
  <1>0. table \in Seq(UserRow)
    BY DEF Keyed
  <1> DEFINE S == MatchingIds(f, table)
             n == Cardinality(S)
             PlaceOf(x) == CHOOSE i \in Matching(f, table) : table[i].id = x
             g == [x \in S |-> Rank(f, table, PlaceOf(x))]
  <1>1. \A x \in S : PlaceOf(x) \in Matching(f, table) /\ table[PlaceOf(x)].id = x
    BY DEF MatchingIds
  <1>2. n \in Nat
    <2>1. S \in SUBSET Ids
      BY <1>0, MatchingFacts
    <2> QED BY <2>1, IdSets, TableAssumption
  <1>3. \A i, j \in Matching(f, table) : Rank(f, table, i) = Rank(f, table, j) => i = j
    <2> TAKE i, j \in Matching(f, table)
    <2>1. i \in Nat /\ j \in Nat /\ Rank(f, table, i) \in Nat /\ Rank(f, table, j) \in Nat
      BY <1>0, <1>2, MatchingFacts, RankBounds
    <2>2. i < j => Rank(f, table, i) < Rank(f, table, j)
      BY RankOrder
    <2>3. j < i => Rank(f, table, j) < Rank(f, table, i)
      BY RankOrder
    <2> QED BY <2>1, <2>2, <2>3
  <1>4. g \in Injection(S, 1 .. n)
    <2>1. g \in [S -> 1 .. n]
      BY <1>0, <1>1, RankBounds
    <2>2. ASSUME NEW x \in S, NEW y \in S, g[x] = g[y] PROVE x = y
      <3>1. PlaceOf(x) = PlaceOf(y)
        BY <1>1, <1>3, <2>2
      <3> QED BY <1>1, <3>1
    <2> QED BY <2>1, <2>2 DEF Injection, IsInjective
  <1>5. IsFiniteSet(1 .. n) /\ Cardinality(1 .. n) = n
    BY <1>2, FS_Interval
  <1>6. g \in Surjection(S, 1 .. n)
    BY <1>4, <1>5, FS_Injection
  <1>7. PICK x \in S : g[x] = k
    BY <1>6 DEF Surjection
  <1> QED BY <1>1, <1>3, <1>7

-----------------------------------------------------------------------------
(* Listing: what the other requests do to the table.                       *)

\* The rows of two tables come in the same order.
SameOrder(t, u) ==
    \A i, j \in DOMAIN t : \A k, l \in DOMAIN u :
        t[i].id = u[k].id /\ t[j].id = u[l].id => (i <= j <=> k <= l)

\* A row put in at place p.
LEMMA InsertFacts ==
    ASSUME NEW t \in Seq(UserRow), NEW p \in 1 .. Len(t) + 1, NEW e \in UserRow
    PROVE  /\ InsertAt(t, p, e) \in Seq(UserRow)
           /\ Len(InsertAt(t, p, e)) = Len(t) + 1
           /\ \A k \in 1 .. Len(t) + 1 :
                 InsertAt(t, p, e)[k] = IF k < p THEN t[k] ELSE IF k = p THEN e ELSE t[k - 1]
  <1> DEFINE a == SubSeq(t, 1, p - 1)
             b == SubSeq(t, p, Len(t))
             ae == a \o <<e>>
  <1>1. a \in Seq(UserRow) /\ Len(a) = p - 1 /\ \A k \in 1 .. p - 1 : a[k] = t[k]
    OBVIOUS
  <1>2. b \in Seq(UserRow) /\ Len(b) = Len(t) + 1 - p /\ \A k \in 1 .. Len(t) + 1 - p : b[k] = t[p + k - 1]
    OBVIOUS
  <1>3. InsertAt(t, p, e) = ae \o b
    BY DEF InsertAt
  <1> HIDE DEF a, b
  <1>4. ae \in Seq(UserRow) /\ Len(ae) = p /\ ae[p] = e /\ \A k \in 1 .. p - 1 : ae[k] = t[k]
    BY <1>1
  <1> HIDE DEF ae
  <1>5. /\ ae \o b \in Seq(UserRow) /\ Len(ae \o b) = Len(t) + 1
        /\ \A k \in 1 .. p : (ae \o b)[k] = ae[k]
        /\ \A k \in p + 1 .. Len(t) + 1 : (ae \o b)[k] = b[k - p]
    BY <1>2, <1>4
  <1>6. ASSUME NEW k \in 1 .. Len(t) + 1
        PROVE  InsertAt(t, p, e)[k] = IF k < p THEN t[k] ELSE IF k = p THEN e ELSE t[k - 1]
    <2>1. CASE k < p
      <3>1. k \in 1 .. p /\ k \in 1 .. p - 1
        BY <2>1
      <3>2. (ae \o b)[k] = ae[k] /\ ae[k] = t[k]
        BY <1>4, <1>5, <3>1
      <3> QED BY <1>3, <2>1, <3>2
    <2>2. CASE k = p
      <3>1. (ae \o b)[k] = ae[k] /\ ae[k] = e
        BY <1>4, <1>5, <2>2
      <3> QED BY <1>3, <2>2, <3>1
    <2>3. CASE k > p
      <3>1. k - p \in 1 .. Len(t) + 1 - p /\ p + (k - p) - 1 = k - 1 /\ k \in p + 1 .. Len(t) + 1
        BY <2>3
      <3>2. (ae \o b)[k] = b[k - p] /\ b[k - p] = t[k - 1]
        BY <1>2, <1>5, <3>1
      <3> QED BY <1>3, <2>3, <3>2
    <2> QED BY <2>1, <2>2, <2>3
  <1> QED BY <1>3, <1>5, <1>6

\* What holds of table users at all times.
TableOK(t) ==
    /\ Keyed(t)
    /\ Len(t) <= MaxUsers
    /\ \A i \in DOMAIN t : t[i].id <= Len(t)

\* An INSERT keeps the key, and the order of the rows that were there.
LEMMA InsertKeeps ==
    ASSUME NEW t, TableOK(t), Len(t) < MaxUsers, NEW p \in 1 .. Len(t) + 1,
           NEW e \in UserRow, e.id = Len(t) + 1
    PROVE  TableOK(InsertAt(t, p, e)) /\ SameOrder(t, InsertAt(t, p, e))
  <1>0. t \in Seq(UserRow) /\ Len(t) \in Nat /\ DOMAIN t = 1 .. Len(t)
    BY DEF TableOK, Keyed
  <1> DEFINE u == InsertAt(t, p, e)
             Old(k) == IF k < p THEN k ELSE k - 1
             New(i) == IF i < p THEN i ELSE i + 1
  <1>1. /\ u \in Seq(UserRow) /\ Len(u) = Len(t) + 1 /\ DOMAIN u = 1 .. Len(t) + 1
        /\ u[p] = e
        /\ \A k \in 1 .. Len(t) + 1 : k # p => Old(k) \in DOMAIN t /\ u[k] = t[Old(k)]
    <2>1. u \in Seq(UserRow) /\ Len(u) = Len(t) + 1
      BY <1>0, InsertFacts
    <2>2. \A k \in 1 .. Len(t) + 1 : u[k] = IF k < p THEN t[k] ELSE IF k = p THEN e ELSE t[k - 1]
      BY <1>0, InsertFacts
    <2>3. DOMAIN u = 1 .. Len(t) + 1
      BY <2>1
    <2> HIDE DEF u
    <2>4. \A k \in 1 .. Len(t) + 1 : k # p => Old(k) \in DOMAIN t /\ u[k] = t[Old(k)]
      BY <1>0, <2>2
    <2>5. u[p] = e
      BY <1>0, <2>2
    <2> QED BY <2>1, <2>3, <2>4, <2>5
  <1> HIDE DEF u
  <1>2. \A k \in DOMAIN u : /\ u[k].id <= Len(u)
                            /\ k # p => u[k].id <= Len(t)
    <2>1. \A i \in DOMAIN t : t[i].id <= Len(t) /\ t[i].id \in Nat
      <3>1. \A i \in DOMAIN t : t[i] \in UserRow
        BY <1>0
      <3> QED BY <3>1 DEF TableOK, UserRow, Ids
    <2> SUFFICES ASSUME NEW k \in DOMAIN u
                 PROVE  u[k].id <= Len(u) /\ (k # p => u[k].id <= Len(t))
      OBVIOUS
    <2>2. CASE k = p
      BY <1>0, <1>1, <2>2
    <2>3. CASE k # p
      <3> HIDE DEF Old
      <3>1. u[k] = t[Old(k)] /\ Old(k) \in DOMAIN t
        BY <1>1, <2>3
      <3> QED BY <1>0, <1>1, <2>1, <3>1
    <2> QED BY <2>2, <2>3
  <1>3. ASSUME NEW k \in DOMAIN u, NEW l \in DOMAIN u, u[k].id = u[l].id PROVE k = l
    <2>1. CASE k = p
      BY <1>0, <1>1, <1>2, <1>3, <2>1
    <2>2. CASE l = p
      BY <1>0, <1>1, <1>2, <1>3, <2>2
    <2>3. CASE k # p /\ l # p
      <3>1. Old(k) = Old(l)
        <4>1. Old(k) \in DOMAIN t /\ Old(l) \in DOMAIN t /\ t[Old(k)].id = t[Old(l)].id
          BY <1>1, <1>3, <2>3
        <4> HIDE DEF Old
        <4> QED BY <4>1 DEF TableOK, Keyed
      <3> QED BY <1>1, <2>3, <3>1
    <2> QED BY <2>1, <2>2, <2>3
  <1>4. Keyed(u)
    BY <1>1, <1>3 DEF Keyed
  <1>5. \A i \in DOMAIN t : New(i) \in DOMAIN u /\ u[New(i)] = t[i]
    <2> TAKE i \in DOMAIN t
    <2>1. New(i) \in 1 .. Len(t) + 1 /\ New(i) # p /\ Old(New(i)) = i
      BY <1>0
    <2> HIDE DEF New, Old
    <2> QED BY <1>1, <2>1
  <1>6. ASSUME NEW i \in DOMAIN t, NEW j \in DOMAIN t, NEW k \in DOMAIN u, NEW l \in DOMAIN u,
               t[i].id = u[k].id, t[j].id = u[l].id
        PROVE  i <= j <=> k <= l
    <2>1. k = New(i) /\ l = New(j)
      <3> HIDE DEF New
      <3> QED BY <1>3, <1>5, <1>6
    <2> QED BY <1>0, <2>1
  <1>7. SameOrder(t, u)
    BY <1>6 DEF SameOrder
  <1>8. Len(u) <= MaxUsers
    BY <1>0, <1>1, TableAssumption
  <1> QED BY <1>2, <1>4, <1>7, <1>8 DEF TableOK, u

\* An UPDATE of the flag does, too.
LEMMA UpdateKeeps ==
    ASSUME NEW t, TableOK(t), NEW p \in DOMAIN t
    PROVE  LET u == [t EXCEPT ![p].disabled = ~@]
           IN  TableOK(u) /\ SameOrder(t, u)
  <1> DEFINE u == [t EXCEPT ![p].disabled = ~@]
  <1>0. t \in Seq(UserRow) /\ Len(t) \in Nat /\ DOMAIN t = 1 .. Len(t)
    BY DEF TableOK, Keyed
  <1>1. \A i \in DOMAIN t : t[i] \in UserRow
    BY <1>0
  <1>2. u \in Seq(UserRow) /\ Len(u) = Len(t) /\ DOMAIN u = DOMAIN t
    <2>1. [t[p] EXCEPT !.disabled = ~@] \in UserRow
      BY <1>1 DEF UserRow
    <2> QED BY <1>0, <2>1
  <1>3. \A i \in DOMAIN t : u[i].id = t[i].id
    BY <1>0, <1>1 DEF UserRow
  <1> HIDE DEF u
  <1>4. Keyed(u)
    BY <1>2, <1>3 DEF Keyed, TableOK
  <1>5. SameOrder(t, u)
    <2> SUFFICES ASSUME NEW i \in DOMAIN t, NEW j \in DOMAIN t, NEW k \in DOMAIN u, NEW l \in DOMAIN u,
                        t[i].id = u[k].id, t[j].id = u[l].id
                 PROVE  i <= j <=> k <= l
      BY DEF SameOrder
    <2>1. k = i /\ l = j
      BY <1>2, <1>3, <1>4 DEF Keyed
    <2> QED BY <2>1
  <1> QED BY <1>2, <1>3, <1>4, <1>5 DEF TableOK, u

\* A row that more rows match than before comes later among them.
LEMMA RankGrows ==
    ASSUME NEW f, NEW t, NEW u, Keyed(t), Keyed(u), SameOrder(t, u),
           MatchingIds(f, t) \subseteq MatchingIds(f, u),
           NEW i \in Matching(f, t), NEW k \in Matching(f, u), t[i].id = u[k].id
    PROVE  Rank(f, t, i) <= Rank(f, u, k)
  <1>0. t \in Seq(UserRow) /\ u \in Seq(UserRow)
    BY DEF Keyed
  <1>1. ASSUME NEW j \in Matching(f, t), j <= i PROVE t[j].id \in UpTo(f, u, k)
    <2>1. PICK l \in Matching(f, u) : u[l].id = t[j].id
      BY <1>0, MatchingFacts DEF MatchingIds
    <2>2. l <= k
      <3>1. i \in DOMAIN t /\ j \in DOMAIN t /\ k \in DOMAIN u /\ l \in DOMAIN u
        BY <1>0, MatchingFacts
      <3> QED BY <1>1, <2>1, <3>1 DEF SameOrder
    <2> QED BY <2>1, <2>2 DEF UpTo
  <1>2. UpTo(f, t, i) \subseteq UpTo(f, u, k)
    BY <1>1 DEF UpTo
  <1>3. UpTo(f, u, k) \in SUBSET Ids
    BY <1>0, MatchingFacts
  <1>4. IsFiniteSet(UpTo(f, u, k))
    BY <1>3, IdSets
  <1>5. Cardinality(UpTo(f, t, i)) <= Cardinality(UpTo(f, u, k))
    BY <1>2, <1>4, FS_Subset
  <1> QED BY <1>5 DEF Rank, UpTo

\* LIMIT cuts out the rows whose rank is in the page.
LEMMA LimitFacts ==
    ASSUME NEW f, NEW t, Keyed(t), NEW offset \in Nat, NEW size \in Nat \ {0}
    PROVE  LET list == Limit(f, t, offset, size)
           IN  /\ list \in Seq(Ids)
               /\ Len(list) = PageLen(Cardinality(MatchingIds(f, t)), offset, size)
               /\ \A x : x \in ToSet(list) <=>
                     \E i \in Matching(f, t) : /\ x = t[i].id
                                              /\ offset < Rank(f, t, i)
                                              /\ Rank(f, t, i) <= offset + size
  <1> DEFINE n == Cardinality(MatchingIds(f, t))
             m == PageLen(n, offset, size)
             At(k) == CHOOSE i \in Matching(f, t) : Rank(f, t, i) = offset + k
             list == Limit(f, t, offset, size)
  <1>0. t \in Seq(UserRow)
    BY DEF Keyed
  <1>1. n \in Nat
    <2>1. MatchingIds(f, t) \in SUBSET Ids
      BY <1>0, MatchingFacts
    <2> QED BY <2>1, IdSets, TableAssumption
  <1> HIDE DEF n
  <1>2. m \in Nat /\ \A k \in 1 .. m : offset + k \in 1 .. n /\ k <= size
    BY <1>1 DEF PageLen
  <1>3. \A k \in Nat : offset < k /\ k <= offset + size /\ k <= n => k - offset \in 1 .. m
    BY <1>1 DEF PageLen
  <1> HIDE DEF m
  <1>4. \A k \in 1 .. m : At(k) \in Matching(f, t) /\ Rank(f, t, At(k)) = offset + k
    BY <1>2, RankOnto DEF n
  <1>5. list = [k \in 1 .. m |-> t[At(k)].id]
    BY DEF Limit, m, n
  <1>6. \A k \in 1 .. m : t[At(k)].id \in Ids
    BY <1>0, <1>4, MatchingFacts
  <1>7. \A i \in Matching(f, t) : offset < Rank(f, t, i) /\ Rank(f, t, i) <= offset + size =>
            \E k \in 1 .. m : At(k) = i
    <2> SUFFICES ASSUME NEW i \in Matching(f, t), offset < Rank(f, t, i), Rank(f, t, i) <= offset + size
                 PROVE  \E k \in 1 .. m : At(k) = i
      OBVIOUS
    <2>1. Rank(f, t, i) \in 1 .. n
      BY <1>0, RankBounds DEF n
    <2> DEFINE k == Rank(f, t, i) - offset
    <2>2. k \in 1 .. m /\ offset + k = Rank(f, t, i)
      BY <1>1, <1>3, <2>1
    <2>3. \A j \in Matching(f, t) : Rank(f, t, j) = Rank(f, t, i) => j = i
      BY <2>1, RankOnto DEF n
    <2> HIDE DEF k
    <2>4. At(k) = i
      BY <1>4, <2>2, <2>3
    <2> QED BY <2>2, <2>4
  <1> HIDE DEF At, list
  <1>8. list \in Seq(Ids) /\ Len(list) = m /\ DOMAIN list = 1 .. m
    BY <1>2, <1>5, <1>6
  <1>9. \A x : x \in ToSet(list) <=> \E k \in 1 .. m : x = t[At(k)].id
    BY <1>5, <1>8 DEF ToSet
  <1>10. ASSUME NEW x, x \in ToSet(list)
         PROVE  \E i \in Matching(f, t) : /\ x = t[i].id
                                          /\ offset < Rank(f, t, i)
                                          /\ Rank(f, t, i) <= offset + size
    <2>1. PICK k \in 1 .. m : x = t[At(k)].id
      BY <1>9, <1>10
    <2>2. offset < offset + k /\ offset + k <= offset + size
      BY <1>2
    <2> QED BY <1>4, <2>1, <2>2
  <1>11. ASSUME NEW x, NEW i \in Matching(f, t), x = t[i].id,
                offset < Rank(f, t, i), Rank(f, t, i) <= offset + size
         PROVE  x \in ToSet(list)
    BY <1>7, <1>9, <1>11
  <1> QED BY <1>8, <1>10, <1>11 DEF list, m, n

-----------------------------------------------------------------------------
(* Listing: type correctness.                                              *)

\* The table part of the type invariant.
LEMMA TableTyped ==
    /\ ListingTypeOK => TableOK(rows) /\ Keyed(rows) /\ rows \in Seq(UserRow)
    /\ ListingTypeOK' <=>
          /\ TableOK(rows')
          /\ call' \in Call
          /\ answer' \in Answer
          /\ seen' \subseteq Ids /\ twice' \subseteq seen' /\ steady' \subseteq Ids
          /\ left' \in BOOLEAN /\ entered' \in BOOLEAN /\ moved' \in BOOLEAN
  <1>1. ListingTypeOK => TableOK(rows) /\ Keyed(rows) /\ rows \in Seq(UserRow)
    BY DEF ListingTypeOK, TableOK, Keyed
  <1>2. TableOK(rows') <=> /\ rows' \in Seq(UserRow) /\ Len(rows') <= MaxUsers
                           /\ \A i \in DOMAIN rows' : rows'[i].id <= Len(rows')
                           /\ \A i, j \in DOMAIN rows' : rows'[i].id = rows'[j].id => i = j
    BY DEF TableOK, Keyed
  <1> QED BY <1>1, <1>2 DEF ListingTypeOK

\* What a request can be, and that offsets are naturals.
LEMMA CallFacts ==
    ASSUME NEW c \in Call
    PROVE  /\ c.page \in Nat \ {0} /\ c.page <= MaxInt
           /\ c.size \in Nat \ {0} /\ c.size <= MaxSize
           /\ c.filter \in Filter /\ c.total \in 0 .. MaxUsers /\ c.total \in Nat
           /\ (c.page - 1) * c.size \in Nat /\ c.page * c.size \in Nat
           /\ c.page * c.size = (c.page - 1) * c.size + c.size
  <1>1. /\ c.page \in Nat \ {0} /\ c.page <= MaxInt
        /\ c.size \in Nat \ {0} /\ c.size <= MaxSize
        /\ c.filter \in Filter /\ c.total \in 0 .. MaxUsers /\ c.total \in Nat
    BY SizesAssumption, TableAssumption DEF Call
  <1>2. ASSUME NEW a \in Nat \ {0}, NEW b \in Nat \ {0}
        PROVE  (a - 1) * b \in Nat /\ a * b \in Nat /\ a * b = (a - 1) * b + b
    OBVIOUS
  <1> QED BY <1>1, <1>2

\* Other requests change the table by steps that keep its key and order.
LEMMA TableChanges ==
    ASSUME ListingTypeOK,
           \/ \E hit \in BOOLEAN, i \in 1 .. Recent : Create(hit, i)
           \/ \E i \in DOMAIN rows : SetDisabled(i)
    PROVE  \E table : TableOK(table) /\ SameOrder(rows, table) /\ Change(table)
  <1>0. TableOK(rows) /\ rows \in Seq(UserRow)
    BY TableTyped
  <1>1. CASE \E hit \in BOOLEAN, i \in 1 .. Recent : Create(hit, i)
    <2>1. PICK hit \in BOOLEAN, i \in 1 .. Recent : Create(hit, i)
      BY <1>1
    <2> DEFINE e == [id |-> Len(rows) + 1, hit |-> hit, disabled |-> FALSE]
    <2>2. Len(rows) < MaxUsers /\ i <= Len(rows) + 1 /\ Change(InsertAt(rows, i, e))
      BY <2>1 DEF Create
    <2>3. i \in 1 .. Len(rows) + 1 /\ e \in UserRow /\ e.id = Len(rows) + 1
      BY <1>0, <2>2, TableAssumption DEF UserRow, Ids
    <2> HIDE DEF e
    <2> QED BY <1>0, <2>2, <2>3, InsertKeeps
  <1>2. CASE \E i \in DOMAIN rows : SetDisabled(i)
    BY <1>0, <1>2, UpdateKeeps DEF SetDisabled
  <1> QED BY <1>1, <1>2

\* Clamped arguments are in their ranges.
LEMMA Clamped ==
    ASSUME NEW page \in AskedPages, NEW size \in AskedSizes
    PROVE  ClampPage(page) \in 1 .. MaxInt /\ ClampSize(size) \in 1 .. MaxSize
  <1>1. page \in Int /\ page <= MaxInt /\ size \in Int
    BY AskedAssumption, SizesAssumption
  <1> QED BY <1>1, SizesAssumption, TableAssumption DEF ClampPage, ClampSize

\* The lists are of ids, and there are as many pages as rows at most.
LEMMA FindTyped ==
    ASSUME ListingTypeOK, NEW offset \in Nat
    PROVE  /\ [ok |-> TRUE, list |-> Limit(call.filter, rows, offset, call.size),
               totalPages |-> TotalPages(call.total, call.size)] \in Answer
           /\ ToSet(Limit(call.filter, rows, offset, call.size)) \subseteq Ids
  <1> DEFINE list == Limit(call.filter, rows, offset, call.size)
  <1>1. call.size \in Nat \ {0} /\ call.total \in Nat /\ call.total <= MaxUsers /\ Keyed(rows)
    BY CallFacts, TableTyped, TableAssumption DEF ListingTypeOK
  <1>2. list \in Seq(Ids)
    BY <1>1, LimitFacts
  <1>3. TotalPages(call.total, call.size) \in 0 .. MaxUsers
    <2>1. 1 \in Nat \ {0}
      OBVIOUS
    <2>2. TotalPages(call.total, call.size) \in 0 .. call.total
      BY <1>1, <2>1, PageCounted
    <2> QED BY <1>1, <2>2, TableAssumption
  <1> HIDE DEF list
  <1>4. ToSet(list) \subseteq Ids
    BY <1>2 DEF ToSet
  <1> QED BY <1>2, <1>3, <1>4 DEF Answer, list

LEMMA ListingTypeStep ==
    ASSUME ListingTypeOK, [ListingNext]_listingVars
    PROVE  ListingTypeOK'
  <1>0. /\ TableOK(rows) /\ rows \in Seq(UserRow) /\ call \in Call /\ answer \in Answer
        /\ seen \subseteq Ids /\ twice \subseteq seen /\ steady \subseteq Ids
        /\ left \in BOOLEAN /\ entered \in BOOLEAN /\ moved \in BOOLEAN
    BY TableTyped DEF ListingTypeOK
  <1>1. NoAnswer \in Answer
    <2>1. <<>> \in Seq(Ids)
      OBVIOUS
    <2> QED BY <2>1, TableAssumption DEF NoAnswer, Answer
  <1>2. ASSUME NEW table, TableOK(table), Change(table) PROVE ListingTypeOK'
    <2>1. rows' = table /\ steady' \subseteq steady /\ call' = call /\ answer' = answer
          /\ seen' = seen /\ twice' = twice
      BY <1>2 DEF Change
    <2>2. left' \in BOOLEAN /\ entered' \in BOOLEAN /\ moved' \in BOOLEAN
      BY <1>2 DEF Change
    <2> QED BY <1>0, <1>2, <2>1, <2>2, TableTyped
  <1>3. ASSUME NEW walk \in BOOLEAN, NEW page \in AskedPages, NEW size \in AskedSizes,
               NEW f \in AskedFilters, ListUsers(walk, page, size, f)
        PROVE  ListingTypeOK'
    <2>1. call' \in Call
      BY <1>3, Clamped, FiltersAssumption, TableAssumption DEF ListUsers, Call
    <2>2. steady' \subseteq Ids
      BY <1>0, <1>3, MatchingFacts DEF ListUsers
    <2>3. rows' = rows /\ answer' = NoAnswer /\ seen' = {} /\ twice' = {}
          /\ left' \in BOOLEAN /\ entered' \in BOOLEAN /\ moved' \in BOOLEAN
      BY <1>3 DEF ListUsers
    <2> QED BY <1>0, <1>1, <2>1, <2>2, <2>3, TableTyped
  <1>4. ASSUME NextPage PROVE ListingTypeOK'
    <2>1. call' \in Call
      <3>1. call.page + 1 \in 1 .. MaxInt
        BY <1>0, <1>4, CallFacts, SizesAssumption DEF NextPage
      <3> QED BY <1>0, <1>4, <3>1 DEF NextPage, Call
    <2>2. rows' = rows /\ answer' = NoAnswer /\ seen' = seen /\ twice' = twice /\ steady' = steady
      BY <1>4 DEF NextPage, walkVars
    <2>3. left' \in BOOLEAN /\ entered' \in BOOLEAN /\ moved' \in BOOLEAN
      BY <1>0, <1>4 DEF NextPage
    <2> QED BY <1>0, <1>1, <2>1, <2>2, <2>3, TableTyped
  <1>5. ASSUME Count PROVE ListingTypeOK'
    <2>1. call' \in Call
      <3>1. MatchingIds(call.filter, rows) \in SUBSET Ids
        BY <1>0, MatchingFacts
      <3>2. Cardinality(MatchingIds(call.filter, rows)) \in 0 .. MaxUsers
        BY <3>1, IdSets
      <3> QED BY <1>0, <1>5, <3>2 DEF Count, Call
    <2>2. rows' = rows /\ answer' = answer /\ seen' = seen /\ twice' = twice /\ steady' = steady
      BY <1>5 DEF Count, walkVars
    <2>3. left' \in BOOLEAN /\ entered' \in BOOLEAN /\ moved' \in BOOLEAN
      BY <1>0, <1>5 DEF Count
    <2> QED BY <1>0, <2>1, <2>2, <2>3, TableTyped
  <1>6. ASSUME Fail PROVE ListingTypeOK'
    <2>1. call' \in Call
      BY <1>0, <1>6 DEF Fail, Call
    <2>2. rows' = rows /\ answer' = answer /\ seen' = seen /\ twice' = twice /\ steady' = steady
      BY <1>6 DEF Fail, walkVars
    <2>3. left' \in BOOLEAN /\ entered' \in BOOLEAN /\ moved' \in BOOLEAN
      BY <1>0, <1>6 DEF Fail
    <2> QED BY <1>0, <2>1, <2>2, <2>3, TableTyped
  <1>7. ASSUME NEW offset \in Offset(call.page, call.size), FindAll(offset) PROVE ListingTypeOK'
    <2>0. offset \in Nat
      <3>1. (call.page - 1) * call.size \in Nat
        BY <1>0, CallFacts
      <3>2. \A x \in Nat : Wrap(x) \in Int
        BY SizesAssumption DEF Wrap
      <3>3. offset \in Int
        BY <3>1, <3>2 DEF Offset
      <3> QED BY <1>7, <3>3 DEF FindAll
    <2> DEFINE list == Limit(call.filter, rows, offset, call.size)
    <2>1. answer' \in Answer /\ ToSet(list) \subseteq Ids
      BY <1>7, <2>0, FindTyped DEF FindAll
    <2>2. call' \in Call
      BY <1>0, <1>7 DEF FindAll, Call
    <2>3. rows' = rows /\ steady' = steady
          /\ seen' = seen \cup ToSet(list) /\ twice' = twice \cup (seen \cap ToSet(list))
      BY <1>7 DEF FindAll
    <2>4. left' \in BOOLEAN /\ entered' \in BOOLEAN /\ moved' \in BOOLEAN
      BY <1>0, <1>7 DEF FindAll
    <2> HIDE DEF list
    <2> QED BY <1>0, <2>1, <2>2, <2>3, <2>4, TableTyped
  <1>8. CASE UNCHANGED listingVars
    BY <1>8 DEF listingVars, ListingTypeOK
  <1> QED BY <1>2, <1>3, <1>4, <1>5, <1>6, <1>7, <1>8, TableChanges DEF ListingNext

\* The table keeps its primary key, and requests and answers their ranges,
\* whatever ListUsers is asked and whoever writes meanwhile.
THEOREM ListingTypeCorrect == ListingSpec => []ListingTypeOK
  <1>1. ListingInit => ListingTypeOK
    <2> SUFFICES ASSUME ListingInit PROVE ListingTypeOK
      OBVIOUS
    <2>1. rows = <<>> /\ Len(rows) = 0 /\ DOMAIN rows = {} /\ rows \in Seq(UserRow)
      BY DEF ListingInit
    <2>2. call \in Call
      BY SizesAssumption, TableAssumption DEF ListingInit, Call, Filter
    <2>3. answer \in Answer
      <3>1. <<>> \in Seq(Ids)
        OBVIOUS
      <3> QED BY <3>1, TableAssumption DEF ListingInit, NoAnswer, Answer
    <2>4. seen = {} /\ twice = {} /\ steady = {}
          /\ left \in BOOLEAN /\ entered \in BOOLEAN /\ moved \in BOOLEAN
      BY DEF ListingInit
    <2> QED BY <2>1, <2>2, <2>3, <2>4, TableAssumption DEF ListingTypeOK
  <1>2. ListingTypeOK /\ [ListingNext]_listingVars => ListingTypeOK'
    BY ListingTypeStep
  <1> QED BY <1>1, <1>2, PTL DEF ListingSpec

-----------------------------------------------------------------------------
(* Listing: the pages of a walk.                                           *)

\* The rows before the page, and the rows a walk has been through.
Off == (call.page - 1) * call.size
WalkedTo == IF Answered THEN call.page * call.size ELSE Off

\* Only a request that is over has an answer.
AnswerInv == answer.ok => call.step = "answered"

\* A walk goes on behind full pages only, so its offset does not overflow.
WalkBound ==
    call.walk => /\ Off <= MaxUsers
                 /\ Answered /\ Full => call.page * call.size <= MaxUsers

SteadyInv == steady \subseteq MatchingIds(call.filter, rows)

\* Rows only move down: those the walk has been through were seen.
MissInv ==
    call.walk /\ ~left =>
        /\ \A i \in Matching(call.filter, rows) :
              rows[i].id \in steady /\ Rank(call.filter, rows, i) <= WalkedTo => rows[i].id \in seen
        /\ Answered /\ ~Full => steady \subseteq seen

\* Rows only move up: those that were seen are not still to come.
RepeatInv ==
    call.walk /\ ~entered =>
        /\ twice = {}
        /\ \A i \in Matching(call.filter, rows) :
              rows[i].id \in seen => Rank(call.filter, rows, i) <= WalkedTo

\* The count is that of the table FindAll will read.
CountInv ==
    call.step = "find" /\ ~moved => call.total = Cardinality(MatchingIds(call.filter, rows))

ListingInv ==
    /\ ListingTypeOK /\ AnswerInv /\ WalkBound /\ SteadyInv
    /\ MissInv /\ RepeatInv /\ CountInv /\ PagesAgree

\* Unless the call or the answer changes, a walk stays where it is.
LEMMA WalkStays ==
    ASSUME call' = call, answer' = answer
    PROVE  /\ Off' = Off /\ WalkedTo' = WalkedTo /\ (Answered' <=> Answered) /\ (Full' <=> Full)
           /\ AnswerInv => AnswerInv'
           /\ WalkBound => WalkBound'
  BY DEF Off, WalkedTo, Answered, Full, AnswerInv, WalkBound

\* Other requests move rows, down as long as none leaves and up as long as
\* none enters the filter.
LEMMA ChangeKeeps ==
    ASSUME ListingInv, NEW table, TableOK(table), SameOrder(rows, table), Change(table)
    PROVE  /\ AnswerInv' /\ WalkBound' /\ SteadyInv'
           /\ MissInv' /\ RepeatInv' /\ CountInv' /\ PagesAgree'
  <1> DEFINE f == call.filter
             old == MatchingIds(f, rows)
             new == MatchingIds(f, table)
  <1>0. /\ rows' = table /\ call' = call /\ answer' = answer /\ seen' = seen /\ twice' = twice
        /\ steady' = steady \cap new
        /\ (left' <=> left \/ ~(old \subseteq new))
        /\ (entered' <=> entered \/ ~(new \subseteq old))
        /\ (moved' <=> moved \/ (call.step = "find" /\ old # new))
    BY DEF Change, ListingInv, ListingTypeOK
  <1>1. Keyed(rows) /\ Keyed(table) /\ SameOrder(table, rows)
        /\ rows \in Seq(UserRow) /\ table \in Seq(UserRow)
    <2>1. Keyed(rows) /\ Keyed(table) /\ rows \in Seq(UserRow) /\ table \in Seq(UserRow)
      BY TableTyped DEF ListingInv, TableOK, Keyed
    <2>2. SameOrder(table, rows)
      BY DEF SameOrder
    <2> QED BY <2>1, <2>2
  <1>2. /\ Off' = Off /\ WalkedTo' = WalkedTo /\ (Answered' <=> Answered) /\ (Full' <=> Full)
        /\ AnswerInv' /\ WalkBound'
    BY <1>0, WalkStays DEF ListingInv
  <1>3. SteadyInv'
    BY <1>0 DEF SteadyInv
  <1>4. MissInv'
    <2> SUFFICES ASSUME call.walk, ~left, old \subseteq new
                 PROVE  /\ \A i \in Matching(f, table) :
                              table[i].id \in steady /\ Rank(f, table, i) <= WalkedTo => table[i].id \in seen
                        /\ Answered /\ ~Full => steady \subseteq seen
      BY <1>0, <1>2 DEF MissInv
    <2>1. /\ \A i \in Matching(f, rows) :
                rows[i].id \in steady /\ Rank(f, rows, i) <= WalkedTo => rows[i].id \in seen
          /\ Answered /\ ~Full => steady \subseteq seen
      BY DEF ListingInv, MissInv
    <2>2. ASSUME NEW i \in Matching(f, table), table[i].id \in steady, Rank(f, table, i) <= WalkedTo
          PROVE  table[i].id \in seen
      <3>1. PICK k \in Matching(f, rows) : rows[k].id = table[i].id
        BY <2>2 DEF ListingInv, SteadyInv, MatchingIds
      <3>2. Rank(f, rows, k) <= Rank(f, table, i)
        BY <1>1, <3>1, RankGrows
      <3>3. Rank(f, rows, k) \in Nat /\ Rank(f, table, i) \in Nat /\ WalkedTo \in Nat
        <4>1. Rank(f, rows, k) \in Nat /\ Rank(f, table, i) \in Nat
          BY <1>1, RankBounds
        <4>2. WalkedTo \in Nat
          BY CallFacts DEF ListingInv, ListingTypeOK, WalkedTo, Off
        <4> QED BY <4>1, <4>2
      <3>4. Rank(f, rows, k) <= WalkedTo
        BY <2>2, <3>2, <3>3
      <3> QED BY <2>1, <2>2, <3>1, <3>4
    <2> QED BY <2>1, <2>2
  <1>5. RepeatInv'
    <2> SUFFICES ASSUME call.walk, ~entered, new \subseteq old
                 PROVE  /\ twice = {}
                        /\ \A i \in Matching(f, table) :
                              table[i].id \in seen => Rank(f, table, i) <= WalkedTo
      BY <1>0, <1>2 DEF RepeatInv
    <2>1. /\ twice = {}
          /\ \A i \in Matching(f, rows) : rows[i].id \in seen => Rank(f, rows, i) <= WalkedTo
      BY DEF ListingInv, RepeatInv
    <2>2. ASSUME NEW i \in Matching(f, table), table[i].id \in seen
          PROVE  Rank(f, table, i) <= WalkedTo
      <3>1. PICK k \in Matching(f, rows) : rows[k].id = table[i].id
        BY <1>1, MatchingFacts DEF MatchingIds
      <3>2. Rank(f, table, i) <= Rank(f, rows, k)
        BY <1>1, <3>1, RankGrows
      <3>3. Rank(f, rows, k) \in Nat /\ Rank(f, table, i) \in Nat /\ WalkedTo \in Nat
        <4>1. Rank(f, rows, k) \in Nat /\ Rank(f, table, i) \in Nat
          BY <1>1, RankBounds
        <4>2. WalkedTo \in Nat
          BY CallFacts DEF ListingInv, ListingTypeOK, WalkedTo, Off
        <4> QED BY <4>1, <4>2
      <3>4. Rank(f, rows, k) <= WalkedTo
        BY <2>1, <2>2, <3>1
      <3> QED BY <3>2, <3>3, <3>4
    <2> QED BY <2>1, <2>2
  <1>6. CountInv'
    BY <1>0 DEF ListingInv, CountInv
  <1>7. PagesAgree'
    BY <1>0, <1>2 DEF ListingInv, PagesAgree, Answered, Full
  <1> QED BY <1>2, <1>3, <1>4, <1>5, <1>6, <1>7

\* A page of a walk begins where the one before ended.
LEMMA FindAllKeeps ==
    ASSUME ListingInv, NEW offset \in Offset(call.page, call.size), FindAll(offset)
    PROVE  /\ AnswerInv' /\ WalkBound' /\ SteadyInv'
           /\ MissInv' /\ RepeatInv' /\ CountInv' /\ PagesAgree'
  <1> DEFINE f == call.filter
             n == Cardinality(MatchingIds(f, rows))
             list == Limit(f, rows, offset, call.size)
             InPage(i) == offset < Rank(f, rows, i) /\ Rank(f, rows, i) <= offset + call.size
  <1>0. /\ call.step = "find" /\ offset >= 0 /\ call' = [call EXCEPT !.step = "answered"]
        /\ answer' = [ok |-> TRUE, list |-> list, totalPages |-> TotalPages(call.total, call.size)]
        /\ twice' = twice \cup (seen \cap ToSet(list)) /\ seen' = seen \cup ToSet(list)
        /\ rows' = rows /\ steady' = steady
    BY DEF FindAll
  <1>a. (left' <=> left) /\ (entered' <=> entered) /\ (moved' <=> moved)
    BY DEF FindAll
  <1>1. /\ call \in Call /\ Keyed(rows) /\ rows \in Seq(UserRow)
        /\ call.page \in Nat \ {0} /\ call.size \in Nat \ {0} /\ call.total \in Nat
        /\ Off \in Nat /\ call.page * call.size = Off + call.size
    BY TableTyped, CallFacts DEF ListingInv, ListingTypeOK, Off
  <1>2. offset \in Nat /\ (Off <= MaxInt => offset = Off)
    <2>1. \A x \in Nat : Wrap(x) \in Int
      BY SizesAssumption DEF Wrap
    <2>2. offset = Off \/ offset = Wrap(Off)
      BY DEF Offset, Off
    <2>3. Off <= MaxInt => Wrap(Off) = Off
      BY <1>1, WrapInt, SizesAssumption
    <2> QED BY <1>0, <1>1, <2>1, <2>2, <2>3
  <1>3. /\ n \in Nat /\ n <= MaxUsers
        /\ \A i \in Matching(f, rows) : Rank(f, rows, i) \in Nat /\ Rank(f, rows, i) <= n
    <2>1. MatchingIds(f, rows) \in SUBSET Ids
      BY <1>1, MatchingFacts
    <2>2. n \in Nat /\ n <= MaxUsers
      BY <2>1, IdSets, TableAssumption
    <2>3. \A i \in Matching(f, rows) : Rank(f, rows, i) \in 1 .. n
      BY <1>1, RankBounds
    <2> QED BY <2>2, <2>3
  <1>4. /\ Len(list) = PageLen(n, offset, call.size) /\ list \in Seq(Ids)
        /\ \A x : x \in ToSet(list) <=> \E i \in Matching(f, rows) : x = rows[i].id /\ InPage(i)
    <2>1. /\ list \in Seq(Ids)
          /\ Len(list) = PageLen(n, offset, call.size)
          /\ \A x : x \in ToSet(list) <=>
                \E i \in Matching(f, rows) : /\ x = rows[i].id
                                            /\ offset < Rank(f, rows, i)
                                            /\ Rank(f, rows, i) <= offset + call.size
      BY <1>1, <1>2, LimitFacts, Zenon
    <2> HIDE DEF list, n
    <2> QED BY <2>1
  <1> HIDE DEF list, n
  <1>5. /\ call'.page = call.page /\ call'.size = call.size /\ call'.filter = f
        /\ call'.walk = call.walk /\ call'.step = "answered" /\ call'.total = call.total
    BY <1>0, <1>1 DEF Call
  <1>6. /\ Answered' /\ (Full' <=> Len(list) = call.size) /\ Off' = Off
        /\ WalkedTo' = Off + call.size /\ ~Answered /\ WalkedTo = Off
    BY <1>0, <1>1, <1>5 DEF Answered, Full, Off, WalkedTo
  <1>7. /\ Len(list) = call.size <=> offset + call.size <= n
        /\ Len(list) = 0 <=> n <= offset
    BY <1>1, <1>2, <1>3, <1>4 DEF PageLen
  <1>8. AnswerInv'
    BY <1>5 DEF AnswerInv
  <1>9. call.walk => offset = Off
    BY <1>1, <1>2, TableAssumption, SizesAssumption DEF ListingInv, WalkBound
  <1>10. WalkBound'
    <2>1. call.walk => Off <= MaxUsers
      BY DEF ListingInv, WalkBound
    <2>2. call.walk /\ Len(list) = call.size => Off + call.size <= MaxUsers
      BY <1>1, <1>3, <1>7, <1>9, TableAssumption
    <2> QED BY <1>1, <1>5, <1>6, <2>1, <2>2 DEF WalkBound
  <1>11. SteadyInv'
    BY <1>0, <1>5 DEF ListingInv, SteadyInv
  <1>12. MissInv'
    <2> SUFFICES ASSUME call.walk, ~left
                 PROVE  /\ \A i \in Matching(f, rows) :
                              rows[i].id \in steady /\ Rank(f, rows, i) <= Off + call.size =>
                                  rows[i].id \in seen'
                        /\ Len(list) # call.size => steady \subseteq seen'
      BY <1>0, <1>a, <1>5, <1>6 DEF MissInv
    <2>1. ASSUME NEW i \in Matching(f, rows), rows[i].id \in steady,
                 Rank(f, rows, i) <= Off + call.size
          PROVE  rows[i].id \in seen'
      <3>1. CASE Rank(f, rows, i) <= Off
        BY <1>0, <1>6, <2>1, <3>1 DEF ListingInv, MissInv
      <3>2. CASE Off < Rank(f, rows, i)
        BY <1>0, <1>4, <1>9, <2>1, <3>2
      <3> QED BY <1>1, <1>3, <3>1, <3>2
    <2>2. ASSUME Len(list) # call.size, NEW x \in steady
          PROVE  x \in seen'
      <3>1. PICK i \in Matching(f, rows) : rows[i].id = x
        BY DEF ListingInv, SteadyInv, MatchingIds
      <3>2. Rank(f, rows, i) <= Off + call.size
        BY <1>1, <1>3, <1>7, <1>9, <2>2
      <3> QED BY <2>1, <3>1, <3>2
    <2> QED BY <2>1, <2>2
  <1>13. RepeatInv'
    <2> SUFFICES ASSUME call.walk, ~entered
                 PROVE  /\ twice' = {}
                        /\ \A i \in Matching(f, rows) :
                              rows[i].id \in seen' => Rank(f, rows, i) <= Off + call.size
      BY <1>0, <1>a, <1>5, <1>6 DEF RepeatInv
    <2>1. /\ twice = {}
          /\ \A i \in Matching(f, rows) : rows[i].id \in seen => Rank(f, rows, i) <= Off
      BY <1>6 DEF ListingInv, RepeatInv
    <2>2. ASSUME NEW i \in Matching(f, rows), rows[i].id \in ToSet(list)
          PROVE  InPage(i)
      <3>1. PICK j \in Matching(f, rows) : rows[i].id = rows[j].id /\ InPage(j)
        BY <1>4, <2>2
      <3>2. i = j
        BY <1>1, <3>1, MatchingFacts DEF Keyed
      <3> QED BY <3>1, <3>2
    <2>3. ASSUME NEW x \in seen, x \in ToSet(list) PROVE FALSE
      <3>1. PICK i \in Matching(f, rows) : x = rows[i].id /\ InPage(i)
        BY <1>4, <2>3
      <3>2. Rank(f, rows, i) <= Off
        BY <2>1, <3>1
      <3> QED BY <1>1, <1>3, <1>9, <3>1, <3>2
    <2>4. ASSUME NEW i \in Matching(f, rows), rows[i].id \in seen'
          PROVE  Rank(f, rows, i) <= Off + call.size
      <3>1. CASE rows[i].id \in seen
        BY <1>1, <1>3, <2>1, <3>1
      <3>2. CASE rows[i].id \in ToSet(list)
        BY <1>9, <2>2, <3>2
      <3> QED BY <1>0, <2>4, <3>1, <3>2
    <2> QED BY <1>0, <2>1, <2>3, <2>4
  <1>14. CountInv'
    BY <1>5 DEF CountInv
  <1>15. PagesAgree'
    <2>0. answer'.totalPages = TotalPages(call.total, call.size) /\ answer'.list = list
      BY <1>0
    <2> SUFFICES ASSUME ~moved, Off <= MaxInt
                 PROVE  /\ call.page < TotalPages(call.total, call.size) => Len(list) = call.size
                        /\ (call.page <= TotalPages(call.total, call.size)) <=> (list # <<>>)
      BY <1>a, <1>5, <1>6, <2>0 DEF PagesAgree, Off
    <2>1. call.total = n /\ offset = Off
      BY <1>0, <1>2 DEF ListingInv, CountInv, n
    <2>2. TotalPages(call.total, call.size) \in Nat
      <3>1. TotalPages(call.total, call.size) \in 0 .. call.total
        BY <1>1, PageCounted
      <3> QED BY <3>1
    <2>3. call.page <= TotalPages(call.total, call.size) <=> Off < n
      BY <1>1, <2>1, PageCounted DEF Off
    <2>4. list # <<>> <=> Len(list) # 0
      BY <1>4
    <2>5. call.page + 1 <= TotalPages(call.total, call.size) => Off + call.size < n
      <3>1. call.page + 1 \in Nat \ {0} /\ (call.page + 1) - 1 = call.page
        BY <1>1
      <3>2. call.page + 1 <= TotalPages(call.total, call.size) <=>
                ((call.page + 1) - 1) * call.size < call.total
        BY <1>1, <3>1, PageCounted
      <3> QED BY <1>1, <2>1, <3>1, <3>2
    <2>6. call.page < TotalPages(call.total, call.size) => Len(list) = call.size
      BY <1>1, <1>3, <1>7, <2>1, <2>2, <2>5
    <2>7. call.page <= TotalPages(call.total, call.size) <=> list # <<>>
      BY <1>1, <1>3, <1>7, <2>1, <2>3, <2>4
    <2> QED BY <2>6, <2>7
  <1> QED BY <1>8, <1>10, <1>11, <1>12, <1>13, <1>14, <1>15

\* The other steps of a request.
LEMMA CallKeeps ==
    ASSUME ListingInv, ListingTypeOK',
           \/ \E walk \in BOOLEAN, page \in AskedPages, size \in AskedSizes, f \in AskedFilters :
                 ListUsers(walk, page, size, f)
           \/ NextPage \/ Count \/ Fail
    PROVE  /\ AnswerInv' /\ WalkBound' /\ SteadyInv'
           /\ MissInv' /\ RepeatInv' /\ CountInv' /\ PagesAgree'
  <1>1. /\ call \in Call /\ call' \in Call /\ Off \in Nat /\ Off' \in Nat
        /\ rows \in Seq(UserRow)
        /\ call.page \in Nat /\ call.size \in Nat
        /\ \A f : \A i \in Matching(f, rows) : Rank(f, rows, i) \in Nat \ {0}
    <2>1. call \in Call /\ call' \in Call /\ rows \in Seq(UserRow)
      BY TableTyped DEF ListingInv, ListingTypeOK
    <2>2. Off \in Nat /\ Off' \in Nat /\ call.page \in Nat /\ call.size \in Nat
      BY <2>1, CallFacts DEF Off
    <2>3. \A f : \A i \in Matching(f, rows) : Rank(f, rows, i) \in Nat \ {0}
      BY <2>1, RankBounds
    <2> QED BY <2>1, <2>2, <2>3
  <1>2. ASSUME NEW walk \in BOOLEAN, NEW page \in AskedPages, NEW size \in AskedSizes,
               NEW f \in AskedFilters, ListUsers(walk, page, size, f)
        PROVE  /\ AnswerInv' /\ WalkBound' /\ SteadyInv'
               /\ MissInv' /\ RepeatInv' /\ CountInv' /\ PagesAgree'
    <2>1. /\ ~answer'.ok /\ call'.step = "count" /\ rows' = rows /\ call'.filter = f
          /\ seen' = {} /\ twice' = {} /\ steady' = MatchingIds(f, rows)
          /\ call'.walk => call'.page = 1
      BY <1>2 DEF ListUsers, NoAnswer
    <2>2. ~Answered' /\ WalkedTo' = Off' /\ (call'.walk => Off' = 0)
      <3>1. ~Answered' /\ WalkedTo' = Off'
        BY <2>1 DEF Answered, WalkedTo
      <3>2. call'.walk => Off' = 0
        <4>1. call'.size \in Nat
          BY <1>1, CallFacts
        <4> QED BY <2>1, <4>1 DEF Off
      <3> QED BY <3>1, <3>2
    <2>3. AnswerInv' /\ SteadyInv' /\ CountInv' /\ PagesAgree'
      BY <2>1, <2>2 DEF AnswerInv, SteadyInv, CountInv, PagesAgree
    <2>4. WalkBound'
      BY <2>2, TableAssumption DEF WalkBound
    <2>5. MissInv'
      BY <1>1, <2>1, <2>2 DEF MissInv
    <2>6. RepeatInv'
      BY <2>1 DEF RepeatInv
    <2> QED BY <2>3, <2>4, <2>5, <2>6
  <1>3. ASSUME NextPage
        PROVE  /\ AnswerInv' /\ WalkBound' /\ SteadyInv'
               /\ MissInv' /\ RepeatInv' /\ CountInv' /\ PagesAgree'
    <2>1. /\ ~answer'.ok /\ call'.step = "count" /\ call'.page = call.page + 1
          /\ call'.size = call.size /\ call'.filter = call.filter /\ call'.walk = call.walk
          /\ rows' = rows /\ seen' = seen /\ twice' = twice /\ steady' = steady
          /\ Answered /\ Full /\ call.walk
      BY <1>1, <1>3 DEF NextPage, NoAnswer, walkVars, Call, Answered, Full
    <2>a. (left' <=> left) /\ (entered' <=> entered)
      BY <1>3 DEF NextPage
    <2>2. ~Answered' /\ WalkedTo' = Off' /\ Off' = call.page * call.size /\ WalkedTo = call.page * call.size
      <3>1. (call.page + 1) - 1 = call.page
        BY <1>1
      <3> QED BY <2>1, <3>1 DEF Answered, WalkedTo, Off
    <2>3. AnswerInv' /\ SteadyInv' /\ CountInv' /\ PagesAgree'
      BY <2>1, <2>2 DEF ListingInv, AnswerInv, SteadyInv, CountInv, PagesAgree
    <2>4. WalkBound'
      BY <2>1, <2>2 DEF ListingInv, WalkBound
    <2>5. MissInv'
      BY <2>1, <2>a, <2>2 DEF ListingInv, MissInv
    <2>6. RepeatInv'
      BY <2>1, <2>a, <2>2 DEF ListingInv, RepeatInv
    <2> QED BY <2>3, <2>4, <2>5, <2>6
  <1>4. ASSUME Count \/ Fail
        PROVE  /\ AnswerInv' /\ WalkBound' /\ SteadyInv'
               /\ MissInv' /\ RepeatInv' /\ CountInv' /\ PagesAgree'
    <2>1. /\ answer' = answer /\ call'.page = call.page /\ call.step # "answered"
          /\ call'.size = call.size /\ call'.filter = call.filter /\ call'.walk = call.walk
          /\ rows' = rows /\ seen' = seen /\ twice' = twice /\ steady' = steady
      <3>1. CASE Count
        BY <1>1, <3>1 DEF Count, walkVars, Call
      <3>2. CASE Fail
        BY <1>1, <3>2 DEF Fail, walkVars, Call
      <3> QED BY <1>4, <3>1, <3>2
    <2>a. (left' <=> left) /\ (entered' <=> entered) /\ (moved' <=> moved)
      BY <1>4 DEF Count, Fail
    <2>b. ~answer.ok
      BY <2>1 DEF ListingInv, AnswerInv
    <2>2. ~Answered /\ ~Answered' /\ WalkedTo' = Off' /\ Off' = Off /\ WalkedTo = Off
      BY <2>1, <2>b DEF Answered, WalkedTo, Off
    <2>3. AnswerInv' /\ SteadyInv' /\ PagesAgree'
      BY <2>1, <2>b, <2>2 DEF ListingInv, AnswerInv, SteadyInv, PagesAgree
    <2>4. WalkBound'
      BY <2>1, <2>2 DEF ListingInv, WalkBound
    <2>5. MissInv'
      BY <2>1, <2>a, <2>2 DEF ListingInv, MissInv
    <2>6. RepeatInv'
      BY <2>1, <2>a, <2>2 DEF ListingInv, RepeatInv
    <2>7. CountInv'
      <3>1. CASE Count
        BY <1>1, <2>1, <3>1 DEF Count, CountInv, Call
      <3>2. CASE Fail
        BY <1>1, <3>2 DEF Fail, CountInv, Call
      <3> QED BY <1>4, <3>1, <3>2
    <2> QED BY <2>3, <2>4, <2>5, <2>6, <2>7
  <1> QED BY <1>2, <1>3, <1>4

LEMMA ListingInvariant == ListingSpec => []ListingInv
  <1>1. ListingInit => AnswerInv /\ WalkBound /\ SteadyInv /\ MissInv /\ RepeatInv /\ CountInv /\ PagesAgree
    <2> SUFFICES ASSUME ListingInit
                 PROVE  AnswerInv /\ WalkBound /\ SteadyInv /\ MissInv /\ RepeatInv /\ CountInv /\ PagesAgree
      OBVIOUS
    <2>1. ~answer.ok /\ ~call.walk /\ call.step = "idle" /\ steady = {}
      BY DEF ListingInit, NoAnswer
    <2> QED BY <2>1 DEF AnswerInv, WalkBound, SteadyInv, MissInv, RepeatInv, CountInv, PagesAgree, Answered
  <1>2. ListingTypeOK' /\ ListingInv /\ [ListingNext]_listingVars => ListingInv'
    <2> SUFFICES ASSUME ListingTypeOK', ListingInv, [ListingNext]_listingVars
                 PROVE  /\ AnswerInv' /\ WalkBound' /\ SteadyInv'
                        /\ MissInv' /\ RepeatInv' /\ CountInv' /\ PagesAgree'
      BY DEF ListingInv
    <2>0. ListingTypeOK
      BY DEF ListingInv
    <2>1. CASE \/ \E hit \in BOOLEAN, i \in 1 .. Recent : Create(hit, i)
               \/ \E i \in DOMAIN rows : SetDisabled(i)
      BY <2>0, <2>1, TableChanges, ChangeKeeps
    <2>2. CASE \/ \E walk \in BOOLEAN, page \in AskedPages, size \in AskedSizes, f \in AskedFilters :
                     ListUsers(walk, page, size, f)
               \/ NextPage \/ Count \/ Fail
      BY <2>2, CallKeeps
    <2>3. CASE \E offset \in Offset(call.page, call.size) : FindAll(offset)
      BY <2>3, FindAllKeeps
    <2>4. CASE UNCHANGED listingVars
      <3>1. /\ rows' = rows /\ call' = call /\ answer' = answer /\ seen' = seen
            /\ twice' = twice /\ steady' = steady
        BY <2>4 DEF listingVars
      <3>a. (left' <=> left) /\ (entered' <=> entered) /\ (moved' <=> moved)
        BY <2>4 DEF listingVars
      <3>2. /\ Off' = Off /\ WalkedTo' = WalkedTo /\ (Answered' <=> Answered) /\ (Full' <=> Full)
            /\ AnswerInv' /\ WalkBound'
        BY <3>1, WalkStays DEF ListingInv
      <3>3. SteadyInv' /\ CountInv' /\ PagesAgree'
        BY <3>1, <3>a, <3>2 DEF ListingInv, SteadyInv, CountInv, PagesAgree
      <3>4. MissInv'
        BY <3>1, <3>a, <3>2 DEF ListingInv, MissInv
      <3>5. RepeatInv'
        BY <3>1, <3>a, <3>2 DEF ListingInv, RepeatInv
      <3> QED BY <3>2, <3>3, <3>4, <3>5
    <2> QED BY <2>1, <2>2, <2>3, <2>4 DEF ListingNext
  <1>3. ListingInit /\ ListingTypeOK => ListingInv
    BY <1>1 DEF ListingInv
  <1> QED BY <1>2, <1>3, ListingTypeCorrect, PTL DEF ListingSpec

\* A client that walks ListUsers to a page that is not full has been shown
\* every account that matched all the time, unless one left the filter.
THEOREM WalksMissNothing == ListingSpec => []WalkMissesNothing
  <1>1. ListingInv => WalkMissesNothing
    BY DEF ListingInv, MissInv, WalkMissesNothing
  <1> QED BY <1>1, ListingInvariant, PTL

\* It is shown no account twice, unless one entered the filter.
THEOREM WalksRepeatNothing == ListingSpec => []WalkRepeatsNothing
  <1>1. ListingInv => WalkRepeatsNothing
    BY DEF ListingInv, RepeatInv, WalkRepeatsNothing
  <1> QED BY <1>1, ListingInvariant, PTL

\* The list and the number of pages of an answer of ListUsers belong
\* together, unless rows moved between Count and FindAll.
THEOREM PagesBelongTogether == ListingSpec => []PagesAgree
  <1>1. ListingInv => PagesAgree
    BY DEF ListingInv
  <1> QED BY <1>1, ListingInvariant, PTL
=============================================================================
