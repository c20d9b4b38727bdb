------------------------- MODULE UserSessions_proofs -------------------------
(* Proofs about UserSessions, for any sets of threads, accounts, mobile    *)
(* numbers and tokens and any set of failing statements.                   *)
EXTENDS UserSessions, FiniteSetTheorems, TLAPS

-----------------------------------------------------------------------------
(* How requests move.                                                      *)

\* What Goto does to the record of the request and to the others.
LEMMA GotoMoves ==
    ASSUME req \in [Procs -> Request], NEW p \in Procs, NEW r \in Request,
           NEW s \in Steps, Goto(p, r, s)
    PROVE  /\ req' \in [Procs -> Request]
           /\ \A q \in Procs \ {p} : req'[q] = req[q]
           /\ s = "none" => req'[p] = NoRequest
           /\ s # "none" => /\ req'[p].op = r.op
                            /\ req'[p].step = s
                            /\ req'[p].user = r.user
                            /\ req'[p].tok = r.tok
                            /\ req'[p].row = r.row
<1>1. NoRequest \in Request
  BY DEF NoRequest, Request, NoRow, Row, Steps
<1>2. [r EXCEPT !.step = s] \in Request
  BY DEF Request
<1> QED BY <1>1, <1>2 DEF Goto, Request

\* What ending a request does.
LEMMA FailMoves ==
    ASSUME req \in [Procs -> Request], NEW p \in Procs, Fail(p)
    PROVE  /\ req' \in [Procs -> Request]
           /\ \A q \in Procs \ {p} : req'[q] = req[q]
           /\ req'[p] = NoRequest
           /\ dead' = dead \ {p} /\ old' = old \ {p} /\ crossed' = crossed \ {p}
<1>1. NoRequest \in Request /\ "none" \in Steps
  BY DEF NoRequest, Request, NoRow, Row, Steps
<1> QED BY <1>1, GotoMoves DEF Fail, Forget

\* The steps the tables of successors lead to.
LEMMA Successors ==
    ASSUME NEW op \in AllOps
    PROVE  /\ AfterFind[op] \in Steps /\ AfterFind[op] # "none"
           /\ AfterUpdate[op] \in Steps
           /\ AfterRevoke[op] \in Steps
BY DEF AfterFind, AfterUpdate, AfterRevoke, AllOps, Steps

-----------------------------------------------------------------------------
(* Type correctness, together with what the request records hold at each   *)
(* step: who a request works for, and which row it is going to write.      *)

\* The record of request p fits the step it is at.
Fits(p) ==
    /\ req[p].op = "none" => req[p].step = "none"
    /\ req[p].op = "refresh" =>
          /\ req[p].step \in {"find", "check", "delete", "save"}
          /\ req[p].tok \in issued
          /\ req[p].user = owner[req[p].tok]
    /\ req[p].step \in {"reread", "save", "update", "revoke"} =>
          req[p].user \in Registered
    /\ req[p].op \in {"register", "loginPassword", "loginCode"}
       /\ req[p].step \in {"insert", "find"} => req[p].user = "none"
    /\ \/ req[p].step = "update"
       \/ req[p].step = "revoke" /\ req[p].op = "delete"
       => req[p].row.status # "absent"

\* Every token handed out is made out to an account.
OwnersExist == \A t \in issued : owner[t] \in Registered

WellFormed == TypeOK /\ OwnersExist /\ \A p \in Procs : Fits(p)

\* Accounts never disappear, and the requests that did not move still fit.
LEMMA OthersFit ==
    ASSUME WellFormed, NEW p \in Procs,
           \A q \in Procs \ {p} : req'[q] = req[q],
           Registered \subseteq Registered',
           issued \subseteq issued',
           \A t \in issued : owner'[t] = owner[t]
    PROVE  \A q \in Procs \ {p} : Fits(q)'
BY DEF WellFormed, Fits

\* A request that has ended fits.
LEMMA EndedFits ==
    ASSUME NEW p \in Procs, req'[p] = NoRequest
    PROVE  Fits(p)'
BY DEF Fits, NoRequest

\* A request that keeps its record but for the step, and where it may go.
LEMMA MovedFits ==
    ASSUME WellFormed, NEW p \in Procs, NEW s \in Steps \ {"none"},
           Goto(p, req[p], s),
           UNCHANGED <<users, issued, owner>>,
           req[p].op = "refresh" => s \in {"find", "check", "delete", "save"},
           s \in {"reread", "save", "update", "revoke"} =>
              req[p].user \in Registered,
           s \notin {"insert", "find"}, req[p].op # "none",
           s = "update" \/ (s = "revoke" /\ req[p].op = "delete") =>
              req[p].row.status # "absent"
    PROVE  Fits(p)'
<1>1. /\ req'[p].op = req[p].op
      /\ req'[p].step = s
      /\ req'[p].user = req[p].user
      /\ req'[p].tok = req[p].tok
      /\ req'[p].row = req[p].row
  BY GotoMoves DEF WellFormed, TypeOK
<1>2. Registered' = Registered
  BY DEF Registered
<1> QED BY <1>1, <1>2 DEF WellFormed, Fits

\* Issuing a token to the account a request works for.
LEMMA IssueTypes ==
    ASSUME WellFormed, NEW p \in Procs, NEW t \in Tokens,
           At(p, Issuing, "save"), Issue(p, t), UNCHANGED users
    PROVE  /\ issued' \in SUBSET Tokens
           /\ owner' \in [Tokens -> Users \cup {"none"}]
           /\ oldTokens' \in SUBSET Tokens
           /\ escaped' \in SUBSET Tokens
           /\ issued \subseteq issued'
           /\ t \notin issued
           /\ \A x \in issued : owner'[x] = owner[x]
           /\ owner'[t] = req[p].user
           /\ req[p].user \in Registered
           /\ OwnersExist'
<1>1. req[p].user \in Registered
  BY DEF WellFormed, Fits, At
<1>2. /\ issued' = issued \cup {t} /\ t \notin issued
      /\ owner' = [owner EXCEPT ![t] = req[p].user]
  BY DEF Issue
<1>3. issued \in SUBSET Tokens /\ owner \in [Tokens -> Users \cup {"none"}]
  BY DEF WellFormed, TypeOK
<1>4. owner' \in [Tokens -> Users \cup {"none"}]
  BY <1>1, <1>2, <1>3 DEF Registered
<1>5. oldTokens' \in SUBSET Tokens /\ escaped' \in SUBSET Tokens
  BY DEF WellFormed, TypeOK, Issue
<1>6. (\A x \in issued : owner'[x] = owner[x]) /\ owner'[t] = req[p].user
  BY <1>2, <1>3
<1>7. OwnersExist'
  <2>1. Registered' = Registered
    BY DEF Registered
  <2> QED BY <1>1, <1>2, <1>6, <2>1 DEF WellFormed, OwnersExist
<1> QED BY <1>1, <1>2, <1>3, <1>4, <1>5, <1>6, <1>7

\* The row UserDB::Update writes: an account row with the mobile unchanged.
LEMMA WrittenRow ==
    ASSUME WellFormed, NEW p \in Procs, NEW n \in Names, NEW h \in Hashes,
           Update(p, n, h)
    PROVE  /\ req[p].user \in Registered
           /\ Written(req[p].user, Wanted(p, n, h)) \in Row
           /\ Written(req[p].user, Wanted(p, n, h)).status # "absent"
           /\ Written(req[p].user, Wanted(p, n, h)).mobile
                 = users[req[p].user].mobile
<1> DEFINE u == req[p].user
           row == req[p].row
<1>1. u \in Registered /\ u \in Users /\ row.status # "absent"
  BY DEF Update, At, WellFormed, Fits, Registered
<1>2. Wanted(p, n, h) \in Row /\ Wanted(p, n, h).status # "absent"
  <2>1. row \in Row /\ row.status # "absent"
    BY <1>1 DEF WellFormed, TypeOK, Request
  <2>2. /\ [row EXCEPT !.hash = h] \in Row
        /\ [row EXCEPT !.hash = h].status # "absent"
        /\ [row EXCEPT !.name = n] \in Row
        /\ [row EXCEPT !.name = n].status # "absent"
    BY <2>1 DEF Row
  <2>3. /\ [row EXCEPT !.status = "disabled", !.mobile = "none"] \in Row
        /\ [row EXCEPT !.status = "disabled", !.mobile = "none"].status
              = "disabled"
        /\ [row EXCEPT !.status = "disabled"] \in Row
        /\ [row EXCEPT !.status = "disabled"].status = "disabled"
        /\ [row EXCEPT !.status = "active"] \in Row
        /\ [row EXCEPT !.status = "active"].status = "active"
    BY <2>1 DEF Row
  <2>4. CASE req[p].op \in {"reset", "change"}
    BY <2>2, <2>4 DEF Wanted
  <2>5. CASE req[p].op = "update"
    BY <2>2, <2>5 DEF Wanted
  <2>6. CASE req[p].op \in {"delete", "disable"}
    BY <2>3, <2>6 DEF Wanted
  <2>7. CASE req[p].op \notin {"reset", "change", "update", "delete", "disable"}
    BY <2>3, <2>7 DEF Wanted
  <2> QED BY <2>4, <2>5, <2>6, <2>7
<1>3. users[u].mobile \in Mobiles \cup {"none"}
  BY <1>1 DEF WellFormed, TypeOK, Row
<1> QED BY <1>1, <1>2, <1>3 DEF Written, Row

\* The empty database is well formed.
LEMMA WellFormedInit == Init => WellFormed
<1> SUFFICES ASSUME Init PROVE WellFormed
  OBVIOUS
<1>1. NoRequest \in Request /\ NoRow \in Row
  BY DEF NoRequest, Request, NoRow, Row, Steps
<1>2. TypeOK
  BY <1>1 DEF Init, TypeOK
<1>3. OwnersExist
  BY DEF Init, OwnersExist
<1>4. \A p \in Procs : Fits(p)
  BY DEF Init, Fits, NoRequest
<1> QED BY <1>2, <1>3, <1>4 DEF WellFormed

\* Every statement of every handler keeps the database well formed.
LEMMA WellFormedStep == WellFormed /\ [Next]_vars => WellFormed'
<1> SUFFICES ASSUME WellFormed, [Next]_vars PROVE WellFormed'
  OBVIOUS
<1>0. TypeOK /\ OwnersExist /\ \A p \in Procs : Fits(p)
  BY DEF WellFormed
<1> USE <1>0
\* A request ends and nothing but its flags changes.
<1>a. ASSUME NEW p \in Procs, Fail(p),
             UNCHANGED <<users, sessions, issued, owner, stale, oldTokens, escaped,
                         refreshes>>
      PROVE  WellFormed'
  <2>1. /\ req' \in [Procs -> Request]
        /\ \A q \in Procs \ {p} : req'[q] = req[q]
        /\ req'[p] = NoRequest
        /\ dead' = dead \ {p} /\ old' = old \ {p} /\ crossed' = crossed \ {p}
    BY <1>a, FailMoves DEF TypeOK
  <2>2. Registered' = Registered
    BY <1>a DEF Registered
  <2>3. TypeOK'
    BY <1>a, <2>1 DEF TypeOK
  <2>4. OwnersExist'
    BY <1>a, <2>2 DEF OwnersExist
  <2>5. \A q \in Procs : Fits(q)'
    BY <1>a, <2>1, <2>2, OthersFit, EndedFits
  <2> QED BY <2>3, <2>4, <2>5 DEF WellFormed
\* A request ends with other effects on the sessions and the history.
<1>b. ASSUME NEW p \in Procs, Goto(p, req[p], "none"), Forget(p, "none"),
             UNCHANGED <<users, issued, owner, stale, oldTokens, escaped, refreshes>>,
             sessions' \in SUBSET Tokens
      PROVE  WellFormed'
  <2>1. /\ req' \in [Procs -> Request]
        /\ \A q \in Procs \ {p} : req'[q] = req[q]
        /\ req'[p] = NoRequest
    BY <1>b, GotoMoves DEF TypeOK, Steps
  <2>2. Registered' = Registered
    BY <1>b DEF Registered
  <2>3. TypeOK'
    BY <1>b, <2>1 DEF TypeOK, Forget
  <2>4. OwnersExist'
    BY <1>b, <2>2 DEF OwnersExist
  <2>5. \A q \in Procs : Fits(q)'
    BY <1>b, <2>1, <2>2, OthersFit, EndedFits
  <2> QED BY <2>3, <2>4, <2>5 DEF WellFormed
\* A request moves on; the tables of accounts and owners stay.
<1>c. ASSUME NEW p \in Procs, NEW r \in Request, NEW s \in Steps,
             Goto(p, r, s), Fits(p)',
             UNCHANGED <<users, issued, owner, stale, escaped>>,
             sessions' \in SUBSET Tokens, oldTokens' \in SUBSET Tokens,
             dead' \in SUBSET Procs, old' \in SUBSET Procs,
             crossed' \in SUBSET Procs, refreshes' \in [Tokens -> Nat]
      PROVE  WellFormed'
  <2>1. /\ req' \in [Procs -> Request]
        /\ \A q \in Procs \ {p} : req'[q] = req[q]
    BY <1>c, GotoMoves DEF TypeOK
  <2>2. Registered' = Registered
    BY <1>c DEF Registered
  <2>3. TypeOK'
    BY <1>c, <2>1 DEF TypeOK
  <2>4. OwnersExist'
    BY <1>c, <2>2 DEF OwnersExist
  <2>5. \A q \in Procs : Fits(q)'
    BY <1>c, <2>1, <2>2, OthersFit
  <2> QED BY <2>3, <2>4, <2>5 DEF WellFormed
\* A request arrives.
<1>d. ASSUME NEW p \in Procs, NEW r \in Request,
             req' = [req EXCEPT ![p] = r], Fits(p)',
             UNCHANGED <<users, sessions, issued, owner, stale, crossed,
                         oldTokens, escaped, refreshes>>,
             dead' \in SUBSET Procs, old' \in SUBSET Procs
      PROVE  WellFormed'
  <2>1. /\ req' \in [Procs -> Request]
        /\ \A q \in Procs \ {p} : req'[q] = req[q]
    BY <1>d DEF TypeOK
  <2>2. Registered' = Registered
    BY <1>d DEF Registered
  <2>3. TypeOK'
    BY <1>d, <2>1 DEF TypeOK
  <2>4. OwnersExist'
    BY <1>d, <2>2 DEF OwnersExist
  <2>5. \A q \in Procs : Fits(q)'
    BY <1>d, <2>1, <2>2, OthersFit
  <2> QED BY <2>3, <2>4, <2>5 DEF WellFormed
<1>1. ASSUME NEW p \in Procs, NEW op \in Ops, Begin(p, op) PROVE WellFormed'
  <2>1. PICK s \in {"insert", "find"} :
           req' = [req EXCEPT ![p] = [NoRequest EXCEPT !.op = op, !.step = s]]
    BY <1>1 DEF Begin
  <2>2. op \in AllOps \ {"refresh"} /\ op # "none"
    BY <1>1, OpsAssumption DEF Begin, AllOps
  <2>3. [NoRequest EXCEPT !.op = op, !.step = s] \in Request
    BY <2>1, <2>2 DEF NoRequest, Request, NoRow, Row, Steps
  <2>4. /\ req'[p].op = op
        /\ req'[p].step = s
        /\ req'[p].user = "none"
    BY <2>1 DEF NoRequest, TypeOK
  <2>5. Fits(p)'
    BY <2>1, <2>2, <2>4 DEF Fits
  <2> QED BY <1>1, <1>d, <2>1, <2>3, <2>5
       DEF Begin, dbVars, tokenVars, history, TypeOK
<1>2. ASSUME NEW p \in Procs, NEW t \in Tokens, BeginRefresh(p, t)
      PROVE  WellFormed'
  <2>1. owner[t] \in Registered /\ Registered \subseteq Users
    BY <1>2 DEF BeginRefresh, OwnersExist, Registered
  <2> DEFINE r == [NoRequest EXCEPT !.op = "refresh", !.step = "find",
                                    !.user = owner[t], !.tok = t]
  <2>2. r \in Request
    BY <2>1 DEF NoRequest, Request, NoRow, Row, Steps, AllOps
  <2>3. req' = [req EXCEPT ![p] = r]
    BY <1>2 DEF BeginRefresh
  <2>4. /\ req'[p].op = "refresh"
        /\ req'[p].step = "find"
        /\ req'[p].user = owner[t]
        /\ req'[p].tok = t
    BY <2>3 DEF NoRequest, TypeOK
  <2>5. Fits(p)'
    BY <1>2, <2>4 DEF Fits, BeginRefresh, tokenVars
  <2> HIDE DEF r
  <2> QED BY <1>2, <1>d, <2>2, <2>3, <2>5
       DEF BeginRefresh, dbVars, tokenVars, TypeOK
<1>3. ASSUME NEW p \in Procs, NEW t \in Tokens, BeginLogout(p, t)
      PROVE  WellFormed'
  <2> DEFINE r == [NoRequest EXCEPT !.op = "logout", !.step = "delete",
                                    !.tok = t]
  <2>2. r \in Request
    BY DEF NoRequest, Request, NoRow, Row, Steps, AllOps
  <2>3. req' = [req EXCEPT ![p] = r]
    BY <1>3 DEF BeginLogout
  <2>4. req'[p].op = "logout" /\ req'[p].step = "delete"
    BY <2>3 DEF NoRequest, TypeOK
  <2>5. Fits(p)'
    BY <2>4 DEF Fits
  <2> HIDE DEF r
  <2> QED BY <1>3, <1>d, <2>2, <2>3, <2>5
       DEF BeginLogout, dbVars, tokenVars, history, TypeOK
<1>4. ASSUME NEW p \in Procs, NEW m \in Mobiles, Insert(p, m)
      PROVE  WellFormed'
  <2>1. CASE Fail(p) /\ UNCHANGED users
    BY <1>4, <2>1, <1>a DEF Insert, tokenVars, TypeOK
  <2>2. ASSUME NEW u \in Users \ Registered, NEW n \in Names, NEW h \in Hashes,
               users' = [users EXCEPT ![u] = [mobile |-> m, name |-> n,
                                             hash |-> h, status |-> "active"]],
               Goto(p, [req[p] EXCEPT !.user = u], "reread"),
               Forget(p, "reread")
        PROVE  WellFormed'
    <3> DEFINE r == [req[p] EXCEPT !.user = u]
    <3>1. r \in Request /\ r.op = req[p].op /\ r.user = u /\ Goto(p, r, "reread")
      BY <2>2 DEF TypeOK, Request
    <3> HIDE DEF r
    <3>2. "reread" \in Steps
      BY DEF Steps
    <3>3. /\ req' \in [Procs -> Request]
          /\ \A q \in Procs \ {p} : req'[q] = req[q]
          /\ req'[p].op = r.op /\ req'[p].step = "reread" /\ req'[p].user = r.user
      BY <2>2, <3>1, <3>2, GotoMoves DEF TypeOK
    <3>4. users' \in [Users -> Row]
      BY <2>2 DEF TypeOK, Row
    <3>5. Registered' = Registered \cup {u}
      BY <2>2 DEF Registered, TypeOK
    <3>6. TypeOK'
      BY <1>4, <2>2, <3>3, <3>4 DEF TypeOK, Insert, Forget, tokenVars
    <3>7. UNCHANGED <<issued, owner>>
      BY <1>4 DEF Insert, tokenVars
    <3>8. OwnersExist'
      BY <3>5, <3>7 DEF OwnersExist
    <3>9. Fits(p)'
      BY <1>4, <3>1, <3>3, <3>5 DEF Fits, Insert, At
    <3> QED BY <3>3, <3>5, <3>6, <3>7, <3>8, <3>9, OthersFit DEF WellFormed
  <2> QED BY <1>4, <2>1, <2>2 DEF Insert
<1>5. ASSUME NEW p \in Procs, Reread(p) PROVE WellFormed'
  <2>1. Fits(p)'
    BY <1>5, MovedFits DEF Reread, At, Steps, dbVars, tokenVars, Fits
  <2> QED BY <1>5, <1>c, <2>1
       DEF Reread, dbVars, tokenVars, history, TypeOK, Steps
<1>6. ASSUME NEW p \in Procs, NEW m \in Mobiles, FindByMobile(p, m)
      PROVE  WellFormed'
  <2>1. CASE Fail(p)
    BY <1>6, <2>1, <1>a DEF FindByMobile, dbVars, tokenVars, TypeOK
  <2>2. CASE ~Fail(p)
    <3>1. PICK u \in Registered :
             /\ Goto(p, [req[p] EXCEPT
                          !.user = u,
                          !.row = IF req[p].op = "reset" THEN users[u]
                                  ELSE NoRow], AfterFind[req[p].op])
             /\ Forget(p, AfterFind[req[p].op])
      BY <1>6, <2>2 DEF FindByMobile
    <3> DEFINE r == [req[p] EXCEPT !.user = u,
                                   !.row = IF req[p].op = "reset" THEN users[u]
                                           ELSE NoRow]
    <3>2. req[p].op \in {"loginPassword", "loginCode", "reset"}
      BY <1>6 DEF FindByMobile, At
    <3>3. /\ r \in Request /\ r.op = req[p].op /\ r.user = u
          /\ r.op = "reset" => r.row.status # "absent"
      BY <3>2 DEF TypeOK, Request, Registered, NoRow, Row
    <3>4. Goto(p, r, AfterFind[req[p].op])
      BY <3>1
    <3> HIDE DEF r
    <3>5. /\ AfterFind[req[p].op] \in {"save", "update"}
          /\ AfterFind[req[p].op] = "update" => r.op = "reset"
      BY <3>2, <3>3 DEF AfterFind, AllOps
    <3>6. /\ req'[p].op = r.op /\ req'[p].step = AfterFind[req[p].op]
          /\ req'[p].user = u /\ req'[p].row = r.row
      BY <3>3, <3>4, <3>5, GotoMoves DEF TypeOK, Steps
    <3>7. Registered' = Registered
      BY <1>6 DEF FindByMobile, dbVars, Registered
    <3>8. Fits(p)'
      BY <3>1, <3>2, <3>3, <3>5, <3>6, <3>7 DEF Fits
    <3> QED BY <1>6, <1>c, <3>1, <3>3, <3>4, <3>5, <3>8
         DEF FindByMobile, Forget, dbVars, tokenVars, TypeOK, Steps
  <2> QED BY <2>1, <2>2
<1>7. ASSUME NEW p \in Procs, FindById(p) PROVE WellFormed'
  <2>1. CASE Fail(p)
    BY <1>7, <2>1, <1>a DEF FindById, dbVars, tokenVars, TypeOK
  <2>2. CASE ~Fail(p)
    <3>1. AfterFind["refresh"] = "check"
      BY DEF AfterFind, AllOps
    <3>2. Goto(p, req[p], "check") /\ Forget(p, "check")
      BY <1>7, <2>2, <3>1 DEF FindById
    <3>3. Fits(p)'
      BY <1>7, <3>2, MovedFits DEF FindById, At, dbVars, tokenVars, Steps
    <3> QED BY <1>7, <1>c, <3>2, <3>3
         DEF FindById, Forget, dbVars, tokenVars, TypeOK, Steps
  <2> QED BY <2>1, <2>2
<1>8. ASSUME NEW p \in Procs, NEW u \in Users, FindByUUID(p, u)
      PROVE  WellFormed'
  <2>1. CASE Fail(p)
    BY <1>8, <2>1, <1>a DEF FindByUUID, dbVars, tokenVars, TypeOK
  <2>2. CASE ~Fail(p)
    <3> DEFINE r == [req[p] EXCEPT !.user = u,
                                   !.row = IF req[p].op = "logoutAll" THEN NoRow
                                           ELSE users[u]]
    <3>1. Goto(p, r, AfterFind[req[p].op]) /\ Forget(p, AfterFind[req[p].op])
      BY <1>8, <2>2 DEF FindByUUID
    <3>2. req[p].op \in ByUUID /\ u \in Registered
      BY <1>8 DEF FindByUUID, At
    <3>3. /\ r \in Request /\ r.op = req[p].op /\ r.user = u
          /\ r.op # "logoutAll" => r.row.status # "absent"
      <4>1. NoRow \in Row /\ users[u] \in Row /\ users[u].status # "absent"
        BY <3>2 DEF TypeOK, Registered, NoRow, Row
      <4>2. req[p] \in Request
        BY DEF TypeOK
      <4> QED BY <4>1, <4>2 DEF Request
    <3> HIDE DEF r
    <3>5. AfterFind[req[p].op] \in {"revoke", "update"}
          /\ (AfterFind[req[p].op] = "update" => r.op # "logoutAll")
      BY <3>2, <3>3 DEF AfterFind, AllOps, ByUUID
    <3>6. /\ req'[p].op = r.op /\ req'[p].step = AfterFind[req[p].op]
          /\ req'[p].user = u /\ req'[p].row = r.row
      BY <3>1, <3>3, <3>5, GotoMoves DEF TypeOK, Steps
    <3>7. Registered' = Registered
      BY <1>8 DEF FindByUUID, dbVars, Registered
    <3>8. Fits(p)'
      BY <3>2, <3>3, <3>5, <3>6, <3>7 DEF Fits, ByUUID
    <3> QED BY <1>8, <1>c, <3>1, <3>3, <3>5, <3>8
         DEF FindByUUID, Forget, dbVars, tokenVars, TypeOK, Steps
  <2> QED BY <2>1, <2>2
<1>9. ASSUME NEW p \in Procs, NEW n \in Names, NEW h \in Hashes, Update(p, n, h)
      PROVE  WellFormed'
  <2> DEFINE u == req[p].user
             new == Written(u, Wanted(p, n, h))
  <2>1. u \in Registered /\ u \in Users /\ req[p].row.status # "absent"
    BY <1>9 DEF Update, At, Fits, Registered
  <2>2. new \in Row /\ new.status # "absent" /\ new.mobile = users[u].mobile
    BY <1>9, WrittenRow
  <2>3. \/ /\ Fail(p) /\ UNCHANGED users
        \/ /\ users' = [users EXCEPT ![u] = new]
           /\ Goto(p, [req[p] EXCEPT !.row = NoRow], AfterUpdate[req[p].op])
           /\ Forget(p, AfterUpdate[req[p].op])
    BY <1>9, <2>1 DEF Update, TypeOK
  <2>4. UNCHANGED <<sessions, issued, owner, stale, oldTokens, escaped, refreshes>>
    BY <1>9 DEF Update, tokenVars
  <2> HIDE DEF new
  <2>5. CASE Fail(p) /\ UNCHANGED users
    BY <2>1, <2>4, <2>5, <1>a DEF TypeOK
  <2>6. CASE /\ users' = [users EXCEPT ![u] = new]
             /\ Goto(p, [req[p] EXCEPT !.row = NoRow], AfterUpdate[req[p].op])
             /\ Forget(p, AfterUpdate[req[p].op])
      <3> DEFINE r == [req[p] EXCEPT !.row = NoRow]
               s == AfterUpdate[req[p].op]
    <3>1. r \in Request /\ r.op = req[p].op /\ r.user = u
      <4>1. req[p] \in Request /\ NoRow \in Row
        BY DEF TypeOK, NoRow, Row
      <4> QED BY <4>1 DEF Request
    <3>2. /\ req[p].op \in {"reset", "update", "change", "delete", "disable", "enable"}
          /\ s \in {"none", "revoke"}
          /\ s = "revoke" => r.op # "delete"
      BY <1>9, <3>1 DEF Update, At, AfterUpdate, AllOps
    <3>3. Goto(p, r, s) /\ Forget(p, s) /\ s \in Steps
      BY <2>6, <3>2 DEF Steps
    <3> HIDE DEF r, s
    <3>4. /\ req' \in [Procs -> Request]
          /\ \A q \in Procs \ {p} : req'[q] = req[q]
          /\ s = "none" => req'[p] = NoRequest
          /\ s # "none" => /\ req'[p].op = r.op
                           /\ req'[p].step = s
                           /\ req'[p].user = u
      BY <3>1, <3>3, GotoMoves DEF TypeOK
    <3>5. users' \in [Users -> Row] /\ Registered' = Registered
      BY <2>1, <2>2, <2>6 DEF TypeOK, Registered
    <3>6. TypeOK'
      BY <2>4, <2>6, <3>3, <3>4, <3>5 DEF TypeOK, Forget
    <3>7. OwnersExist'
      BY <2>4, <3>5 DEF OwnersExist
    <3>8. Fits(p)'
      <4>1. CASE s = "none" BY <3>4, <4>1, EndedFits
      <4>2. CASE s # "none"
        BY <2>1, <3>1, <3>2, <3>4, <3>5, <4>2 DEF Fits
      <4> QED BY <4>1, <4>2
    <3> QED BY <2>4, <3>4, <3>5, <3>6, <3>7, <3>8, OthersFit DEF WellFormed
  <2> QED BY <2>3, <2>5, <2>6
<1>10. ASSUME NEW p \in Procs, CheckToken(p) PROVE WellFormed'
  <2>1. CASE req[p].tok \notin sessions \ stale
    BY <1>10, <2>1, <1>a DEF CheckToken, dbVars, tokenVars, TypeOK
  <2>2. CASE req[p].tok \in sessions \ stale
    <3>1. /\ Goto(p, req[p], "delete") /\ UNCHANGED <<dead, old>>
          /\ crossed' \in SUBSET Procs
          /\ refreshes' \in [Tokens -> Nat]
      BY <1>10, <2>2 DEF CheckToken, TypeOK
    <3>2. Fits(p)'
      BY <1>10, <3>1, MovedFits DEF CheckToken, At, dbVars, tokenVars, Steps
    <3> QED BY <1>10, <1>c, <3>1, <3>2
         DEF CheckToken, dbVars, tokenVars, TypeOK, Steps
  <2> QED BY <2>1, <2>2
\* DELETE by token hash, whether it works or is skipped by a fault.
<1>e. ASSUME NEW p \in Procs, At(p, {"refresh"}, "delete"),
             Goto(p, req[p], "save"), Forget(p, "save"),
             UNCHANGED <<users, issued, owner, stale, oldTokens, escaped>>,
             sessions' \in SUBSET Tokens, refreshes' \in [Tokens -> Nat]
      PROVE  WellFormed'
  <2>1. req[p].user \in Registered
    BY <1>e DEF Fits, At, OwnersExist
  <2>2. Fits(p)'
    BY <1>e, <2>1, MovedFits DEF At, Steps
  <2> QED BY <1>e, <1>c, <2>2 DEF Forget, TypeOK, Steps
\* DELETE by user id, whether it works or is skipped by a fault.
<1>f. ASSUME NEW p \in Procs, req[p].step = "revoke",
             Goto(p, req[p], AfterRevoke[req[p].op]),
             UNCHANGED <<users, issued, owner, stale, escaped>>,
             sessions' \in SUBSET Tokens, oldTokens' \in SUBSET Tokens,
             dead' \in SUBSET Procs, old' \in SUBSET Procs,
             crossed' \in SUBSET Procs, refreshes' \in [Tokens -> Nat]
      PROVE  WellFormed'
  <2> DEFINE s == AfterRevoke[req[p].op]
  <2>1. s \in {"none", "update"} /\ (s = "update" => req[p].op = "delete")
    <3>1. req[p].op \in AllOps
      BY <1>f DEF TypeOK, Request, Fits
    <3> QED BY <3>1 DEF AfterRevoke
  <2>2. Goto(p, req[p], s)
    BY <1>f
  <2> HIDE DEF s
  <2>3. Fits(p)'
    <3>1. CASE s = "none"
      BY <2>2, <3>1, GotoMoves, EndedFits DEF TypeOK, Steps
    <3>2. CASE s # "none"
      BY <1>f, <2>1, <2>2, <3>2, MovedFits DEF Fits, Steps
    <3> QED BY <3>1, <3>2
  <2> QED BY <1>f, <1>c, <2>1, <2>2, <2>3 DEF TypeOK, Steps
<1>11. ASSUME NEW p \in Procs, DeleteToken(p) PROVE WellFormed'
  <2>1. CASE req[p].op = "refresh"
    BY <1>11, <2>1, <1>e DEF DeleteToken, At, tokenVars, TypeOK
  <2>2. CASE req[p].op # "refresh"
    BY <1>11, <2>2, <1>b DEF DeleteToken, tokenVars, TypeOK
  <2> QED BY <2>1, <2>2
\* A token is issued, and stored or not.
<1>g. ASSUME NEW p \in Procs, NEW t \in Tokens, At(p, Issuing, "save"),
             Issue(p, t), Goto(p, req[p], "none"), Forget(p, "none"),
             UNCHANGED <<users, stale, refreshes>>,
             sessions' \in SUBSET Tokens
      PROVE  WellFormed'
  <2>1. /\ req' \in [Procs -> Request]
        /\ \A q \in Procs \ {p} : req'[q] = req[q]
        /\ req'[p] = NoRequest
    BY <1>g, GotoMoves DEF TypeOK, Steps
  <2>2. /\ issued' \in SUBSET Tokens
        /\ owner' \in [Tokens -> Users \cup {"none"}]
        /\ oldTokens' \in SUBSET Tokens
        /\ escaped' \in SUBSET Tokens
        /\ issued \subseteq issued'
        /\ \A x \in issued : owner'[x] = owner[x]
        /\ OwnersExist'
    BY <1>g, IssueTypes
  <2>3. Registered' = Registered
    BY <1>g DEF Registered
  <2>4. TypeOK'
    BY <1>g, <2>1, <2>2 DEF TypeOK, Forget
  <2>5. \A q \in Procs : Fits(q)'
    BY <2>1, <2>2, <2>3, OthersFit, EndedFits
  <2> QED BY <2>2, <2>4, <2>5 DEF WellFormed
<1>12. ASSUME NEW p \in Procs, NEW t \in Tokens, SaveToken(p, t) PROVE WellFormed'
  BY <1>12, <1>g DEF SaveToken, TypeOK
<1>13. ASSUME NEW p \in Procs, NEW t \in Tokens, IgnoredSaveFault(p, t)
       PROVE  WellFormed'
  BY <1>13, <1>g DEF IgnoredSaveFault, dbVars, TypeOK
<1>14. ASSUME NEW p \in Procs, Revoke(p) PROVE WellFormed'
  <2>1. /\ sessions' \in SUBSET Tokens /\ oldTokens' \in SUBSET Tokens
        /\ dead' \in SUBSET Procs /\ old' \in SUBSET Procs
        /\ crossed' \in SUBSET Procs /\ refreshes' \in [Tokens -> Nat]
    BY <1>14 DEF Revoke, TypeOK
  <2> QED BY <1>14, <1>f, <2>1 DEF Revoke, At, tokenVars
<1>15. ASSUME NEW p \in Procs, FatalFault(p) PROVE WellFormed'
  BY <1>15, <1>a DEF FatalFault, dbVars, tokenVars, TypeOK
<1>16. ASSUME NEW p \in Procs, IgnoredDeleteFault(p) PROVE WellFormed'
  <2>1. UNCHANGED <<users, sessions, issued, owner, stale, oldTokens, escaped>>
    BY <1>16 DEF IgnoredDeleteFault, dbVars, tokenVars
  <2>a. /\ refreshes' \in [Tokens -> Nat]
        /\ ~At(p, {"refresh"}, "delete") => refreshes' = refreshes
    BY <1>16 DEF IgnoredDeleteFault, TypeOK
  <2>2. CASE req[p].step = "revoke"
    BY <1>16, <2>1, <2>a, <2>2, <1>f DEF IgnoredDeleteFault, At, Forget, TypeOK
  <2>3. CASE req[p].step = "delete" /\ req[p].op = "refresh"
    BY <1>16, <2>1, <2>a, <2>3, <1>e DEF IgnoredDeleteFault, At, TypeOK
  <2>4. CASE req[p].step = "delete" /\ req[p].op # "refresh"
    BY <1>16, <2>1, <2>a, <2>4, <1>b DEF IgnoredDeleteFault, At, TypeOK
  <2> QED BY <1>16, <2>2, <2>3, <2>4 DEF IgnoredDeleteFault
\* The accounts, the owners and the requests stay.
<1>h. ASSUME UNCHANGED <<users, issued, owner, req, history>>,
             sessions' \in SUBSET Tokens, stale' \in SUBSET Tokens
      PROVE  WellFormed'
  <2>1. Registered' = Registered
    BY <1>h DEF Registered
  <2>2. TypeOK'
    BY <1>h DEF TypeOK, history
  <2>3. OwnersExist' /\ \A q \in Procs : Fits(q)'
    BY <1>h, <2>1 DEF OwnersExist, Fits
  <2> QED BY <2>2, <2>3 DEF WellFormed
<1>17. ASSUME NEW t \in Tokens, Expire(t) PROVE WellFormed'
  BY <1>17, <1>h DEF Expire, TypeOK
<1>18. CASE CleanExpired
  BY <1>18, <1>h DEF CleanExpired, tokenVars, TypeOK
<1>19. CASE UNCHANGED vars
  BY <1>19, <1>h DEF vars, history, TypeOK
<1> QED BY <1>1, <1>2, <1>3, <1>4, <1>5, <1>6, <1>7, <1>8, <1>9, <1>10, <1>11,
     <1>12, <1>13, <1>14, <1>15, <1>16, <1>17, <1>18, <1>19 DEF Next

\* Every request, step and table entry of the model has its type: in
\* particular every refresh token is made out to a user id.
THEOREM TypeCorrect == Spec => []TypeOK
<1>1. WellFormed => TypeOK
  BY DEF WellFormed
<1> QED BY <1>1, WellFormedInit, WellFormedStep, PTL DEF Spec

-----------------------------------------------------------------------------
(* The account table.                                                      *)

\* What one step may do to the table: nothing, add an account under a number
\* that no account has, or write an account's row without its number.
LEMMA TableStep ==
    ASSUME WellFormed, [Next]_vars
    PROVE  \/ users' = users
           \/ \E u \in Users \ Registered : \E new \in Row :
                 /\ users' = [users EXCEPT ![u] = new]
                 /\ \A v \in Registered : users[v].mobile # new.mobile
           \/ \E u \in Registered : \E new \in Row :
                 /\ users' = [users EXCEPT ![u] = new]
                 /\ new.status # "absent" /\ new.mobile = users[u].mobile
<1>1. ASSUME NEW p \in Procs, NEW m \in Mobiles, Insert(p, m), users' # users
      PROVE  \E u \in Users \ Registered : \E new \in Row :
                 /\ users' = [users EXCEPT ![u] = new]
                 /\ \A v \in Registered : users[v].mobile # new.mobile
  <2>1. PICK u \in Users \ Registered, n \in Names, h \in Hashes :
           /\ users' = [users EXCEPT ![u] = [mobile |-> m, name |-> n,
                                            hash |-> h, status |-> "active"]]
           /\ \A v \in Registered : users[v].mobile # m
    BY <1>1 DEF Insert
  <2>2. [mobile |-> m, name |-> n, hash |-> h, status |-> "active"] \in Row
    BY DEF Row
  <2> QED BY <2>1, <2>2
<1>2. ASSUME NEW p \in Procs, NEW n \in Names, NEW h \in Hashes,
             Update(p, n, h), users' # users
      PROVE  \E u \in Registered : \E new \in Row :
                 /\ users' = [users EXCEPT ![u] = new]
                 /\ new.status # "absent" /\ new.mobile = users[u].mobile
  <2>1. users' = [users EXCEPT ![req[p].user] =
                                Written(req[p].user, Wanted(p, n, h))]
    BY <1>2 DEF Update
  <2> QED BY <1>2, <2>1, WrittenRow
<1>3. ASSUME users' # users
      PROVE  \/ \E p \in Procs, m \in Mobiles : Insert(p, m)
             \/ \E p \in Procs, n \in Names, h \in Hashes : Update(p, n, h)
  BY <1>3 DEF Next, vars, Begin, BeginRefresh, BeginLogout, Reread, FindByMobile,
     FindById, FindByUUID, CheckToken, DeleteToken, SaveToken, Revoke,
     CleanExpired, Expire, FatalFault, IgnoredDeleteFault, IgnoredSaveFault, dbVars
<1> QED BY <1>1, <1>2, <1>3

\* Concurrent registrations never create two accounts with one number,
\* whatever the interleaving of ExistsByMobile, INSERT and the UPDATEs.
THEOREM NumbersAreUnique == Spec => []OneAccountPerMobile
<1>1. Init => OneAccountPerMobile
  BY DEF Init, OneAccountPerMobile, Registered, NoRow
<1>2. ASSUME WellFormed, OneAccountPerMobile, [Next]_vars
      PROVE  OneAccountPerMobile'
  <2>0. users \in [Users -> Row]
    BY <1>2 DEF WellFormed, TypeOK
  <2>1. CASE users' = users
    BY <1>2, <2>1 DEF OneAccountPerMobile, Registered
  <2>2. ASSUME NEW u \in Users \ Registered, NEW new \in Row,
               users' = [users EXCEPT ![u] = new],
               \A v \in Registered : users[v].mobile # new.mobile
        PROVE  OneAccountPerMobile'
    <3>1. Registered' \subseteq Registered \cup {u}
      BY <2>0, <2>2 DEF Registered
    <3>2. users'[u] = new /\ \A v \in Registered : users'[v] = users[v]
      BY <2>0, <2>2 DEF Registered
    <3> QED BY <1>2, <2>2, <3>1, <3>2 DEF OneAccountPerMobile
  <2>3. ASSUME NEW u \in Registered, NEW new \in Row,
               users' = [users EXCEPT ![u] = new],
               new.mobile = users[u].mobile
        PROVE  OneAccountPerMobile'
    <3>1. Registered' \subseteq Registered
      BY <2>0, <2>3 DEF Registered
    <3>2. \A v \in Registered : users'[v].mobile = users[v].mobile
      BY <2>0, <2>3 DEF Registered
    <3> QED BY <1>2, <3>1, <3>2 DEF OneAccountPerMobile
  <2> QED BY <1>2, <2>1, <2>2, <2>3, TableStep
<1> QED BY <1>1, <1>2, WellFormedInit, WellFormedStep, PTL DEF Spec

-----------------------------------------------------------------------------
(* The sessions.                                                           *)

\* What is known of request p: a refresh with a dead token has not passed
\* its check, and an issuing request that predates a revocation either comes from an
\* old token or had passed its check already.
Tracked(p) ==
    /\ p \in dead => /\ req[p].op = "refresh"
                     /\ req[p].step \in {"find", "check"}
                     /\ req[p].tok \notin sessions
    /\ p \in old => /\ req[p].op \in Issuing
                    /\ req[p].user \in Users
                    /\ req[p].op = "refresh" => req[p].tok \in oldTokens
                    /\ PastCheck(p) => p \in crossed

SessionInv ==
    /\ WellFormed
    /\ sessions \subseteq issued
    /\ oldTokens \subseteq issued
    /\ RevocationHolds
    /\ \A p \in Procs : Tracked(p)

\* Only request p moves, and no issued token comes back into the table.
OnlyMoves(p) ==
    /\ \A q \in Procs \ {p} : /\ req'[q] = req[q]
                              /\ q \in dead' => q \in dead
                              /\ q \in old' => q \in old
                              /\ q \in crossed => q \in crossed'
    /\ sessions' \cap issued \subseteq sessions
    /\ oldTokens \subseteq oldTokens'

\* A step of one handler does not spoil what is tracked of the others.
LEMMA OthersTracked ==
    ASSUME SessionInv, NEW p \in Procs, OnlyMoves(p)
    PROVE  \A q \in Procs \ {p} : Tracked(q)'
<1> SUFFICES ASSUME NEW q \in Procs \ {p} PROVE Tracked(q)'
  OBVIOUS
<1>1. Tracked(q) /\ Fits(q)
  BY DEF SessionInv, WellFormed
<1>2. /\ req'[q] = req[q]
      /\ q \in dead' => q \in dead
      /\ q \in old' => q \in old
      /\ q \in crossed => q \in crossed'
  BY DEF OnlyMoves
<1>3. req[q].op = "refresh" /\ req[q].tok \notin sessions =>
         req[q].tok \notin sessions'
  BY <1>1 DEF Fits, OnlyMoves
<1>4. req[q].tok \in oldTokens => req[q].tok \in oldTokens'
  BY DEF OnlyMoves
<1>5. PastCheck(q)' <=> PastCheck(q)
  BY <1>2 DEF PastCheck
<1> QED BY <1>1, <1>2, <1>3, <1>4, <1>5 DEF Tracked, At

\* A request that has ended is tracked.
LEMMA EndedTracked ==
    ASSUME NEW p \in Procs, req'[p] = NoRequest, p \notin dead', p \notin old'
    PROVE  Tracked(p)'
BY DEF Tracked, NoRequest, At

\* The table shrinks and nothing is issued.
LEMMA TableShrinks ==
    ASSUME SessionInv, sessions' \subseteq sessions,
           UNCHANGED <<issued, oldTokens, escaped>>
    PROVE  /\ (sessions \subseteq issued)'
           /\ (oldTokens \subseteq issued)'
           /\ RevocationHolds'
BY DEF SessionInv, RevocationHolds

\* Without sessions there is nothing to track.
LEMMA SessionInvInit == Init => SessionInv
<1> SUFFICES ASSUME Init PROVE SessionInv
  OBVIOUS
<1>1. \A p \in Procs : Tracked(p)
  BY DEF Init, Tracked, NoRequest, At
<1>2. sessions = {} /\ oldTokens = {}
  BY DEF Init
<1> QED BY <1>1, <1>2, WellFormedInit DEF SessionInv, RevocationHolds

\* Every statement of every handler keeps the session invariant.
LEMMA SessionInvStep == SessionInv /\ [Next]_vars => SessionInv'
<1> SUFFICES ASSUME SessionInv, [Next]_vars PROVE SessionInv'
  OBVIOUS
<1>0. /\ WellFormed /\ TypeOK /\ WellFormed'
      /\ \A p \in Procs : Tracked(p) /\ Fits(p)
  BY WellFormedStep DEF SessionInv, WellFormed
\* A request ends and issues nothing.
<1>a. ASSUME NEW p \in Procs, NEW s, NEW r \in Request, s = "none",
             Goto(p, r, s), Forget(p, s),
             sessions' \subseteq sessions, UNCHANGED <<issued, oldTokens, escaped>>
      PROVE  SessionInv'
  <2>1. /\ \A q \in Procs \ {p} : req'[q] = req[q]
        /\ req'[p] = NoRequest
    BY <1>0, <1>a, GotoMoves DEF TypeOK, Steps
  <2>2. OnlyMoves(p) /\ p \notin dead' /\ p \notin old'
    BY <1>a, <2>1 DEF OnlyMoves, Forget
  <2> QED BY <1>0, <1>a, <2>1, <2>2, OthersTracked, EndedTracked, TableShrinks
       DEF SessionInv
<1>b. ASSUME NEW p \in Procs, Fail(p),
             UNCHANGED <<sessions, issued, oldTokens, escaped>>
      PROVE  SessionInv'
  <2>1. NoRequest \in Request
    BY DEF NoRequest, Request, NoRow, Row, Steps
  <2> QED BY <1>a, <1>b, <2>1 DEF Fail
\* Request p moves on and issues nothing.
<1>c. ASSUME NEW p \in Procs, OnlyMoves(p), Tracked(p)',
             sessions' \subseteq sessions, UNCHANGED <<issued, oldTokens, escaped>>
      PROVE  SessionInv'
  BY <1>0, <1>c, OthersTracked, TableShrinks DEF SessionInv
\* Request p goes to step s, not past its check unless it was.
<1>d. ASSUME NEW p \in Procs, NEW r \in Request, NEW s \in Steps \ {"none"},
             Goto(p, r, s), Forget(p, s), p \notin dead, p \notin old,
             UNCHANGED <<sessions, issued, oldTokens, escaped>>
      PROVE  SessionInv'
  <2>1. /\ \A q \in Procs \ {p} : req'[q] = req[q]
        /\ req'[p].op = r.op /\ req'[p].step = s
    BY <1>0, <1>d, GotoMoves DEF TypeOK
  <2>2. UNCHANGED <<dead, old, crossed>>
    BY <1>d DEF Forget
  <2>3. OnlyMoves(p)
    BY <1>d, <2>1, <2>2 DEF OnlyMoves
  <2>4. Tracked(p)'
    BY <1>d, <2>1, <2>2 DEF Tracked, At
  <2> QED BY <1>c, <1>d, <2>3, <2>4
\* A request that is in none of the two sets.
<1>e. ASSUME NEW p \in Procs, req[p].op \notin Issuing
      PROVE  p \notin dead /\ p \notin old
  BY <1>0, <1>e DEF Tracked, Issuing
<1>f. ASSUME NEW p \in Procs, req[p].user = "none", req[p].op # "refresh"
      PROVE  p \notin dead /\ p \notin old
  BY <1>0, <1>f, NoneAssumption DEF Tracked
<1>1. ASSUME NEW p \in Procs, NEW op \in Ops, Begin(p, op) PROVE SessionInv'
  <2>1. p \notin dead /\ p \notin old
    BY <1>1, <1>e DEF Begin, Issuing
  <2>2. /\ \A q \in Procs \ {p} : req'[q] = req[q]
        /\ req'[p].op = op /\ op # "refresh"
    BY <1>0, <1>1 DEF Begin, TypeOK, NoRequest
  <2>3. UNCHANGED <<sessions, issued, oldTokens, escaped, dead, old, crossed>>
    BY <1>1 DEF Begin, dbVars, tokenVars, history
  <2>4. OnlyMoves(p) /\ Tracked(p)'
    BY <2>1, <2>2, <2>3 DEF OnlyMoves, Tracked, At
  <2> QED BY <1>c, <2>3, <2>4
<1>2. ASSUME NEW p \in Procs, NEW t \in Tokens, BeginRefresh(p, t)
      PROVE  SessionInv'
  <2>1. p \notin dead /\ p \notin old
    BY <1>2, <1>e DEF BeginRefresh, Issuing
  <2>2. /\ \A q \in Procs \ {p} : req'[q] = req[q]
        /\ req'[p].op = "refresh" /\ req'[p].step = "find"
        /\ req'[p].user = owner[t] /\ req'[p].tok = t
    BY <1>0, <1>2 DEF BeginRefresh, TypeOK, NoRequest
  <2>3. UNCHANGED <<sessions, issued, oldTokens, escaped, crossed>>
    BY <1>2 DEF BeginRefresh, dbVars, tokenVars
  <2>4. /\ dead' = IF t \in sessions THEN dead ELSE dead \cup {p}
        /\ old' = IF t \in oldTokens THEN old \cup {p} ELSE old
    BY <1>2 DEF BeginRefresh
  <2>5. OnlyMoves(p)
    BY <2>2, <2>3, <2>4 DEF OnlyMoves
  <2>6. owner[t] \in Users
    BY <1>0, <1>2 DEF BeginRefresh, WellFormed, OwnersExist, Registered
  <2>7. Tracked(p)'
    BY <2>1, <2>2, <2>3, <2>4, <2>6 DEF Tracked, At, PastCheck, Issuing
  <2> QED BY <1>c, <2>3, <2>5, <2>7
<1>3. ASSUME NEW p \in Procs, NEW t \in Tokens, BeginLogout(p, t)
      PROVE  SessionInv'
  <2>1. p \notin dead /\ p \notin old
    BY <1>3, <1>e DEF BeginLogout, Issuing
  <2>2. /\ \A q \in Procs \ {p} : req'[q] = req[q]
        /\ req'[p].op = "logout"
    BY <1>0, <1>3 DEF BeginLogout, TypeOK, NoRequest
  <2>3. UNCHANGED <<sessions, issued, oldTokens, escaped, dead, old, crossed>>
    BY <1>3 DEF BeginLogout, dbVars, tokenVars, history
  <2>4. OnlyMoves(p) /\ Tracked(p)'
    BY <2>1, <2>2, <2>3 DEF OnlyMoves, Tracked, At
  <2> QED BY <1>c, <2>3, <2>4
<1>4. ASSUME NEW p \in Procs, NEW m \in Mobiles, Insert(p, m)
      PROVE  SessionInv'
  <2>0. UNCHANGED <<sessions, issued, oldTokens, escaped>>
    BY <1>4 DEF Insert, tokenVars
  <2>1. CASE Fail(p)
    BY <1>b, <2>0, <2>1
  <2>2. ASSUME NEW u \in Users,
               Goto(p, [req[p] EXCEPT !.user = u], "reread"),
               Forget(p, "reread")
        PROVE  SessionInv'
    <3>1. p \notin dead /\ p \notin old
      BY <1>0, <1>4, <1>f DEF Insert, At, Fits
    <3>2. [req[p] EXCEPT !.user = u] \in Request
      BY <1>0 DEF TypeOK, Request
    <3> QED BY <1>d, <2>0, <2>2, <3>1, <3>2 DEF Steps
  <2> QED BY <1>4, <2>1, <2>2 DEF Insert
<1>5. ASSUME NEW p \in Procs, Reread(p) PROVE SessionInv'
  <2>1. UNCHANGED <<sessions, issued, oldTokens, escaped, dead, old, crossed>>
    BY <1>5 DEF Reread, dbVars, tokenVars, history
  <2>2. req[p].op = "register" /\ req[p].step = "reread" /\ Goto(p, req[p], "save")
    BY <1>5 DEF Reread, At
  <2>3. /\ \A q \in Procs \ {p} : req'[q] = req[q]
        /\ req'[p].op = "register" /\ req'[p].step = "save"
        /\ req'[p].user = req[p].user
    BY <1>0, <2>2, GotoMoves DEF TypeOK, Steps
  <2>4. OnlyMoves(p)
    BY <2>1, <2>3 DEF OnlyMoves
  <2>5. Tracked(p)'
    BY <1>0, <2>1, <2>2, <2>3 DEF Tracked, At, PastCheck
  <2> QED BY <1>c, <2>1, <2>4, <2>5
<1>6. ASSUME NEW p \in Procs, NEW m \in Mobiles, FindByMobile(p, m)
      PROVE  SessionInv'
  <2>0. UNCHANGED <<sessions, issued, oldTokens, escaped>>
    BY <1>6 DEF FindByMobile, dbVars, tokenVars
  <2>1. CASE Fail(p)
    BY <1>b, <2>0, <2>1
  <2>2. CASE ~Fail(p)
    <3>1. PICK u \in Registered :
             /\ Goto(p, [req[p] EXCEPT
                          !.user = u,
                          !.row = IF req[p].op = "reset" THEN users[u]
                                  ELSE NoRow], AfterFind[req[p].op])
             /\ Forget(p, AfterFind[req[p].op])
      BY <1>6, <2>2 DEF FindByMobile
    <3> DEFINE r == [req[p] EXCEPT !.user = u,
                                   !.row = IF req[p].op = "reset" THEN users[u]
                                           ELSE NoRow]
               s == AfterFind[req[p].op]
    <3>2. req[p].op \in {"loginPassword", "loginCode", "reset"} /\ req[p].step = "find"
      BY <1>6 DEF FindByMobile, At
    <3>3. r \in Request /\ r.op = req[p].op
      BY <1>0, <3>2 DEF TypeOK, Request, Registered, NoRow, Row
    <3>4. Goto(p, r, s) /\ Forget(p, s) /\ s \in Steps \ {"none"}
      BY <3>1, <3>2, Successors DEF AllOps
    <3> HIDE DEF r, s
    <3>5. p \notin dead /\ p \notin old
      BY <1>0, <1>e, <1>f, <3>2 DEF Fits, Issuing
    <3> QED BY <1>d, <2>0, <3>2, <3>3, <3>4, <3>5
  <2> QED BY <2>1, <2>2
<1>7. ASSUME NEW p \in Procs, FindById(p) PROVE SessionInv'
  <2>0. UNCHANGED <<sessions, issued, oldTokens, escaped>>
    BY <1>7 DEF FindById, dbVars, tokenVars
  <2>1. CASE Fail(p)
    BY <1>b, <2>0, <2>1
  <2>2. CASE ~Fail(p)
    <3>1. AfterFind["refresh"] = "check"
      BY DEF AfterFind, AllOps
    <3>2. Goto(p, req[p], "check") /\ UNCHANGED <<dead, old, crossed>>
          /\ req[p].op = "refresh" /\ req[p].step = "find"
      BY <1>7, <2>2, <3>1 DEF FindById, Forget, At
    <3>3. /\ \A q \in Procs \ {p} : req'[q] = req[q]
          /\ req'[p].op = req[p].op /\ req'[p].step = "check"
          /\ req'[p].user = req[p].user /\ req'[p].tok = req[p].tok
      BY <1>0, <3>2, GotoMoves DEF TypeOK, Steps
    <3>4. OnlyMoves(p)
      BY <2>0, <3>2, <3>3 DEF OnlyMoves
    <3>5. Tracked(p)'
      BY <1>0, <2>0, <3>2, <3>3 DEF Tracked, At, PastCheck
    <3> QED BY <1>c, <2>0, <3>4, <3>5
  <2> QED BY <2>1, <2>2
<1>8. ASSUME NEW p \in Procs, NEW u \in Users, FindByUUID(p, u)
      PROVE  SessionInv'
  <2>0. UNCHANGED <<sessions, issued, oldTokens, escaped>>
    BY <1>8 DEF FindByUUID, dbVars, tokenVars
  <2>1. CASE Fail(p)
    BY <1>b, <2>0, <2>1
  <2>2. CASE ~Fail(p)
    <3> DEFINE r == [req[p] EXCEPT !.user = u,
                                   !.row = IF req[p].op = "logoutAll" THEN NoRow
                                           ELSE users[u]]
               s == AfterFind[req[p].op]
    <3>1. Goto(p, r, s) /\ Forget(p, s) /\ req[p].op \in ByUUID
      BY <1>8, <2>2 DEF FindByUUID, At
    <3>2. r \in Request /\ r.op = req[p].op
      <4>1. NoRow \in Row /\ users[u] \in Row /\ req[p] \in Request
        BY <1>0 DEF TypeOK, NoRow, Row
      <4> QED BY <4>1 DEF Request
    <3>3. s \in Steps \ {"none"}
      BY <3>1, Successors DEF AllOps, ByUUID
    <3> HIDE DEF r, s
    <3>4. p \notin dead /\ p \notin old /\ req[p].op # "refresh"
      BY <1>e, <3>1 DEF ByUUID, Issuing
    <3> QED BY <1>d, <2>0, <3>1, <3>2, <3>3, <3>4
  <2> QED BY <2>1, <2>2
<1>9. ASSUME NEW p \in Procs, NEW n \in Names, NEW h \in Hashes, Update(p, n, h)
      PROVE  SessionInv'
  <2>0. UNCHANGED <<sessions, issued, oldTokens, escaped>>
    BY <1>9 DEF Update, tokenVars
  <2>1. CASE Fail(p)
    BY <1>b, <2>0, <2>1
  <2>2. CASE ~Fail(p)
    <3> DEFINE r == [req[p] EXCEPT !.row = NoRow]
               s == AfterUpdate[req[p].op]
    <3>1. Goto(p, r, s) /\ Forget(p, s)
      BY <1>9, <2>2 DEF Update
    <3>2. req[p].op \in {"reset", "update", "change", "delete", "disable", "enable"}
      BY <1>9 DEF Update, At
    <3>3. r \in Request /\ r.op = req[p].op
      BY <1>0 DEF TypeOK, Request, NoRow, Row
    <3>4. s \in Steps
      BY <3>2, Successors DEF AllOps
    <3> HIDE DEF r, s
    <3>5. p \notin dead /\ p \notin old /\ req[p].op # "refresh"
      BY <1>e, <3>2 DEF Issuing
    <3>6. CASE s = "none"
      BY <1>a, <2>0, <3>1, <3>3, <3>6
    <3>7. CASE s # "none"
      BY <1>d, <2>0, <3>1, <3>3, <3>4, <3>5, <3>7
    <3> QED BY <3>6, <3>7
  <2> QED BY <2>1, <2>2
<1>10. ASSUME NEW p \in Procs, CheckToken(p) PROVE SessionInv'
  <2>0. UNCHANGED <<sessions, issued, oldTokens, escaped>>
    BY <1>10 DEF CheckToken, dbVars, tokenVars
  <2>1. CASE Fail(p)
    BY <1>b, <2>0, <2>1
  <2>2. CASE ~Fail(p)
    <3>1. /\ Goto(p, req[p], "delete") /\ UNCHANGED <<dead, old>>
          /\ req[p].op = "refresh" /\ req[p].tok \in sessions
          /\ crossed' = IF req[p].tok \in escaped THEN crossed \cup {p}
                        ELSE crossed
      BY <1>10, <2>2 DEF CheckToken, At
    <3>2. /\ \A q \in Procs \ {p} : req'[q] = req[q]
          /\ req'[p].op = req[p].op /\ req'[p].step = "delete"
          /\ req'[p].user = req[p].user /\ req'[p].tok = req[p].tok
      BY <1>0, <3>1, GotoMoves DEF TypeOK, Steps
    <3>3. OnlyMoves(p)
      BY <2>0, <3>1, <3>2 DEF OnlyMoves
    <3>4. p \in old => p \in crossed'
      BY <1>0, <3>1 DEF Tracked, SessionInv, RevocationHolds
    <3>5. Tracked(p)'
      BY <1>0, <2>0, <3>1, <3>2, <3>4 DEF Tracked, At
    <3> QED BY <1>c, <2>0, <3>3, <3>5
  <2> QED BY <2>1, <2>2
\* RefreshToken goes from deleting the old token to storing the new one.
<1>g. ASSUME NEW p \in Procs, At(p, {"refresh"}, "delete"),
             Goto(p, req[p], "save"), Forget(p, "save"),
             sessions' \subseteq sessions,
             UNCHANGED <<issued, oldTokens, escaped>>
      PROVE  SessionInv'
  <2>1. /\ \A q \in Procs \ {p} : req'[q] = req[q]
        /\ req'[p].op = req[p].op /\ req'[p].step = "save"
        /\ req'[p].user = req[p].user /\ req'[p].tok = req[p].tok
    BY <1>0, <1>g, GotoMoves DEF TypeOK, Steps
  <2>2. UNCHANGED <<dead, old, crossed>>
    BY <1>g DEF Forget
  <2>3. OnlyMoves(p)
    BY <1>g, <2>1, <2>2 DEF OnlyMoves
  <2>4. Tracked(p)'
    BY <1>0, <1>g, <2>1, <2>2 DEF Tracked, At, PastCheck
  <2> QED BY <1>c, <1>g, <2>3, <2>4
<1>11. ASSUME NEW p \in Procs, DeleteToken(p) PROVE SessionInv'
  <2>0. /\ sessions' = sessions \ {req[p].tok}
        /\ UNCHANGED <<issued, oldTokens, escaped>>
    BY <1>11 DEF DeleteToken, tokenVars
  <2>1. CASE req[p].op = "refresh"
    BY <1>11, <1>g, <2>0, <2>1 DEF DeleteToken, At
  <2>2. CASE req[p].op # "refresh"
    <3>1. Goto(p, req[p], "none") /\ Forget(p, "none") /\ req[p] \in Request
      BY <1>0, <1>11, <2>2 DEF DeleteToken, TypeOK
    <3> QED BY <1>a, <2>0, <3>1
  <2> QED BY <2>1, <2>2
\* A token is issued, and stored or not.
<1>h. ASSUME NEW p \in Procs, NEW t \in Tokens, At(p, Issuing, "save"),
             Issue(p, t), Goto(p, req[p], "none"), Forget(p, "none"),
             sessions' \subseteq sessions \cup {t}
      PROVE  SessionInv'
  <2>1. /\ issued' = issued \cup {t} /\ t \notin issued
        /\ oldTokens' = IF p \in old THEN oldTokens \cup {t} ELSE oldTokens
        /\ escaped' = IF p \in crossed THEN escaped \cup {t} ELSE escaped
    BY <1>h DEF Issue
  <2>2. p \in old => p \in crossed
    BY <1>0, <1>h DEF Tracked, PastCheck, At, Issuing
  <2>3. /\ (sessions \subseteq issued)' /\ (oldTokens \subseteq issued)'
        /\ RevocationHolds'
    BY <1>h, <2>1, <2>2 DEF SessionInv, RevocationHolds
  <2>4. /\ \A q \in Procs \ {p} : req'[q] = req[q]
        /\ req'[p] = NoRequest
    BY <1>0, <1>h, GotoMoves DEF TypeOK, Steps
  <2>5. OnlyMoves(p) /\ p \notin dead' /\ p \notin old'
    BY <1>h, <2>1, <2>4 DEF OnlyMoves, Forget
  <2> QED BY <1>0, <2>3, <2>4, <2>5, OthersTracked, EndedTracked DEF SessionInv
<1>12. ASSUME NEW p \in Procs, NEW t \in Tokens, SaveToken(p, t) PROVE SessionInv'
  BY <1>12, <1>h DEF SaveToken
<1>13. ASSUME NEW p \in Procs, NEW t \in Tokens, IgnoredSaveFault(p, t)
       PROVE  SessionInv'
  BY <1>13, <1>h DEF IgnoredSaveFault, dbVars
<1>14. ASSUME NEW p \in Procs, Revoke(p) PROVE SessionInv'
  <2> DEFINE u == req[p].user
             s == AfterRevoke[req[p].op]
  <2>1. /\ req[p].op \in {"reset", "delete", "disable", "logoutAll"}
        /\ req[p].step = "revoke"
        /\ sessions' = {t \in sessions : owner[t] # u}
        /\ oldTokens' = oldTokens \cup {t \in issued : owner[t] = u}
        /\ Goto(p, req[p], s)
        /\ dead' \subseteq dead
        /\ old' = (old \cup {q \in Procs : req[q].op \in Issuing
                                            /\ req[q].user = u}) \ {p}
        /\ crossed' = (crossed \cup {q \in Procs : PastCheck(q)
                                               /\ req[q].user = u}) \ {p}
        /\ UNCHANGED <<issued, owner, escaped>>
    BY <1>14 DEF Revoke, At, tokenVars
  <2>2. s \in Steps /\ u \in Users
    BY <1>0, <2>1, Successors DEF AllOps, Fits, Registered
  <2>3. p \notin dead /\ p \notin old
    BY <1>e, <2>1 DEF Issuing
  <2> HIDE DEF s
  <2>4. /\ \A q \in Procs \ {p} : req'[q] = req[q]
        /\ s = "none" => req'[p] = NoRequest
        /\ s # "none" => req'[p].op = req[p].op
    BY <1>0, <2>1, <2>2, GotoMoves DEF TypeOK
  <2>5. Tracked(p)'
    <3>1. req'[p].op # "refresh"
      BY <2>1, <2>4 DEF NoRequest
    <3> QED BY <2>1, <2>3, <3>1 DEF Tracked, At
  <2>6. ASSUME NEW q \in Procs \ {p} PROVE Tracked(q)'
    <3>1. req'[q] = req[q] /\ Tracked(q) /\ Fits(q)
      BY <1>0, <2>4
    <3>2. PastCheck(q)' <=> PastCheck(q)
      BY <3>1 DEF PastCheck
    <3>3. CASE q \in old \/ q \notin old'
      BY <2>1, <3>1, <3>2, <3>3 DEF Tracked, At
    <3>4. CASE q \in old' /\ q \notin old
      <4>1. req[q].op \in Issuing /\ req[q].user = u
        BY <2>1, <3>4
      <4>2. PastCheck(q) => q \in crossed'
        BY <2>1, <4>1
      <4>3. req[q].op = "refresh" => req[q].tok \in oldTokens'
        BY <2>1, <3>1, <4>1 DEF Fits
      <4> QED BY <2>1, <2>2, <3>1, <3>2, <4>1, <4>2, <4>3 DEF Tracked, At
    <3> QED BY <3>3, <3>4
  <2>7. /\ (sessions \subseteq issued)' /\ (oldTokens \subseteq issued)'
        /\ RevocationHolds'
    BY <2>1 DEF SessionInv, RevocationHolds
  <2> QED BY <1>0, <2>5, <2>6, <2>7 DEF SessionInv
<1>15. ASSUME NEW p \in Procs, FatalFault(p) PROVE SessionInv'
  BY <1>15, <1>b DEF FatalFault, dbVars, tokenVars
<1>16. ASSUME NEW p \in Procs, IgnoredDeleteFault(p) PROVE SessionInv'
  <2>0. UNCHANGED <<sessions, issued, oldTokens, escaped>> /\ req[p] \in Request
    BY <1>0, <1>16 DEF IgnoredDeleteFault, dbVars, tokenVars, TypeOK
  <2>1. CASE req[p].step = "delete" /\ req[p].op = "refresh"
    BY <1>16, <1>g, <2>0, <2>1 DEF IgnoredDeleteFault, At
  <2>2. CASE req[p].step = "delete" /\ req[p].op # "refresh"
    <3>1. Goto(p, req[p], "none") /\ Forget(p, "none")
      BY <1>16, <2>2 DEF IgnoredDeleteFault
    <3> QED BY <1>a, <2>0, <3>1
  <2>3. CASE req[p].step = "revoke"
    <3> DEFINE s == AfterRevoke[req[p].op]
    <3>1. Goto(p, req[p], s) /\ Forget(p, s)
      BY <1>16, <2>3 DEF IgnoredDeleteFault
    <3>2. req[p].op \in AllOps /\ req[p].op # "refresh"
      BY <1>0, <2>3 DEF Fits, TypeOK, Request
    <3>3. s \in Steps
      BY <3>2, Successors
    <3> HIDE DEF s
    <3>4. CASE s = "none"
      BY <1>a, <2>0, <3>1, <3>4
    <3>5. CASE s # "none"
      <4>1. /\ \A q \in Procs \ {p} : req'[q] = req[q]
            /\ req'[p].op = req[p].op /\ req'[p].step = s
            /\ req'[p].user = req[p].user
        BY <1>0, <3>1, <3>3, <3>5, GotoMoves DEF TypeOK
      <4>2. UNCHANGED <<dead, old, crossed>>
        BY <3>1, <3>5 DEF Forget
      <4>3. OnlyMoves(p)
        BY <2>0, <4>1, <4>2 DEF OnlyMoves
      <4>4. s = "update"
        BY <3>2, <3>5 DEF AfterRevoke, s
      <4>5. ~PastCheck(p)'
        BY <4>1, <4>4 DEF PastCheck
      <4>6. Tracked(p)'
        BY <1>0, <3>2, <4>1, <4>2, <4>5 DEF Tracked, At
      <4> QED BY <1>c, <2>0, <4>3, <4>6
    <3> QED BY <3>4, <3>5
  <2> QED BY <1>16, <2>1, <2>2, <2>3 DEF IgnoredDeleteFault
\* No request moves; the table may shrink.
<1>i. ASSUME UNCHANGED <<issued, req, history>>, sessions' \subseteq sessions
      PROVE  SessionInv'
  <2>1. UNCHANGED <<dead, old, crossed, oldTokens, escaped>>
    BY <1>i DEF history
  <2>2. \A q \in Procs : Tracked(q)'
    BY <1>0, <1>i, <2>1 DEF Tracked, At, PastCheck
  <2> QED BY <1>0, <1>i, <2>1, <2>2, TableShrinks DEF SessionInv
<1>17. ASSUME NEW t \in Tokens, Expire(t) PROVE SessionInv'
  BY <1>17, <1>i DEF Expire
<1>18. CASE CleanExpired
  BY <1>18, <1>i DEF CleanExpired, tokenVars
<1>19. CASE UNCHANGED vars
  BY <1>19, <1>i DEF vars, history
<1> QED BY <1>1, <1>2, <1>3, <1>4, <1>5, <1>6, <1>7, <1>8, <1>9, <1>10, <1>11,
     <1>12, <1>13, <1>14, <1>15, <1>16, <1>17, <1>18, <1>19 DEF Next

\* RefreshToken never succeeds for a token that was gone from user_sessions
\* when the request arrived.
THEOREM DeadTokensStayDead == Spec => []DeadTokenRejected
<1>1. SessionInv => DeadTokenRejected
  <2> SUFFICES ASSUME SessionInv, NEW p \in dead, req[p].op = "refresh"
               PROVE  ~PastCheck(p)
    BY DEF DeadTokenRejected
  <2>1. p \in Procs /\ Tracked(p)
    BY DEF SessionInv, WellFormed, TypeOK
  <2> QED BY <2>1 DEF Tracked, PastCheck
<1> QED BY <1>1, SessionInvInit, SessionInvStep, PTL DEF Spec

\* A session that survives ResetPassword, DeleteUser, SetUserDisabled or
\* LogoutAll was stored by a request that was past its check when the DELETE
\* ran, or refreshed from such a session: whatever statements fail.
THEOREM RevocationIsComplete == Spec => []RevocationHolds
<1>1. SessionInv => RevocationHolds
  BY DEF SessionInv
<1> QED BY <1>1, SessionInvInit, SessionInvStep, PTL DEF Spec

-----------------------------------------------------------------------------
(* Rotation.  While a token is a session, every refresh it was accepted    *)
(* for is still before its DELETE; the DELETE ends that for good, because  *)
(* a token is stored only when it is issued.                               *)

Waiting(p, t) == At(p, {"refresh"}, "delete") /\ req[p].tok = t

Deleting(t) == {p \in Procs : Waiting(p, t)}

RotationInv ==
    \A t \in Tokens : /\ t \notin issued => refreshes[t] = 0
                      /\ t \in sessions => refreshes[t] <= Cardinality(Deleting(t))
                      /\ refreshes[t] <= Cardinality(Procs)

\* Sets of threads are finite, and no larger than Procs.
LEMMA DeletingSize ==
    ASSUME NEW t
    PROVE  /\ IsFiniteSet(Deleting(t)) /\ Cardinality(Deleting(t)) \in Nat
           /\ Cardinality(Deleting(t)') \in Nat /\ Cardinality(Procs) \in Nat
           /\ Cardinality(Deleting(t)') <= Cardinality(Procs)
<1>1. Deleting(t) \subseteq Procs /\ Deleting(t)' \subseteq Procs
  BY DEF Deleting
<1> QED BY <1>1, ProcsAssumption, FS_Subset, FS_CardinalityType

\* A request that neither was about to delete its token nor is now.
LEMMA QuietMove ==
    ASSUME TypeOK, NEW p \in Procs, NEW r \in Request, NEW s \in Steps, Goto(p, r, s),
           ~At(p, {"refresh"}, "delete"), ~(r.op = "refresh" /\ s = "delete")
    PROVE  \A q \in Procs, t \in Tokens : Waiting(q, t)' <=> Waiting(q, t)
<1>1. /\ \A q \in Procs \ {p} : req'[q] = req[q]
      /\ s = "none" => req'[p] = NoRequest
      /\ s # "none" => req'[p].op = r.op /\ req'[p].step = s
  BY GotoMoves DEF TypeOK
<1>2. ~At(p, {"refresh"}, "delete")'
  BY <1>1 DEF At, NoRequest
<1> QED BY <1>1, <1>2 DEF Waiting, At

\* Steps at which no refresh is accepted and none deletes its token.
LEMMA QuietRotation ==
    ASSUME SessionInv, RotationInv, UNCHANGED refreshes,
           issued \subseteq issued', sessions' \cap issued \subseteq sessions,
           \A q \in Procs, t \in Tokens : Waiting(q, t)' <=> Waiting(q, t)
    PROVE  RotationInv'
<1> SUFFICES ASSUME NEW t \in Tokens
             PROVE  /\ t \notin issued' => refreshes'[t] = 0
                    /\ t \in sessions' => refreshes'[t] <= Cardinality(Deleting(t)')
                    /\ refreshes'[t] <= Cardinality(Procs)
  BY DEF RotationInv
<1>1. Deleting(t)' = Deleting(t)
  BY DEF Deleting
<1> QED BY <1>1, DeletingSize DEF RotationInv

\* Every statement of every handler keeps the bound.
LEMMA RotationStep == SessionInv /\ RotationInv /\ [Next]_vars => RotationInv'
<1> SUFFICES ASSUME SessionInv, RotationInv, [Next]_vars PROVE RotationInv'
  OBVIOUS
<1>0. /\ WellFormed /\ TypeOK /\ sessions \subseteq issued
      /\ req \in [Procs -> Request] /\ NoRequest \in Request
      /\ refreshes \in [Tokens -> Nat]
      /\ \A p \in Procs : Fits(p) /\ req[p] \in Request
  BY DEF SessionInv, WellFormed, TypeOK, NoRequest, Request, NoRow, Row, Steps
\* A request goes on and no token is stored or accepted.
<1>a. ASSUME NEW p \in Procs, NEW r \in Request, NEW s \in Steps, Goto(p, r, s),
             ~At(p, {"refresh"}, "delete"), ~(r.op = "refresh" /\ s = "delete"),
             issued \subseteq issued', sessions' \cap issued \subseteq sessions,
             UNCHANGED refreshes
      PROVE  RotationInv'
  BY <1>0, <1>a, QuietMove, QuietRotation
\* A request ends.
<1>b. ASSUME NEW p \in Procs, NEW r \in Request, Goto(p, r, "none"),
             ~At(p, {"refresh"}, "delete"),
             issued \subseteq issued', sessions' \cap issued \subseteq sessions,
             UNCHANGED refreshes
      PROVE  RotationInv'
  BY <1>a, <1>b DEF Steps
\* A request ends with an error.
<1>c. ASSUME NEW p \in Procs, Fail(p), ~At(p, {"refresh"}, "delete"),
             UNCHANGED <<issued, sessions, refreshes>>
      PROVE  RotationInv'
  BY <1>0, <1>b, <1>c DEF Fail
\* A request arrives.
<1>d. ASSUME NEW p \in Procs, NEW r \in Request, req[p].op = "none",
             req' = [req EXCEPT ![p] = r], ~(r.op = "refresh" /\ r.step = "delete"),
             UNCHANGED <<issued, sessions, refreshes>>
      PROVE  RotationInv'
  <2>1. \A q \in Procs, t \in Tokens : Waiting(q, t)' <=> Waiting(q, t)
    BY <1>0, <1>d DEF Waiting, At
  <2> QED BY <1>d, <2>1, QuietRotation
<1>1. ASSUME NEW p \in Procs, NEW op \in Ops, Begin(p, op) PROVE RotationInv'
  <2>1. PICK s \in {"insert", "find"} :
           req' = [req EXCEPT ![p] = [NoRequest EXCEPT !.op = op, !.step = s]]
    BY <1>1 DEF Begin
  <2>2. [NoRequest EXCEPT !.op = op, !.step = s] \in Request
    BY <1>1, <2>1, OpsAssumption DEF NoRequest, Request, NoRow, Row, Steps
  <2> QED BY <1>1, <1>d, <2>1, <2>2 DEF Begin, dbVars, tokenVars, history, NoRequest
<1>2. ASSUME NEW p \in Procs, NEW t \in Tokens, BeginRefresh(p, t)
      PROVE  RotationInv'
  <2> DEFINE r == [NoRequest EXCEPT !.op = "refresh", !.step = "find",
                                    !.user = owner[t], !.tok = t]
  <2>1. r \in Request /\ r.step = "find"
    <3>1. owner[t] \in Users \cup {"none"}
      BY <1>0 DEF TypeOK
    <3> QED BY <3>1 DEF NoRequest, Request, NoRow, Row, Steps, AllOps
  <2> QED BY <1>2, <1>d, <2>1 DEF BeginRefresh, dbVars, tokenVars
<1>3. ASSUME NEW p \in Procs, NEW t \in Tokens, BeginLogout(p, t)
      PROVE  RotationInv'
  <2> DEFINE r == [NoRequest EXCEPT !.op = "logout", !.step = "delete", !.tok = t]
  <2>1. r \in Request /\ r.op = "logout"
    BY DEF NoRequest, Request, NoRow, Row, Steps, AllOps
  <2> QED BY <1>3, <1>d, <2>1 DEF BeginLogout, dbVars, tokenVars, history
<1>4. ASSUME NEW p \in Procs, NEW m \in Mobiles, Insert(p, m) PROVE RotationInv'
  <2>1. CASE Fail(p)
    BY <1>4, <1>c, <2>1 DEF Insert, At, tokenVars
  <2>2. ASSUME NEW u \in Users, Goto(p, [req[p] EXCEPT !.user = u], "reread")
        PROVE  RotationInv'
    <3>1. [req[p] EXCEPT !.user = u] \in Request
      BY <1>0 DEF Request
    <3> QED BY <1>4, <1>a, <2>2, <3>1 DEF Insert, At, tokenVars, Steps
  <2> QED BY <1>4, <2>1, <2>2 DEF Insert
<1>5. ASSUME NEW p \in Procs, Reread(p) PROVE RotationInv'
  BY <1>0, <1>5, <1>a DEF Reread, At, dbVars, tokenVars, history, Steps
<1>6. ASSUME NEW p \in Procs, NEW m \in Mobiles, FindByMobile(p, m)
      PROVE  RotationInv'
  <2>1. /\ UNCHANGED <<issued, sessions, refreshes>>
        /\ req[p].op \in {"loginPassword", "loginCode", "reset"}
        /\ ~At(p, {"refresh"}, "delete")
    BY <1>6 DEF FindByMobile, At, dbVars, tokenVars
  <2>2. CASE Fail(p)
    BY <1>c, <2>1, <2>2
  <2>3. CASE ~Fail(p)
    <3>1. PICK u \in Registered :
             Goto(p, [req[p] EXCEPT !.user = u,
                                    !.row = IF req[p].op = "reset" THEN users[u]
                                            ELSE NoRow], AfterFind[req[p].op])
      BY <1>6, <2>3 DEF FindByMobile
    <3> DEFINE r == [req[p] EXCEPT !.user = u,
                                   !.row = IF req[p].op = "reset" THEN users[u]
                                           ELSE NoRow]
               s == AfterFind[req[p].op]
    <3>2. r \in Request /\ r.op = req[p].op
      <4>1. NoRow \in Row /\ users[u] \in Row /\ req[p] \in Request /\ u \in Users
        BY <1>0 DEF TypeOK, Registered, NoRow, Row
      <4> QED BY <4>1 DEF Request
    <3>3. Goto(p, r, s) /\ s \in Steps
      BY <2>1, <3>1, Successors DEF AllOps
    <3> HIDE DEF r, s
    <3> QED BY <1>a, <2>1, <3>2, <3>3
  <2> QED BY <2>2, <2>3
<1>7. ASSUME NEW p \in Procs, FindById(p) PROVE RotationInv'
  <2>1. UNCHANGED <<issued, sessions, refreshes>> /\ ~At(p, {"refresh"}, "delete")
    BY <1>7 DEF FindById, At, dbVars, tokenVars
  <2>2. CASE Fail(p)
    BY <1>c, <2>1, <2>2
  <2>3. CASE ~Fail(p)
    <3>1. AfterFind["refresh"] = "check"
      BY DEF AfterFind, AllOps
    <3> QED BY <1>0, <1>7, <1>a, <2>1, <2>3, <3>1 DEF FindById, Steps
  <2> QED BY <2>2, <2>3
<1>8. ASSUME NEW p \in Procs, NEW u \in Users, FindByUUID(p, u)
      PROVE  RotationInv'
  <2>1. /\ UNCHANGED <<issued, sessions, refreshes>> /\ ~At(p, {"refresh"}, "delete")
        /\ req[p].op \in ByUUID /\ req[p].op # "refresh"
    BY <1>8 DEF FindByUUID, At, dbVars, tokenVars, ByUUID
  <2>2. CASE Fail(p)
    BY <1>c, <2>1, <2>2
  <2>3. CASE ~Fail(p)
    <3> DEFINE r == [req[p] EXCEPT !.user = u,
                                   !.row = IF req[p].op = "logoutAll" THEN NoRow
                                           ELSE users[u]]
               s == AfterFind[req[p].op]
    <3>1. r \in Request /\ r.op = req[p].op
      <4>1. NoRow \in Row /\ users[u] \in Row /\ req[p] \in Request
        BY <1>0 DEF TypeOK, NoRow, Row
      <4> QED BY <4>1 DEF Request
    <3>2. Goto(p, r, s) /\ s \in Steps
      BY <1>8, <2>1, <2>3, Successors DEF FindByUUID, AllOps, ByUUID
    <3> HIDE DEF r, s
    <3> QED BY <1>a, <2>1, <3>1, <3>2
  <2> QED BY <2>2, <2>3
<1>9. ASSUME NEW p \in Procs, NEW n \in Names, NEW h \in Hashes, Update(p, n, h)
      PROVE  RotationInv'
  <2>1. /\ UNCHANGED <<issued, sessions, refreshes>> /\ ~At(p, {"refresh"}, "delete")
        /\ req[p].op \in {"reset", "update", "change", "delete", "disable", "enable"}
    BY <1>9 DEF Update, At, tokenVars
  <2>2. CASE Fail(p)
    BY <1>c, <2>1, <2>2
  <2>3. CASE ~Fail(p)
    <3> DEFINE r == [req[p] EXCEPT !.row = NoRow]
               s == AfterUpdate[req[p].op]
    <3>1. r \in Request /\ r.op = req[p].op
      <4>1. NoRow \in Row /\ req[p] \in Request
        BY <1>0 DEF NoRow, Row
      <4> QED BY <4>1 DEF Request
    <3>2. Goto(p, r, s) /\ s \in Steps
      BY <1>9, <2>1, <2>3, Successors DEF Update, AllOps
    <3> HIDE DEF r, s
    <3> QED BY <1>a, <2>1, <3>1, <3>2
  <2> QED BY <2>2, <2>3
\* A token that is still a session is accepted once more.
<1>10. ASSUME NEW p \in Procs, CheckToken(p) PROVE RotationInv'
  <2>1. CASE req[p].tok \notin sessions \ stale
    BY <1>10, <1>c, <2>1 DEF CheckToken, At, dbVars, tokenVars
  <2>2. CASE req[p].tok \in sessions \ stale
    <3>0. PICK x \in Tokens : x = req[p].tok /\ x \in issued
      BY <1>0, <2>2 DEF TypeOK
    <3>1. /\ Goto(p, req[p], "delete") /\ req[p].op = "refresh" /\ req[p].step = "check"
          /\ refreshes' = [refreshes EXCEPT ![x] = @ + 1]
          /\ UNCHANGED <<sessions, issued>> /\ x \in sessions
      BY <1>10, <2>2, <3>0 DEF CheckToken, At, dbVars, tokenVars
    <3>2. /\ \A q \in Procs \ {p} : req'[q] = req[q]
          /\ req'[p].op = "refresh" /\ req'[p].step = "delete" /\ req'[p].tok = x
      BY <1>0, <3>0, <3>1, GotoMoves DEF Steps
    <3>3. /\ Deleting(x)' = Deleting(x) \cup {p} /\ p \notin Deleting(x)
          /\ \A t \in Tokens : t # x => Deleting(t)' = Deleting(t)
      BY <3>0, <3>1, <3>2 DEF Deleting, Waiting, At
    <3>4. Cardinality(Deleting(x)') = Cardinality(Deleting(x)) + 1
      BY <3>3, DeletingSize, FS_AddElement
    <3>5. /\ x \in Tokens /\ x \in issued /\ refreshes'[x] = refreshes[x] + 1
          /\ \A t \in Tokens : t # x => refreshes'[t] = refreshes[t]
      BY <1>0, <3>0, <3>1 DEF TypeOK
    <3>6. /\ refreshes'[x] <= Cardinality(Deleting(x)')
          /\ refreshes'[x] <= Cardinality(Procs)
      BY <1>0, <3>1, <3>4, <3>5, DeletingSize DEF RotationInv
    <3>7. ASSUME NEW t \in Tokens
          PROVE  /\ t \notin issued' => refreshes'[t] = 0
                 /\ t \in sessions' => refreshes'[t] <= Cardinality(Deleting(t)')
                 /\ refreshes'[t] <= Cardinality(Procs)
      <4>1. CASE t = x BY <3>1, <3>5, <3>6, <4>1
      <4>2. CASE t # x BY <3>1, <3>3, <3>5, <4>2 DEF RotationInv
      <4> QED BY <4>1, <4>2
    <3> QED BY <3>7 DEF RotationInv
  <2> QED BY <2>1, <2>2
\* A refresh leaves its DELETE behind, with its token gone or the count reset.
<1>e. ASSUME NEW p \in Procs, At(p, {"refresh"}, "delete"), Goto(p, req[p], "save"),
             sessions' \subseteq sessions, UNCHANGED issued,
             \/ refreshes' = refreshes /\ req[p].tok \notin sessions'
             \/ refreshes' = [refreshes EXCEPT ![req[p].tok] = 0]
      PROVE  RotationInv'
  <2> DEFINE x == req[p].tok
  <2>1. /\ \A q \in Procs \ {p} : req'[q] = req[q]
        /\ req'[p].op = "refresh" /\ req'[p].step = "save"
    BY <1>0, <1>e, GotoMoves DEF At, Steps
  <2>2. \A t \in Tokens : t # x => Deleting(t)' = Deleting(t)
    BY <2>1 DEF Deleting, Waiting, At
  <2>3. /\ \A t \in Tokens : t # x => refreshes'[t] = refreshes[t]
        /\ x \notin sessions' \/ refreshes'[x] = 0
        /\ x \in Tokens => refreshes'[x] = refreshes[x] \/ refreshes'[x] = 0
    BY <1>0, <1>e DEF Fits, At, TypeOK
  <2> HIDE DEF x
  <2>4. ASSUME NEW t \in Tokens
        PROVE  /\ t \notin issued' => refreshes'[t] = 0
               /\ t \in sessions' => refreshes'[t] <= Cardinality(Deleting(t)')
               /\ refreshes'[t] <= Cardinality(Procs)
    <3>1. CASE t = x
      <4>1. /\ t \notin issued => refreshes[t] = 0
            /\ refreshes[t] <= Cardinality(Procs)
            /\ refreshes'[t] = refreshes[t] \/ refreshes'[t] = 0
            /\ t \notin sessions' \/ refreshes'[t] = 0
            /\ issued' = issued
        BY <1>e, <2>3, <3>1 DEF RotationInv
      <4>2. Cardinality(Procs) \in Nat
        BY ProcsAssumption, FS_CardinalityType
      <4>3. Cardinality(Deleting(t)') \in Nat
        BY DeletingSize
      <4>4. refreshes'[t] <= Cardinality(Procs)
        BY <4>1, <4>2
      <4>5. t \in sessions' => refreshes'[t] <= Cardinality(Deleting(t)')
        <5> DEFINE d == Cardinality(Deleting(t)')
        <5>1. d \in Nat
          BY <4>3
        <5> HIDE DEF d
        <5>2. t \in sessions' => refreshes'[t] <= d
          BY <4>1, <5>1
        <5> QED BY <5>2 DEF d
      <4>6. t \notin issued' => refreshes'[t] = 0
        BY <4>1
      <4> QED BY <4>4, <4>5, <4>6
    <3>2. CASE t # x BY <1>e, <2>2, <2>3, <3>2 DEF RotationInv
    <3> QED BY <3>1, <3>2
  <2> QED BY <2>4 DEF RotationInv
<1>11. ASSUME NEW p \in Procs, DeleteToken(p) PROVE RotationInv'
  <2>1. CASE req[p].op = "refresh"
    BY <1>11, <1>e, <2>1 DEF DeleteToken, At, tokenVars
  <2>2. CASE req[p].op # "refresh"
    BY <1>0, <1>11, <1>b, <2>2 DEF DeleteToken, At, tokenVars
  <2> QED BY <2>1, <2>2
<1>12. ASSUME NEW p \in Procs, NEW t \in Tokens,
              SaveToken(p, t) \/ IgnoredSaveFault(p, t)
       PROVE  RotationInv'
  <2>1. /\ Goto(p, req[p], "none") /\ ~At(p, {"refresh"}, "delete")
        /\ issued' = issued \cup {t} /\ t \notin issued
        /\ sessions' \subseteq sessions \cup {t} /\ UNCHANGED refreshes
    BY <1>12 DEF SaveToken, IgnoredSaveFault, Issue, At, dbVars
  <2> QED BY <1>0, <1>b, <2>1
<1>13. ASSUME NEW p \in Procs, Revoke(p) PROVE RotationInv'
  <2>1. /\ Goto(p, req[p], AfterRevoke[req[p].op]) /\ ~At(p, {"refresh"}, "delete")
        /\ req[p].op \in {"reset", "delete", "disable", "logoutAll"}
        /\ UNCHANGED <<issued, refreshes>> /\ sessions' \subseteq sessions
    BY <1>13 DEF Revoke, At, tokenVars
  <2>2. AfterRevoke[req[p].op] \in Steps
    BY <2>1, Successors DEF AllOps
  <2> QED BY <1>0, <1>a, <2>1, <2>2
<1>14. ASSUME NEW p \in Procs, FatalFault(p) PROVE RotationInv'
  BY <1>14, <1>c DEF FatalFault, At, dbVars, tokenVars
<1>15. ASSUME NEW p \in Procs, IgnoredDeleteFault(p) PROVE RotationInv'
  <2>1. UNCHANGED <<issued, sessions>> /\ req[p].step \in {"delete", "revoke"}
    BY <1>15 DEF IgnoredDeleteFault, dbVars, tokenVars
  <2>2. CASE req[p].step = "delete" /\ req[p].op = "refresh"
    BY <1>15, <1>e, <2>1, <2>2 DEF IgnoredDeleteFault, At
  <2>3. CASE req[p].step = "delete" /\ req[p].op # "refresh"
    BY <1>0, <1>15, <1>b, <2>1, <2>3 DEF IgnoredDeleteFault, At
  <2>4. CASE req[p].step = "revoke"
    <3>1. req[p].op \in AllOps /\ req[p].op # "refresh"
      BY <1>0, <2>4 DEF Fits, Request
    <3>2. AfterRevoke[req[p].op] \in Steps
      BY <3>1, Successors
    <3>3. /\ Goto(p, req[p], AfterRevoke[req[p].op]) /\ UNCHANGED refreshes
          /\ ~At(p, {"refresh"}, "delete")
      BY <1>15, <2>4 DEF IgnoredDeleteFault, At
    <3> QED BY <1>0, <1>a, <2>1, <3>1, <3>2, <3>3
  <2> QED BY <2>1, <2>2, <2>3, <2>4
\* No request moves.
<1>f. ASSUME UNCHANGED <<issued, req, refreshes>>, sessions' \subseteq sessions
      PROVE  RotationInv'
  <2>1. \A q \in Procs, t \in Tokens : Waiting(q, t)' <=> Waiting(q, t)
    BY <1>f DEF Waiting, At
  <2> QED BY <1>f, <2>1, QuietRotation
<1>16. ASSUME NEW t \in Tokens, Expire(t) PROVE RotationInv'
  BY <1>16, <1>f DEF Expire, history
<1>17. CASE CleanExpired
  BY <1>17, <1>f DEF CleanExpired, tokenVars, history
<1>18. CASE UNCHANGED vars
  BY <1>18, <1>f DEF vars
<1> QED BY <1>1, <1>2, <1>3, <1>4, <1>5, <1>6, <1>7, <1>8, <1>9, <1>10, <1>11,
     <1>12, <1>13, <1>14, <1>15, <1>16, <1>17, <1>18 DEF Next

\* One refresh token is accepted at most once by each request thread, for any
\* number of threads and requests and whatever statements fail; after a
\* failed DELETE of the token the count starts again.
THEOREM RotationIsBounded == Spec => []RefreshesBounded
<1>1. Init => RotationInv
  <2> SUFFICES ASSUME Init, NEW t \in Tokens
               PROVE  /\ refreshes[t] = 0 /\ t \notin sessions
                      /\ refreshes[t] <= Cardinality(Procs)
    BY DEF RotationInv
  <2> QED BY DeletingSize DEF Init
<1>2. RotationInv => RefreshesBounded
  BY DEF RotationInv, RefreshesBounded
<1> QED BY <1>1, <1>2, SessionInvInit, SessionInvStep, RotationStep, PTL DEF Spec
=============================================================================
