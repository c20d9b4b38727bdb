-------------------------- MODULE LoginGuard_proofs --------------------------
(* Proofs about LoginGuard, for any number of request threads and any      *)
(* value of max_failed_attempts.                                           *)
EXTENDS LoginGuard, FiniteSetTheorems, TLAPS

\* Requests that were let past the check and have not counted yet.
InFlight == {p \in Procs : step[p] \in {"verify", "incr"}}

\* Both sets are finite, one inside the other, inside Procs.
LEMMA SetSizes ==
    /\ IsFiniteSet(Counting) /\ Cardinality(Counting) \in Nat
    /\ IsFiniteSet(InFlight) /\ Cardinality(InFlight) \in Nat
    /\ Cardinality(Procs) \in Nat
    /\ Cardinality(Counting) <= Cardinality(InFlight)
    /\ Cardinality(InFlight) <= Cardinality(Procs)
<1>1. Counting \subseteq InFlight /\ InFlight \subseteq Procs
  BY DEF Counting, InFlight
<1> QED BY <1>1, ProcsAssumption, FS_Subset, FS_CardinalityType

\* How one request's move changes the size of Counting.
LEMMA CountingMoves ==
    ASSUME step \in [Procs -> Steps], NEW p \in Procs, NEW s \in Steps, Goto(p, s)
    PROVE  /\ step[p] # "incr" /\ s = "incr" =>
                Cardinality(Counting') = Cardinality(Counting) + 1
           /\ step[p] = "incr" /\ s # "incr" =>
                Cardinality(Counting') = Cardinality(Counting) - 1
           /\ step[p] # "incr" /\ s # "incr" => Counting' = Counting
<1>1. CASE step[p] # "incr" /\ s = "incr"
  <2>1. Counting' = Counting \cup {p} /\ p \notin Counting
    BY <1>1 DEF Counting, Goto
  <2> QED BY <1>1, <2>1, SetSizes, FS_AddElement
<1>2. CASE step[p] = "incr" /\ s # "incr"
  <2>1. Counting' = Counting \ {p} /\ p \in Counting
    BY <1>2 DEF Counting, Goto
  <2> QED BY <1>2, <2>1, SetSizes, FS_RemoveElement
<1>3. CASE step[p] # "incr" /\ s # "incr"
  <2>1. Counting' = Counting
    BY <1>3 DEF Counting, Goto
  <2> QED BY <1>3, <2>1
<1>4. CASE step[p] = "incr" /\ s = "incr"
  BY <1>4
<1> QED BY <1>1, <1>2, <1>3, <1>4

\* The same for InFlight.
LEMMA InFlightMoves ==
    ASSUME step \in [Procs -> Steps], NEW p \in Procs, NEW s \in Steps, Goto(p, s)
    PROVE  /\ step[p] \in {"verify", "incr"} /\ s \notin {"verify", "incr"} =>
                Cardinality(InFlight') = Cardinality(InFlight) - 1
           /\ step[p] \notin {"verify", "incr"} /\ s \notin {"verify", "incr"} =>
                InFlight' = InFlight
           /\ step[p] \in {"verify", "incr"} /\ s \in {"verify", "incr"} =>
                InFlight' = InFlight
<1>1. CASE step[p] \in {"verify", "incr"} /\ s \notin {"verify", "incr"}
  <2>1. InFlight' = InFlight \ {p} /\ p \in InFlight
    BY <1>1 DEF InFlight, Goto
  <2> QED BY <1>1, <2>1, SetSizes, FS_RemoveElement
<1>2. CASE ~(step[p] \in {"verify", "incr"} /\ s \notin {"verify", "incr"})
  BY <1>2 DEF InFlight, Goto
<1> QED BY <1>1, <1>2

-----------------------------------------------------------------------------
\* The variables keep their types: the counter and the history stay natural
\* numbers, a request is always before one of its commands.
THEOREM TypeCorrect == Spec => []TypeOK
<1>1. Init => TypeOK
  BY DEF Init, TypeOK, Steps
<1>2. TypeOK /\ [Next]_vars => TypeOK'
  <2> SUFFICES ASSUME TypeOK, [Next]_vars PROVE TypeOK'
    OBVIOUS
  <2> USE SetSizes DEF TypeOK, Goto, Steps
  <2>1. ASSUME NEW p \in Procs, NEW s \in {"check", "clear"}, Begin(p, s)
        PROVE  TypeOK'
    BY <2>1 DEF Begin
  <2>2. ASSUME NEW p \in Procs, Serve(p) PROVE TypeOK'
    <3>1. CASE Check(p) BY <3>1 DEF Check
    <3>2. ASSUME NEW answer \in {"right", "wrong", "refused"}, Verify(p, answer)
          PROVE  TypeOK'
      BY <3>2 DEF Verify
    <3>3. CASE Clear(p) BY <3>3 DEF Clear, Vanish
    <3>4. CASE Incr(p) BY <3>4 DEF Incr
    <3>5. CASE ReadTtl(p) BY <3>5 DEF ReadTtl
    <3>6. CASE SetWindow(p) BY <3>6 DEF SetWindow, PExpire
    <3>7. CASE SetLock(p) BY <3>7 DEF SetLock, PExpire
    <3>8. CASE CommandFails(p) BY <3>8 DEF CommandFails, Failing
    <3>9. CASE IncrReplyLost(p) BY <3>9 DEF IncrReplyLost
    <3> QED BY <2>2, <3>1, <3>2, <3>3, <3>4, <3>5, <3>6, <3>7, <3>8, <3>9 DEF Serve
  <2>3. ASSUME NEW p \in Procs, Crash(p) PROVE TypeOK'
    BY <2>3 DEF Crash, Failing
  <2>4. CASE Expire BY <2>4 DEF Expire, Vanish
  <2>5. CASE UNCHANGED vars BY <2>5 DEF vars
  <2> QED BY <2>1, <2>2, <2>3, <2>4, <2>5 DEF Next
<1> QED BY <1>1, <1>2, PTL DEF Spec

-----------------------------------------------------------------------------
\* The counter never runs ahead of the wrong passwords examined, whichever
\* commands fail and whenever processes die.
THEOREM LocksAreEarned == Spec => []NoFalseLock
<1>1. Init => NoFalseLock
  <2> SUFFICES ASSUME Init PROVE NoFalseLock
    OBVIOUS
  <2>1. Counting = {}
    BY DEF Init, Counting
  <2> QED BY <2>1, FS_EmptySet DEF Init, NoFalseLock
<1>2. TypeOK /\ NoFalseLock /\ [Next]_vars => NoFalseLock'
  <2> SUFFICES ASSUME TypeOK, NoFalseLock, [Next]_vars PROVE NoFalseLock'
    OBVIOUS
  <2>0. /\ step \in [Procs -> Steps] /\ count \in Nat /\ tries \in Nat
        /\ Cardinality(Counting) \in Nat
        /\ count + Cardinality(Counting) <= tries
    BY SetSizes DEF TypeOK, NoFalseLock
  \* A move that neither counts nor examines.
  <2>a. ASSUME NEW p \in Procs, NEW s \in Steps, step[p] # "incr", s # "incr",
               Goto(p, s), UNCHANGED <<count, tries>>
        PROVE  NoFalseLock'
    BY <2>0, <2>a, CountingMoves DEF NoFalseLock
  \* A wrong password that is never counted.
  <2>b. ASSUME NEW p \in Procs, NEW s \in Steps, step[p] = "incr", s # "incr",
               Goto(p, s), UNCHANGED <<count, tries>>
        PROVE  NoFalseLock'
    <3>1. Cardinality(Counting') = Cardinality(Counting) - 1
      BY <2>0, <2>b, CountingMoves
    <3> QED BY <2>0, <2>b, <3>1 DEF NoFalseLock
  <2>1. ASSUME NEW p \in Procs, NEW s \in {"check", "clear"}, Begin(p, s)
        PROVE  NoFalseLock'
    BY <2>1, <2>a DEF Begin, Steps
  <2>2. ASSUME NEW p \in Procs, Serve(p) PROVE NoFalseLock'
    <3>1. CASE Check(p) BY <3>1, <2>a DEF Check, Steps
    <3>2. ASSUME NEW answer \in {"right", "wrong", "refused"}, Verify(p, answer)
          PROVE  NoFalseLock'
      <4>1. CASE answer = "wrong"
        <5>1. Cardinality(Counting') = Cardinality(Counting) + 1
          BY <2>0, <3>2, <4>1, CountingMoves DEF Verify, Steps
        <5> QED BY <2>0, <3>2, <4>1, <5>1 DEF Verify, NoFalseLock
      <4>2. CASE answer # "wrong" BY <3>2, <4>2, <2>a DEF Verify, Steps
      <4> QED BY <4>1, <4>2
    <3>3. CASE Clear(p)
      <4>1. Counting' = Counting
        BY <2>0, <3>3, CountingMoves DEF Clear, Steps
      <4> QED BY <2>0, <3>3, <4>1 DEF Clear, Vanish, NoFalseLock
    <3>4. CASE Incr(p)
      <4>1. Cardinality(Counting') = Cardinality(Counting) - 1
        <5>1. PICK s \in {"lock", "pttl", "idle"} : Goto(p, s)
          BY <3>4 DEF Incr
        <5> QED BY <2>0, <3>4, <5>1, CountingMoves DEF Incr, Steps
      <4> QED BY <2>0, <3>4, <4>1 DEF Incr, NoFalseLock
    <3>5. CASE ReadTtl(p) BY <3>5, <2>a DEF ReadTtl, Steps
    <3>6. CASE SetWindow(p) BY <3>6, <2>a DEF SetWindow, PExpire, Steps
    <3>7. CASE SetLock(p) BY <3>7, <2>a DEF SetLock, PExpire, Steps
    <3>8. CASE CommandFails(p)
      BY <3>8, <2>a, <2>b DEF CommandFails, Failing, Steps
    <3>9. CASE IncrReplyLost(p)
      <4>1. Cardinality(Counting') = Cardinality(Counting) - 1
        BY <2>0, <3>9, CountingMoves DEF IncrReplyLost, Steps
      <4> QED BY <2>0, <3>9, <4>1 DEF IncrReplyLost, NoFalseLock
    <3> QED BY <2>2, <3>1, <3>2, <3>3, <3>4, <3>5, <3>6, <3>7, <3>8, <3>9 DEF Serve
  <2>3. ASSUME NEW p \in Procs, Crash(p) PROVE NoFalseLock'
    BY <2>3, <2>a, <2>b DEF Crash, Failing, Steps
  <2>4. CASE Expire
    <3>1. Counting' = Counting
      BY <2>4 DEF Expire, Counting
    <3> QED BY <2>0, <2>4, <3>1 DEF Expire, Vanish, NoFalseLock
  <2>5. CASE UNCHANGED vars
    <3>1. Counting' = Counting
      BY <2>5 DEF vars, Counting
    <3> QED BY <2>0, <2>5, <3>1 DEF vars, NoFalseLock
  <2> QED BY <2>1, <2>2, <2>3, <2>4, <2>5 DEF Next
<1> QED BY <1>1, <1>2, TypeCorrect, PTL DEF Spec

-----------------------------------------------------------------------------
\* What has gone wrong is not forgotten.
LEMMA FailedGrows ==
    ASSUME [Next]_vars
    PROVE  failed \subseteq failed'
<1>1. ASSUME NEW p \in Procs, Serve(p) PROVE failed \subseteq failed'
  BY <1>1 DEF Serve, Check, Verify, Clear, Incr, ReadTtl, SetWindow, SetLock,
              PExpire, CommandFails, Failing, IncrReplyLost
<1>2. ASSUME NEW p \in Procs, Crash(p) PROVE failed \subseteq failed'
  BY <1>2 DEF Crash, Failing
<1>3. ASSUME NEW p \in Procs, NEW s \in {"check", "clear"}, Begin(p, s)
      PROVE  failed \subseteq failed'
  BY <1>3 DEF Begin
<1>4. CASE Expire
  BY <1>4 DEF Expire
<1>5. CASE UNCHANGED vars
  BY <1>5 DEF vars
<1> QED BY <1>1, <1>2, <1>3, <1>4, <1>5 DEF Next

-----------------------------------------------------------------------------
(* The bound on wrong passwords.  Every examined one is counted or about   *)
(* to be (Accounted); the counter and the requests in flight together stay *)
(* within the slack, because a request is let past the check only below    *)
(* MaxFailed (Slack).                                                      *)

Accounted == tries <= count + Cardinality(Counting)

Slack == count + Cardinality(InFlight) <= MaxFailed - 1 + Cardinality(Procs)

Counted == failed \cap {"get", "incr", "crash"} = {}

\* Until a GET fails, an INCR does not reach Redis or a process dies, at most
\* MaxFailed - 1 wrong passwords plus one for each request thread are
\* examined before the account locks, also when the reply to an INCR is lost.
THEOREM BoundOnTries == Spec => []TriesBounded
<1> DEFINE Inv == Counted => Accounted /\ Slack
<1>1. Init => Inv
  <2> SUFFICES ASSUME Init PROVE Accounted /\ Slack
    OBVIOUS
  <2>1. Counting = {} /\ InFlight = {}
    BY DEF Init, Counting, InFlight
  <2> QED BY <2>1, FS_EmptySet, SetSizes, MaxFailedAssumption
       DEF Init, Accounted, Slack
<1>2. TypeOK /\ Inv /\ [Next]_vars => Inv'
  <2> SUFFICES ASSUME TypeOK, Inv, [Next]_vars, Counted'
               PROVE  Accounted' /\ Slack'
    OBVIOUS
  <2>c. Counted
    BY FailedGrows DEF Counted
  <2>d. Accounted /\ Slack
    BY <2>c
  <2>0. /\ step \in [Procs -> Steps] /\ count \in Nat /\ tries \in Nat
        /\ Cardinality(Counting) \in Nat
        /\ Cardinality(InFlight) \in Nat
        /\ Cardinality(Procs) \in Nat
        /\ MaxFailed \in Nat
        /\ tries <= count + Cardinality(Counting)
        /\ count + Cardinality(InFlight) <= MaxFailed - 1 + Cardinality(Procs)
    BY <2>d, SetSizes, MaxFailedAssumption DEF TypeOK, Accounted, Slack
  \* A move among the steps outside InFlight.
  <2>a. ASSUME NEW p \in Procs, NEW s \in Steps \ {"verify", "incr"},
               step[p] \notin {"verify", "incr"},
               Goto(p, s), UNCHANGED <<count, tries>>
        PROVE  Accounted' /\ Slack'
    <3>1. Counting' = Counting /\ InFlight' = InFlight
      BY <2>0, <2>a, CountingMoves, InFlightMoves
    <3> QED BY <2>0, <2>a, <3>1 DEF Accounted, Slack
  <2>1. ASSUME NEW p \in Procs, NEW s \in {"check", "clear"}, Begin(p, s)
        PROVE  Accounted' /\ Slack'
    BY <2>1, <2>a DEF Begin, Steps
  <2>2. ASSUME NEW p \in Procs, Serve(p) PROVE Accounted' /\ Slack'
    <3>1. CASE Check(p)
      <4>1. CASE count >= MaxFailed
        BY <2>a, <3>1, <4>1 DEF Check, Steps
      <4>2. CASE ~(count >= MaxFailed)
        <5>1. Counting' = Counting
          BY <2>0, <3>1, <4>2, CountingMoves DEF Check, Steps
        <5>2. /\ Cardinality(InFlight') <= Cardinality(Procs)
              /\ Cardinality(InFlight') \in Nat
          <6>1. InFlight' \subseteq Procs
            BY DEF InFlight
          <6> QED BY <6>1, ProcsAssumption, FS_Subset, FS_CardinalityType
        <5> QED BY <2>0, <3>1, <4>2, <5>1, <5>2 DEF Check, Accounted, Slack
      <4> QED BY <4>1, <4>2
    <3>2. ASSUME NEW answer \in {"right", "wrong", "refused"}, Verify(p, answer)
          PROVE  Accounted' /\ Slack'
      <4>1. CASE answer = "wrong"
        <5>1. /\ Cardinality(Counting') = Cardinality(Counting) + 1
              /\ InFlight' = InFlight
          BY <2>0, <3>2, <4>1, CountingMoves, InFlightMoves DEF Verify, Steps
        <5> QED BY <2>0, <3>2, <4>1, <5>1 DEF Verify, Accounted, Slack
      <4>2. CASE answer # "wrong"
        <5>1. PICK s \in {"clear", "idle"} : Goto(p, s)
          BY <3>2, <4>2 DEF Verify
        <5>2. /\ Counting' = Counting
              /\ Cardinality(InFlight') = Cardinality(InFlight) - 1
          BY <2>0, <3>2, <5>1, CountingMoves, InFlightMoves DEF Verify, Steps
        <5> QED BY <2>0, <3>2, <4>2, <5>2 DEF Verify, Accounted, Slack
      <4> QED BY <4>1, <4>2
    <3>3. CASE Clear(p)
      <4>1. Counting' = Counting /\ InFlight' = InFlight
        BY <2>0, <3>3, CountingMoves, InFlightMoves DEF Clear, Steps
      <4> QED BY <2>0, <3>3, <4>1 DEF Clear, Vanish, Accounted, Slack
    <3>4. CASE Incr(p)
      <4>1. PICK s \in {"lock", "pttl", "idle"} : Goto(p, s)
        BY <3>4 DEF Incr
      <4>2. /\ Cardinality(Counting') = Cardinality(Counting) - 1
            /\ Cardinality(InFlight') = Cardinality(InFlight) - 1
        BY <2>0, <3>4, <4>1, CountingMoves, InFlightMoves DEF Incr, Steps
      <4> QED BY <2>0, <3>4, <4>2 DEF Incr, Accounted, Slack
    <3>5. CASE ReadTtl(p) BY <3>5, <2>a DEF ReadTtl, Steps
    <3>6. CASE SetWindow(p) BY <3>6, <2>a DEF SetWindow, PExpire, Steps
    <3>7. CASE SetLock(p) BY <3>7, <2>a DEF SetLock, PExpire, Steps
    <3>8. CASE CommandFails(p)
      BY <3>8, <2>a DEF CommandFails, Failing, Counted, Steps
    <3>9. CASE IncrReplyLost(p)
      <4>1. /\ Cardinality(Counting') = Cardinality(Counting) - 1
            /\ Cardinality(InFlight') = Cardinality(InFlight) - 1
        BY <2>0, <3>9, CountingMoves, InFlightMoves DEF IncrReplyLost, Steps
      <4> QED BY <2>0, <3>9, <4>1 DEF IncrReplyLost, Accounted, Slack
    <3> QED BY <2>2, <3>1, <3>2, <3>3, <3>4, <3>5, <3>6, <3>7, <3>8, <3>9 DEF Serve
  <2>3. ASSUME NEW p \in Procs, Crash(p) PROVE Accounted' /\ Slack'
    BY <2>3 DEF Crash, Failing, Counted
  <2>4. CASE Expire
    <3>1. Counting' = Counting /\ InFlight' = InFlight
      BY <2>4 DEF Expire, Counting, InFlight
    <3> QED BY <2>0, <2>4, <3>1 DEF Expire, Vanish, Accounted, Slack
  <2>5. CASE UNCHANGED vars
    <3>1. Counting' = Counting /\ InFlight' = InFlight
      BY <2>5 DEF vars, Counting, InFlight
    <3> QED BY <2>0, <2>5, <3>1 DEF vars, Accounted, Slack
  <2> QED BY <2>1, <2>2, <2>3, <2>4, <2>5 DEF Next
<1>3. TypeOK /\ Inv => TriesBounded
  BY SetSizes, MaxFailedAssumption
     DEF TypeOK, Accounted, Slack, TriesBounded, Counted
<1> QED BY <1>1, <1>2, <1>3, TypeCorrect, PTL DEF Spec

-----------------------------------------------------------------------------
\* Until a PEXPIRE fails, the reply to an INCR is lost or a process dies, a
\* counter without a time to live has a request that is about to set one: no
\* account stays locked for good, whatever the interleaving of INCR, PTTL,
\* PEXPIRE, DEL and expiry, and although INCRs, PTTLs and DELs fail.
THEOREM CounterOnItsWay == Spec => []CounterExpires
<1>1. Init => CounterExpires
  BY DEF Init, CounterExpires
<1>2. TypeOK /\ CounterExpires /\ [Next]_vars => CounterExpires'
  <2> SUFFICES ASSUME TypeOK, CounterExpires, [Next]_vars,
                      ~Broken',
                      count' > 0, ttl' = "none"
               PROVE  \E p \in Procs : step'[p] \in {"pttl", "window", "lock"}
    BY DEF CounterExpires
  <2>0. ~Broken
    BY FailedGrows DEF Broken
  <2> USE <2>0 DEF TypeOK, Goto
  \* A step that leaves the key alone and takes nobody out of the three steps.
  <2>a. ASSUME NEW p \in Procs, NEW s \in Steps, Goto(p, s),
               step[p] \in {"pttl", "window", "lock"} =>
                  s \in {"pttl", "window", "lock"},
               UNCHANGED <<count, ttl>>
        PROVE  \E q \in Procs : step'[q] \in {"pttl", "window", "lock"}
    <3>1. PICK q \in Procs : step[q] \in {"pttl", "window", "lock"}
      BY <2>a DEF CounterExpires
    <3>2. step'[q] \in {"pttl", "window", "lock"}
      BY <2>a, <3>1
    <3> QED BY <3>2
  <2>1. ASSUME NEW p \in Procs, NEW s \in {"check", "clear"}, Begin(p, s)
        PROVE  \E q \in Procs : step'[q] \in {"pttl", "window", "lock"}
    BY <2>1, <2>a DEF Begin, Steps
  <2>2. ASSUME NEW p \in Procs, Serve(p)
        PROVE  \E q \in Procs : step'[q] \in {"pttl", "window", "lock"}
    <3>1. CASE Check(p) BY <3>1, <2>a DEF Check, Steps
    <3>2. ASSUME NEW answer \in {"right", "wrong", "refused"}, Verify(p, answer)
          PROVE  \E q \in Procs : step'[q] \in {"pttl", "window", "lock"}
      BY <3>2, <2>a DEF Verify, Steps
    <3>3. CASE Clear(p) BY <3>3 DEF Clear, Vanish
    <3>4. CASE Incr(p)
      \* The INCR that creates the key goes on to give it a time to live.
      <4>1. CASE count = 0
        BY <3>4, <4>1, MaxFailedAssumption DEF Incr
      <4>2. CASE count > 0
        <5>1. PICK q \in Procs : step[q] \in {"pttl", "window", "lock"}
          BY <3>4, <4>2 DEF CounterExpires, Incr
        <5>2. step'[q] \in {"pttl", "window", "lock"}
          BY <3>4, <5>1 DEF Incr
        <5> QED BY <5>2
      <4> QED BY <4>1, <4>2
    <3>5. CASE ReadTtl(p) BY <3>5, <2>a DEF ReadTtl, Steps
    <3>6. CASE SetWindow(p) BY <3>6 DEF SetWindow, PExpire
    <3>7. CASE SetLock(p) BY <3>7 DEF SetLock, PExpire
    <3>8. CASE CommandFails(p)
      BY <3>8, <2>a DEF CommandFails, Failing, Broken, Steps
    <3>9. CASE IncrReplyLost(p) BY <3>9 DEF IncrReplyLost, Broken
    <3> QED BY <2>2, <3>1, <3>2, <3>3, <3>4, <3>5, <3>6, <3>7, <3>8, <3>9 DEF Serve
  <2>3. ASSUME NEW p \in Procs, Crash(p)
        PROVE  \E q \in Procs : step'[q] \in {"pttl", "window", "lock"}
    BY <2>3 DEF Crash, Failing, Broken
  <2>4. CASE Expire BY <2>4 DEF Expire, Vanish
  <2>5. CASE UNCHANGED vars BY <2>5 DEF vars, CounterExpires, Broken
  <2> QED BY <2>1, <2>2, <2>3, <2>4, <2>5 DEF Next
<1> QED BY <1>1, <1>2, TypeCorrect, PTL DEF Spec
=============================================================================
