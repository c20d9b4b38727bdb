--------------------------- MODULE Captcha_proofs ---------------------------
(* Proofs about Captcha, for any number of request threads and scenes, any *)
(* limits that config.cpp accepts, and whichever commands fail.            *)
EXTENDS Captcha, FiniteSetTheorems, TLAPS

\* A and B differ at most in p.
LEMMA OneMoves ==
    ASSUME NEW A, NEW B, NEW p, IsFiniteSet(A), \A q : q # p => (q \in A <=> q \in B)
    PROVE  /\ IsFiniteSet(B)
           /\ (p \in A <=> p \in B) => B = A
           /\ p \in A /\ p \notin B => Cardinality(B) = Cardinality(A) - 1
           /\ p \notin A /\ p \in B => Cardinality(B) = Cardinality(A) + 1
<1>1. CASE p \in A <=> p \in B
  <2>1. B = A
    BY <1>1
  <2> QED BY <1>1, <2>1
<1>2. CASE p \in A /\ p \notin B
  <2>1. B = A \ {p}
    BY <1>2
  <2> QED BY <1>2, <2>1, FS_RemoveElement
<1>3. CASE p \notin A /\ p \in B
  <2>1. B = A \cup {p}
    BY <1>3
  <2> QED BY <1>3, <2>1, FS_AddElement
<1> QED BY <1>1, <1>2, <1>3

\* Sets of request threads are finite, and no larger than Procs.
LEMMA ThreadSets ==
    ASSUME NEW A, A \subseteq Procs
    PROVE  /\ IsFiniteSet(A) /\ Cardinality(A) \in Nat
           /\ Cardinality(Procs) \in Nat
           /\ Cardinality(A) <= Cardinality(Procs)
  BY ProcsAssumption, FS_Subset, FS_CardinalityType

\* The same for the requests that have a wrong input to count.
LEMMA CountingSize ==
    ASSUME NEW s \in Scenes
    PROVE  /\ Cardinality(Counting(s)) \in Nat
           /\ Cardinality(Counting(s)') \in Nat
<1>1. Counting(s) \subseteq Procs /\ Counting(s)' \subseteq Procs
  BY DEF Counting
<1> QED BY <1>1, ThreadSets

-----------------------------------------------------------------------------
\* The variables keep their types: a key never has more time left than it
\* was given, a request is always before one of its commands.
THEOREM TypeCorrect == Spec => []TypeOK
<1> USE TtlAssumption
<1>1. Init => TypeOK
  <2> SUFFICES ASSUME Init PROVE TypeOK
    OBVIOUS
  <2>1. code \in [Scenes -> 0 .. CodeTtl] /\ lock \in [Scenes -> 0 .. LockTtl]
    BY DEF Init
  <2>2. countTtl \in [Scenes -> 0 .. RetryTtl] /\ count \in [Scenes -> Nat]
    BY DEF Init
  <2>3. step \in [Procs -> Steps] /\ guesses \in [Scenes -> Nat]
    BY DEF Init, Steps
  <2>4. interval \in 0 .. IntervalTtl /\ sent \in Nat /\ spent \in SUBSET Scenes
    BY DEF Init
  <2>5. scene \in [Procs -> Scenes] /\ miscounted \in BOOLEAN
    BY DEF Init
  <2> QED BY <2>1, <2>2, <2>3, <2>4, <2>5 DEF TypeOK
<1>2. TypeOK /\ [Next]_vars => TypeOK'
  <2> SUFFICES ASSUME TypeOK, [Next]_vars PROVE TypeOK'
    OBVIOUS
  <2> USE DEF TypeOK, Goto, Steps, keys, history
  <2>1. ASSUME NEW p \in Procs, NEW first \in {"sendLock", "lock"}, NEW s \in Scenes,
               Begin(p, first, s)
        PROVE  TypeOK'
    BY <2>1 DEF Begin
  <2>2. ASSUME NEW p \in Procs, CheckLock(p) PROVE TypeOK'
    BY <2>2 DEF CheckLock
  <2>3. ASSUME NEW p \in Procs, CheckInterval(p) PROVE TypeOK'
    BY <2>3 DEF CheckInterval
  <2>4. ASSUME NEW p \in Procs, StoreCode(p) PROVE TypeOK'
    BY <2>4 DEF StoreCode
  <2>5. ASSUME NEW p \in Procs, MarkInterval(p) PROVE TypeOK'
    BY <2>5 DEF MarkInterval
  <2>6. ASSUME NEW p \in Procs, Send(p) PROVE TypeOK'
    BY <2>6 DEF Send
  <2>7. ASSUME NEW p \in Procs, DeleteCode(p) PROVE TypeOK'
    BY <2>7 DEF DeleteCode
  <2>8. ASSUME NEW p \in Procs, NEW input \in {"right", "wrong"}, Compare(p, input)
        PROVE  TypeOK'
    BY <2>8 DEF Compare
  <2>9. ASSUME NEW p \in Procs, Incr(p) PROVE TypeOK'
    BY <2>9 DEF Incr
  <2>10. ASSUME NEW p \in Procs, ExpireCount(p) PROVE TypeOK'
    BY <2>10 DEF ExpireCount
  <2>11. ASSUME NEW p \in Procs, SetLock(p) PROVE TypeOK'
    BY <2>11 DEF SetLock
  <2>12. ASSUME NEW p \in Procs, DeleteCount(p) PROVE TypeOK'
    <3>1. Cardinality(Counting(scene[p])) \in Nat
      BY CountingSize
    <3> QED BY <2>12, <3>1 DEF DeleteCount, DropCounter
  <2>13. ASSUME NEW p \in Procs, CommandFails(p) PROVE TypeOK'
    <3>1. AfterFailure[step[p]] \in Steps
      BY DEF AfterFailure
    <3> QED BY <2>13, <3>1 DEF CommandFails
  <2>14. ASSUME NEW p \in Procs, Crash(p) PROVE TypeOK'
    BY <2>14 DEF Crash
  <2>15. CASE Tick
    <3>1. \A s \in Scenes : Cardinality(Counting(s)) \in Nat
      BY CountingSize
    <3>2. guesses' \in [Scenes -> Nat]
      BY <2>15, <3>1 DEF Tick
    <3>3. /\ code' \in [Scenes -> 0 .. CodeTtl]
          /\ countTtl' \in [Scenes -> 0 .. RetryTtl]
          /\ lock' \in [Scenes -> 0 .. LockTtl]
      BY <2>15 DEF Tick, Dec
    <3> QED BY <2>15, <3>2, <3>3 DEF Tick, Dec
  <2>16. CASE UNCHANGED vars
    BY <2>16 DEF vars
  <2>17. ASSUME NEW p \in Procs, ReplyLost(p) PROVE TypeOK'
    <3>1. CASE step[p] = "store"
      BY <2>17, <3>1 DEF ReplyLost
    <3>2. CASE step[p] # "store"
      <4>1. /\ count' = [count EXCEPT ![scene[p]] = @ + 1] /\ miscounted' = TRUE
            /\ step' = [step EXCEPT ![p] = "idle"]
            /\ UNCHANGED <<code, spent, countTtl, lock, interval, scene, guesses, sent>>
        BY <2>17, <3>2 DEF ReplyLost
      <4>2. count' \in [Scenes -> Nat] /\ step' \in [Procs -> Steps]
        BY <4>1
      <4> QED BY <4>1, <4>2
    <3> QED BY <3>1, <3>2
  <2> QED BY <2>1, <2>2, <2>3, <2>4, <2>5, <2>6, <2>7, <2>8, <2>9, <2>10, <2>11,
             <2>12, <2>13, <2>14, <2>15, <2>16, <2>17 DEF Next
<1> QED BY <1>1, <1>2, PTL DEF Spec

-----------------------------------------------------------------------------
\* A code that was guessed out is behind its lock as long as it is stored,
\* whichever of the commands after SetLock fail and whenever a process dies.
THEOREM SpentCodesStayLocked == Spec => []SpentCodeLocked
<1>1. Init => SpentCodeLocked
  BY DEF Init, SpentCodeLocked
<1>2. TypeOK /\ SpentCodeLocked /\ [Next]_vars => SpentCodeLocked'
  <2> SUFFICES ASSUME TypeOK, SpentCodeLocked, [Next]_vars PROVE SpentCodeLocked'
    OBVIOUS
  <2> USE TtlAssumption DEF TypeOK, SpentCodeLocked
  <2>a. ASSUME UNCHANGED <<code, lock, spent>> PROVE SpentCodeLocked'
    BY <2>a
  <2>1. ASSUME NEW p \in Procs, StoreCode(p) PROVE SpentCodeLocked'
    BY <2>1 DEF StoreCode
  <2>2. ASSUME NEW p \in Procs, DeleteCode(p) PROVE SpentCodeLocked'
    BY <2>2 DEF DeleteCode
  <2>3. ASSUME NEW p \in Procs, SetLock(p) PROVE SpentCodeLocked'
    BY <2>3 DEF SetLock
  <2>4. CASE Tick
    BY <2>4 DEF Tick, Dec
  <2>5. ASSUME NEW p \in Procs, NEW first \in {"sendLock", "lock"}, NEW s \in Scenes,
               Begin(p, first, s)
        PROVE  SpentCodeLocked'
    BY <2>5, <2>a DEF Begin, keys, history
  <2>6. ASSUME NEW p \in Procs, NEW input \in {"right", "wrong"}, Compare(p, input)
        PROVE  SpentCodeLocked'
    BY <2>6, <2>a DEF Compare, keys
  <2>7. ASSUME NEW p \in Procs,
               \/ CheckLock(p) \/ CheckInterval(p) \/ MarkInterval(p) \/ Send(p)
               \/ Incr(p) \/ ExpireCount(p) \/ DeleteCount(p) \/ CommandFails(p) \/ Crash(p)
        PROVE  SpentCodeLocked'
    BY <2>7, <2>a DEF CheckLock, CheckInterval, MarkInterval, Send, Incr, ExpireCount,
                      DeleteCount, CommandFails, Crash, keys, history
  <2>8. CASE UNCHANGED vars
    BY <2>8, <2>a DEF vars
  <2>9. ASSUME NEW p \in Procs, ReplyLost(p) PROVE SpentCodeLocked'
    <3>1. CASE step[p] = "store"
      BY <2>9, <3>1 DEF ReplyLost
    <3>2. CASE step[p] # "store"
      BY <2>9, <2>a, <3>2 DEF ReplyLost
    <3> QED BY <3>1, <3>2
  <2> QED BY <2>1, <2>2, <2>3, <2>4, <2>5, <2>6, <2>7, <2>8, <2>9 DEF Next
<1> QED BY <1>1, <1>2, TypeCorrect, PTL DEF Spec

-----------------------------------------------------------------------------
(* The bound on messages.  A request past the look at the interval key may *)
(* still send one; nobody joins these while there is a key.                *)

SendSteps == {"store", "mark", "send"}
Sending == {p \in Procs : step[p] \in SendSteps}

MessageInv ==
    /\ interval = 0 => sent = 0
    /\ sent + Cardinality(Sending) <= Cardinality(Procs)

\* In the life of an interval key no more messages are sent than there are
\* request threads, whatever fails and however long the key is made to live.
THEOREM BoundOnMessages == Spec => []MessagesBounded
<1>1. Init => MessageInv
  <2> SUFFICES ASSUME Init PROVE MessageInv
    OBVIOUS
  <2>1. Sending = {}
    BY DEF Init, Sending, SendSteps
  <2> QED BY <2>1, FS_EmptySet, ThreadSets DEF Init, MessageInv
<1>2. TypeOK /\ MessageInv /\ [Next]_vars => MessageInv'
  <2> SUFFICES ASSUME TypeOK, MessageInv, [Next]_vars PROVE MessageInv'
    OBVIOUS
  <2>0. /\ Cardinality(Sending) \in Nat /\ Cardinality(Sending') \in Nat
        /\ Cardinality(Sending') <= Cardinality(Procs)
        /\ Cardinality(Procs) \in Nat /\ sent \in Nat /\ interval \in Nat
        /\ step \in [Procs -> Steps] /\ IsFiniteSet(Sending)
    <3>1. Sending \subseteq Procs /\ Sending' \subseteq Procs
      BY DEF Sending
    <3> QED BY <3>1, ThreadSets, TtlAssumption DEF TypeOK
  \* A request that does not begin to send, and whose message is not counted.
  <2>a. ASSUME NEW p \in Procs, NEW t \in Steps, Goto(p, t),
               t \in SendSteps => step[p] \in SendSteps
        PROVE  Cardinality(Sending') <= Cardinality(Sending)
    <3>1. \A q : q # p => (q \in Sending <=> q \in Sending')
      BY <2>0, <2>a DEF Sending, Goto
    <3>2. p \in Sending' => p \in Sending
      BY <2>0, <2>a DEF Sending, Goto
    <3> QED BY <2>0, <3>1, <3>2, OneMoves
  <2>b. ASSUME NEW p \in Procs, NEW t \in Steps, Goto(p, t),
               t \in SendSteps => step[p] \in SendSteps,
               UNCHANGED <<interval, sent>>
        PROVE  MessageInv'
    BY <2>0, <2>a, <2>b DEF MessageInv
  <2>1. ASSUME NEW p \in Procs, NEW first \in {"sendLock", "lock"}, NEW s \in Scenes,
               Begin(p, first, s)
        PROVE  MessageInv'
    BY <2>1, <2>b DEF Begin, keys, history, Steps, SendSteps
  <2>2. ASSUME NEW p \in Procs, CheckLock(p) PROVE MessageInv'
    BY <2>2, <2>b DEF CheckLock, keys, history, Steps, SendSteps
  <2>3. ASSUME NEW p \in Procs, CheckInterval(p) PROVE MessageInv'
    <3>1. CASE interval > 0
      BY <2>3, <3>1, <2>b DEF CheckInterval, keys, history, Steps, SendSteps
    <3>2. CASE interval = 0
      BY <2>0, <2>3, <3>2 DEF CheckInterval, keys, history, MessageInv
    <3> QED BY <2>0, <3>1, <3>2
  <2>4. ASSUME NEW p \in Procs, StoreCode(p) PROVE MessageInv'
    BY <2>4, <2>b DEF StoreCode, Steps, SendSteps
  <2>5. ASSUME NEW p \in Procs, MarkInterval(p) PROVE MessageInv'
    <3>1. Cardinality(Sending') <= Cardinality(Sending)
      BY <2>5, <2>a DEF MarkInterval, Steps, SendSteps
    <3> QED BY <2>0, <2>5, <3>1, TtlAssumption DEF MarkInterval, history, MessageInv
  <2>6. ASSUME NEW p \in Procs, Send(p) PROVE MessageInv'
    <3>1. Cardinality(Sending') = Cardinality(Sending) - 1
      <4>1. \A q : q # p => (q \in Sending <=> q \in Sending')
        BY <2>0, <2>6 DEF Sending, Send, Goto
      <4>2. p \in Sending /\ p \notin Sending'
        BY <2>0, <2>6 DEF Sending, Send, Goto, SendSteps
      <4> QED BY <2>0, <4>1, <4>2, OneMoves
    <3> QED BY <2>0, <2>6, <3>1 DEF Send, keys, MessageInv
  <2>7. ASSUME NEW p \in Procs, DeleteCode(p) PROVE MessageInv'
    BY <2>7, <2>b DEF DeleteCode, Steps, SendSteps
  <2>8. ASSUME NEW p \in Procs, NEW input \in {"right", "wrong"}, Compare(p, input)
        PROVE  MessageInv'
    BY <2>8, <2>b DEF Compare, keys, Steps, SendSteps
  <2>9. ASSUME NEW p \in Procs, Incr(p) \/ ExpireCount(p) \/ SetLock(p) \/ DeleteCount(p)
        PROVE  MessageInv'
    BY <2>9, <2>b DEF Incr, ExpireCount, SetLock, DeleteCount, history, Steps, SendSteps
  <2>10. ASSUME NEW p \in Procs, CommandFails(p) PROVE MessageInv'
    BY <2>0, <2>10, <2>b DEF CommandFails, AfterFailure, keys, Steps, SendSteps
  <2>11. ASSUME NEW p \in Procs, Crash(p) PROVE MessageInv'
    BY <2>11, <2>b DEF Crash, keys, Steps, SendSteps
  <2>12. CASE Tick
    <3>1. Sending' = Sending
      BY <2>12 DEF Tick, Sending
    <3> QED BY <2>0, <2>12, <3>1 DEF Tick, Dec, MessageInv
  <2>13. CASE UNCHANGED vars
    <3>1. Sending' = Sending
      BY <2>13 DEF vars, Sending
    <3> QED BY <2>13, <3>1 DEF vars, MessageInv
  <2>14. ASSUME NEW p \in Procs, ReplyLost(p) PROVE MessageInv'
    BY <2>14, <2>b DEF ReplyLost, Steps, SendSteps
  <2> QED BY <2>1, <2>2, <2>3, <2>4, <2>5, <2>6, <2>7, <2>8, <2>9, <2>10, <2>11,
             <2>12, <2>13, <2>14 DEF Next
<1>3. TypeOK /\ MessageInv => MessagesBounded
  <2>1. Cardinality(Sending) \in Nat /\ Cardinality(Procs) \in Nat
    BY ThreadSets DEF Sending
  <2> QED BY <2>1 DEF TypeOK, MessageInv, MessagesBounded
<1> QED BY <1>1, <1>2, <1>3, TypeCorrect, PTL DEF Spec

-----------------------------------------------------------------------------
(* The bound on guesses.  Every wrong input is counted or about to be; a   *)
(* request that takes the counter to MaxRetry or beyond is busy with the   *)
(* lock until it deletes the counter, so the counter never exceeds         *)
(* MaxRetry - 1 by more than the requests that are busy so.                *)

BusySteps == {"incr", "expireLock", "setLock", "delCode", "delCount"}
Busy(s) == {p \in Procs : step[p] \in BusySteps /\ scene[p] = s}

Accounted(s) == guesses[s] <= count[s] + Cardinality(Counting(s))

Covered(s) == count[s] + Cardinality(Counting(s)) <= MaxRetry - 1 + Cardinality(Busy(s))

GuessInv == ~miscounted => \A s \in Scenes : Accounted(s) /\ Covered(s)

\* Who counts is busy, now and after a step.
LEMMA BusySizes ==
    ASSUME NEW s \in Scenes
    PROVE  /\ IsFiniteSet(Counting(s)) /\ IsFiniteSet(Busy(s))
           /\ Cardinality(Counting(s)) \in Nat /\ Cardinality(Counting(s)') \in Nat
           /\ Cardinality(Busy(s)) \in Nat /\ Cardinality(Busy(s)') \in Nat
           /\ Cardinality(Counting(s)) <= Cardinality(Busy(s))
           /\ Cardinality(Counting(s)') <= Cardinality(Busy(s)')
           /\ Cardinality(Busy(s)) <= Cardinality(Procs)
           /\ Cardinality(Procs) \in Nat
<1>1. /\ Counting(s) \subseteq Busy(s) /\ Counting(s)' \subseteq Busy(s)'
      /\ Busy(s) \subseteq Procs /\ Busy(s)' \subseteq Procs
      /\ Counting(s) \subseteq Procs /\ Counting(s)' \subseteq Procs
  BY DEF Counting, Busy, BusySteps
<1>2. IsFiniteSet(Busy(s)) /\ IsFiniteSet(Busy(s)')
  BY <1>1, ThreadSets
<1>3. /\ Cardinality(Counting(s)) <= Cardinality(Busy(s))
      /\ Cardinality(Counting(s)') <= Cardinality(Busy(s)')
  BY <1>1, <1>2, FS_Subset
<1> QED BY <1>1, <1>3, ThreadSets

\* A request that goes on outside these steps, or from one busy step to the
\* next, changes neither set.
LEMMA NobodyMoves ==
    ASSUME TypeOK, NEW p \in Procs, NEW t \in Steps, Goto(p, t), NEW s \in Scenes,
           t = "incr" <=> step[p] = "incr",
           t \in BusySteps <=> step[p] \in BusySteps,
           \/ scene' = scene
           \/ step[p] = "idle" /\ \E x \in Scenes : scene' = [scene EXCEPT ![p] = x]
    PROVE  Counting(s)' = Counting(s) /\ Busy(s)' = Busy(s)
<1>1. /\ step \in [Procs -> Steps] /\ scene \in [Procs -> Scenes]
      /\ step' = [step EXCEPT ![p] = t]
  BY DEF TypeOK, Goto
<1>2. CASE scene' = scene
  BY <1>1, <1>2 DEF Counting, Busy, BusySteps
<1>3. CASE step[p] = "idle" /\ \E x \in Scenes : scene' = [scene EXCEPT ![p] = x]
  <2>1. t \notin BusySteps /\ step[p] \notin BusySteps
    BY <1>3 DEF BusySteps
  <2>2. \A q \in Procs : q # p => step'[q] = step[q] /\ scene'[q] = scene[q]
    BY <1>1, <1>3
  <2>3. step'[p] = t
    BY <1>1
  <2> QED BY <2>1, <2>2, <2>3 DEF Counting, Busy, BusySteps
<1> QED BY <1>2, <1>3

\* Requests of other scenes do not matter.
LEMMA OtherScene ==
    ASSUME TypeOK, NEW p \in Procs, NEW t \in Steps, Goto(p, t), scene' = scene,
           NEW s \in Scenes, scene[p] # s
    PROVE  Counting(s)' = Counting(s) /\ Busy(s)' = Busy(s)
  BY DEF TypeOK, Goto, Counting, Busy

\* How a request's move changes the sets of its scene.
LEMMA OwnScene ==
    ASSUME TypeOK, NEW p \in Procs, NEW t \in Steps, Goto(p, t), scene' = scene,
           NEW s \in Scenes, scene[p] = s
    PROVE  /\ step[p] = "incr" /\ t # "incr" =>
                Cardinality(Counting(s)') = Cardinality(Counting(s)) - 1
           /\ step[p] # "incr" /\ t = "incr" =>
                Cardinality(Counting(s)') = Cardinality(Counting(s)) + 1
           /\ step[p] # "incr" /\ t # "incr" => Counting(s)' = Counting(s)
           /\ step[p] \in BusySteps /\ t \in BusySteps => Busy(s)' = Busy(s)
           /\ step[p] \notin BusySteps /\ t \in BusySteps =>
                Cardinality(Busy(s)') = Cardinality(Busy(s)) + 1
<1>1. step'[p] = t /\ \A q \in Procs : q # p => step'[q] = step[q]
  BY DEF TypeOK, Goto
<1>2. /\ \A q : q # p => (q \in Counting(s) <=> q \in Counting(s)')
      /\ \A q : q # p => (q \in Busy(s) <=> q \in Busy(s)')
  BY <1>1 DEF Counting, Busy
<1>3. /\ p \in Counting(s) <=> step[p] = "incr"
      /\ p \in Counting(s)' <=> t = "incr"
      /\ p \in Busy(s) <=> step[p] \in BusySteps
      /\ p \in Busy(s)' <=> t \in BusySteps
  BY <1>1 DEF Counting, Busy
<1>4. IsFiniteSet(Counting(s)) /\ IsFiniteSet(Busy(s))
  BY BusySizes
<1> QED BY <1>2, <1>3, <1>4, OneMoves

\* Until an INCR or the DEL of a full counter fails, at most MaxRetry - 1
\* wrong inputs plus one for each request thread are compared before the
\* counter restarts.
THEOREM BoundOnGuesses == Spec => []GuessesBounded
<1> USE TtlAssumption
<1>1. Init => GuessInv
  <2> SUFFICES ASSUME Init, NEW s \in Scenes PROVE Accounted(s) /\ Covered(s)
    BY DEF GuessInv
  <2>1. Counting(s) = {} /\ guesses[s] = 0 /\ count[s] = 0
    BY DEF Init, Counting
  <2>2. Cardinality(Counting(s)) = 0
    BY <2>1, FS_EmptySet
  <2> QED BY <2>1, <2>2, BusySizes DEF Accounted, Covered
<1>2. TypeOK /\ GuessInv /\ [Next]_vars => GuessInv'
  <2> SUFFICES ASSUME TypeOK, GuessInv, [Next]_vars, ~miscounted', NEW s \in Scenes
               PROVE  Accounted(s)' /\ Covered(s)'
    BY DEF GuessInv
  <2>0. /\ Cardinality(Counting(s)) \in Nat /\ Cardinality(Counting(s)') \in Nat
        /\ Cardinality(Busy(s)) \in Nat /\ Cardinality(Busy(s)') \in Nat
        /\ Cardinality(Counting(s)) <= Cardinality(Busy(s))
        /\ Cardinality(Counting(s)') <= Cardinality(Busy(s)')
        /\ guesses \in [Scenes -> Nat] /\ count \in [Scenes -> Nat]
        /\ step \in [Procs -> Steps] /\ scene \in [Procs -> Scenes]
        /\ guesses[s] \in Nat /\ count[s] \in Nat
    BY BusySizes DEF TypeOK
  <2>z. ASSUME ~miscounted
        PROVE  /\ guesses[s] <= count[s] + Cardinality(Counting(s))
               /\ count[s] + Cardinality(Counting(s)) <= MaxRetry - 1 + Cardinality(Busy(s))
    BY <2>z DEF GuessInv, Accounted, Covered
  \* A step that neither compares nor counts, and keeps the sets.
  <2>a. ASSUME ~miscounted, count'[s] = count[s], guesses'[s] = guesses[s],
               Counting(s)' = Counting(s), Busy(s)' = Busy(s)
        PROVE  Accounted(s)' /\ Covered(s)'
    BY <2>z, <2>a DEF Accounted, Covered
  <2>b. ASSUME NEW p \in Procs, NEW t \in Steps, Goto(p, t), scene' = scene,
               t = "incr" <=> step[p] = "incr",
               t \in BusySteps <=> step[p] \in BusySteps,
               UNCHANGED <<count, guesses>>, ~miscounted
        PROVE  Accounted(s)' /\ Covered(s)'
    <3>1. Counting(s)' = Counting(s) /\ Busy(s)' = Busy(s)
      BY <2>b, NobodyMoves
    <3> QED BY <2>a, <2>b, <3>1
  \* A request that moves in another scene.
  <2>c. ASSUME NEW p \in Procs, NEW t \in Steps, Goto(p, t), scene' = scene,
               scene[p] # s, ~miscounted, count'[s] = count[s], guesses'[s] = guesses[s]
        PROVE  Accounted(s)' /\ Covered(s)'
    <3>1. Counting(s)' = Counting(s) /\ Busy(s)' = Busy(s)
      BY <2>c, OtherScene
    <3> QED BY <2>a, <2>c, <3>1
  \* The counter vanished.
  <2>d. ASSUME count'[s] = 0, guesses'[s] = Cardinality(Counting(s)),
               Counting(s)' = Counting(s)
        PROVE  Accounted(s)' /\ Covered(s)'
    BY <2>0, <2>d DEF Accounted, Covered
  <2>1. ASSUME NEW p \in Procs, NEW first \in {"sendLock", "lock"}, NEW x \in Scenes,
               Begin(p, first, x)
        PROVE  Accounted(s)' /\ Covered(s)'
    <3>1. /\ Goto(p, first) /\ step[p] = "idle" /\ first \in Steps
          /\ scene' = [scene EXCEPT ![p] = x]
          /\ first # "incr" /\ first \notin BusySteps /\ step[p] \notin BusySteps
      BY <2>1 DEF Begin, Steps, BusySteps
    <3>2. Counting(s)' = Counting(s) /\ Busy(s)' = Busy(s)
      BY <3>1, NobodyMoves
    <3> QED BY <2>1, <2>a, <3>2 DEF Begin, keys, history
  <2>2. ASSUME NEW p \in Procs,
               CheckLock(p) \/ CheckInterval(p) \/ StoreCode(p) \/ MarkInterval(p) \/ Send(p)
        PROVE  Accounted(s)' /\ Covered(s)'
    <3> USE DEF keys, history, Steps, BusySteps
    <3>1. CASE CheckLock(p) BY <2>b, <3>1 DEF CheckLock
    <3>2. CASE CheckInterval(p) BY <2>b, <3>2 DEF CheckInterval
    <3>3. CASE StoreCode(p) BY <2>b, <3>3 DEF StoreCode
    <3>4. CASE MarkInterval(p) BY <2>b, <3>4 DEF MarkInterval
    <3>5. CASE Send(p) BY <2>b, <3>5 DEF Send
    <3> QED BY <2>2, <3>1, <3>2, <3>3, <3>4, <3>5
  <2>3. ASSUME NEW p \in Procs, DeleteCode(p) \/ ExpireCount(p) \/ SetLock(p)
        PROVE  Accounted(s)' /\ Covered(s)'
    <3> USE DEF history, Steps, BusySteps
    <3>1. CASE DeleteCode(p) BY <2>b, <3>1 DEF DeleteCode
    <3>2. CASE ExpireCount(p) BY <2>b, <3>2 DEF ExpireCount
    <3>3. CASE SetLock(p) BY <2>b, <3>3 DEF SetLock
    <3> QED BY <2>3, <3>1, <3>2, <3>3
  <2>4. ASSUME NEW p \in Procs, NEW input \in {"right", "wrong"}, Compare(p, input)
        PROVE  Accounted(s)' /\ Covered(s)'
    <3>1. CASE guesses' = guesses /\ (Goto(p, "idle") \/ Goto(p, "clear"))
      BY <2>4, <2>b, <3>1 DEF Compare, keys, Steps, BusySteps
    <3>2. CASE /\ Goto(p, "incr")
               /\ guesses' = [guesses EXCEPT ![scene[p]] = @ + 1]
      <4>1. step[p] = "get" /\ count' = count /\ scene' = scene /\ ~miscounted
        BY <2>4 DEF Compare, keys
      <4>2. CASE scene[p] # s
        BY <2>0, <2>c, <3>2, <4>1, <4>2 DEF Steps
      <4>3. CASE scene[p] = s
        <5>1. /\ Cardinality(Counting(s)') = Cardinality(Counting(s)) + 1
              /\ Cardinality(Busy(s)') = Cardinality(Busy(s)) + 1
          BY <3>2, <4>1, <4>3, OwnScene DEF Steps, BusySteps
        <5>2. guesses'[s] = guesses[s] + 1
          BY <2>0, <3>2, <4>3
        <5> QED BY <2>0, <2>z, <4>1, <5>1, <5>2 DEF Accounted, Covered
      <4> QED BY <4>2, <4>3
    <3> QED BY <2>4, <3>1, <3>2 DEF Compare
  <2>5. ASSUME NEW p \in Procs, Incr(p) PROVE Accounted(s)' /\ Covered(s)'
    <3>1. /\ step[p] = "incr" /\ scene' = scene /\ guesses' = guesses /\ ~miscounted
          /\ count' = [count EXCEPT ![scene[p]] = @ + 1]
      BY <2>5 DEF Incr, history
    <3>2. PICK t \in {"expireLock", "expire"} :
             /\ Goto(p, t)
             /\ t = "expire" => count[scene[p]] + 1 < MaxRetry
      BY <2>0, <2>5 DEF Incr
    <3>3. CASE scene[p] # s
      BY <2>0, <2>c, <3>1, <3>2, <3>3 DEF Steps
    <3>4. CASE scene[p] = s
      <4>1. count'[s] = count[s] + 1
        BY <2>0, <3>1, <3>4
      <4>2. Cardinality(Counting(s)') = Cardinality(Counting(s)) - 1
        BY <3>1, <3>2, <3>4, OwnScene DEF Steps
      <4>3. Accounted(s)'
        BY <2>0, <2>z, <3>1, <4>1, <4>2 DEF Accounted
      <4>4. CASE t = "expireLock"
        <5>1. Busy(s)' = Busy(s)
          BY <3>1, <3>2, <3>4, <4>4, OwnScene DEF Steps, BusySteps
        <5> QED BY <2>0, <2>z, <3>1, <4>1, <4>2, <4>3, <5>1 DEF Covered
      <4>5. CASE t = "expire"
        BY <2>0, <3>2, <3>4, <4>1, <4>3, <4>5 DEF Covered
      <4> QED BY <4>4, <4>5
    <3> QED BY <3>3, <3>4
  <2>6. ASSUME NEW p \in Procs, DeleteCount(p) PROVE Accounted(s)' /\ Covered(s)'
    <3>1. /\ step[p] \in {"delCount", "clear"} /\ Goto(p, "idle")
          /\ scene' = scene /\ ~miscounted
          /\ count' = [count EXCEPT ![scene[p]] = 0]
          /\ guesses' = [guesses EXCEPT ![scene[p]] = Cardinality(Counting(scene[p]))]
      BY <2>6 DEF DeleteCount, DropCounter
    <3>2. CASE scene[p] # s
      BY <2>0, <2>c, <3>1, <3>2 DEF Steps
    <3>3. CASE scene[p] = s
      <4>1. Counting(s)' = Counting(s)
        BY <3>1, <3>3, OwnScene DEF Steps
      <4>2. count'[s] = 0 /\ guesses'[s] = Cardinality(Counting(s))
        BY <2>0, <3>1, <3>3
      <4> QED BY <2>d, <4>1, <4>2
    <3> QED BY <3>2, <3>3
  <2>7. ASSUME NEW p \in Procs, CommandFails(p) PROVE Accounted(s)' /\ Covered(s)'
    <3>1. step[p] \notin {"incr", "delCount"} /\ ~miscounted
      BY <2>7 DEF CommandFails
    <3>2. /\ AfterFailure[step[p]] \in Steps
          /\ AfterFailure[step[p]] # "incr"
          /\ AfterFailure[step[p]] \in BusySteps <=> step[p] \in BusySteps
      BY <2>0, <3>1 DEF AfterFailure, Steps, BusySteps
    <3> QED BY <2>7, <2>b, <3>1, <3>2 DEF CommandFails, keys
  <2>8. ASSUME NEW p \in Procs, Crash(p) PROVE Accounted(s)' /\ Covered(s)'
    BY <2>8 DEF Crash
  <2>9. CASE Tick
    <3>1. Counting(s)' = Counting(s) /\ Busy(s)' = Busy(s) /\ ~miscounted
      BY <2>9 DEF Tick, Counting, Busy
    <3>2. CASE countTtl[s] = 1
      BY <2>9, <2>d, <3>1, <3>2 DEF Tick
    <3>3. CASE countTtl[s] # 1
      BY <2>9, <2>a, <3>1, <3>3 DEF Tick
    <3> QED BY <3>2, <3>3
  <2>10. CASE UNCHANGED vars
    <3>1. Counting(s)' = Counting(s) /\ Busy(s)' = Busy(s)
      BY <2>10 DEF vars, Counting, Busy
    <3> QED BY <2>10, <2>a, <3>1 DEF vars
  <2>11. ASSUME NEW p \in Procs, ReplyLost(p) PROVE Accounted(s)' /\ Covered(s)'
    BY <2>11, <2>b DEF ReplyLost, Steps, BusySteps
  <2> QED BY <2>1, <2>2, <2>3, <2>4, <2>5, <2>6, <2>7, <2>8, <2>9, <2>10, <2>11
     DEF Next
<1>3. TypeOK /\ GuessInv => GuessesBounded
  <2> SUFFICES ASSUME TypeOK, GuessInv, ~miscounted, NEW s \in Scenes
               PROVE  guesses[s] <= MaxRetry - 1 + Cardinality(Procs)
    BY DEF GuessesBounded
  <2> QED BY BusySizes DEF TypeOK, GuessInv, Accounted, Covered
<1> QED BY <1>1, <1>2, <1>3, TypeCorrect, PTL DEF Spec
=============================================================================
