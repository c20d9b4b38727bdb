------------------------------ MODULE Captcha ------------------------------
(***************************************************************************)
(* SmsService: the captchas of one mobile number in Redis, one key for the *)
(* code, one for the failure counter and one for the lock of each scene,   *)
(* and one key for the interval between two messages, shared by all        *)
(* scenes.  Each Redis command is atomic and is one action; requests       *)
(* interleave between commands.  Time is a number of ticks; a key counts   *)
(* the ticks it has left.                                                  *)
(*                                                                         *)
(* GenerateCaptcha returns a constant, so what a key holds does not matter,*)
(* only whether the client's input is equal to it.                         *)
(***************************************************************************)
EXTENDS Naturals, FiniteSets

CONSTANTS
    Procs,          \* request threads, of all server instances
    Scenes,         \* SmsScene
    MaxRetry,       \* sms.max_retry_count
    CodeTtl, LockTtl, RetryTtl, IntervalTtl,   \* sms.*_seconds, in ticks
    Faults,         \* the steps at which a command may fail, and "crash"
    GuessBound      \* the model's bound on guesses

Steps == {"idle", "sendLock", "sendInterval", "store", "mark", "send",
          "rollback", "lock", "get", "incr", "expire", "expireLock", "setLock",
          "delCode", "delCount", "clear"}

\* Config validation: all positive, and a lock outlives a code.
ASSUME TtlAssumption ==
    /\ MaxRetry \in Nat \ {0}
    /\ CodeTtl \in Nat \ {0}
    /\ RetryTtl \in Nat \ {0}
    /\ IntervalTtl \in Nat \ {0}
    /\ LockTtl \in Nat
    /\ LockTtl >= CodeTtl
ASSUME ProcsAssumption == IsFiniteSet(Procs)
ASSUME FaultsAssumption ==
    Faults \subseteq (Steps \ {"idle"}) \cup {"crash"}
ASSUME BoundAssumption == GuessBound \in Nat

VARIABLES
    code,       \* ticks the code of a scene has left; 0: no code
    count,      \* failure counter of a scene; 0: no counter
    countTtl,   \* ticks the counter has left; 0: it does not expire
    lock,       \* ticks the lock of a scene has left; 0: not locked
    interval,   \* ticks the interval key has left; 0: no key
    step,       \* the command each request sends next
    scene,      \* the scene of each request
    \* History.
    guesses,    \* wrong inputs compared since the counter last vanished, and
                \* those compared before whose INCR was still to come
    spent,      \* scenes whose stored code was locked out
    sent,       \* messages sent in the life of the present interval key
    miscounted  \* an INCR or the DEL of a full counter failed

keys == <<code, count, countTtl, lock, interval>>
history == <<guesses, spent, sent, miscounted>>
vars == <<code, count, countTtl, lock, interval, step, scene,
          guesses, spent, sent, miscounted>>

TypeOK ==
    /\ code \in [Scenes -> 0 .. CodeTtl]
    /\ count \in [Scenes -> Nat]
    /\ countTtl \in [Scenes -> 0 .. RetryTtl]
    /\ lock \in [Scenes -> 0 .. LockTtl]
    /\ interval \in 0 .. IntervalTtl
    /\ step \in [Procs -> Steps]
    /\ scene \in [Procs -> Scenes]
    /\ guesses \in [Scenes -> Nat]
    /\ spent \in SUBSET Scenes
    /\ sent \in Nat
    /\ miscounted \in BOOLEAN

Init ==
    /\ code = [s \in Scenes |-> 0]
    /\ count = [s \in Scenes |-> 0]
    /\ countTtl = [s \in Scenes |-> 0]
    /\ lock = [s \in Scenes |-> 0]
    /\ interval = 0
    /\ step = [p \in Procs |-> "idle"]
    /\ scene \in [Procs -> Scenes]
    /\ guesses = [s \in Scenes |-> 0]
    /\ spent = {}
    /\ sent = 0
    /\ miscounted = FALSE

Goto(p, s) == step' = [step EXCEPT ![p] = s]

\* Requests that have compared a wrong input in scene s and not counted it.
Counting(s) == {p \in Procs : step[p] = "incr" /\ scene[p] = s}

\* The counter of scene s is gone.
DropCounter(s) ==
    /\ count' = [count EXCEPT ![s] = 0]
    /\ countTtl' = [countTtl EXCEPT ![s] = 0]
    /\ guesses' = [guesses EXCEPT ![s] = Cardinality(Counting(s))]

\* The request sends "sendLock" (SendCaptcha) or "lock" (VerifyCaptcha).
Begin(p, first, s) ==
    /\ step[p] = "idle"
    /\ first \in {"sendLock", "lock"}
    /\ Goto(p, first)
    /\ scene' = [scene EXCEPT ![p] = s]
    /\ UNCHANGED <<keys, history>>

\* The lock key is looked at first in both calls.
CheckLock(p) ==
    /\ step[p] \in {"sendLock", "lock"}
    /\ Goto(p, IF lock[scene[p]] > 0 THEN "idle"
               ELSE IF step[p] = "lock" THEN "get" ELSE "sendInterval")
    /\ UNCHANGED <<keys, scene, history>>

-----------------------------------------------------------------------------
(* SendCaptcha.                                                            *)

\* Faulty variant of CheckInterval: the interval is not looked at.
CheckIntervalSkipped(p) ==
    /\ step[p] = "sendInterval"
    /\ Goto(p, "store")
    /\ UNCHANGED <<keys, scene, history>>

CheckInterval(p) ==
    /\ step[p] = "sendInterval"
    /\ Goto(p, IF interval > 0 THEN "idle" ELSE "store")
    /\ UNCHANGED <<keys, scene, history>>

\* A new code replaces the stored one, with a new lifetime.
StoreCode(p) ==
    /\ step[p] = "store"
    /\ code' = [code EXCEPT ![scene[p]] = CodeTtl]
    /\ spent' = spent \ {scene[p]}
    /\ Goto(p, "mark")
    /\ UNCHANGED <<count, countTtl, lock, interval, scene, guesses, sent,
                   miscounted>>

MarkInterval(p) ==
    /\ step[p] = "mark"
    /\ interval' = IntervalTtl
    /\ Goto(p, "send")
    /\ UNCHANGED <<code, count, countTtl, lock, scene, history>>

\* DoSend succeeds.
Send(p) ==
    /\ step[p] = "send"
    /\ sent' = IF interval > 0 THEN sent + 1 ELSE sent
    /\ Goto(p, "idle")
    /\ UNCHANGED <<keys, scene, guesses, spent, miscounted>>

\* The code is deleted: DoSend has failed, or the scene was locked.
DeleteCode(p) ==
    /\ step[p] \in {"rollback", "delCode"}
    /\ code' = [code EXCEPT ![scene[p]] = 0]
    /\ spent' = spent \ {scene[p]}
    /\ Goto(p, IF step[p] = "delCode" THEN "delCount" ELSE "idle")
    /\ UNCHANGED <<count, countTtl, lock, interval, scene, guesses, sent,
                   miscounted>>

-----------------------------------------------------------------------------
(* VerifyCaptcha.                                                          *)

\* GET and the comparison.  The code is not deleted on success.
Compare(p, input) ==
    /\ step[p] = "get"
    /\ LET s == scene[p] IN
       \/ /\ code[s] = 0
          /\ Goto(p, "idle")
          /\ UNCHANGED guesses
       \/ /\ code[s] > 0 /\ input = "wrong" /\ guesses[s] < GuessBound
          /\ Goto(p, "incr")
          /\ guesses' = [guesses EXCEPT ![s] = @ + 1]
       \/ /\ code[s] > 0 /\ input = "right"
          /\ Goto(p, "clear")
          /\ UNCHANGED guesses
    /\ UNCHANGED <<keys, scene, spent, sent, miscounted>>

\* Faulty variant of Incr: lock only at exactly max_retry_count + 1.
IncrOffByOne(p) ==
    /\ step[p] = "incr"
    /\ count' = [count EXCEPT ![scene[p]] = @ + 1]
    /\ Goto(p, IF count[scene[p]] + 1 = MaxRetry + 1 THEN "expireLock" ELSE "expire")
    /\ UNCHANGED <<code, countTtl, lock, interval, scene, history>>

\* INCR.  What it returned decides whether the request will lock the scene,
\* once it has set the counter's expiry.
Incr(p) ==
    /\ step[p] = "incr"
    /\ count' = [count EXCEPT ![scene[p]] = @ + 1]
    /\ Goto(p, IF count[scene[p]] + 1 >= MaxRetry THEN "expireLock" ELSE "expire")
    /\ UNCHANGED <<code, countTtl, lock, interval, scene, history>>

\* PEXPIRE of the counter; nothing happens if there is none.
ExpireCount(p) ==
    /\ step[p] \in {"expire", "expireLock"}
    /\ countTtl' = [countTtl EXCEPT ![scene[p]] =
                      IF count[scene[p]] > 0 THEN RetryTtl ELSE @]
    /\ Goto(p, IF step[p] = "expireLock" THEN "setLock" ELSE "idle")
    /\ UNCHANGED <<code, count, lock, interval, scene, history>>

\* Faulty variant of SetLock: the counter's time to live.
SetLockRetryTtl(p) ==
    /\ step[p] = "setLock"
    /\ lock' = [lock EXCEPT ![scene[p]] = RetryTtl]
    /\ spent' = IF code[scene[p]] > 0 THEN spent \cup {scene[p]} ELSE spent
    /\ Goto(p, "delCode")
    /\ UNCHANGED <<code, count, countTtl, interval, scene, guesses, sent,
                   miscounted>>

\* Too many failures: lock the scene, delete the code, delete the counter.
SetLock(p) ==
    /\ step[p] = "setLock"
    /\ lock' = [lock EXCEPT ![scene[p]] = LockTtl]
    /\ spent' = IF code[scene[p]] > 0 THEN spent \cup {scene[p]} ELSE spent
    /\ Goto(p, "delCode")
    /\ UNCHANGED <<code, count, countTtl, interval, scene, guesses, sent,
                   miscounted>>

\* The counter is deleted: the scene was locked, or the input was right.
DeleteCount(p) ==
    /\ step[p] \in {"delCount", "clear"}
    /\ DropCounter(scene[p])
    /\ Goto(p, "idle")
    /\ UNCHANGED <<code, lock, interval, scene, spent, sent, miscounted>>

-----------------------------------------------------------------------------
(* What goes wrong, and time.                                              *)

\* Where the request goes on when a command, or DoSend, fails.
AfterFailure == [s \in Steps |->
    CASE s = "mark" -> "send"
      [] s = "send" -> "rollback"
      [] s = "expireLock" -> "setLock"
      [] s = "setLock" -> "delCode"
      [] s = "delCode" -> "delCount"
      [] OTHER -> "idle"]

\* The command is not executed.
CommandFails(p) ==
    /\ step[p] \in Faults
    /\ Goto(p, AfterFailure[step[p]])
    /\ miscounted' = (miscounted \/ step[p] \in {"incr", "delCount"})
    /\ UNCHANGED <<keys, scene, guesses, spent, sent>>

\* Redis executes the PSETEX of the code or the INCR and the reply is lost:
\* the request ends here, with a code nobody is sent or a counter without
\* expiry.  (After any other write the request goes on as if it had failed.)
ReplyLost(p) ==
    /\ step[p] \in Faults
    /\ \/ /\ step[p] = "store"
          /\ code' = [code EXCEPT ![scene[p]] = CodeTtl]
          /\ spent' = spent \ {scene[p]}
          /\ UNCHANGED <<count, miscounted>>
       \/ /\ step[p] = "incr"
          /\ count' = [count EXCEPT ![scene[p]] = @ + 1]
          /\ miscounted' = TRUE
          /\ UNCHANGED <<code, spent>>
    /\ Goto(p, "idle")
    /\ UNCHANGED <<countTtl, lock, interval, scene, guesses, sent>>

\* The server process dies between two commands.
Crash(p) ==
    /\ "crash" \in Faults
    /\ step[p] # "idle"
    /\ Goto(p, "idle")
    /\ miscounted' = TRUE
    /\ UNCHANGED <<keys, scene, guesses, spent, sent>>

Dec(n) == IF n > 0 THEN n - 1 ELSE 0

Tick ==
    /\ code' = [s \in Scenes |-> Dec(code[s])]
    /\ count' = [s \in Scenes |-> IF countTtl[s] = 1 THEN 0 ELSE count[s]]
    /\ countTtl' = [s \in Scenes |-> Dec(countTtl[s])]
    /\ lock' = [s \in Scenes |-> Dec(lock[s])]
    /\ interval' = Dec(interval)
    /\ guesses' = [s \in Scenes |-> IF countTtl[s] = 1
                                   THEN Cardinality(Counting(s)) ELSE guesses[s]]
    /\ spent' = {s \in spent : code[s] > 1}
    /\ sent' = IF interval > 1 THEN sent ELSE 0
    /\ UNCHANGED <<step, scene, miscounted>>

-----------------------------------------------------------------------------
Next ==
    \/ \E p \in Procs :
          \/ \E first \in {"sendLock", "lock"}, s \in Scenes : Begin(p, first, s)
          \/ CheckLock(p)
          \/ CheckInterval(p)
          \/ StoreCode(p)
          \/ MarkInterval(p)
          \/ Send(p)
          \/ DeleteCode(p)
          \/ \E input \in {"right", "wrong"} : Compare(p, input)
          \/ Incr(p)
          \/ ExpireCount(p)
          \/ SetLock(p)
          \/ DeleteCount(p)
          \/ CommandFails(p)
          \/ ReplyLost(p)
          \/ Crash(p)
    \/ Tick

Spec == Init /\ [][Next]_vars

-----------------------------------------------------------------------------
(* Properties.                                                             *)

\* However many verifications run at once, at most MaxRetry - 1 wrong inputs
\* plus one for each request thread are compared before the scene is locked
\* and its counter restarts, although the lock is checked, the code read and
\* the counter incremented by separate commands.  Until an INCR or the DEL of
\* a full counter fails or a process dies.
GuessesBounded ==
    ~miscounted =>
        \A s \in Scenes : guesses[s] <= MaxRetry - 1 + Cardinality(Procs)

\* A code that was guessed out stays behind the lock as long as it is stored,
\* even if its deletion fails or the process dies before it: config.cpp
\* insists on a lock that outlives a code for this.
SpentCodeLocked == \A s \in spent : lock[s] >= code[s] /\ code[s] > 0

\* In the life of an interval key each request thread sends at most one message:
\* the key is looked up and set by separate commands, and this is how far
\* concurrent SendCaptcha calls, of all scenes, get past the limit of one,
\* also when the key is set again and lives longer.
MessagesBounded == sent <= Cardinality(Procs)
=============================================================================
