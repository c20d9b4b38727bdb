----------------------------- MODULE LoginGuard -----------------------------
(***************************************************************************)
(* The failure counter of password logins: the Redis key login:fail:MOBILE *)
(* of one mobile number, and the requests of AuthService that check it,    *)
(* increment it, give it a time to live and delete it.  Each Redis command *)
(* is atomic and is one action; requests interleave between commands.      *)
(* Keys of different mobile numbers do not interact.                       *)
(***************************************************************************)
EXTENDS Naturals, FiniteSets

CONSTANTS
    Procs,         \* request threads, of all server instances
    MaxFailed,     \* login.max_failed_attempts
    Faults,        \* what may go wrong: failing commands, a dying process
    TriesBound     \* the model's bound on tries

\* Config validation rejects max_failed_attempts <= 0.
ASSUME MaxFailedAssumption == MaxFailed \in Nat \ {0}
ASSUME ProcsAssumption == IsFiniteSet(Procs)
ASSUME FaultsAssumption ==
    Faults \subseteq {"get", "del", "incr", "reply", "pttl", "pexpire", "crash"}
ASSUME BoundAssumption == TriesBound \in Nat

Steps == {"idle", "check", "verify", "clear", "incr", "pttl", "window", "lock"}

VARIABLES
    count,    \* the key's value; 0 where there is no key
    ttl,      \* which PEXPIRE the key got last; "none": it never expires
    step,     \* the command each request sends next
    \* History: what the properties need to remember.
    tries,    \* wrong passwords examined since the key last vanished, and
              \* those examined before whose INCR was still to come
    failed    \* what has gone wrong so far

vars == <<count, ttl, step, tries, failed>>

TypeOK ==
    /\ count \in Nat
    /\ ttl \in {"none", "window", "lock"}
    /\ step \in [Procs -> Steps]
    /\ tries \in Nat
    /\ failed \in SUBSET Faults

Init ==
    /\ count = 0
    /\ ttl = "none"
    /\ step = [p \in Procs |-> "idle"]
    /\ tries = 0
    /\ failed = {}

\* Requests that have seen a wrong password and not yet counted it.
Counting == {p \in Procs : step[p] = "incr"}

Goto(p, s) == step' = [step EXCEPT ![p] = s]

\* The key is gone.
Vanish ==
    /\ count' = 0
    /\ ttl' = "none"
    /\ tries' = Cardinality(Counting)

-----------------------------------------------------------------------------
(* Requests: "check" starts LoginByPassword; "clear" is LoginByCode or     *)
(* ResetPassword, past their own checks.                                   *)

Begin(p, s) ==
    /\ step[p] = "idle"
    /\ s \in {"check", "clear"}
    /\ Goto(p, s)
    /\ UNCHANGED <<count, ttl, tries, failed>>

\* Faulty variant of Check: one failure too many is let through.
CheckOffByOne(p) ==
    /\ step[p] = "check"
    /\ Goto(p, IF count > MaxFailed THEN "idle" ELSE "verify")
    /\ UNCHANGED <<count, ttl, tries, failed>>

\* CheckLoginFailedAttempts.
Check(p) ==
    /\ step[p] = "check"
    /\ Goto(p, IF count >= MaxFailed THEN "idle" ELSE "verify")
    /\ UNCHANGED <<count, ttl, tries, failed>>

\* Faulty variant of Verify: a refused login counts as a failed one.
VerifyCountsRefused(p, answer) ==
    /\ step[p] = "verify"
    /\ Goto(p, IF answer = "right" THEN "clear" ELSE "incr")
    /\ tries < TriesBound
    /\ tries' = IF answer = "wrong" THEN tries + 1 ELSE tries
    /\ UNCHANGED <<count, ttl, failed>>

\* FindByMobile and the password: right; wrong, or no such user; refused
\* (disabled account, database down).
Verify(p, answer) ==
    /\ step[p] = "verify"
    /\ \/ /\ answer = "right"
          /\ Goto(p, "clear")
          /\ UNCHANGED tries
       \/ /\ answer = "wrong"
          /\ tries < TriesBound
          /\ Goto(p, "incr")
          /\ tries' = tries + 1
       \/ /\ answer = "refused"
          /\ Goto(p, "idle")
          /\ UNCHANGED tries
    /\ UNCHANGED <<count, ttl, failed>>

\* ClearLoginFailure.
Clear(p) ==
    /\ step[p] = "clear"
    /\ Goto(p, "idle")
    /\ Vanish
    /\ UNCHANGED failed

-----------------------------------------------------------------------------
(* RecordLoginFailure.                                                     *)

\* INCR keeps the key's time to live, and creates the key without one.
Incr(p) ==
    /\ step[p] = "incr"
    /\ count' = count + 1
    /\ Goto(p, IF count + 1 = MaxFailed THEN "lock"
               ELSE IF count + 1 < MaxFailed THEN "pttl" ELSE "idle")
    /\ UNCHANGED <<ttl, tries, failed>>

\* Faulty variant of ReadTtl: a key without expiry is left alone.
ReadTtlPositive(p) ==
    /\ step[p] = "pttl"
    /\ Goto(p, IF count = 0 THEN "window" ELSE "idle")
    /\ UNCHANGED <<count, ttl, tries, failed>>

\* PTTL answers a negative number for a key without expiry, and for no key.
ReadTtl(p) ==
    /\ step[p] = "pttl"
    /\ Goto(p, IF ttl = "none" THEN "window" ELSE "idle")
    /\ UNCHANGED <<count, ttl, tries, failed>>

\* PEXPIRE does nothing when there is no key.
PExpire(p, kind) ==
    /\ step[p] = kind
    /\ ttl' = IF count > 0 THEN kind ELSE ttl
    /\ Goto(p, "idle")
    /\ UNCHANGED <<count, tries, failed>>

SetWindow(p) == PExpire(p, "window")

\* Faulty variant of SetLock: SET drops the time to live.
SetLockForever(p) ==
    /\ step[p] = "lock"
    /\ ttl' = "none"
    /\ Goto(p, "idle")
    /\ UNCHANGED <<count, tries, failed>>

SetLock(p) == PExpire(p, "lock")

-----------------------------------------------------------------------------
(* Time, and what goes wrong.                                              *)

\* Redis drops the key when its time to live is over.
Expire ==
    /\ count > 0
    /\ ttl # "none"
    /\ Vanish
    /\ UNCHANGED <<step, failed>>

\* Command f, sent at step s, fails and the request goes on at step next.
Failing(p, f, s, next) ==
    /\ f \in Faults
    /\ step[p] = s
    /\ Goto(p, next)
    /\ failed' = failed \cup {f}
    /\ UNCHANGED <<count, ttl, tries>>

\* The command does not reach Redis, or what it did is the same either way.
\* A failed GET lets the login go on, a failed PTTL counts as "no expiry",
\* the other failures end the counting (not the login).
CommandFails(p) ==
    \/ Failing(p, "get", "check", "verify")
    \/ Failing(p, "del", "clear", "idle")
    \/ Failing(p, "incr", "incr", "idle")
    \/ Failing(p, "pttl", "pttl", "window")
    \/ \E s \in {"window", "lock"} : Failing(p, "pexpire", s, "idle")

\* Redis executes the INCR and the reply is lost: RecordLoginFailure sees the
\* same failure and returns, without PTTL and PEXPIRE.  (A DEL or a PEXPIRE
\* whose reply is lost does what Clear or PExpire does.)
IncrReplyLost(p) ==
    /\ "reply" \in Faults
    /\ step[p] = "incr"
    /\ count' = count + 1
    /\ Goto(p, "idle")
    /\ failed' = failed \cup {"reply"}
    /\ UNCHANGED <<ttl, tries>>

\* The server process dies between two commands.
Crash(p) ==
    /\ step[p] # "idle"
    /\ Failing(p, "crash", step[p], "idle")

-----------------------------------------------------------------------------
\* The next command of a request.
Serve(p) ==
    \/ Check(p)
    \/ \E answer \in {"right", "wrong", "refused"} : Verify(p, answer)
    \/ Clear(p)
    \/ Incr(p)
    \/ ReadTtl(p)
    \/ SetWindow(p)
    \/ SetLock(p)
    \/ CommandFails(p)
    \/ IncrReplyLost(p)

Next ==
    \/ \E p \in Procs : \/ \E s \in {"check", "clear"} : Begin(p, s)
                        \/ Serve(p)
                        \/ Crash(p)
    \/ Expire

Spec == Init /\ [][Next]_vars

\* Requests run to their end (every command has a socket timeout), and time
\* passes.
FairSpec ==
    /\ Spec
    /\ \A p \in Procs : WF_vars(Serve(p))
    /\ WF_vars(Expire)

-----------------------------------------------------------------------------
(* Properties.                                                             *)

\* However many logins run at once, at most MaxFailed - 1 wrong passwords
\* plus one for each request thread are examined before the account locks:
\* the check and the increment are separate commands, and this is all the
\* slack the gap gives.  Until a GET fails, an INCR does not reach Redis or a
\* process dies; an INCR whose reply is lost has counted.
TriesBounded ==
    failed \cap {"get", "incr", "crash"} = {}
        => tries <= MaxFailed - 1 + Cardinality(Procs)

\* No lock out of thin air: the counter never runs ahead of the wrong
\* passwords that were really examined, whatever fails and however the
\* deletion of the key races with logins that are about to count.
NoFalseLock == count + Cardinality(Counting) <= tries

\* What leaves a counter without a time to live and nobody to set one: a
\* PEXPIRE that fails, an INCR that was executed and reported as failed, a
\* process that dies before its PEXPIRE.
Broken == failed \cap {"pexpire", "reply", "crash"} # {}

\* The counter is on its way to expire: a key without a time to live has a
\* request that is about to set one, although INCR creates the key without
\* one, DEL and expiry race with both, and PTTL may fail.  Until Broken.
CounterExpires ==
    ~Broken =>
        (count > 0 /\ ttl = "none" =>
            \E p \in Procs : step[p] \in {"pttl", "window", "lock"})

\* An account that RecordLoginFailure has locked is unlocked again, unless
\* Broken: RecordLoginFailure never sets a time to live again once the
\* counter has passed MaxFailed, and a locked account counts no more.
LockEndsUnlessBroken == count >= MaxFailed ~> count < MaxFailed \/ Broken
=============================================================================
