--------------------------- MODULE ConnectionPool ---------------------------
(***************************************************************************)
(* TemplateConnectionPool (include/pool/connection_pool.h) as the request  *)
(* threads of the server use it: Acquire, Release and the RAII guard,      *)
(* under one mutex and one condition variable.  A thread runs one request  *)
(* at a time.  A request takes one connection, except UserDB::Create,      *)
(* which keeps its connection while FindByUUID takes a second one.         *)
(*                                                                         *)
(* A connection is named by the slot it fills: rebuilding a dead           *)
(* connection gives a new object in the same slot.                         *)
(***************************************************************************)
EXTENDS Naturals, Sequences, FiniteSets

CONSTANTS
    Threads,          \* the server's request threads
    PoolSize,         \* MySQLConfig.pool_size
    RebuildOutcomes   \* what createConnFunc_ may do on a dead connection

ASSUME ThreadsAssumption == IsFiniteSet(Threads)
ASSUME PoolSizeAssumption == PoolSize \in Nat
ASSUME OutcomesAssumption == RebuildOutcomes \subseteq {"ok", "null", "throw"}

Conns == 1 .. PoolSize

NoConn == 0

\* Guard 1 is the request's own guard, guard 2 the one of the FindByUUID
\* call inside UserDB::Create.
Guards == {1, 2}

\* "acquire": blocked on the mutex in Acquire; "asleep": in cond_.wait_for;
\* "awake": notified, spuriously woken or timed out, wants the mutex back;
\* "rebuildA", "rebuildR": holds the mutex and reconnects, in Acquire or in
\* Release; "using": runs the request's statements.
PCs == {"idle", "acquire", "asleep", "awake", "rebuildA", "using", "rebuildR"}

VARIABLES
    pool,        \* pool_, the deque of free connections
    pc,          \* where each thread is
    guard,       \* guard[t][i]: the connection inside guard i of thread t
    todo,        \* how many Acquire calls the thread's request has to make
    expired,     \* threads whose wait_for deadline has passed
    broken,      \* connections whose Valid() would answer false
    process      \* whether std::terminate was called

vars == <<pool, pc, guard, todo, expired, broken, process>>

TypeOK ==
    /\ pool \in Seq(Conns)
    /\ pc \in [Threads -> PCs]
    /\ guard \in [Threads -> [Guards -> Conns \cup {NoConn}]]
    /\ todo \in [Threads -> 0 .. 2]
    /\ expired \in SUBSET Threads
    /\ broken \in SUBSET Conns
    /\ process \in {"running", "terminated"}

\* InitPool fills the deque before any thread can see the pool.
Init ==
    /\ pool = [i \in 1 .. PoolSize |-> i]
    /\ pc = [t \in Threads |-> "idle"]
    /\ guard = [t \in Threads |-> [i \in Guards |-> NoConn]]
    /\ todo = [t \in Threads |-> 0]
    /\ expired = {}
    /\ broken = {}
    /\ process = "running"

-----------------------------------------------------------------------------
(* The guards of a thread are constructed and destroyed in stack order.    *)

Level(t) == IF guard[t][2] # NoConn THEN 2
            ELSE IF guard[t][1] # NoConn THEN 1 ELSE 0

MutexFree == \A t \in Threads : pc[t] \notin {"rebuildA", "rebuildR"}

Sleepers == {t \in Threads : pc[t] = "asleep"}

Awake == {t \in Threads : pc[t] = "awake"}

\* Where the request goes on once a guard is gone or was not obtained:
\* the remaining guards are destroyed, then the thread is idle.
AfterUnwind(level) == IF level > 0 THEN "using" ELSE "idle"

-----------------------------------------------------------------------------
(* Acquire.                                                                *)

\* The connection is moved into the guard under construction.
Grant(t, c) ==
    /\ guard' = [guard EXCEPT ![t][Level(t) + 1] = c]
    /\ todo' = [todo EXCEPT ![t] = @ - 1]
    /\ pc' = [pc EXCEPT ![t] = "using"]
    /\ expired' = expired \ {t}

\* Faulty variant of AcquireFails: the request tries again instead of
\* unwinding.
AcquireFailsRetry(t, level) ==
    /\ pc' = [pc EXCEPT ![t] = "acquire"]
    /\ expired' = expired \ {t}
    /\ UNCHANGED todo

\* Acquire returns nullptr (the guard's constructor throws) or throws
\* itself: the request makes no further Acquire and unwinds.
AcquireFails(t, level) ==
    /\ todo' = [todo EXCEPT ![t] = 0]
    /\ pc' = [pc EXCEPT ![t] = AfterUnwind(level)]
    /\ expired' = expired \ {t}

\* pool_ is not empty: pop_front, then Valid(); a dead connection is kept
\* in the guard's slot while it is rebuilt with the mutex held.
Take(t) ==
    /\ pool # <<>>
    /\ pool' = Tail(pool)
    /\ IF Head(pool) \in broken
       THEN /\ guard' = [guard EXCEPT ![t][Level(t) + 1] = Head(pool)]
            /\ pc' = [pc EXCEPT ![t] = "rebuildA"]
            /\ expired' = expired \ {t}
            /\ UNCHANGED todo
       ELSE Grant(t, Head(pool))
    /\ UNCHANGED <<broken, process>>

\* A request arrives; n = 2 is UserDB::Create.
Call(t, n) ==
    /\ pc[t] = "idle"
    /\ pc' = [pc EXCEPT ![t] = "acquire"]
    /\ todo' = [todo EXCEPT ![t] = n]
    /\ UNCHANGED <<pool, guard, expired, broken, process>>

\* UserDB::Create has inserted the row and calls FindByUUID.
Nested(t) ==
    /\ pc[t] = "using"
    /\ todo[t] > 0
    /\ pc' = [pc EXCEPT ![t] = "acquire"]
    /\ UNCHANGED <<pool, guard, todo, expired, broken, process>>

\* The INSERT of UserDB::Create throws (duplicate key, lost connection).
StatementFails(t) ==
    /\ pc[t] = "using"
    /\ todo[t] > 0
    /\ todo' = [todo EXCEPT ![t] = 0]
    /\ UNCHANGED <<pool, pc, guard, expired, broken, process>>

\* First evaluation of wait_for's predicate.
Enter(t) ==
    /\ pc[t] = "acquire"
    /\ MutexFree
    /\ \/ Take(t)
       \/ /\ pool = <<>>
          /\ pc' = [pc EXCEPT ![t] = "asleep"]
          /\ UNCHANGED <<pool, guard, todo, expired, broken, process>>

\* The five seconds are over; the thread leaves the condition variable but
\* still has to get the mutex.
Deadline(t) ==
    /\ pc[t] \in {"asleep", "awake"}
    /\ t \notin expired
    /\ expired' = expired \cup {t}
    /\ pc' = [pc EXCEPT ![t] = "awake"]
    /\ UNCHANGED <<pool, guard, todo, broken, process>>

SpuriousWakeup(t) ==
    /\ pc[t] = "asleep"
    /\ pc' = [pc EXCEPT ![t] = "awake"]
    /\ UNCHANGED <<pool, guard, todo, expired, broken, process>>

\* Faulty variant of Recheck: cond_.wait in place of cond_.wait_for.
RecheckNoDeadline(t) ==
    /\ pc[t] = "awake"
    /\ MutexFree
    /\ \/ Take(t)
       \/ /\ pool = <<>>
          /\ pc' = [pc EXCEPT ![t] = "asleep"]
          /\ UNCHANGED <<pool, guard, todo, expired, broken, process>>

\* wait_for evaluates its predicate again with the mutex held: a free
\* connection is taken even after the deadline.
Recheck(t) ==
    /\ pc[t] = "awake"
    /\ MutexFree
    /\ \/ Take(t)
       \/ /\ pool = <<>>
          /\ t \in expired
          /\ AcquireFails(t, Level(t))
          /\ UNCHANGED <<pool, guard, broken, process>>
       \/ /\ pool = <<>>
          /\ t \notin expired
          /\ pc' = [pc EXCEPT ![t] = "asleep"]
          /\ UNCHANGED <<pool, guard, todo, expired, broken, process>>

\* createConnFunc_ returns in Acquire.  Without a new connection the slot
\* is in no container any more.
RebuiltForAcquire(t, outcome) ==
    /\ pc[t] = "rebuildA"
    /\ \/ /\ outcome = "ok"
          /\ broken' = broken \ {guard[t][Level(t)]}
          /\ todo' = [todo EXCEPT ![t] = @ - 1]
          /\ pc' = [pc EXCEPT ![t] = "using"]
          /\ UNCHANGED <<guard, expired>>
       \/ /\ outcome \in {"null", "throw"}
          /\ guard' = [guard EXCEPT ![t][Level(t)] = NoConn]
          /\ AcquireFails(t, Level(t) - 1)
          /\ UNCHANGED broken
    /\ UNCHANGED <<pool, process>>

-----------------------------------------------------------------------------
(* Release, called from ~ConnectionGuard.                                  *)

\* Faulty variant of PutBack: wake a waiter only when the deque was empty.
PutBackNotifyIfEmpty(t) ==
    LET c == guard[t][Level(t)] IN
    /\ pool' = Append(pool, c)
    /\ guard' = [guard EXCEPT ![t][Level(t)] = NoConn]
    /\ \/ /\ (Sleepers = {} \/ pool # <<>>)
          /\ pc' = [pc EXCEPT ![t] = AfterUnwind(Level(t) - 1)]
       \/ \E w \in Sleepers :
             /\ pool = <<>>
             /\ pc' = [pc EXCEPT ![t] = AfterUnwind(Level(t) - 1),
                                 ![w] = "awake"]

\* Faulty variant of PutBack: the moved-from guard is not cleared.
PutBackKeepGuard(t) ==
    /\ pool' = Append(pool, guard[t][Level(t)])
    /\ UNCHANGED guard
    /\ \/ /\ Sleepers = {}
          /\ pc' = [pc EXCEPT ![t] = AfterUnwind(Level(t) - 1)]
       \/ \E w \in Sleepers :
             pc' = [pc EXCEPT ![t] = AfterUnwind(Level(t) - 1),
                              ![w] = "awake"]

\* push_back and notify_one; conn_ = nullptr in the guard.
PutBack(t) ==
    LET c == guard[t][Level(t)] IN
    /\ pool' = Append(pool, c)
    /\ guard' = [guard EXCEPT ![t][Level(t)] = NoConn]
    /\ \/ /\ Sleepers = {}
          /\ pc' = [pc EXCEPT ![t] = AfterUnwind(Level(t) - 1)]
       \/ \E w \in Sleepers :
             pc' = [pc EXCEPT ![t] = AfterUnwind(Level(t) - 1),
                              ![w] = "awake"]

\* The request is done with its innermost guard.
BeginRelease(t) ==
    /\ pc[t] = "using"
    /\ todo[t] = 0
    /\ MutexFree
    /\ IF guard[t][Level(t)] \in broken
       THEN /\ pc' = [pc EXCEPT ![t] = "rebuildR"]
            /\ UNCHANGED <<pool, guard>>
       ELSE PutBack(t)
    /\ UNCHANGED <<todo, expired, broken, process>>

\* createConnFunc_ returns in Release.  Its nullptr is logged and the slot
\* is lost; its exception meets the noexcept destructor of the guard.
RebuiltForRelease(t, outcome) ==
    /\ pc[t] = "rebuildR"
    /\ \/ /\ outcome = "ok"
          /\ broken' = broken \ {guard[t][Level(t)]}
          /\ PutBack(t)
          /\ UNCHANGED process
       \/ /\ outcome = "null"
          /\ guard' = [guard EXCEPT ![t][Level(t)] = NoConn]
          /\ pc' = [pc EXCEPT ![t] = AfterUnwind(Level(t) - 1)]
          /\ UNCHANGED <<pool, broken, process>>
       \/ /\ outcome = "throw"
          /\ process' = "terminated"
          /\ UNCHANGED <<pool, pc, guard, broken>>
    /\ UNCHANGED <<todo, expired>>

\* The MySQL server drops a connection (idle timeout, restart, network).
Break(c) ==
    /\ c \notin broken
    /\ broken' = broken \cup {c}
    /\ UNCHANGED <<pool, pc, guard, todo, expired, process>>

-----------------------------------------------------------------------------
ThreadStep(t) ==
    \/ \E n \in 1 .. 2 : Call(t, n)
    \/ Nested(t)
    \/ StatementFails(t)
    \/ Enter(t)
    \/ Deadline(t)
    \/ SpuriousWakeup(t)
    \/ Recheck(t)
    \/ BeginRelease(t)
    \/ \E o \in RebuildOutcomes :
          RebuiltForAcquire(t, o) \/ RebuiltForRelease(t, o)

\* A terminated process takes no step.
Next ==
    \/ /\ process = "running"
       /\ \/ \E t \in Threads : ThreadStep(t)
          \/ \E c \in Conns : Break(c)
    \/ process = "terminated" /\ UNCHANGED vars

Spec == Init /\ [][Next]_vars

\* Threads are scheduled, std::mutex lets every contender in eventually,
\* time passes, and a reconnect attempt ends (its retries are bounded and
\* its sockets have timeouts).  Arriving requests and dying connections are
\* not fair.
Fairness ==
    \A t \in Threads :
        /\ WF_vars(process = "running" /\ Deadline(t))
        /\ WF_vars(process = "running" /\ (Nested(t) \/ StatementFails(t)))
        /\ WF_vars(process = "running" /\ \E o \in RebuildOutcomes :
                      RebuiltForAcquire(t, o) \/ RebuiltForRelease(t, o))
        /\ SF_vars(process = "running" /\ Enter(t))
        /\ SF_vars(process = "running" /\ Recheck(t))
        /\ SF_vars(process = "running" /\ BeginRelease(t))

FairSpec == Spec /\ Fairness

-----------------------------------------------------------------------------
(* Properties.                                                             *)

Pooled(c) == \E i \in 1 .. Len(pool) : pool[i] = c

Guarded(c) == \E t \in Threads : \E i \in Guards : guard[t][i] = c

\* How the program counter, the guards and the Acquire calls still to make
\* fit together: guard 2 lives inside the lifetime of guard 1, and a request
\* never asks for a third connection.  (The strengthening the proofs of
\* TypeOK and OnePlace need.)
GuardDiscipline ==
    \A t \in Threads :
        /\ guard[t][2] # NoConn => guard[t][1] # NoConn
        /\ pc[t] = "idle" => Level(t) = 0 /\ todo[t] = 0
        /\ pc[t] \in {"acquire", "asleep", "awake"} =>
              todo[t] > 0 /\ Level(t) + todo[t] <= 2
        /\ pc[t] = "rebuildA" =>
              Level(t) > 0 /\ todo[t] > 0 /\ Level(t) + todo[t] <= 3
        /\ pc[t] = "using" => Level(t) > 0 /\ Level(t) + todo[t] <= 2
        /\ pc[t] = "rebuildR" => Level(t) > 0 /\ todo[t] = 0

\* A connection is in one place: never twice in pool_, never in pool_ and in
\* a guard, never in two guards.  Two requests interleaving statements on
\* one MySQL session is what Acquire, Release and the move-only guard rule
\* out.
OnePlace ==
    /\ \A i, j \in 1 .. Len(pool) : pool[i] = pool[j] => i = j
    /\ \A t \in Threads, i \in Guards : ~Pooled(guard[t][i])
    /\ \A t, u \in Threads, i, j \in Guards :
          guard[t][i] = guard[u][j] /\ guard[t][i] # NoConn
             => t = u /\ i = j

\* A thread sleeps in cond_.wait_for only if every free connection is spoken
\* for by a thread that is already awake: the single notify_one of Release
\* and the re-check in wait_for lose no wakeup, whatever newcomers barge in,
\* time out or wake spuriously in between.
NoLostWakeup == Sleepers # {} => Len(pool) <= Cardinality(Awake)

\* The pool implements PoolCustody: whatever the threads do, a connection
\* only moves from the front of pool_ into an empty guard and from a guard
\* to the back of pool_, and is lost only if a reconnect can fail.
Custody == INSTANCE PoolCustody
           WITH MayLose <- RebuildOutcomes \cap {"null", "throw"} # {}

CustodySpec == Custody!Spec

\* Release's documentation: a failed rebuild throws nothing, it is only
\* logged; the destructor that calls it never ends the process.
ReleaseDoesNotThrow == process = "running"

\* Acquire returns, with a connection or without, even when all threads
\* hold one connection and wait for a second one (UserDB::Create): the
\* deadline is what breaks the cycle.
AcquireReturns ==
    \A t \in Threads :
        pc[t] \in {"acquire", "asleep", "awake", "rebuildA"}
            ~> (pc[t] \in {"using", "idle"} \/ process = "terminated")

\* Every request gives back what it holds and ends.
RequestsEnd ==
    \A t \in Threads : pc[t] # "idle" ~> (pc[t] = "idle" \/ process = "terminated")
=============================================================================
