---------------------------- MODULE PoolCustody ----------------------------
(***************************************************************************)
(* What the connection pool promises about the custody of connections,     *)
(* without mutex, condition variable, deadlines or reconnects: a           *)
(* connection is handed from the front of the deque to an empty guard, and *)
(* back from a guard to the end of the deque.  When a reconnect may fail,  *)
(* a guard may also be emptied for good.                                   *)
(***************************************************************************)
EXTENDS Naturals, Sequences

CONSTANTS
    Threads,
    PoolSize,
    MayLose     \* whether a reconnect may fail

VARIABLES
    pool,       \* the free connections, in the order they are handed out
    guard       \* guard[t][i]: the connection in guard i of thread t, or 0

Guards == {1, 2}

Init ==
    /\ pool = [i \in 1 .. PoolSize |-> i]
    /\ guard = [t \in Threads |-> [i \in Guards |-> 0]]

HandOut(t, i) ==
    /\ pool # <<>>
    /\ guard[t][i] = 0
    /\ guard' = [guard EXCEPT ![t][i] = Head(pool)]
    /\ pool' = Tail(pool)

GiveBack(t, i) ==
    /\ guard[t][i] # 0
    /\ pool' = Append(pool, guard[t][i])
    /\ guard' = [guard EXCEPT ![t][i] = 0]

Lose(t, i) ==
    /\ MayLose
    /\ guard[t][i] # 0
    /\ guard' = [guard EXCEPT ![t][i] = 0]
    /\ UNCHANGED pool

Next ==
    \E t \in Threads, i \in Guards :
        HandOut(t, i) \/ GiveBack(t, i) \/ Lose(t, i)

Spec == Init /\ [][Next]_<<pool, guard>>
=============================================================================
