----------------------- MODULE ConnectionPool_proofs -----------------------
(***************************************************************************)
(* Proofs about ConnectionPool, for any number of threads and any          *)
(* pool_size; about MySQLConnect, the constructor that the pool's          *)
(* createConnFunc_ runs, for every max_retries and whatever fails; about   *)
(* SqlBuilder, the statements that go over the connections, for every      *)
(* template and all parameters; and about JwtCodec, for every issuer,      *)
(* subject and user.  SqlBuilder and JwtCodec go through texts byte by     *)
(* byte: their proofs share the induction over the runs of a loop.         *)
(*                                                                         *)
(* JwtCodec: after n bytes, or n digits, val has the bits that are still   *)
(* needed, whatever it has lost (Encoded, Decoded).  The JSON reader is    *)
(* followed through the text that BuildJson writes, pair by pair           *)
(* (ParsesTo).  Behind an issuer that begins like a number and breaks off, *)
(* it may be anywhere, but whatever it stores as the issuer is shorter     *)
(* than what was signed (CutState), and nothing that follows has the       *)
(* issuer's key (LostState).                                               *)
(***************************************************************************)
EXTENDS ConnectionPool, MySQLConnect, SqlBuilder, JwtCodec, FiniteSetTheorems, SequenceTheorems, TLAPS

\* Types and the life cycle of the guards go together: a guard's slot number
\* is in range because of how many Acquire calls are left.
Shape == TypeOK /\ GuardDiscipline

\* The empty guard is no slot of the pool.
LEMMA NoConnIsNoConn == NoConn \notin Conns
BY PoolSizeAssumption DEF NoConn, Conns

\* InitPool leaves types and guard life cycle in order.
LEMMA InitShape == Init => Shape
<1> SUFFICES ASSUME Init PROVE Shape
  OBVIOUS
<1>1. pool \in Seq(Conns)
  BY PoolSizeAssumption DEF Init, Conns
<1>2. TypeOK
  BY <1>1 DEF Init, TypeOK, Guards, PCs
<1>3. GuardDiscipline
  BY DEF Init, GuardDiscipline, NoConn, Guards, Level
<1> QED BY <1>2, <1>3 DEF Shape

\* Writing one guard leaves the type and every other guard alone.
LEMMA SetGuard ==
    ASSUME guard \in [Threads -> [Guards -> Conns \cup {NoConn}]],
           NEW t \in Threads, NEW i \in Guards,
           NEW c \in Conns \cup {NoConn}
    PROVE  LET g == [guard EXCEPT ![t][i] = c] IN
           /\ g \in [Threads -> [Guards -> Conns \cup {NoConn}]]
           /\ g[t][i] = c
           /\ \A j \in Guards : j # i => g[t][j] = guard[t][j]
           /\ \A u \in Threads : u # t => g[u] = guard[u]
OBVIOUS

\* What GuardDiscipline says of one thread.
Discipline(p, g1, g2, n) ==
    LET level == IF g2 # NoConn THEN 2 ELSE IF g1 # NoConn THEN 1 ELSE 0 IN
    /\ g2 # NoConn => g1 # NoConn
    /\ p = "idle" => level = 0 /\ n = 0
    /\ p \in {"acquire", "asleep", "awake"} => n > 0 /\ level + n <= 2
    /\ p = "rebuildA" => level > 0 /\ n > 0 /\ level + n <= 3
    /\ p = "using" => level > 0 /\ level + n <= 2
    /\ p = "rebuildR" => level > 0 /\ n = 0

\* GuardDiscipline is a condition on each thread by itself.
LEMMA DisciplineDef ==
    GuardDiscipline <=>
        \A t \in Threads : Discipline(pc[t], guard[t][1], guard[t][2], todo[t])
BY DEF GuardDiscipline, Discipline, Level

\* Acquire's success path: pop_front, then a guard or a rebuild.
LEMMA TakeShape ==
    ASSUME Shape, NEW t \in Threads, pc[t] \in {"acquire", "awake"}, Take(t)
    PROVE  Shape'
<1> USE DEF Shape
<1>1. /\ Head(pool) \in Conns
      /\ Tail(pool) \in Seq(Conns)
  BY DEF Take, TypeOK
<1>2. Level(t) \in {0, 1} /\ todo[t] \in 1 .. 2 /\ Level(t) + todo[t] <= 2
  BY DEF GuardDiscipline, Level, TypeOK
<1>3. Level(t) + 1 \in Guards
  BY <1>2 DEF Guards
<1>4. guard' = [guard EXCEPT ![t][Level(t) + 1] = Head(pool)]
  BY DEF Take, Grant
<1>5. /\ guard' \in [Threads -> [Guards -> Conns \cup {NoConn}]]
      /\ guard'[t][Level(t) + 1] = Head(pool)
      /\ \A j \in Guards : j # Level(t) + 1 => guard'[t][j] = guard[t][j]
      /\ \A u \in Threads : u # t => guard'[u] = guard[u]
  BY <1>1, <1>3, <1>4, SetGuard DEF TypeOK
<1>6. \A u \in Threads : u # t => pc'[u] = pc[u] /\ todo'[u] = todo[u]
  BY DEF Take, Grant, TypeOK
<1>7. \/ pc'[t] = "rebuildA" /\ todo'[t] = todo[t]
      \/ pc'[t] = "using" /\ todo'[t] = todo[t] - 1
  BY DEF Take, Grant, TypeOK
<1>8. TypeOK'
  <2>1. pool' \in Seq(Conns) /\ expired' \subseteq Threads
    BY <1>1 DEF Take, Grant, TypeOK
  <2>2. pc' \in [Threads -> PCs]
    BY DEF Take, Grant, TypeOK, PCs
  <2>3. todo' \in [Threads -> 0 .. 2]
    BY <1>2 DEF Take, Grant, TypeOK
  <2> QED BY <1>5, <2>1, <2>2, <2>3 DEF Take, TypeOK
<1>9. GuardDiscipline'
  <2> SUFFICES ASSUME NEW u \in Threads
               PROVE  Discipline(pc[u], guard[u][1], guard[u][2], todo[u])'
    BY DEF GuardDiscipline, Discipline, Level
  <2>1. CASE u # t
    BY <2>1, <1>5, <1>6, DisciplineDef
  <2>2. CASE u = t
    BY <2>2, <1>1, <1>2, <1>5, <1>7, NoConnIsNoConn
       DEF Discipline, Level, Guards, TypeOK
  <2> QED BY <2>1, <2>2
<1> QED BY <1>8, <1>9

\* push_back and notify_one: the thread loses its innermost guard and at most
\* one sleeper wakes.
LEMMA PutBackFrame ==
    ASSUME Shape, NEW t \in Threads,
           pc[t] \in {"using", "rebuildR"}, todo[t] = 0, PutBack(t)
    PROVE  /\ Level(t) \in {1, 2}
           /\ guard[t][Level(t)] \in Conns
           /\ pool' = Append(pool, guard[t][Level(t)])
           /\ pool' \in Seq(Conns)
           /\ guard' \in [Threads -> [Guards -> Conns \cup {NoConn}]]
           /\ guard'[t][Level(t)] = NoConn
           /\ \A j \in Guards : j # Level(t) => guard'[t][j] = guard[t][j]
           /\ \A u \in Threads : u # t => guard'[u] = guard[u]
           /\ pc' \in [Threads -> PCs]
           /\ pc'[t] = AfterUnwind(Level(t) - 1)
           /\ \A u \in Threads :
                 u # t => \/ pc'[u] = pc[u]
                          \/ pc[u] = "asleep" /\ pc'[u] = "awake"
<1> USE DEF Shape
<1>1. Level(t) \in {1, 2} /\ guard[t][Level(t)] \in Conns
  BY NoConnIsNoConn DEF GuardDiscipline, Level, TypeOK, Guards
<1>2. Level(t) \in Guards
  BY <1>1 DEF Guards
<1>3. /\ guard' \in [Threads -> [Guards -> Conns \cup {NoConn}]]
      /\ guard'[t][Level(t)] = NoConn
      /\ \A j \in Guards : j # Level(t) => guard'[t][j] = guard[t][j]
      /\ \A u \in Threads : u # t => guard'[u] = guard[u]
  BY <1>2, SetGuard DEF PutBack, TypeOK
<1>4. pool' = Append(pool, guard[t][Level(t)]) /\ pool' \in Seq(Conns)
  BY <1>1 DEF PutBack, TypeOK
<1>5. AfterUnwind(Level(t) - 1) \in PCs
  BY DEF AfterUnwind, PCs
<1> DEFINE Woken == /\ pc' \in [Threads -> PCs]
                    /\ pc'[t] = AfterUnwind(Level(t) - 1)
                    /\ \A u \in Threads :
                          u # t => \/ pc'[u] = pc[u]
                                   \/ pc[u] = "asleep" /\ pc'[u] = "awake"
<1>6. Woken
  <2>1. CASE pc' = [pc EXCEPT ![t] = AfterUnwind(Level(t) - 1)]
    BY <1>5, <2>1 DEF TypeOK
  <2>2. ASSUME NEW w \in Sleepers,
               pc' = [pc EXCEPT ![t] = AfterUnwind(Level(t) - 1), ![w] = "awake"]
        PROVE  Woken
    BY <1>5, <2>2 DEF TypeOK, Sleepers, PCs
  <2> QED BY <2>1, <2>2 DEF PutBack
<1> QED BY <1>1, <1>3, <1>4, <1>6

\* push_back, notify_one and the clearing of the guard keep Shape.
LEMMA PutBackShape ==
    ASSUME Shape, NEW t \in Threads,
           pc[t] \in {"using", "rebuildR"}, todo[t] = 0, PutBack(t),
           UNCHANGED <<todo, expired>>,
           broken' \subseteq Conns, process' = process
    PROVE  Shape'
<1>1. TypeOK'
  BY PutBackFrame DEF Shape, TypeOK
<1>2. GuardDiscipline'
  <2> SUFFICES ASSUME NEW u \in Threads
               PROVE  Discipline(pc[u], guard[u][1], guard[u][2], todo[u])'
    BY DEF GuardDiscipline, Discipline, Level
  <2>1. CASE u # t
    BY <2>1, PutBackFrame, DisciplineDef DEF Shape, Discipline
  <2>2. CASE u = t
    BY <2>2, PutBackFrame, NoConnIsNoConn
       DEF Shape, GuardDiscipline, Discipline, Level, Guards, TypeOK, AfterUnwind
  <2> QED BY <2>1, <2>2
<1> QED BY <1>1, <1>2 DEF Shape

\* A step that touches one thread only.
LEMMA LocalShape ==
    ASSUME Shape, NEW t \in Threads, TypeOK',
           \A u \in Threads :
              u # t => /\ pc'[u] = pc[u]
                       /\ guard'[u] = guard[u]
                       /\ todo'[u] = todo[u],
           Discipline(pc'[t], guard'[t][1], guard'[t][2], todo'[t])
    PROVE  Shape'
<1>1. \A u \in Threads :
         Discipline(pc[u], guard[u][1], guard[u][2], todo[u])'
  BY DisciplineDef DEF Shape
<1> QED BY <1>1 DEF Shape, GuardDiscipline, Discipline, Level

\* Acquire gives up in thread t, whose innermost guard, if it was being
\* filled, is cleared.
LEMMA FailedRebuildShape ==
    ASSUME Shape, NEW t \in Threads, pc[t] = "rebuildA",
           guard' = [guard EXCEPT ![t][Level(t)] = NoConn],
           AcquireFails(t, Level(t) - 1),
           UNCHANGED <<pool, broken, process>>
    PROVE  Shape'
<1>1. Level(t) \in {1, 2} /\ Level(t) \in Guards
  BY DEF Shape, GuardDiscipline, Level, Guards
<1>2. /\ guard' \in [Threads -> [Guards -> Conns \cup {NoConn}]]
      /\ guard'[t][Level(t)] = NoConn
      /\ \A j \in Guards : j # Level(t) => guard'[t][j] = guard[t][j]
      /\ \A u \in Threads : u # t => guard'[u] = guard[u]
  BY <1>1, SetGuard DEF Shape, TypeOK
<1>3. TypeOK'
  BY <1>2 DEF Shape, TypeOK, AcquireFails, AfterUnwind, PCs
<1>4. Discipline(pc'[t], guard'[t][1], guard'[t][2], todo'[t])
  BY <1>1, <1>2, NoConnIsNoConn
     DEF Shape, GuardDiscipline, Discipline, Level, Guards, TypeOK,
         AcquireFails, AfterUnwind
<1> QED BY <1>2, <1>3, <1>4, LocalShape DEF AcquireFails, Shape, TypeOK

\* Every step of every thread, and of the MySQL server, keeps Shape.
LEMMA NextShape == Shape /\ [Next]_vars => Shape'
<1> SUFFICES ASSUME Shape, [Next]_vars PROVE Shape'
  OBVIOUS
<1> USE DEF Shape
<1>1. ASSUME NEW t \in Threads, NEW n \in 1 .. 2, Call(t, n) PROVE Shape'
  <2>1. TypeOK'
    BY <1>1 DEF Call, TypeOK, PCs
  <2> QED BY <1>1, <2>1, LocalShape
          DEF Call, TypeOK, GuardDiscipline, Discipline, Level
<1>2. ASSUME NEW t \in Threads, Nested(t) PROVE Shape'
  <2>1. TypeOK'
    BY <1>2 DEF Nested, TypeOK, PCs
  <2> QED BY <1>2, <2>1, LocalShape
          DEF Nested, TypeOK, GuardDiscipline, Discipline, Level
<1>3. ASSUME NEW t \in Threads, StatementFails(t) PROVE Shape'
  <2>1. TypeOK'
    BY <1>3 DEF StatementFails, TypeOK
  <2> QED BY <1>3, <2>1, LocalShape
          DEF StatementFails, TypeOK, GuardDiscipline, Discipline, Level
<1>4. ASSUME NEW t \in Threads, Enter(t) PROVE Shape'
  <2>1. CASE Take(t)
    BY <1>4, <2>1, TakeShape DEF Enter
  <2>2. CASE ~Take(t)
    <3>1. TypeOK'
      BY <1>4, <2>2 DEF Enter, TypeOK, PCs
    <3> QED BY <1>4, <2>2, <3>1, LocalShape
            DEF Enter, TypeOK, GuardDiscipline, Discipline, Level
  <2> QED BY <2>1, <2>2
<1>5. ASSUME NEW t \in Threads, Deadline(t) PROVE Shape'
  <2>1. TypeOK'
    BY <1>5 DEF Deadline, TypeOK, PCs
  <2> QED BY <1>5, <2>1, LocalShape
          DEF Deadline, TypeOK, GuardDiscipline, Discipline, Level
<1>6. ASSUME NEW t \in Threads, SpuriousWakeup(t) PROVE Shape'
  <2>1. TypeOK'
    BY <1>6 DEF SpuriousWakeup, TypeOK, PCs
  <2> QED BY <1>6, <2>1, LocalShape
          DEF SpuriousWakeup, TypeOK, GuardDiscipline, Discipline, Level
<1>7. ASSUME NEW t \in Threads, Recheck(t) PROVE Shape'
  <2>1. CASE Take(t)
    BY <1>7, <2>1, TakeShape DEF Recheck
  <2>2. CASE ~Take(t) /\ t \in expired
    <3>1. TypeOK'
      BY <1>7, <2>2 DEF Recheck, AcquireFails, AfterUnwind, TypeOK, PCs
    <3> QED BY <1>7, <2>2, <3>1, LocalShape
            DEF Recheck, AcquireFails, AfterUnwind, TypeOK, GuardDiscipline,
                Discipline, Level
  <2>3. CASE ~Take(t) /\ t \notin expired
    <3>1. TypeOK'
      BY <1>7, <2>3 DEF Recheck, TypeOK, PCs
    <3> QED BY <1>7, <2>3, <3>1, LocalShape
            DEF Recheck, TypeOK, GuardDiscipline, Discipline, Level
  <2> QED BY <2>1, <2>2, <2>3
<1>8. ASSUME NEW t \in Threads, BeginRelease(t) PROVE Shape'
  <2>1. CASE guard[t][Level(t)] \in broken
    <3>1. TypeOK'
      BY <1>8, <2>1 DEF BeginRelease, TypeOK, PCs
    <3> QED BY <1>8, <2>1, <3>1, LocalShape
            DEF BeginRelease, TypeOK, GuardDiscipline, Discipline, Level
  <2>2. CASE guard[t][Level(t)] \notin broken
    BY <1>8, <2>2, PutBackShape DEF BeginRelease, TypeOK
  <2> QED BY <2>1, <2>2
<1>9. ASSUME NEW t \in Threads, NEW o, RebuiltForAcquire(t, o) PROVE Shape'
  <2>1. CASE o = "ok"
    <3>1. todo[t] \in 1 .. 2
      BY <1>9 DEF RebuiltForAcquire, GuardDiscipline, TypeOK
    <3>2. TypeOK'
      <4>1. pc' \in [Threads -> PCs] /\ todo' \in [Threads -> 0 .. 2]
        BY <1>9, <2>1, <3>1 DEF RebuiltForAcquire, TypeOK, PCs
      <4>2. broken' \in SUBSET Conns
        BY <1>9, <2>1 DEF RebuiltForAcquire, TypeOK
      <4> QED BY <1>9, <2>1, <4>1, <4>2 DEF RebuiltForAcquire, TypeOK
    <3> QED BY <1>9, <2>1, <3>2, LocalShape
            DEF RebuiltForAcquire, TypeOK, GuardDiscipline, Discipline, Level
  <2>2. CASE o # "ok"
    BY <1>9, <2>2, FailedRebuildShape DEF RebuiltForAcquire
  <2> QED BY <2>1, <2>2
<1>10. ASSUME NEW t \in Threads, NEW o, RebuiltForRelease(t, o) PROVE Shape'
  <2>0. pc[t] = "rebuildR" /\ todo[t] = 0 /\ Level(t) \in {1, 2}
    BY <1>10 DEF RebuiltForRelease, GuardDiscipline, Level
  <2>1. CASE o = "ok"
    BY <1>10, <2>0, <2>1, PutBackShape DEF RebuiltForRelease, TypeOK
  <2>2. CASE o = "null"
    <3>1. Level(t) \in Guards
      BY <2>0 DEF Guards
    <3>2. /\ guard' \in [Threads -> [Guards -> Conns \cup {NoConn}]]
          /\ guard'[t][Level(t)] = NoConn
          /\ \A j \in Guards : j # Level(t) => guard'[t][j] = guard[t][j]
          /\ \A u \in Threads : u # t => guard'[u] = guard[u]
      <4>1. guard' = [guard EXCEPT ![t][Level(t)] = NoConn]
        BY <1>10, <2>2 DEF RebuiltForRelease
      <4> QED BY <3>1, <4>1, SetGuard DEF TypeOK
    <3>3. TypeOK'
      <4>1. pc' \in [Threads -> PCs]
        BY <1>10, <2>2 DEF RebuiltForRelease, AfterUnwind, TypeOK, PCs
      <4> QED BY <1>10, <2>2, <3>2, <4>1 DEF RebuiltForRelease, TypeOK
    <3>4. Discipline(pc'[t], guard'[t][1], guard'[t][2], todo'[t])
      BY <1>10, <2>0, <2>2, <3>2, NoConnIsNoConn
         DEF RebuiltForRelease, AfterUnwind, GuardDiscipline, Discipline,
             Level, Guards, TypeOK
    <3> QED BY <1>10, <2>2, <3>2, <3>3, <3>4, LocalShape
            DEF RebuiltForRelease, TypeOK
  <2>3. CASE o = "throw"
    BY <1>10, <2>3 DEF RebuiltForRelease, TypeOK, GuardDiscipline, Level
  <2> QED BY <1>10, <2>1, <2>2, <2>3 DEF RebuiltForRelease
<1>11. ASSUME NEW c \in Conns, Break(c) PROVE Shape'
  BY <1>11 DEF Break, TypeOK, GuardDiscipline, Level
<1>12. CASE UNCHANGED vars
  BY <1>12 DEF vars, TypeOK, GuardDiscipline, Level
<1> QED
  BY <1>1, <1>2, <1>3, <1>4, <1>5, <1>6, <1>7, <1>8, <1>9, <1>10, <1>11, <1>12
     DEF Next, ThreadStep

\* pool_, the guards and the program counters keep their types: in
\* particular no request ever constructs a third guard, so a pool of
\* connections is never asked for more than two by one thread.
THEOREM TypeCorrect == Spec => [](TypeOK /\ GuardDiscipline)
<1>1. Init => Shape
  BY InitShape
<1>2. Shape /\ [Next]_vars => Shape'
  BY NextShape
<1> QED BY <1>1, <1>2, PTL DEF Spec, Shape

-----------------------------------------------------------------------------
(* The pool implements PoolCustody.                                        *)

\* A reconnect of thread t, for Acquire or for Release, returns nothing or
\* throws.
ReconnectFails(t) ==
    \E o \in RebuildOutcomes \cap {"null", "throw"} :
        RebuiltForAcquire(t, o) \/ RebuiltForRelease(t, o)

\* Every step of the pool is a step of PoolCustody or changes neither pool_
\* nor a guard; a connection is lost only where a reconnect fails, and it is
\* the one that was to be replaced.
LEMMA CustodyMove ==
    ASSUME Shape, [Next]_vars
    PROVE  \/ UNCHANGED <<pool, guard>>
           \/ \E t \in Threads, i \in Guards : Custody!HandOut(t, i) \/ Custody!GiveBack(t, i)
           \/ \E t \in Threads : /\ ReconnectFails(t) /\ Level(t) \in Guards
                                 /\ Custody!Lose(t, Level(t))
<1> USE DEF Shape
<1> DEFINE Moved == \/ UNCHANGED <<pool, guard>>
                    \/ \E t \in Threads, i \in Guards :
                          Custody!HandOut(t, i) \/ Custody!GiveBack(t, i)
                    \/ \E t \in Threads : /\ ReconnectFails(t) /\ Level(t) \in Guards
                                          /\ Custody!Lose(t, Level(t))
<1>1. ASSUME NEW t \in Threads, pc[t] \in {"acquire", "awake"}, Take(t)
      PROVE  Moved
  <2>1. Level(t) + 1 \in Guards /\ guard[t][Level(t) + 1] = 0
    BY <1>1 DEF GuardDiscipline, Level, Guards, TypeOK, NoConn
  <2>2. Custody!HandOut(t, Level(t) + 1)
    BY <1>1, <2>1 DEF Take, Grant, Custody!HandOut
  <2> QED BY <2>1, <2>2
<1>2. ASSUME NEW t \in Threads, pc[t] \in {"using", "rebuildR"}, todo[t] = 0,
             PutBack(t)
      PROVE  Moved
  <2>1. Level(t) \in Guards /\ guard[t][Level(t)] # 0
    BY <1>2 DEF GuardDiscipline, Level, Guards, TypeOK, NoConn
  <2>2. Custody!GiveBack(t, Level(t))
    BY <1>2, <2>1 DEF PutBack, Custody!GiveBack, NoConn
  <2> QED BY <2>1, <2>2
<1>3. ASSUME NEW t \in Threads, pc[t] \in {"rebuildA", "rebuildR"}, ReconnectFails(t),
             guard' = [guard EXCEPT ![t][Level(t)] = NoConn], pool' = pool
      PROVE  Moved
  <2>1. Level(t) \in Guards /\ guard[t][Level(t)] # 0
    BY <1>3 DEF GuardDiscipline, Level, Guards, TypeOK, NoConn
  <2>2. Custody!Lose(t, Level(t))
    BY <1>3, <2>1 DEF Custody!Lose, ReconnectFails, NoConn
  <2> QED BY <1>3, <2>1, <2>2
<1>4. ASSUME NEW t \in Threads, ThreadStep(t)
      PROVE  Moved
  <2>1. ASSUME NEW n \in 1 .. 2, Call(t, n) PROVE UNCHANGED <<pool, guard>>
    BY <2>1 DEF Call
  <2>2. CASE Nested(t) \/ StatementFails(t) \/ Deadline(t) \/ SpuriousWakeup(t)
    BY <2>2 DEF Nested, StatementFails, Deadline, SpuriousWakeup
  <2>3. CASE Enter(t)
    BY <1>1, <2>3 DEF Enter
  <2>4. CASE Recheck(t)
    BY <1>1, <2>4 DEF Recheck
  <2>5. CASE BeginRelease(t)
    BY <1>2, <2>5 DEF BeginRelease
  <2>6. ASSUME NEW o \in RebuildOutcomes, RebuiltForAcquire(t, o)
        PROVE  Moved
    <3>1. CASE o = "ok"
      BY <2>6, <3>1 DEF RebuiltForAcquire
    <3>2. CASE o \in {"null", "throw"}
      <4>1. ReconnectFails(t)
        BY <2>6, <3>2 DEF ReconnectFails
      <4> QED BY <1>3, <2>6, <3>2, <4>1 DEF RebuiltForAcquire
    <3> QED BY <2>6, <3>1, <3>2 DEF RebuiltForAcquire
  <2>7. ASSUME NEW o \in RebuildOutcomes, RebuiltForRelease(t, o)
        PROVE  Moved
    <3>1. todo[t] = 0 /\ pc[t] = "rebuildR"
      BY <2>7 DEF RebuiltForRelease, GuardDiscipline
    <3>2. CASE o = "ok"
      BY <1>2, <2>7, <3>1, <3>2 DEF RebuiltForRelease
    <3>3. CASE o = "null"
      <4>1. ReconnectFails(t)
        BY <2>7, <3>3 DEF ReconnectFails
      <4> QED BY <1>3, <2>7, <3>1, <3>3, <4>1 DEF RebuiltForRelease
    <3>4. CASE o = "throw"
      BY <2>7, <3>4 DEF RebuiltForRelease
    <3> QED BY <2>7, <3>2, <3>3, <3>4 DEF RebuiltForRelease
  <2> QED BY <1>4, <2>1, <2>2, <2>3, <2>4, <2>5, <2>6, <2>7 DEF ThreadStep
<1>5. ASSUME NEW c \in Conns, Break(c) PROVE UNCHANGED <<pool, guard>>
  BY <1>5 DEF Break
<1>6. CASE UNCHANGED vars
  BY <1>6 DEF vars
<1> QED BY <1>4, <1>5, <1>6 DEF Next

LEMMA CustodyStep ==
    ASSUME Shape, [Next]_vars
    PROVE  [Custody!Next]_<<pool, guard>>
BY CustodyMove DEF Custody!Next, Custody!Guards, Guards

\* ConnectionPool with its mutex, sleeping threads, deadlines and reconnects
\* implements the custody contract: Acquire and Release move a connection
\* between pool_ and one guard, and do nothing else to either.
THEOREM ImplementsCustody == Spec => CustodySpec
<1>1. Init => Custody!Init
  BY DEF Init, Custody!Init, Custody!Guards, Guards, NoConn
<1>2. Shape /\ [Next]_vars => [Custody!Next]_<<pool, guard>>
  BY CustodyStep
<1>3. Spec => []Shape
  BY TypeCorrect, PTL DEF Shape
<1> QED BY <1>1, <1>2, <1>3, PTL DEF Spec, CustodySpec, Custody!Spec

-----------------------------------------------------------------------------
(* No connection is in two places.                                         *)

\* Handing out, giving back and losing a connection duplicate none.
LEMMA OnePlaceStep ==
    ASSUME TypeOK, OnePlace, [Custody!Next]_<<pool, guard>>
    PROVE  OnePlace'
<1> USE DEF TypeOK
<1>1. ASSUME NEW t \in Threads, NEW i \in Guards, Custody!HandOut(t, i)
      PROVE  OnePlace'
  <2>1. /\ Head(pool) = pool[1] /\ Head(pool) \in Conns
        /\ Len(pool') = Len(pool) - 1 /\ Len(pool) \in Nat /\ Len(pool) > 0
        /\ \A k \in 1 .. Len(pool') :
              pool'[k] = pool[k + 1] /\ k + 1 \in 1 .. Len(pool)
    BY <1>1 DEF Custody!HandOut
  <2>2. /\ guard'[t][i] = Head(pool)
        /\ \A j \in Guards : j # i => guard'[t][j] = guard[t][j]
        /\ \A u \in Threads : u # t => guard'[u] = guard[u]
    <3>1. guard' = [guard EXCEPT ![t][i] = Head(pool)]
      BY <1>1 DEF Custody!HandOut
    <3> QED BY <2>1, <3>1, SetGuard
  <2>3. \A k, l \in 1 .. Len(pool') : pool'[k] = pool'[l] => k = l
    BY <2>1 DEF OnePlace
  <2>4. \A u \in Threads, j \in Guards, k \in 1 .. Len(pool') :
           pool'[k] # guard'[u][j]
    <3> SUFFICES ASSUME NEW u \in Threads, NEW j \in Guards,
                        NEW k \in 1 .. Len(pool')
                 PROVE  pool'[k] # guard'[u][j]
      OBVIOUS
    <3>1. CASE u = t /\ j = i
      <4>1. pool[k + 1] # pool[1]
        BY <2>1 DEF OnePlace
      <4> QED BY <2>1, <2>2, <3>1, <4>1
    <3>2. CASE ~(u = t /\ j = i)
      BY <2>1, <2>2, <3>2 DEF OnePlace, Pooled
    <3> QED BY <3>1, <3>2
  <2>5. \A u, v \in Threads, j, l \in Guards :
           guard'[u][j] = guard'[v][l] /\ guard'[u][j] # NoConn
              => u = v /\ j = l
    <3>1. \A u \in Threads, j \in Guards : guard[u][j] # Head(pool)
      BY <2>1 DEF OnePlace, Pooled
    <3>2. \A u \in Threads, j \in Guards :
             (u = t /\ j = i) \/ guard'[u][j] = guard[u][j]
      BY <2>2
    <3> SUFFICES ASSUME NEW u \in Threads, NEW v \in Threads,
                        NEW j \in Guards, NEW l \in Guards,
                        guard'[u][j] = guard'[v][l], guard'[u][j] # NoConn
                 PROVE  u = v /\ j = l
      OBVIOUS
    <3> QED BY <2>2, <3>1, <3>2 DEF OnePlace
  <2> QED BY <2>3, <2>4, <2>5 DEF OnePlace, Pooled
<1>2. ASSUME NEW t \in Threads, NEW i \in Guards,
             guard[t][i] # NoConn, guard' = [guard EXCEPT ![t][i] = NoConn],
             \/ pool' = pool
             \/ pool' = Append(pool, guard[t][i])
      PROVE  OnePlace'
  <2>1. guard[t][i] \in Conns
    BY <1>2
  <2>2. /\ guard'[t][i] = NoConn
        /\ \A j \in Guards : j # i => guard'[t][j] = guard[t][j]
        /\ \A u \in Threads : u # t => guard'[u] = guard[u]
    BY <1>2, SetGuard
  <2>3. \A k \in 1 .. Len(pool) : pool[k] # NoConn /\ pool[k] # guard[t][i]
    BY NoConnIsNoConn DEF OnePlace, Pooled
  <2>4. \A k \in 1 .. Len(pool') :
           \/ k \in 1 .. Len(pool) /\ pool'[k] = pool[k]
           \/ k = Len(pool) + 1 /\ pool'[k] = guard[t][i]
    BY <1>2, <2>1, SMTT(60)
  <2>5. \A k, l \in 1 .. Len(pool') : pool'[k] = pool'[l] => k = l
    BY <2>3, <2>4 DEF OnePlace
  <2>6. \A u \in Threads, j \in Guards, k \in 1 .. Len(pool') :
           pool'[k] # guard'[u][j]
    BY <1>2, <2>2, <2>3, <2>4 DEF OnePlace, Pooled
  <2>7. \A u, v \in Threads, j, l \in Guards :
           guard'[u][j] = guard'[v][l] /\ guard'[u][j] # NoConn
              => u = v /\ j = l
    <3>1. \A u \in Threads, j \in Guards :
             (u = t /\ j = i) \/ guard'[u][j] = guard[u][j]
      BY <2>2
    <3> SUFFICES ASSUME NEW u \in Threads, NEW v \in Threads,
                        NEW j \in Guards, NEW l \in Guards,
                        guard'[u][j] = guard'[v][l], guard'[u][j] # NoConn
                 PROVE  u = v /\ j = l
      OBVIOUS
    <3> QED BY <2>2, <3>1 DEF OnePlace
  <2> QED BY <2>5, <2>6, <2>7 DEF OnePlace, Pooled
<1>3. CASE UNCHANGED <<pool, guard>>
  BY <1>3 DEF OnePlace, Pooled
<1>4. ASSUME NEW t \in Threads, NEW i \in Guards,
             Custody!GiveBack(t, i) \/ Custody!Lose(t, i)
      PROVE  OnePlace'
  BY <1>2, <1>4 DEF Custody!GiveBack, Custody!Lose, NoConn
<1> QED BY <1>1, <1>3, <1>4 DEF Custody!Next, Custody!Guards, Guards

\* No two requests ever share a MySQL connection: it is in pool_ once, or in
\* exactly one guard.
THEOREM ConnectionsInOnePlace == Spec => []OnePlace
<1>1. Init => OnePlace
  <2> SUFFICES ASSUME Init PROVE OnePlace
    OBVIOUS
  <2>1. Len(pool) = PoolSize /\ \A k \in 1 .. Len(pool) : pool[k] = k
    BY PoolSizeAssumption DEF Init
  <2>2. \A t \in Threads, i \in Guards : guard[t][i] = 0
    BY DEF Init, NoConn
  <2> QED BY <2>1, <2>2, PoolSizeAssumption DEF OnePlace, Pooled, NoConn
<1>2. Shape /\ OnePlace /\ [Next]_vars => OnePlace'
  BY CustodyStep, OnePlaceStep DEF Shape
<1>3. Spec => []Shape
  BY TypeCorrect, PTL DEF Shape
<1> QED BY <1>1, <1>2, <1>3, PTL DEF Spec

-----------------------------------------------------------------------------
(* Where the pool loses a connection.                                      *)

\* The pool still has connection c.
Kept(c) == Pooled(c) \/ Guarded(c)

\* Handing out and giving back keep every connection.
LEMMA CapacityStep ==
    ASSUME TypeOK, \E t \in Threads, i \in Guards :
                      Custody!HandOut(t, i) \/ Custody!GiveBack(t, i)
    PROVE  \A c \in Conns : Kept(c) => Kept(c)'
<1> USE DEF TypeOK
<1>1. ASSUME NEW t \in Threads, NEW i \in Guards, Custody!HandOut(t, i)
      PROVE  \A c \in Conns : Kept(c) => Kept(c)'
  <2>1. /\ Head(pool) = pool[1] /\ Head(pool) \in Conns
        /\ Len(pool') = Len(pool) - 1 /\ Len(pool) \in Nat
        /\ \A k \in 2 .. Len(pool) :
              k - 1 \in 1 .. Len(pool') /\ pool'[k - 1] = pool[k]
    BY <1>1 DEF Custody!HandOut
  <2>2. /\ guard'[t][i] = Head(pool)
        /\ \A j \in Guards : j # i => guard'[t][j] = guard[t][j]
        /\ \A u \in Threads : u # t => guard'[u] = guard[u]
    <3>1. guard' = [guard EXCEPT ![t][i] = Head(pool)]
      BY <1>1 DEF Custody!HandOut
    <3> QED BY <2>1, <3>1, SetGuard
  <2> SUFFICES ASSUME NEW c \in Conns, Kept(c)
               PROVE  Pooled(c)' \/ Guarded(c)'
    BY DEF Kept
  <2>3. CASE Pooled(c)
    <3>1. PICK k \in 1 .. Len(pool) : pool[k] = c
      BY <2>3 DEF Pooled
    <3>2. CASE k = 1
      BY <2>1, <2>2, <3>1, <3>2 DEF Guarded
    <3>3. CASE k # 1
      <4>1. k \in 2 .. Len(pool)
        BY <2>1, <3>3
      <4> QED BY <2>1, <3>1, <4>1 DEF Pooled
    <3> QED BY <3>2, <3>3
  <2>4. CASE Guarded(c)
    <3>1. PICK u \in Threads, j \in Guards : guard[u][j] = c
      BY <2>4 DEF Guarded
    <3>2. ~(u = t /\ j = i)
      BY <1>1, <3>1, NoConnIsNoConn DEF Custody!HandOut, NoConn
    <3> QED BY <2>2, <3>1, <3>2 DEF Guarded
  <2> QED BY <2>3, <2>4 DEF Kept
<1>2. ASSUME NEW t \in Threads, NEW i \in Guards, Custody!GiveBack(t, i)
      PROVE  \A c \in Conns : Kept(c) => Kept(c)'
  <2>1. guard[t][i] \in Conns
    BY <1>2 DEF Custody!GiveBack, NoConn
  <2>2. /\ Len(pool') = Len(pool) + 1 /\ Len(pool) \in Nat
        /\ pool'[Len(pool) + 1] = guard[t][i]
        /\ \A k \in 1 .. Len(pool) : pool'[k] = pool[k]
    BY <1>2, <2>1 DEF Custody!GiveBack
  <2>3. /\ \A j \in Guards : j # i => guard'[t][j] = guard[t][j]
        /\ \A u \in Threads : u # t => guard'[u] = guard[u]
    BY <1>2, SetGuard DEF Custody!GiveBack, NoConn
  <2> SUFFICES ASSUME NEW c \in Conns, Kept(c)
               PROVE  Pooled(c)' \/ Guarded(c)'
    BY DEF Kept
  <2>4. CASE Pooled(c)
    BY <2>2, <2>4 DEF Pooled
  <2>5. CASE Guarded(c)
    <3>1. PICK u \in Threads, j \in Guards : guard[u][j] = c
      BY <2>5 DEF Guarded
    <3>2. CASE u = t /\ j = i
      BY <2>2, <3>1, <3>2 DEF Pooled
    <3>3. CASE ~(u = t /\ j = i)
      BY <2>3, <3>1, <3>3 DEF Guarded
    <3> QED BY <3>2, <3>3
  <2> QED BY <2>4, <2>5 DEF Kept
<1> QED BY <1>1, <1>2

\* Emptying a guard for good loses the connection in it and no other.
LEMMA LossStep ==
    ASSUME TypeOK, NEW t \in Threads, NEW i \in Guards, Custody!Lose(t, i)
    PROVE  \A c \in Conns : Kept(c) => Kept(c)' \/ c = guard[t][i]
<1> USE DEF TypeOK
<1>1. /\ \A j \in Guards : j # i => guard'[t][j] = guard[t][j]
      /\ \A u \in Threads : u # t => guard'[u] = guard[u]
      /\ pool' = pool
  BY SetGuard DEF Custody!Lose, NoConn
<1> SUFFICES ASSUME NEW c \in Conns, Kept(c), c # guard[t][i]
             PROVE  Kept(c)'
  OBVIOUS
<1>2. CASE Pooled(c)
  BY <1>1, <1>2 DEF Kept, Pooled
<1>3. CASE Guarded(c)
  <2>1. PICK u \in Threads, j \in Guards : guard[u][j] = c
    BY <1>3 DEF Guarded
  <2> QED BY <1>1, <2>1 DEF Kept, Guarded
<1> QED BY <1>2, <1>3 DEF Kept

\* Whatever a reconnect may do, connections die and requests time out: the
\* pool loses a connection only in a step in which a reconnect fails, and
\* then the one that was to be replaced.
THEOREM OnlyFailedReconnectsLose ==
    Spec => [][\A c \in Conns : Kept(c) =>
                  \/ Kept(c)'
                  \/ \E t \in Threads : ReconnectFails(t) /\ c = guard[t][Level(t)]]_vars
<1>1. ASSUME Shape, [Next]_vars, NEW c \in Conns, Kept(c)
      PROVE  Kept(c)' \/ \E t \in Threads : ReconnectFails(t) /\ c = guard[t][Level(t)]
  <2>1. CASE UNCHANGED <<pool, guard>>
    BY <1>1, <2>1 DEF Kept, Pooled, Guarded
  <2>2. CASE \E t \in Threads, i \in Guards : Custody!HandOut(t, i) \/ Custody!GiveBack(t, i)
    BY <1>1, <2>2, CapacityStep DEF Shape
  <2>3. CASE \E t \in Threads : /\ ReconnectFails(t) /\ Level(t) \in Guards
                                /\ Custody!Lose(t, Level(t))
    <3>1. PICK t \in Threads : /\ ReconnectFails(t) /\ Level(t) \in Guards
                               /\ Custody!Lose(t, Level(t))
      BY <2>3
    <3>2. Kept(c)' \/ c = guard[t][Level(t)]
      BY <1>1, <3>1, LossStep DEF Shape
    <3> QED BY <3>1, <3>2
  <2> QED BY <1>1, <2>1, <2>2, <2>3, CustodyMove
<1>2. Shape /\ [Next]_vars =>
        [\A c \in Conns : Kept(c) =>
            \/ Kept(c)'
            \/ \E t \in Threads : ReconnectFails(t) /\ c = guard[t][Level(t)]]_vars
  BY <1>1
<1>3. Spec => []Shape
  BY TypeCorrect, PTL DEF Shape
<1> QED BY <1>2, <1>3, PTL DEF Spec

-----------------------------------------------------------------------------
(* No wakeup is lost.                                                      *)

\* The threads awake can be counted, before and after a step.
LEMMA AwakeFinite ==
    /\ IsFiniteSet(Awake) /\ Cardinality(Awake) \in Nat
    /\ IsFiniteSet(Awake') /\ Cardinality(Awake') \in Nat
BY ThreadsAssumption, FS_Subset, FS_CardinalityType DEF Awake

\* A step that neither grows pool_, nor puts a thread to sleep, nor takes an
\* awake thread away.
LEMMA WakeupFrame ==
    ASSUME TypeOK, NoLostWakeup, pool' = pool,
           Sleepers' \subseteq Sleepers, Awake \subseteq Awake'
    PROVE  NoLostWakeup'
<1>1. Cardinality(Awake) <= Cardinality(Awake')
  BY AwakeFinite, FS_Subset
<1>2. Len(pool) \in Nat
  BY DEF TypeOK
<1> QED BY <1>1, <1>2, AwakeFinite DEF NoLostWakeup

\* With an empty deque nobody can be missing a wakeup.
LEMMA WakeupEmpty ==
    ASSUME pool' = <<>>
    PROVE  NoLostWakeup'
BY AwakeFinite DEF NoLostWakeup

\* A thread that pops a connection may have been one of the awake ones.
LEMMA WakeupTake ==
    ASSUME TypeOK, NoLostWakeup, NEW t \in Threads,
           pc[t] \in {"acquire", "awake"}, Take(t)
    PROVE  NoLostWakeup'
<1>1. /\ Len(pool') = Len(pool) - 1
      /\ Len(pool) \in Nat
  BY DEF Take, TypeOK
<1>2. \A u \in Threads : u # t => pc'[u] = pc[u]
  BY DEF Take, Grant, TypeOK
<1>3. pc'[t] \in {"using", "rebuildA"}
  BY DEF Take, Grant, TypeOK
<1>4. Sleepers' = Sleepers /\ Awake' = Awake \ {t}
  BY <1>2, <1>3 DEF Sleepers, Awake
<1>5. Cardinality(Awake') >= Cardinality(Awake) - 1
  BY <1>4, AwakeFinite, FS_RemoveElement
<1> QED BY <1>1, <1>4, <1>5, AwakeFinite DEF NoLostWakeup

\* One more connection, one more awake thread: notify_one.
LEMMA WakeupPutBack ==
    ASSUME TypeOK, NoLostWakeup, NEW t \in Threads,
           pc[t] \in {"using", "rebuildR"}, guard[t][Level(t)] \in Conns,
           PutBack(t)
    PROVE  NoLostWakeup'
<1>1. Len(pool') = Len(pool) + 1 /\ Len(pool) \in Nat
  BY DEF PutBack, TypeOK
<1>2. AfterUnwind(Level(t) - 1) \notin {"asleep", "awake"}
  BY DEF AfterUnwind
<1>3. CASE Sleepers = {}
  <2>1. pc' = [pc EXCEPT ![t] = AfterUnwind(Level(t) - 1)]
    BY <1>3 DEF PutBack
  <2>2. Sleepers' = {}
    BY <1>2, <1>3, <2>1 DEF Sleepers, TypeOK
  <2> QED BY <2>2 DEF NoLostWakeup
<1>4. CASE Sleepers # {}
  <2>1. PICK w \in Sleepers :
           pc' = [pc EXCEPT ![t] = AfterUnwind(Level(t) - 1), ![w] = "awake"]
    BY <1>4 DEF PutBack
  <2>2. w \in Threads /\ w \notin Awake /\ w # t
    BY DEF Sleepers, Awake
  <2>3. \A u \in Threads : u \in Awake' <=> u \in Awake \cup {w}
    BY <1>2, <2>1, <2>2 DEF Awake, TypeOK
  <2>4. Awake' = Awake \cup {w}
    BY <2>2, <2>3 DEF Awake
  <2>5. Cardinality(Awake') = Cardinality(Awake) + 1
    BY <2>2, <2>4, AwakeFinite, FS_AddElement
  <2> QED BY <1>1, <1>4, <2>5, AwakeFinite DEF NoLostWakeup
<1> QED BY <1>3, <1>4

\* Every step keeps NoLostWakeup: only PutBack grows pool_, and it wakes a
\* sleeper whenever there is one.
LEMMA WakeupStep ==
    ASSUME Shape, NoLostWakeup, [Next]_vars
    PROVE  NoLostWakeup'
<1> USE DEF Shape
<1>1. ASSUME NEW t \in Threads, ThreadStep(t)
      PROVE  NoLostWakeup'
  <2>1. ASSUME NEW n \in 1 .. 2, Call(t, n) PROVE NoLostWakeup'
    BY <2>1, WakeupFrame DEF Call, Sleepers, Awake, TypeOK
  <2>2. CASE Nested(t) \/ StatementFails(t)
    BY <2>2, WakeupFrame DEF Nested, StatementFails, Sleepers, Awake, TypeOK
  <2>3. CASE Deadline(t) \/ SpuriousWakeup(t)
    BY <2>3, WakeupFrame DEF Deadline, SpuriousWakeup, Sleepers, Awake, TypeOK
  <2>4. CASE Enter(t)
    BY <2>4, WakeupTake, WakeupEmpty DEF Enter
  <2>5. CASE Recheck(t)
    BY <2>5, WakeupTake, WakeupEmpty DEF Recheck
  <2>6. CASE BeginRelease(t)
    <3>1. guard[t][Level(t)] \in Conns
      BY <2>6, NoConnIsNoConn
         DEF BeginRelease, GuardDiscipline, Level, TypeOK, Guards
    <3>2. CASE guard[t][Level(t)] \in broken
      BY <2>6, <3>2, WakeupFrame DEF BeginRelease, Sleepers, Awake, TypeOK
    <3>3. CASE guard[t][Level(t)] \notin broken
      BY <2>6, <3>1, <3>3, WakeupPutBack DEF BeginRelease
    <3> QED BY <3>2, <3>3
  <2>7. ASSUME NEW o \in RebuildOutcomes, RebuiltForAcquire(t, o)
        PROVE  NoLostWakeup'
    <3>1. /\ pool' = pool
          /\ pc[t] = "rebuildA" /\ pc'[t] \in {"using", "idle"}
          /\ \A u \in Threads : u # t => pc'[u] = pc[u]
      BY <2>7 DEF RebuiltForAcquire, AcquireFails, AfterUnwind, TypeOK
    <3> QED BY <3>1, WakeupFrame DEF Sleepers, Awake
  <2>8. ASSUME NEW o \in RebuildOutcomes, RebuiltForRelease(t, o)
        PROVE  NoLostWakeup'
    <3>1. pc[t] = "rebuildR" /\ guard[t][Level(t)] \in Conns
      BY <2>8, NoConnIsNoConn
         DEF RebuiltForRelease, GuardDiscipline, Level, TypeOK, Guards
    <3>2. CASE o = "ok"
      BY <2>8, <3>1, <3>2, WakeupPutBack DEF RebuiltForRelease
    <3>3. CASE o = "null"
      <4>1. /\ pool' = pool
            /\ pc'[t] \in {"using", "idle"}
            /\ \A u \in Threads : u # t => pc'[u] = pc[u]
        BY <2>8, <3>3 DEF RebuiltForRelease, AfterUnwind, TypeOK
      <4> QED BY <3>1, <4>1, WakeupFrame DEF Sleepers, Awake
    <3>4. CASE o = "throw"
      BY <2>8, <3>4, WakeupFrame DEF RebuiltForRelease, Sleepers, Awake
    <3> QED BY <2>8, <3>2, <3>3, <3>4 DEF RebuiltForRelease
  <2> QED BY <1>1, <2>1, <2>2, <2>3, <2>4, <2>5, <2>6, <2>7, <2>8 DEF ThreadStep
<1>2. ASSUME NEW c \in Conns, Break(c) PROVE NoLostWakeup'
  BY <1>2, WakeupFrame DEF Break, Sleepers, Awake
<1>3. CASE UNCHANGED vars
  BY <1>3, WakeupFrame DEF vars, Sleepers, Awake
<1> QED BY <1>1, <1>2, <1>3 DEF Next

\* Release's single notify_one is enough: a thread sleeps in wait_for only
\* while every free connection has an awake thread coming for it.
THEOREM NoWakeupIsLost == Spec => []NoLostWakeup
<1>1. Init => NoLostWakeup
  <2> SUFFICES ASSUME Init PROVE NoLostWakeup
    OBVIOUS
  <2>1. Sleepers = {}
    BY DEF Init, Sleepers
  <2> QED BY <2>1 DEF NoLostWakeup
<1>2. Shape /\ NoLostWakeup /\ [Next]_vars => NoLostWakeup'
  BY WakeupStep
<1>3. Spec => []Shape
  BY TypeCorrect, PTL DEF Shape
<1> QED BY <1>1, <1>2, <1>3, PTL DEF Spec

-----------------------------------------------------------------------------
(* MySQLConnect: no handle is leaked and the attempts are bounded.         *)

Stages == {"init", "connect", "retryInit", "retryConnect", "connected", "thrown"}

\* Stages in which a handle is open.
Holding == {"connect", "retryConnect", "connected"}

Shaped ==
    /\ maxRetries \in Nat /\ autoReconnect \in BOOLEAN /\ refused \in BOOLEAN
    /\ stage \in Stages /\ attempt \in Nat /\ made \in Nat

\* The newest handle is the open one, all older ones are closed.
Handles ==
    /\ stage \in Holding => handle = made /\ made > 0 /\ closed = 1 .. (made - 1)
    /\ stage \notin Holding => handle = 0 /\ closed = 1 .. made

\* How many handles there are at each stage.
Counted ==
    /\ stage = "init" => made = 0
    /\ stage = "connect" => made = 1
    /\ stage \in {"retryInit", "retryConnect"} => autoReconnect /\ attempt \in 1 .. maxRetries
    /\ stage = "retryInit" => made = attempt
    /\ stage = "retryConnect" => made = attempt + 1
    /\ stage \in {"connected", "thrown"} => made <= 1 + (IF autoReconnect THEN maxRetries ELSE 0)
    /\ refused => stage = "thrown"

ConnectInv == Shaped /\ Handles /\ Counted

\* The constructor begins without a handle.
LEMMA ConnectInitHolds == ConnectInit => ConnectInv
  <1> SUFFICES ASSUME ConnectInit PROVE ConnectInv
      OBVIOUS
  <1> USE DEF ConnectInit, ConnectShape
  <1>1. Shaped
    BY RetryLimitsAssumption DEF Shaped, Stages
  <1>2. Handles
    BY DEF Handles, Holding
  <1>3. Counted
    BY DEF Counted
  <1> QED BY <1>1, <1>2, <1>3 DEF ConnectInv

\* Each step of the constructor keeps the count of handles.
LEMMA ConnectStepHolds == ConnectInv /\ [Connect]_connectVars => ConnectInv'
  <1> SUFFICES ASSUME ConnectInv, [Connect]_connectVars PROVE ConnectInv'
      OBVIOUS
  <1> USE DEF ConnectInv, Shaped, Handles, Counted, Stages, Holding
  <1>1. CASE InitAndSetOptions
    BY <1>1 DEF InitAndSetOptions
  <1>2. CASE FirstConnect
    <2>1. CASE stage' = "connected"
      BY <1>2, <2>1 DEF FirstConnect
    <2>2. CASE stage' # "connected"
      <3>1. closed' = closed \cup {handle} /\ handle' = 0 /\ made = 1 /\ made' = made
        BY <1>2, <2>2 DEF FirstConnect, CloseHandle
      <3>2. closed' = 1 .. made'
        BY <1>2, <3>1 DEF FirstConnect
      <3>3. refused' \in BOOLEAN /\ (refused' => stage' = "thrown")
        BY <1>2, <2>2 DEF FirstConnect
      <3>4. stage' = "retryInit" =>
              autoReconnect' /\ attempt' \in 1 .. maxRetries' /\ made' = attempt'
        BY <1>2, <2>2 DEF FirstConnect
      <3>5. stage' \in {"retryInit", "thrown"} /\ attempt' \in Nat /\ UNCHANGED <<maxRetries, autoReconnect>>
        BY <1>2, <2>2 DEF FirstConnect
      <3>6. made' <= 1 + (IF autoReconnect' THEN maxRetries' ELSE 0)
        <4>1. stage = "connect" \/ stage = "retryConnect"
          BY <1>2 DEF FirstConnect, RetryConnect
        <4>2. CASE autoReconnect
          BY <3>1, <3>5, <4>1, <4>2
        <4>3. CASE ~autoReconnect
          BY <3>1, <3>5, <4>1, <4>3
        <4> QED BY <4>2, <4>3
      <3>7. Shaped'
        BY <3>1, <3>3, <3>5
      <3>8. Handles'
        BY <3>1, <3>2, <3>5
      <3>9. Counted'
        BY <3>3, <3>4, <3>5, <3>6
      <3> QED BY <3>7, <3>8, <3>9
    <2> QED BY <2>1, <2>2
  <1>3. CASE RetryConnect
    <2>1. CASE stage' = "connected"
      BY <1>3, <2>1 DEF RetryConnect
    <2>2. CASE stage' # "connected"
      <3>1. closed' = closed \cup {handle} /\ handle' = 0 /\ made' = made
        BY <1>3, <2>2 DEF RetryConnect, CloseHandle
      <3>2. closed' = 1 .. made'
        BY <1>3, <3>1 DEF RetryConnect
      <3>3. refused' \in BOOLEAN /\ (refused' => stage' = "thrown")
        BY <1>3, <2>2 DEF RetryConnect
      <3>4. stage' = "retryInit" =>
              autoReconnect' /\ attempt' \in 1 .. maxRetries' /\ made' = attempt'
        BY <1>3, <2>2 DEF RetryConnect
      <3>5. stage' \in {"retryInit", "thrown"} /\ attempt' \in Nat /\ UNCHANGED <<maxRetries, autoReconnect>>
        BY <1>3, <2>2 DEF RetryConnect
      <3>6. made' <= 1 + (IF autoReconnect' THEN maxRetries' ELSE 0)
        <4>1. stage = "connect" \/ stage = "retryConnect"
          BY <1>3 DEF FirstConnect, RetryConnect
        <4>2. CASE autoReconnect
          BY <3>1, <3>5, <4>1, <4>2
        <4>3. CASE ~autoReconnect
          BY <3>1, <3>5, <4>1, <4>3
        <4> QED BY <4>2, <4>3
      <3>7. Shaped'
        BY <3>1, <3>3, <3>5
      <3>8. Handles'
        BY <3>1, <3>2, <3>5
      <3>9. Counted'
        BY <3>3, <3>4, <3>5, <3>6
      <3> QED BY <3>7, <3>8, <3>9
    <2> QED BY <2>1, <2>2
  <1>4. CASE UNCHANGED connectVars
    BY <1>4 DEF connectVars
  <1> QED BY <1>1, <1>2, <1>3, <1>4 DEF Connect

\* The count of handles at each stage is an invariant.
LEMMA CountHolds == ConnectSpec => []ConnectInv
  BY ConnectInitHolds, ConnectStepHolds, PTL DEF ConnectSpec

\* A constructor that throws, at the first attempt, in the middle of the
\* retries or for lack of memory, leaves no handle open; one that succeeds
\* leaves its newest.
THEOREM NoHandleLeaks == ConnectSpec => []OneHandle
  <1>1. ConnectInv => OneHandle
    <2> SUFFICES ASSUME ConnectInv PROVE OneHandle
        OBVIOUS
    <2> USE DEF ConnectInv, Shaped, Handles, Stages, Holding
    <2>1. CASE stage \in Holding
      <3>1. (1 .. made) \ (1 .. (made - 1)) = {made}
        BY <2>1
      <3> QED BY <2>1, <3>1 DEF OneHandle
    <2>2. CASE stage \notin Holding
      BY <2>2 DEF OneHandle
    <2> QED BY <2>1, <2>2
  <1> QED BY <1>1, CountHolds, PTL

\* At most 1 + max_retries handles are made, and none after an error that is
\* not retryable.
THEOREM AttemptsAreBounded == ConnectSpec => []AttemptsBounded
  <1>1. ConnectInv => AttemptsBounded
    BY DEF ConnectInv, Shaped, Handles, Counted, Stages, AttemptsBounded
  <1> QED BY <1>1, CountHolds, PTL

-----------------------------------------------------------------------------
(* SqlBuilder: induction over the bytes of a text.                         *)

\* Induction up to n, with the numbers of which a formula holds as a set.
LEMMA BoundedInduction ==
    ASSUME NEW n \in Nat, NEW T, 0 \in T, \A k \in 1 .. n : k - 1 \in T => k \in T
    PROVE  \A k \in 0 .. n : k \in T
  <1> DEFINE R == {k \in Nat : k <= n /\ k \notin T}
  <1> SUFFICES ASSUME R # {} PROVE FALSE
    OBVIOUS
  <1>0. R \subseteq Nat
    OBVIOUS
  <1>1. PICK x \in R : \A y \in R : ~(<<y, x>> \in OpToRel(<, Nat))
    <2> HIDE DEF R
    <2> QED BY <1>0, NatLessThanWellFounded, WFMin
  <1>2. \A y \in R : ~(y < x)
    BY <1>1 DEF OpToRel
  <1>3. x \in 1 .. n /\ x - 1 \in T
    BY <1>2
  <1> QED BY <1>3

\* A loop over n bytes: F[k] is what it does to its state for the k-th.
Loop(n, S) == [1 .. n -> [S -> S]]
IsRun(f, n, S, base, F) ==
    f \in [0 .. n -> S] /\ f[0] = base /\ \A k \in 1 .. n : f[k] = F[k][f[k - 1]]

\* Every loop has a run.
LEMMA LoopExists ==
    ASSUME NEW n \in Nat, NEW S, NEW base \in S, NEW F \in Loop(n, S)
    PROVE  \E f : IsRun(f, n, S, base, F)
  <1> DEFINE T == {m \in 0 .. n : \E f : IsRun(f, m, S, base, F)}
  <1>1. 0 \in T
    <2>1. IsRun([k \in 0 .. 0 |-> base], 0, S, base, F)
      BY DEF IsRun
    <2> QED BY <2>1
  <1>2. ASSUME NEW m \in 1 .. n, m - 1 \in T PROVE m \in T
    <2>1. PICK f : IsRun(f, m - 1, S, base, F)
      BY <1>2
    <2> DEFINE g == [k \in 0 .. m |-> IF k < m THEN f[k] ELSE F[m][f[m - 1]]]
    <2>2. f[m - 1] \in S /\ F[m][f[m - 1]] \in S
      BY <2>1 DEF IsRun, Loop
    <2>3. g \in [0 .. m -> S] /\ g[0] = base
      BY <2>1, <2>2 DEF IsRun
    <2>4. ASSUME NEW k \in 1 .. m PROVE g[k] = F[k][g[k - 1]]
      <3>1. CASE k < m
        <4>1. k \in 1 .. m - 1 /\ k \in 0 .. m /\ k - 1 \in 0 .. m /\ k - 1 < m
          BY <3>1
        <4>2. f[k] = F[k][f[k - 1]] /\ g[k] = f[k] /\ g[k - 1] = f[k - 1]
          BY <2>1, <3>1, <4>1 DEF IsRun
        <4> QED BY <4>2
      <3>2. CASE k = m
        <4>1. k \in 0 .. m /\ k - 1 \in 0 .. m /\ k - 1 < m
          BY <3>2
        <4> QED BY <3>2, <4>1
      <3> QED BY <3>1, <3>2
    <2> HIDE DEF g
    <2>5. IsRun(g, m, S, base, F)
      BY <2>3, <2>4 DEF IsRun
    <2> QED BY <2>5
  <1>3. n \in T
    <2> HIDE DEF T
    <2>1. \A k \in 0 .. n : k \in T
      BY <1>1, <1>2, BoundedInduction
    <2> QED BY <2>1
  <1> QED BY <1>3

\* What a loop keeps at every byte holds throughout.
LEMMA LoopKeeps ==
    ASSUME NEW n \in Nat, NEW S, NEW f, f[0] \in S, \A k \in 1 .. n : f[k - 1] \in S => f[k] \in S
    PROVE  \A k \in 0 .. n : f[k] \in S
  <1> DEFINE T == {k \in 0 .. n : f[k] \in S}
  <1>1. 0 \in T
    OBVIOUS
  <1>2. \A k \in 1 .. n : k - 1 \in T => k \in T
    OBVIOUS
  <1>3. \A k \in 0 .. n : k \in T
    <2> HIDE DEF T
    <2> QED BY <1>1, <1>2, BoundedInduction
  <1> QED BY <1>3

-----------------------------------------------------------------------------
(* Escape.                                                                 *)

LEMMA EscapeByteTyped == \A c \in Bytes : EscapeByte(c) \in Seq(Bytes)
  <1> SUFFICES ASSUME NEW c \in Bytes PROVE EscapeByte(c) \in Seq(Bytes)
    OBVIOUS
  <1>1. \A a, b \in Bytes : <<a>> \in Seq(Bytes) /\ <<a, b>> \in Seq(Bytes)
    OBVIOUS
  <1>2. 92 \in Bytes /\ 48 \in Bytes /\ 110 \in Bytes /\ 114 \in Bytes /\ 90 \in Bytes
    BY DEF Bytes
  <1>3. EscapeByte(c) \in {<<92, c>>, <<92, 48>>, <<92, 110>>, <<92, 114>>, <<92, 90>>, <<c>>}
    BY Zenon DEF EscapeByte, Escaper
  <1>4. /\ <<92, c>> \in Seq(Bytes) /\ <<92, 48>> \in Seq(Bytes) /\ <<92, 110>> \in Seq(Bytes)
        /\ <<92, 114>> \in Seq(Bytes) /\ <<92, 90>> \in Seq(Bytes) /\ <<c>> \in Seq(Bytes)
    BY <1>1, <1>2, Zenon
  <1> QED BY <1>3, <1>4, ZenonT(60)

LEMMA EscapedRun ==
    ASSUME NEW s \in Seq(Bytes)
    PROVE  /\ Escaped(s)[0] = <<>>
           /\ \A n \in 1 .. Len(s) : Escaped(s)[n] = Escaped(s)[n - 1] \o EscapeByte(s[n])
           /\ \A n \in 0 .. Len(s) : Escaped(s)[n] \in Seq(Bytes)
  <1> DEFINE N == Len(s)
             S == Seq(Bytes)
             base == <<>>
             Step(k, x) == x \o EscapeByte(s[k])
             F == [k \in 1 .. N |-> [x \in S |-> Step(k, x)]]
             e == Escaped(s)
  <1>1. N \in Nat /\ base \in S
    OBVIOUS
  <1>2. \A k \in 1 .. N : \A x \in S : Step(k, x) \in S
    BY EscapeByteTyped, ConcatProperties
  <1>3. e = CHOOSE f : f = [k \in 0 .. N |-> IF k = 0 THEN base ELSE Step(k, f[k - 1])]
    BY DEF Escaped
  <1> HIDE DEF N, S, base, Step, e
  <1>4. F \in Loop(N, S)
    BY <1>2 DEF Loop
  <1>5. \E f : IsRun(f, N, S, base, F)
    <2> HIDE DEF F
    <2> QED BY <1>1, <1>4, LoopExists
  <1>f. PICK f \in [0 .. N -> S] : f[0] = base /\ \A k \in 1 .. N : f[k] = F[k][f[k - 1]]
    <2> HIDE DEF F
    <2> QED BY <1>5 DEF IsRun
  <1>6. f = [k \in 0 .. N |-> IF k = 0 THEN base ELSE Step(k, f[k - 1])]
    <2>1. ASSUME NEW k \in 0 .. N PROVE f[k] = IF k = 0 THEN base ELSE Step(k, f[k - 1])
      <3>1. CASE k = 0
        BY <1>f, <3>1
      <3>2. CASE k # 0
        <4>1. k \in 1 .. N /\ f[k - 1] \in S
          BY <1>1, <3>2
        <4>2. F[k][f[k - 1]] = Step(k, f[k - 1])
          BY <4>1
        <4> QED BY <1>f, <3>2, <4>1, <4>2
      <3> QED BY <3>1, <3>2
    <2> QED BY <2>1
  <1>7. e = [k \in 0 .. N |-> IF k = 0 THEN base ELSE Step(k, e[k - 1])]
    BY <1>3, <1>6
  <1>8. \A k \in 0 .. N : e[k] = IF k = 0 THEN base ELSE Step(k, e[k - 1])
    <2> DEFINE G(k) == IF k = 0 THEN base ELSE Step(k, e[k - 1])
    <2>1. e = [k \in 0 .. N |-> G(k)]
      BY <1>7
    <2> HIDE DEF G
    <2>2. \A k \in 0 .. N : e[k] = G(k)
      BY <2>1
    <2> QED BY <2>2 DEF G
  <1>9. e[0] = base /\ \A k \in 1 .. N : e[k] = Step(k, e[k - 1])
    BY <1>1, <1>8
  <1>10. \A k \in 0 .. N : e[k] \in S
    BY <1>1, <1>2, <1>9, LoopKeeps
  <1> QED BY <1>9, <1>10 DEF N, S, base, Step, e

-----------------------------------------------------------------------------
(* The lexer.                                                              *)

Token == [kind : {"plain", "string"}, value : Seq(Bytes)]
LexState == [mode : {"plain", "literal", "escape"}, value : Seq(Bytes), read : Seq(Token)]
LexStart == [mode |-> "plain", value |-> <<>>, read |-> <<>>]

LEMMA LexStepTyped ==
    ASSUME NEW st \in LexState, NEW c \in Bytes
    PROVE  LexStep(st, c) \in LexState
  <1>1. /\ <<>> \in Seq(Bytes) /\ <<c>> \in Seq(Bytes) /\ EscapedBy(c) \in Bytes
        /\ st.value \in Seq(Bytes) /\ st.read \in Seq(Token) /\ st.mode \in {"plain", "literal", "escape"}
    BY DEF LexState, Bytes, EscapedBy
  <1>2. Append(st.value, c) \in Seq(Bytes) /\ Append(st.value, EscapedBy(c)) \in Seq(Bytes)
    BY <1>1
  <1>3. /\ Append(st.read, [kind |-> "plain", value |-> <<c>>]) \in Seq(Token)
        /\ Append(st.read, [kind |-> "string", value |-> st.value]) \in Seq(Token)
    <2>1. [kind |-> "plain", value |-> <<c>>] \in Token /\ [kind |-> "string", value |-> st.value] \in Token
      BY <1>1 DEF Token
    <2> QED BY <1>1, <2>1
  <1>4. CASE st.mode = "plain" /\ c = Apostrophe
    BY <1>1, <1>4 DEF LexStep, LexState
  <1>5. CASE st.mode = "plain" /\ c # Apostrophe
    BY <1>1, <1>3, <1>5 DEF LexStep, LexState
  <1>6. CASE st.mode = "literal" /\ c = Escaper
    BY <1>1, <1>6 DEF LexStep, LexState, Escaper, Apostrophe
  <1>7. CASE st.mode = "literal" /\ c = Apostrophe
    BY <1>1, <1>3, <1>7 DEF LexStep, LexState, Escaper, Apostrophe
  <1>8. CASE st.mode = "literal" /\ c \notin {Escaper, Apostrophe}
    BY <1>1, <1>2, <1>8 DEF LexStep, LexState
  <1>9. CASE st.mode = "escape"
    BY <1>1, <1>2, <1>9 DEF LexStep, LexState
  <1> QED BY <1>1, <1>4, <1>5, <1>6, <1>7, <1>8, <1>9

LEMMA LexingRun ==
    ASSUME NEW text \in Seq(Bytes)
    PROVE  /\ Lexing(text)[0] = LexStart
           /\ \A n \in 1 .. Len(text) : Lexing(text)[n] = LexStep(Lexing(text)[n - 1], text[n])
           /\ \A n \in 0 .. Len(text) : Lexing(text)[n] \in LexState
  <1> DEFINE N == Len(text)
             S == LexState
             base == LexStart
             Step(k, x) == LexStep(x, text[k])
             F == [k \in 1 .. N |-> [x \in S |-> Step(k, x)]]
             e == Lexing(text)
  <1>1. N \in Nat /\ base \in S
    BY DEF LexStart, LexState
  <1>2. \A k \in 1 .. N : \A x \in S : Step(k, x) \in S
    BY LexStepTyped
  <1>3. e = CHOOSE f : f = [k \in 0 .. N |-> IF k = 0 THEN base ELSE Step(k, f[k - 1])]
    BY DEF Lexing, LexStart
  <1> HIDE DEF N, S, base, Step, e
  <1>4. F \in Loop(N, S)
    BY <1>2 DEF Loop
  <1>5. \E f : IsRun(f, N, S, base, F)
    <2> HIDE DEF F
    <2> QED BY <1>1, <1>4, LoopExists
  <1>f. PICK f \in [0 .. N -> S] : f[0] = base /\ \A k \in 1 .. N : f[k] = F[k][f[k - 1]]
    <2> HIDE DEF F
    <2> QED BY <1>5 DEF IsRun
  <1>6. f = [k \in 0 .. N |-> IF k = 0 THEN base ELSE Step(k, f[k - 1])]
    <2>1. ASSUME NEW k \in 0 .. N PROVE f[k] = IF k = 0 THEN base ELSE Step(k, f[k - 1])
      <3>1. CASE k = 0
        BY <1>f, <3>1
      <3>2. CASE k # 0
        <4>1. k \in 1 .. N /\ f[k - 1] \in S
          BY <1>1, <3>2
        <4>2. F[k][f[k - 1]] = Step(k, f[k - 1])
          BY <4>1
        <4> QED BY <1>f, <3>2, <4>1, <4>2
      <3> QED BY <3>1, <3>2
    <2> QED BY <2>1
  <1>7. e = [k \in 0 .. N |-> IF k = 0 THEN base ELSE Step(k, e[k - 1])]
    BY <1>3, <1>6
  <1>8. \A k \in 0 .. N : e[k] = IF k = 0 THEN base ELSE Step(k, e[k - 1])
    <2> DEFINE G(k) == IF k = 0 THEN base ELSE Step(k, e[k - 1])
    <2>1. e = [k \in 0 .. N |-> G(k)]
      BY <1>7
    <2> HIDE DEF G
    <2>2. \A k \in 0 .. N : e[k] = G(k)
      BY <2>1
    <2> QED BY <2>2 DEF G
  <1>9. e[0] = base /\ \A k \in 1 .. N : e[k] = Step(k, e[k - 1])
    BY <1>1, <1>8
  <1>10. \A k \in 0 .. N : e[k] \in S
    BY <1>1, <1>2, <1>9, LoopKeeps
  <1> QED BY <1>9, <1>10 DEF N, S, base, Step, e

\* The lexer reads byte after byte.
LEMMA LexAppend ==
    ASSUME NEW text \in Seq(Bytes), NEW c \in Bytes
    PROVE  /\ Append(text, c) \in Seq(Bytes)
           /\ Lexed(text) \in LexState
           /\ Lexed(Append(text, c)) = LexStep(Lexed(text), c)
  <1> DEFINE u == Append(text, c)
             N == Len(text)
  <1>1. /\ u \in Seq(Bytes) /\ N \in Nat /\ Len(u) = N + 1 /\ u[N + 1] = c
        /\ \A k \in 1 .. N : u[k] = text[k]
    OBVIOUS
  <1> HIDE DEF u, N
  <1> DEFINE a == Lexing(text)
             b == Lexing(u)
  <1>2. /\ a[0] = LexStart /\ \A n \in 1 .. N : a[n] = LexStep(a[n - 1], text[n])
        /\ \A n \in 0 .. N : a[n] \in LexState
    BY LexingRun DEF N
  <1>3. b[0] = LexStart /\ \A n \in 1 .. N + 1 : b[n] = LexStep(b[n - 1], u[n])
    BY <1>1, LexingRun
  <1> HIDE DEF a, b
  <1> DEFINE T == {n \in 0 .. N : a[n] = b[n]}
  <1>4. 0 \in T
    BY <1>1, <1>2, <1>3
  <1>5. \A k \in 1 .. N : k - 1 \in T => k \in T
    <2> SUFFICES ASSUME NEW k \in 1 .. N, a[k - 1] = b[k - 1] PROVE a[k] = b[k]
      OBVIOUS
    <2>1. k \in 1 .. N + 1 /\ u[k] = text[k]
      BY <1>1
    <2> QED BY <1>2, <1>3, <2>1
  <1>6. a[N] = b[N]
    <2>1. \A k \in 0 .. N : k \in T
      <3> HIDE DEF T
      <3> QED BY <1>1, <1>4, <1>5, BoundedInduction
    <2> QED BY <1>1, <2>1
  <1>7. b[N + 1] = LexStep(b[N], c)
    <2>1. N + 1 \in 1 .. N + 1 /\ (N + 1) - 1 = N
      BY <1>1
    <2> QED BY <1>1, <1>3, <2>1
  <1>8. a[N] \in LexState
    BY <1>1, <1>2
  <1> QED BY <1>1, <1>6, <1>7, <1>8 DEF Lexed, a, b, u, N

\* Behind text, the lexer is in mode m, has v of a literal and has read r.
LexesTo(text, m, v, r) ==
    text \in Seq(Bytes) /\ Lexed(text) = [mode |-> m, value |-> v, read |-> r]

\* Adding one byte, in the two ways it is written.
LEMMA AppendIsConcatenation ==
    ASSUME NEW S, NEW s \in Seq(S), NEW x \in S
    PROVE  s \o <<x>> = Append(s, x)
  OBVIOUS

LEMMA AppendTwo ==
    ASSUME NEW S, NEW s \in Seq(S), NEW x \in S, NEW y \in S
    PROVE  s \o <<x, y>> = Append(Append(s, x), y)
  OBVIOUS

\* One byte in each mode.
LEMMA LexByte ==
    ASSUME NEW text, NEW m, NEW v, NEW r, LexesTo(text, m, v, r), NEW c \in Bytes
    PROVE  /\ m = "plain" /\ c = Apostrophe => LexesTo(Append(text, c), "literal", <<>>, r)
           /\ m = "plain" /\ c # Apostrophe =>
                 LexesTo(Append(text, c), "plain", v, Append(r, [kind |-> "plain", value |-> <<c>>]))
           /\ m = "literal" /\ c = Escaper => LexesTo(Append(text, c), "escape", v, r)
           /\ m = "literal" /\ c = Apostrophe =>
                 LexesTo(Append(text, c), "plain", v, Append(r, [kind |-> "string", value |-> v]))
           /\ m = "literal" /\ c \notin {Escaper, Apostrophe} =>
                 LexesTo(Append(text, c), "literal", Append(v, c), r)
           /\ m = "escape" => LexesTo(Append(text, c), "literal", Append(v, EscapedBy(c)), r)
  <1> DEFINE st == [mode |-> m, value |-> v, read |-> r]
  <1>1. Append(text, c) \in Seq(Bytes) /\ Lexed(Append(text, c)) = LexStep(st, c)
    BY LexAppend DEF LexesTo
  <1>2. CASE m = "plain" /\ c = Apostrophe
    <2>1. LexStep(st, c) = [mode |-> "literal", value |-> <<>>, read |-> r]
      BY <1>2 DEF LexStep
    <2> QED BY <1>1, <1>2, <2>1 DEF LexesTo
  <1>3. CASE m = "plain" /\ c # Apostrophe
    <2>1. LexStep(st, c) = [mode |-> "plain", value |-> v,
                            read |-> Append(r, [kind |-> "plain", value |-> <<c>>])]
      BY <1>3 DEF LexStep
    <2> QED BY <1>1, <1>3, <2>1 DEF LexesTo
  <1>4. CASE m = "literal" /\ c = Escaper
    <2>1. LexStep(st, c) = [mode |-> "escape", value |-> v, read |-> r]
      BY <1>4 DEF LexStep, Escaper, Apostrophe
    <2> QED BY <1>1, <1>4, <2>1 DEF LexesTo, Escaper, Apostrophe
  <1>5. CASE m = "literal" /\ c = Apostrophe
    <2>1. LexStep(st, c) = [mode |-> "plain", value |-> v,
                            read |-> Append(r, [kind |-> "string", value |-> v])]
      <3>1. c # Escaper
        BY <1>5 DEF Escaper, Apostrophe
      <3>2. st.mode = "literal" /\ st.read = r /\ st.value = v
        BY <1>5
      <3>3. LexStep(st, c) =
                [st EXCEPT !.mode = "plain", !.read = Append(@, [kind |-> "string", value |-> st.value])]
        <4> HIDE DEF st
        <4> QED BY <1>5, <3>1, <3>2 DEF LexStep
      <3> QED BY <1>5, <3>3
    <2> QED BY <1>1, <1>5, <2>1 DEF LexesTo, Escaper, Apostrophe
  <1>6. CASE m = "literal" /\ c \notin {Escaper, Apostrophe}
    <2>1. LexStep(st, c) = [mode |-> "literal", value |-> Append(v, c), read |-> r]
      BY <1>6 DEF LexStep
    <2> QED BY <1>1, <1>6, <2>1 DEF LexesTo
  <1>7. CASE m = "escape"
    <2>1. LexStep(st, c) = [mode |-> "literal", value |-> Append(v, EscapedBy(c)), read |-> r]
      BY <1>7 DEF LexStep
    <2> QED BY <1>1, <1>7, <2>1 DEF LexesTo
  <1>8. CASE ~(m = "plain" \/ m = "literal" \/ m = "escape")
    BY <1>8
  <1> QED BY <1>2, <1>3, <1>4, <1>5, <1>6, <1>7, <1>8

\* What Escape writes for a byte is read as that byte.
LEMMA LexEscaped ==
    ASSUME NEW text, NEW v, NEW r, LexesTo(text, "literal", v, r), NEW c \in Bytes
    PROVE  LexesTo(text \o EscapeByte(c), "literal", Append(v, c), r)
  <1>0. text \in Seq(Bytes) /\ Escaper \in Bytes
    BY DEF LexesTo, Escaper, Bytes
  <1>1. ASSUME NEW d \in Bytes, EscapeByte(c) = <<Escaper, d>>, EscapedBy(d) = c
        PROVE  LexesTo(text \o EscapeByte(c), "literal", Append(v, c), r)
    <2>1. LexesTo(Append(text, Escaper), "escape", v, r)
      BY <1>0, LexByte
    <2>2. LexesTo(Append(Append(text, Escaper), d), "literal", Append(v, EscapedBy(d)), r)
      BY <2>1, LexByte
    <2>3. text \o EscapeByte(c) = Append(Append(text, Escaper), d)
      BY <1>0, <1>1, AppendTwo
    <2> QED BY <1>1, <2>2, <2>3
  <1>2. CASE c \in {Apostrophe, Escaper, 34}
    <2>1. EscapeByte(c) = <<Escaper, c>> /\ EscapedBy(c) = c
      BY <1>2 DEF EscapeByte, EscapedBy, Apostrophe, Escaper
    <2> QED BY <1>1, <2>1
  <1>3. CASE c = 0
    <2>1. EscapeByte(c) = <<Escaper, 48>> /\ EscapedBy(48) = c /\ 48 \in Bytes
      BY <1>3 DEF EscapeByte, EscapedBy, Apostrophe, Escaper, Bytes
    <2> QED BY <1>1, <2>1
  <1>4. CASE c = 10
    <2>1. EscapeByte(c) = <<Escaper, 110>> /\ EscapedBy(110) = c /\ 110 \in Bytes
      BY <1>4 DEF EscapeByte, EscapedBy, Apostrophe, Escaper, Bytes
    <2> QED BY <1>1, <2>1
  <1>5. CASE c = 13
    <2>1. EscapeByte(c) = <<Escaper, 114>> /\ EscapedBy(114) = c /\ 114 \in Bytes
      BY <1>5 DEF EscapeByte, EscapedBy, Apostrophe, Escaper, Bytes
    <2> QED BY <1>1, <2>1
  <1>6. CASE c = 26
    <2>1. EscapeByte(c) = <<Escaper, 90>> /\ EscapedBy(90) = c /\ 90 \in Bytes
      BY <1>6 DEF EscapeByte, EscapedBy, Apostrophe, Escaper, Bytes
    <2> QED BY <1>1, <2>1
  <1>7. CASE c \notin {Apostrophe, Escaper, 34, 0, 10, 13, 26}
    <2>1. EscapeByte(c) = <<c>>
      BY <1>7 DEF EscapeByte
    <2>2. LexesTo(Append(text, c), "literal", Append(v, c), r)
      BY <1>7, LexByte
    <2> QED BY <1>0, <2>1, <2>2, AppendIsConcatenation
  <1> QED BY <1>2, <1>3, <1>4, <1>5, <1>6, <1>7

LEMMA Concatenated ==
    ASSUME NEW a \in Seq(Bytes), NEW b \in Seq(Bytes), NEW c \in Seq(Bytes)
    PROVE  (a \o b) \o c = a \o (b \o c) /\ a \o b \in Seq(Bytes)
  BY ConcatAssociative, ConcatProperties

\* A string parameter is read as one literal with its value.
LEMMA LexString ==
    ASSUME NEW text, NEW v, NEW r, LexesTo(text, "plain", v, r), NEW s \in Seq(Bytes)
    PROVE  LexesTo(text \o (<<Apostrophe>> \o Escape(s) \o <<Apostrophe>>), "plain", s,
                   Append(r, [kind |-> "string", value |-> s]))
  <1> DEFINE x == Append(text, Apostrophe)
             e == Escaped(s)
             N == Len(s)
             Q(n) == LexesTo(x \o e[n], "literal", SubSeq(s, 1, n), r)
             T == {n \in 0 .. N : Q(n)}
  <1>0. Apostrophe \in Bytes /\ N \in Nat /\ text \in Seq(Bytes)
    BY DEF Apostrophe, Bytes, LexesTo
  <1>1. /\ e[0] = <<>> /\ \A n \in 1 .. N : e[n] = e[n - 1] \o EscapeByte(s[n])
        /\ \A n \in 0 .. N : e[n] \in Seq(Bytes)
    BY EscapedRun
  <1>2. LexesTo(x, "literal", <<>>, r)
    BY <1>0, LexByte
  <1>3. x \in Seq(Bytes)
    BY <1>2 DEF LexesTo
  <1> HIDE DEF x, e
  <1>4. Q(0)
    <2>1. x \o e[0] = x /\ SubSeq(s, 1, 0) = <<>>
      BY <1>1, <1>3
    <2> QED BY <1>2, <2>1
  <1>5. ASSUME NEW k \in 1 .. N, Q(k - 1) PROVE Q(k)
    <2>1. s[k] \in Bytes /\ e[k - 1] \in Seq(Bytes) /\ EscapeByte(s[k]) \in Seq(Bytes)
      BY <1>0, <1>1, EscapeByteTyped
    <2>2. (x \o e[k - 1]) \o EscapeByte(s[k]) = x \o e[k]
      <3> DEFINE b == e[k - 1]
                 c == EscapeByte(s[k])
      <3>1. b \in Seq(Bytes) /\ c \in Seq(Bytes) /\ e[k] = b \o c
        BY <1>1, <2>1
      <3> HIDE DEF b, c
      <3>2. (x \o b) \o c = x \o (b \o c)
        BY <1>3, <3>1, Concatenated
      <3> QED BY <3>1, <3>2 DEF b, c
    <2>3. Append(SubSeq(s, 1, k - 1), s[k]) = SubSeq(s, 1, k)
      OBVIOUS
    <2>4. LexesTo((x \o e[k - 1]) \o EscapeByte(s[k]), "literal", Append(SubSeq(s, 1, k - 1), s[k]), r)
      BY <1>5, <2>1, LexEscaped
    <2> QED BY <2>2, <2>3, <2>4
  <1>6. LexesTo(x \o e[N], "literal", s, r)
    <2>1. 0 \in T /\ \A k \in 1 .. N : k - 1 \in T => k \in T
      <3> HIDE DEF Q
      <3> QED BY <1>0, <1>4, <1>5
    <2>2. N \in T
      <3> HIDE DEF T, N
      <3>1. \A k \in 0 .. N : k \in T
        BY <1>0, <2>1, BoundedInduction
      <3> QED BY <1>0, <3>1
    <2>3. Q(N)
      BY <2>2
    <2>4. SubSeq(s, 1, N) = s
      OBVIOUS
    <2> QED BY <2>3, <2>4
  <1>7. LexesTo(Append(x \o e[N], Apostrophe), "plain", s, Append(r, [kind |-> "string", value |-> s]))
    BY <1>0, <1>6, LexByte
  <1>8. Append(x \o e[N], Apostrophe) = text \o (<<Apostrophe>> \o Escape(s) \o <<Apostrophe>>)
    <2>1. e[N] \in Seq(Bytes) /\ <<Apostrophe>> \in Seq(Bytes) /\ Escape(s) = e[N]
      BY <1>0, <1>1 DEF Escape, e
    <2>2. x = text \o <<Apostrophe>>
      BY <1>0 DEF x
    <2>3. Append(x \o e[N], Apostrophe) = (x \o e[N]) \o <<Apostrophe>>
      BY <1>0, <1>3, <2>1
    <2> DEFINE a == <<Apostrophe>>
               E == e[N]
    <2>4. /\ a \in Seq(Bytes) /\ E \in Seq(Bytes)
          /\ Append(x \o E, Apostrophe) = ((text \o a) \o E) \o a
      BY <2>1, <2>2, <2>3
    <2> HIDE DEF a, E
    <2>5. (text \o a) \o E = text \o (a \o E) /\ a \o E \in Seq(Bytes)
      BY <1>0, <2>4, Concatenated
    <2> DEFINE ae == a \o E
    <2>6. (text \o ae) \o a = text \o (ae \o a)
      <3>1. ae \in Seq(Bytes)
        BY <2>5
      <3> HIDE DEF ae
      <3> QED BY <1>0, <2>4, <3>1, Concatenated, SMTT(60)
    <2>7. Append(x \o E, Apostrophe) = text \o (a \o E \o a)
      BY <2>4, <2>5, <2>6
    <2> QED BY <2>1, <2>7 DEF a, E
  <1> QED BY <1>7, <1>8

\* What has no apostrophe is read byte by byte.
LEMMA LexPlain ==
    ASSUME NEW text, NEW v, NEW r \in Seq(Token), LexesTo(text, "plain", v, r),
           NEW s \in Seq(Bytes \ {Apostrophe})
    PROVE  LexesTo(text \o s, "plain", v, r \o Plains(s))
  <1> DEFINE N == Len(s)
             P(n) == SubSeq(s, 1, n)
             Q(n) == LexesTo(text \o P(n), "plain", v, r \o Plains(P(n)))
             T == {n \in 0 .. N : Q(n)}
  <1>0. N \in Nat /\ text \in Seq(Bytes) /\ s \in Seq(Bytes)
    BY DEF LexesTo
  <1>1. Q(0)
    <2>1. P(0) = <<>> /\ text \o <<>> = text
      BY <1>0
    <2>2. Plains(<<>>) = <<>>
      BY DEF Plains
    <2>3. r \o <<>> = r
      OBVIOUS
    <2> HIDE DEF P
    <2> QED BY <2>1, <2>2, <2>3
  <1>2. ASSUME NEW k \in 1 .. N, Q(k - 1) PROVE Q(k)
    <2> DEFINE c == s[k]
               tok == [kind |-> "plain", value |-> <<c>>]
    <2>1. c \in Bytes /\ c # Apostrophe
      BY <1>0
    <2>2. /\ P(k - 1) \in Seq(Bytes) /\ P(k) = Append(P(k - 1), c) /\ Len(P(k - 1)) = k - 1
      BY <1>0
    <2>3. text \o P(k) = Append(text \o P(k - 1), c)
      <3> HIDE DEF P, c
      <3> QED BY <1>0, <2>1, <2>2
    <2>4. Plains(P(k)) = Append(Plains(P(k - 1)), tok) /\ Plains(P(k - 1)) \in Seq(Token)
      <3>1. \A b \in Bytes : [kind |-> "plain", value |-> <<b>>] \in Token
        <4>1. \A b \in Bytes : <<b>> \in Seq(Bytes)
          OBVIOUS
        <4> QED BY <4>1 DEF Token
      <3> HIDE DEF P, c
      <3>2. \A i \in 1 .. k - 1 : P(k - 1)[i] \in Bytes
        BY <2>2
      <3>3. Plains(P(k - 1)) \in Seq(Token) /\ Len(Plains(P(k - 1))) = k - 1
        BY <2>2, <3>1, <3>2 DEF Plains
      <3>4. Len(P(k)) = k /\ P(k)[k] = c /\ \A i \in 1 .. k - 1 : P(k)[i] = P(k - 1)[i]
        BY <2>1, <2>2
      <3>5. Plains(P(k)) = Append(Plains(P(k - 1)), tok)
        BY <2>2, <3>3, <3>4 DEF Plains
      <3> QED BY <3>3, <3>5
    <2>5. r \o Plains(P(k)) = Append(r \o Plains(P(k - 1)), tok)
      <3>1. tok \in Token
        <4>1. <<c>> \in Seq(Bytes)
          BY <2>1
        <4> QED BY <4>1 DEF Token
      <3> DEFINE q == Plains(P(k - 1))
      <3> HIDE DEF tok, q
      <3>2. q \in Seq(Token) /\ Plains(P(k)) = Append(q, tok)
        BY <2>4 DEF q
      <3>3. r \o Append(q, tok) = Append(r \o q, tok)
        BY <3>1, <3>2
      <3> HIDE DEF P
      <3> QED BY <3>2, <3>3 DEF q
    <2> HIDE DEF P, c
    <2>6. LexesTo(Append(text \o P(k - 1), c), "plain", v, Append(r \o Plains(P(k - 1)), tok))
      BY <1>2, <2>1, LexByte
    <2> QED BY <2>3, <2>5, <2>6
  <1>3. N \in T
    <2>1. 0 \in T /\ \A k \in 1 .. N : k - 1 \in T => k \in T
      <3> HIDE DEF Q
      <3> QED BY <1>0, <1>1, <1>2
    <2> HIDE DEF T, N
    <2>2. \A k \in 0 .. N : k \in T
      BY <1>0, <2>1, BoundedInduction
    <2> QED BY <1>0, <2>2
  <1>4. P(N) = s
    BY <1>0
  <1> HIDE DEF P
  <1> QED BY <1>3, <1>4

-----------------------------------------------------------------------------
(* BuildSQL.                                                               *)

SqlInput == template \in Templates /\ params \in Seq(Params)

\* What the lexer has read is made of tokens.
LEMMA LexReads ==
    ASSUME NEW text, NEW m, NEW v, NEW r, LexesTo(text, m, v, r)
    PROVE  text \in Seq(Bytes) /\ r \in Seq(Token)
  <1>1. text \in Seq(Bytes) /\ Lexed(text) = [mode |-> m, value |-> v, read |-> r]
    BY DEF LexesTo
  <1>2. Lexed(text) \in LexState
    BY <1>1, LexAppend DEF Bytes
  <1> QED BY <1>1, <1>2 DEF LexState

\* What the server is meant to read for a parameter.
Reading(p) == IF p.kind = "string" THEN <<[kind |-> "string", value |-> p.value]>> ELSE Plains(Literal(p))

LEMMA NullTyped == NullText \in Seq(Bytes \ {Apostrophe})
  <1>1. 78 \in Bytes \ {Apostrophe} /\ 85 \in Bytes \ {Apostrophe} /\ 76 \in Bytes \ {Apostrophe}
    BY DEF Bytes, Apostrophe
  <1> DEFINE B == Bytes \ {Apostrophe}
  <1> HIDE DEF B
  <1>2. \A a, b, c, d \in B : <<a, b, c, d>> \in Seq(B)
    OBVIOUS
  <1> QED BY <1>1, <1>2 DEF NullText, B

LEMMA BitTyped == \A x \in BOOLEAN : <<IF x THEN 49 ELSE 48>> \in Seq(Bytes \ {Apostrophe})
  <1>1. 49 \in Bytes \ {Apostrophe} /\ 48 \in Bytes \ {Apostrophe}
    BY DEF Bytes, Apostrophe
  <1>2. \A b \in Bytes \ {Apostrophe} : <<b>> \in Seq(Bytes \ {Apostrophe})
    OBVIOUS
  <1> QED BY <1>1, <1>2, Zenon

\* A literal behind a text is read as the parameter.
LEMMA LiteralRead ==
    ASSUME NEW p \in Params
    PROVE  /\ Literal(p) \in Seq(Bytes)
           /\ \A text, v, r : LexesTo(text, "plain", v, r) =>
                 \E w : LexesTo(text \o Literal(p), "plain", w, r \o Reading(p))
  <1>1. CASE p.kind = "string" /\ p.value \in Seq(Bytes)
    <2>1. Literal(p) = <<Apostrophe>> \o Escape(p.value) \o <<Apostrophe>>
      BY <1>1 DEF Literal
    <2>2. Literal(p) \in Seq(Bytes)
      <3>1. Escape(p.value) \in Seq(Bytes)
        <4> DEFINE s == p.value
        <4>1. s \in Seq(Bytes) /\ Len(s) \in 0 .. Len(s)
          BY <1>1
        <4> HIDE DEF s
        <4>2. Escaped(s)[Len(s)] \in Seq(Bytes)
          BY <4>1, EscapedRun
        <4> QED BY <4>2 DEF Escape, s
      <3>2. <<Apostrophe>> \in Seq(Bytes)
        BY DEF Apostrophe, Bytes
      <3>3. <<Apostrophe>> \o Escape(p.value) \in Seq(Bytes)
        BY <3>1, <3>2, Concatenated
      <3> QED BY <2>1, <3>2, <3>3, ConcatProperties
    <2>3. ASSUME NEW text, NEW v, NEW r, LexesTo(text, "plain", v, r)
          PROVE  LexesTo(text \o Literal(p), "plain", p.value, r \o Reading(p))
      <3> DEFINE tok == [kind |-> "string", value |-> p.value]
      <3>1. tok \in Token
        BY <1>1 DEF Token
      <3>2. r \in Seq(Token)
        BY <2>3, LexReads
      <3>3. LexesTo(text \o Literal(p), "plain", p.value, Append(r, tok))
        BY <1>1, <2>1, <2>3, LexString
      <3>4. Reading(p) = <<tok>>
        BY <1>1 DEF Reading
      <3> HIDE DEF tok
      <3>5. r \o <<tok>> = Append(r, tok)
        BY <3>1, <3>2
      <3> QED BY <3>3, <3>4, <3>5
    <2> QED BY <2>2, <2>3
  <1>2. CASE p.kind # "string" /\ Literal(p) \in Seq(Bytes \ {Apostrophe})
    <2>1. Literal(p) \in Seq(Bytes)
      BY <1>2
    <2>2. ASSUME NEW text, NEW v, NEW r, LexesTo(text, "plain", v, r)
          PROVE  LexesTo(text \o Literal(p), "plain", v, r \o Reading(p))
      <3>1. r \in Seq(Token)
        BY <2>2, LexReads
      <3>2. LexesTo(text \o Literal(p), "plain", v, r \o Plains(Literal(p)))
        BY <1>2, <2>2, <3>1, LexPlain
      <3> QED BY <1>2, <3>2 DEF Reading
    <2> QED BY <2>1, <2>2
  <1>3. CASE p.kind = "null"
    <2>1. Literal(p) = NullText
      BY <1>3 DEF Literal
    <2> QED BY <1>2, <1>3, <2>1, NullTyped
  <1>4. CASE p.kind = "bool" /\ p.value \in BOOLEAN
    <2>1. Literal(p) = <<IF p.value THEN 49 ELSE 48>>
      BY <1>4 DEF Literal
    <2>2. Literal(p) \in Seq(Bytes \ {Apostrophe})
      BY <1>4, <2>1, BitTyped, Zenon
    <2> QED BY <1>2, <1>4, <2>2
  <1>5. CASE p.kind = "number" /\ p.value \in Seq(Bytes \ {Apostrophe})
    <2>1. Literal(p) = p.value
      BY <1>5 DEF Literal
    <2> QED BY <1>2, <1>5, <2>1
  <1> QED BY <1>1, <1>3, <1>4, <1>5, ParamsAssumption, Zenon

\* Counting placeholders.
LEMMA PlaceholderCount ==
    ASSUME template \in Seq(Bytes)
    PROVE  /\ PlaceholdersUpTo(0) = 0
           /\ \A i \in 0 .. Len(template) : PlaceholdersUpTo(i) \in Nat
           /\ \A i \in 0 .. Len(template) : PlaceholdersUpTo(i) <= PlaceholdersUpTo(Len(template))
           /\ \A i \in 1 .. Len(template) :
                 PlaceholdersUpTo(i) = PlaceholdersUpTo(i - 1) + (IF template[i] = Placeholder THEN 1 ELSE 0)
  <1> DEFINE P(i) == {j \in 1 .. i : template[j] = Placeholder}
             N == Len(template)
  <1>0. N \in Nat
    OBVIOUS
  <1>1. \A i \in 0 .. N : IsFiniteSet(P(i)) /\ Cardinality(P(i)) \in Nat
    <2> SUFFICES ASSUME NEW i \in 0 .. N PROVE IsFiniteSet(P(i)) /\ Cardinality(P(i)) \in Nat
      OBVIOUS
    <2>1. IsFiniteSet(1 .. i)
      BY <1>0, FS_Interval
    <2>2. P(i) \subseteq 1 .. i
      OBVIOUS
    <2> HIDE DEF P
    <2>3. IsFiniteSet(P(i))
      BY <2>1, <2>2, FS_Subset
    <2> QED BY <2>3, FS_CardinalityType
  <1>2. Cardinality(P(0)) = 0
    <2>1. P(0) = {}
      OBVIOUS
    <2> HIDE DEF P
    <2> QED BY <2>1, FS_EmptySet
  <1>3. ASSUME NEW i \in 0 .. N PROVE Cardinality(P(i)) <= Cardinality(P(N))
    <2>1. P(i) \subseteq P(N) /\ N \in 0 .. N
      BY <1>0
    <2> HIDE DEF P
    <2> QED BY <1>1, <2>1, FS_Subset
  <1>4. ASSUME NEW i \in 1 .. N
        PROVE  Cardinality(P(i)) = Cardinality(P(i - 1)) + (IF template[i] = Placeholder THEN 1 ELSE 0)
    <2>1. i - 1 \in 0 .. N
      BY <1>0
    <2>2. CASE template[i] = Placeholder
      <3>1. P(i) = P(i - 1) \cup {i} /\ i \notin P(i - 1)
        BY <1>0, <2>2
      <3> HIDE DEF P
      <3> QED BY <1>1, <2>1, <2>2, <3>1, FS_AddElement
    <2>3. CASE template[i] # Placeholder
      <3>1. P(i) = P(i - 1)
        BY <1>0, <2>3
      <3> HIDE DEF P
      <3> QED BY <1>1, <2>1, <2>3, <3>1
    <2> QED BY <2>2, <2>3
  <1> QED BY <1>1, <1>2, <1>3, <1>4 DEF PlaceholdersUpTo

LEMMA TemplateTyped ==
    ASSUME template \in Templates
    PROVE  template \in Seq(Bytes) /\ \A i \in 1 .. Len(template) : template[i] \in Bytes \ {Apostrophe}
  BY TemplatesAssumption

BuildState == [ok : BOOLEAN, text : Seq(Bytes), next : Nat \ {0}]
BuildStart == [ok |-> TRUE, text |-> <<>>, next |-> 1]

\* One byte of the template, case by case.
LEMMA BuildStepCases ==
    ASSUME SqlInput, NEW st \in BuildState, NEW c \in Bytes
    PROVE  /\ BuildStep(st, c) \in BuildState
           /\ ~st.ok => BuildStep(st, c) = st
           /\ st.ok /\ c # Placeholder =>
                 BuildStep(st, c) = [ok |-> TRUE, text |-> Append(st.text, c), next |-> st.next]
           /\ st.ok /\ c = Placeholder /\ st.next > Len(params) => ~BuildStep(st, c).ok
           /\ st.ok /\ c = Placeholder /\ st.next <= Len(params) =>
                 BuildStep(st, c) = [ok |-> TRUE, text |-> st.text \o Literal(params[st.next]),
                                     next |-> st.next + 1]
  <1>1. /\ st.ok \in BOOLEAN /\ st.text \in Seq(Bytes) /\ st.next \in Nat \ {0}
        /\ st = [ok |-> st.ok, text |-> st.text, next |-> st.next]
    BY DEF BuildState
  <1>2. params \in Seq(Params) /\ Len(params) \in Nat
    BY DEF SqlInput
  <1>3. CASE ~st.ok
    <2>1. BuildStep(st, c) = st
      BY <1>3 DEF BuildStep
    <2> QED BY <1>3, <2>1
  <1>4. CASE st.ok /\ c # Placeholder
    <2>1. BuildStep(st, c) = [st EXCEPT !.text = Append(@, c)]
      BY <1>4 DEF BuildStep
    <2>2. Append(st.text, c) \in Seq(Bytes)
      BY <1>1
    <2>3. BuildStep(st, c) = [ok |-> TRUE, text |-> Append(st.text, c), next |-> st.next]
      BY <1>1, <1>4, <2>1
    <2>4. BuildStep(st, c) \in BuildState
      BY <1>1, <2>2, <2>3 DEF BuildState
    <2> QED BY <1>4, <2>3, <2>4
  <1>5. CASE st.ok /\ c = Placeholder /\ st.next > Len(params)
    <2>1. BuildStep(st, c) = [st EXCEPT !.ok = FALSE]
      BY <1>5 DEF BuildStep
    <2>2. BuildStep(st, c) = [ok |-> FALSE, text |-> st.text, next |-> st.next]
      BY <1>1, <2>1
    <2>3. BuildStep(st, c) \in BuildState /\ ~BuildStep(st, c).ok
      BY <1>1, <2>2 DEF BuildState
    <2>4. ~(st.next <= Len(params))
      BY <1>1, <1>2, <1>5
    <2> QED BY <1>5, <2>3, <2>4
  <1>6. CASE st.ok /\ c = Placeholder /\ st.next <= Len(params)
    <2>1. ~(st.next > Len(params)) /\ st.next \in 1 .. Len(params)
      BY <1>1, <1>2, <1>6
    <2>2. params[st.next] \in Params
      BY <1>2, <2>1
    <2>3. Literal(params[st.next]) \in Seq(Bytes)
      BY <2>2, LiteralRead
    <2> DEFINE l == Literal(params[st.next])
    <2>4. BuildStep(st, c) = [st EXCEPT !.text = @ \o l, !.next = @ + 1]
      <3> HIDE DEF l
      <3> QED BY <1>6, <2>1 DEF BuildStep, l
    <2> HIDE DEF l
    <2>5. BuildStep(st, c) = [ok |-> TRUE, text |-> st.text \o l, next |-> st.next + 1]
      BY <1>1, <1>6, <2>4
    <2>6. st.text \o l \in Seq(Bytes) /\ st.next + 1 \in Nat \ {0}
      BY <1>1, <2>3, Concatenated DEF l
    <2>7. BuildStep(st, c) \in BuildState
      BY <2>5, <2>6 DEF BuildState
    <2> QED BY <1>6, <2>1, <2>5, <2>7 DEF l
  <1>7. st.next > Len(params) \/ st.next <= Len(params)
    BY <1>1, <1>2
  <1> QED BY <1>3, <1>4, <1>5, <1>6, <1>7

LEMMA BuiltRun ==
    ASSUME SqlInput
    PROVE  /\ Built[0] = BuildStart
           /\ \A n \in 1 .. Len(template) : Built[n] = BuildStep(Built[n - 1], template[n])
           /\ \A n \in 0 .. Len(template) : Built[n] \in BuildState
  <1> DEFINE N == Len(template)
             S == BuildState
             base == BuildStart
             Step(k, x) == BuildStep(x, template[k])
             F == [k \in 1 .. N |-> [x \in S |-> Step(k, x)]]
             e == Built
  <1>0. template \in Seq(Bytes)
    BY TemplateTyped DEF SqlInput
  <1>1. N \in Nat /\ base \in S
    BY <1>0 DEF BuildStart, BuildState
  <1>2. \A k \in 1 .. N : \A x \in S : Step(k, x) \in S
    <2> SUFFICES ASSUME NEW k \in 1 .. N, NEW x \in S PROVE Step(k, x) \in S
      OBVIOUS
    <2>1. template[k] \in Bytes
      BY <1>0
    <2> QED BY <2>1, BuildStepCases
  <1>3. e = CHOOSE f : f = [k \in 0 .. N |-> IF k = 0 THEN base ELSE Step(k, f[k - 1])]
    BY DEF Built, BuildStart
  <1> HIDE DEF N, S, base, Step, e
  <1>4. F \in Loop(N, S)
    BY <1>2 DEF Loop
  <1>5. \E f : IsRun(f, N, S, base, F)
    <2> HIDE DEF F
    <2> QED BY <1>1, <1>4, LoopExists
  <1>f. PICK f \in [0 .. N -> S] : f[0] = base /\ \A k \in 1 .. N : f[k] = F[k][f[k - 1]]
    <2> HIDE DEF F
    <2> QED BY <1>5 DEF IsRun
  <1>6. f = [k \in 0 .. N |-> IF k = 0 THEN base ELSE Step(k, f[k - 1])]
    <2>1. ASSUME NEW k \in 0 .. N PROVE f[k] = IF k = 0 THEN base ELSE Step(k, f[k - 1])
      <3>1. CASE k = 0
        BY <1>f, <3>1
      <3>2. CASE k # 0
        <4>1. k \in 1 .. N /\ f[k - 1] \in S
          BY <1>1, <3>2
        <4>2. F[k][f[k - 1]] = Step(k, f[k - 1])
          BY <4>1
        <4> QED BY <1>f, <3>2, <4>1, <4>2
      <3> QED BY <3>1, <3>2
    <2> QED BY <2>1
  <1>7. e = [k \in 0 .. N |-> IF k = 0 THEN base ELSE Step(k, e[k - 1])]
    BY <1>3, <1>6
  <1>8. \A k \in 0 .. N : e[k] = IF k = 0 THEN base ELSE Step(k, e[k - 1])
    <2> DEFINE G(k) == IF k = 0 THEN base ELSE Step(k, e[k - 1])
    <2>1. e = [k \in 0 .. N |-> G(k)]
      BY <1>7
    <2> HIDE DEF G
    <2>2. \A k \in 0 .. N : e[k] = G(k)
      BY <2>1
    <2> QED BY <2>2 DEF G
  <1>9. e[0] = base /\ \A k \in 1 .. N : e[k] = Step(k, e[k - 1])
    BY <1>1, <1>8
  <1>10. \A k \in 0 .. N : e[k] \in S
    BY <1>1, <1>2, <1>9, LoopKeeps
  <1> QED BY <1>9, <1>10 DEF N, S, base, Step, e

\* Enough parameters: as many as there are placeholders.
Enough == PlaceholdersUpTo(Len(template)) <= Len(params)

\* The parameter of each placeholder.
LEMMA ParameterOfPlaceholder ==
    ASSUME SqlInput, Enough, NEW i \in 1 .. Len(template), template[i] = Placeholder
    PROVE  PlaceholdersUpTo(i) \in 1 .. Len(params) /\ params[PlaceholdersUpTo(i)] \in Params
  <1>1. template \in Seq(Bytes) /\ params \in Seq(Params)
    BY TemplateTyped DEF SqlInput
  <1> DEFINE N == Len(template)
             M == Len(params)
             P(k) == PlaceholdersUpTo(k)
  <1>2. N \in Nat /\ M \in Nat
    BY <1>1
  <1>3. /\ \A k \in 0 .. N : P(k) \in Nat
        /\ \A k \in 0 .. N : P(k) <= P(N)
        /\ P(i) = P(i - 1) + 1
    BY <1>1, PlaceholderCount
  <1>4. P(N) <= M
    BY DEF Enough
  <1>5. P(i) \in 1 .. M
    <2> HIDE DEF P, M
    <2>1. i \in 0 .. N /\ i - 1 \in 0 .. N /\ N \in 0 .. N
      BY <1>2
    <2> HIDE DEF N
    <2>2. P(i) \in Nat /\ P(i - 1) \in Nat /\ P(N) \in Nat /\ P(i) <= P(N)
      BY <1>3, <2>1
    <2> QED BY <1>2, <1>3, <1>4, <2>2
  <1> QED BY <1>1, <1>5

\* What a byte of the template stands for is read as tokens.
LEMMA MeantByTyped ==
    ASSUME SqlInput, Enough, NEW i \in 1 .. Len(template)
    PROVE  /\ MeantBy(i) \in Seq(Token)
           /\ template[i] # Placeholder => MeantBy(i) = <<[kind |-> "plain", value |-> <<template[i]>>]>>
           /\ template[i] = Placeholder => MeantBy(i) = Reading(params[PlaceholdersUpTo(i)])
  <1>1. template[i] \in Bytes
    BY TemplateTyped DEF SqlInput
  <1>2. CASE template[i] # Placeholder
    <2> DEFINE c == template[i]
               tok == [kind |-> "plain", value |-> <<c>>]
    <2>1. MeantBy(i) = Plains(<<c>>)
      BY <1>2 DEF MeantBy
    <2>2. <<c>> \in Seq(Bytes)
      BY <1>1
    <2>3. tok \in Token
      BY <2>2 DEF Token
    <2> HIDE DEF c
    <2>4. Plains(<<c>>) = <<tok>>
      BY DEF Plains
    <2> HIDE DEF tok
    <2>5. <<tok>> \in Seq(Token)
      BY <2>3
    <2> QED BY <1>2, <2>1, <2>4, <2>5 DEF tok, c
  <1>3. CASE template[i] = Placeholder
    <2> DEFINE q == params[PlaceholdersUpTo(i)]
    <2>1. q \in Params
      BY <1>3, ParameterOfPlaceholder
    <2>2. MeantBy(i) = Reading(q)
      BY <1>3 DEF MeantBy, Reading
    <2> HIDE DEF q
    <2>3. Reading(q) \in Seq(Token)
      <3>1. CASE q.kind = "string"
        <4> DEFINE tok == [kind |-> "string", value |-> q.value]
        <4>1. tok \in Token
          BY <2>1, <3>1, ParamsAssumption DEF Token
        <4>2. Reading(q) = <<tok>>
          BY <3>1 DEF Reading
        <4> HIDE DEF tok
        <4> QED BY <4>1, <4>2
      <3>2. CASE q.kind # "string"
        <4>1. Literal(q) \in Seq(Bytes)
          BY <2>1, LiteralRead
        <4> DEFINE l == Literal(q)
        <4>2. Reading(q) = Plains(l)
          BY <3>2 DEF Reading
        <4> HIDE DEF l
        <4>3. \A b \in Bytes : [kind |-> "plain", value |-> <<b>>] \in Token
          <5>1. \A b \in Bytes : <<b>> \in Seq(Bytes)
            OBVIOUS
          <5> QED BY <5>1 DEF Token
        <4>4. l \in Seq(Bytes)
          BY <4>1 DEF l
        <4>5. Plains(l) \in Seq(Token)
          BY <4>3, <4>4 DEF Plains
        <4> QED BY <4>2, <4>5
      <3> QED BY <3>1, <3>2
    <2> QED BY <1>3, <2>2, <2>3 DEF q
  <1> QED BY <1>2, <1>3

LEMMA MeantRun ==
    ASSUME SqlInput, Enough
    PROVE  /\ Meant[0] = <<>>
           /\ \A n \in 1 .. Len(template) : Meant[n] = Meant[n - 1] \o MeantBy(n)
           /\ \A n \in 0 .. Len(template) : Meant[n] \in Seq(Token)
  <1> DEFINE N == Len(template)
             S == Seq(Token)
             base == <<>>
             Step(k, x) == x \o MeantBy(k)
             F == [k \in 1 .. N |-> [x \in S |-> Step(k, x)]]
             e == Meant
  <1>0. template \in Seq(Bytes)
    BY TemplateTyped DEF SqlInput
  <1>1. N \in Nat /\ base \in S
    BY <1>0
  <1>2. \A k \in 1 .. N : \A x \in S : Step(k, x) \in S
    BY MeantByTyped, ConcatProperties
  <1>3. e = CHOOSE f : f = [k \in 0 .. N |-> IF k = 0 THEN base ELSE Step(k, f[k - 1])]
    BY DEF Meant
  <1> HIDE DEF N, S, base, Step, e
  <1>4. F \in Loop(N, S)
    BY <1>2 DEF Loop
  <1>5. \E f : IsRun(f, N, S, base, F)
    <2> HIDE DEF F
    <2> QED BY <1>1, <1>4, LoopExists
  <1>f. PICK f \in [0 .. N -> S] : f[0] = base /\ \A k \in 1 .. N : f[k] = F[k][f[k - 1]]
    <2> HIDE DEF F
    <2> QED BY <1>5 DEF IsRun
  <1>6. f = [k \in 0 .. N |-> IF k = 0 THEN base ELSE Step(k, f[k - 1])]
    <2>1. ASSUME NEW k \in 0 .. N PROVE f[k] = IF k = 0 THEN base ELSE Step(k, f[k - 1])
      <3>1. CASE k = 0
        BY <1>f, <3>1
      <3>2. CASE k # 0
        <4>1. k \in 1 .. N /\ f[k - 1] \in S
          BY <1>1, <3>2
        <4>2. F[k][f[k - 1]] = Step(k, f[k - 1])
          BY <4>1
        <4> QED BY <1>f, <3>2, <4>1, <4>2
      <3> QED BY <3>1, <3>2
    <2> QED BY <2>1
  <1>7. e = [k \in 0 .. N |-> IF k = 0 THEN base ELSE Step(k, e[k - 1])]
    BY <1>3, <1>6
  <1>8. \A k \in 0 .. N : e[k] = IF k = 0 THEN base ELSE Step(k, e[k - 1])
    <2> DEFINE G(k) == IF k = 0 THEN base ELSE Step(k, e[k - 1])
    <2>1. e = [k \in 0 .. N |-> G(k)]
      BY <1>7
    <2> HIDE DEF G
    <2>2. \A k \in 0 .. N : e[k] = G(k)
      BY <2>1
    <2> QED BY <2>2 DEF G
  <1>9. e[0] = base /\ \A k \in 1 .. N : e[k] = Step(k, e[k - 1])
    BY <1>1, <1>8
  <1>10. \A k \in 0 .. N : e[k] \in S
    BY <1>1, <1>2, <1>9, LoopKeeps
  <1> QED BY <1>9, <1>10 DEF N, S, base, Step, e

\* The loop goes on as long as there are parameters.
CountedTo(n) ==
    /\ Built[n].ok <=> PlaceholdersUpTo(n) <= Len(params)
    /\ Built[n].ok => Built[n].next = PlaceholdersUpTo(n) + 1

LEMMA LoopCounts ==
    ASSUME SqlInput
    PROVE  \A n \in 0 .. Len(template) : CountedTo(n)
  <1> DEFINE N == Len(template)
             M == Len(params)
             P(n) == PlaceholdersUpTo(n)
             b == Built
             T == {n \in 0 .. N : CountedTo(n)}
  <1>0. template \in Seq(Bytes) /\ params \in Seq(Params)
    BY TemplateTyped DEF SqlInput
  <1>1. N \in Nat /\ M \in Nat
    BY <1>0
  <1>2. /\ P(0) = 0 /\ \A i \in 0 .. N : P(i) \in Nat
        /\ \A i \in 1 .. N : P(i) = P(i - 1) + (IF template[i] = Placeholder THEN 1 ELSE 0)
    BY <1>0, PlaceholderCount
  <1>3. /\ b[0] = BuildStart
        /\ \A n \in 1 .. N : b[n] = BuildStep(b[n - 1], template[n])
        /\ \A n \in 0 .. N : b[n] \in BuildState
    BY BuiltRun
  <1>4. CountedTo(0)
    <2>1. b[0].ok /\ b[0].next = 1
      BY <1>3 DEF BuildStart
    <2> QED BY <1>1, <1>2, <2>1 DEF CountedTo
  <1>5. ASSUME NEW k \in 1 .. N, CountedTo(k - 1) PROVE CountedTo(k)
    <2> DEFINE c == template[k]
               st == b[k - 1]
    <2>1. c \in Bytes /\ k - 1 \in 0 .. N /\ k \in 0 .. N
      BY <1>0, <1>1
    <2>2. st \in BuildState /\ b[k] = BuildStep(st, c)
      BY <1>3, <2>1
    <2>3. P(k - 1) \in Nat /\ P(k) \in Nat /\ P(k) = P(k - 1) + (IF c = Placeholder THEN 1 ELSE 0)
      BY <1>2, <2>1
    <2>4. (st.ok <=> P(k - 1) <= M) /\ (st.ok => st.next = P(k - 1) + 1)
      BY <1>5 DEF CountedTo
    <2>5. SUFFICES (b[k].ok <=> P(k) <= M) /\ (b[k].ok => b[k].next = P(k) + 1)
      BY DEF CountedTo
    <2> HIDE DEF c, st, b, P, M
    <2>6. CASE ~st.ok
      <3>1. b[k] = st
        BY <2>1, <2>2, <2>6, BuildStepCases
      <3>2. ~(P(k) <= M)
        BY <1>1, <2>3, <2>4, <2>6
      <3> QED BY <2>6, <3>1, <3>2
    <2>7. CASE st.ok /\ c # Placeholder
      <3>0. b[k] = [ok |-> TRUE, text |-> Append(st.text, c), next |-> st.next]
        BY <2>1, <2>2, <2>7, BuildStepCases
      <3>1. b[k].ok /\ b[k].next = st.next
        BY <3>0
      <3>2. P(k) = P(k - 1)
        BY <2>3, <2>7
      <3> QED BY <2>4, <2>7, <3>1, <3>2
    <2>8. CASE st.ok /\ c = Placeholder /\ st.next > M
      <3>1. ~b[k].ok
        BY <2>1, <2>2, <2>8, BuildStepCases, ZenonT(60) DEF M
      <3>2. ~(P(k) <= M)
        BY <1>1, <2>3, <2>4, <2>8
      <3> QED BY <3>1, <3>2
    <2>9. CASE st.ok /\ c = Placeholder /\ st.next <= M
      <3>0. b[k] = [ok |-> TRUE, text |-> st.text \o Literal(params[st.next]), next |-> st.next + 1]
        BY <2>1, <2>2, <2>9, BuildStepCases DEF M
      <3>1. b[k].ok /\ b[k].next = st.next + 1
        BY <3>0
      <3>2. P(k) <= M /\ st.next + 1 = P(k) + 1
        BY <1>1, <2>3, <2>4, <2>9
      <3> QED BY <3>1, <3>2
    <2>10. st.next \in Nat
      BY <2>2 DEF BuildState
    <2>11. st.next > M \/ st.next <= M
      BY <1>1, <2>10
    <2> QED BY <2>6, <2>7, <2>8, <2>9, <2>11
  <1>6. 0 \in T /\ \A k \in 1 .. N : k - 1 \in T => k \in T
    BY <1>1, <1>4, <1>5
  <1>7. \A k \in 0 .. N : k \in T
    <2> HIDE DEF T, N
    <2> QED BY <1>1, <1>6, BoundedInduction
  <1> QED BY <1>7

\* What is built so far is read as what the template means so far.
ReadsAsMeant(n) == \E v : LexesTo(Built[n].text, "plain", v, Meant[n])

LEMMA LoopReads ==
    ASSUME SqlInput, Enough
    PROVE  \A n \in 0 .. Len(template) : Built[n].ok /\ ReadsAsMeant(n)
  <1> DEFINE N == Len(template)
             M == Len(params)
             P(n) == PlaceholdersUpTo(n)
             b == Built
             T == {n \in 0 .. N : ReadsAsMeant(n)}
  <1>0. template \in Seq(Bytes) /\ params \in Seq(Params) /\ template \in Templates
    BY TemplateTyped DEF SqlInput
  <1>1. N \in Nat /\ M \in Nat
    BY <1>0
  <1>2. /\ \A i \in 0 .. N : P(i) \in Nat /\ P(i) <= P(N)
        /\ \A i \in 1 .. N : P(i) = P(i - 1) + (IF template[i] = Placeholder THEN 1 ELSE 0)
    BY <1>0, PlaceholderCount
  <1>3. /\ b[0] = BuildStart
        /\ \A n \in 1 .. N : b[n] = BuildStep(b[n - 1], template[n])
        /\ \A n \in 0 .. N : b[n] \in BuildState
    BY BuiltRun
  <1>4. \A n \in 0 .. N : b[n].ok /\ b[n].next = P(n) + 1
    <2> SUFFICES ASSUME NEW n \in 0 .. N PROVE b[n].ok /\ b[n].next = P(n) + 1
      OBVIOUS
    <2>1. P(n) <= M
      <3>1. P(N) <= M /\ P(n) <= P(N) /\ P(n) \in Nat /\ P(N) \in Nat
        BY <1>1, <1>2 DEF Enough
      <3> HIDE DEF P, M, N
      <3> QED BY <1>1, <3>1
    <2>2. CountedTo(n)
      BY LoopCounts
    <2> QED BY <2>1, <2>2 DEF CountedTo
  <1>5. /\ Meant[0] = <<>>
        /\ \A n \in 1 .. N : Meant[n] = Meant[n - 1] \o MeantBy(n)
        /\ \A n \in 0 .. N : Meant[n] \in Seq(Token)
    BY MeantRun
  <1>6. ReadsAsMeant(0)
    <2>1. <<>> \in Seq(Bytes) /\ Len(<<>>) = 0
      OBVIOUS
    <2>2. Lexing(<<>>)[0] = LexStart
      BY <2>1, LexingRun
    <2>3. LexesTo(<<>>, "plain", <<>>, <<>>)
      BY <2>1, <2>2 DEF LexesTo, Lexed, LexStart
    <2>4. b[0].text = <<>>
      BY <1>3 DEF BuildStart
    <2> QED BY <1>5, <2>3, <2>4 DEF ReadsAsMeant
  <1>7. ASSUME NEW k \in 1 .. N, ReadsAsMeant(k - 1) PROVE ReadsAsMeant(k)
    <2> DEFINE c == template[k]
               st == b[k - 1]
               r == Meant[k - 1]
    <2>1. c \in Bytes /\ c # Apostrophe /\ k - 1 \in 0 .. N /\ k \in 0 .. N
      BY <1>0, <1>1, TemplateTyped
    <2>2. st \in BuildState /\ b[k] = BuildStep(st, c) /\ st.ok /\ st.next = P(k - 1) + 1
      BY <1>3, <1>4, <2>1
    <2>3. PICK v : LexesTo(st.text, "plain", v, r)
      BY <1>7 DEF ReadsAsMeant
    <2>4. SUFFICES \E w : LexesTo(b[k].text, "plain", w, r \o MeantBy(k))
      BY <1>5 DEF ReadsAsMeant
    <2>5. r \in Seq(Token)
      BY <1>5, <2>1
    <2>6. CASE c # Placeholder
      <3> DEFINE tok == [kind |-> "plain", value |-> <<c>>]
      <3>0. b[k] = [ok |-> TRUE, text |-> Append(st.text, c), next |-> st.next]
        <4> HIDE DEF b, c, st
        <4> QED BY <2>1, <2>2, <2>6, BuildStepCases
      <3>1. b[k].text = Append(st.text, c)
        BY <3>0
      <3>2. LexesTo(Append(st.text, c), "plain", v, Append(r, tok))
        BY <2>1, <2>3, LexByte
      <3>3. MeantBy(k) = <<tok>> /\ tok \in Token
        <4>1. MeantBy(k) = <<tok>>
          BY <2>6, MeantByTyped
        <4>2. <<c>> \in Seq(Bytes)
          BY <2>1
        <4> QED BY <4>1, <4>2 DEF Token
      <3> HIDE DEF tok, r
      <3>4. r \o <<tok>> = Append(r, tok)
        BY <2>5, <3>3
      <3> QED BY <3>1, <3>2, <3>3, <3>4
    <2>7. CASE c = Placeholder
      <3> DEFINE q == params[P(k)]
      <3>1. P(k) \in 1 .. M /\ q \in Params
        BY <2>7, ParameterOfPlaceholder
      <3>2. MeantBy(k) = Reading(q)
        BY <2>7, MeantByTyped
      <3>3. st.next = P(k)
        BY <1>2, <2>1, <2>2, <2>7
      <3>4. st.next <= M
        <4> HIDE DEF P, M
        <4> QED BY <1>1, <3>1, <3>3
      <3>5. b[k] = [ok |-> TRUE, text |-> st.text \o Literal(params[st.next]), next |-> st.next + 1]
        <4> HIDE DEF b, c, st
        <4> QED BY <2>1, <2>2, <2>7, <3>4, BuildStepCases
      <3>6. b[k].text = st.text \o Literal(q)
        <4> HIDE DEF b, st, P
        <4>1. b[k].text = st.text \o Literal(params[st.next])
          <5> DEFINE u == st.text \o Literal(params[st.next])
                     m == st.next + 1
          <5>1. b[k] = [ok |-> TRUE, text |-> u, next |-> m]
            BY <3>5
          <5> HIDE DEF u, m
          <5>2. b[k].text = u
            BY <5>1
          <5> QED BY <5>2 DEF u
        <4> QED BY <3>3, <4>1
      <3> HIDE DEF q, r, st, b
      <3>7. \E w : LexesTo(st.text \o Literal(q), "plain", w, r \o Reading(q))
        BY <2>3, <3>1, LiteralRead
      <3> QED BY <3>2, <3>6, <3>7
    <2> QED BY <2>6, <2>7
  <1>8. 0 \in T /\ \A k \in 1 .. N : k - 1 \in T => k \in T
    BY <1>1, <1>6, <1>7
  <1>9. \A k \in 0 .. N : k \in T
    <2> HIDE DEF T, N
    <2> QED BY <1>1, <1>8, BoundedInduction
  <1> QED BY <1>4, <1>9

\* The result, for the input it was built from.
SqlInv ==
    /\ SqlInput
    /\ statement = NotBuilt \/ (statement.ok <=> Len(params) = PlaceholdersUpTo(Len(template)))
    /\ statement # NotBuilt /\ statement.ok =>
          statement.text = Built[Len(template)].text

\* What the server reads is the template with the values of the parameters,
\* for every template without apostrophes and all parameters.
LEMMA SqlMeaning == SqlInv => StatementMeansTemplate
  <1> SUFFICES ASSUME SqlInv, statement # NotBuilt PROVE StatementMeansTemplate
    BY DEF StatementMeansTemplate
  <1>1. statement.ok <=> Len(params) = PlaceholdersUpTo(Len(template))
    BY DEF SqlInv
  <1>2. ASSUME statement.ok
        PROVE  /\ Lexed(statement.text).mode = "plain"
               /\ Lexed(statement.text).read = Meant[Len(template)]
    <2> DEFINE N == Len(template)
    <2>1. SqlInput /\ statement.text = Built[N].text
      BY <1>2 DEF SqlInv
    <2>2. Len(params) \in Nat /\ N \in Nat
      BY <2>1, TemplateTyped DEF SqlInput
    <2>3. Enough
      BY <1>1, <1>2, <2>2 DEF Enough
    <2>4. N \in 0 .. N
      BY <2>2
    <2>5. ReadsAsMeant(N)
      BY <2>1, <2>3, <2>4, LoopReads
    <2>6. PICK v : LexesTo(Built[N].text, "plain", v, Meant[N])
      BY <2>5 DEF ReadsAsMeant
    <2>7. Lexed(statement.text) = [mode |-> "plain", value |-> v, read |-> Meant[N]]
      BY <2>1, <2>6 DEF LexesTo
    <2> QED BY <2>7
  <1> QED BY <1>1, <1>2 DEF StatementMeansTemplate

\* StatementMeansTemplate for every set of templates without apostrophes and
\* every set of parameters: whatever bytes a parameter has, the server reads
\* it in the place of its own placeholder and nowhere else, and BuildSQL
\* refuses exactly the calls with a wrong number of parameters.
THEOREM StatementsMeanTemplates == SqlInit /\ [][BuildSQL]_sqlVars => []StatementMeansTemplate
  <1>1. SqlInit => SqlInv
    <2> SUFFICES ASSUME SqlInit PROVE SqlInv
      OBVIOUS
    <2>1. params \in Seq(Params)
      <3>1. PICK n \in 0 .. MaxParams : params \in [1 .. n -> Params]
        BY Zenon DEF SqlInit
      <3>2. n \in Nat
        BY TemplatesAssumption
      <3> QED BY <3>1, <3>2
    <2> QED BY <2>1 DEF SqlInit, SqlInv, SqlInput
  <1>2. SqlInv /\ [BuildSQL]_sqlVars => SqlInv'
    <2> SUFFICES ASSUME SqlInv, [BuildSQL]_sqlVars PROVE SqlInv'
      OBVIOUS
    <2>1. CASE UNCHANGED sqlVars
      <3>1. UNCHANGED Built
        BY <2>1 DEF sqlVars, Built, BuildStep
      <3> QED BY <2>1, <3>1 DEF sqlVars, SqlInv, SqlInput, PlaceholdersUpTo
    <2>2. CASE BuildSQL
      <3> DEFINE N == Len(template)
                 end == Built[N]
                 Good == end.ok /\ end.next = Len(params) + 1
      <3>1. template' = template /\ params' = params
        BY <2>2 DEF BuildSQL
      <3>2. Built' = Built /\ PlaceholdersUpTo(N)' = PlaceholdersUpTo(N) /\ SqlInput' /\ SqlInput
        <4>1. Built' = Built
          BY <3>1 DEF Built, BuildStep
        <4>2. PlaceholdersUpTo(N)' = PlaceholdersUpTo(N)
          BY <3>1 DEF PlaceholdersUpTo
        <4>3. SqlInput' /\ SqlInput
          BY <3>1 DEF SqlInv, SqlInput
        <4> QED BY <4>1, <4>2, <4>3
      <3>3. statement' = IF Good THEN [ok |-> TRUE, text |-> end.text] ELSE [ok |-> FALSE, text |-> template]
        BY <2>2 DEF BuildSQL
      <3>4. template \in Seq(Bytes) /\ Len(params) \in Nat /\ N \in Nat /\ N \in 0 .. N
        BY <3>2, TemplateTyped DEF SqlInput
      <3>5. Good <=> Len(params) = PlaceholdersUpTo(N)
        <4>1. CountedTo(N)
          BY <3>2, <3>4, LoopCounts
        <4>2. PlaceholdersUpTo(N) \in Nat
          BY <3>4, PlaceholderCount
        <4> QED BY <3>4, <4>1, <4>2 DEF CountedTo
      <3>6. CASE Good
        <4>1. statement' = [ok |-> TRUE, text |-> end.text]
          BY <3>3, <3>6
        <4>2. statement'.ok /\ statement'.text = end.text
          BY <4>1
        <4> QED BY <3>1, <3>2, <3>5, <3>6, <4>2 DEF SqlInv
      <3>7. CASE ~Good
        <4>1. statement' = [ok |-> FALSE, text |-> template]
          BY <3>3, <3>7
        <4>2. ~statement'.ok
          BY <4>1
        <4> QED BY <3>1, <3>2, <3>5, <3>7, <4>2 DEF SqlInv
      <3> QED BY <3>6, <3>7
    <2> QED BY <2>1, <2>2
  <1> QED BY <1>1, <1>2, SqlMeaning, PTL

-----------------------------------------------------------------------------
(* JwtCodec: Base64URL.                                                    *)

\* The upper bits that an int loses are not among the twelve in use.
LEMMA LowBits ==
    ASSUME NEW x \in Nat
    PROVE  AsInt(x) \in Nat /\ AsInt(x) % 4096 = x % 4096
  <1> DEFINE m == IntSpan \div 4096
             q == x \div IntSpan
             r == x % IntSpan
  <1>1. m \in Nat /\ IntSpan = 4096 * m /\ IntSpan \in Nat /\ IntSpan > 0
    BY SpanAssumption
  <1>2. q \in Nat /\ r \in Nat /\ x = IntSpan * q + r
    BY <1>1
  <1> HIDE DEF m, q, r
  <1> DEFINE z == m * q
  <1>3. z \in Nat /\ x = 4096 * z + r
    BY <1>1, <1>2
  <1> HIDE DEF z
  <1>4. r % 4096 = x % 4096
    BY <1>2, <1>3
  <1> QED BY <1>2, <1>4 DEF r, AsInt

\* Bits that stay the same when only the lowest twelve are kept.
SameBits(w, y) ==
    /\ w % 256 = y % 256 /\ w % 64 = y % 64
    /\ (w \div 4) % 64 = (y \div 4) % 64
    /\ (w \div 16) % 64 = (y \div 16) % 64
    /\ (w \div 64) % 64 = (y \div 64) % 64
    /\ (w \div 4) % 256 = (y \div 4) % 256
    /\ (w \div 16) % 256 = (y \div 16) % 256

\* Values that agree in their lower twelve bits.
LEMMA TwelveBits ==
    ASSUME NEW w \in Nat, NEW y \in Nat, w % 4096 = y % 4096
    PROVE  SameBits(w, y)
  <1> DEFINE a == w \div 4096
             b == y \div 4096
             r == y % 4096
  <1>1. a \in Nat /\ b \in Nat /\ r \in 0 .. 4095 /\ w = 4096 * a + r /\ y = 4096 * b + r
    OBVIOUS
  <1> HIDE DEF a, b, r
  <1>2. w % 256 = r % 256 /\ y % 256 = r % 256
    BY <1>1
  <1>3. w % 64 = r % 64 /\ y % 64 = r % 64
    BY <1>1
  <1>4. (w \div 4) % 64 = (r \div 4) % 64 /\ (y \div 4) % 64 = (r \div 4) % 64
    BY <1>1
  <1>5. (w \div 16) % 64 = (r \div 16) % 64 /\ (y \div 16) % 64 = (r \div 16) % 64
    BY <1>1, SMTT(60)
  <1>6. (w \div 64) % 64 = (r \div 64) % 64 /\ (y \div 64) % 64 = (r \div 64) % 64
    <2>1. w \div 64 = 64 * a + r \div 64 /\ y \div 64 = 64 * b + r \div 64 /\ r \div 64 \in 0 .. 63
      BY <1>1
    <2> QED BY <1>1, <2>1
  <1>7. (w \div 4) % 256 = (r \div 4) % 256 /\ (y \div 4) % 256 = (r \div 4) % 256
    BY <1>1
  <1>8. (w \div 16) % 256 = (r \div 16) % 256 /\ (y \div 16) % 256 = (r \div 16) % 256
    BY <1>1
  <1> QED BY <1>2, <1>3, <1>4, <1>5, <1>6, <1>7, <1>8 DEF SameBits

\* What the encoder's shifts take out of val after a byte a and a byte c.
EncodedBits(w, a, c) ==
    /\ w \in Nat /\ w % 256 = c
    /\ (w \div 4) % 64 = c \div 4
    /\ (w \div 16) % 64 = (a % 4) * 16 + c \div 16
    /\ (w \div 64) % 64 = (a % 16) * 4 + c \div 64
    /\ w % 64 = c % 64

\* The six bits that the encoder puts out.
LEMMA EncoderBits ==
    ASSUME NEW v \in Nat, NEW a \in Byte, v % 256 = a, NEW c \in Byte,
           NEW w, w = AsInt(v * 256 + c)
    PROVE  EncodedBits(w, a, c)
  <1> DEFINE y == v * 256 + c
             h == v \div 256
  <1>1. y \in Nat /\ h \in Nat /\ v = 256 * h + a /\ a \in 0 .. 255 /\ c \in 0 .. 255
    BY DEF Byte
  <1>2. w \in Nat /\ w % 4096 = y % 4096
    BY <1>1, LowBits
  <1>3. y = 65536 * h + 256 * a + c
    BY <1>1
  <1> HIDE DEF y, h
  <1>4. y % 256 = c /\ y % 64 = c % 64 /\ (y \div 4) % 64 = c \div 4
    BY <1>1, <1>3
  <1>5. (y \div 16) % 64 = (a % 4) * 16 + c \div 16
    BY <1>1, <1>3
  <1>6. (y \div 64) % 64 = (a % 16) * 4 + c \div 64
    BY <1>1, <1>3
  <1>7. SameBits(w, y)
    BY <1>1, <1>2, TwelveBits
  <1> QED BY <1>2, <1>4, <1>5, <1>6, <1>7 DEF SameBits, EncodedBits

\* The same for the decoder, after a digit a and a digit c.
DecodedBits(w, a, c) ==
    /\ w \in Nat /\ w % 64 = c
    /\ (w \div 16) % 256 = a * 4 + c \div 16
    /\ (w \div 4) % 256 = (a % 16) * 16 + c \div 4
    /\ w % 256 = (a % 4) * 64 + c

\* The eight bits that the decoder puts out.
LEMMA DecoderBits ==
    ASSUME NEW v \in Nat, NEW a \in 0 .. 63, v % 64 = a, NEW c \in 0 .. 63,
           NEW w, w = AsInt(v * 64 + c)
    PROVE  DecodedBits(w, a, c)
  <1> DEFINE y == v * 64 + c
             h == v \div 64
  <1>1. y \in Nat /\ h \in Nat /\ v = 64 * h + a
    OBVIOUS
  <1>2. w \in Nat /\ w % 4096 = y % 4096
    BY <1>1, LowBits
  <1>3. y = 4096 * h + 64 * a + c
    BY <1>1
  <1> HIDE DEF y, h
  <1>4. y % 64 = c /\ y % 256 = (a % 4) * 64 + c
    BY <1>1, <1>3
  <1>5. (y \div 16) % 256 = a * 4 + c \div 16
    BY <1>1, <1>3
  <1>6. (y \div 4) % 256 = (a % 16) * 16 + c \div 4
    BY <1>1, <1>3
  <1>7. SameBits(w, y)
    BY <1>1, <1>2, TwelveBits
  <1> QED BY <1>2, <1>4, <1>5, <1>6, <1>7 DEF SameBits, DecodedBits

\* The k-th byte of a text, zero behind its end.
ByteAt(text, k) == IF k <= Len(text) THEN text[k] ELSE 0

\* The bit at place j is bit b of the byte c.
BitIs(t, j, b, c) == BitAt(t, j) = (c \div 2^(7 - b)) % 2 /\ (c \div 2^(7 - b)) % 2 \in 0 .. 1

\* The powers of two that a bit of a byte is divided by.
LEMMA PowersOfTwo == \A b \in 0 .. 7 : 2^(7 - b) \in {1, 2, 4, 8, 16, 32, 64, 128}
  <1> SUFFICES ASSUME NEW b \in 0 .. 7 PROVE 2^(7 - b) \in {1, 2, 4, 8, 16, 32, 64, 128}
    OBVIOUS
  <1> DEFINE P(x) == 2^(7 - x)
  <1>1. P(0) = 128 /\ P(1) = 64 /\ P(2) = 32 /\ P(3) = 16 /\ P(4) = 8 /\ P(5) = 4 /\ P(6) = 2 /\ P(7) = 1
    OBVIOUS
  <1>2. b = 0 \/ b = 1 \/ b = 2 \/ b = 3 \/ b = 4 \/ b = 5 \/ b = 6 \/ b = 7
    OBVIOUS
  <1> HIDE DEF P
  <1>3. P(b) \in {1, 2, 4, 8, 16, 32, 64, 128}
    BY <1>1, <1>2
  <1> QED BY <1>3 DEF P

\* Byte i of the g-th group of three has the bits 8 * i to 8 * i + 7 of its 24.
LEMMA BitOfByte ==
    ASSUME NEW t \in Seq(Byte), NEW g \in Nat, NEW i \in 0 .. 2, NEW b \in 0 .. 7
    PROVE  /\ ByteAt(t, 3 * g + i + 1) \in Byte
           /\ BitIs(t, 24 * g + (8 * i + b), b, ByteAt(t, 3 * g + i + 1))
  <1> DEFINE j == 24 * g + (8 * i + b)
             c == ByteAt(t, 3 * g + i + 1)
             p == 2^(7 - b)
             d == t[3 * g + i + 1]
  <1>1. j \div 8 = 3 * g + i /\ j % 8 = b
    OBVIOUS
  <1>2. p \in {1, 2, 4, 8, 16, 32, 64, 128}
    BY PowersOfTwo
  <1>3. BitAt(t, j) = IF 3 * g + i < Len(t) THEN (d \div p) % 2 ELSE 0
    <2> HIDE DEF j
    <2> QED BY <1>1, Zenon DEF BitAt
  <1>4. c = (IF 3 * g + i < Len(t) THEN d ELSE 0) /\ c \in Byte
    <2> DEFINE n == 3 * g + i
    <2>0. n \in Nat /\ Len(t) \in Nat /\ (n + 1 <= Len(t) <=> n < Len(t)) /\ 0 \in Byte
      BY DEF Byte
    <2>1. CASE n < Len(t)
      <3>1. n + 1 \in 1 .. Len(t)
        BY <2>0, <2>1
      <3>2. t[n + 1] \in Byte
        <4> HIDE DEF n
        <4> QED BY <3>1
      <3> QED BY <2>0, <2>1, <3>2 DEF ByteAt
    <2>2. CASE ~(n < Len(t))
      <3>1. c = 0
        BY <2>0, <2>2 DEF ByteAt
      <3> QED BY <2>0, <2>2, <3>1
    <2> QED BY <2>1, <2>2
  <1> HIDE DEF j, c, p, d
  <1>5. (0 \div p) % 2 = 0 /\ (c \div p) % 2 \in 0 .. 1
    <2>1. c \in Nat
      BY <1>4 DEF Byte
    <2> QED BY <1>2, <2>1
  <1>6. BitAt(t, j) = (c \div p) % 2
    BY <1>3, <1>4, <1>5
  <1> QED BY <1>4, <1>5, <1>6 DEF BitIs, j, c, p

\* The places of B hold the bits of the byte c.
ByteBits(c, B) ==
    /\ c \in Byte /\ \A b \in 0 .. 7 : B[b] \in 0 .. 1
    /\ B[0] = (c \div 128) % 2 /\ B[1] = (c \div 64) % 2 /\ B[2] = (c \div 32) % 2
    /\ B[3] = (c \div 16) % 2 /\ B[4] = (c \div 8) % 2 /\ B[5] = (c \div 4) % 2
    /\ B[6] = (c \div 2) % 2 /\ B[7] = c % 2

\* The eight bits of a byte of the text.
LEMMA BitsOfByte ==
    ASSUME NEW t \in Seq(Byte), NEW g \in Nat, NEW i \in 0 .. 2,
           NEW c, c = ByteAt(t, 3 * g + i + 1), NEW B, B = [b \in 0 .. 7 |-> BitAt(t, 24 * g + (8 * i + b))]
    PROVE  ByteBits(c, B)
  <1> DEFINE P(b) == 2^(7 - b)
  <1>1. P(0) = 128 /\ P(1) = 64 /\ P(2) = 32 /\ P(3) = 16 /\ P(4) = 8 /\ P(5) = 4 /\ P(6) = 2 /\ P(7) = 1
    OBVIOUS
  <1>2. c \in Byte /\ \A b \in 0 .. 7 : BitIs(t, 24 * g + (8 * i + b), b, c)
    <2>1. c \in Byte
      <3>1. 0 \in 0 .. 7
        OBVIOUS
      <3> QED BY <3>1, BitOfByte
    <2>2. ASSUME NEW b \in 0 .. 7 PROVE BitIs(t, 24 * g + (8 * i + b), b, c)
      <3>1. BitIs(t, 24 * g + (8 * i + b), b, ByteAt(t, 3 * g + i + 1))
        BY BitOfByte
      <3> QED BY <3>1, Zenon
    <2> QED BY <2>1, <2>2
  <1>3. \A b \in 0 .. 7 : B[b] = (c \div P(b)) % 2 /\ B[b] \in 0 .. 1
    BY <1>2 DEF BitIs
  <1> HIDE DEF P
  <1>4. (c \div 1) % 2 = c % 2
    BY <1>2 DEF Byte
  <1>5. /\ B[0] = (c \div P(0)) % 2 /\ B[1] = (c \div P(1)) % 2 /\ B[2] = (c \div P(2)) % 2
        /\ B[3] = (c \div P(3)) % 2 /\ B[4] = (c \div P(4)) % 2 /\ B[5] = (c \div P(5)) % 2
        /\ B[6] = (c \div P(6)) % 2 /\ B[7] = (c \div P(7)) % 2
    BY <1>3
  <1> QED BY <1>1, <1>2, <1>3, <1>4, <1>5 DEF ByteBits

\* Parts of a byte as sums of its bits.
LEMMA BitSums ==
    ASSUME NEW c \in Byte
    PROVE  /\ c \div 4 = 32 * ((c \div 128) % 2) + 16 * ((c \div 64) % 2) + 8 * ((c \div 32) % 2)
                         + 4 * ((c \div 16) % 2) + 2 * ((c \div 8) % 2) + ((c \div 4) % 2)
           /\ c % 4 = 2 * ((c \div 2) % 2) + (c % 2)
           /\ c \div 16 = 8 * ((c \div 128) % 2) + 4 * ((c \div 64) % 2) + 2 * ((c \div 32) % 2)
                          + ((c \div 16) % 2)
           /\ c % 16 = 8 * ((c \div 8) % 2) + 4 * ((c \div 4) % 2) + 2 * ((c \div 2) % 2) + (c % 2)
           /\ c \div 64 = 2 * ((c \div 128) % 2) + ((c \div 64) % 2)
           /\ c % 64 = 32 * ((c \div 32) % 2) + 16 * ((c \div 16) % 2) + 8 * ((c \div 8) % 2)
                      + 4 * ((c \div 4) % 2) + 2 * ((c \div 2) % 2) + (c % 2)
  BY DEF Byte

\* The same of a byte of a text, with its bits as the text has them.
LEMMA BitsMakeByte ==
    ASSUME NEW t \in Seq(Byte), NEW g \in Nat, NEW i \in 0 .. 2,
           NEW c, c = ByteAt(t, 3 * g + i + 1), NEW B, B = [b \in 0 .. 7 |-> BitAt(t, 24 * g + (8 * i + b))]
    PROVE  /\ c \in Byte /\ \A b \in 0 .. 7 : B[b] \in 0 .. 1
           /\ c \div 4 = 32 * B[0] + 16 * B[1] + 8 * B[2] + 4 * B[3] + 2 * B[4] + B[5]
           /\ c % 4 = 2 * B[6] + B[7]
           /\ c \div 16 = 8 * B[0] + 4 * B[1] + 2 * B[2] + B[3]
           /\ c % 16 = 8 * B[4] + 4 * B[5] + 2 * B[6] + B[7]
           /\ c \div 64 = 2 * B[0] + B[1]
           /\ c % 64 = 32 * B[2] + 16 * B[3] + 8 * B[4] + 4 * B[5] + 2 * B[6] + B[7]
  <1>1. /\ c \in Byte /\ \A b \in 0 .. 7 : B[b] \in 0 .. 1
        /\ B[0] = (c \div 128) % 2 /\ B[1] = (c \div 64) % 2 /\ B[2] = (c \div 32) % 2
        /\ B[3] = (c \div 16) % 2 /\ B[4] = (c \div 8) % 2 /\ B[5] = (c \div 4) % 2
        /\ B[6] = (c \div 2) % 2 /\ B[7] = c % 2
    <2>1. ByteBits(c, B)
      BY BitsOfByte
    <2> QED BY <2>1, Zenon DEF ByteBits
  <1>2. c \div 4 = 32 * B[0] + 16 * B[1] + 8 * B[2] + 4 * B[3] + 2 * B[4] + B[5]
    BY <1>1, BitSums, SMTT(60)
  <1>3. c % 4 = 2 * B[6] + B[7]
    BY <1>1, BitSums, SMTT(60)
  <1>4. c \div 16 = 8 * B[0] + 4 * B[1] + 2 * B[2] + B[3]
    BY <1>1, BitSums, SMTT(60)
  <1>5. c % 16 = 8 * B[4] + 4 * B[5] + 2 * B[6] + B[7]
    BY <1>1, BitSums, SMTT(60)
  <1>6. c \div 64 = 2 * B[0] + B[1]
    BY <1>1, BitSums, SMTT(60)
  <1>7. c % 64 = 32 * B[2] + 16 * B[3] + 8 * B[4] + 4 * B[5] + 2 * B[6] + B[7]
    BY <1>1, BitSums, SMTT(60)
  <1> QED BY <1>1, <1>2, <1>3, <1>4, <1>5, <1>6, <1>7

\* Four groups of six bits are three bytes.
Group(t, g, a, b, c) ==
    /\ a \in Byte /\ b \in Byte /\ c \in Byte
    /\ Sextet(t, 4 * g + 1) = a \div 4
    /\ Sextet(t, 4 * g + 2) = (a % 4) * 16 + b \div 16
    /\ Sextet(t, 4 * g + 3) = (b % 16) * 4 + c \div 64
    /\ Sextet(t, 4 * g + 4) = c % 64

\* Four sextets are cut out of three bytes.
LEMMA SextetsOfBytes ==
    ASSUME NEW t \in Seq(Byte), NEW g \in Nat,
           NEW a, a = ByteAt(t, 3 * g + 1), NEW b, b = ByteAt(t, 3 * g + 2), NEW c, c = ByteAt(t, 3 * g + 3)
    PROVE  Group(t, g, a, b, c)
  <1> DEFINE A == [i \in 0 .. 7 |-> BitAt(t, 24 * g + (8 * 0 + i))]
             B == [i \in 0 .. 7 |-> BitAt(t, 24 * g + (8 * 1 + i))]
             C == [i \in 0 .. 7 |-> BitAt(t, 24 * g + (8 * 2 + i))]
  <1>0. 3 * g + 0 + 1 = 3 * g + 1 /\ 3 * g + 1 + 1 = 3 * g + 2 /\ 3 * g + 2 + 1 = 3 * g + 3
    OBVIOUS
  <1>1. /\ Sextet(t, 4 * g + 1) = 32 * A[0] + 16 * A[1] + 8 * A[2] + 4 * A[3] + 2 * A[4] + A[5]
        /\ Sextet(t, 4 * g + 2) = 32 * A[6] + 16 * A[7] + 8 * B[0] + 4 * B[1] + 2 * B[2] + B[3]
        /\ Sextet(t, 4 * g + 3) = 32 * B[4] + 16 * B[5] + 8 * B[6] + 4 * B[7] + 2 * C[0] + C[1]
        /\ Sextet(t, 4 * g + 4) = 32 * C[2] + 16 * C[3] + 8 * C[4] + 4 * C[5] + 2 * C[6] + C[7]
    BY DEF Sextet
  <1>2. /\ a \in Byte /\ \A k \in 0 .. 7 : A[k] \in 0 .. 1
        /\ a \div 4 = 32 * A[0] + 16 * A[1] + 8 * A[2] + 4 * A[3] + 2 * A[4] + A[5]
        /\ a % 4 = 2 * A[6] + A[7]
    <2>1. a = ByteAt(t, 3 * g + 0 + 1)
      BY <1>0
    <2>2. A = [i \in 0 .. 7 |-> BitAt(t, 24 * g + (8 * 0 + i))]
      OBVIOUS
    <2> HIDE DEF A
    <2> QED BY <2>1, <2>2, BitsMakeByte, SMTT(60)
  <1>3. /\ b \in Byte /\ \A k \in 0 .. 7 : B[k] \in 0 .. 1
        /\ b \div 16 = 8 * B[0] + 4 * B[1] + 2 * B[2] + B[3]
        /\ b % 16 = 8 * B[4] + 4 * B[5] + 2 * B[6] + B[7]
    <2>1. b = ByteAt(t, 3 * g + 1 + 1)
      BY <1>0
    <2>2. B = [i \in 0 .. 7 |-> BitAt(t, 24 * g + (8 * 1 + i))]
      OBVIOUS
    <2> HIDE DEF B
    <2> QED BY <2>1, <2>2, BitsMakeByte, SMTT(60)
  <1>4. /\ c \in Byte /\ \A k \in 0 .. 7 : C[k] \in 0 .. 1
        /\ c \div 64 = 2 * C[0] + C[1]
        /\ c % 64 = 32 * C[2] + 16 * C[3] + 8 * C[4] + 4 * C[5] + 2 * C[6] + C[7]
    <2>1. c = ByteAt(t, 3 * g + 2 + 1)
      BY <1>0
    <2>2. C = [i \in 0 .. 7 |-> BitAt(t, 24 * g + (8 * 2 + i))]
      OBVIOUS
    <2> HIDE DEF C
    <2> QED BY <2>1, <2>2, BitsMakeByte
  <1> HIDE DEF A, B, C
  <1>p. /\ A[6] \in Int /\ A[7] \in Int /\ C[0] \in Int /\ C[1] \in Int
        /\ B[0] \in Int /\ B[1] \in Int /\ B[2] \in Int /\ B[3] \in Int
        /\ B[4] \in Int /\ B[5] \in Int /\ B[6] \in Int /\ B[7] \in Int
    <2>1. ASSUME NEW k \in 0 .. 7 PROVE A[k] \in Int /\ B[k] \in Int /\ C[k] \in Int
      <3>1. \A x \in 0 .. 1 : x \in Int
        OBVIOUS
      <3> QED BY <1>2, <1>3, <1>4, <3>1, Zenon
    <2> QED BY <2>1
  <1>5. Sextet(t, 4 * g + 2) = (a % 4) * 16 + b \div 16
    <2> DEFINE p == a % 4
             q == b \div 16
             s == Sextet(t, 4 * g + 2)
             u == A[6]
             v == A[7]
             w == B[0]
             x == B[1]
             y == B[2]
             z == B[3]
    <2>1. u \in Int /\ v \in Int /\ w \in Int /\ x \in Int /\ y \in Int /\ z \in Int
      BY <1>p
    <2>2. p = 2 * u + v
      BY <1>2, <1>3
    <2>3. q = 8 * w + 4 * x + 2 * y + z
      BY <1>2, <1>3
    <2>4. s = 32 * u + 16 * v + 8 * w + 4 * x + 2 * y + z
      BY <1>1
    <2> HIDE DEF p, q, s, u, v, w, x, y, z
    <2>5. s = p * 16 + q
      BY <2>1, <2>2, <2>3, <2>4
    <2> QED BY <2>5 DEF p, q, s
  <1>6. Sextet(t, 4 * g + 3) = (b % 16) * 4 + c \div 64
    <2> DEFINE p == b % 16
             q == c \div 64
             s == Sextet(t, 4 * g + 3)
             u == B[4]
             v == B[5]
             w == B[6]
             x == B[7]
             y == C[0]
             z == C[1]
    <2>1. u \in Int /\ v \in Int /\ w \in Int /\ x \in Int /\ y \in Int /\ z \in Int
      BY <1>p
    <2>2. p = 8 * u + 4 * v + 2 * w + x
      BY <1>3, <1>4
    <2>3. q = 2 * y + z
      BY <1>3, <1>4
    <2>4. s = 32 * u + 16 * v + 8 * w + 4 * x + 2 * y + z
      BY <1>1
    <2> HIDE DEF p, q, s, u, v, w, x, y, z
    <2>5. s = p * 4 + q
      BY <2>1, <2>2, <2>3, <2>4
    <2> QED BY <2>5 DEF p, q, s
  <1> QED BY <1>1, <1>2, <1>3, <1>4, <1>5, <1>6 DEF Group

\* The states of the encoder: six, four or two bits are missing.
EncoderStates == [val : Nat, valb : {-6, -4, -2}, out : Seq(0 .. 63)]

\* What the encoder does to a byte, spelled out for each number of bits.
EncodesTo(st, w, f) ==
    /\ st.valb = -6 => f = [val |-> w, valb |-> -4, out |-> Append(st.out, (w \div 4) % 64)]
    /\ st.valb = -4 => f = [val |-> w, valb |-> -2, out |-> Append(st.out, (w \div 16) % 64)]
    /\ st.valb = -2 => f = [val |-> w, valb |-> -6,
                            out |-> Append(Append(st.out, (w \div 64) % 64), w % 64)]
    /\ f \in EncoderStates

\* EncodeByte at each of the three places where it can stand.
LEMMA EncodeByteIs ==
    ASSUME NEW st \in EncoderStates, NEW c \in Byte, NEW w, w = AsInt(st.val * 256 + c)
    PROVE  EncodesTo(st, w, EncodeByte(st, c))
  <1> DEFINE v == st.val
             b == st.valb
             o == st.out
             u == AsInt(st.val * 256 + c)
             G(n) == [k \in 1 .. n |-> Bits(u, b + (8 - 6 * (k - 1)), 64)]
             E(n) == [val |-> u, valb |-> b + (8 - 6 * n), out |-> o \o G(n)]
  <1>0. v \in Nat /\ b \in {-6, -4, -2} /\ o \in Seq(0 .. 63) /\ c \in Nat
    BY DEF EncoderStates, Byte
  <1>1. w \in Nat
    <2>1. v * 256 + c \in Nat
      BY <1>0
    <2> QED BY <2>1, LowBits
  <1>a. EncodeByte(st, c) = E((b + 8) \div 6 + 1)
    BY Zenon DEF EncodeByte
  <1>u. w = u
    OBVIOUS
  <1> HIDE DEF v, b, o, u, E, G
  <1>b. 2^0 = 1 /\ 2^2 = 4 /\ 2^4 = 16 /\ 2^6 = 64
    OBVIOUS
  <1>c. (w \div 4) % 64 \in 0 .. 63 /\ (w \div 16) % 64 \in 0 .. 63 /\ (w \div 64) % 64 \in 0 .. 63 /\ w % 64 \in 0 .. 63
    <2>1. \A x \in Nat : x % 64 \in 0 .. 63
      OBVIOUS
    <2>2. w \div 4 \in Nat /\ w \div 16 \in Nat /\ w \div 64 \in Nat
      BY <1>1
    <2> QED BY <1>1, <2>1, <2>2
  <1>2. CASE b = -6
    <2>1. G(1) = <<Bits(w, 2, 64)>>
      <3>1. b + (8 - 6 * (1 - 1)) = 2
        BY <1>2
      <3>2. G(1) = <<Bits(u, b + (8 - 6 * (1 - 1)), 64)>>
        BY DEF G
      <3> QED BY <1>u, <3>1, <3>2, Zenon
    <2>2. EncodeByte(st, c) = E(1)
      <3>1. (b + 8) \div 6 + 1 = 1
        BY <1>2
      <3> QED BY <1>a, <3>1, Zenon
    <2>3. Bits(w, 2, 64) = (w \div 4) % 64
      BY <1>b DEF Bits
    <2>4. o \o <<(w \div 4) % 64>> = Append(o, (w \div 4) % 64) /\ Append(o, (w \div 4) % 64) \in Seq(0 .. 63)
      BY <1>0, <1>c, AppendIsConcat, AppendProperties
    <2>5. EncodeByte(st, c) = [val |-> w, valb |-> -4, out |-> Append(o, (w \div 4) % 64)]
      <3>1. o \o G(1) = Append(o, (w \div 4) % 64)
        BY <2>1, <2>3, <2>4, Zenon
      <3>2. b + (8 - 6 * 1) = -4
        BY <1>2
      <3> QED BY <1>u, <2>2, <3>1, <3>2, Zenon DEF E
    <2> QED BY <1>1, <1>2, <2>4, <2>5 DEF EncoderStates, EncodesTo, b, o
  <1>3. CASE b = -4
    <2>1. G(1) = <<Bits(w, 4, 64)>>
      <3>1. b + (8 - 6 * (1 - 1)) = 4
        BY <1>3
      <3>2. G(1) = <<Bits(u, b + (8 - 6 * (1 - 1)), 64)>>
        BY DEF G
      <3> QED BY <1>u, <3>1, <3>2, Zenon
    <2>2. EncodeByte(st, c) = E(1)
      <3>1. (b + 8) \div 6 + 1 = 1
        BY <1>3
      <3> QED BY <1>a, <3>1, Zenon
    <2>3. Bits(w, 4, 64) = (w \div 16) % 64
      BY <1>b DEF Bits
    <2>4. o \o <<(w \div 16) % 64>> = Append(o, (w \div 16) % 64) /\ Append(o, (w \div 16) % 64) \in Seq(0 .. 63)
      BY <1>0, <1>c, AppendIsConcat, AppendProperties
    <2>5. EncodeByte(st, c) = [val |-> w, valb |-> -2, out |-> Append(o, (w \div 16) % 64)]
      <3>1. o \o G(1) = Append(o, (w \div 16) % 64)
        BY <2>1, <2>3, <2>4, Zenon
      <3>2. b + (8 - 6 * 1) = -2
        BY <1>3
      <3> QED BY <1>u, <2>2, <3>1, <3>2, Zenon DEF E
    <2> QED BY <1>1, <1>3, <2>4, <2>5 DEF EncoderStates, EncodesTo, b, o
  <1>4. CASE b = -2
    <2>1. G(2) = <<Bits(w, 6, 64), Bits(w, 0, 64)>>
      <3>1. b + (8 - 6 * (1 - 1)) = 6 /\ b + (8 - 6 * (2 - 1)) = 0
        BY <1>4
      <3>2. G(2) = <<Bits(u, b + (8 - 6 * (1 - 1)), 64), Bits(u, b + (8 - 6 * (2 - 1)), 64)>>
        BY DEF G
      <3> QED BY <1>u, <3>1, <3>2, Zenon
    <2>2. EncodeByte(st, c) = E(2)
      <3>1. (b + 8) \div 6 + 1 = 2
        BY <1>4
      <3> QED BY <1>a, <3>1, Zenon
    <2>3. Bits(w, 6, 64) = (w \div 64) % 64 /\ Bits(w, 0, 64) = w % 64
      <3>1. w \div 1 = w
        BY <1>1
      <3> QED BY <1>b, <3>1 DEF Bits
    <2>4. /\ o \o <<(w \div 64) % 64, w % 64>> = Append(Append(o, (w \div 64) % 64), w % 64)
          /\ Append(Append(o, (w \div 64) % 64), w % 64) \in Seq(0 .. 63)
      <3> DEFINE x == (w \div 64) % 64
                 y == w % 64
      <3>1. x \in 0 .. 63 /\ y \in 0 .. 63
        BY <1>c
      <3> HIDE DEF x, y
      <3>2. Append(o, x) \in Seq(0 .. 63) /\ Append(Append(o, x), y) \in Seq(0 .. 63)
        BY <1>0, <3>1, AppendProperties
      <3>3. o \o <<x, y>> = Append(Append(o, x), y)
        BY <1>0, <3>1
      <3> QED BY <3>2, <3>3 DEF x, y
    <2>5. EncodeByte(st, c) = [val |-> w, valb |-> -6, out |-> Append(Append(o, (w \div 64) % 64), w % 64)]
      <3>1. o \o G(2) = Append(Append(o, (w \div 64) % 64), w % 64)
        BY <2>1, <2>3, <2>4, ZenonT(60)
      <3>2. b + (8 - 6 * 2) = -6
        BY <1>4
      <3> QED BY <1>u, <2>2, <3>1, <3>2, Zenon DEF E
    <2> QED BY <1>1, <1>4, <2>4, <2>5 DEF EncoderStates, EncodesTo, b, o
  <1> QED BY <1>0, <1>2, <1>3, <1>4 DEF b

\* Encoding is a run of EncodeByte.
LEMMA EncodingRun ==
    ASSUME NEW t \in Seq(Byte)
    PROVE  /\ Encoding(t)[0] = [val |-> 0, valb |-> -6, out |-> <<>>]
           /\ \A n \in 1 .. Len(t) : Encoding(t)[n] = EncodeByte(Encoding(t)[n - 1], t[n])
           /\ \A n \in 0 .. Len(t) : Encoding(t)[n] \in EncoderStates
  <1> DEFINE N == Len(t)
             S == EncoderStates
             base == [val |-> 0, valb |-> -6, out |-> <<>>]
             Step(k, x) == EncodeByte(x, t[k])
             F == [k \in 1 .. N |-> [x \in S |-> Step(k, x)]]
             e == Encoding(t)
  <1>1. N \in Nat /\ base \in S
    BY DEF EncoderStates
  <1>2. \A k \in 1 .. N : \A x \in S : Step(k, x) \in S
    BY EncodeByteIs DEF EncodesTo
  <1>3. e = CHOOSE f : f = [k \in 0 .. N |-> IF k = 0 THEN base ELSE Step(k, f[k - 1])]
    BY DEF Encoding
  <1> HIDE DEF N, S, base, Step, e
  <1>4. F \in Loop(N, S)
    BY <1>2 DEF Loop
  <1>5. \E f : IsRun(f, N, S, base, F)
    <2> HIDE DEF F
    <2> QED BY <1>1, <1>4, LoopExists
  <1>f. PICK f \in [0 .. N -> S] : f[0] = base /\ \A k \in 1 .. N : f[k] = F[k][f[k - 1]]
    <2> HIDE DEF F
    <2> QED BY <1>5 DEF IsRun
  <1>6. f = [k \in 0 .. N |-> IF k = 0 THEN base ELSE Step(k, f[k - 1])]
    <2>1. ASSUME NEW k \in 0 .. N PROVE f[k] = IF k = 0 THEN base ELSE Step(k, f[k - 1])
      <3>1. CASE k = 0
        BY <1>f, <3>1
      <3>2. CASE k # 0
        <4>1. k \in 1 .. N /\ f[k - 1] \in S
          BY <1>1, <3>2
        <4>2. F[k][f[k - 1]] = Step(k, f[k - 1])
          BY <4>1
        <4> QED BY <1>f, <3>2, <4>1, <4>2
      <3> QED BY <3>1, <3>2
    <2> QED BY <2>1
  <1>7. e = [k \in 0 .. N |-> IF k = 0 THEN base ELSE Step(k, e[k - 1])]
    BY <1>3, <1>6
  <1>8. \A k \in 0 .. N : e[k] = IF k = 0 THEN base ELSE Step(k, e[k - 1])
    <2> DEFINE G(k) == IF k = 0 THEN base ELSE Step(k, e[k - 1])
    <2>1. e = [k \in 0 .. N |-> G(k)]
      BY <1>7
    <2> HIDE DEF G
    <2>2. \A k \in 0 .. N : e[k] = G(k)
      BY <2>1
    <2> QED BY <2>2 DEF G
  <1>9. e[0] = base /\ \A k \in 1 .. N : e[k] = Step(k, e[k - 1])
    BY <1>1, <1>8
  <1>10. \A k \in 0 .. N : e[k] \in S
    BY <1>1, <1>2, <1>9, LoopKeeps
  <1> QED BY <1>9, <1>10 DEF N, S, base, Step, e

\* The first m values of F as a sequence.
Upto(F, m) == [j \in 1 .. m |-> F[j]]

\* One more byte of a text.
LEMMA UptoGrows ==
    ASSUME NEW F, NEW m \in Nat, NEW k, k = m + 1, NEW x, x = F[k]
    PROVE  Append(Upto(F, m), x) = Upto(F, k)
  <1>1. Len(Upto(F, m)) = m
    BY DEF Upto
  <1>2. Append(Upto(F, m), x) = [j \in 1 .. m + 1 |-> IF j = m + 1 THEN x ELSE Upto(F, m)[j]]
    BY <1>1
  <1>3. ASSUME NEW j \in 1 .. m + 1 PROVE (IF j = m + 1 THEN x ELSE Upto(F, m)[j]) = F[j]
    BY DEF Upto
  <1>4. [j \in 1 .. m + 1 |-> IF j = m + 1 THEN x ELSE Upto(F, m)[j]] = [j \in 1 .. m + 1 |-> F[j]]
    BY <1>3
  <1> QED BY <1>2, <1>4 DEF Upto

\* All groups of six bits, those behind the end of the text too.
AllSextets(t) == [j \in Nat |-> Sextet(t, j)]

\* The same, with the bytes of the text.
LEMMA GroupOfBytes ==
    ASSUME NEW t \in Seq(Byte), NEW g \in Nat
    PROVE  Group(t, g, ByteAt(t, 3 * g + 1), ByteAt(t, 3 * g + 2), ByteAt(t, 3 * g + 3))
  BY SextetsOfBytes, Zenon

\* A byte of the text is the one at its place.
LEMMA ByteInText ==
    ASSUME NEW t \in Seq(Byte), NEW n \in 1 .. Len(t)
    PROVE  t[n] \in Byte /\ ByteAt(t, n) = t[n]
  BY DEF ByteAt

\* What the encoder has after n bytes: valb tells how many of the groups'
\* bits are missing, the lowest byte of val is the last byte read.
Encoded(t, n, st) ==
    /\ st \in EncoderStates
    /\ st.valb = -6 + 2 * (n % 3)
    /\ st.val % 256 = IF n = 0 THEN 0 ELSE t[n]
    /\ st.out = Upto(AllSextets(t), (4 * n) \div 3)

\* One byte more is encoded.
LEMMA EncodeStep ==
    ASSUME NEW t \in Seq(Byte), NEW n \in 1 .. Len(t), NEW st, Encoded(t, n - 1, st)
    PROVE  Encoded(t, n, EncodeByte(st, t[n]))
  <1> DEFINE c == t[n]
             a == IF n - 1 = 0 THEN 0 ELSE t[n - 1]
             v == st.val
             w == AsInt(st.val * 256 + c)
             g == (n - 1) \div 3
             D == AllSextets(t)
             F == EncodeByte(st, t[n])
  <1>1. c \in Byte /\ ByteAt(t, n) = c /\ n \in Nat /\ n - 1 \in Nat /\ st \in EncoderStates
    BY ByteInText DEF Encoded
  <1>2. a \in Byte /\ v \in Nat /\ v % 256 = a /\ st.out = Upto(D, (4 * (n - 1)) \div 3)
    <2>1. v \in Nat /\ v % 256 = a /\ st.out = Upto(D, (4 * (n - 1)) \div 3)
      BY DEF Encoded, EncoderStates
    <2>2. a \in Byte
      <3>1. CASE n - 1 = 0
        BY <3>1 DEF Byte
      <3>2. CASE n - 1 # 0
        <4>1. n - 1 \in 1 .. Len(t)
          BY <3>2
        <4> QED BY <3>2, <4>1, ByteInText
      <3> QED BY <3>1, <3>2
    <2> QED BY <2>1, <2>2
  <1>3. a # 0 \/ n - 1 # 0 \/ n = 1
    OBVIOUS
  <1>4. n - 1 # 0 => ByteAt(t, n - 1) = a
    <2>1. n - 1 # 0 => n - 1 \in 1 .. Len(t)
      OBVIOUS
    <2> QED BY <2>1, ByteInText
  <1>5. /\ w \in Nat /\ w % 256 = c
        /\ (w \div 4) % 64 = c \div 4
        /\ (w \div 16) % 64 = (a % 4) * 16 + c \div 16
        /\ (w \div 64) % 64 = (a % 16) * 4 + c \div 64
        /\ w % 64 = c % 64
    <2>1. w = AsInt(v * 256 + c)
      OBVIOUS
    <2> HIDE DEF v, w, a, c
    <2>2. EncodedBits(w, a, c)
      BY <1>1, <1>2, <2>1, EncoderBits
    <2> QED BY <2>2 DEF EncodedBits
  <1>6. /\ st.valb = -6 => F = [val |-> w, valb |-> -4, out |-> Append(st.out, (w \div 4) % 64)]
        /\ st.valb = -4 => F = [val |-> w, valb |-> -2, out |-> Append(st.out, (w \div 16) % 64)]
        /\ st.valb = -2 => F = [val |-> w, valb |-> -6,
                                out |-> Append(Append(st.out, (w \div 64) % 64), w % 64)]
        /\ F \in EncoderStates
    <2>1. EncodesTo(st, w, F)
      <3> HIDE DEF F
      <3>1. F = EncodeByte(st, c)
        BY DEF F
      <3> QED BY <1>1, <3>1, EncodeByteIs
    <2> HIDE DEF F, w
    <2> QED BY <2>1 DEF EncodesTo
  <1>7. g \in Nat /\ Group(t, g, ByteAt(t, 3 * g + 1), ByteAt(t, 3 * g + 2), ByteAt(t, 3 * g + 3))
    <2>1. g \in Nat
      BY <1>1
    <2> QED BY <2>1, GroupOfBytes
  <1>8. (n - 1) % 3 \in 0 .. 2 /\ n - 1 = 3 * g + ((n - 1) % 3) /\ st.valb = -6 + 2 * ((n - 1) % 3)
    BY <1>1 DEF Encoded
  <1>9. \A j \in Nat : D[j] = Sextet(t, j)
    BY DEF AllSextets
  <1>10. F.val = w /\ F.valb = -6 + 2 * (n % 3) /\ F.out = Upto(D, (4 * n) \div 3) => Encoded(t, n, F)
    <2>1. n # 0
      OBVIOUS
    <2> HIDE DEF F, w, D
    <2> QED BY <1>5, <1>6, <2>1, Zenon DEF Encoded, D
  <1> HIDE DEF F, g, w, v, D
  <1>11. ASSUME (n - 1) % 3 = 0 PROVE Encoded(t, n, F)
    <2>1. n = 3 * g + 1 /\ n % 3 = 1 /\ (4 * (n - 1)) \div 3 = 4 * g /\ (4 * n) \div 3 = 4 * g + 1 /\ st.valb = -6
      BY <1>7, <1>8, <1>11
    <2>2. D[4 * g + 1] = c \div 4
      <3>1. Sextet(t, 4 * g + 1) = ByteAt(t, 3 * g + 1) \div 4
        BY <1>7 DEF Group
      <3> QED BY <1>1, <1>7, <1>9, <2>1, <3>1
    <2> DEFINE x == (w \div 4) % 64
    <2>3. x = D[4 * g + 1]
      BY <1>5, <2>2
    <2> HIDE DEF x
    <2>4. Append(Upto(D, 4 * g), x) = Upto(D, 4 * g + 1)
      BY <1>7, <2>3, UptoGrows
    <2>5. F = [val |-> w, valb |-> -4, out |-> Upto(D, 4 * g + 1)]
      BY <1>2, <1>6, <2>1, <2>4 DEF x
    <2> QED BY <1>10, <2>1, <2>5
  <1>12. ASSUME (n - 1) % 3 = 1 PROVE Encoded(t, n, F)
    <2>1. /\ n - 1 = 3 * g + 1 /\ n = 3 * g + 2 /\ n - 1 # 0 /\ n % 3 = 2 /\ st.valb = -4
          /\ (4 * (n - 1)) \div 3 = 4 * g + 1 /\ (4 * n) \div 3 = 4 * g + 2
      BY <1>7, <1>8, <1>12
    <2>2. D[4 * g + 2] = (a % 4) * 16 + c \div 16
      <3>1. Sextet(t, 4 * g + 2) = (ByteAt(t, 3 * g + 1) % 4) * 16 + ByteAt(t, 3 * g + 2) \div 16
        BY <1>7 DEF Group
      <3>2. ByteAt(t, 3 * g + 1) = a /\ ByteAt(t, 3 * g + 2) = c
        BY <1>1, <1>4, <2>1
      <3> QED BY <1>7, <1>9, <3>1, <3>2
    <2> DEFINE x == (w \div 16) % 64
    <2>3. x = D[4 * g + 2]
      BY <1>5, <2>2
    <2> HIDE DEF x
    <2>4. Append(Upto(D, 4 * g + 1), x) = Upto(D, 4 * g + 2)
      <3>1. 4 * g + 1 \in Nat /\ 4 * g + 2 = (4 * g + 1) + 1
        BY <1>7
      <3> QED BY <3>1, <2>3, UptoGrows
    <2>5. F = [val |-> w, valb |-> -2, out |-> Upto(D, 4 * g + 2)]
      BY <1>2, <1>6, <2>1, <2>4 DEF x
    <2> QED BY <1>10, <2>1, <2>5
  <1>13. ASSUME (n - 1) % 3 = 2 PROVE Encoded(t, n, F)
    <2>1. /\ n - 1 = 3 * g + 2 /\ n = 3 * g + 3 /\ n - 1 # 0 /\ n % 3 = 0 /\ st.valb = -2
          /\ (4 * (n - 1)) \div 3 = 4 * g + 2 /\ (4 * n) \div 3 = 4 * g + 4
      BY <1>7, <1>8, <1>13
    <2>2. D[4 * g + 3] = (a % 16) * 4 + c \div 64 /\ D[4 * g + 4] = c % 64
      <3>1. /\ Sextet(t, 4 * g + 3) = (ByteAt(t, 3 * g + 2) % 16) * 4 + ByteAt(t, 3 * g + 3) \div 64
            /\ Sextet(t, 4 * g + 4) = ByteAt(t, 3 * g + 3) % 64
        BY <1>7 DEF Group
      <3>2. ByteAt(t, 3 * g + 2) = a /\ ByteAt(t, 3 * g + 3) = c
        BY <1>1, <1>4, <2>1
      <3> QED BY <1>7, <1>9, <3>1, <3>2
    <2> DEFINE x == (w \div 64) % 64
               y == w % 64
    <2>3. x = D[4 * g + 3] /\ y = D[4 * g + 4]
      BY <1>5, <2>2
    <2> HIDE DEF x, y
    <2>4. Append(Append(Upto(D, 4 * g + 2), x), y) = Upto(D, 4 * g + 4)
      <3>1. 4 * g + 2 \in Nat /\ 4 * g + 3 \in Nat /\ 4 * g + 3 = (4 * g + 2) + 1 /\ 4 * g + 4 = (4 * g + 3) + 1
        BY <1>7
      <3>2. Append(Upto(D, 4 * g + 2), x) = Upto(D, 4 * g + 3)
        BY <3>1, <2>3, UptoGrows
      <3>3. Append(Upto(D, 4 * g + 3), y) = Upto(D, 4 * g + 4)
        BY <3>1, <2>3, UptoGrows
      <3> QED BY <3>2, <3>3
    <2>5. F = [val |-> w, valb |-> -6, out |-> Upto(D, 4 * g + 4)]
      BY <1>2, <1>6, <2>1, <2>4 DEF x, y
    <2> QED BY <1>10, <2>1, <2>5
  <1>14. Encoded(t, n, F)
    BY <1>8, <1>11, <1>12, <1>13
  <1> QED BY <1>14 DEF F

\* The encoder has put out the sextets of what it has read.
LEMMA EncodedThroughout ==
    ASSUME NEW t \in Seq(Byte)
    PROVE  \A n \in 0 .. Len(t) : Encoded(t, n, Encoding(t)[n])
  <1> DEFINE T == {n \in 0 .. Len(t) : Encoded(t, n, Encoding(t)[n])}
  <1>1. 0 \in T
    <2> DEFINE st == Encoding(t)[0]
    <2>1. st = [val |-> 0, valb |-> -6, out |-> <<>>] /\ st \in EncoderStates
      BY EncodingRun
    <2>2. Upto(AllSextets(t), (4 * 0) \div 3) = <<>>
      BY DEF Upto
    <2>3. Encoded(t, 0, st)
      <3> HIDE DEF st
      <3> QED BY <2>1, <2>2 DEF Encoded
    <2> QED BY <2>3
  <1>2. ASSUME NEW n \in 1 .. Len(t), n - 1 \in T PROVE n \in T
    <2>1. Encoding(t)[n] = EncodeByte(Encoding(t)[n - 1], t[n])
      BY EncodingRun
    <2>2. Encoded(t, n - 1, Encoding(t)[n - 1])
      BY <1>2
    <2>3. Encoded(t, n, Encoding(t)[n])
      BY <2>1, <2>2, EncodeStep
    <2> QED BY <2>3
  <1>3. \A n \in 0 .. Len(t) : n \in T
    <2>1. Len(t) \in Nat
      OBVIOUS
    <2> HIDE DEF T
    <2> QED BY <2>1, <1>1, <1>2, BoundedInduction
  <1> QED BY <1>3

\* Base64UrlEncode writes the text's bits in groups of six, the last one
\* filled up with zeros.
LEMMA EncodesSextets ==
    ASSUME NEW t \in Seq(Byte)
    PROVE  Base64UrlEncode(t) = Sextets(t)
  <1> DEFINE n == Len(t)
             D == AllSextets(t)
             st == Encoding(t)[n]
             g == n \div 3
             m == (8 * Len(t) + 5) \div 6
  <1>1. n \in Nat /\ Encoded(t, n, st)
    BY EncodedThroughout
  <1>2. Sextets(t) = Upto(D, m)
    <2>1. m \in Nat
      OBVIOUS
    <2>2. \A j \in 1 .. m : D[j] = Sextet(t, j)
      BY <2>1 DEF AllSextets
    <2> HIDE DEF D
    <2>3. Upto(D, m) = [j \in 1 .. m |-> Sextet(t, j)]
      BY <2>2 DEF Upto
    <2> QED BY <2>3 DEF Sextets
  <1>3. Base64UrlEncode(t) = IF st.valb > -6 THEN Append(st.out, Bits(AsInt(st.val * 256), st.valb + 8, 64)) ELSE st.out
    BY DEF Base64UrlEncode
  <1>4. \A j \in Nat : D[j] = Sextet(t, j)
    BY DEF AllSextets
  <1>5. g \in Nat /\ Group(t, g, ByteAt(t, 3 * g + 1), ByteAt(t, 3 * g + 2), ByteAt(t, 3 * g + 3))
    <2>1. g \in Nat
      BY <1>1
    <2> QED BY <2>1, GroupOfBytes
  <1>6. /\ n % 3 \in 0 .. 2 /\ n = 3 * g + (n % 3) /\ st.valb = -6 + 2 * (n % 3)
        /\ st.out = Upto(D, (4 * n) \div 3) /\ st.val \in Nat /\ st.val % 256 = IF n = 0 THEN 0 ELSE t[n]
    BY <1>1 DEF Encoded, EncoderStates
  <1>7. m = (8 * n + 5) \div 6
    OBVIOUS
  <1>8. \A k \in Nat : k > n => ByteAt(t, k) = 0
    BY <1>1 DEF ByteAt
  <1>9. n # 0 => ByteAt(t, n) = t[n] /\ t[n] \in Byte
    BY <1>1, ByteInText
  <1>10. 0 \in Byte
    BY DEF Byte
  <1> HIDE DEF n, D, st, g, m
  <1> DEFINE v == st.val
             w == AsInt(v * 256)
             a == t[n]
  <1>11. v \in Nat /\ w = AsInt(v * 256 + 0)
    BY <1>6
  <1>12. n # 0 => EncodedBits(w, a, 0)
    <2>1. n # 0 => v % 256 = a /\ a \in Byte
      BY <1>6, <1>9
    <2> HIDE DEF v, w, a
    <2> QED BY <1>10, <1>11, <2>1, EncoderBits
  <1>13. 0 \div 16 = 0 /\ 0 \div 64 = 0 /\ 2^4 = 16 /\ 2^6 = 64
    OBVIOUS
  <1>14. CASE n % 3 = 0
    <2>1. st.valb = -6 /\ (4 * n) \div 3 = 4 * g /\ m = 4 * g
      BY <1>1, <1>5, <1>6, <1>7, <1>14
    <2>2. ~(st.valb > -6)
      BY <2>1
    <2> QED BY <1>2, <1>3, <1>6, <2>1, <2>2
  <1>15. CASE n % 3 = 1
    <2>1. /\ n = 3 * g + 1 /\ n # 0 /\ st.valb = -4 /\ st.valb > -6 /\ st.valb + 8 = 4
          /\ (4 * n) \div 3 = 4 * g + 1 /\ m = 4 * g + 2
      BY <1>1, <1>5, <1>6, <1>7, <1>15
    <2>2. D[4 * g + 2] = (a % 4) * 16 + 0 \div 16
      <3>1. Sextet(t, 4 * g + 2) = (ByteAt(t, 3 * g + 1) % 4) * 16 + ByteAt(t, 3 * g + 2) \div 16
        BY <1>5 DEF Group
      <3>2. ByteAt(t, 3 * g + 1) = a /\ ByteAt(t, 3 * g + 2) = 0
        <4>1. 3 * g + 2 \in Nat /\ 3 * g + 2 > n
          BY <1>5, <2>1
        <4> QED BY <1>8, <1>9, <2>1, <4>1
      <3> QED BY <1>4, <1>5, <3>1, <3>2
    <2> DEFINE x == Bits(w, 4, 64)
    <2>3. x = D[4 * g + 2]
      <3>1. (w \div 16) % 64 = (a % 4) * 16 + 0 \div 16
        BY <1>12, <2>1 DEF EncodedBits
      <3> QED BY <1>13, <2>2, <3>1 DEF Bits
    <2> HIDE DEF x
    <2>4. Append(Upto(D, 4 * g + 1), x) = Upto(D, 4 * g + 2)
      <3>1. 4 * g + 1 \in Nat /\ 4 * g + 2 = (4 * g + 1) + 1
        BY <1>5
      <3> QED BY <3>1, <2>3, UptoGrows
    <2> QED BY <1>2, <1>3, <1>6, <2>1, <2>4 DEF x
  <1>16. CASE n % 3 = 2
    <2>1. /\ n = 3 * g + 2 /\ n # 0 /\ st.valb = -2 /\ st.valb > -6 /\ st.valb + 8 = 6
          /\ (4 * n) \div 3 = 4 * g + 2 /\ m = 4 * g + 3
      BY <1>1, <1>5, <1>6, <1>7, <1>16
    <2>2. D[4 * g + 3] = (a % 16) * 4 + 0 \div 64
      <3>1. Sextet(t, 4 * g + 3) = (ByteAt(t, 3 * g + 2) % 16) * 4 + ByteAt(t, 3 * g + 3) \div 64
        BY <1>5 DEF Group
      <3>2. ByteAt(t, 3 * g + 2) = a /\ ByteAt(t, 3 * g + 3) = 0
        <4>1. 3 * g + 3 \in Nat /\ 3 * g + 3 > n
          BY <1>5, <2>1
        <4> QED BY <1>8, <1>9, <2>1, <4>1
      <3> QED BY <1>4, <1>5, <3>1, <3>2
    <2> DEFINE x == Bits(w, 6, 64)
    <2>3. x = D[4 * g + 3]
      <3>1. (w \div 64) % 64 = (a % 16) * 4 + 0 \div 64
        BY <1>12, <2>1 DEF EncodedBits
      <3> QED BY <1>13, <2>2, <3>1 DEF Bits
    <2> HIDE DEF x
    <2>4. Append(Upto(D, 4 * g + 2), x) = Upto(D, 4 * g + 3)
      <3>1. 4 * g + 2 \in Nat /\ 4 * g + 3 = (4 * g + 2) + 1
        BY <1>5
      <3> QED BY <3>1, <2>3, UptoGrows
    <2> QED BY <1>2, <1>3, <1>6, <2>1, <2>4 DEF x
  <1> QED BY <1>6, <1>14, <1>15, <1>16

\* A sextet is a number of six bits.
LEMMA SextetTyped ==
    ASSUME NEW t \in Seq(Byte), NEW j \in Nat \ {0}
    PROVE  Sextet(t, j) \in 0 .. 63
  <1> DEFINE g == (j - 1) \div 4
             a == ByteAt(t, 3 * g + 1)
             b == ByteAt(t, 3 * g + 2)
             c == ByteAt(t, 3 * g + 3)
  <1>1. g \in Nat /\ j \in {4 * g + 1, 4 * g + 2, 4 * g + 3, 4 * g + 4}
    OBVIOUS
  <1>2. Group(t, g, a, b, c)
    <2> HIDE DEF g
    <2> QED BY <1>1, GroupOfBytes
  <1> HIDE DEF a, b, c, g
  <1>3. /\ a \div 4 \in 0 .. 63 /\ (a % 4) * 16 + b \div 16 \in 0 .. 63
        /\ (b % 16) * 4 + c \div 64 \in 0 .. 63 /\ c % 64 \in 0 .. 63
    BY <1>2, SMTT(60) DEF Group, Byte
  <1> QED BY <1>1, <1>2, <1>3 DEF Group

\* The states of the decoder, and what it does to a digit.
DecoderStates == [val : Nat, valb : {-8, -6, -4, -2}, out : Seq(Byte)]

\* Nothing is put out after the first digit of four, a byte after the others.
DecodesTo(st, w, f) ==
    /\ st.valb = -8 => f = [val |-> w, valb |-> -2, out |-> st.out]
    /\ st.valb = -2 => f = [val |-> w, valb |-> -4, out |-> Append(st.out, (w \div 16) % 256)]
    /\ st.valb = -4 => f = [val |-> w, valb |-> -6, out |-> Append(st.out, (w \div 4) % 256)]
    /\ st.valb = -6 => f = [val |-> w, valb |-> -8, out |-> Append(st.out, w % 256)]
    /\ f \in DecoderStates

\* DecodeDigit at each of the four places where it can stand.
LEMMA DecodeDigitIs ==
    ASSUME NEW st \in DecoderStates, NEW c \in 0 .. 63, NEW w, w = AsInt(st.val * 64 + c)
    PROVE  DecodesTo(st, w, DecodeDigit(st, c))
  <1> DEFINE v == st.val
             b == st.valb
             o == st.out
             u == AsInt(st.val * 64 + c)
             f == DecodeDigit(st, c)
  <1>0. v \in Nat /\ b \in {-8, -6, -4, -2} /\ o \in Seq(Byte) /\ c \in Nat
    BY DEF DecoderStates
  <1>1. w \in Nat
    <2>1. v * 64 + c \in Nat
      BY <1>0
    <2> QED BY <2>1, LowBits
  <1>2. f = IF b + 6 >= 0 THEN [val |-> u, valb |-> b + 6 - 8, out |-> Append(o, Bits(u, b + 6, 256))]
                          ELSE [val |-> u, valb |-> b + 6, out |-> o]
    <2>1. st.valb + 6 - 8 = (st.valb + 6) - 8
      BY <1>0
    <2> QED BY <2>1, Zenon DEF DecodeDigit
  <1>3. w = u
    OBVIOUS
  <1> HIDE DEF v, b, o, u, f
  <1>4. (w \div 16) % 256 \in Byte /\ (w \div 4) % 256 \in Byte /\ w % 256 \in Byte
    <2>1. \A x \in Nat : x % 256 \in 0 .. 255
      OBVIOUS
    <2>2. w \div 4 \in Nat /\ w \div 16 \in Nat
      BY <1>1
    <2> QED BY <1>1, <2>1, <2>2 DEF Byte
  <1>5. 2^4 = 16 /\ 2^2 = 4 /\ 2^0 = 1 /\ w \div 1 = w
    BY <1>1
  <1>6. CASE b = -8
    <2>1. ~(b + 6 >= 0) /\ b + 6 = -2
      BY <1>6
    <2>2. f = [val |-> w, valb |-> -2, out |-> o]
      BY <1>2, <1>3, <2>1, Zenon
    <2>3. f \in DecoderStates
      BY <1>0, <1>1, <2>2 DEF DecoderStates
    <2> QED BY <1>6, <2>2, <2>3 DEF DecodesTo, b, o, f
  <1>7. CASE b = -2
    <2>1. b + 6 >= 0 /\ b + 6 = 4 /\ b + 6 - 8 = -4
      BY <1>7
    <2> DEFINE x == (w \div 16) % 256
    <2>2. Bits(w, 4, 256) = x
      BY <1>5 DEF Bits
    <2>3. x \in Byte
      BY <1>4
    <2> HIDE DEF x
    <2>4. f = [val |-> w, valb |-> -4, out |-> Append(o, x)]
      BY <1>2, <1>3, <2>1, <2>2, Zenon
    <2>5. f \in DecoderStates
      BY <1>0, <1>1, <2>3, <2>4, AppendProperties DEF DecoderStates
    <2> QED BY <1>7, <2>4, <2>5 DEF DecodesTo, b, o, f, x
  <1>8. CASE b = -4
    <2>1. b + 6 >= 0 /\ b + 6 = 2 /\ b + 6 - 8 = -6
      BY <1>8
    <2> DEFINE x == (w \div 4) % 256
    <2>2. Bits(w, 2, 256) = x
      BY <1>5 DEF Bits
    <2>3. x \in Byte
      BY <1>4
    <2> HIDE DEF x
    <2>4. f = [val |-> w, valb |-> -6, out |-> Append(o, x)]
      BY <1>2, <1>3, <2>1, <2>2, Zenon
    <2>5. f \in DecoderStates
      BY <1>0, <1>1, <2>3, <2>4, AppendProperties DEF DecoderStates
    <2> QED BY <1>8, <2>4, <2>5 DEF DecodesTo, b, o, f, x
  <1>9. CASE b = -6
    <2>1. b + 6 >= 0 /\ b + 6 = 0 /\ b + 6 - 8 = -8
      BY <1>9
    <2> DEFINE x == w % 256
    <2>2. Bits(w, 0, 256) = x
      BY <1>5 DEF Bits
    <2>3. x \in Byte
      BY <1>4
    <2> HIDE DEF x
    <2>4. f = [val |-> w, valb |-> -8, out |-> Append(o, x)]
      BY <1>2, <1>3, <2>1, <2>2, Zenon
    <2>5. f \in DecoderStates
      BY <1>0, <1>1, <2>3, <2>4, AppendProperties DEF DecoderStates
    <2> QED BY <1>9, <2>4, <2>5 DEF DecodesTo, b, o, f, x
  <1> QED BY <1>0, <1>6, <1>7, <1>8, <1>9

\* Decoding is a run of DecodeDigit.
LEMMA DecodingRun ==
    ASSUME NEW s \in Seq(0 .. 63)
    PROVE  /\ Decoding(s)[0] = [val |-> 0, valb |-> -8, out |-> <<>>]
           /\ \A n \in 1 .. Len(s) : Decoding(s)[n] = DecodeDigit(Decoding(s)[n - 1], s[n])
           /\ \A n \in 0 .. Len(s) : Decoding(s)[n] \in DecoderStates
  <1> DEFINE N == Len(s)
             S == DecoderStates
             base == [val |-> 0, valb |-> -8, out |-> <<>>]
             Step(k, x) == DecodeDigit(x, s[k])
             F == [k \in 1 .. N |-> [x \in S |-> Step(k, x)]]
             e == Decoding(s)
  <1>1. N \in Nat /\ base \in S
    BY DEF DecoderStates
  <1>2. \A k \in 1 .. N : \A x \in S : Step(k, x) \in S
    <2> SUFFICES ASSUME NEW k \in 1 .. N, NEW x \in S PROVE Step(k, x) \in S
      OBVIOUS
    <2>1. s[k] \in 0 .. 63
      BY ElementOfSeq, Zenon
    <2>2. DecodesTo(x, AsInt(x.val * 64 + s[k]), DecodeDigit(x, s[k]))
      BY <2>1, DecodeDigitIs, Zenon
    <2> QED BY <2>2, Zenon DEF DecodesTo
  <1>3. e = CHOOSE f : f = [k \in 0 .. N |-> IF k = 0 THEN base ELSE Step(k, f[k - 1])]
    BY DEF Decoding
  <1> HIDE DEF N, S, base, Step, e
  <1>4. F \in Loop(N, S)
    BY <1>2 DEF Loop
  <1>5. \E f : IsRun(f, N, S, base, F)
    <2> HIDE DEF F
    <2> QED BY <1>1, <1>4, LoopExists
  <1>f. PICK f \in [0 .. N -> S] : f[0] = base /\ \A k \in 1 .. N : f[k] = F[k][f[k - 1]]
    <2> HIDE DEF F
    <2> QED BY <1>5 DEF IsRun
  <1>6. f = [k \in 0 .. N |-> IF k = 0 THEN base ELSE Step(k, f[k - 1])]
    <2>1. ASSUME NEW k \in 0 .. N PROVE f[k] = IF k = 0 THEN base ELSE Step(k, f[k - 1])
      <3>1. CASE k = 0
        BY <1>f, <3>1
      <3>2. CASE k # 0
        <4>1. k \in 1 .. N /\ f[k - 1] \in S
          BY <1>1, <3>2
        <4>2. F[k][f[k - 1]] = Step(k, f[k - 1])
          BY <4>1
        <4> QED BY <1>f, <3>2, <4>1, <4>2
      <3> QED BY <3>1, <3>2
    <2> QED BY <2>1
  <1>7. e = [k \in 0 .. N |-> IF k = 0 THEN base ELSE Step(k, e[k - 1])]
    BY <1>3, <1>6
  <1>8. \A k \in 0 .. N : e[k] = IF k = 0 THEN base ELSE Step(k, e[k - 1])
    <2> DEFINE G(k) == IF k = 0 THEN base ELSE Step(k, e[k - 1])
    <2>1. e = [k \in 0 .. N |-> G(k)]
      BY <1>7
    <2> HIDE DEF G
    <2>2. \A k \in 0 .. N : e[k] = G(k)
      BY <2>1
    <2> QED BY <2>2 DEF G
  <1>9. e[0] = base /\ \A k \in 1 .. N : e[k] = Step(k, e[k - 1])
    BY <1>1, <1>8
  <1>10. \A k \in 0 .. N : e[k] \in S
    BY <1>1, <1>2, <1>9, LoopKeeps
  <1> QED BY <1>9, <1>10 DEF N, S, base, Step, e

\* What the decoder has after j digits: every byte whose eight bits it has
\* read; the lowest six bits of val are the last digit.
Missing(r) == IF r = 0 THEN -8 ELSE IF r = 1 THEN -2 ELSE IF r = 2 THEN -4 ELSE -6

Decoded(t, j, st) ==
    /\ st \in DecoderStates
    /\ st.valb = Missing(j % 4)
    /\ st.val % 64 = IF j = 0 THEN 0 ELSE Sextet(t, j)
    /\ st.out = Upto(t, (3 * j) \div 4)

\* Digits as they are cut out of three bytes give the bytes back.
LEMMA BytesOfDigits ==
    ASSUME NEW a \in Byte, NEW b \in Byte, NEW c \in Byte
    PROVE  /\ (a \div 4) * 4 + ((a % 4) * 16 + b \div 16) \div 16 = a
           /\ (((a % 4) * 16 + b \div 16) % 16) * 16 + ((b % 16) * 4 + c \div 64) \div 4 = b
           /\ (((b % 16) * 4 + c \div 64) % 4) * 64 + (c % 64) = c
  <1>1. (a \div 4) * 4 + ((a % 4) * 16 + b \div 16) \div 16 = a
    BY DEF Byte
  <1>2. (((a % 4) * 16 + b \div 16) % 16) * 16 + ((b % 16) * 4 + c \div 64) \div 4 = b
    BY DEF Byte
  <1>3. (((b % 16) * 4 + c \div 64) % 4) * 64 + (c % 64) = c
    BY DEF Byte
  <1> QED BY <1>1, <1>2, <1>3

\* One digit more is decoded.
LEMMA DecodeStep ==
    ASSUME NEW t \in Seq(Byte), NEW j \in 1 .. (8 * Len(t) + 5) \div 6, NEW st, Decoded(t, j - 1, st)
    PROVE  Decoded(t, j, DecodeDigit(st, Sextet(t, j)))
  <1> DEFINE d == Sextet(t, j)
             p == IF j - 1 = 0 THEN 0 ELSE Sextet(t, j - 1)
             v == st.val
             w == AsInt(st.val * 64 + d)
             g == (j - 1) \div 4
             n == Len(t)
             F == DecodeDigit(st, Sextet(t, j))
             A == ByteAt(t, 3 * g + 1)
             B == ByteAt(t, 3 * g + 2)
             C == ByteAt(t, 3 * g + 3)
  <1>1. d \in 0 .. 63 /\ p \in 0 .. 63 /\ j \in Nat /\ j - 1 \in Nat /\ j # 0 /\ st \in DecoderStates
    <2>1. j \in Nat \ {0} /\ (j - 1 # 0 => j - 1 \in Nat \ {0})
      OBVIOUS
    <2> QED BY <2>1, SextetTyped DEF Decoded
  <1>2. v \in Nat /\ v % 64 = p /\ st.out = Upto(t, (3 * (j - 1)) \div 4)
    BY DEF Decoded, DecoderStates
  <1>3. n \in Nat /\ 6 * j <= 8 * n + 5
    OBVIOUS
  <1>4. DecodedBits(w, p, d)
    <2>1. w = AsInt(v * 64 + d)
      OBVIOUS
    <2> HIDE DEF v, w, p, d
    <2> QED BY <1>1, <1>2, <2>1, DecoderBits
  <1>5. DecodesTo(st, w, F)
    <2>1. w = AsInt(st.val * 64 + d) /\ F = DecodeDigit(st, d)
      OBVIOUS
    <2> HIDE DEF F, w, d
    <2> QED BY <1>1, <2>1, DecodeDigitIs
  <1>6. g \in Nat /\ Group(t, g, A, B, C)
    <2>1. g \in Nat
      BY <1>1
    <2> QED BY <2>1, GroupOfBytes
  <1>7. /\ (j - 1) % 4 \in 0 .. 3 /\ j - 1 = 4 * g + ((j - 1) % 4)
        /\ st.valb = Missing((j - 1) % 4)
    BY <1>1 DEF Decoded
  <1>8. /\ F.val = w /\ F.out = Upto(t, (3 * j) \div 4)
        /\ F.valb = Missing(j % 4)
        => Decoded(t, j, F)
    <2>1. w % 64 = d
      BY <1>4 DEF DecodedBits
    <2>2. F \in DecoderStates
      BY <1>5 DEF DecodesTo
    <2> HIDE DEF F, w
    <2> QED BY <1>1, <2>1, <2>2, Zenon DEF Decoded
  <1>9. d = Sextet(t, j) /\ (j - 1 # 0 => p = Sextet(t, j - 1))
    OBVIOUS
  <1>10. \A k \in 1 .. n : ByteAt(t, k) = t[k]
    BY ByteInText
  <1>11. A \in Byte /\ B \in Byte /\ C \in Byte
    BY <1>6 DEF Group
  <1> HIDE DEF F, d, p, v, w, g, n, A, B, C
  <1>12. ASSUME (j - 1) % 4 = 0 PROVE Decoded(t, j, F)
    <2>1. j = 4 * g + 1 /\ j % 4 = 1 /\ st.valb = -8 /\ (3 * (j - 1)) \div 4 = 3 * g /\ (3 * j) \div 4 = 3 * g
      BY <1>6, <1>7, <1>12 DEF Missing
    <2>2. F = [val |-> w, valb |-> -2, out |-> Upto(t, 3 * g)]
      BY <1>2, <1>5, <2>1 DEF DecodesTo
    <2>3. -2 = Missing(j % 4)
      BY <2>1 DEF Missing
    <2>4. F.val = w /\ F.valb = -2 /\ F.out = Upto(t, (3 * j) \div 4)
      BY <2>1, <2>2
    <2> QED BY <1>8, <2>3, <2>4, Zenon
  <1>13. ASSUME (j - 1) % 4 = 1 PROVE Decoded(t, j, F)
    <2>1. /\ j - 1 = 4 * g + 1 /\ j = 4 * g + 2 /\ j - 1 # 0 /\ j % 4 = 2 /\ st.valb = -2
          /\ (3 * (j - 1)) \div 4 = 3 * g + 0 /\ (3 * j) \div 4 = 3 * g + 1
      BY <1>6, <1>7, <1>13 DEF Missing
    <2>2. 3 * g + 1 \in 1 .. n
      BY <1>3, <1>6, <2>1
    <2> DEFINE x == (w \div 16) % 256
    <2>3. x = A
      <3>1. p = Sextet(t, 4 * g + 1) /\ d = Sextet(t, 4 * g + 2)
        BY <1>9, <2>1
      <3> QED BY <1>4, <1>6, <1>11, <3>1, BytesOfDigits DEF DecodedBits, Group
    <2>4. x = t[3 * g + 1]
      BY <1>10, <2>2, <2>3 DEF A
    <2> HIDE DEF x
    <2>5. Append(Upto(t, 3 * g + 0), x) = Upto(t, 3 * g + 1)
      <3>1. 3 * g + 0 \in Nat /\ 3 * g + 1 = (3 * g + 0) + 1
        BY <1>6
      <3> QED BY <2>4, <3>1, UptoGrows
    <2>6. F = [val |-> w, valb |-> -4, out |-> Upto(t, 3 * g + 1)]
      BY <1>2, <1>5, <2>1, <2>5 DEF DecodesTo, x
    <2>7. -4 = Missing(j % 4)
      BY <2>1 DEF Missing
    <2>8. F.val = w /\ F.valb = -4 /\ F.out = Upto(t, (3 * j) \div 4)
      BY <2>1, <2>6
    <2> QED BY <1>8, <2>7, <2>8, Zenon
  <1>14. ASSUME (j - 1) % 4 = 2 PROVE Decoded(t, j, F)
    <2>1. /\ j - 1 = 4 * g + 2 /\ j = 4 * g + 3 /\ j - 1 # 0 /\ j % 4 = 3 /\ st.valb = -4
          /\ (3 * (j - 1)) \div 4 = 3 * g + 1 /\ (3 * j) \div 4 = 3 * g + 2
      BY <1>6, <1>7, <1>14 DEF Missing
    <2>2. 3 * g + 2 \in 1 .. n
      BY <1>3, <1>6, <2>1
    <2> DEFINE x == (w \div 4) % 256
    <2>3. x = B
      <3>1. p = Sextet(t, 4 * g + 2) /\ d = Sextet(t, 4 * g + 3)
        BY <1>9, <2>1
      <3> QED BY <1>4, <1>6, <1>11, <3>1, BytesOfDigits DEF DecodedBits, Group
    <2>4. x = t[3 * g + 2]
      BY <1>10, <2>2, <2>3 DEF B
    <2> HIDE DEF x
    <2>5. Append(Upto(t, 3 * g + 1), x) = Upto(t, 3 * g + 2)
      <3>1. 3 * g + 1 \in Nat /\ 3 * g + 2 = (3 * g + 1) + 1
        BY <1>6
      <3> QED BY <2>4, <3>1, UptoGrows
    <2>6. F = [val |-> w, valb |-> -6, out |-> Upto(t, 3 * g + 2)]
      BY <1>2, <1>5, <2>1, <2>5 DEF DecodesTo, x
    <2>7. -6 = Missing(j % 4)
      <3>1. j % 4 = 3
        BY <2>1
      <3>2. Missing(3) = -6
        BY DEF Missing
      <3> QED BY <3>1, <3>2, Zenon
    <2>8. F.val = w /\ F.valb = -6 /\ F.out = Upto(t, (3 * j) \div 4)
      BY <2>1, <2>6
    <2> QED BY <1>8, <2>7, <2>8, Zenon
  <1>15. ASSUME (j - 1) % 4 = 3 PROVE Decoded(t, j, F)
    <2>1. /\ j - 1 = 4 * g + 3 /\ j = 4 * g + 4 /\ j - 1 # 0 /\ j % 4 = 0 /\ st.valb = -6
          /\ (3 * (j - 1)) \div 4 = 3 * g + 2 /\ (3 * j) \div 4 = 3 * g + 3
      BY <1>6, <1>7, <1>15 DEF Missing
    <2>2. 3 * g + 3 \in 1 .. n
      BY <1>3, <1>6, <2>1
    <2> DEFINE x == w % 256
    <2>3. x = C
      <3>1. p = Sextet(t, 4 * g + 3) /\ d = Sextet(t, 4 * g + 4)
        BY <1>9, <2>1
      <3> QED BY <1>4, <1>6, <1>11, <3>1, BytesOfDigits DEF DecodedBits, Group
    <2>4. x = t[3 * g + 3]
      BY <1>10, <2>2, <2>3 DEF C
    <2> HIDE DEF x
    <2>5. Append(Upto(t, 3 * g + 2), x) = Upto(t, 3 * g + 3)
      <3>1. 3 * g + 2 \in Nat /\ 3 * g + 3 = (3 * g + 2) + 1
        BY <1>6
      <3> QED BY <2>4, <3>1, UptoGrows
    <2>6. F = [val |-> w, valb |-> -8, out |-> Upto(t, 3 * g + 3)]
      <3>1. F = [val |-> w, valb |-> -8, out |-> Append(st.out, x)]
        <4> HIDE DEF F, w
        <4> QED BY <1>5, <2>1 DEF DecodesTo, x
      <3>2. st.out = Upto(t, 3 * g + 2)
        BY <1>2, <2>1
      <3>3. Append(st.out, x) = Upto(t, 3 * g + 3)
        BY <2>5, <3>2
      <3> HIDE DEF F, w
      <3> QED BY <3>1, <3>3
    <2>7. -8 = Missing(j % 4)
      BY <2>1 DEF Missing
    <2>8. F.val = w /\ F.valb = -8 /\ F.out = Upto(t, (3 * j) \div 4)
      BY <2>1, <2>6
    <2> QED BY <1>8, <2>7, <2>8, Zenon
  <1>16. Decoded(t, j, F)
    BY <1>7, <1>12, <1>13, <1>14, <1>15
  <1> QED BY <1>16 DEF F

\* Base64UrlDecode gets every byte back, and nothing else.
LEMMA DecodesSextets ==
    ASSUME NEW t \in Seq(Byte)
    PROVE  Base64UrlDecode(Sextets(t)) = t
  <1> DEFINE s == Sextets(t)
             N == (8 * Len(t) + 5) \div 6
             T == {n \in 0 .. N : Decoded(t, n, Decoding(s)[n])}
  <1>1. N \in Nat /\ s \in Seq(0 .. 63) /\ Len(s) = N /\ \A j \in 1 .. N : s[j] = Sextet(t, j)
    <2>1. N \in Nat
      OBVIOUS
    <2>2. ASSUME NEW j \in 1 .. N PROVE Sextet(t, j) \in 0 .. 63
      <3>1. j \in Nat \ {0}
        BY <2>1
      <3> QED BY <3>1, SextetTyped
    <2>3. s = [j \in 1 .. N |-> Sextet(t, j)]
      BY DEF Sextets
    <2> HIDE DEF N, s
    <2>4. s \in [1 .. N -> 0 .. 63]
      BY <2>2, <2>3
    <2> QED BY <2>1, <2>3, <2>4
  <1>2. 0 \in T
    <2> DEFINE st == Decoding(s)[0]
    <2>1. st = [val |-> 0, valb |-> -8, out |-> <<>>] /\ st \in DecoderStates
      BY <1>1, DecodingRun
    <2>2. Upto(t, (3 * 0) \div 4) = <<>>
      BY DEF Upto
    <2>3. Decoded(t, 0, st)
      <3> HIDE DEF st
      <3> QED BY <2>1, <2>2 DEF Decoded, Missing
    <2> QED BY <1>1, <2>3
  <1>3. ASSUME NEW n \in 1 .. N, n - 1 \in T PROVE n \in T
    <2>1. Decoding(s)[n] = DecodeDigit(Decoding(s)[n - 1], Sextet(t, n))
      <3> HIDE DEF s, N
      <3> QED BY <1>1, DecodingRun
    <2>2. Decoded(t, n - 1, Decoding(s)[n - 1])
      BY <1>3
    <2>3. Decoded(t, n, Decoding(s)[n])
      <3> HIDE DEF s
      <3> QED BY <2>1, <2>2, DecodeStep
    <2> QED BY <2>3
  <1>4. \A n \in 0 .. N : n \in T
    <2> HIDE DEF T, N
    <2> QED BY <1>1, <1>2, <1>3, BoundedInduction
  <1>5. Decoded(t, N, Decoding(s)[N])
    BY <1>1, <1>4
  <1>6. (3 * N) \div 4 = Len(t)
    OBVIOUS
  <1>7. Upto(t, Len(t)) = t
    BY DEF Upto
  <1>8. Base64UrlDecode(s) = Decoding(s)[N].out
    <2> HIDE DEF s, N
    <2> QED BY <1>1 DEF Base64UrlDecode
  <1>9. Decoding(s)[N].out = Upto(t, (3 * N) \div 4)
    BY <1>5 DEF Decoded
  <1> QED BY <1>6, <1>7, <1>8, <1>9

-----------------------------------------------------------------------------
(* JwtCodec: the reader's automaton, step by step.                         *)

\* result[key] = value.
Put(r, k, v) == [x \in DOMAIN r \cup {k} |-> IF x = k THEN v ELSE r[x]]
Keep(r, k, v) == IF k = <<>> THEN r ELSE Put(r, k, v)

\* The cursor in mode m, with key k and value v so far and result r.
St(m, k, v, r) == [mode |-> m, key |-> k, value |-> v, result |-> r]

\* The fields of a state of the reader.
LEMMA StFields ==
    ASSUME NEW m, NEW k, NEW v, NEW r
    PROVE  /\ St(m, k, v, r).mode = m /\ St(m, k, v, r).key = k
           /\ St(m, k, v, r).value = v /\ St(m, k, v, r).result = r
  BY DEF St

\* Store, as it changes the fields.
LEMMA StoreIs ==
    ASSUME NEW m, NEW k, NEW v, NEW r, NEW n
    PROVE  Store(St(m, k, v, r), n) = St(n, <<>>, <<>>, Keep(r, k, v))
  <1> DEFINE st == St(m, k, v, r)
             e == <<>>
             q == Keep(r, k, v)
  <1>1. st.key = k /\ st.value = v /\ st.result = r
    BY DEF St
  <1>2. Store(st, n) = [st EXCEPT !.mode = n, !.key = e, !.value = e,
                                  !.result = IF st.key = <<>> THEN st.result
                                             ELSE [x \in DOMAIN st.result \cup {st.key} |->
                                                      IF x = st.key THEN st.value ELSE st.result[x]]]
    BY DEF Store
  <1> HIDE DEF st
  <1>3. (IF st.key = <<>> THEN st.result
         ELSE [x \in DOMAIN st.result \cup {st.key} |-> IF x = st.key THEN st.value ELSE st.result[x]]) = q
    BY <1>1 DEF Keep, Put
  <1> HIDE DEF q, e
  <1>4. Store(st, n) = [st EXCEPT !.mode = n, !.key = e, !.value = e, !.result = q]
    BY <1>2, <1>3, Zenon
  <1>5. [st EXCEPT !.mode = n, !.key = e, !.value = e, !.result = q]
            = [[[[st EXCEPT !.mode = n] EXCEPT !.key = e] EXCEPT !.value = e] EXCEPT !.result = q]
    OBVIOUS
  <1>6. [[[[st EXCEPT !.mode = n] EXCEPT !.key = e] EXCEPT !.value = e] EXCEPT !.result = q] = St(n, e, e, q)
    <2>1. [st EXCEPT !.mode = n] = St(n, k, v, r)
      BY DEF St, st
    <2>2. [St(n, k, v, r) EXCEPT !.key = e] = St(n, e, v, r)
      BY DEF St
    <2>3. [St(n, e, v, r) EXCEPT !.value = e] = St(n, e, e, r)
      BY DEF St
    <2>4. [St(n, e, e, r) EXCEPT !.result = q] = St(n, e, e, q)
      BY DEF St
    <2> QED BY <2>1, <2>2, <2>3, <2>4, Zenon
  <1> QED BY <1>4, <1>5, <1>6 DEF st, e, q

\* ValueStep, byte by byte.
LEMMA ValueStepIs ==
    ASSUME NEW m, NEW k, NEW v, NEW r, NEW c \in Byte
    PROVE  /\ IsSpace(c) => ValueStep(St(m, k, v, r), c) = St(m, k, v, r)
           /\ c = Quote => ValueStep(St(m, k, v, r), c) = St("string", k, v, r)
           /\ c = Comma => ValueStep(St(m, k, v, r), c) = St("item", <<>>, <<>>, Keep(r, k, v))
           /\ c = Close => ValueStep(St(m, k, v, r), c) = St("end", <<>>, <<>>, Keep(r, k, v))
           /\ c \notin {Quote, Comma, Close} /\ ~IsSpace(c) => ValueStep(St(m, k, v, r), c) = St("bare", k, <<c>>, r)
  <1> DEFINE st == St(m, k, v, r)
             V == ValueStep(St(m, k, v, r), c)
  <1>0. /\ (IsSpace(c) => c # Quote /\ c # Comma /\ c # Close)
        /\ Quote # Comma /\ Quote # Close /\ Comma # Close
    BY DEF IsSpace, Quote, Comma, Close
  <1>1. V = CASE IsSpace(c) -> st
              [] c = Quote  -> [st EXCEPT !.mode = "string"]
              [] c = Comma  -> Store(st, "item")
              [] c = Close  -> Store(st, "end")
              [] OTHER      -> [st EXCEPT !.mode = "bare", !.value = <<c>>]
    BY Zenon DEF ValueStep
  <1>2. [st EXCEPT !.mode = "string"] = St("string", k, v, r)
    BY DEF St
  <1>3. [st EXCEPT !.mode = "bare", !.value = <<c>>] = St("bare", k, <<c>>, r)
    <2> DEFINE x == <<c>>
    <2> HIDE DEF x
    <2>1. [st EXCEPT !.mode = "bare", !.value = x] = [[st EXCEPT !.mode = "bare"] EXCEPT !.value = x]
      OBVIOUS
    <2>2. [[st EXCEPT !.mode = "bare"] EXCEPT !.value = x] = St("bare", k, x, r)
      <3>1. [st EXCEPT !.mode = "bare"] = St("bare", k, v, r)
        BY DEF St
      <3>2. [St("bare", k, v, r) EXCEPT !.value = x] = St("bare", k, x, r)
        BY DEF St
      <3> QED BY <3>1, <3>2, Zenon
    <2> QED BY <2>1, <2>2 DEF x
  <1>4. Store(st, "item") = St("item", <<>>, <<>>, Keep(r, k, v)) /\ Store(st, "end") = St("end", <<>>, <<>>, Keep(r, k, v))
    BY StoreIs
  <1> HIDE DEF st, V
  <1>5. CASE IsSpace(c)
    BY <1>0, <1>1, <1>5 DEF V, st
  <1>6. CASE c = Quote
    BY <1>0, <1>1, <1>2, <1>6 DEF V
  <1>7. CASE c = Comma
    BY <1>0, <1>1, <1>4, <1>7 DEF V
  <1>8. CASE c = Close
    BY <1>0, <1>1, <1>4, <1>8 DEF V
  <1>9. CASE c \notin {Quote, Comma, Close} /\ ~IsSpace(c)
    BY <1>1, <1>3, <1>9 DEF V
  <1> QED BY <1>5, <1>6, <1>7, <1>8, <1>9

\* The bytes that the reader looks for are different ones.
LEMMA DistinctBytes ==
    /\ \A c : IsSpace(c) => c \notin {Quote, Comma, Close, Colon, Open, Backslash}
    /\ Quote # Comma /\ Quote # Close /\ Quote # Colon /\ Quote # Backslash
    /\ Comma # Close /\ Comma # Colon /\ Close # Colon /\ Open # Close /\ Open # Quote
  BY DEF IsSpace, Quote, Comma, Close, Colon, Open, Backslash

\* ParseStep in each mode.
LEMMA StepInBegin ==
    ASSUME NEW k, NEW v, NEW r, NEW c \in Byte
    PROVE  /\ IsSpace(c) => ParseStep(St("begin", k, v, r), c) = St("begin", k, v, r)
           /\ c = Open => ParseStep(St("begin", k, v, r), c) = St("item", k, v, r)
           /\ c # Open /\ ~IsSpace(c) => ParseStep(St("begin", k, v, r), c) = St("end", k, v, r)
  <1> DEFINE st == St("begin", k, v, r)
  <1>1. st.mode = "begin" /\ st.key = k /\ st.value = v
    BY DEF St
  <1>2. ParseStep(st, c) = IF IsSpace(c) THEN st
                             ELSE [st EXCEPT !.mode = IF c = Open THEN "item" ELSE "end"]
    <2> HIDE DEF st
    <2> QED BY <1>1 DEF ParseStep
  <1>3. CASE IsSpace(c)
    BY <1>2, <1>3, DistinctBytes
  <1>4. CASE c = Open
    <2>1. ParseStep(st, c) = [st EXCEPT !.mode = "item"]
      <3> HIDE DEF st
      <3> QED BY <1>2, <1>4, DistinctBytes
    <2>2. [st EXCEPT !.mode = "item"] = St("item", k, v, r)
      BY DEF St
    <2> QED BY <1>4, <2>1, <2>2, DistinctBytes
  <1>5. CASE c # Open /\ ~IsSpace(c)
    <2>1. ParseStep(st, c) = [st EXCEPT !.mode = "end"]
      <3> HIDE DEF st
      <3> QED BY <1>2, <1>5, DistinctBytes
    <2>2. [st EXCEPT !.mode = "end"] = St("end", k, v, r)
      BY DEF St
    <2> QED BY <1>5, <2>1, <2>2, DistinctBytes
  <1> QED BY <1>3, <1>4, <1>5, Zenon

LEMMA StepInItem ==
    ASSUME NEW k, NEW v, NEW r, NEW c \in Byte
    PROVE  /\ IsSpace(c) \/ c = Comma => ParseStep(St("item", k, v, r), c) = St("item", k, v, r)
           /\ c = Close => ParseStep(St("item", k, v, r), c) = St("end", k, v, r)
           /\ c = Quote => ParseStep(St("item", k, v, r), c) = St("key", k, v, r)
           /\ c = Colon => ParseStep(St("item", k, v, r), c) = St("value", k, v, r)
           /\ c \notin {Comma, Close, Quote, Colon} /\ ~IsSpace(c) => ParseStep(St("item", k, v, r), c) = St("bare", k, <<c>>, r)
  <1> DEFINE st == St("item", k, v, r)
  <1>1. st.mode = "item" /\ st.key = k /\ st.value = v
    BY DEF St
  <1>2. ParseStep(st, c) = CASE IsSpace(c) \/ c = Comma -> st
                             [] c = Close -> [st EXCEPT !.mode = "end"]
                             [] c = Quote -> [st EXCEPT !.mode = "key"]
                             [] c = Colon -> [st EXCEPT !.mode = "value"]
                             [] OTHER     -> ValueStep(st, c)
    <2> HIDE DEF st
    <2> QED BY <1>1 DEF ParseStep
  <1>3. CASE IsSpace(c) \/ c = Comma
    BY <1>2, <1>3, DistinctBytes
  <1>4. CASE c = Close
    <2>1. ParseStep(st, c) = [st EXCEPT !.mode = "end"]
      <3> HIDE DEF st
      <3> QED BY <1>2, <1>4, DistinctBytes
    <2>2. [st EXCEPT !.mode = "end"] = St("end", k, v, r)
      BY DEF St
    <2> QED BY <1>4, <2>1, <2>2, DistinctBytes
  <1>5. CASE c = Quote
    <2>1. ParseStep(st, c) = [st EXCEPT !.mode = "key"]
      <3> HIDE DEF st
      <3> QED BY <1>2, <1>5, DistinctBytes
    <2>2. [st EXCEPT !.mode = "key"] = St("key", k, v, r)
      BY DEF St
    <2> QED BY <1>5, <2>1, <2>2, DistinctBytes
  <1>6. CASE c = Colon
    <2>1. ParseStep(st, c) = [st EXCEPT !.mode = "value"]
      <3> HIDE DEF st
      <3> QED BY <1>2, <1>6, DistinctBytes
    <2>2. [st EXCEPT !.mode = "value"] = St("value", k, v, r)
      BY DEF St
    <2> QED BY <1>6, <2>1, <2>2, DistinctBytes
  <1>7. CASE c \notin {Comma, Close, Quote, Colon} /\ ~IsSpace(c)
    <2>1. ParseStep(st, c) = ValueStep(st, c)
      <3> HIDE DEF st
      <3> QED BY <1>2, <1>7
    <2>2. ValueStep(st, c) = St("bare", k, <<c>>, r)
      BY <1>7, ValueStepIs
    <2> QED BY <1>7, <2>1, <2>2
  <1> QED BY <1>3, <1>4, <1>5, <1>6, <1>7, Zenon

LEMMA StepInKey ==
    ASSUME NEW k, NEW v, NEW r, NEW c \in Byte
    PROVE  /\ c = Backslash => ParseStep(St("key", k, v, r), c) = St("keyEscape", k, v, r)
           /\ c = Quote => ParseStep(St("key", k, v, r), c) = St("colon", k, v, r)
           /\ c \notin {Backslash, Quote} => ParseStep(St("key", k, v, r), c) = St("key", Append(k, c), v, r)
  <1> DEFINE st == St("key", k, v, r)
             x == Append(k, c)
  <1>1. st.mode = "key" /\ st.key = k /\ st.value = v
    BY DEF St
  <1>2. ParseStep(st, c) = CASE c = Backslash -> [st EXCEPT !.mode = "keyEscape"]
                             [] c = Quote     -> [st EXCEPT !.mode = "colon"]
                             [] OTHER         -> [st EXCEPT !.key = Append(@, c)]
    <2> HIDE DEF st
    <2> QED BY <1>1 DEF ParseStep
  <1>3. CASE c = Backslash
    <2>1. ParseStep(st, c) = [st EXCEPT !.mode = "keyEscape"]
      <3> HIDE DEF st
      <3> QED BY <1>2, <1>3, DistinctBytes
    <2>2. [st EXCEPT !.mode = "keyEscape"] = St("keyEscape", k, v, r)
      BY DEF St
    <2> QED BY <1>3, <2>1, <2>2, DistinctBytes
  <1>4. CASE c = Quote
    <2>1. ParseStep(st, c) = [st EXCEPT !.mode = "colon"]
      <3> HIDE DEF st
      <3> QED BY <1>2, <1>4, DistinctBytes
    <2>2. [st EXCEPT !.mode = "colon"] = St("colon", k, v, r)
      BY DEF St
    <2> QED BY <1>4, <2>1, <2>2, DistinctBytes
  <1>5. CASE c \notin {Backslash, Quote}
    <2>1. ParseStep(st, c) = [st EXCEPT !.key = x]
      <3> HIDE DEF st
      <3> QED BY <1>1, <1>2, <1>5, DistinctBytes
    <2> HIDE DEF x
    <2>2. [st EXCEPT !.key = x] = St("key", x, v, r)
      BY DEF St
    <2> HIDE DEF st
    <2>3. ParseStep(st, c) = St("key", x, v, r)
      BY <2>1, <2>2, Zenon
    <2> QED BY <1>5, <2>3, DistinctBytes DEF st, x
  <1> QED BY <1>3, <1>4, <1>5, Zenon

LEMMA StepInKeyEscape ==
    ASSUME NEW k, NEW v, NEW r, NEW c \in Byte
    PROVE  ParseStep(St("keyEscape", k, v, r), c) = St("key", Append(k, Unescaped(c)), v, r)
  <1> DEFINE st == St("keyEscape", k, v, r)
  <1>1. st.mode = "keyEscape" /\ st.key = k /\ st.value = v
    BY DEF St
  <1>2. ParseStep(st, c) = [st EXCEPT !.mode = "key", !.key = Append(@, Unescaped(c))]
    <2> HIDE DEF st
    <2> QED BY <1>1 DEF ParseStep
  <1> DEFINE z == Append(k, Unescaped(c))
  <1>3. [st EXCEPT !.mode = "key", !.key = Append(@, Unescaped(c))] = [st EXCEPT !.mode = "key", !.key = z]
    <2> HIDE DEF st
    <2> QED BY <1>1
  <1> HIDE DEF z
  <1>4. [st EXCEPT !.mode = "key", !.key = z] = [[st EXCEPT !.mode = "key"] EXCEPT !.key = z]
    <2> HIDE DEF st
    <2> QED OBVIOUS
  <1>5. [st EXCEPT !.mode = "key"] = St("key", k, v, r)
    BY DEF St
  <1>6. [St("key", k, v, r) EXCEPT !.key = z] = St("key", z, v, r)
    BY DEF St
  <1> HIDE DEF st
  <1>7. ParseStep(st, c) = St("key", z, v, r)
    BY <1>2, <1>3, <1>4, <1>5, <1>6, Zenon
  <1> QED BY <1>7, Zenon DEF st, z

LEMMA StepInColon ==
    ASSUME NEW k, NEW v, NEW r, NEW c \in Byte
    PROVE  /\ c = Colon => ParseStep(St("colon", k, v, r), c) = St("value", k, v, r)
           /\ c # Colon => ParseStep(St("colon", k, v, r), c) = ValueStep(St("colon", k, v, r), c)
  <1> DEFINE st == St("colon", k, v, r)
  <1>1. st.mode = "colon" /\ st.key = k /\ st.value = v
    BY DEF St
  <1>2. ParseStep(st, c) = IF c = Colon THEN [st EXCEPT !.mode = "value"] ELSE ValueStep(st, c)
    <2> HIDE DEF st
    <2> QED BY <1>1 DEF ParseStep
  <1>3. CASE c = Colon
    <2>1. ParseStep(st, c) = [st EXCEPT !.mode = "value"]
      <3> HIDE DEF st
      <3> QED BY <1>2, <1>3, DistinctBytes
    <2>2. [st EXCEPT !.mode = "value"] = St("value", k, v, r)
      BY DEF St
    <2> QED BY <1>3, <2>1, <2>2, DistinctBytes
  <1>4. CASE c # Colon
    BY <1>2, <1>4
  <1> QED BY <1>3, <1>4, Zenon

LEMMA StepInValue ==
    ASSUME NEW k, NEW v, NEW r, NEW c \in Byte
    PROVE  ParseStep(St("value", k, v, r), c) = ValueStep(St("value", k, v, r), c)
  <1> DEFINE st == St("value", k, v, r)
  <1>1. st.mode = "value" /\ st.key = k /\ st.value = v
    BY DEF St
  <1>2. ParseStep(st, c) = ValueStep(st, c)
    <2> HIDE DEF st
    <2> QED BY <1>1 DEF ParseStep
  <1> QED BY <1>2

LEMMA StepInString ==
    ASSUME NEW k, NEW v, NEW r, NEW c \in Byte
    PROVE  /\ c = Backslash => ParseStep(St("string", k, v, r), c) = St("escape", k, v, r)
           /\ c = Quote => ParseStep(St("string", k, v, r), c) = St("item", <<>>, <<>>, Keep(r, k, v))
           /\ c \notin {Backslash, Quote} => ParseStep(St("string", k, v, r), c) = St("string", k, Append(v, c), r)
  <1> DEFINE st == St("string", k, v, r)
             y == Append(v, c)
  <1>1. st.mode = "string" /\ st.key = k /\ st.value = v
    BY DEF St
  <1>2. ParseStep(st, c) = CASE c = Backslash -> [st EXCEPT !.mode = "escape"]
                             [] c = Quote     -> Store(st, "item")
                             [] OTHER         -> [st EXCEPT !.value = Append(@, c)]
    <2> HIDE DEF st
    <2> QED BY <1>1 DEF ParseStep
  <1>3. CASE c = Backslash
    <2>1. ParseStep(st, c) = [st EXCEPT !.mode = "escape"]
      <3> HIDE DEF st
      <3> QED BY <1>2, <1>3, DistinctBytes
    <2>2. [st EXCEPT !.mode = "escape"] = St("escape", k, v, r)
      BY DEF St
    <2> QED BY <1>3, <2>1, <2>2, DistinctBytes
  <1>4. CASE c = Quote
    <2>1. ParseStep(st, c) = Store(st, "item")
      <3> HIDE DEF st
      <3> QED BY <1>2, <1>4, DistinctBytes
    <2> QED BY <1>4, <2>1, StoreIs, DistinctBytes
  <1>5. CASE c \notin {Backslash, Quote}
    <2>1. ParseStep(st, c) = [st EXCEPT !.value = y]
      <3> HIDE DEF st
      <3> QED BY <1>1, <1>2, <1>5, DistinctBytes
    <2> HIDE DEF y
    <2>2. [st EXCEPT !.value = y] = St("string", k, y, r)
      BY DEF St
    <2> HIDE DEF st
    <2>3. ParseStep(st, c) = St("string", k, y, r)
      BY <2>1, <2>2, Zenon
    <2> QED BY <1>5, <2>3, DistinctBytes DEF st, y
  <1> QED BY <1>3, <1>4, <1>5, Zenon

LEMMA StepInEscape ==
    ASSUME NEW k, NEW v, NEW r, NEW c \in Byte
    PROVE  ParseStep(St("escape", k, v, r), c) = St("string", k, Append(v, Unescaped(c)), r)
  <1> DEFINE st == St("escape", k, v, r)
  <1>1. st.mode = "escape" /\ st.key = k /\ st.value = v
    BY DEF St
  <1>2. ParseStep(st, c) = [st EXCEPT !.mode = "string", !.value = Append(@, Unescaped(c))]
    <2> HIDE DEF st
    <2> QED BY <1>1 DEF ParseStep
  <1> DEFINE z == Append(v, Unescaped(c))
  <1>3. [st EXCEPT !.mode = "string", !.value = Append(@, Unescaped(c))] = [st EXCEPT !.mode = "string", !.value = z]
    <2> HIDE DEF st
    <2> QED BY <1>1
  <1> HIDE DEF z
  <1>4. [st EXCEPT !.mode = "string", !.value = z] = [[st EXCEPT !.mode = "string"] EXCEPT !.value = z]
    <2> HIDE DEF st
    <2> QED OBVIOUS
  <1>5. [st EXCEPT !.mode = "string"] = St("string", k, v, r)
    BY DEF St
  <1>6. [St("string", k, v, r) EXCEPT !.value = z] = St("string", k, z, r)
    BY DEF St
  <1> HIDE DEF st
  <1>7. ParseStep(st, c) = St("string", k, z, r)
    BY <1>2, <1>3, <1>4, <1>5, <1>6, Zenon
  <1> QED BY <1>7, Zenon DEF st, z

LEMMA StepInBare ==
    ASSUME NEW k, NEW v, NEW r, NEW c \in Byte
    PROVE  /\ IsSpace(c) => ParseStep(St("bare", k, v, r), c) = St("bare", k, v, r)
           /\ c = Comma => ParseStep(St("bare", k, v, r), c) = St("item", <<>>, <<>>, Keep(r, k, v))
           /\ c = Close => ParseStep(St("bare", k, v, r), c) = St("end", <<>>, <<>>, Keep(r, k, v))
           /\ c \notin {Comma, Close} /\ ~IsSpace(c) => ParseStep(St("bare", k, v, r), c) = St("bare", k, Append(v, c), r)
  <1> DEFINE st == St("bare", k, v, r)
             y == Append(v, c)
  <1>1. st.mode = "bare" /\ st.key = k /\ st.value = v
    BY DEF St
  <1>2. ParseStep(st, c) = CASE IsSpace(c) -> st
                             [] c = Comma -> Store(st, "item")
                             [] c = Close -> Store(st, "end")
                             [] OTHER     -> [st EXCEPT !.value = Append(@, c)]
    <2> HIDE DEF st
    <2> QED BY <1>1 DEF ParseStep
  <1>3. CASE IsSpace(c)
    BY <1>2, <1>3, DistinctBytes
  <1>4. CASE c = Comma
    <2>1. ParseStep(st, c) = Store(st, "item")
      <3> HIDE DEF st
      <3> QED BY <1>2, <1>4, DistinctBytes
    <2> QED BY <1>4, <2>1, StoreIs, DistinctBytes
  <1>5. CASE c = Close
    <2>1. ParseStep(st, c) = Store(st, "end")
      <3> HIDE DEF st
      <3> QED BY <1>2, <1>5, DistinctBytes
    <2> QED BY <1>5, <2>1, StoreIs, DistinctBytes
  <1>6. CASE c \notin {Comma, Close} /\ ~IsSpace(c)
    <2>1. ParseStep(st, c) = [st EXCEPT !.value = y]
      <3> HIDE DEF st
      <3> QED BY <1>1, <1>2, <1>6, DistinctBytes
    <2> HIDE DEF y
    <2>2. [st EXCEPT !.value = y] = St("bare", k, y, r)
      BY DEF St
    <2> HIDE DEF st
    <2>3. ParseStep(st, c) = St("bare", k, y, r)
      BY <2>1, <2>2, Zenon
    <2> QED BY <1>6, <2>3, DistinctBytes DEF st, y
  <1> QED BY <1>3, <1>4, <1>5, <1>6, Zenon

LEMMA StepInEnd ==
    ASSUME NEW k, NEW v, NEW r, NEW c \in Byte
    PROVE  ParseStep(St("end", k, v, r), c) = St("end", k, v, r)
  <1> DEFINE st == St("end", k, v, r)
  <1>1. st.mode = "end" /\ st.key = k /\ st.value = v
    BY DEF St
  <1>2. ParseStep(st, c) = st
    <2> HIDE DEF st
    <2> QED BY <1>1 DEF ParseStep
  <1> QED BY <1>2

\* Types of the reader's fields.
Modes == {"begin", "item", "key", "keyEscape", "colon", "value", "string", "escape", "bare", "end"}
Texts == Seq(Byte)
Results == UNION {[D -> Texts] : D \in SUBSET Texts}
ParserStates == [mode : Modes, key : Texts, value : Texts, result : Results]

\* Types are kept by the helpers and by every step.
LEMMA UnescapedTyped == \A c \in Byte : Unescaped(c) \in Byte
  BY DEF Unescaped, Byte, Newline, Return, Tab

LEMMA PutTyped ==
    ASSUME NEW r \in Results, NEW k \in Texts, NEW v \in Texts
    PROVE  Put(r, k, v) \in Results /\ Keep(r, k, v) \in Results
  <1>1. PICK D \in SUBSET Texts : r \in [D -> Texts]
    BY Zenon DEF Results
  <1>2. Put(r, k, v) \in [D \cup {k} -> Texts]
    <2> HIDE DEF Texts
    <2> QED BY <1>1 DEF Put
  <1>3. D \cup {k} \in SUBSET Texts
    OBVIOUS
  <1>4. Put(r, k, v) \in Results
    BY <1>2, <1>3, Zenon DEF Results
  <1> QED BY <1>4, Zenon DEF Keep

LEMMA TextsGrow ==
    ASSUME NEW s \in Texts, NEW c \in Byte
    PROVE  Append(s, c) \in Texts /\ <<c>> \in Texts /\ <<>> \in Texts
  BY DEF Texts

LEMMA StTyped ==
    ASSUME NEW m \in Modes, NEW k \in Texts, NEW v \in Texts, NEW r \in Results
    PROVE  St(m, k, v, r) \in ParserStates
  BY DEF ParserStates, St

LEMMA StOfTyped ==
    ASSUME NEW st \in ParserStates
    PROVE  \E m \in Modes, k \in Texts, v \in Texts, r \in Results : st = St(m, k, v, r)
  <1>1. /\ st.mode \in Modes /\ st.key \in Texts /\ st.value \in Texts /\ st.result \in Results
        /\ st = [mode |-> st.mode, key |-> st.key, value |-> st.value, result |-> st.result]
    BY DEF ParserStates
  <1>2. st = St(st.mode, st.key, st.value, st.result)
    BY <1>1, Zenon DEF St
  <1> QED BY <1>1, <1>2, Zenon

LEMMA ParseStepTyped ==
    ASSUME NEW st \in ParserStates, NEW c \in Byte
    PROVE  ParseStep(st, c) \in ParserStates
  <1>1. PICK m \in Modes, k \in Texts, v \in Texts, r \in Results : st = St(m, k, v, r)
    BY StOfTyped, Zenon
  <1> DEFINE u == Unescaped(c)
  <1>2. /\ Append(k, c) \in Texts /\ Append(v, c) \in Texts /\ <<c>> \in Texts /\ <<>> \in Texts
        /\ u \in Byte /\ Append(k, u) \in Texts /\ Append(v, u) \in Texts /\ Keep(r, k, v) \in Results
    <2>1. u \in Byte
      BY UnescapedTyped
    <2> HIDE DEF u
    <2> QED BY <2>1, TextsGrow, PutTyped
  <1>3. "begin" \in Modes /\ "item" \in Modes /\ "key" \in Modes /\ "keyEscape" \in Modes /\ "colon" \in Modes
        /\ "value" \in Modes /\ "string" \in Modes /\ "escape" \in Modes /\ "bare" \in Modes /\ "end" \in Modes
    BY DEF Modes
  <1>4. ASSUME NEW n \in Modes PROVE ValueStep(St(n, k, v, r), c) \in ParserStates
    BY <1>2, <1>3, <1>4, ValueStepIs, StTyped
  <1>5. CASE m = "begin"
    BY <1>1, <1>2, <1>3, <1>4, <1>5, StepInBegin, StTyped DEF u
  <1>6. CASE m = "item"
    BY <1>1, <1>2, <1>3, <1>4, <1>6, StepInItem, StTyped DEF u
  <1>7. CASE m = "key"
    BY <1>1, <1>2, <1>3, <1>4, <1>7, StepInKey, StTyped DEF u
  <1>8. CASE m = "keyEscape"
    BY <1>1, <1>2, <1>3, <1>4, <1>8, StepInKeyEscape, StTyped DEF u
  <1>9. CASE m = "colon"
    BY <1>1, <1>2, <1>3, <1>4, <1>9, StepInColon, StTyped DEF u
  <1>10. CASE m = "value"
    BY <1>1, <1>2, <1>3, <1>4, <1>10, StepInValue, StTyped DEF u
  <1>11. CASE m = "string"
    BY <1>1, <1>2, <1>3, <1>4, <1>11, StepInString, StTyped DEF u
  <1>12. CASE m = "escape"
    BY <1>1, <1>2, <1>3, <1>4, <1>12, StepInEscape, StTyped DEF u
  <1>13. CASE m = "bare"
    BY <1>1, <1>2, <1>3, <1>4, <1>13, StepInBare, StTyped DEF u
  <1>14. CASE m = "end"
    BY <1>1, <1>2, <1>3, <1>4, <1>14, StepInEnd, StTyped DEF u
  <1>15. m \in {"begin", "item", "key", "keyEscape", "colon", "value", "string", "escape", "bare", "end"}
    BY DEF Modes
  <1> QED BY <1>5, <1>6, <1>7, <1>8, <1>9, <1>10, <1>11, <1>12, <1>13, <1>14, <1>15

\* Parsing is a run of ParseStep.
LEMMA ParsingRun ==
    ASSUME NEW t \in Seq(Byte)
    PROVE  /\ Parsing(t)[0] = St("begin", <<>>, <<>>, <<>>)
           /\ \A n \in 1 .. Len(t) : Parsing(t)[n] = ParseStep(Parsing(t)[n - 1], t[n])
           /\ \A n \in 0 .. Len(t) : Parsing(t)[n] \in ParserStates
  <1> DEFINE N == Len(t)
             S == ParserStates
             base == St("begin", <<>>, <<>>, <<>>)
             Step(k, x) == ParseStep(x, t[k])
             F == [k \in 1 .. N |-> [x \in S |-> Step(k, x)]]
             e == Parsing(t)
  <1>1. N \in Nat /\ base \in S
    <2>1. <<>> \in [{} -> Texts] /\ {} \in SUBSET Texts
      OBVIOUS
    <2>2. <<>> \in Results
      BY <2>1, Zenon DEF Results
    <2>3. <<>> \in Texts /\ "begin" \in Modes
      BY DEF Texts, Modes
    <2> QED BY <2>2, <2>3, StTyped
  <1>2. \A k \in 1 .. N : \A x \in S : Step(k, x) \in S
    BY ParseStepTyped
  <1>3. e = CHOOSE f : f = [k \in 0 .. N |-> IF k = 0 THEN base ELSE Step(k, f[k - 1])]
    BY DEF Parsing, St
  <1> HIDE DEF N, S, base, Step, e
  <1>4. F \in Loop(N, S)
    BY <1>2 DEF Loop
  <1>5. \E f : IsRun(f, N, S, base, F)
    <2> HIDE DEF F
    <2> QED BY <1>1, <1>4, LoopExists
  <1>f. PICK f \in [0 .. N -> S] : f[0] = base /\ \A k \in 1 .. N : f[k] = F[k][f[k - 1]]
    <2> HIDE DEF F
    <2> QED BY <1>5 DEF IsRun
  <1>6. f = [k \in 0 .. N |-> IF k = 0 THEN base ELSE Step(k, f[k - 1])]
    <2>1. ASSUME NEW k \in 0 .. N PROVE f[k] = IF k = 0 THEN base ELSE Step(k, f[k - 1])
      <3>1. CASE k = 0
        BY <1>f, <3>1
      <3>2. CASE k # 0
        <4>1. k \in 1 .. N /\ f[k - 1] \in S
          BY <1>1, <3>2
        <4>2. F[k][f[k - 1]] = Step(k, f[k - 1])
          BY <4>1
        <4> QED BY <1>f, <3>2, <4>1, <4>2
      <3> QED BY <3>1, <3>2
    <2> QED BY <2>1
  <1>7. e = [k \in 0 .. N |-> IF k = 0 THEN base ELSE Step(k, e[k - 1])]
    BY <1>3, <1>6
  <1>8. \A k \in 0 .. N : e[k] = IF k = 0 THEN base ELSE Step(k, e[k - 1])
    <2> DEFINE G(k) == IF k = 0 THEN base ELSE Step(k, e[k - 1])
    <2>1. e = [k \in 0 .. N |-> G(k)]
      BY <1>7
    <2> HIDE DEF G
    <2>2. \A k \in 0 .. N : e[k] = G(k)
      BY <2>1
    <2> QED BY <2>2 DEF G
  <1>9. e[0] = base /\ \A k \in 1 .. N : e[k] = Step(k, e[k - 1])
    BY <1>1, <1>8
  <1>10. \A k \in 0 .. N : e[k] \in S
    BY <1>1, <1>2, <1>9, LoopKeeps
  <1> QED BY <1>9, <1>10 DEF N, S, base, Step, e

\* Behind t, the cursor is in mode m, with k and v so far and r read.
Parsed(t) == Parsing(t)[Len(t)]
ParsesTo(t, m, k, v, r) == t \in Seq(Byte) /\ Parsed(t) = St(m, k, v, r)

\* One more byte takes one more step.
LEMMA ParseAppend ==
    ASSUME NEW t \in Seq(Byte), NEW c \in Byte
    PROVE  /\ Append(t, c) \in Seq(Byte) /\ Parsed(t) \in ParserStates
           /\ Parsed(Append(t, c)) = ParseStep(Parsed(t), c)
  <1> DEFINE u == Append(t, c)
             N == Len(t)
  <1>1. /\ u \in Seq(Byte) /\ N \in Nat /\ Len(u) = N + 1 /\ u[N + 1] = c
        /\ \A k \in 1 .. N : u[k] = t[k]
    OBVIOUS
  <1> HIDE DEF u, N
  <1> DEFINE a == Parsing(t)
             b == Parsing(u)
  <1>2. /\ a[0] = St("begin", <<>>, <<>>, <<>>) /\ \A n \in 1 .. N : a[n] = ParseStep(a[n - 1], t[n])
        /\ \A n \in 0 .. N : a[n] \in ParserStates
    BY ParsingRun DEF N
  <1>3. b[0] = St("begin", <<>>, <<>>, <<>>) /\ \A n \in 1 .. N + 1 : b[n] = ParseStep(b[n - 1], u[n])
    BY <1>1, ParsingRun
  <1> HIDE DEF a, b
  <1> DEFINE T == {n \in 0 .. N : a[n] = b[n]}
  <1>4. 0 \in T
    BY <1>1, <1>2, <1>3
  <1>5. \A k \in 1 .. N : k - 1 \in T => k \in T
    <2> SUFFICES ASSUME NEW k \in 1 .. N, a[k - 1] = b[k - 1] PROVE a[k] = b[k]
      OBVIOUS
    <2>1. k \in 1 .. N + 1 /\ u[k] = t[k]
      BY <1>1
    <2> QED BY <1>2, <1>3, <2>1
  <1>6. a[N] = b[N]
    <2>1. \A k \in 0 .. N : k \in T
      <3> HIDE DEF T
      <3> QED BY <1>1, <1>4, <1>5, BoundedInduction
    <2> QED BY <1>1, <2>1
  <1>7. b[N + 1] = ParseStep(b[N], c)
    <2>1. N + 1 \in 1 .. N + 1 /\ (N + 1) - 1 = N
      BY <1>1
    <2> QED BY <1>1, <1>3, <2>1
  <1>8. a[N] \in ParserStates
    BY <1>1, <1>2
  <1> QED BY <1>1, <1>6, <1>7, <1>8 DEF Parsed, a, b, u, N

-----------------------------------------------------------------------------
(* JwtCodec: what is written is read.                                      *)

\* A byte of a string as it comes back: two escapes are not undone.
Readback(c) == IF c = Backspace THEN 98 ELSE IF c = FormFeed THEN 102 ELSE c
Mangled(s) == [i \in 1 .. Len(s) |-> Readback(s[i])]

\* What EscapeChar writes for each kind of byte.
LEMMA EscapeCharCases ==
    ASSUME NEW c \in Byte
    PROVE  \/ EscapeChar(c) = <<c>> /\ c \notin {Quote, Backslash} /\ Readback(c) = c
           \/ \E d \in Byte \ {105} : EscapeChar(c) = <<Backslash, d>> /\ Unescaped(d) = Readback(c)
  <1> DEFINE S == {Quote, Backslash, Backspace, FormFeed, Newline, Return, Tab}
             M(d) == d \in Byte \ {105} /\ EscapeChar(c) = <<Backslash, d>> /\ Unescaped(d) = Readback(c)
  <1>1. DOMAIN EscapeOf = S
    BY DEF EscapeOf
  <1>2. CASE c \notin S
    BY <1>1, <1>2 DEF EscapeChar, Readback
  <1>3. c \in S => EscapeChar(c) = <<Backslash, EscapeOf[c]>>
    BY <1>1 DEF EscapeChar
  <1>4. c \in S => EscapeOf[c] = CASE c \in {Quote, Backslash} -> c
                                   [] c = Backspace -> 98 [] c = FormFeed -> 102
                                   [] c = Newline -> 110  [] c = Return -> 114   [] c = Tab -> 116
    BY DEF EscapeOf
  <1>5. CASE c \in {Quote, Backslash}
    <2>1. EscapeOf[c] = c
      BY <1>4, <1>5 DEF Quote, Backslash, Backspace, FormFeed, Newline, Return, Tab
    <2>2. M(c)
      BY <1>3, <1>5, <2>1 DEF Quote, Backslash, Backspace, FormFeed, Newline, Return, Tab, Unescaped, Readback
    <2> QED BY <2>2
  <1>6. CASE c = Backspace
    <2>1. EscapeOf[c] = 98
      BY <1>4, <1>6 DEF Quote, Backslash, Backspace, FormFeed, Newline, Return, Tab
    <2>2. M(98)
      BY <1>3, <1>6, <2>1 DEF Byte, Quote, Backslash, Backspace, FormFeed, Newline, Return, Tab, Unescaped, Readback
    <2> QED BY <2>2
  <1>7. CASE c = FormFeed
    <2>1. EscapeOf[c] = 102
      BY <1>4, <1>7 DEF Quote, Backslash, Backspace, FormFeed, Newline, Return, Tab
    <2>2. M(102)
      BY <1>3, <1>7, <2>1 DEF Byte, Quote, Backslash, Backspace, FormFeed, Newline, Return, Tab, Unescaped, Readback
    <2> QED BY <2>2
  <1>8. CASE c = Newline
    <2>1. EscapeOf[c] = 110
      BY <1>4, <1>8 DEF Quote, Backslash, Backspace, FormFeed, Newline, Return, Tab
    <2>2. M(110)
      BY <1>3, <1>8, <2>1 DEF Byte, Quote, Backslash, Backspace, FormFeed, Newline, Return, Tab, Unescaped, Readback
    <2> QED BY <2>2
  <1>9. CASE c = Return
    <2>1. EscapeOf[c] = 114
      BY <1>4, <1>9 DEF Quote, Backslash, Backspace, FormFeed, Newline, Return, Tab
    <2>2. M(114)
      BY <1>3, <1>9, <2>1 DEF Byte, Quote, Backslash, Backspace, FormFeed, Newline, Return, Tab, Unescaped, Readback
    <2> QED BY <2>2
  <1>10. CASE c = Tab
    <2>1. EscapeOf[c] = 116
      BY <1>4, <1>10 DEF Quote, Backslash, Backspace, FormFeed, Newline, Return, Tab
    <2>2. M(116)
      BY <1>3, <1>10, <2>1 DEF Byte, Quote, Backslash, Backspace, FormFeed, Newline, Return, Tab, Unescaped, Readback
    <2> QED BY <2>2
  <1> QED BY <1>2, <1>5, <1>6, <1>7, <1>8, <1>9, <1>10

\* Escaping adds no byte of the issuer's key.
LEMMA EscapeCharTyped ==
    ASSUME NEW B, B = Byte \/ B = Byte \ {105}, NEW c \in B
    PROVE  EscapeChar(c) \in Seq(B)
  <1>1. Backslash \in B /\ c \in Byte /\ \A d \in Byte \ {105} : d \in B
    BY DEF Backslash, Byte
  <1>2. CASE EscapeChar(c) = <<c>>
    BY <1>2
  <1>3. ASSUME NEW d \in Byte \ {105}, EscapeChar(c) = <<Backslash, d>> PROVE EscapeChar(c) \in Seq(B)
    <2>1. d \in B
      BY <1>1
    <2> QED BY <1>1, <1>3, <2>1
  <1> QED BY <1>1, <1>2, <1>3, EscapeCharCases

\* JsonEscaped is a run of EscapeChar; it writes no letter that it has not
\* read.
LEMMA JsonEscapedRun ==
    ASSUME NEW B, B = Byte \/ B = Byte \ {105}, NEW s \in Seq(B)
    PROVE  /\ JsonEscaped(s)[0] = <<>>
           /\ \A n \in 1 .. Len(s) : JsonEscaped(s)[n] = JsonEscaped(s)[n - 1] \o EscapeChar(s[n])
           /\ \A n \in 0 .. Len(s) : JsonEscaped(s)[n] \in Seq(B)
  <1> DEFINE N == Len(s)
             S == Seq(B)
             base == <<>>
             Step(k, x) == x \o EscapeChar(s[k])
             F == [k \in 1 .. N |-> [x \in S |-> Step(k, x)]]
             e == JsonEscaped(s)
  <1>1. N \in Nat /\ base \in S
    OBVIOUS
  <1>2. \A k \in 1 .. N : \A x \in S : Step(k, x) \in S
    <2> SUFFICES ASSUME NEW k \in 1 .. N, NEW x \in S PROVE Step(k, x) \in S
      OBVIOUS
    <2>1. s[k] \in B
      OBVIOUS
    <2>2. EscapeChar(s[k]) \in Seq(B)
      BY <2>1, EscapeCharTyped
    <2> QED BY <2>2, ConcatProperties
  <1>3. e = CHOOSE f : f = [k \in 0 .. N |-> IF k = 0 THEN base ELSE Step(k, f[k - 1])]
    BY DEF JsonEscaped
  <1> HIDE DEF N, S, base, Step, e
  <1>4. F \in Loop(N, S)
    BY <1>2 DEF Loop
  <1>5. \E f : IsRun(f, N, S, base, F)
    <2> HIDE DEF F
    <2> QED BY <1>1, <1>4, LoopExists
  <1>f. PICK f \in [0 .. N -> S] : f[0] = base /\ \A k \in 1 .. N : f[k] = F[k][f[k - 1]]
    <2> HIDE DEF F
    <2> QED BY <1>5 DEF IsRun
  <1>6. f = [k \in 0 .. N |-> IF k = 0 THEN base ELSE Step(k, f[k - 1])]
    <2>1. ASSUME NEW k \in 0 .. N PROVE f[k] = IF k = 0 THEN base ELSE Step(k, f[k - 1])
      <3>1. CASE k = 0
        BY <1>f, <3>1
      <3>2. CASE k # 0
        <4>1. k \in 1 .. N /\ f[k - 1] \in S
          BY <1>1, <3>2
        <4>2. F[k][f[k - 1]] = Step(k, f[k - 1])
          BY <4>1
        <4> QED BY <1>f, <3>2, <4>1, <4>2
      <3> QED BY <3>1, <3>2
    <2> QED BY <2>1
  <1>7. e = [k \in 0 .. N |-> IF k = 0 THEN base ELSE Step(k, e[k - 1])]
    BY <1>3, <1>6
  <1>8. \A k \in 0 .. N : e[k] = IF k = 0 THEN base ELSE Step(k, e[k - 1])
    <2> DEFINE G(k) == IF k = 0 THEN base ELSE Step(k, e[k - 1])
    <2>1. e = [k \in 0 .. N |-> G(k)]
      BY <1>7
    <2> HIDE DEF G
    <2>2. \A k \in 0 .. N : e[k] = G(k)
      BY <2>1
    <2> QED BY <2>2 DEF G
  <1>9. e[0] = base /\ \A k \in 1 .. N : e[k] = Step(k, e[k - 1])
    BY <1>1, <1>8
  <1>10. \A k \in 0 .. N : e[k] \in S
    <2>1. e[0] \in S /\ \A k \in 1 .. N : e[k - 1] \in S => e[k] \in S
      <3>1. e[0] \in S
        BY <1>1, <1>9
      <3>2. ASSUME NEW k \in 1 .. N, e[k - 1] \in S PROVE e[k] \in S
        <4>1. e[k] = Step(k, e[k - 1])
          BY <1>9
        <4>2. Step(k, e[k - 1]) \in S
          BY <1>2, <3>2
        <4> QED BY <4>1, <4>2
      <3> QED BY <3>1, <3>2
    <2> QED BY <1>1, <2>1, LoopKeeps, Zenon
  <1> QED BY <1>9, <1>10 DEF N, S, base, Step, e

\* Nor do the functions that use it.
LEMMA QuotedTyped ==
    ASSUME NEW B, B = Byte \/ B = Byte \ {105}, NEW s \in Seq(B)
    PROVE  EscapeJsonString(s) \in Seq(B) /\ Quoted(s) \in Seq(B) /\ JsonValue(s) \in Seq(B)
  <1>1. Len(s) \in 0 .. Len(s)
    OBVIOUS
  <1>2. EscapeJsonString(s) \in Seq(B)
    BY <1>1, JsonEscapedRun DEF EscapeJsonString
  <1>3. <<Quote>> \in Seq(B)
    BY DEF Quote, Byte
  <1>4. Quoted(s) \in Seq(B)
    BY <1>2, <1>3, ConcatProperties DEF Quoted
  <1> QED BY <1>2, <1>4 DEF JsonValue

\* Single cases of the steps.
LEMMA ItemAtQuote ==
    ASSUME NEW k, NEW v, NEW r
    PROVE  ParseStep(St("item", k, v, r), Quote) = St("key", k, v, r)
  <1>1. Quote \in Byte
    BY DEF Quote, Byte
  <1> QED BY <1>1, StepInItem

\* A byte of a key.
LEMMA KeyAtOther ==
    ASSUME NEW k, NEW v, NEW r, NEW c \in Byte, c \notin {Quote, Backslash}
    PROVE  ParseStep(St("key", k, v, r), c) = St("key", Append(k, c), v, r)
  BY StepInKey

\* A quote begins a string.
LEMMA ValueAtQuote ==
    ASSUME NEW m, NEW k, NEW v, NEW r
    PROVE  ValueStep(St(m, k, v, r), Quote) = St("string", k, v, r)
  <1> DEFINE st == St(m, k, v, r)
  <1>1. ~IsSpace(Quote) /\ Quote # Comma /\ Quote # Close
    BY DEF IsSpace, Quote, Comma, Close
  <1>2. ValueStep(st, Quote) = [st EXCEPT !.mode = "string"]
    <2> HIDE DEF st
    <2> QED BY <1>1 DEF ValueStep
  <1> QED BY <1>2 DEF St

\* Quotes around a text that is written behind another.
LEMMA Reassociated ==
    ASSUME NEW t \in Seq(Byte), NEW a \in Seq(Byte), NEW b \in Seq(Byte)
    PROVE  ((t \o a) \o b) \o a = t \o ((a \o b) \o a)
  <1> DEFINE y == a \o b
  <1>1. y \in Seq(Byte) /\ (t \o a) \o b = t \o y
    BY ConcatProperties, ConcatAssociative
  <1> HIDE DEF y
  <1>2. (t \o y) \o a = t \o (y \o a)
    BY <1>1, ConcatAssociative
  <1> QED BY <1>1, <1>2 DEF y

\* Adding bytes at the end, in the ways it is written.
LEMMA AppendOne ==
    ASSUME NEW B, NEW s \in Seq(B), NEW x \in B
    PROVE  s \o <<x>> = Append(s, x)
  OBVIOUS

\* Short texts.
LEMMA AppendTuples ==
    ASSUME NEW B, NEW x \in B, NEW y \in B, NEW z \in B
    PROVE  Append(<<x>>, y) = <<x, y>> /\ Append(<<x, y>>, z) = <<x, y, z>>
  <1>1. Append(<<x>>, y) = <<x, y>>
    <2> DEFINE a == Append(<<x>>, y)
               b == <<x, y>>
    <2>1. a \in Seq(B) /\ b \in Seq(B) /\ Len(a) = 2 /\ Len(b) = 2 /\ a[1] = b[1] /\ a[2] = b[2]
      OBVIOUS
    <2> HIDE DEF a, b
    <2>2. Len(a) = Len(b) /\ \A i \in 1 .. Len(a) : a[i] = b[i]
      BY <2>1
    <2>3. a = b
      BY <2>1, <2>2, SeqEqual, Zenon
    <2> QED BY <2>3 DEF a, b
  <1>2. Append(<<x, y>>, z) = <<x, y, z>>
    <2> DEFINE a == Append(<<x, y>>, z)
               b == <<x, y, z>>
    <2>1. a \in Seq(B) /\ b \in Seq(B) /\ Len(a) = 3 /\ Len(b) = 3 /\ a[1] = b[1] /\ a[2] = b[2] /\ a[3] = b[3]
      OBVIOUS
    <2> HIDE DEF a, b
    <2>2. Len(a) = Len(b) /\ \A i \in 1 .. Len(a) : a[i] = b[i]
      BY <2>1
    <2>3. a = b
      BY <2>1, <2>2, SeqEqual, Zenon
    <2> QED BY <2>3 DEF a, b
  <1> QED BY <1>1, <1>2

\* Two bytes at once.
LEMMA AppendPair ==
    ASSUME NEW B, NEW s \in Seq(B), NEW x \in B, NEW y \in B
    PROVE  s \o <<x, y>> = Append(Append(s, x), y)
  OBVIOUS

\* A text is written byte by byte.
LEMMA AppendUpto ==
    ASSUME NEW t \in Texts, NEW s \in Texts, NEW n \in 1 .. Len(s)
    PROVE  /\ Append(t \o Upto(s, n - 1), s[n]) = t \o Upto(s, n) /\ s[n] \in Byte
           /\ Upto(s, n) \in Texts /\ Upto(s, n - 1) \in Texts
  <1> DEFINE u == Upto(s, n - 1)
  <1>1. s[n] \in Byte /\ u \in Texts
    BY DEF Texts, Upto
  <1>2. Append(u, s[n]) = Upto(s, n)
    <2>1. n - 1 \in Nat /\ n = (n - 1) + 1
      OBVIOUS
    <2> HIDE DEF u
    <2> QED BY <2>1, UptoGrows DEF u
  <1> HIDE DEF u
  <1>3. Append(t \o u, s[n]) = t \o Append(u, s[n])
    BY <1>1, SMTT(60) DEF Texts
  <1>4. Append(u, s[n]) \in Texts
    BY <1>1, AppendProperties DEF Texts
  <1> QED BY <1>1, <1>2, <1>3, <1>4 DEF u

\* Nothing and all of a text.
LEMMA UptoEnds ==
    ASSUME NEW t \in Texts, NEW s \in Texts
    PROVE  t \o Upto(s, 0) = t /\ Upto(s, Len(s)) = s /\ Upto(s, 0) = <<>>
  <1>1. Upto(s, 0) = <<>>
    BY DEF Upto
  <1>2. Upto(s, Len(s)) = s
    BY DEF Upto, Texts
  <1>3. t \o <<>> = t
    BY DEF Texts
  <1> QED BY <1>1, <1>2, <1>3

\* One more byte.
LEMMA ParseByte ==
    ASSUME NEW t, NEW m, NEW k, NEW v, NEW r, ParsesTo(t, m, k, v, r), NEW c \in Byte,
           NEW n, NEW l, NEW w, NEW q, ParseStep(St(m, k, v, r), c) = St(n, l, w, q)
    PROVE  ParsesTo(Append(t, c), n, l, w, q) /\ t \in Texts /\ Append(t, c) \in Texts
  BY ParseAppend DEF ParsesTo, Texts

\* A byte of a string is read as it was written, but for the two escapes.
LEMMA EscapedRead ==
    ASSUME NEW t, NEW k, NEW v, NEW r, ParsesTo(t, "string", k, v, r), NEW c \in Byte
    PROVE  ParsesTo(t \o EscapeChar(c), "string", k, Append(v, Readback(c)), r)
  <1>0. t \in Seq(Byte) /\ Backslash \in Byte
    BY DEF ParsesTo, Backslash, Byte
  <1>1. CASE EscapeChar(c) = <<c>> /\ c \notin {Quote, Backslash} /\ Readback(c) = c
    <2>1. ParseStep(St("string", k, v, r), c) = St("string", k, Append(v, c), r)
      BY <1>1, StepInString
    <2>2. ParsesTo(Append(t, c), "string", k, Append(v, c), r)
      BY <2>1, ParseByte
    <2> QED BY <1>0, <1>1, <2>2, AppendOne
  <1>2. ASSUME NEW d \in Byte \ {105}, EscapeChar(c) = <<Backslash, d>>, Unescaped(d) = Readback(c)
        PROVE  ParsesTo(t \o EscapeChar(c), "string", k, Append(v, Readback(c)), r)
    <2>1. ParseStep(St("string", k, v, r), Backslash) = St("escape", k, v, r)
      BY <1>0, StepInString
    <2>2. ParsesTo(Append(t, Backslash), "escape", k, v, r)
      BY <1>0, <2>1, ParseByte
    <2>3. ParseStep(St("escape", k, v, r), d) = St("string", k, Append(v, Unescaped(d)), r)
      BY StepInEscape
    <2>4. ParsesTo(Append(Append(t, Backslash), d), "string", k, Append(v, Unescaped(d)), r)
      BY <2>2, <2>3, ParseByte
    <2>5. t \o EscapeChar(c) = Append(Append(t, Backslash), d)
      BY <1>0, <1>2, AppendPair
    <2> QED BY <1>2, <2>4, <2>5
  <1> QED BY <1>1, <1>2, EscapeCharCases

\* A string between its quotes.
LEMMA StringRead ==
    ASSUME NEW t, NEW k, NEW r, ParsesTo(t, "value", k, <<>>, r), k # <<>>, NEW s \in Seq(Byte)
    PROVE  ParsesTo(t \o Quoted(s), "item", <<>>, <<>>, Put(r, k, Mangled(s)))
  <1> DEFINE x == Append(t, Quote)
             e == JsonEscaped(s)
             N == Len(s)
             M == Mangled(s)
             Q(n) == ParsesTo(x \o e[n], "string", k, Upto(M, n), r)
             T == {n \in 0 .. N : Q(n)}
  <1>0. Quote \in Byte /\ N \in Nat /\ t \in Seq(Byte)
    BY DEF Quote, Byte, ParsesTo
  <1>1. /\ e[0] = <<>> /\ \A n \in 1 .. N : e[n] = e[n - 1] \o EscapeChar(s[n])
        /\ \A n \in 0 .. N : e[n] \in Seq(Byte)
    BY JsonEscapedRun
  <1>2. ParsesTo(x, "string", k, <<>>, r)
    <2>1. ParseStep(St("value", k, <<>>, r), Quote) = St("string", k, <<>>, r)
      <3> DEFINE o == <<>>
      <3> HIDE DEF o
      <3>1. ParseStep(St("value", k, o, r), Quote) = ValueStep(St("value", k, o, r), Quote)
        BY <1>0, StepInValue
      <3>2. ValueStep(St("value", k, o, r), Quote) = St("string", k, o, r)
        BY ValueAtQuote
      <3> QED BY <3>1, <3>2 DEF o
    <2> QED BY <1>0, <2>1, ParseByte
  <1>3. x \in Seq(Byte)
    BY <1>2 DEF ParsesTo
  <1>m. \A n \in 1 .. N : M[n] = Readback(s[n])
    BY DEF Mangled
  <1>n. Upto(M, 0) = <<>> /\ Upto(M, N) = M
    BY DEF Upto, Mangled
  <1> HIDE DEF x, e, M
  <1>4. Q(0)
    <2>1. x \o e[0] = x
      BY <1>1, <1>3
    <2> QED BY <1>2, <1>n, <2>1
  <1>5. ASSUME NEW n \in 1 .. N, Q(n - 1) PROVE Q(n)
    <2>1. s[n] \in Byte /\ e[n - 1] \in Seq(Byte) /\ EscapeChar(s[n]) \in Seq(Byte)
      BY <1>0, <1>1, EscapeCharTyped
    <2>2. (x \o e[n - 1]) \o EscapeChar(s[n]) = x \o e[n]
      <3> DEFINE b == e[n - 1]
                 c == EscapeChar(s[n])
      <3>1. b \in Seq(Byte) /\ c \in Seq(Byte) /\ e[n] = b \o c
        BY <1>1, <2>1
      <3> HIDE DEF b, c
      <3>2. (x \o b) \o c = x \o (b \o c)
        BY <1>3, <3>1, ConcatAssociative, SMTT(60)
      <3> QED BY <3>1, <3>2 DEF b, c
    <2>3. Append(Upto(M, n - 1), Readback(s[n])) = Upto(M, n)
      <3>1. n - 1 \in Nat /\ n = (n - 1) + 1
        BY <1>0
      <3> QED BY <1>m, <3>1, UptoGrows
    <2>4. ParsesTo((x \o e[n - 1]) \o EscapeChar(s[n]), "string", k, Append(Upto(M, n - 1), Readback(s[n])), r)
      BY <1>5, <2>1, EscapedRead
    <2> QED BY <2>2, <2>3, <2>4
  <1>6. ParsesTo(x \o e[N], "string", k, M, r)
    <2>1. 0 \in T /\ \A n \in 1 .. N : n - 1 \in T => n \in T
      <3> HIDE DEF Q
      <3> QED BY <1>0, <1>4, <1>5
    <2>2. N \in T
      <3> HIDE DEF T, N
      <3>1. \A n \in 0 .. N : n \in T
        BY <1>0, <2>1, BoundedInduction
      <3> QED BY <1>0, <3>1
    <2> QED BY <1>n, <2>2
  <1>7. ParsesTo(Append(x \o e[N], Quote), "item", <<>>, <<>>, Put(r, k, M))
    <2>1. Keep(r, k, M) = Put(r, k, M)
      BY Zenon DEF Keep
    <2>2. ParseStep(St("string", k, M, r), Quote) = St("item", <<>>, <<>>, Keep(r, k, M))
      BY <1>0, StepInString
    <2> QED BY <1>0, <1>6, <2>1, <2>2, ParseByte
  <1>8. Append(x \o e[N], Quote) = t \o Quoted(s)
    <2> DEFINE b == e[N]
               a == <<Quote>>
    <2>1. b \in Seq(Byte) /\ a \in Seq(Byte) /\ Quoted(s) = a \o b \o a
      BY <1>0, <1>1 DEF Quoted, EscapeJsonString, e
    <2>2. x = t \o a
      BY <1>0, AppendOne DEF x
    <2>3. Append(x \o b, Quote) = (x \o b) \o a
      BY <1>0, <1>3, <2>1, AppendOne, ConcatProperties
    <2> HIDE DEF a, b
    <2>4. ((t \o a) \o b) \o a = t \o ((a \o b) \o a)
      <3>1. t \in Seq(Byte) /\ a \in Seq(Byte) /\ b \in Seq(Byte)
        BY <1>0, <2>1
      <3> QED BY <3>1, Reassociated, ZenonT(60)
    <2> QED BY <2>1, <2>2, <2>3, <2>4 DEF b
  <1> QED BY <1>7, <1>8 DEF M

\* Nothing in the first n bytes ends a number.
Unbroken(v, n) == \A i \in 1 .. n : v[i] \notin {Comma, Close} /\ ~IsSpace(v[i])

\* The first byte of a number ends none.
LEMMA NumberBegins ==
    ASSUME NEW v \in Texts, IsNumber(v)
    PROVE  /\ 1 \in 1 .. Len(v) /\ v[1] \in Byte
           /\ v[1] \notin {Quote, Comma, Close} /\ ~IsSpace(v[1]) /\ Upto(v, 1) = <<v[1]>>
  <1>1. 1 \in 1 .. Len(v)
    BY DEF IsNumber, Texts
  <1>2. v[1] \in Byte /\ v[1] \notin {Quote, Comma, Close} /\ ~IsSpace(v[1])
    BY <1>1, SMTT(60) DEF IsNumber, IsDigit, IsSpace, Minus, Quote, Comma, Close, Texts
  <1>3. Upto(v, 1) = <<v[1]>>
    BY DEF Upto
  <1> QED BY <1>1, <1>2, <1>3

\* A number is read up to the byte that ends it.
LEMMA NumberRead ==
    ASSUME NEW t, NEW k, NEW r, ParsesTo(t, "value", k, <<>>, r), NEW v \in Texts, IsNumber(v),
           NEW m \in 1 .. Len(v), Unbroken(v, m)
    PROVE  ParsesTo(t \o Upto(v, m), "bare", k, Upto(v, m), r)
  <1> DEFINE Q(n) == n = 0 \/ ParsesTo(t \o Upto(v, n), "bare", k, Upto(v, n), r)
             T == {n \in 0 .. m : Q(n)}
  <1>0. t \in Texts /\ m \in Nat /\ Len(v) \in Nat
    BY DEF ParsesTo, Texts
  <1>1. ParsesTo(t \o Upto(v, 1), "bare", k, Upto(v, 1), r)
    <2> DEFINE o == <<>>
               c == v[1]
    <2>1. ParsesTo(t, "value", k, o, r) /\ c \in Byte /\ c \notin {Quote, Comma, Close} /\ ~IsSpace(c) /\ Upto(v, 1) = <<c>>
      BY NumberBegins
    <2> HIDE DEF o, c
    <2>2. ParseStep(St("value", k, o, r), c) = ValueStep(St("value", k, o, r), c)
      BY <2>1, StepInValue
    <2>3. ValueStep(St("value", k, o, r), c) = St("bare", k, <<c>>, r)
      BY <2>1, ValueStepIs
    <2>4. ParsesTo(Append(t, c), "bare", k, <<c>>, r)
      BY <2>1, <2>2, <2>3, ParseByte
    <2>5. Append(t, c) = t \o <<c>>
      BY <1>0, <2>1, AppendOne DEF Texts
    <2> QED BY <2>1, <2>4, <2>5
  <1>2. ASSUME NEW n \in 1 .. m, Q(n - 1) PROVE Q(n)
    <2>1. CASE n = 1
      BY <1>1, <2>1
    <2>2. CASE n # 1
      <3> DEFINE c == v[n]
                 u == Upto(v, n - 1)
      <3>0. n \in 1 .. Len(v) /\ n - 1 # 0
        BY <1>0, <2>2
      <3>1. c \in Byte /\ c \notin {Comma, Close} /\ ~IsSpace(c)
        <4>1. c \in Byte
          BY <3>0, AppendUpto
        <4> QED BY <4>1 DEF Unbroken
      <3>2. ParsesTo(t \o u, "bare", k, u, r)
        BY <1>2, <3>0
      <3>3. Append(t \o u, c) = t \o Upto(v, n)
        BY <1>0, <3>0, AppendUpto
      <3>4. Append(u, c) = Upto(v, n)
        <4>1. n - 1 \in Nat /\ n = (n - 1) + 1
          BY <3>0
        <4> QED BY <4>1, UptoGrows
      <3> HIDE DEF u, c
      <3>5. ParseStep(St("bare", k, u, r), c) = St("bare", k, Append(u, c), r)
        BY <3>1, StepInBare
      <3>6. ParsesTo(Append(t \o u, c), "bare", k, Append(u, c), r)
        BY <3>1, <3>2, <3>5, ParseByte
      <3> QED BY <3>3, <3>4, <3>6
    <2> QED BY <2>1, <2>2
  <1>3. 0 \in T /\ \A n \in 1 .. m : n - 1 \in T => n \in T
    BY <1>0, <1>2
  <1>4. \A n \in 0 .. m : n \in T
    <2> HIDE DEF T
    <2> QED BY <1>0, <1>3, BoundedInduction
  <1>5. Q(m) /\ m # 0
    BY <1>0, <1>4
  <1> QED BY <1>5

\* What comes back of a value.
Reads(v) == IF IsNumber(v) THEN v ELSE Mangled(v)

\* The byte behind a value stores it.
LEMMA StoredAt ==
    ASSUME NEW k, NEW v, NEW r, k # <<>>
    PROVE  /\ ParseStep(St("bare", k, v, r), Comma) = St("item", <<>>, <<>>, Put(r, k, v))
           /\ ParseStep(St("bare", k, v, r), Close) = St("end", <<>>, <<>>, Put(r, k, v))
           /\ ParseStep(St("item", k, v, r), Comma) = St("item", k, v, r)
           /\ ParseStep(St("item", k, v, r), Close) = St("end", k, v, r)
  <1>1. Comma \in Byte /\ Close \in Byte
    BY DEF Comma, Close, Byte
  <1>2. Keep(r, k, v) = Put(r, k, v)
    BY Zenon DEF Keep
  <1>3. ParseStep(St("bare", k, v, r), Comma) = St("item", <<>>, <<>>, Keep(r, k, v))
    BY <1>1, StepInBare
  <1>4. ParseStep(St("bare", k, v, r), Close) = St("end", <<>>, <<>>, Keep(r, k, v))
    BY <1>1, StepInBare
  <1>5. ParseStep(St("item", k, v, r), Comma) = St("item", k, v, r)
    BY <1>1, StepInItem, Zenon
  <1>6. ParseStep(St("item", k, v, r), Close) = St("end", k, v, r)
    BY <1>1, StepInItem, ZenonT(60)
  <1> QED BY <1>2, <1>3, <1>4, <1>5, <1>6

\* A value and the byte behind it.
LEMMA ValueRead ==
    ASSUME NEW t, NEW k, NEW r, ParsesTo(t, "value", k, <<>>, r), k # <<>>, NEW v \in Texts,
           IsNumber(v) => Unbroken(v, Len(v))
    PROVE  /\ ParsesTo((t \o JsonValue(v)) \o <<Comma>>, "item", <<>>, <<>>, Put(r, k, Reads(v)))
           /\ ParsesTo((t \o JsonValue(v)) \o <<Close>>, "end", <<>>, <<>>, Put(r, k, Reads(v)))
  <1>0. Comma \in Byte /\ Close \in Byte /\ t \in Texts
    BY DEF Comma, Close, Byte, ParsesTo, Texts
  <1>1. CASE IsNumber(v)
    <2>1. Len(v) \in 1 .. Len(v)
      BY <1>1, NumberBegins DEF Texts
    <2>2. Upto(v, Len(v)) = v
      BY <1>0, UptoEnds
    <2>3. ParsesTo(t \o v, "bare", k, v, r)
      BY <1>1, <2>1, <2>2, NumberRead
    <2>4. ParsesTo(Append(t \o v, Comma), "item", <<>>, <<>>, Put(r, k, v))
      BY <1>0, <2>3, StoredAt, ParseByte
    <2>5. ParsesTo(Append(t \o v, Close), "end", <<>>, <<>>, Put(r, k, v))
      BY <1>0, <2>3, StoredAt, ParseByte
    <2>6. Append(t \o v, Comma) = (t \o v) \o <<Comma>> /\ Append(t \o v, Close) = (t \o v) \o <<Close>>
      <3>1. t \o v \in Seq(Byte)
        BY <2>3 DEF ParsesTo
      <3> QED BY <1>0, <3>1, AppendOne
    <2>7. JsonValue(v) = v /\ Reads(v) = v
      BY <1>1 DEF JsonValue, Reads
    <2> QED BY <2>4, <2>5, <2>6, <2>7, Zenon
  <1>2. CASE ~IsNumber(v)
    <2> DEFINE q == Put(r, k, Mangled(v))
               x == t \o Quoted(v)
               o == <<>>
    <2>1. ParsesTo(x, "item", o, o, q)
      BY StringRead DEF Texts
    <2> HIDE DEF o, q, x
    <2>2. ParseStep(St("item", o, o, q), Comma) = St("item", o, o, q) /\ ParseStep(St("item", o, o, q), Close) = St("end", o, o, q)
      BY <1>0, StepInItem, ZenonT(60)
    <2>3. ParsesTo(Append(x, Comma), "item", o, o, q)
      BY <1>0, <2>1, <2>2, ParseByte
    <2>4. ParsesTo(Append(x, Close), "end", o, o, q)
      BY <1>0, <2>1, <2>2, ParseByte
    <2>5. Append(x, Comma) = x \o <<Comma>> /\ Append(x, Close) = x \o <<Close>>
      <3>1. x \in Seq(Byte)
        BY <2>1 DEF ParsesTo
      <3> QED BY <1>0, <3>1, AppendOne
    <2>6. JsonValue(v) = Quoted(v) /\ Reads(v) = Mangled(v)
      BY <1>2 DEF JsonValue, Reads
    <2> QED BY <2>3, <2>4, <2>5, <2>6, Zenon DEF o, q, x
  <1> QED BY <1>1, <1>2

\* The keys of the claims.
Letters == 97 .. 122

\* The four bytes of a key.
LEMMA KeyText ==
    ASSUME NEW c \in Letters
    PROVE  Quoted(<<c>>) = <<Quote, c, Quote>>
  <1>1. c \in Byte /\ c \notin {Quote, Backslash, Backspace, FormFeed, Newline, Return, Tab}
    BY DEF Letters, Byte, Quote, Backslash, Backspace, FormFeed, Newline, Return, Tab
  <1>2. EscapeChar(c) = <<c>>
    BY <1>1 DEF EscapeChar, EscapeOf
  <1> DEFINE s == <<c>>
  <1>3. s \in Seq(Byte) /\ Len(s) = 1 /\ s[1] = c
    BY <1>1
  <1> HIDE DEF s
  <1>4. JsonEscaped(s)[0] = <<>> /\ JsonEscaped(s)[1] = JsonEscaped(s)[0] \o EscapeChar(s[1])
    <2>1. \A n \in 1 .. Len(s) : JsonEscaped(s)[n] = JsonEscaped(s)[n - 1] \o EscapeChar(s[n])
      BY <1>3, JsonEscapedRun
    <2>2. JsonEscaped(s)[0] = <<>>
      BY <1>3, JsonEscapedRun
    <2>3. 1 \in 1 .. Len(s) /\ 1 - 1 = 0
      BY <1>3
    <2>4. JsonEscaped(s)[1] = JsonEscaped(s)[1 - 1] \o EscapeChar(s[1])
      BY <2>1, <2>3, Zenon
    <2> QED BY <2>2, <2>3, <2>4, Zenon
  <1>5. EscapeJsonString(s) = <<c>>
    BY <1>2, <1>3, <1>4 DEF EscapeJsonString
  <1>6. <<Quote>> \o <<c>> \o <<Quote>> = <<Quote, c, Quote>>
    <2>0. Quote \in Byte /\ <<Quote>> \in Seq(Byte) /\ <<Quote, c>> \in Seq(Byte)
      BY <1>1 DEF Quote, Byte
    <2>1. <<Quote>> \o <<c>> = Append(<<Quote>>, c) /\ <<Quote, c>> \o <<Quote>> = Append(<<Quote, c>>, Quote)
      BY <1>1, <2>0, AppendOne, Zenon
    <2>2. Append(<<Quote>>, c) = <<Quote, c>> /\ Append(<<Quote, c>>, Quote) = <<Quote, c, Quote>>
      BY <1>1, <2>0, AppendTuples, Zenon
    <2> QED BY <2>1, <2>2, Zenon
  <1> QED BY <1>5, <1>6, Zenon DEF Quoted, s

\* A key and the colon behind it.
LEMMA KeyRead ==
    ASSUME NEW t, NEW r, ParsesTo(t, "item", <<>>, <<>>, r), NEW c \in Letters
    PROVE  ParsesTo((t \o Quoted(<<c>>)) \o <<Colon>>, "value", <<c>>, <<>>, r)
  <1> DEFINE o == <<>>
             s == <<c>>
  <1>0. c \in Byte /\ c \notin {Quote, Backslash} /\ Quote \in Byte /\ Colon \in Byte /\ t \in Seq(Byte)
    BY DEF Letters, Byte, Quote, Backslash, Colon, ParsesTo
  <1>1. Append(o, c) = s /\ ParsesTo(t, "item", o, o, r)
    OBVIOUS
  <1>t. (t \o Quoted(<<c>>)) \o <<Colon>> = Append(Append(Append(Append(t, Quote), c), Quote), Colon)
    <2>1. t \o <<Quote, c, Quote>> = Append(Append(Append(t, Quote), c), Quote)
      BY <1>0
    <2> DEFINE x == Append(Append(Append(t, Quote), c), Quote)
    <2>2. x \in Seq(Byte)
      BY <1>0, AppendProperties
    <2> HIDE DEF x
    <2>3. x \o <<Colon>> = Append(x, Colon)
      BY <1>0, <2>2, AppendOne
    <2> QED BY <2>1, <2>3, KeyText DEF x
  <1> HIDE DEF o, s
  <1>2. ParseStep(St("item", o, o, r), Quote) = St("key", o, o, r)
    BY ItemAtQuote
  <1>3. ParsesTo(Append(t, Quote), "key", o, o, r)
    BY <1>0, <1>1, <1>2, ParseByte
  <1>4. ParseStep(St("key", o, o, r), c) = St("key", s, o, r)
    BY <1>0, <1>1, KeyAtOther, Zenon
  <1>5. ParsesTo(Append(Append(t, Quote), c), "key", s, o, r)
    BY <1>0, <1>3, <1>4, ParseByte
  <1>6. ParseStep(St("key", s, o, r), Quote) = St("colon", s, o, r)
    BY <1>0, StepInKey
  <1>7. ParsesTo(Append(Append(Append(t, Quote), c), Quote), "colon", s, o, r)
    BY <1>0, <1>5, <1>6, ParseByte
  <1>8. ParseStep(St("colon", s, o, r), Colon) = St("value", s, o, r)
    BY <1>0, StepInColon
  <1>9. ParsesTo(Append(Append(Append(Append(t, Quote), c), Quote), Colon), "value", s, o, r)
    BY <1>0, <1>7, <1>8, ParseByte
  <1> QED BY <1>t, <1>9 DEF o, s

-----------------------------------------------------------------------------
(* JwtCodec: the payload of a token.                                       *)

\* One more pair in the text.
WithPair(t, comma, c, v) == (((t \o comma) \o Quoted(<<c>>)) \o <<Colon>>) \o JsonValue(v)

\* It is a text again.
LEMMA WithPairTyped ==
    ASSUME NEW t \in Texts, NEW comma \in Texts, NEW c \in Byte, NEW v \in Texts
    PROVE  WithPair(t, comma, c, v) \in Texts
  <1> DEFINE a == Quoted(<<c>>)
             b == <<Colon>>
             d == JsonValue(v)
  <1>1. a \in Texts /\ b \in Texts /\ d \in Texts
    <2>1. <<c>> \in Seq(Byte) /\ <<Colon>> \in Seq(Byte)
      BY DEF Colon, Byte
    <2> QED BY <2>1, QuotedTyped DEF Texts
  <1> HIDE DEF a, b, d
  <1>2. (((t \o comma) \o a) \o b) \o d \in Texts
    BY <1>1, ConcatProperties DEF Texts
  <1> QED BY <1>2, Zenon DEF WithPair, a, b, d

\* What CreateJwt writes, pair by pair.
Written(iss, sub, uid) ==
    LET a == WithPair(<<Open>>, <<>>, 101, <<49, 55>>)
        b == WithPair(a, <<Comma>>, 105, iss)
        c == WithPair(b, <<Comma>>, 115, sub)
        d == WithPair(c, <<Comma>>, 117, uid) IN
    d \o <<Close>>

\* The loop of BuildJson over the pairs.
PairStep(p, n, x) ==
    x \o (IF n = 1 THEN <<>> ELSE <<Comma>>) \o Quoted(p[n].key) \o <<Colon>> \o JsonValue(p[n].value)

\* JsonPairs is a run of PairStep.
LEMMA JsonPairsRun ==
    ASSUME NEW p \in Seq([key : Texts, value : Texts])
    PROVE  /\ JsonPairs(p)[0] = <<Open>>
           /\ \A n \in 1 .. Len(p) : JsonPairs(p)[n] = PairStep(p, n, JsonPairs(p)[n - 1])
           /\ \A n \in 0 .. Len(p) : JsonPairs(p)[n] \in Texts
  <1> DEFINE N == Len(p)
             S == Texts
             base == <<Open>>
             Step(k, x) == PairStep(p, k, x)
             F == [k \in 1 .. N |-> [x \in S |-> Step(k, x)]]
             e == JsonPairs(p)
  <1>1. N \in Nat /\ base \in S
    BY DEF Texts, Open, Byte
  <1>2. \A k \in 1 .. N : \A x \in S : Step(k, x) \in S
    <2> SUFFICES ASSUME NEW k \in 1 .. N, NEW x \in S PROVE Step(k, x) \in S
      OBVIOUS
    <2> DEFINE a == IF k = 1 THEN <<>> ELSE <<Comma>>
               b == Quoted(p[k].key)
               c == <<Colon>>
               d == JsonValue(p[k].value)
    <2>1. p[k].key \in Seq(Byte) /\ p[k].value \in Seq(Byte)
      <3>1. p[k] \in [key : Texts, value : Texts]
        BY ElementOfSeq, Zenon
      <3> QED BY <3>1 DEF Texts
    <2>2. a \in Texts /\ b \in Texts /\ c \in Texts /\ d \in Texts
      <3>1. a \in Texts /\ c \in Texts
        <4>1. <<>> \in Seq(Byte) /\ <<Comma>> \in Seq(Byte) /\ <<Colon>> \in Seq(Byte)
          BY DEF Comma, Colon, Byte
        <4> QED BY <4>1, Zenon DEF Texts
      <3> QED BY <2>1, <3>1, QuotedTyped DEF Texts
    <2> HIDE DEF a, b, c, d
    <2>3. (((x \o a) \o b) \o c) \o d \in Texts
      BY <2>2, ConcatProperties DEF Texts
    <2> QED BY <2>3, Zenon DEF PairStep, a, b, c, d
  <1>3. e = CHOOSE f : f = [k \in 0 .. N |-> IF k = 0 THEN base ELSE Step(k, f[k - 1])]
    BY DEF JsonPairs, PairStep
  <1> HIDE DEF N, S, base, Step, e
  <1>4. F \in Loop(N, S)
    BY <1>2 DEF Loop
  <1>5. \E f : IsRun(f, N, S, base, F)
    <2> HIDE DEF F
    <2> QED BY <1>1, <1>4, LoopExists
  <1>f. PICK f \in [0 .. N -> S] : f[0] = base /\ \A k \in 1 .. N : f[k] = F[k][f[k - 1]]
    <2> HIDE DEF F
    <2> QED BY <1>5 DEF IsRun
  <1>6. f = [k \in 0 .. N |-> IF k = 0 THEN base ELSE Step(k, f[k - 1])]
    <2>1. ASSUME NEW k \in 0 .. N PROVE f[k] = IF k = 0 THEN base ELSE Step(k, f[k - 1])
      <3>1. CASE k = 0
        BY <1>f, <3>1
      <3>2. CASE k # 0
        <4>1. k \in 1 .. N /\ f[k - 1] \in S
          BY <1>1, <3>2
        <4>2. F[k][f[k - 1]] = Step(k, f[k - 1])
          BY <4>1
        <4> QED BY <1>f, <3>2, <4>1, <4>2
      <3> QED BY <3>1, <3>2
    <2> QED BY <2>1
  <1>7. e = [k \in 0 .. N |-> IF k = 0 THEN base ELSE Step(k, e[k - 1])]
    BY <1>3, <1>6
  <1>8. \A k \in 0 .. N : e[k] = IF k = 0 THEN base ELSE Step(k, e[k - 1])
    <2> DEFINE G(k) == IF k = 0 THEN base ELSE Step(k, e[k - 1])
    <2>1. e = [k \in 0 .. N |-> G(k)]
      BY <1>7
    <2> HIDE DEF G
    <2>2. \A k \in 0 .. N : e[k] = G(k)
      BY <2>1
    <2> QED BY <2>2 DEF G
  <1>9. e[0] = base /\ \A k \in 1 .. N : e[k] = Step(k, e[k - 1])
    BY <1>1, <1>8
  <1>10. \A k \in 0 .. N : e[k] \in S
    BY <1>1, <1>2, <1>9, LoopKeeps
  <1> QED BY <1>9, <1>10 DEF N, S, base, Step, e

\* BuildJson writes the four pairs.
LEMMA BuiltAsWritten ==
    ASSUME NEW iss \in Texts, NEW sub \in Texts, NEW uid \in Texts
    PROVE  BuildJson(Claims(iss, sub, uid)) = Written(iss, sub, uid)
  <1> DEFINE p == Claims(iss, sub, uid)
             j == JsonPairs(p)
  <1>1. /\ p \in Seq([key : Texts, value : Texts]) /\ Len(p) = 4
        /\ p[1].key = <<101>> /\ p[1].value = <<49, 55>> /\ p[2].key = <<105>> /\ p[2].value = iss
        /\ p[3].key = <<115>> /\ p[3].value = sub /\ p[4].key = <<117>> /\ p[4].value = uid
    <2>1. <<101>> \in Texts /\ <<105>> \in Texts /\ <<115>> \in Texts /\ <<117>> \in Texts /\ <<49, 55>> \in Texts
      BY DEF Texts, Byte
    <2> DEFINE P == [key : Texts, value : Texts]
               a == [key |-> <<101>>, value |-> <<49, 55>>]
               b == [key |-> <<105>>, value |-> iss]
               c == [key |-> <<115>>, value |-> sub]
               d == [key |-> <<117>>, value |-> uid]
    <2>2. a \in P /\ b \in P /\ c \in P /\ d \in P
      BY <2>1
    <2>3. p = <<a, b, c, d>>
      BY DEF Claims
    <2>4. p \in Seq(P) /\ Len(p) = 4 /\ p[1] = a /\ p[2] = b /\ p[3] = c /\ p[4] = d
      <3> HIDE DEF P, a, b, c, d, p
      <3> QED BY <2>2, <2>3
    <2> QED BY <2>4
  <1> HIDE DEF p
  <1> DEFINE W(n, x) == PairStep(p, n, x)
  <1>2. j[0] = <<Open>> /\ \A n \in 1 .. Len(p) : j[n] = W(n, j[n - 1])
    <2>1. p \in Seq([key : Texts, value : Texts])
      BY <1>1
    <2>2. /\ JsonPairs(p)[0] = <<Open>>
          /\ \A n \in 1 .. Len(p) : JsonPairs(p)[n] = PairStep(p, n, JsonPairs(p)[n - 1])
      BY <2>1, JsonPairsRun, Zenon
    <2> QED BY <2>2, Zenon
  <1> HIDE DEF j, W
  <1>3. j[1] = W(1, j[0]) /\ j[2] = W(2, j[1]) /\ j[3] = W(3, j[2]) /\ j[4] = W(4, j[3])
    <2>1. 1 \in 1 .. Len(p) /\ 2 \in 1 .. Len(p) /\ 3 \in 1 .. Len(p) /\ 4 \in 1 .. Len(p)
      BY <1>1
    <2>2. 1 - 1 = 0 /\ 2 - 1 = 1 /\ 3 - 1 = 2 /\ 4 - 1 = 3
      OBVIOUS
    <2> QED BY <1>2, <2>1, <2>2
  <1>4. \A x : W(1, x) = WithPair(x, <<>>, 101, <<49, 55>>)
    BY <1>1, Zenon DEF W, PairStep, WithPair
  <1>5. /\ \A x : W(2, x) = WithPair(x, <<Comma>>, 105, iss)
        /\ \A x : W(3, x) = WithPair(x, <<Comma>>, 115, sub)
        /\ \A x : W(4, x) = WithPair(x, <<Comma>>, 117, uid)
    <2>1. 2 # 1 /\ 3 # 1 /\ 4 # 1
      OBVIOUS
    <2> QED BY <1>1, <2>1, Zenon DEF W, PairStep, WithPair
  <1>6. BuildJson(p) = j[4] \o <<Close>>
    BY <1>1, Zenon DEF BuildJson, j
  <1>7. j[4] \o <<Close>> = Written(iss, sub, uid)
    <2>1. j[1] = WithPair(<<Open>>, <<>>, 101, <<49, 55>>)
      BY <1>2, <1>3, <1>4, Zenon
    <2>2. j[2] = WithPair(j[1], <<Comma>>, 105, iss)
      BY <1>3, <1>5, Zenon
    <2>3. j[3] = WithPair(j[2], <<Comma>>, 115, sub)
      BY <1>3, <1>5, Zenon
    <2>4. j[4] = WithPair(j[3], <<Comma>>, 117, uid)
      BY <1>3, <1>5, Zenon
    <2> QED BY <2>1, <2>2, <2>3, <2>4, Zenon DEF Written
  <1> QED BY <1>6, <1>7 DEF p

\* A pair is read with the byte behind it.
LEMMA PairRead ==
    ASSUME NEW t, NEW comma, NEW r, ParsesTo(t \o comma, "item", <<>>, <<>>, r),
           NEW c \in Letters, NEW v \in Texts, IsNumber(v) => Unbroken(v, Len(v))
    PROVE  /\ ParsesTo(WithPair(t, comma, c, v) \o <<Comma>>, "item", <<>>, <<>>, Put(r, <<c>>, Reads(v)))
           /\ ParsesTo(WithPair(t, comma, c, v) \o <<Close>>, "end", <<>>, <<>>, Put(r, <<c>>, Reads(v)))
  <1> DEFINE x == ((t \o comma) \o Quoted(<<c>>)) \o <<Colon>>
             k == <<c>>
  <1>1. ParsesTo(x, "value", k, <<>>, r)
    BY KeyRead
  <1>2. k # <<>>
    OBVIOUS
  <1>3. WithPair(t, comma, c, v) = x \o JsonValue(v)
    BY Zenon DEF WithPair
  <1> HIDE DEF x, k
  <1>4. /\ ParsesTo((x \o JsonValue(v)) \o <<Comma>>, "item", <<>>, <<>>, Put(r, k, Reads(v)))
        /\ ParsesTo((x \o JsonValue(v)) \o <<Close>>, "end", <<>>, <<>>, Put(r, k, Reads(v)))
    BY <1>1, <1>2, ValueRead
  <1> QED BY <1>3, <1>4, Zenon DEF k

\* The opening brace.
LEMMA OpenRead == ParsesTo(<<Open>>, "item", <<>>, <<>>, <<>>)
  <1> DEFINE o == <<>>
  <1>1. ParsesTo(o, "begin", o, o, o)
    <2>1. o \in Seq(Byte) /\ Len(o) = 0
      OBVIOUS
    <2>2. Parsing(o)[0] = St("begin", <<>>, <<>>, <<>>)
      BY <2>1, ParsingRun
    <2> QED BY <2>1, <2>2, Zenon DEF ParsesTo, Parsed
  <1>2. Open \in Byte /\ Append(o, Open) = <<Open>>
    BY DEF Open, Byte
  <1> HIDE DEF o
  <1>3. ParseStep(St("begin", o, o, o), Open) = St("item", o, o, o)
    BY <1>2, StepInBegin
  <1>4. ParsesTo(Append(o, Open), "item", o, o, o)
    BY <1>1, <1>2, <1>3, ParseByte
  <1> QED BY <1>2, <1>4 DEF o

\* At its end, the reader keeps what it has.
LEMMA EndRead ==
    ASSUME NEW t, NEW r, ParsesTo(t, "end", <<>>, <<>>, r)
    PROVE  ParseJson(t) = r
  <1> DEFINE o == <<>>
             st == St("end", o, o, r)
  <1>1. Parsing(t)[Len(t)] = st
    BY DEF ParsesTo, Parsed
  <1>2. st.mode = "end" /\ St("end", o, o, r).result = r
    BY StFields
  <1>3. Store(st, "end") = St("end", o, o, r)
    <2>1. Keep(r, <<>>, <<>>) = r
      BY DEF Keep
    <2>2. Store(St("end", <<>>, <<>>, r), "end") = St("end", <<>>, <<>>, Keep(r, <<>>, <<>>))
      BY StoreIs
    <2> QED BY <2>1, <2>2
  <1> HIDE DEF st
  <1>4. ParseJson(t) = Store(st, "end").result
    BY <1>1, <1>2 DEF ParseJson
  <1> QED BY <1>2, <1>3, <1>4

\* What is read of claims none of whose numbers is broken.
AllRead(iss, sub, uid) ==
    Put(Put(Put(Put(<<>>, <<101>>, <<49, 55>>), <<105>>, iss), <<115>>, sub), <<117>>, uid)

\* No byte of the value ends a number that it begins like.
Unbreakable(v) == IsNumber(v) => Unbroken(v, Len(v))

\* The first pair, exp, is always a number.
LEMMA ExpRead ==
    /\ ParsesTo(WithPair(<<Open>>, <<>>, 101, <<49, 55>>) \o <<Comma>>, "item", <<>>, <<>>,
                Put(<<>>, <<101>>, <<49, 55>>))
    /\ WithPair(<<Open>>, <<>>, 101, <<49, 55>>) \in Texts
  <1> DEFINE v == <<49, 55>>
  <1>1. v \in Texts /\ IsNumber(v) /\ Unbroken(v, Len(v)) /\ 101 \in Letters /\ <<Open>> \in Texts /\ <<>> \in Texts /\ 101 \in Byte
    <2>1. v \in Texts /\ <<Open>> \in Texts /\ <<>> \in Texts /\ 101 \in Letters /\ 101 \in Byte
      BY DEF Texts, Byte, Open, Letters
    <2>2. IsNumber(v)
      BY DEF IsNumber, IsDigit
    <2>3. Unbroken(v, Len(v))
      BY DEF Unbroken, Comma, Close, IsSpace
    <2> QED BY <2>1, <2>2, <2>3
  <1>2. Reads(v) = v
    BY <1>1 DEF Reads
  <1>3. <<Open>> \o <<>> = <<Open>>
    BY <1>1, ConcatEmptySeq DEF Texts
  <1> HIDE DEF v
  <1>4. ParsesTo(<<Open>> \o <<>>, "item", <<>>, <<>>, <<>>)
    BY <1>3, OpenRead
  <1>5. ParsesTo(WithPair(<<Open>>, <<>>, 101, v) \o <<Comma>>, "item", <<>>, <<>>, Put(<<>>, <<101>>, Reads(v)))
    BY <1>1, <1>4, PairRead
  <1>6. WithPair(<<Open>>, <<>>, 101, v) \in Texts
    BY <1>1, WithPairTyped
  <1> QED BY <1>2, <1>5, <1>6 DEF v

\* The four pairs are read one after the other.
LEMMA WrittenRead ==
    ASSUME NEW iss \in Texts, NEW sub \in Texts, NEW uid \in Texts,
           Unbreakable(iss), Unbreakable(sub), Unbreakable(uid)
    PROVE  ParseJson(Written(iss, sub, uid)) = AllRead(Reads(iss), Reads(sub), Reads(uid))
  <1> DEFINE a == WithPair(<<Open>>, <<>>, 101, <<49, 55>>)
             b == WithPair(a, <<Comma>>, 105, iss)
             c == WithPair(b, <<Comma>>, 115, sub)
             d == WithPair(c, <<Comma>>, 117, uid)
             ra == Put(<<>>, <<101>>, <<49, 55>>)
             rb == Put(ra, <<105>>, Reads(iss))
             rc == Put(rb, <<115>>, Reads(sub))
             rd == Put(rc, <<117>>, Reads(uid))
  <1>0. 105 \in Letters /\ 115 \in Letters /\ 117 \in Letters
    BY DEF Letters
  <1>1. ParsesTo(a \o <<Comma>>, "item", <<>>, <<>>, ra)
    BY ExpRead
  <1>2. Written(iss, sub, uid) = d \o <<Close>> /\ AllRead(Reads(iss), Reads(sub), Reads(uid)) = rd
    BY Zenon DEF Written, AllRead
  <1> HIDE DEF a, ra
  <1>3. ParsesTo(b \o <<Comma>>, "item", <<>>, <<>>, rb)
    BY <1>0, <1>1, PairRead DEF Unbreakable
  <1> HIDE DEF b, rb
  <1>4. ParsesTo(c \o <<Comma>>, "item", <<>>, <<>>, rc)
    BY <1>0, <1>3, PairRead DEF Unbreakable
  <1> HIDE DEF c, rc
  <1>5. ParsesTo(d \o <<Close>>, "end", <<>>, <<>>, rd)
    BY <1>0, <1>4, PairRead DEF Unbreakable
  <1> QED BY <1>2, <1>5, EndRead

-----------------------------------------------------------------------------
(* JwtCodec: an issuer that begins like a number and breaks off.           *)

\* The key of the issuer.
IssKey == <<105>>

\* What is read as the issuer is shorter than L bytes.
ShortIss(r, L) == IssKey \in DOMAIN r /\ Len(r[IssKey]) \in Nat /\ Len(r[IssKey]) < L

\* What Put changes and what it leaves.
LEMMA PutOwn ==
    ASSUME NEW r, NEW k, NEW v
    PROVE  k \in DOMAIN Put(r, k, v) /\ Put(r, k, v)[k] = v
  BY DEF Put

LEMMA PutOther ==
    ASSUME NEW r, NEW k, NEW v, NEW x \in DOMAIN r, x # k
    PROVE  x \in DOMAIN Put(r, k, v) /\ Put(r, k, v)[x] = r[x]
  BY DEF Put

\* What is stored last is short.
LEMMA KeepShort ==
    ASSUME NEW r, NEW k, NEW v \in Texts, NEW L \in Nat, Len(v) < L,
           IssKey \in DOMAIN r => ShortIss(r, L), IssKey \in DOMAIN r \/ k = IssKey
    PROVE  ShortIss(Keep(r, k, v), L)
  <1>1. IssKey # <<>> /\ Len(v) \in Nat
    BY DEF IssKey, Texts
  <1>2. CASE k = <<>>
    <2>1. Keep(r, k, v) = r
      BY <1>2 DEF Keep
    <2> QED BY <1>1, <1>2, <2>1
  <1>3. CASE k # <<>>
    <2>1. Keep(r, k, v) = Put(r, k, v)
      BY <1>3 DEF Keep
    <2>2. CASE k = IssKey
      <3>1. IssKey \in DOMAIN Put(r, k, v) /\ Put(r, k, v)[IssKey] = v
        <4>1. k \in DOMAIN Put(r, k, v) /\ Put(r, k, v)[k] = v
          BY PutOwn
        <4> QED BY <2>2, <4>1, Zenon
      <3> QED BY <1>1, <2>1, <3>1 DEF ShortIss
    <2>3. CASE k # IssKey
      <3>1. IssKey \in DOMAIN Put(r, k, v) /\ Put(r, k, v)[IssKey] = r[IssKey]
        BY <2>3, PutOther
      <3> QED BY <2>1, <2>3, <3>1 DEF ShortIss
    <2> QED BY <2>2, <2>3
  <1> QED BY <1>2, <1>3

\* What is stored under other keys does not matter.
LEMMA KeepOther ==
    ASSUME NEW r, NEW k, NEW v, NEW L, k # IssKey, ShortIss(r, L)
    PROVE  ShortIss(Keep(r, k, v), L)
  <1>1. CASE k = <<>>
    BY <1>1 DEF Keep
  <1>2. CASE k # <<>>
    <2>1. Keep(r, k, v) = Put(r, k, v)
      BY <1>2 DEF Keep
    <2>2. IssKey \in DOMAIN Put(r, k, v) /\ Put(r, k, v)[IssKey] = r[IssKey]
      BY PutOther DEF ShortIss
    <2> QED BY <2>1, <2>2 DEF ShortIss
  <1> QED BY <1>1, <1>2

\* Nothing but the letter itself makes the issuer's key.
LEMMA OtherKeys ==
    ASSUME NEW k \in Texts, NEW c \in Byte, c # 105
    PROVE  Append(k, c) # IssKey /\ Append(k, Unescaped(c)) # IssKey
  <1>1. \A d \in Byte : Append(k, d) = IssKey => d = 105
    <2> SUFFICES ASSUME NEW d \in Byte, Append(k, d) = IssKey PROVE d = 105
      OBVIOUS
    <2>1. Len(Append(k, d)) = Len(k) + 1 /\ Append(k, d)[Len(k) + 1] = d /\ Len(k) \in Nat
      BY DEF Texts
    <2>2. Len(IssKey) = 1 /\ IssKey[1] = 105
      BY DEF IssKey
    <2>3. Len(k) + 1 = 1
      BY <2>1, <2>2
    <2> QED BY <2>1, <2>2, <2>3
  <1>2. Unescaped(c) # 105 /\ Unescaped(c) \in Byte
    BY DEF Unescaped, Byte, Newline, Return, Tab
  <1> QED BY <1>1, <1>2, Zenon

\* Lengths of texts.
LEMMA TextLengths ==
    ASSUME NEW v \in Texts, NEW c \in Byte
    PROVE  /\ Len(v) \in Nat /\ Len(Append(v, c)) = Len(v) + 1 /\ Len(Append(v, Unescaped(c))) = Len(v) + 1
           /\ Len(<<>>) = 0 /\ Len(<<c>>) = 1 /\ <<>> # IssKey
  BY UnescapedTyped DEF Texts, IssKey

\* Behind the broken issuer: its key is stored or about to be, and nothing
\* that can still be stored under it is as long as the issuer.
Cut(L, n, m, k, v, r) ==
    /\ m # "begin"
    /\ Len(v) < n
    /\ m \in {"string", "escape"} => Len(v) + 1 < n
    /\ m \in {"item", "key", "keyEscape", "colon", "value"} => v = <<>>
    /\ m \in {"item", "end"} => k = <<>>
    /\ IssKey \in DOMAIN r \/ (m = "bare" /\ k = IssKey)
    /\ IssKey \in DOMAIN r => ShortIss(r, L)

CutState(L, n, st) == Cut(L, n, st.mode, st.key, st.value, st.result)

\* Cut, of the fields of a state.
LEMMA CutMade ==
    ASSUME NEW L, NEW n, NEW m, NEW k, NEW v, NEW r
    PROVE  CutState(L, n, St(m, k, v, r)) <=> Cut(L, n, m, k, v, r)
  <1> DEFINE st == St(m, k, v, r)
  <1>1. st.mode = m /\ st.key = k /\ st.value = v /\ st.result = r
    BY StFields
  <1> HIDE DEF st
  <1>2. CutState(L, n, st) <=> Cut(L, n, m, k, v, r)
    BY <1>1 DEF CutState
  <1> QED BY <1>2 DEF st

\* Storing leaves the issuer short.
LEMMA CutStored ==
    ASSUME NEW L \in Nat, NEW n \in Nat, 2 <= n, n <= L, NEW m, NEW k \in Texts, NEW v \in Texts, NEW r,
           Cut(L, n, m, k, v, r)
    PROVE  CutState(L, n + 1, St("item", <<>>, <<>>, Keep(r, k, v))) /\ CutState(L, n + 1, St("end", <<>>, <<>>, Keep(r, k, v)))
  <1> DEFINE q == Keep(r, k, v)
             o == <<>>
  <1>0. Len(v) \in Nat /\ Len(v) < n /\ Len(o) = 0
    BY DEF Cut, Texts
  <1>1. ShortIss(q, L)
    <2>1. Len(v) < L /\ (IssKey \in DOMAIN r => ShortIss(r, L)) /\ (IssKey \in DOMAIN r \/ k = IssKey)
      BY <1>0 DEF Cut
    <2> QED BY <2>1, KeepShort
  <1> HIDE DEF q
  <1>2. IssKey \in DOMAIN q
    BY <1>1 DEF ShortIss
  <1>3. Cut(L, n + 1, "item", <<>>, <<>>, q) /\ Cut(L, n + 1, "end", <<>>, <<>>, q)
    BY <1>0, <1>1, <1>2 DEF Cut
  <1> QED BY <1>3, CutMade, Zenon DEF q

\* Where the value is still to come.
LEMMA CutAtValue ==
    ASSUME NEW L \in Nat, NEW n \in Nat, 2 <= n, n <= L, NEW m \in {"colon", "value"},
           NEW k \in Texts, NEW v \in Texts, NEW r, Cut(L, n, m, k, v, r), NEW c \in Byte
    PROVE  CutState(L, n + 1, ValueStep(St(m, k, v, r), c))
  <1> DEFINE d == <<c>>
  <1>0. Len(d) = 1 /\ Len(v) \in Nat
    BY TextLengths
  <1>1. CutState(L, n + 1, St("item", <<>>, <<>>, Keep(r, k, v))) /\ CutState(L, n + 1, St("end", <<>>, <<>>, Keep(r, k, v)))
    BY CutStored
  <1> HIDE DEF d
  <1>2. Cut(L, n + 1, m, k, v, r) /\ Cut(L, n + 1, "string", k, v, r) /\ Cut(L, n + 1, "bare", k, d, r)
    <2>1. Len(v) = 0
      BY DEF Cut
    <2> QED BY <1>0, <2>1 DEF Cut
  <1>3. CutState(L, n + 1, St(m, k, v, r)) /\ CutState(L, n + 1, St("string", k, v, r)) /\ CutState(L, n + 1, St("bare", k, d, r))
    BY <1>2, CutMade
  <1>4. c \in {Quote, Comma, Close} \/ IsSpace(c) \/ (c \notin {Quote, Comma, Close} /\ ~IsSpace(c))
    OBVIOUS
  <1> QED BY <1>1, <1>3, <1>4, ValueStepIs DEF d

\* One byte more of the issuer, in each mode.
LEMMA CutAtItem ==
    ASSUME NEW L \in Nat, NEW n \in Nat, 2 <= n, n <= L,
           NEW k \in Texts, NEW v \in Texts, NEW r, Cut(L, n, "item", k, v, r), NEW c \in Byte
    PROVE  CutState(L, n + 1, ParseStep(St("item", k, v, r), c))
  <1> DEFINE d == <<c>>
  <1>0. Len(d) = 1 /\ Len(v) \in Nat
    BY TextLengths
  <1> HIDE DEF d
  <1>2. /\ Cut(L, n + 1, "item", k, v, r) /\ Cut(L, n + 1, "end", k, v, r) /\ Cut(L, n + 1, "key", k, v, r)
        /\ Cut(L, n + 1, "value", k, v, r) /\ Cut(L, n + 1, "bare", k, d, r)
    BY <1>0 DEF Cut
  <1>3. /\ CutState(L, n + 1, St("item", k, v, r)) /\ CutState(L, n + 1, St("end", k, v, r)) /\ CutState(L, n + 1, St("key", k, v, r))
        /\ CutState(L, n + 1, St("value", k, v, r)) /\ CutState(L, n + 1, St("bare", k, d, r))
    BY <1>2, CutMade
  <1>4. c \in {Comma, Close, Quote, Colon} \/ IsSpace(c) \/ (c \notin {Comma, Close, Quote, Colon} /\ ~IsSpace(c))
    OBVIOUS
  <1> QED BY <1>3, <1>4, StepInItem DEF d

LEMMA CutAtKey ==
    ASSUME NEW L \in Nat, NEW n \in Nat, 2 <= n, n <= L, NEW m \in {"key", "keyEscape"},
           NEW k \in Texts, NEW v \in Texts, NEW r, Cut(L, n, m, k, v, r), NEW c \in Byte
    PROVE  CutState(L, n + 1, ParseStep(St(m, k, v, r), c))
  <1> DEFINE x == Append(k, c)
             y == Append(k, Unescaped(c))
  <1>0. Len(v) \in Nat
    BY TextLengths
  <1> HIDE DEF x, y
  <1>2. /\ Cut(L, n + 1, "keyEscape", k, v, r) /\ Cut(L, n + 1, "colon", k, v, r)
        /\ Cut(L, n + 1, "key", x, v, r) /\ Cut(L, n + 1, "key", y, v, r)
    BY <1>0 DEF Cut
  <1>3. /\ CutState(L, n + 1, St("keyEscape", k, v, r)) /\ CutState(L, n + 1, St("colon", k, v, r))
        /\ CutState(L, n + 1, St("key", x, v, r)) /\ CutState(L, n + 1, St("key", y, v, r))
    BY <1>2, CutMade
  <1>4. c = Backslash \/ c = Quote \/ c \notin {Backslash, Quote}
    OBVIOUS
  <1>5. CASE m = "key"
    BY <1>3, <1>4, <1>5, StepInKey DEF x
  <1>6. CASE m = "keyEscape"
    BY <1>3, <1>6, StepInKeyEscape DEF y
  <1> QED BY <1>5, <1>6

LEMMA CutAtString ==
    ASSUME NEW L \in Nat, NEW n \in Nat, 2 <= n, n <= L, NEW m \in {"string", "escape"},
           NEW k \in Texts, NEW v \in Texts, NEW r, Cut(L, n, m, k, v, r), NEW c \in Byte
    PROVE  CutState(L, n + 1, ParseStep(St(m, k, v, r), c))
  <1> DEFINE x == Append(v, c)
             y == Append(v, Unescaped(c))
  <1>0. Len(v) \in Nat /\ Len(x) = Len(v) + 1 /\ Len(y) = Len(v) + 1
    BY TextLengths
  <1>1. CutState(L, n + 1, St("item", <<>>, <<>>, Keep(r, k, v)))
    BY CutStored
  <1> HIDE DEF x, y
  <1>2. /\ Cut(L, n + 1, "escape", k, v, r)
        /\ Cut(L, n + 1, "string", k, x, r) /\ Cut(L, n + 1, "string", k, y, r)
    BY <1>0 DEF Cut
  <1>3. /\ CutState(L, n + 1, St("escape", k, v, r))
        /\ CutState(L, n + 1, St("string", k, x, r)) /\ CutState(L, n + 1, St("string", k, y, r))
    BY <1>2, CutMade
  <1>4. c = Backslash \/ c = Quote \/ c \notin {Backslash, Quote}
    OBVIOUS
  <1>5. CASE m = "string"
    BY <1>1, <1>3, <1>4, <1>5, StepInString DEF x
  <1>6. CASE m = "escape"
    BY <1>3, <1>6, StepInEscape DEF y
  <1> QED BY <1>5, <1>6

LEMMA CutAtBare ==
    ASSUME NEW L \in Nat, NEW n \in Nat, 2 <= n, n <= L,
           NEW k \in Texts, NEW v \in Texts, NEW r, Cut(L, n, "bare", k, v, r), NEW c \in Byte
    PROVE  CutState(L, n + 1, ParseStep(St("bare", k, v, r), c))
  <1> DEFINE x == Append(v, c)
  <1>0. Len(v) \in Nat /\ Len(x) = Len(v) + 1
    BY TextLengths
  <1>1. CutState(L, n + 1, St("item", <<>>, <<>>, Keep(r, k, v))) /\ CutState(L, n + 1, St("end", <<>>, <<>>, Keep(r, k, v)))
    BY CutStored
  <1> HIDE DEF x
  <1>2. Cut(L, n + 1, "bare", k, v, r) /\ Cut(L, n + 1, "bare", k, x, r)
    BY <1>0 DEF Cut
  <1>3. CutState(L, n + 1, St("bare", k, v, r)) /\ CutState(L, n + 1, St("bare", k, x, r))
    BY <1>2, CutMade
  <1>4. c \in {Comma, Close} \/ IsSpace(c) \/ (c \notin {Comma, Close} /\ ~IsSpace(c))
    OBVIOUS
  <1> QED BY <1>1, <1>3, <1>4, StepInBare DEF x

\* One byte more of the issuer.
LEMMA CutStep ==
    ASSUME NEW L \in Nat, NEW n \in Nat, 2 <= n, n <= L, NEW st \in ParserStates, CutState(L, n, st), NEW c \in Byte
    PROVE  CutState(L, n + 1, ParseStep(st, c))
  <1>1. PICK m \in Modes, k \in Texts, v \in Texts, r \in Results : st = St(m, k, v, r)
    BY StOfTyped, Zenon
  <1>2. Cut(L, n, m, k, v, r)
    BY <1>1, CutMade
  <1>3. m # "begin"
    BY <1>2 DEF Cut
  <1>4. CASE m = "item"
    BY <1>1, <1>2, <1>4, CutAtItem
  <1>5. CASE m \in {"key", "keyEscape"}
    BY <1>1, <1>2, <1>5, CutAtKey
  <1>6. CASE m = "colon"
    <2>1. CASE c = Colon
      <3>1. Len(v) \in Nat
        BY TextLengths
      <3>2. Cut(L, n + 1, "value", k, v, r)
        BY <1>2, <1>6, <3>1 DEF Cut
      <3>3. CutState(L, n + 1, St("value", k, v, r))
        BY <3>2, CutMade
      <3> QED BY <1>1, <1>6, <2>1, <3>3, StepInColon
    <2>2. CASE c # Colon
      BY <1>1, <1>2, <1>6, <2>2, CutAtValue, StepInColon
    <2> QED BY <2>1, <2>2
  <1>7. CASE m = "value"
    BY <1>1, <1>2, <1>7, CutAtValue, StepInValue
  <1>8. CASE m \in {"string", "escape"}
    BY <1>1, <1>2, <1>8, CutAtString
  <1>9. CASE m = "bare"
    BY <1>1, <1>2, <1>9, CutAtBare
  <1>10. CASE m = "end"
    <2>1. Len(v) \in Nat
      BY TextLengths
    <2>2. Cut(L, n + 1, m, k, v, r)
      BY <1>2, <1>10, <2>1 DEF Cut
    <2>3. CutState(L, n + 1, St(m, k, v, r))
      BY <2>2, CutMade
    <2> QED BY <1>1, <1>10, <2>3, StepInEnd
  <1> QED BY <1>3, <1>4, <1>5, <1>6, <1>7, <1>8, <1>9, <1>10 DEF Modes

\* The first byte that ends the number.
LEMMA BareBroken ==
    ASSUME NEW L \in Nat, NEW n \in Nat, 2 <= n, n <= L, NEW v \in Texts, Len(v) = n - 1, NEW r, IssKey \notin DOMAIN r,
           NEW c \in Byte, c \in {Comma, Close} \/ IsSpace(c)
    PROVE  CutState(L, n, ParseStep(St("bare", IssKey, v, r), c))
  <1> DEFINE q == Keep(r, IssKey, v)
             o == <<>>
  <1>0. Len(v) < L /\ Len(v) < n /\ Len(o) = 0 /\ o # IssKey
    BY TextLengths
  <1>1. ShortIss(q, L)
    BY <1>0, KeepShort
  <1>2. IssKey \in DOMAIN q
    BY <1>1 DEF ShortIss
  <1> HIDE DEF q
  <1>3. Cut(L, n, "bare", IssKey, v, r) /\ Cut(L, n, "item", <<>>, <<>>, q) /\ Cut(L, n, "end", <<>>, <<>>, q)
    BY <1>0, <1>1, <1>2 DEF Cut
  <1>4. CutState(L, n, St("bare", IssKey, v, r)) /\ CutState(L, n, St("item", <<>>, <<>>, q)) /\ CutState(L, n, St("end", <<>>, <<>>, q))
    BY <1>3, CutMade
  <1> QED BY <1>4, StepInBare DEF q

\* Behind an issuer with a byte that ends a number.
LEMMA BrokenRead ==
    ASSUME NEW t, NEW r, ParsesTo(t, "value", IssKey, <<>>, r), IssKey \notin DOMAIN r,
           NEW v \in Texts, IsNumber(v), ~Unbroken(v, Len(v))
    PROVE  Len(v) \in Nat /\ 2 <= Len(v) /\ CutState(Len(v), Len(v), Parsed(t \o v))
  <1> DEFINE L == Len(v)
             Q(n) == n = 0 \/ Unbroken(v, n) \/ (2 <= n /\ CutState(L, n, Parsed(t \o Upto(v, n))))
             T == {n \in 0 .. L : Q(n)}
  <1>0. t \in Texts /\ L \in Nat
    BY DEF ParsesTo, Texts
  <1>1. Unbroken(v, 1) /\ 1 <= L
    BY NumberBegins DEF Unbroken
  <1>2. ASSUME NEW n \in 1 .. L, Q(n - 1) PROVE Q(n)
    <2>1. CASE n = 1
      BY <1>1, <2>1
    <2>2. CASE n # 1
      <3> DEFINE c == v[n]
                 u == Upto(v, n - 1)
      <3>0. n - 1 \in 1 .. L /\ n - 1 # 0 /\ 2 <= n /\ n \in Nat /\ n <= L
        BY <1>0, <2>2
      <3>1. c \in Byte /\ u \in Texts /\ Append(t \o u, c) = t \o Upto(v, n)
        BY <1>0, AppendUpto
      <3>2. Len(u) = n - 1
        BY <3>0 DEF Upto
      <3>3. t \o u \in Seq(Byte)
        BY <1>0, <3>1, ConcatProperties DEF Texts
      <3>4. Parsed(t \o Upto(v, n)) = ParseStep(Parsed(t \o u), c) /\ Parsed(t \o u) \in ParserStates
        BY <3>1, <3>3, ParseAppend
      <3>5. CASE Unbroken(v, n - 1)
        <4>1. CASE c \notin {Comma, Close} /\ ~IsSpace(c)
          BY <3>0, <3>5, <4>1 DEF Unbroken
        <4>2. CASE c \in {Comma, Close} \/ IsSpace(c)
          <5>1. ParsesTo(t \o u, "bare", IssKey, u, r)
            BY <3>0, <3>5, NumberRead
          <5> HIDE DEF u, c
          <5>2. CutState(L, n, ParseStep(St("bare", IssKey, u, r), c))
            BY <1>0, <3>0, <3>1, <3>2, <4>2, BareBroken
          <5> QED BY <3>0, <3>4, <5>1, <5>2 DEF ParsesTo
        <4> QED BY <4>1, <4>2
      <3>6. CASE 2 <= n - 1 /\ CutState(L, n - 1, Parsed(t \o u))
        <4> DEFINE w == Parsed(t \o u)
                   z == n - 1
        <4>1. w \in ParserStates /\ CutState(L, z, w) /\ z \in Nat /\ 2 <= z /\ z <= L /\ z + 1 = n
          BY <3>0, <3>4, <3>6
        <4> HIDE DEF w, z, c, L
        <4>2. CutState(L, z + 1, ParseStep(w, c))
          BY <1>0, <3>1, <4>1, CutStep
        <4> QED BY <3>0, <3>4, <4>1, <4>2 DEF w
      <3> QED BY <1>2, <3>0, <3>5, <3>6
    <2> QED BY <2>1, <2>2
  <1>3. 0 \in T /\ \A n \in 1 .. L : n - 1 \in T => n \in T
    BY <1>0, <1>2
  <1>4. \A n \in 0 .. L : n \in T
    <2> HIDE DEF T
    <2> QED BY <1>0, <1>3, BoundedInduction
  <1>5. Q(L) /\ L # 0
    BY <1>0, <1>1, <1>4
  <1>6. 2 <= L /\ CutState(L, L, Parsed(t \o Upto(v, L)))
    BY <1>5
  <1>7. Upto(v, L) = v
    BY <1>0, UptoEnds
  <1> QED BY <1>0, <1>6, <1>7

\* What is read can no longer get another issuer.
LostState(L, st) == st.key # IssKey /\ ShortIss(st.result, L)

\* LostState, of the fields of a state.
LEMMA LostMade ==
    ASSUME NEW L, NEW m, NEW k, NEW v, NEW r
    PROVE  LostState(L, St(m, k, v, r)) <=> (k # IssKey /\ ShortIss(r, L))
  <1> DEFINE st == St(m, k, v, r)
  <1>1. st.key = k /\ st.result = r
    BY StFields
  <1> HIDE DEF st
  <1>2. LostState(L, st) <=> (k # IssKey /\ ShortIss(r, L))
    BY <1>1 DEF LostState
  <1> QED BY <1>2 DEF st

\* Bytes other than the issuer's letter leave it so.
LEMMA LostStep ==
    ASSUME NEW L, NEW st \in ParserStates, LostState(L, st), NEW c \in Byte, c # 105
    PROVE  LostState(L, ParseStep(st, c))
  <1>1. PICK m \in Modes, k \in Texts, v \in Texts, r \in Results : st = St(m, k, v, r)
    BY StOfTyped, Zenon
  <1> DEFINE x == Append(k, c)
             y == Append(k, Unescaped(c))
             q == Keep(r, k, v)
             o == <<>>
             d == <<c>>
             w == Append(v, c)
             z == Append(v, Unescaped(c))
  <1>2. k # IssKey /\ ShortIss(r, L)
    BY <1>1, LostMade
  <1>3. x # IssKey /\ y # IssKey /\ ShortIss(q, L) /\ o # IssKey
    BY <1>2, OtherKeys, KeepOther, TextLengths
  <1> HIDE DEF x, y, q, o, d, w, z
  <1>4. ASSUME NEW n, NEW p PROVE /\ LostState(L, St(n, k, p, r)) /\ LostState(L, St(n, x, p, r))
                                  /\ LostState(L, St(n, y, p, r)) /\ LostState(L, St(n, o, o, q))
    BY <1>2, <1>3, LostMade
  <1>a. c \in {Comma, Close, Quote, Colon} \/ IsSpace(c) \/ (c \notin {Comma, Close, Quote, Colon} /\ ~IsSpace(c))
    OBVIOUS
  <1>b. /\ LostState(L, St("bare", k, d, r)) /\ LostState(L, St("string", k, v, r))
        /\ LostState(L, St("item", o, o, q)) /\ LostState(L, St("end", o, o, q))
    BY <1>4
  <1>5. ASSUME NEW n PROVE LostState(L, ValueStep(St(n, k, v, r), c))
    <2>1. LostState(L, St(n, k, v, r))
      BY <1>4
    <2>2. c = Quote \/ c = Comma \/ c = Close \/ IsSpace(c) \/ (c \notin {Quote, Comma, Close} /\ ~IsSpace(c))
      OBVIOUS
    <2> QED BY <1>b, <2>1, <2>2, ValueStepIs DEF q, o, d
  <1>6. CASE m = "begin"
    BY <1>1, <1>4, <1>6, StepInBegin
  <1>7. CASE m = "item"
    <2>1. /\ LostState(L, St("item", k, v, r)) /\ LostState(L, St("end", k, v, r))
          /\ LostState(L, St("key", k, v, r)) /\ LostState(L, St("value", k, v, r))
      BY <1>4
    <2> QED BY <1>1, <1>a, <1>b, <1>7, <2>1, StepInItem DEF d
  <1>8. CASE m = "key"
    BY <1>1, <1>4, <1>8, StepInKey DEF x
  <1>9. CASE m = "keyEscape"
    BY <1>1, <1>4, <1>9, StepInKeyEscape DEF y
  <1>10. CASE m = "colon"
    BY <1>1, <1>4, <1>5, <1>10, StepInColon
  <1>11. CASE m = "value"
    BY <1>1, <1>5, <1>11, StepInValue
  <1>12. CASE m = "string"
    BY <1>1, <1>4, <1>12, StepInString DEF q, o
  <1>13. CASE m = "escape"
    BY <1>1, <1>4, <1>13, StepInEscape
  <1>14. CASE m = "bare"
    BY <1>1, <1>4, <1>14, StepInBare DEF q, o
  <1>15. CASE m = "end"
    BY <1>1, <1>4, <1>15, StepInEnd
  <1> QED BY <1>6, <1>7, <1>8, <1>9, <1>10, <1>11, <1>12, <1>13, <1>14, <1>15 DEF Modes

\* The comma and the quote behind the issuer.
Mid(L, m, k, v, r) ==
    /\ ShortIss(r, L)
    /\ \/ m \in {"item", "end"} /\ k = <<>>
       \/ m = "key" /\ k # IssKey
       \/ m = "string" /\ Len(v) < L

MidState(L, st) == Mid(L, st.mode, st.key, st.value, st.result)

\* Mid, of the fields of a state.
LEMMA MidMade ==
    ASSUME NEW L, NEW m, NEW k, NEW v, NEW r
    PROVE  MidState(L, St(m, k, v, r)) <=> Mid(L, m, k, v, r)
  <1> DEFINE st == St(m, k, v, r)
  <1>1. st.mode = m /\ st.key = k /\ st.value = v /\ st.result = r
    BY StFields
  <1> HIDE DEF st
  <1>2. MidState(L, st) <=> Mid(L, m, k, v, r)
    BY <1>1 DEF MidState
  <1> QED BY <1>2 DEF st

\* A comma ends an empty value.
LEMMA ValueAtComma ==
    ASSUME NEW m, NEW k, NEW v, NEW r
    PROVE  ValueStep(St(m, k, v, r), Comma) = St("item", <<>>, <<>>, Keep(r, k, v))
  <1> DEFINE st == St(m, k, v, r)
  <1>1. ~IsSpace(Comma) /\ Comma # Quote /\ Comma # Close
    BY DistinctBytes
  <1>2. ValueStep(st, Comma) = Store(st, "item")
    <2> HIDE DEF st
    <2> QED BY <1>1 DEF ValueStep
  <1> QED BY <1>2, StoreIs

\* The comma that BuildJson writes behind the issuer.
LEMMA CutComma ==
    ASSUME NEW L \in Nat, 2 <= L, NEW st \in ParserStates, CutState(L, L, st)
    PROVE  MidState(L, ParseStep(st, Comma))
  <1>1. PICK m \in Modes, k \in Texts, v \in Texts, r \in Results : st = St(m, k, v, r)
    BY StOfTyped, Zenon
  <1>2. Cut(L, L, m, k, v, r)
    BY <1>1, CutMade
  <1> DEFINE x == Append(k, Comma)
             y == Append(k, Unescaped(Comma))
             q == Keep(r, k, v)
             o == <<>>
             w == Append(v, Comma)
             z == Append(v, Unescaped(Comma))
  <1>c. Comma \in Byte /\ Comma # 105 /\ Comma \notin {Quote, Backslash, Colon, Close} /\ ~IsSpace(Comma)
    BY DEF Comma, Byte, Quote, Backslash, Colon, Close, IsSpace
  <1>3. x # IssKey /\ y # IssKey /\ Len(v) \in Nat /\ Len(w) = Len(v) + 1 /\ Len(z) = Len(v) + 1 /\ Len(o) = 0
    BY <1>c, OtherKeys, TextLengths
  <1>4. ShortIss(q, L)
    <2>1. Len(v) < L /\ (IssKey \in DOMAIN r => ShortIss(r, L)) /\ (IssKey \in DOMAIN r \/ k = IssKey)
      BY <1>2 DEF Cut
    <2> QED BY <2>1, KeepShort
  <1>5. m = "bare" \/ ShortIss(r, L)
    BY <1>2 DEF Cut
  <1>6. Mid(L, "item", o, o, q)
    BY <1>4 DEF Mid
  <1>s. MidState(L, St("item", o, o, q))
    BY <1>6, MidMade, Zenon
  <1> HIDE DEF x, y, q, w, z
  <1>7. CASE m = "item"
    <2>1. Mid(L, m, k, v, r)
      BY <1>2, <1>5, <1>7 DEF Cut, Mid
    <2>2. MidState(L, St("item", k, v, r))
      BY <1>7, <2>1, MidMade
    <2> QED BY <1>1, <1>c, <1>7, <2>2, StepInItem, ZenonT(60)
  <1>8. CASE m = "key"
    <2>1. Mid(L, "key", x, v, r)
      BY <1>3, <1>5, <1>8 DEF Mid
    <2>2. MidState(L, St("key", x, v, r))
      BY <2>1, MidMade
    <2> QED BY <1>1, <1>c, <1>8, <2>2, StepInKey DEF x
  <1>9. CASE m = "keyEscape"
    <2>1. Mid(L, "key", y, v, r)
      BY <1>3, <1>5, <1>9 DEF Mid
    <2>2. MidState(L, St("key", y, v, r))
      BY <2>1, MidMade
    <2> QED BY <1>1, <1>c, <1>9, <2>2, StepInKeyEscape DEF y
  <1>v. ValueStep(St(m, k, v, r), Comma) = St("item", o, o, q)
    BY ValueAtComma DEF q
  <1>10. CASE m = "colon"
    BY <1>1, <1>c, <1>s, <1>v, <1>10, StepInColon
  <1>11. CASE m = "value"
    BY <1>1, <1>c, <1>s, <1>v, <1>11, StepInValue
  <1>12. CASE m = "string"
    <2>1. Mid(L, "string", k, w, r)
      BY <1>2, <1>3, <1>5, <1>12 DEF Mid, Cut
    <2>2. MidState(L, St("string", k, w, r))
      BY <2>1, MidMade
    <2> QED BY <1>1, <1>c, <1>12, <2>2, StepInString DEF w
  <1>13. CASE m = "escape"
    <2>1. Mid(L, "string", k, z, r)
      BY <1>2, <1>3, <1>5, <1>13 DEF Mid, Cut
    <2>2. MidState(L, St("string", k, z, r))
      BY <2>1, MidMade
    <2> QED BY <1>1, <1>c, <1>13, <2>2, StepInEscape DEF z
  <1>14. CASE m = "bare"
    BY <1>1, <1>c, <1>s, <1>14, StepInBare DEF q
  <1>15. CASE m = "end"
    <2>1. Mid(L, m, k, v, r)
      BY <1>2, <1>5, <1>15 DEF Cut, Mid
    <2>2. MidState(L, St("end", k, v, r))
      BY <1>15, <2>1, MidMade
    <2> QED BY <1>1, <1>c, <1>15, <2>2, StepInEnd
  <1>16. m # "begin"
    BY <1>2 DEF Cut
  <1> QED BY <1>16, <1>7, <1>8, <1>9, <1>10, <1>11, <1>12, <1>13, <1>14, <1>15 DEF Modes

\* The quote that BuildJson writes before the next key.
LEMMA MidQuote ==
    ASSUME NEW L \in Nat, NEW st \in ParserStates, MidState(L, st)
    PROVE  LostState(L, ParseStep(st, Quote))
  <1>1. PICK m \in Modes, k \in Texts, v \in Texts, r \in Results : st = St(m, k, v, r)
    BY StOfTyped, Zenon
  <1>2. Mid(L, m, k, v, r)
    BY <1>1, MidMade
  <1> DEFINE q == Keep(r, k, v)
             o == <<>>
  <1>c. Quote \in Byte /\ o # IssKey
    BY DEF Quote, Byte, IssKey
  <1>3. ShortIss(r, L) /\ IssKey \in DOMAIN r
    BY <1>2 DEF Mid, ShortIss
  <1>4. CASE m = "item"
    <2>1. k # IssKey
      BY <1>2, <1>c, <1>4 DEF Mid
    <2>2. LostState(L, St("key", k, v, r))
      BY <1>3, <2>1, LostMade
    <2> QED BY <1>1, <1>c, <1>4, <2>2, StepInItem
  <1>5. CASE m = "end"
    <2>1. k # IssKey
      BY <1>2, <1>c, <1>5 DEF Mid
    <2>2. LostState(L, St("end", k, v, r))
      BY <1>3, <2>1, LostMade
    <2> QED BY <1>1, <1>c, <1>5, <2>2, StepInEnd
  <1>6. CASE m = "key"
    <2>1. k # IssKey
      BY <1>2, <1>c, <1>6 DEF Mid
    <2>2. LostState(L, St("colon", k, v, r))
      BY <1>3, <2>1, LostMade
    <2> QED BY <1>1, <1>c, <1>6, <2>2, StepInKey
  <1>7. CASE m = "string"
    <2>1. Len(v) < L
      BY <1>2, <1>7 DEF Mid
    <2>2. ShortIss(q, L)
      BY <1>3, <2>1, KeepShort
    <2> HIDE DEF q, o
    <2>3. LostState(L, St("item", o, o, q))
      BY <1>c, <2>2, LostMade
    <2> QED BY <1>1, <1>c, <1>7, <2>3, StepInString DEF q, o
  <1> QED BY <1>2, <1>4, <1>5, <1>6, <1>7 DEF Mid

\* The same, of the state behind a text.
LostText(L, t) == t \in Texts /\ LostState(L, Parsed(t))

\* The bytes of all that follows the issuer.
Others == Byte \ {105}

\* Whatever follows without the issuer's key.
LEMMA LostByte ==
    ASSUME NEW L, NEW t, LostText(L, t), NEW c \in Others
    PROVE  LostText(L, Append(t, c))
  <1>1. c \in Byte /\ c # 105 /\ t \in Seq(Byte)
    BY DEF Others, LostText, Texts
  <1>2. Append(t, c) \in Seq(Byte) /\ Parsed(t) \in ParserStates /\ Parsed(Append(t, c)) = ParseStep(Parsed(t), c)
    BY <1>1, ParseAppend
  <1>3. LostState(L, ParseStep(Parsed(t), c))
    BY <1>1, <1>2, LostStep DEF LostText
  <1> QED BY <1>2, <1>3 DEF LostText, Texts

\* Any number of such bytes.
LEMMA LostConcat ==
    ASSUME NEW L, NEW t, LostText(L, t), NEW s \in Seq(Others)
    PROVE  LostText(L, t \o s)
  <1> DEFINE N == Len(s)
             T == {n \in 0 .. N : LostText(L, t \o Upto(s, n))}
  <1>0. t \in Texts /\ N \in Nat /\ s \in Texts
    BY DEF LostText, Texts, Others
  <1>1. 0 \in T
    <2>1. t \o Upto(s, 0) = t
      BY <1>0, UptoEnds
    <2>2. LostText(L, t \o Upto(s, 0))
      BY <2>1, Zenon
    <2> QED BY <1>0, <2>2
  <1>2. \A n \in 1 .. N : n - 1 \in T => n \in T
    <2> SUFFICES ASSUME NEW n \in 1 .. N, LostText(L, t \o Upto(s, n - 1)) PROVE LostText(L, t \o Upto(s, n))
      OBVIOUS
    <2> DEFINE u == t \o Upto(s, n - 1)
               c == s[n]
    <2>1. Append(u, c) = t \o Upto(s, n)
      BY <1>0, AppendUpto
    <2>2. c \in Others
      BY ElementOfSeq, Zenon
    <2> HIDE DEF u, c
    <2>3. LostText(L, Append(u, c))
      BY <2>2, LostByte DEF u
    <2> QED BY <2>1, <2>3
  <1>3. \A n \in 0 .. N : n \in T
    <2> HIDE DEF T
    <2> QED BY <1>0, <1>1, <1>2, BoundedInduction
  <1>4. LostText(L, t \o Upto(s, N))
    BY <1>0, <1>3
  <1> QED BY <1>0, <1>4, UptoEnds

\* A broken issuer, and all that follows it.
LEMMA BrokenPair ==
    ASSUME NEW t, NEW r, ParsesTo(t \o <<Comma>>, "item", <<>>, <<>>, r), IssKey \notin DOMAIN r,
           NEW iss \in Texts, IsNumber(iss), ~Unbroken(iss, Len(iss))
    PROVE  LostText(Len(iss), ((WithPair(t, <<Comma>>, 105, iss) \o <<Comma>>) \o Quoted(<<115>>)) \o <<Colon>>)
  <1> DEFINE x == ((t \o <<Comma>>) \o Quoted(<<105>>)) \o <<Colon>>
             b == x \o iss
             L == Len(iss)
             p == Append(b, Comma)
             q == Append(p, Quote)
  <1>0. 105 \in Letters /\ 115 \in Letters /\ Comma \in Byte /\ Quote \in Others /\ Quote \in Byte /\ 115 \in Others /\ Colon \in Others
    BY DEF Letters, Comma, Byte, Others, Quote, Colon
  <1>1. ParsesTo(x, "value", IssKey, <<>>, r)
    BY <1>0, KeyRead DEF IssKey
  <1>2. WithPair(t, <<Comma>>, 105, iss) = b
    BY DEF WithPair, JsonValue
  <1> HIDE DEF x
  <1>3. L \in Nat /\ 2 <= L /\ CutState(L, L, Parsed(b))
    BY <1>1, BrokenRead
  <1>4. b \in Seq(Byte)
    BY <1>1, ConcatProperties DEF ParsesTo, Texts
  <1> HIDE DEF b, L
  <1>5. p \in Seq(Byte) /\ MidState(L, Parsed(p))
    <2>1. p \in Seq(Byte) /\ Parsed(b) \in ParserStates /\ Parsed(p) = ParseStep(Parsed(b), Comma)
      BY <1>0, <1>4, ParseAppend
    <2>2. MidState(L, ParseStep(Parsed(b), Comma))
      BY <1>3, <2>1, CutComma
    <2> QED BY <2>1, <2>2
  <1> HIDE DEF p
  <1>6. LostText(L, q)
    <2>1. q \in Seq(Byte) /\ Parsed(p) \in ParserStates /\ Parsed(q) = ParseStep(Parsed(p), Quote)
      BY <1>0, <1>5, ParseAppend
    <2>2. LostState(L, ParseStep(Parsed(p), Quote))
      BY <1>3, <1>5, <2>1, MidQuote
    <2> QED BY <2>1, <2>2 DEF LostText, Texts
  <1>7. q \in Seq(Byte) /\ 115 \in Byte /\ Colon \in Byte
    BY <1>0, <1>6 DEF LostText, Texts, Others
  <1>8. p \o Quoted(<<115>>) = Append(Append(q, 115), Quote)
    <2>1. Quoted(<<115>>) = <<Quote, 115, Quote>>
      BY <1>0, KeyText
    <2>2. p \o <<Quote, 115, Quote>> = Append(Append(Append(p, Quote), 115), Quote)
      BY <1>0, <1>5, <1>7
    <2> QED BY <2>1, <2>2
  <1> HIDE DEF q
  <1> DEFINE z == Append(Append(q, 115), Quote)
  <1>9. LostText(L, z)
    <2>1. LostText(L, Append(q, 115))
      BY <1>0, <1>6, LostByte
    <2> QED BY <1>0, <2>1, LostByte
  <1> HIDE DEF z
  <1>10. LostText(L, z \o <<Colon>>)
    <2>1. z \o <<Colon>> = Append(z, Colon)
      BY <1>7, <1>9, AppendOne DEF LostText, Texts
    <2>2. LostText(L, Append(z, Colon))
      BY <1>0, <1>9, LostByte
    <2> QED BY <2>1, <2>2
  <1>11. b \o <<Comma>> = p
    BY <1>0, <1>4, AppendOne DEF p
  <1> QED BY <1>2, <1>8, <1>10, <1>11 DEF L, z

\* The rest of the payload behind a broken issuer.
LEMMA BrokenWritten ==
    ASSUME NEW iss \in Texts, IsNumber(iss), ~Unbroken(iss, Len(iss)), NEW sub \in Seq(Others), NEW uid \in Seq(Others)
    PROVE  LostText(Len(iss), Written(iss, sub, uid))
  <1> DEFINE a == WithPair(<<Open>>, <<>>, 101, <<49, 55>>)
             b == WithPair(a, <<Comma>>, 105, iss)
             h == ((b \o <<Comma>>) \o Quoted(<<115>>)) \o <<Colon>>
             c == WithPair(b, <<Comma>>, 115, sub)
             d == WithPair(c, <<Comma>>, 117, uid)
             L == Len(iss)
             r == Put(<<>>, <<101>>, <<49, 55>>)
             comma == <<Comma>>
             colon == <<Colon>>
             close == <<Close>>
             key == Quoted(<<117>>)
             js == JsonValue(sub)
             ju == JsonValue(uid)
  <1>1. comma \in Seq(Others) /\ colon \in Seq(Others) /\ close \in Seq(Others) /\ <<117>> \in Seq(Others)
    BY DEF Comma, Colon, Close, Others, Byte
  <1>2. js \in Seq(Others) /\ ju \in Seq(Others) /\ key \in Seq(Others)
    BY <1>1, QuotedTyped DEF Others
  <1>3. ParsesTo(a \o <<Comma>>, "item", <<>>, <<>>, r)
    BY ExpRead
  <1>4. IssKey \notin DOMAIN r
    <2>1. DOMAIN r = {<<101>>}
      BY DEF Put
    <2>2. IssKey # <<101>>
      BY DEF IssKey
    <2> QED BY <2>1, <2>2
  <1>5. Written(iss, sub, uid) = d \o close
    BY Zenon DEF Written
  <1>6. c = h \o js /\ d = (((c \o comma) \o key) \o colon) \o ju
    BY Zenon DEF WithPair
  <1> HIDE DEF a, r
  <1>7. LostText(L, h)
    BY <1>3, <1>4, BrokenPair
  <1> HIDE DEF h, js, ju, comma, colon, close, key, c, d, L
  <1>8. LostText(L, c)
    BY <1>2, <1>6, <1>7, LostConcat
  <1>9. LostText(L, c \o comma)
    BY <1>1, <1>8, LostConcat
  <1>10. LostText(L, (c \o comma) \o key)
    BY <1>2, <1>9, LostConcat
  <1>11. LostText(L, ((c \o comma) \o key) \o colon)
    BY <1>1, <1>10, LostConcat
  <1>12. LostText(L, d)
    BY <1>2, <1>6, <1>11, LostConcat
  <1>13. LostText(L, d \o close)
    BY <1>1, <1>12, LostConcat
  <1> QED BY <1>5, <1>13 DEF L

\* The end of the text, wherever the reader is.
LEMMA LostRead ==
    ASSUME NEW L, NEW t, LostText(L, t)
    PROVE  ShortIss(ParseJson(t), L)
  <1> DEFINE st == Parsed(t)
  <1>0. t \in Seq(Byte) /\ LostState(L, st)
    BY DEF LostText, Texts
  <1>1. st \in ParserStates
    <2>1. Colon \in Byte
      BY DEF Colon, Byte
    <2> QED BY <1>0, <2>1, ParseAppend
  <1>t. Parsing(t)[Len(t)] = st
    BY DEF Parsed
  <1> HIDE DEF st
  <1>2. PICK m \in Modes, k \in Texts, v \in Texts, r \in Results : st = St(m, k, v, r)
    BY <1>1, StOfTyped, Zenon
  <1>3. k # IssKey /\ ShortIss(r, L)
    BY <1>0, <1>2, LostMade
  <1> DEFINE x == Append(k, Backslash)
             y == Append(v, Backslash)
  <1>4. x # IssKey
    <2>1. Backslash \in Byte /\ Backslash # 105
      BY DEF Backslash, Byte
    <2> QED BY <2>1, OtherKeys
  <1>5. st.mode = m /\ st.key = k /\ st.value = v /\ st.result = r
    BY <1>2, StFields
  <1>6. ShortIss(Keep(r, k, v), L) /\ ShortIss(Keep(r, x, v), L) /\ ShortIss(Keep(r, k, y), L)
    BY <1>3, <1>4, KeepOther
  <1>7. CASE m = "keyEscape"
    <2>1. ParseJson(t) = Store([st EXCEPT !.key = x], "end").result
      BY <1>t, <1>5, <1>7 DEF ParseJson
    <2> HIDE DEF x
    <2>2. [st EXCEPT !.key = x] = St(m, x, v, r)
      BY <1>2 DEF St
    <2>3. Store(St(m, x, v, r), "end").result = Keep(r, x, v)
      BY StoreIs, StFields
    <2> QED BY <1>6, <2>1, <2>2, <2>3
  <1>8. CASE m = "escape"
    <2>1. ParseJson(t) = Store([st EXCEPT !.value = y], "end").result
      BY <1>t, <1>5, <1>8 DEF ParseJson
    <2> HIDE DEF y
    <2>2. [st EXCEPT !.value = y] = St(m, k, y, r)
      BY <1>2 DEF St
    <2>3. Store(St(m, k, y, r), "end").result = Keep(r, k, y)
      BY StoreIs, StFields
    <2> QED BY <1>6, <2>1, <2>2, <2>3
  <1>9. CASE m # "keyEscape" /\ m # "escape"
    <2>1. ParseJson(t) = Store(st, "end").result
      BY <1>t, <1>5, <1>9 DEF ParseJson
    <2>2. Store(St(m, k, v, r), "end").result = Keep(r, k, v)
      BY StoreIs, StFields
    <2> QED BY <1>2, <1>6, <2>1, <2>2
  <1> QED BY <1>7, <1>8, <1>9

\* Another issuer is read than was written.
LEMMA BrokenIssuer ==
    ASSUME NEW iss \in Texts, IsNumber(iss), ~Unbroken(iss, Len(iss)), NEW sub \in Seq(Others), NEW uid \in Seq(Others),
           NEW q, q = ParseJson(Written(iss, sub, uid))
    PROVE  IssKey \in DOMAIN q /\ q[IssKey] # iss
  <1>1. ShortIss(q, Len(iss))
    BY BrokenWritten, LostRead
  <1>2. Len(iss) \in Nat
    BY DEF Texts
  <1> QED BY <1>1, <1>2 DEF ShortIss

-----------------------------------------------------------------------------
(* JwtCodec: a token is read as it was signed, or refused.                 *)

\* Subjects, users and plain issuers are read as they were written.
LEMMA SubjectsRead ==
    ASSUME NEW sub \in Subjects
    PROVE  sub \in Texts /\ sub \in Seq(Others) /\ Unbreakable(sub) /\ Reads(sub) = sub
  <1> DEFINE S == (97 .. 122) \ {105}
  <1>1. sub \in Seq(S)
    BY TextsAssumption
  <1>2. \A i \in 1 .. Len(sub) : sub[i] \in S
    BY <1>1
  <1>3. sub \in Texts /\ sub \in Seq(Others)
    BY <1>1 DEF Texts, Others, Byte
  <1>b. \A x \in S : ~IsDigit(x) /\ x # Minus /\ Readback(x) = x
    BY DEF IsDigit, Minus, Readback, Backspace, FormFeed
  <1> HIDE DEF S
  <1>4. ~IsNumber(sub)
    <2> SUFFICES ASSUME sub # <<>> PROVE ~IsDigit(sub[1]) /\ sub[1] # Minus
      BY DEF IsNumber
    <2>1. 1 \in 1 .. Len(sub)
      BY <1>1
    <2>2. sub[1] \in S
      BY <1>2, <2>1
    <2> QED BY <1>b, <2>2, Zenon
  <1>5. Mangled(sub) = sub
    <2>1. \A i \in 1 .. Len(sub) : Readback(sub[i]) = sub[i]
      BY <1>2, <1>b, Zenon
    <2>2. sub = [i \in 1 .. Len(sub) |-> sub[i]]
      BY <1>1
    <2> QED BY <2>1, <2>2 DEF Mangled
  <1> QED BY <1>3, <1>4, <1>5 DEF Unbreakable, Reads

LEMMA UidsRead ==
    ASSUME NEW uid \in Uids
    PROVE  uid \in Texts /\ uid \in Seq(Others) /\ Unbreakable(uid) /\ Reads(uid) = uid
  <1> DEFINE S == (48 .. 57) \cup (97 .. 102) \cup {Minus}
  <1>1. uid \in Seq(S)
    BY TextsAssumption
  <1>2. \A i \in 1 .. Len(uid) : uid[i] \in S
    BY <1>1
  <1>3. uid \in Texts /\ uid \in Seq(Others)
    BY <1>1 DEF Texts, Others, Byte, Minus
  <1>b. \A x \in S : x \notin {Comma, Close} /\ ~IsSpace(x) /\ Readback(x) = x
    BY DEF Comma, Close, IsSpace, Minus, Readback, Backspace, FormFeed
  <1> HIDE DEF S
  <1>4. Unbreakable(uid)
    BY <1>2, <1>b, Zenon DEF Unbreakable, Unbroken
  <1>5. Mangled(uid) = uid
    <2>1. \A i \in 1 .. Len(uid) : Readback(uid[i]) = uid[i]
      BY <1>2, <1>b, Zenon
    <2>2. uid = [i \in 1 .. Len(uid) |-> uid[i]]
      BY <1>1
    <2> QED BY <2>1, <2>2 DEF Mangled
  <1> QED BY <1>3, <1>4, <1>5 DEF Reads

LEMMA PlainRead ==
    ASSUME NEW v \in Texts, Plain(v)
    PROVE  Unbreakable(v) /\ Reads(v) = v
  <1>1. DOMAIN v = 1 .. Len(v) /\ v = [i \in 1 .. Len(v) |-> v[i]]
    BY DEF Texts
  <1>2. CASE IsNumber(v)
    BY <1>1, <1>2 DEF Plain, Unbreakable, Unbroken, Reads
  <1>3. CASE ~IsNumber(v)
    <2>1. \A i \in 1 .. Len(v) : Readback(v[i]) = v[i]
      BY <1>1, <1>3 DEF Plain, Readback
    <2>2. Mangled(v) = v
      BY <1>1, <2>1 DEF Mangled
    <2> QED BY <1>3, <2>2 DEF Unbreakable, Reads
  <1> QED BY <1>2, <1>3

\* The four keys are different.
LEMMA ClaimKeys ==
    /\ <<101>> # <<105>> /\ <<101>> # <<115>> /\ <<101>> # <<117>>
    /\ <<105>> # <<115>> /\ <<105>> # <<117>> /\ <<115>> # <<117>>
  OBVIOUS

\* The issuer that is read.
LEMMA AllReadIss ==
    ASSUME NEW iss, NEW sub, NEW uid
    PROVE  IssKey \in DOMAIN AllRead(iss, sub, uid) /\ AllRead(iss, sub, uid)[IssKey] = iss
  <1> DEFINE a == Put(<<>>, <<101>>, <<49, 55>>)
             ks == <<115>>
             ku == <<117>>
             b == Put(a, IssKey, iss)
             c == Put(b, ks, sub)
             d == Put(c, ku, uid)
  <1>0. IssKey # ks /\ IssKey # ku
    BY ClaimKeys DEF IssKey
  <1>1. AllRead(iss, sub, uid) = d
    BY Zenon DEF AllRead, IssKey
  <1> HIDE DEF a, ks, ku
  <1>2. IssKey \in DOMAIN b /\ b[IssKey] = iss
    BY PutOwn
  <1> HIDE DEF b
  <1>3. IssKey \in DOMAIN c /\ c[IssKey] = iss
    BY <1>0, <1>2, PutOther
  <1> HIDE DEF c
  <1>4. IssKey \in DOMAIN d /\ d[IssKey] = iss
    BY <1>0, <1>3, PutOther
  <1> QED BY <1>1, <1>4

\* What was signed, as the reader would build it.
LEMMA SignedAsRead ==
    ASSUME NEW iss \in Texts, NEW sub \in Texts, NEW uid \in Texts, claims = Claims(iss, sub, uid)
    PROVE  Signed = AllRead(iss, sub, uid)
  <1> DEFINE ke == <<101>>
             ki == <<105>>
             ks == <<115>>
             ku == <<117>>
             e == <<49, 55>>
             o == <<>>
             at(k) == CHOOSE i \in DOMAIN claims : claims[i].key = k
  <1>0. ke # ki /\ ke # ks /\ ke # ku /\ ki # ks /\ ki # ku /\ ks # ku
    BY ClaimKeys
  <1>1. /\ DOMAIN claims = 1 .. 4
        /\ claims[1].key = ke /\ claims[1].value = e /\ claims[2].key = ki /\ claims[2].value = iss
        /\ claims[3].key = ks /\ claims[3].value = sub /\ claims[4].key = ku /\ claims[4].value = uid
    BY DEF Claims
  <1>2. AllRead(iss, sub, uid) = Put(Put(Put(Put(o, ke, e), ki, iss), ks, sub), ku, uid)
    BY Zenon DEF AllRead
  <1>3. DOMAIN o = {}
    OBVIOUS
  <1> HIDE DEF ke, ki, ks, ku, e, o
  <1>4. {claims[i].key : i \in DOMAIN claims} = {ke, ki, ks, ku}
    BY <1>1
  <1>5. at(ke) = 1 /\ at(ki) = 2 /\ at(ks) = 3 /\ at(ku) = 4
    <2>1. ASSUME NEW k, NEW j \in 1 .. 4, claims[j].key = k, \A i \in 1 .. 4 : claims[i].key = k => i = j
          PROVE  at(k) = j
      BY <1>1, <2>1
    <2>2. /\ \A i \in 1 .. 4 : claims[i].key = ke => i = 1
          /\ \A i \in 1 .. 4 : claims[i].key = ki => i = 2
          /\ \A i \in 1 .. 4 : claims[i].key = ks => i = 3
          /\ \A i \in 1 .. 4 : claims[i].key = ku => i = 4
      BY <1>0, <1>1
    <2> HIDE DEF at
    <2> QED BY <1>1, <2>1, <2>2
  <1>6. Signed = [k \in {ke, ki, ks, ku} |-> claims[at(k)].value]
    BY <1>4, Zenon DEF Signed
  <1> HIDE DEF at
  <1>7. Put(Put(Put(Put(o, ke, e), ki, iss), ks, sub), ku, uid)
            = [k \in {ke, ki, ks, ku} |-> IF k = ku THEN uid ELSE IF k = ks THEN sub ELSE IF k = ki THEN iss ELSE e]
    BY <1>0, <1>3 DEF Put
  <1>8. \A k \in {ke, ki, ks, ku} :
            claims[at(k)].value = IF k = ku THEN uid ELSE IF k = ks THEN sub ELSE IF k = ki THEN iss ELSE e
    BY <1>0, <1>1, <1>5
  <1>9. [k \in {ke, ki, ks, ku} |-> claims[at(k)].value]
            = [k \in {ke, ki, ks, ku} |-> IF k = ku THEN uid ELSE IF k = ks THEN sub ELSE IF k = ki THEN iss ELSE e]
    BY <1>8
  <1> QED BY <1>2, <1>6, <1>7, <1>9, Zenon

\* What is read of every token that CreateJwt makes.
LEMMA TokenRead ==
    ASSUME NEW iss \in Issuers, NEW sub \in Subjects, NEW uid \in Uids, NEW q,
           q = ParseJson(BuildJson(Claims(iss, sub, uid)))
    PROVE  \/ Unbreakable(iss) /\ q = AllRead(Reads(iss), sub, uid)
           \/ ~Unbreakable(iss) /\ IssKey \in DOMAIN q /\ q[IssKey] # iss
  <1>1. iss \in Texts
    BY TextsAssumption DEF Texts
  <1>2. /\ sub \in Texts /\ sub \in Seq(Others) /\ Unbreakable(sub) /\ Reads(sub) = sub
        /\ uid \in Texts /\ uid \in Seq(Others) /\ Unbreakable(uid) /\ Reads(uid) = uid
    BY SubjectsRead, UidsRead
  <1>3. q = ParseJson(Written(iss, sub, uid))
    BY <1>1, <1>2, BuiltAsWritten
  <1>4. CASE Unbreakable(iss)
    BY <1>1, <1>2, <1>3, <1>4, WrittenRead
  <1>5. CASE ~Unbreakable(iss)
    <2>1. IsNumber(iss) /\ ~Unbroken(iss, Len(iss))
      BY <1>5 DEF Unbreakable
    <2> QED BY <1>1, <1>2, <1>3, <1>5, <2>1, BrokenIssuer
  <1> QED BY <1>4, <1>5

\* The text of a token is bytes.
LEMMA TokenTyped ==
    ASSUME NEW iss \in Issuers, NEW sub \in Subjects, NEW uid \in Uids
    PROVE  BuildJson(Claims(iss, sub, uid)) \in Seq(Byte)
  <1> DEFINE a == WithPair(<<Open>>, <<>>, 101, <<49, 55>>)
             comma == <<Comma>>
             b == WithPair(a, comma, 105, iss)
             c == WithPair(b, comma, 115, sub)
             d == WithPair(c, comma, 117, uid)
             close == <<Close>>
  <1>1. iss \in Texts /\ sub \in Texts /\ uid \in Texts
    BY TextsAssumption, SubjectsRead, UidsRead DEF Texts
  <1>2. comma \in Texts /\ close \in Texts /\ 105 \in Byte /\ 115 \in Byte /\ 117 \in Byte
    BY DEF Comma, Close, Byte, Texts
  <1>3. a \in Texts
    BY ExpRead
  <1>4. Written(iss, sub, uid) = d \o close
    BY Zenon DEF Written
  <1> HIDE DEF a, comma, close
  <1>5. b \in Texts
    BY <1>1, <1>2, <1>3, WithPairTyped
  <1> HIDE DEF b
  <1>6. c \in Texts
    BY <1>1, <1>2, <1>5, WithPairTyped
  <1> HIDE DEF c
  <1>7. d \in Texts
    BY <1>1, <1>2, <1>6, WithPairTyped
  <1> HIDE DEF d
  <1>8. d \o close \in Seq(Byte)
    BY <1>2, <1>7, ConcatProperties DEF Texts
  <1> QED BY <1>1, <1>4, <1>8, BuiltAsWritten

\* The claims are those of some issuer, subject and user, and payload and
\* read are empty or what the two functions make of them.
JwtInv ==
    /\ \E iss \in Issuers, sub \in Subjects, uid \in Uids : claims = Claims(iss, sub, uid)
    /\ payload = <<>> \/ payload = Base64UrlEncode(BuildJson(claims))
    /\ read = <<>> \/ read = ParseJson(BuildJson(claims))

\* What is encoded is decoded again.
LEMMA PayloadDecoded ==
    ASSUME JwtInv
    PROVE  /\ Base64UrlEncode(BuildJson(claims)) = Sextets(BuildJson(claims))
           /\ Base64UrlDecode(Base64UrlEncode(BuildJson(claims))) = BuildJson(claims)
  <1> DEFINE t == BuildJson(claims)
  <1>1. t \in Seq(Byte)
    BY TokenTyped DEF JwtInv
  <1> HIDE DEF t
  <1>2. Base64UrlEncode(t) = Sextets(t)
    BY <1>1, EncodesSextets
  <1>3. Base64UrlDecode(Sextets(t)) = t
    BY <1>1, DecodesSextets
  <1> QED BY <1>2, <1>3, Zenon DEF t

\* JwtInv is inductive.
LEMMA JwtInvHolds == JwtInit /\ [][CreateJwt \/ VerifyJwt]_jwtVars => []JwtInv
  <1>1. JwtInit => JwtInv
    BY DEF JwtInit, JwtInv
  <1>2. JwtInv /\ [CreateJwt \/ VerifyJwt]_jwtVars => JwtInv'
    <2> SUFFICES ASSUME JwtInv, [CreateJwt \/ VerifyJwt]_jwtVars PROVE JwtInv'
      OBVIOUS
    <2>1. CASE CreateJwt
      BY <2>1, Zenon DEF CreateJwt, JwtInv
    <2>2. CASE VerifyJwt
      <3>1. claims' = claims /\ payload' = payload /\ read' = ParseJson(Base64UrlDecode(payload)) /\ payload # <<>>
        BY <2>2 DEF VerifyJwt
      <3>2. payload = Base64UrlEncode(BuildJson(claims))
        BY <3>1, Zenon DEF JwtInv
      <3>3. read' = ParseJson(BuildJson(claims))
        BY <3>1, <3>2, PayloadDecoded, Zenon
      <3> QED BY <3>1, <3>3, Zenon DEF JwtInv
    <2>3. CASE UNCHANGED jwtVars
      BY <2>3, Zenon DEF jwtVars, JwtInv
    <2> QED BY <2>1, <2>2, <2>3
  <1> QED BY <1>1, <1>2, PTL

\* The payload of every token is the Base64 form of its claims and decodes to
\* them, for every issuer, subject and user and for ints of twelve bits and
\* more: Base64UrlEncode and Base64UrlDecode never miss the bits that val has
\* lost.
THEOREM PayloadsAreBase64 == JwtInit /\ [][CreateJwt \/ VerifyJwt]_jwtVars => []PayloadIsBase64
  <1>1. JwtInv => PayloadIsBase64
    <2> SUFFICES ASSUME JwtInv, payload # <<>>
                 PROVE  payload = Sextets(BuildJson(claims)) /\ Base64UrlDecode(payload) = BuildJson(claims)
      BY DEF PayloadIsBase64
    <2>1. payload = Base64UrlEncode(BuildJson(claims))
      BY Zenon DEF JwtInv
    <2> QED BY <2>1, PayloadDecoded, Zenon
  <1> QED BY <1>1, JwtInvHolds, PTL

\* VerifyJwt reads the claims that CreateJwt signed, for every plain issuer;
\* and for every other, what it reads is refused by the check of the issuer.
THEOREM ClaimsAlwaysSurvive == JwtInit /\ [][CreateJwt \/ VerifyJwt]_jwtVars => []ClaimsSurvive
  <1>1. JwtInv => ClaimsSurvive
    <2> SUFFICES ASSUME JwtInv, read # <<>>
                 PROVE  /\ (\A i \in DOMAIN claims : Plain(claims[i].value)) => read = Signed
                        /\ (\E sub \in Subjects : Accepted(Signed[<<105>>], sub)) => read = Signed
      BY DEF ClaimsSurvive
    <2>1. PICK iss \in Issuers, sub \in Subjects, uid \in Uids : claims = Claims(iss, sub, uid)
      BY Zenon DEF JwtInv
    <2>2. read = ParseJson(BuildJson(Claims(iss, sub, uid)))
      BY <2>1, Zenon DEF JwtInv
    <2>3. iss \in Texts /\ sub \in Texts /\ uid \in Texts
      BY TextsAssumption, SubjectsRead, UidsRead DEF Texts
    <2>4. \/ Unbreakable(iss) /\ read = AllRead(Reads(iss), sub, uid)
          \/ ~Unbreakable(iss) /\ IssKey \in DOMAIN read /\ read[IssKey] # iss
      BY <2>2, TokenRead
    <2>5. Signed = AllRead(iss, sub, uid)
      BY <2>1, <2>3, SignedAsRead
    <2>6. Signed[IssKey] = iss
      BY <2>5, AllReadIss
    <2>7. ASSUME \A i \in DOMAIN claims : Plain(claims[i].value) PROVE read = Signed
      <3>1. 2 \in DOMAIN claims /\ claims[2].value = iss
        BY <2>1 DEF Claims
      <3>2. Plain(iss)
        BY <2>7, <3>1
      <3>3. Unbreakable(iss) /\ Reads(iss) = iss
        BY <2>3, <3>2, PlainRead
      <3> QED BY <2>4, <2>5, <3>3
    <2>8. ASSUME NEW other \in Subjects, Accepted(Signed[IssKey], other) PROVE read = Signed
      <3>1. IssKey \in DOMAIN read => read[IssKey] = iss
        BY <2>6, <2>8, Zenon DEF Accepted, IssKey
      <3>2. Unbreakable(iss) /\ read = AllRead(Reads(iss), sub, uid)
        BY <2>4, <3>1, Zenon
      <3>3. IssKey \in DOMAIN read /\ read[IssKey] = Reads(iss)
        BY <3>2, AllReadIss
      <3>4. Reads(iss) = iss
        BY <3>1, <3>3, Zenon
      <3> QED BY <2>5, <3>2, <3>4
    <2> QED BY <2>7, <2>8, Zenon DEF IssKey
  <1> QED BY <1>1, JwtInvHolds, PTL
=============================================================================
