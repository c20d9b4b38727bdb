----------------------- MODULE ServerLifecycle_proofs -----------------------
(***************************************************************************)
(* Proofs about a server process.  ServerLifecycle: for any number of      *)
(* signals, delivered to any of the threads, in any number of nested or    *)
(* parallel handlers.                                                      *)
(***************************************************************************)
EXTENDS ServerLifecycle, TLAPS

\* Frames are main and the handlers, and main is no handler.
LEMMA FrameFacts ==
    /\ Main \in Frames /\ Main \notin Handlers /\ Nobody \notin Frames
    /\ \A f \in Frames : f # Main => f \in Handlers /\ f[1] \in Hosts /\ f[2] \in Signals
    /\ \A h \in Hosts, s \in Signals : <<h, s>> \in Handlers /\ <<h, s>> \in Frames
  BY SignalsAssumption, HostsAssumption DEF Frames, Handlers, Main, Nobody

\* What is left of a stack of handlers is one.
LEMMA FrontType ==
    ASSUME NEW S, NEW q \in Seq(S), q # <<>>
    PROVE  Front(q) \in Seq(S)
  BY DEF Front

\* Where a frame stands after one frame's move.
LEMMA Moves ==
    ASSUME at \in [Frames -> Steps], NEW f \in Frames, NEW s \in Steps, Goto(f, s)
    PROVE  /\ at' \in [Frames -> Steps]
           /\ at'[f] = s
           /\ \A g \in Frames : g # f => at'[g] = at[g]
  BY DEF Goto

-----------------------------------------------------------------------------
(* Type correctness.                                                       *)

\* Steps at which a frame holds the mutex of the cleanup task, and that of
\* the registry.
CleanupHeldAt == {"joinCleanup", "endJoin"}
RegistryHeldAt == {"create", "created", "unlock", "deleteNode"}

Positions ==
    /\ at \in [Frames -> Steps]
    /\ stack \in [Hosts -> Seq(Signals)]

Flags ==
    /\ running \in BOOLEAN
    /\ requested \in BOOLEAN
    /\ cleaning \in BOOLEAN
    /\ registry \in BOOLEAN
    /\ registered \in BOOLEAN
    /\ node \in BOOLEAN
    /\ terminated \in BOOLEAN
    /\ heardListening \in BOOLEAN
    /\ late \in BOOLEAN
    /\ zkFailed \in BOOLEAN

Enumerations ==
    /\ grpc \in {"none", "up", "down"}
    /\ monitor \in {"none", "running", "done", "joined"}
    /\ cleanup \in {"none", "running", "done", "joined"}
    /\ deliveries \in 0 .. MaxSignals

CleanupHeld == cleanupMutex \in {f \in Frames : at[f] \in CleanupHeldAt} \cup {Nobody}
RegistryHeld == registryMutex \in {f \in Frames : at[f] \in RegistryHeldAt} \cup {Nobody}

\* The type invariant in parts.
LEMMA TypeParts ==
    TypeOK <=> Positions /\ Flags /\ Enumerations /\ CleanupHeld /\ RegistryHeld
  BY DEF TypeOK, Positions, Flags, Enumerations, CleanupHeld, RegistryHeld,
         CleanupHeldAt, RegistryHeldAt

LEMMA TypePartsNext ==
    TypeOK' <=> Positions' /\ Flags' /\ Enumerations' /\ CleanupHeld' /\ RegistryHeld'
  BY DEF TypeOK, Positions, Flags, Enumerations, CleanupHeld, RegistryHeld,
         CleanupHeldAt, RegistryHeldAt

LEMMA TypeInit == Init => TypeOK
  <1> SUFFICES ASSUME Init PROVE TypeOK
      OBVIOUS
  <1>1. Positions
    <2>1. at \in [Frames -> Steps]
      BY DEF Init, Steps, RunSteps
    <2>2. stack \in [Hosts -> Seq(Signals)]
      BY DEF Init
    <2> QED BY <2>1, <2>2 DEF Positions
  <1>2. Flags
    BY DEF Init, Flags
  <1>3. Enumerations
    BY MaxSignalsAssumption DEF Init, Enumerations
  <1>4. CleanupHeld /\ RegistryHeld
    BY DEF Init, CleanupHeld, RegistryHeld
  <1> QED BY <1>1, <1>2, <1>3, <1>4, TypeParts

\* A frame that moves and does not hold a mutex leaves it as it is.
LEMMA OthersKeepMutexes ==
    ASSUME at \in [Frames -> Steps], NEW f \in Frames, NEW s \in Steps, Goto(f, s)
    PROVE  /\ /\ at[f] \notin CleanupHeldAt \/ s \in CleanupHeldAt
              /\ CleanupHeld /\ UNCHANGED cleanupMutex
              => CleanupHeld'
           /\ /\ at[f] \notin RegistryHeldAt \/ s \in RegistryHeldAt
              /\ RegistryHeld /\ UNCHANGED registryMutex
              => RegistryHeld'
  BY Moves DEF CleanupHeld, RegistryHeld

\* The types of main's steps.
LEMMA MainTypes == TypeOK /\ MainStep => TypeOK'
  <1> SUFFICES ASSUME TypeOK, MainStep PROVE TypeOK'
      OBVIOUS
  <1>0. Positions /\ Flags /\ Enumerations /\ CleanupHeld /\ RegistryHeld
    BY TypeParts
  <1> HIDE DEF TypeOK
  <1>1. PICK s \in Steps : Goto(Main, s)
    BY DEF MainStep, InitInfrastructure, InitServices, InitServiceDiscovery, BuildAndStart,
           Publish, ClearRequest, LockForRegister, CreateNode, MarkRegistered,
           UnlockAfterRegister, SpawnMonitor, WaitForGrpc, JoinMonitor, Stopped,
           DestroyRegistry, MainGoes, Steps, RunSteps, ShutdownSteps, MemberSteps
  <1>2. Positions'
    <2>1. UNCHANGED stack
      BY DEF MainStep, InitInfrastructure, InitServices, InitServiceDiscovery, BuildAndStart,
             Publish, ClearRequest, LockForRegister, CreateNode, MarkRegistered,
             UnlockAfterRegister, SpawnMonitor, WaitForGrpc, JoinMonitor, Stopped,
             DestroyRegistry, MainGoes
    <2> QED BY <1>0, <1>1, <2>1, Moves, FrameFacts DEF Positions
  <1>3. Flags'
    <2> USE DEF Flags, flags, cleanupVars, registryVars, history, MainGoes
    <2>1. CASE InitInfrastructure
      BY <1>0, <2>1 DEF InitInfrastructure
    <2>2. CASE InitServices
      BY <1>0, <2>2 DEF InitServices
    <2>3. CASE InitServiceDiscovery
      BY <1>0, <2>3 DEF InitServiceDiscovery
    <2>4. CASE BuildAndStart
      BY <1>0, <2>4 DEF BuildAndStart
    <2>5. CASE Publish
      BY <1>0, <2>5 DEF Publish
    <2>6. CASE ClearRequest
      BY <1>0, <2>6 DEF ClearRequest
    <2>7. CASE LockForRegister
      BY <1>0, <2>7 DEF LockForRegister
    <2>8. CASE CreateNode
      BY <1>0, <2>8 DEF CreateNode
    <2>9. CASE MarkRegistered
      BY <1>0, <2>9 DEF MarkRegistered
    <2>10. CASE UnlockAfterRegister
      BY <1>0, <2>10 DEF UnlockAfterRegister
    <2>11. CASE SpawnMonitor
      BY <1>0, <2>11 DEF SpawnMonitor
    <2>12. CASE WaitForGrpc
      BY <1>0, <2>12 DEF WaitForGrpc
    <2>13. CASE JoinMonitor
      BY <1>0, <2>13 DEF JoinMonitor
    <2>14. CASE Stopped
      BY <1>0, <2>14 DEF Stopped
    <2>15. CASE DestroyRegistry
      BY <1>0, <2>15 DEF DestroyRegistry
    <2> QED BY <2>1, <2>2, <2>3, <2>4, <2>5, <2>6, <2>7, <2>8, <2>9, <2>10, <2>11, <2>12, <2>13, <2>14, <2>15 DEF MainStep
  <1>4. Enumerations'
    BY <1>0 DEF Enumerations, flags, cleanupVars, registryVars, history,
           MainStep, InitInfrastructure, InitServices, InitServiceDiscovery, BuildAndStart,
           Publish, ClearRequest, LockForRegister, CreateNode, MarkRegistered,
           UnlockAfterRegister, SpawnMonitor, WaitForGrpc, JoinMonitor, Stopped,
           DestroyRegistry, MainGoes
  <1>5. CleanupHeld'
    BY <1>0, <1>1, FrameFacts, OthersKeepMutexes
       DEF Positions, CleanupHeldAt, cleanupVars,
           MainStep, InitInfrastructure, InitServices, InitServiceDiscovery, BuildAndStart,
           Publish, ClearRequest, LockForRegister, CreateNode, MarkRegistered,
           UnlockAfterRegister, SpawnMonitor, WaitForGrpc, JoinMonitor, Stopped,
           DestroyRegistry, MainGoes, Step
  <1>6. RegistryHeld'
    <2>1. CASE LockForRegister
      BY <1>0, <2>1, FrameFacts DEF LockForRegister, MainGoes, Goto, Step, Positions, RegistryHeld, RegistryHeldAt
    <2>2. CASE CreateNode \/ MarkRegistered
      BY <1>0, <2>2, FrameFacts, OthersKeepMutexes
         DEF CreateNode, MarkRegistered, MainGoes, Step, Positions, RegistryHeldAt, Steps, RunSteps
    <2>3. CASE UnlockAfterRegister
      BY <2>3 DEF UnlockAfterRegister, RegistryHeld
    <2>4. CASE ~(LockForRegister \/ CreateNode \/ MarkRegistered \/ UnlockAfterRegister)
      BY <1>0, <1>1, <2>4, FrameFacts, OthersKeepMutexes
         DEF Positions, RegistryHeldAt, registryVars,
             MainStep, InitInfrastructure, InitServices, InitServiceDiscovery, BuildAndStart,
             Publish, ClearRequest, SpawnMonitor, WaitForGrpc, JoinMonitor, Stopped,
             DestroyRegistry, MainGoes, Step
    <2> QED BY <2>1, <2>2, <2>3, <2>4
  <1> QED BY <1>2, <1>3, <1>4, <1>5, <1>6, TypePartsNext

\* The frame that returns from Shutdown was running.
LEMMA ReturnTypes ==
    ASSUME Positions, terminated \in BOOLEAN, NEW f \in Frames, Active(f), Return(f)
    PROVE  /\ stack' \in [Hosts -> Seq(Signals)]
           /\ terminated' \in BOOLEAN
           /\ \E s \in {"endCleanup", "idle"} : Goto(f, s)
  <1>1. CASE f = Main
    BY <1>1 DEF Return, Positions
  <1>2. CASE f # Main
    <2>1. f[1] \in Hosts /\ stack[f[1]] \in Seq(Signals) /\ stack[f[1]] # <<>>
      BY <1>2, FrameFacts DEF Active, Positions
    <2>2. Front(stack[f[1]]) \in Seq(Signals)
      BY <2>1, FrontType
    <2>3. stack' = [stack EXCEPT ![f[1]] = Front(stack[f[1]])]
      BY <1>2 DEF Return
    <2>4. stack' \in [Hosts -> Seq(Signals)]
      BY <2>1, <2>2, <2>3 DEF Positions
    <2> QED BY <1>2, <2>4 DEF Return
  <1> QED BY <1>1, <1>2

\* The types of the steps of Shutdown.
LEMMA ShutdownTypes ==
    ASSUME TypeOK, NEW f \in Frames, ShutdownStep(f)
    PROVE  TypeOK'
  <1>0. Positions /\ Flags /\ Enumerations /\ CleanupHeld /\ RegistryHeld
    BY TypeParts
  <1> USE DEF Step
  <1>1. CASE CheckRunning(f)
    <2> USE <1>1 DEF CheckRunning
    <2>1. /\ stack' \in [Hosts -> Seq(Signals)]
          /\ terminated' \in BOOLEAN
          /\ \E s \in {"endCleanup", "idle", "request"} : Goto(f, s)
      <3>1. CASE running
        BY <1>0, <3>1 DEF Positions, Flags
      <3>2. CASE ~running
        BY <1>0, <3>2, ReturnTypes DEF Flags
      <3> QED BY <3>1, <3>2
    <2>2. PICK s \in Steps : s \in {"endCleanup", "idle", "request"} /\ Goto(f, s)
      BY <2>1 DEF Steps, MemberSteps, ShutdownSteps
    <2>3. Positions'
      BY <1>0, <2>1, <2>2, Moves DEF Positions
    <2>4. Flags'
      BY <1>0, <2>1 DEF Flags, flags, cleanupVars, registryVars, history
    <2>5. Enumerations'
      BY <1>0 DEF Enumerations, flags, cleanupVars, history
    <2>6. CleanupHeld' /\ RegistryHeld'
      BY <1>0, <2>2, OthersKeepMutexes
         DEF Positions, CleanupHeldAt, RegistryHeldAt, cleanupVars, registryVars
    <2> QED BY <2>3, <2>4, <2>5, <2>6, TypePartsNext
  <1>2. CASE ShutdownGrpc(f)
    <2> USE <1>2 DEF ShutdownGrpc
    <2>1. /\ stack' \in [Hosts -> Seq(Signals)]
          /\ terminated' \in BOOLEAN
          /\ \E s \in {"endCleanup", "idle"} : Goto(f, s)
      BY <1>0, ReturnTypes DEF Flags
    <2>2. PICK s \in Steps : s \in {"endCleanup", "idle"} /\ Goto(f, s)
      BY <2>1 DEF Steps, MemberSteps
    <2>3. Positions'
      BY <1>0, <2>1, <2>2, Moves DEF Positions
    <2>4. Flags'
      BY <1>0, <2>1 DEF Flags, cleanupVars, registryVars, history
    <2>5. Enumerations'
      BY <1>0 DEF Enumerations, cleanupVars, history
    <2>6. CleanupHeld' /\ RegistryHeld'
      BY <1>0, <2>2, OthersKeepMutexes
         DEF Positions, CleanupHeldAt, RegistryHeldAt, cleanupVars, registryVars
    <2> QED BY <2>3, <2>4, <2>5, <2>6, TypePartsNext
  <1>3. CASE Request(f)
    <2> USE <1>3 DEF Request
    <2>1. "isRegistered" \in Steps
      BY DEF Steps, ShutdownSteps
    <2>3. Positions'
      BY <1>0, <2>1, Moves DEF Positions
    <2>4. Flags'
      BY <1>0 DEF Flags, cleanupVars, registryVars, history
    <2>5. Enumerations'
      BY <1>0 DEF Enumerations, cleanupVars, history
    <2>6. CleanupHeld' /\ RegistryHeld'
      BY <1>0, <2>1, OthersKeepMutexes
         DEF Positions, CleanupHeldAt, RegistryHeldAt, cleanupVars, registryVars
    <2> QED BY <2>3, <2>4, <2>5, <2>6, TypePartsNext
  <1>4. CASE IsRegistered(f)
    <2> USE <1>4 DEF IsRegistered
    <2>1. PICK s \in Steps : s \in {"lockRegistry", "lockCleanup"} /\ Goto(f, s)
      BY DEF Steps, ShutdownSteps
    <2>3. Positions'
      BY <1>0, <2>1, Moves DEF Positions
    <2>4. Flags'
      BY <1>0 DEF Flags, flags, cleanupVars, registryVars
    <2>5. Enumerations'
      BY <1>0 DEF Enumerations, flags, cleanupVars
    <2>6. CleanupHeld' /\ RegistryHeld'
      BY <1>0, <2>1, OthersKeepMutexes
         DEF Positions, CleanupHeldAt, RegistryHeldAt, cleanupVars, registryVars
    <2> QED BY <2>3, <2>4, <2>5, <2>6, TypePartsNext
  <1>5. CASE LockForUnregister(f)
    <2> USE <1>5 DEF LockForUnregister
    <2>1. PICK s \in Steps : s \in {"deleteNode", "lockCleanup"} /\ Goto(f, s)
      BY DEF Steps, ShutdownSteps
    <2>3. Positions'
      BY <1>0, <2>1, Moves DEF Positions
    <2>4. Flags'
      BY <1>0 DEF Flags, flags, cleanupVars, history
    <2>5. Enumerations'
      BY <1>0 DEF Enumerations, flags, cleanupVars, history
    <2>6. CleanupHeld'
      BY <1>0, <2>1, OthersKeepMutexes DEF Positions, CleanupHeldAt, cleanupVars
    <2>7. RegistryHeld'
      BY <1>0 DEF Positions, RegistryHeld, RegistryHeldAt, Goto
    <2> QED BY <2>3, <2>4, <2>5, <2>6, <2>7, TypePartsNext
  <1>6. CASE DeleteNode(f)
    <2> USE <1>6 DEF DeleteNode
    <2>1. "lockCleanup" \in Steps
      BY DEF Steps, ShutdownSteps
    <2>3. Positions'
      BY <1>0, <2>1, Moves DEF Positions
    <2>4. Flags'
      BY <1>0 DEF Flags, flags, cleanupVars
    <2>5. Enumerations'
      BY <1>0 DEF Enumerations, flags, cleanupVars
    <2>6. CleanupHeld'
      BY <1>0, <2>1, OthersKeepMutexes DEF Positions, CleanupHeldAt, cleanupVars
    <2>7. RegistryHeld'
      BY DEF RegistryHeld
    <2> QED BY <2>3, <2>4, <2>5, <2>6, <2>7, TypePartsNext
  <1>7. CASE StopCleanup(f)
    <2> USE <1>7 DEF StopCleanup
    <2>1. PICK s \in Steps : s \in CleanupHeldAt /\ Goto(f, s)
      BY DEF Steps, ShutdownSteps, MemberSteps, CleanupHeldAt
    <2>3. Positions'
      BY <1>0, <2>1, Moves DEF Positions
    <2>4. Flags'
      BY <1>0 DEF Flags, flags, registryVars, history
    <2>5. Enumerations'
      BY <1>0 DEF Enumerations, flags, history
    <2>6. CleanupHeld'
      BY <1>0, <2>1, Moves DEF Positions, CleanupHeld
    <2>7. RegistryHeld'
      BY <1>0, <2>1, OthersKeepMutexes DEF Positions, RegistryHeldAt, registryVars
    <2> QED BY <2>3, <2>4, <2>5, <2>6, <2>7, TypePartsNext
  <1>8. CASE JoinCleanup(f)
    <2> USE <1>8 DEF JoinCleanup
    <2>1. PICK s \in Steps : Goto(f, s)
      BY DEF Steps, ShutdownSteps, MemberSteps
    <2>3. Positions'
      BY <1>0, <2>1, Moves DEF Positions
    <2>4. Flags'
      BY <1>0 DEF Flags, flags, registryVars, history
    <2>5. Enumerations'
      BY <1>0 DEF Enumerations, flags, history
    <2>6. CleanupHeld'
      BY DEF CleanupHeld
    <2>7. RegistryHeld'
      BY <1>0, <2>1, OthersKeepMutexes DEF Positions, RegistryHeldAt, registryVars
    <2> QED BY <2>3, <2>4, <2>5, <2>6, <2>7, TypePartsNext
  <1>9. CASE JoinSelf(f)
    <2> USE <1>9 DEF JoinSelf
    <2>3. Positions'
      BY <1>0 DEF Positions
    <2>4. Flags'
      BY <1>0 DEF Flags, flags, cleanupVars, registryVars, history
    <2>5. Enumerations'
      BY <1>0 DEF Enumerations, flags, cleanupVars, history
    <2>6. CleanupHeld' /\ RegistryHeld'
      BY <1>0 DEF CleanupHeld, RegistryHeld, cleanupVars, registryVars
    <2> QED BY <2>3, <2>4, <2>5, <2>6, TypePartsNext
  <1> QED BY <1>1, <1>2, <1>3, <1>4, <1>5, <1>6, <1>7, <1>8, <1>9 DEF ShutdownStep

\* The types of the threads' steps, of a delivery and of a stutter.
LEMMA OtherTypes ==
    ASSUME TypeOK, \/ MonitorEnds \/ CleanupEnds \/ UNCHANGED vars
                   \/ \E h \in Hosts, s \in Signals : Deliver(h, s)
    PROVE  TypeOK'
  <1>0. Positions /\ Flags /\ Enumerations /\ CleanupHeld /\ RegistryHeld
    BY TypeParts
  <1>1. CASE MonitorEnds \/ CleanupEnds \/ UNCHANGED vars
    <2> USE <1>0, <1>1 DEF MonitorEnds, CleanupEnds, vars, flags, cleanupVars, registryVars, history
    <2>1. Positions'
      BY DEF Positions
    <2>2. Flags'
      <3>1. CASE MonitorEnds
        BY <3>1 DEF Flags
      <3>2. CASE CleanupEnds
        BY <3>2 DEF Flags
      <3>3. CASE UNCHANGED vars
        BY <3>3 DEF Flags
      <3> QED BY <3>1, <3>2, <3>3
    <2>3. Enumerations'
      BY DEF Enumerations
    <2>4. CleanupHeld' /\ RegistryHeld'
      BY DEF CleanupHeld, RegistryHeld
    <2> QED BY <2>1, <2>2, <2>3, <2>4, TypePartsNext
  <1>2. CASE \E h \in Hosts, s \in Signals : Deliver(h, s)
    <2> PICK h \in Hosts, s \in Signals : Deliver(h, s)
      BY <1>2
    <2> USE DEF Deliver
    <2>1. <<h, s>> \in Frames /\ "check" \in Steps
      BY FrameFacts DEF Steps, ShutdownSteps
    <2>2. Positions'
      <3>1. at' \in [Frames -> Steps]
        BY <1>0, <2>1, Moves DEF Positions
      <3>2. Append(stack[h], s) \in Seq(Signals)
        BY <1>0 DEF Positions
      <3>3. stack' = [stack EXCEPT ![h] = Append(stack[h], s)]
        OBVIOUS
      <3>4. stack' \in [Hosts -> Seq(Signals)]
        BY <1>0, <3>2, <3>3 DEF Positions
      <3> QED BY <3>1, <3>4 DEF Positions
    <2>3. Flags'
      BY <1>0 DEF Flags, flags, cleanupVars, registryVars
    <2>4. Enumerations'
      BY <1>0, MaxSignalsAssumption DEF Enumerations, flags, cleanupVars
    <2>5. CleanupHeld' /\ RegistryHeld'
      BY <1>0, <2>1, OthersKeepMutexes
         DEF Positions, CleanupHeldAt, RegistryHeldAt, cleanupVars, registryVars
    <2> QED BY <2>2, <2>3, <2>4, <2>5, TypePartsNext
  <1> QED BY <1>1, <1>2

\* Every variable keeps its type, and a mutex is held only at the steps
\* between its lock and its unlock.
THEOREM ServerTypeCorrect == Spec => []TypeOK
  <1>1. TypeOK /\ [Next]_vars => TypeOK'
    BY MainTypes, ShutdownTypes, OtherTypes DEF Next
  <1> QED BY <1>1, TypeInit, PTL DEF Spec

-----------------------------------------------------------------------------
(* The node is gone before a Shutdown goes on.                             *)

\* Steps of main before registered_ may be set.
Unregistered == {"infrastructure", "services", "discovery", "start", "publish",
                 "clear", "register", "create", "created"}
\* Steps of Shutdown after it has found registered_ set.
Unregistering == {"lockRegistry", "deleteNode"}
\* Steps of Shutdown after Unregister.
PastUnregister == {"lockCleanup", "joinCleanup", "shutdownGrpc"}

\* While main has not registered, nobody unregisters; a node without
\* registered_ is one that Register has just created or that a failed
\* command left; whoever is past Unregister before main has registered
\* skipped it, which late records.
NodeInv ==
    /\ at[Main] \in Unregistered => ~registered
    /\ \A f \in Frames : at[f] \in Unregistering => at[Main] \notin Unregistered
    /\ node => registered \/ at[Main] = "created" \/ zkFailed
    /\ \A f \in Frames : at[f] \in PastUnregister =>
           /\ at[Main] \in Unregistered => late
           /\ ~node \/ late \/ zkFailed

\* A step that leaves the node and the flags alone and does not go past
\* Unregister.
LEMMA NodeQuiet ==
    ASSUME NodeInv, Positions, NEW f \in Frames, NEW s \in Steps, Goto(f, s),
           UNCHANGED <<registered, node, late, zkFailed>>,
           s \notin Unregistering, s \in PastUnregister => at[f] \in PastUnregister,
           f = Main => at[f] # "created" /\ (s \in Unregistered => at[f] \in Unregistered)
    PROVE  NodeInv'
  <1>1. /\ at'[f] = s
        /\ \A g \in Frames : g # f => at'[g] = at[g]
    BY Moves DEF Positions
  <1>2. /\ at'[Main] \in Unregistered => at[Main] \in Unregistered
        /\ at[Main] = "created" => at'[Main] = "created"
        /\ Main \in Frames
    BY <1>1, FrameFacts
  <1>3. \A g \in Frames : at'[g] \in Unregistering => at[g] \in Unregistering
    BY <1>1
  <1>4. \A g \in Frames : at'[g] \in PastUnregister => at[g] \in PastUnregister
    BY <1>1
  <1> QED BY <1>2, <1>3, <1>4 DEF NodeInv

\* Main's steps keep it.
LEMMA NodeMain == TypeOK /\ NodeInv /\ MainStep => NodeInv'
  <1> SUFFICES ASSUME TypeOK, NodeInv, MainStep PROVE NodeInv'
      OBVIOUS
  <1>0. Positions /\ Main \in Frames
    BY TypeParts, FrameFacts
  <1>1. CASE CreateNode
    <2> USE <1>1 DEF CreateNode, MainGoes, Step
    <2>1. PICK s \in Steps : s \in {"created", "unlock"} /\ Goto(Main, s)
      BY DEF Steps, RunSteps
    <2>2. at[Main] = "create" /\ at'[Main] = s /\ \A g \in Frames : g # Main => at'[g] = at[g]
      BY <1>0, <2>1, Moves DEF Positions
    <2>3. at[Main] \in Unregistered /\ ~registered
      BY <2>2 DEF Unregistered, NodeInv
    <2>4. /\ \A g \in Frames : at'[g] \notin Unregistering
          /\ \A g \in Frames : at'[g] \in PastUnregister => late
      BY <2>1, <2>2, <2>3 DEF NodeInv, Unregistering, PastUnregister
    <2>5. ~registered' /\ (node' => at'[Main] = "created" \/ zkFailed') /\ (late => late')
      BY <1>0, <2>2, <2>3 DEF Goto, Positions
    <2> QED BY <2>3, <2>4, <2>5 DEF NodeInv
  <1>2. CASE MarkRegistered
    <2> USE <1>2 DEF MarkRegistered, MainGoes, Step
    <2>1. "unlock" \in Steps
      BY DEF Steps, RunSteps
    <2>2. at[Main] = "created" /\ at'[Main] = "unlock" /\ \A g \in Frames : g # Main => at'[g] = at[g]
      BY <1>0, <2>1, Moves DEF Positions
    <2>3. at[Main] \in Unregistered /\ at'[Main] \notin Unregistered
      BY <2>2 DEF Unregistered
    <2>4. \A g \in Frames : at'[g] \in PastUnregister => late
      BY <2>2, <2>3 DEF NodeInv, PastUnregister
    <2>5. registered' /\ (late => late')
      BY DEF history
    <2> QED BY <2>3, <2>4, <2>5 DEF NodeInv
  <1>3. CASE DestroyRegistry
    <2> USE <1>3 DEF DestroyRegistry, Step
    <2>1. "exited" \in Steps
      BY DEF Steps
    <2>2. at'[Main] = "exited" /\ \A g \in Frames : g # Main => at'[g] = at[g]
      BY <1>0, <2>1, Moves DEF Positions
    <2>3. at'[Main] \notin Unregistered
      BY <2>2 DEF Unregistered
    <2>4. ~node'
      OBVIOUS
    <2> QED BY <2>3, <2>4 DEF NodeInv
  <1>4. CASE ~(CreateNode \/ MarkRegistered \/ DestroyRegistry)
    <2>1. PICK s \in Steps :
            /\ Goto(Main, s)
            /\ s \notin Unregistering /\ s \notin PastUnregister
            /\ at[Main] # "created"
            /\ s \in Unregistered => at[Main] \in Unregistered
      BY <1>4 DEF MainStep, InitInfrastructure, InitServices, InitServiceDiscovery, BuildAndStart,
           Publish, ClearRequest, LockForRegister, UnlockAfterRegister, SpawnMonitor,
           WaitForGrpc, JoinMonitor, Stopped, MainGoes, Step,
           Steps, RunSteps, ShutdownSteps, Unregistering, PastUnregister, Unregistered
    <2>2. UNCHANGED <<registered, node, late, zkFailed>>
      BY <1>4 DEF MainStep, InitInfrastructure, InitServices, InitServiceDiscovery, BuildAndStart,
           Publish, ClearRequest, LockForRegister, UnlockAfterRegister, SpawnMonitor,
           WaitForGrpc, JoinMonitor, Stopped, registryVars, history
    <2> QED BY <1>0, <2>1, <2>2, NodeQuiet
  <1> QED BY <1>1, <1>2, <1>3, <1>4

\* So do the steps of Shutdown, in main and in handlers.
LEMMA NodeShutdown ==
    ASSUME TypeOK, NodeInv, NEW f \in Frames, ShutdownStep(f)
    PROVE  NodeInv'
  <1>0. Positions /\ Main \in Frames /\ terminated \in BOOLEAN
    BY TypeParts, FrameFacts DEF Flags
  <1>1. CASE IsRegistered(f)
    <2> USE <1>1 DEF IsRegistered, Step
    <2>1. PICK s \in Steps : s \in {"lockRegistry", "lockCleanup"} /\ Goto(f, s)
                            /\ (s = "lockCleanup" <=> ~registered)
      BY DEF Steps, ShutdownSteps
    <2>2. at'[f] = s /\ at[f] = "isRegistered" /\ \A g \in Frames : g # f => at'[g] = at[g]
      BY <1>0, <2>1, Moves DEF Positions
    <2>3. /\ at'[Main] \in Unregistered => at[Main] \in Unregistered /\ f # Main
          /\ at[Main] = "created" => at'[Main] = "created"
      BY <1>0, <2>1, <2>2 DEF Unregistered
    <2>4. /\ late => late'
          /\ ~registered /\ at[Main] \in Unregistered => late'
          /\ (registered' <=> registered) /\ (node' <=> node) /\ (zkFailed' <=> zkFailed)
      BY DEF Unregistered, RunSteps, registryVars
    <2>5. ASSUME NEW g \in Frames, at'[g] \in Unregistering PROVE at'[Main] \notin Unregistered
      <3>1. CASE g = f
        BY <2>1, <2>2, <2>3, <2>5, <3>1 DEF NodeInv, Unregistering
      <3>2. CASE g # f
        BY <2>2, <2>3, <2>5, <3>2 DEF NodeInv
      <3> QED BY <3>1, <3>2
    <2>6. ASSUME NEW g \in Frames, at'[g] \in PastUnregister
          PROVE  (at'[Main] \in Unregistered => late') /\ (~node' \/ late' \/ zkFailed')
      <3>1. CASE g = f
        <4>1. ~registered
          BY <2>1, <2>2, <2>6, <3>1 DEF PastUnregister
        <4>2. node => at[Main] \in Unregistered \/ zkFailed
          BY <4>1 DEF NodeInv, Unregistered
        <4> QED BY <2>3, <2>4, <4>1, <4>2
      <3>2. CASE g # f
        BY <2>2, <2>3, <2>4, <2>6, <3>2 DEF NodeInv
      <3> QED BY <3>1, <3>2
    <2> QED BY <2>3, <2>4, <2>5, <2>6 DEF NodeInv
  <1>2. CASE LockForUnregister(f)
    <2> USE <1>2 DEF LockForUnregister, Step
    <2>1. PICK s \in Steps : s \in {"deleteNode", "lockCleanup"} /\ Goto(f, s)
                            /\ (s = "lockCleanup" <=> ~registered)
      BY DEF Steps, ShutdownSteps
    <2>2. at'[f] = s /\ at[f] = "lockRegistry" /\ \A g \in Frames : g # f => at'[g] = at[g]
      BY <1>0, <2>1, Moves DEF Positions
    <2>3. at[Main] \notin Unregistered /\ at'[Main] \notin Unregistered
      BY <1>0, <2>1, <2>2 DEF Unregistered, NodeInv, Unregistering
    <2>4. /\ (registered' <=> registered) /\ (node' <=> node)
          /\ (zkFailed' <=> zkFailed) /\ (late' <=> late)
      BY DEF history
    <2>5. node => registered \/ zkFailed
      BY <2>3 DEF NodeInv, Unregistered
    <2>6. ASSUME NEW g \in Frames, at'[g] \in PastUnregister PROVE ~node' \/ late' \/ zkFailed'
      <3>1. CASE g = f
        BY <2>1, <2>2, <2>4, <2>5, <2>6, <3>1 DEF PastUnregister
      <3>2. CASE g # f
        BY <2>2, <2>4, <2>6, <3>2 DEF NodeInv
      <3> QED BY <3>1, <3>2
    <2> QED BY <2>3, <2>4, <2>5, <2>6 DEF NodeInv
  <1>3. CASE DeleteNode(f)
    <2> USE <1>3 DEF DeleteNode, Step
    <2>1. "lockCleanup" \in Steps
      BY DEF Steps, ShutdownSteps
    <2>2. at'[f] = "lockCleanup" /\ at[f] = "deleteNode" /\ \A g \in Frames : g # f => at'[g] = at[g]
      BY <1>0, <2>1, Moves DEF Positions
    <2>3. at'[Main] \notin Unregistered
      BY <1>0, <2>2 DEF Unregistered, NodeInv, Unregistering
    <2>4. ~node' \/ zkFailed'
      OBVIOUS
    <2> QED BY <2>3, <2>4 DEF NodeInv
  <1>4. CASE CheckRunning(f) \/ ShutdownGrpc(f)
    <2>1. \E s \in {"endCleanup", "idle", "request"} : Goto(f, s)
      BY <1>0, <1>4, ReturnTypes DEF CheckRunning, ShutdownGrpc, Step
    <2>2. PICK s \in Steps : s \in {"endCleanup", "idle", "request"} /\ Goto(f, s)
      BY <2>1 DEF Steps, MemberSteps, ShutdownSteps
    <2>3. at[f] # "created" /\ UNCHANGED <<registered, node, late, zkFailed>>
      BY <1>4 DEF CheckRunning, ShutdownGrpc, Step, registryVars, history
    <2>4. s \notin Unregistering /\ s \notin PastUnregister /\ s \notin Unregistered
      BY <2>2 DEF Unregistering, PastUnregister, Unregistered
    <2> QED BY <1>0, <2>2, <2>3, <2>4, NodeQuiet
  <1>5. CASE Request(f) \/ StopCleanup(f) \/ JoinCleanup(f)
    <2>1. PICK s \in Steps : s \in {"isRegistered", "joinCleanup", "endJoin", "shutdownGrpc", "endRegistry"}
                            /\ Goto(f, s) /\ (s \in PastUnregister => at[f] \in PastUnregister)
      BY <1>5 DEF Request, StopCleanup, JoinCleanup, Step, Steps, ShutdownSteps, MemberSteps, PastUnregister
    <2>2. at[f] # "created" /\ UNCHANGED <<registered, node, late, zkFailed>>
      BY <1>5 DEF Request, StopCleanup, JoinCleanup, Step, registryVars, history
    <2>3. s \notin Unregistering /\ s \notin Unregistered
      BY <2>1 DEF Unregistering, Unregistered
    <2> QED BY <1>0, <2>1, <2>2, <2>3, NodeQuiet
  <1>6. CASE JoinSelf(f)
    BY <1>6 DEF JoinSelf, NodeInv, registryVars, history
  <1> QED BY <1>1, <1>2, <1>3, <1>4, <1>5, <1>6 DEF ShutdownStep

\* Whoever is past the Unregister of Shutdown finds the node gone, unless
\* ZooKeeper failed or Register was not done: registered_, which Shutdown
\* reads without the mutex, is reset only after the delete.
THEOREM NodeGoneBeforeCleanup == Spec => []NodeGoneFirst
  <1>1. Init => NodeInv
    <2> SUFFICES ASSUME Init PROVE NodeInv
        OBVIOUS
    <2>1. ~registered /\ ~node
      BY DEF Init
    <2>2. \A f \in Frames : at[f] \in {"infrastructure", "idle"}
      BY DEF Init
    <2>3. \A f \in Frames : at[f] \notin Unregistering /\ at[f] \notin PastUnregister
      BY <2>2 DEF Unregistering, PastUnregister
    <2> QED BY <2>1, <2>3 DEF NodeInv
  <1>2. TypeOK /\ NodeInv /\ [Next]_vars => NodeInv'
    <2> SUFFICES ASSUME TypeOK, NodeInv, [Next]_vars PROVE NodeInv'
        OBVIOUS
    <2>1. CASE MainStep
      BY <2>1, NodeMain
    <2>2. CASE \E f \in Frames : ShutdownStep(f)
      BY <2>2, NodeShutdown
    <2>3. CASE MonitorEnds \/ CleanupEnds \/ UNCHANGED vars
      BY <2>3 DEF NodeInv, MonitorEnds, CleanupEnds, vars, registryVars, history
    <2>4. CASE \E h \in Hosts, s \in Signals : Deliver(h, s)
      <3> PICK h \in Hosts, s \in Signals : Deliver(h, s)
        BY <2>4
      <3>1. <<h, s>> \in Frames /\ <<h, s>> # Main /\ Positions
        BY FrameFacts, TypeParts
      <3>2. Goto(<<h, s>>, "check") /\ UNCHANGED <<registered, node, late, zkFailed>>
        BY DEF Deliver, registryVars
      <3>3. "check" \in Steps /\ "check" \notin Unregistering /\ "check" \notin PastUnregister
        BY DEF Steps, ShutdownSteps, Unregistering, PastUnregister
      <3> QED BY <3>1, <3>2, <3>3, NodeQuiet
    <2> QED BY <2>1, <2>2, <2>3, <2>4 DEF Next
  <1>3. NodeInv => NodeGoneFirst
    BY DEF NodeInv, NodeGoneFirst, PastUnregister
  <1> QED BY <1>1, <1>2, <1>3, ServerTypeCorrect, PTL DEF Spec

-----------------------------------------------------------------------------
(* The threads have ended before what they use is destroyed.               *)

\* Steps of main before the cleanup thread is started.
BeforeThreads == {"infrastructure", "services"}
\* Steps that are reached only after the cleanup thread was joined.
AfterJoin == {"shutdownGrpc", "endRegistry", "exited"}

\* Before InitServices has started the cleanup thread no Shutdown can get
\* beyond its first test, as running_ is not set; a Shutdown that would,
\* could be past the join of a thread that is started afterwards.  The
\* monitor thread is joinable only while main is in Wait.
ThreadInv ==
    /\ at[Main] \in BeforeThreads => ~running /\ \A f \in Handlers : at[f] \in {"idle", "check"}
    /\ \A f \in Frames : at[f] \in AfterJoin => cleanup \in {"none", "joined"}
    /\ monitor \in {"running", "done"} => at[Main] \in {"wait", "joinMonitor"}

\* Main's steps keep it.
LEMMA ThreadMain == TypeOK /\ ThreadInv /\ MainStep => ThreadInv'
  <1> SUFFICES ASSUME TypeOK, ThreadInv, MainStep PROVE ThreadInv'
      OBVIOUS
  <1>0. Positions /\ Main \in Frames /\ Handlers \subseteq Frames /\ Main \notin Handlers
    BY TypeParts, FrameFacts DEF Frames
  <1>1. PICK s \in Steps :
          /\ Goto(Main, s)
          /\ s \in BeforeThreads => s = "services" /\ InitInfrastructure
          /\ s \in AfterJoin => s = "exited" /\ DestroyRegistry
    BY DEF MainStep, InitInfrastructure, InitServices, InitServiceDiscovery, BuildAndStart,
           Publish, ClearRequest, LockForRegister, CreateNode, MarkRegistered,
           UnlockAfterRegister, SpawnMonitor, WaitForGrpc, JoinMonitor, Stopped,
           DestroyRegistry, MainGoes, Steps, RunSteps, ShutdownSteps, MemberSteps,
           BeforeThreads, AfterJoin
  <1>2. at'[Main] = s /\ \A g \in Frames : g # Main => at'[g] = at[g]
    BY <1>0, <1>1, Moves DEF Positions
  <1>3. at'[Main] \in BeforeThreads => ~running' /\ \A f \in Handlers : at'[f] \in {"idle", "check"}
    <2> SUFFICES ASSUME at'[Main] \in BeforeThreads
                 PROVE  ~running' /\ \A f \in Handlers : at'[f] \in {"idle", "check"}
        OBVIOUS
    <2>1. InitInfrastructure /\ at[Main] = "infrastructure" /\ (running' <=> running)
      BY <1>1, <1>2 DEF InitInfrastructure, MainGoes, Step, flags
    <2>2. ~running /\ \A f \in Handlers : at[f] \in {"idle", "check"}
      BY <2>1 DEF ThreadInv, BeforeThreads
    <2> QED BY <1>0, <1>2, <2>1, <2>2
  <1>4. \A f \in Frames : at'[f] \in AfterJoin => cleanup' \in {"none", "joined"}
    <2>1. CASE InitServices
      <3>1. at[Main] = "services" /\ s \in {"discovery", "check"}
        BY <1>0, <1>2, <2>1 DEF InitServices, MainGoes, Step, Goto, Positions
      <3>2. \A f \in Frames : at'[f] \in {"idle", "check", "discovery"}
        BY <1>0, <1>2, <3>1, FrameFacts DEF ThreadInv, BeforeThreads
      <3> QED BY <3>2 DEF AfterJoin
    <2>2. CASE ~InitServices
      <3>1. cleanup' = cleanup
        BY <2>2 DEF MainStep, InitInfrastructure, InitServiceDiscovery, BuildAndStart,
             Publish, ClearRequest, LockForRegister, CreateNode, MarkRegistered,
             UnlockAfterRegister, SpawnMonitor, WaitForGrpc, JoinMonitor, Stopped,
             DestroyRegistry, cleanupVars
      <3>2. s \in AfterJoin => at[Main] \in AfterJoin
        BY <1>1 DEF DestroyRegistry, Step, AfterJoin
      <3> QED BY <1>0, <1>2, <3>1, <3>2 DEF ThreadInv
    <2> QED BY <2>1, <2>2
  <1>5. monitor' \in {"running", "done"} => at'[Main] \in {"wait", "joinMonitor"}
    <2>1. CASE SpawnMonitor
      BY <1>0, <1>2, <2>1 DEF SpawnMonitor, MainGoes, Step, Goto, ThreadInv, Positions
    <2>2. CASE WaitForGrpc
      BY <1>0, <2>2 DEF WaitForGrpc, MainGoes, Goto, Positions
    <2>3. CASE JoinMonitor
      BY <2>3 DEF JoinMonitor
    <2>4. CASE ~(SpawnMonitor \/ WaitForGrpc \/ JoinMonitor)
      <3>1. monitor' = monitor /\ at[Main] \notin {"wait", "joinMonitor"}
        BY <2>4 DEF MainStep, InitInfrastructure, InitServices, InitServiceDiscovery, BuildAndStart,
             Publish, ClearRequest, LockForRegister, CreateNode, MarkRegistered,
             UnlockAfterRegister, Stopped, DestroyRegistry, MainGoes, Step
      <3> QED BY <3>1 DEF ThreadInv
    <2> QED BY <2>1, <2>2, <2>3, <2>4
  <1> QED BY <1>3, <1>4, <1>5 DEF ThreadInv

\* So do the steps of Shutdown: main is in one of them only once it has left
\* Wait or never got there.
LEMMA ThreadShutdown ==
    ASSUME TypeOK, ThreadInv, NEW f \in Frames, ShutdownStep(f)
    PROVE  ThreadInv'
  <1>0. /\ Positions /\ Main \in Frames /\ Handlers \subseteq Frames /\ Main \notin Handlers
        /\ terminated \in BOOLEAN
    BY TypeParts, FrameFacts DEF Flags, Frames
  <1>1. CASE JoinSelf(f)
    BY <1>1 DEF JoinSelf, ThreadInv, flags, cleanupVars
  <1>2. CASE ~JoinSelf(f)
    <2>1. PICK s \in Steps :
            /\ Goto(f, s)
            /\ s \notin BeforeThreads
            /\ s \in AfterJoin => JoinCleanup(f)
      <3>1. CASE CheckRunning(f) \/ ShutdownGrpc(f)
        <4>1. \E s \in {"endCleanup", "idle", "request"} : Goto(f, s)
          BY <1>0, <3>1, ReturnTypes DEF CheckRunning, ShutdownGrpc, Step
        <4> QED BY <4>1 DEF Steps, ShutdownSteps, MemberSteps, BeforeThreads, AfterJoin
      <3>2. CASE \/ Request(f) \/ IsRegistered(f) \/ LockForUnregister(f) \/ DeleteNode(f)
                 \/ StopCleanup(f)
        <4>1. \E s \in {"isRegistered", "lockRegistry", "deleteNode", "lockCleanup",
                        "joinCleanup", "endJoin"} : Goto(f, s)
          BY <3>2 DEF Request, IsRegistered, LockForUnregister, DeleteNode, StopCleanup
        <4> QED BY <4>1 DEF Steps, ShutdownSteps, MemberSteps, BeforeThreads, AfterJoin
      <3>3. CASE JoinCleanup(f)
        <4>1. \E s \in {"shutdownGrpc", "endRegistry"} : Goto(f, s)
          BY <3>3 DEF JoinCleanup
        <4> QED BY <3>3, <4>1 DEF Steps, ShutdownSteps, MemberSteps, BeforeThreads
      <3> QED BY <1>2, <3>1, <3>2, <3>3 DEF ShutdownStep
    <2>2. at'[f] = s /\ \A g \in Frames : g # f => at'[g] = at[g]
      BY <1>0, <2>1, Moves DEF Positions
    <2>3. at[f] \in ShutdownSteps \cup MemberSteps
      BY <1>2 DEF ShutdownStep, CheckRunning, Request, IsRegistered, LockForUnregister, DeleteNode,
             StopCleanup, JoinCleanup, ShutdownGrpc, Step, ShutdownSteps, MemberSteps
    <2>4. UNCHANGED running /\ monitor' = monitor
      BY <1>2 DEF ShutdownStep, CheckRunning, Request, IsRegistered, LockForUnregister, DeleteNode,
             StopCleanup, JoinCleanup, ShutdownGrpc, flags
    <2>5. at'[Main] \in BeforeThreads => ~running' /\ \A g \in Handlers : at'[g] \in {"idle", "check"}
      <3> SUFFICES ASSUME at'[Main] \in BeforeThreads
                   PROVE  ~running' /\ \A g \in Handlers : at'[g] \in {"idle", "check"}
          OBVIOUS
      <3>1. f # Main /\ at[Main] \in BeforeThreads
        BY <1>0, <2>1, <2>2
      <3>2. ~running /\ \A g \in Handlers : at[g] \in {"idle", "check"}
        BY <3>1 DEF ThreadInv
      <3>3. f \in Handlers /\ at[f] \in {"idle", "check"}
        BY <3>1, <3>2, FrameFacts
      <3>4. CheckRunning(f)
        BY <1>2, <3>3 DEF ShutdownStep, Request, IsRegistered, LockForUnregister, DeleteNode,
               StopCleanup, JoinCleanup, ShutdownGrpc, Step
      <3>5. Goto(f, "idle")
        BY <3>1, <3>2, <3>4 DEF CheckRunning, Return
      <3>6. "idle" \in Steps
        BY DEF Steps
      <3>7. at'[f] = "idle"
        BY <1>0, <3>5, <3>6, Moves DEF Positions
      <3> QED BY <1>0, <2>2, <2>4, <3>2, <3>7
    <2>6. \A g \in Frames : at'[g] \in AfterJoin => cleanup' \in {"none", "joined"}
      <3>1. CASE JoinCleanup(f)
        <4>1. cleanup \in {"none", "running", "done", "joined"}
          BY TypeParts DEF Enumerations
        <4> QED BY <3>1, <4>1 DEF JoinCleanup
      <3>2. CASE ~JoinCleanup(f)
        <4>1. cleanup' = cleanup
          BY <1>2, <3>2 DEF ShutdownStep, CheckRunning, Request, IsRegistered, LockForUnregister,
                 DeleteNode, StopCleanup, ShutdownGrpc, cleanupVars
        <4> QED BY <2>1, <2>2, <3>2, <4>1 DEF ThreadInv
      <3> QED BY <3>1, <3>2
    <2>7. monitor' \in {"running", "done"} => at'[Main] \in {"wait", "joinMonitor"}
      <3> SUFFICES ASSUME monitor' \in {"running", "done"} PROVE at'[Main] \in {"wait", "joinMonitor"}
          OBVIOUS
      <3>1. at[Main] \in {"wait", "joinMonitor"}
        BY <2>4 DEF ThreadInv
      <3>2. f # Main
        BY <2>3, <3>1 DEF ShutdownSteps, MemberSteps
      <3> QED BY <1>0, <2>2, <3>1, <3>2
    <2> QED BY <2>5, <2>6, <2>7 DEF ThreadInv
  <1> QED BY <1>1, <1>2

\* Every step keeps the order in which threads are started and joined.
LEMMA ThreadsKept == Spec => []ThreadInv
  <1>1. Init => ThreadInv
    <2> SUFFICES ASSUME Init PROVE ThreadInv
        OBVIOUS
    <2>1. ~running /\ cleanup = "none" /\ monitor = "none"
      BY DEF Init
    <2>2. \A f \in Handlers : at[f] = "idle"
      BY FrameFacts DEF Init, Frames
    <2> QED BY <2>1, <2>2 DEF ThreadInv
  <1>2. TypeOK /\ ThreadInv /\ [Next]_vars => ThreadInv'
    <2> SUFFICES ASSUME TypeOK, ThreadInv, [Next]_vars PROVE ThreadInv'
        OBVIOUS
    <2>1. CASE MainStep
      BY <2>1, ThreadMain
    <2>2. CASE \E f \in Frames : ShutdownStep(f)
      BY <2>2, ThreadShutdown
    <2>3. CASE MonitorEnds \/ CleanupEnds \/ UNCHANGED vars
      BY <2>3 DEF ThreadInv, MonitorEnds, CleanupEnds, vars, flags, cleanupVars
    <2>4. CASE \E h \in Hosts, s \in Signals : Deliver(h, s)
      <3> PICK h \in Hosts, s \in Signals : Deliver(h, s)
        BY <2>4
      <3>1. <<h, s>> \in Frames /\ <<h, s>> # Main /\ Main \in Frames /\ Positions /\ "check" \in Steps
        BY FrameFacts, TypeParts DEF Steps, ShutdownSteps
      <3>2. /\ at'[<<h, s>>] = "check"
            /\ \A g \in Frames : g # <<h, s>> => at'[g] = at[g]
        BY <3>1, Moves DEF Deliver, Positions
      <3>3. (running' <=> running) /\ cleanup' = cleanup /\ monitor' = monitor
        BY DEF Deliver, flags, cleanupVars
      <3> QED BY <3>1, <3>2, <3>3, FrameFacts DEF ThreadInv, AfterJoin, Frames
    <2> QED BY <2>1, <2>2, <2>3, <2>4 DEF Next
  <1> QED BY <1>1, <1>2, ServerTypeCorrect, PTL DEF Spec

\* When the registry and the members before it are destroyed, and when a
\* Shutdown goes on to stop gRPC, the cleanup thread has been joined; the
\* monitor thread has before any member is destroyed, so that main's own
\* destructors never end the process by std::terminate.
THEOREM ThreadsJoinedBeforeMembers == Spec => []ThreadsEndFirst
  <1>1. TypeOK /\ ThreadInv => ThreadsEndFirst
    <2> SUFFICES ASSUME TypeOK, ThreadInv PROVE ThreadsEndFirst
        OBVIOUS
    <2>1. monitor \in {"none", "running", "done", "joined"}
      BY TypeParts DEF Enumerations
    <2>2. at[Main] \in MemberSteps \cup {"exited"} => monitor \in {"none", "joined"}
      BY <2>1 DEF ThreadInv, MemberSteps
    <2> QED BY <2>2 DEF ThreadInv, ThreadsEndFirst, AfterJoin
  <1> QED BY <1>1, ThreadsKept, ServerTypeCorrect, PTL

-----------------------------------------------------------------------------
(* Mutual exclusion, and how the process can die.                          *)

\* Whoever is between the lock and the unlock of a mutex holds it.
HolderInv ==
    /\ \A f \in Frames : at[f] \in CleanupHeldAt => cleanupMutex = f
    /\ \A f \in Frames : at[f] \in RegistryHeldAt => registryMutex = f

\* No two frames are inside TokenCleanupTask::Stop, and no two inside
\* Register and Unregister, however handlers nest and run in parallel.
MutualExclusion ==
    \A f, g \in Frames :
        \/ at[f] \in CleanupHeldAt /\ at[g] \in CleanupHeldAt
        \/ at[f] \in RegistryHeldAt /\ at[g] \in RegistryHeldAt
        => f = g

\* A step that changes neither mutex ends outside both sections.
LEMMA HoldersQuiet ==
    ASSUME Positions, HolderInv, NEW f \in Frames, NEW s \in Steps, Goto(f, s),
           UNCHANGED <<cleanupMutex, registryMutex>>,
           s \notin CleanupHeldAt, s \in RegistryHeldAt => at[f] \in RegistryHeldAt
    PROVE  HolderInv'
  <1>0. at'[f] = s /\ (\A g \in Frames : g # f => at'[g] = at[g]) /\ Nobody \notin Frames
    BY Moves, FrameFacts DEF Positions
  <1>1. \A g \in Frames : at'[g] \in CleanupHeldAt => cleanupMutex' = g
    BY <1>0 DEF HolderInv
  <1>2. \A g \in Frames : at'[g] \in RegistryHeldAt => registryMutex' = g
    BY <1>0 DEF HolderInv
  <1> QED BY <1>1, <1>2 DEF HolderInv, CleanupHeldAt, RegistryHeldAt

\* A step that changes the registry's mutex.
LEMMA RegistryLockMoves ==
    ASSUME Positions, HolderInv, NEW f \in Frames, NEW s \in Steps, Goto(f, s),
           UNCHANGED cleanupMutex, s \notin CleanupHeldAt,
           \/ registryMutex = Nobody /\ registryMutex' = f
           \/ at[f] \in RegistryHeldAt /\ s \notin RegistryHeldAt
    PROVE  HolderInv'
  <1>0. at'[f] = s /\ (\A g \in Frames : g # f => at'[g] = at[g]) /\ Nobody \notin Frames
    BY Moves, FrameFacts DEF Positions
  <1>1. \A g \in Frames : at'[g] \in CleanupHeldAt => cleanupMutex' = g
    BY <1>0 DEF HolderInv
  <1>2. \A g \in Frames : at'[g] \in RegistryHeldAt => registryMutex' = g
    BY <1>0 DEF HolderInv
  <1> QED BY <1>1, <1>2 DEF HolderInv, CleanupHeldAt, RegistryHeldAt

\* A step that changes the cleanup task's mutex.
LEMMA CleanupLockMoves ==
    ASSUME Positions, HolderInv, NEW f \in Frames, NEW s \in Steps, Goto(f, s),
           UNCHANGED registryMutex, s \notin RegistryHeldAt,
           \/ cleanupMutex = Nobody /\ cleanupMutex' = f
           \/ at[f] \in CleanupHeldAt /\ s \notin CleanupHeldAt
    PROVE  HolderInv'
  <1>0. at'[f] = s /\ (\A g \in Frames : g # f => at'[g] = at[g]) /\ Nobody \notin Frames
    BY Moves, FrameFacts DEF Positions
  <1>1. \A g \in Frames : at'[g] \in CleanupHeldAt => cleanupMutex' = g
    BY <1>0 DEF HolderInv
  <1>2. \A g \in Frames : at'[g] \in RegistryHeldAt => registryMutex' = g
    BY <1>0 DEF HolderInv
  <1> QED BY <1>1, <1>2 DEF HolderInv, CleanupHeldAt, RegistryHeldAt

\* Main's steps: Register takes the registry's mutex and gives it back.
LEMMA HolderMain == TypeOK /\ HolderInv /\ MainStep => HolderInv'
  <1> SUFFICES ASSUME TypeOK, HolderInv, MainStep PROVE HolderInv'
      OBVIOUS
  <1>0. Positions /\ Main \in Frames
    BY TypeParts, FrameFacts
  <1>1. CASE LockForRegister
    <2>1. CASE registryMutex' = Main /\ Goto(Main, "create")
      <3>1. "create" \in Steps /\ "create" \notin CleanupHeldAt
        BY DEF Steps, RunSteps, CleanupHeldAt
      <3>2. UNCHANGED cleanupMutex /\ registryMutex = Nobody
        BY <1>1 DEF LockForRegister, cleanupVars
      <3> QED BY <1>0, <2>1, <3>1, <3>2, RegistryLockMoves
    <2>2. CASE UNCHANGED registryMutex /\ Goto(Main, "spawn")
      <3>1. "spawn" \in Steps /\ "spawn" \notin CleanupHeldAt /\ "spawn" \notin RegistryHeldAt
        BY DEF Steps, RunSteps, CleanupHeldAt, RegistryHeldAt
      <3>2. UNCHANGED cleanupMutex
        BY <1>1 DEF LockForRegister, cleanupVars
      <3> QED BY <1>0, <2>2, <3>1, <3>2, HoldersQuiet
    <2> QED BY <1>1, <2>1, <2>2 DEF LockForRegister, MainGoes
  <1>2. CASE UnlockAfterRegister
    <2>1. /\ "spawn" \in Steps /\ "spawn" \notin CleanupHeldAt /\ "spawn" \notin RegistryHeldAt
          /\ Goto(Main, "spawn") /\ at[Main] \in RegistryHeldAt /\ UNCHANGED cleanupMutex
      BY <1>2 DEF UnlockAfterRegister, MainGoes, Step, Steps, RunSteps, CleanupHeldAt,
             RegistryHeldAt, cleanupVars
    <2> QED BY <1>0, <2>1, RegistryLockMoves
  <1>3. CASE ~(LockForRegister \/ UnlockAfterRegister)
    <2>1. PICK s \in Steps :
            /\ Goto(Main, s) /\ s \notin CleanupHeldAt
            /\ s \in RegistryHeldAt => at[Main] \in RegistryHeldAt
      BY <1>3 DEF MainStep, InitInfrastructure, InitServices, InitServiceDiscovery, BuildAndStart,
           Publish, ClearRequest, CreateNode, MarkRegistered, SpawnMonitor,
           WaitForGrpc, JoinMonitor, Stopped, DestroyRegistry, MainGoes, Step,
           Steps, RunSteps, ShutdownSteps, MemberSteps, CleanupHeldAt, RegistryHeldAt
    <2>2. UNCHANGED <<cleanupMutex, registryMutex>>
      BY <1>3 DEF MainStep, InitInfrastructure, InitServices, InitServiceDiscovery, BuildAndStart,
           Publish, ClearRequest, CreateNode, MarkRegistered, SpawnMonitor,
           WaitForGrpc, JoinMonitor, Stopped, DestroyRegistry, cleanupVars, registryVars
    <2> QED BY <1>0, <2>1, <2>2, HoldersQuiet
  <1> QED BY <1>1, <1>2, <1>3

\* The steps of Shutdown take and give back one mutex after the other.
LEMMA HolderShutdown ==
    ASSUME TypeOK, HolderInv, NEW f \in Frames, ShutdownStep(f)
    PROVE  HolderInv'
  <1>0. Positions /\ terminated \in BOOLEAN
    BY TypeParts DEF Flags
  <1>1. CASE CheckRunning(f) \/ ShutdownGrpc(f)
    <2>1. \E s \in {"endCleanup", "idle", "request"} : Goto(f, s)
      BY <1>0, <1>1, ReturnTypes DEF CheckRunning, ShutdownGrpc, Step
    <2>2. PICK s \in Steps : s \notin CleanupHeldAt /\ s \notin RegistryHeldAt /\ Goto(f, s)
      BY <2>1 DEF Steps, MemberSteps, ShutdownSteps, CleanupHeldAt, RegistryHeldAt
    <2>3. UNCHANGED <<cleanupMutex, registryMutex>>
      BY <1>1 DEF CheckRunning, ShutdownGrpc, cleanupVars, registryVars
    <2> QED BY <1>0, <2>2, <2>3, HoldersQuiet
  <1>2. CASE Request(f) \/ IsRegistered(f)
    <2>1. PICK s \in Steps : s \notin CleanupHeldAt /\ s \notin RegistryHeldAt /\ Goto(f, s)
      BY <1>2 DEF Request, IsRegistered, Steps, ShutdownSteps, CleanupHeldAt, RegistryHeldAt
    <2>2. UNCHANGED <<cleanupMutex, registryMutex>>
      BY <1>2 DEF Request, IsRegistered, cleanupVars, registryVars
    <2> QED BY <1>0, <2>1, <2>2, HoldersQuiet
  <1>3. CASE LockForUnregister(f)
    <2>0. UNCHANGED cleanupMutex /\ registryMutex = Nobody
      BY <1>3 DEF LockForUnregister, cleanupVars
    <2>1. CASE registered
      <3>1. /\ "deleteNode" \in Steps /\ "deleteNode" \notin CleanupHeldAt
            /\ Goto(f, "deleteNode") /\ registryMutex' = f
        BY <1>3, <2>1 DEF LockForUnregister, Steps, ShutdownSteps, CleanupHeldAt
      <3> QED BY <1>0, <2>0, <3>1, RegistryLockMoves
    <2>2. CASE ~registered
      <3>1. /\ "lockCleanup" \in Steps /\ "lockCleanup" \notin CleanupHeldAt
            /\ "lockCleanup" \notin RegistryHeldAt
            /\ Goto(f, "lockCleanup") /\ UNCHANGED registryMutex
        BY <1>3, <2>2 DEF LockForUnregister, Steps, ShutdownSteps, CleanupHeldAt, RegistryHeldAt
      <3> QED BY <1>0, <2>0, <3>1, HoldersQuiet
    <2> QED BY <2>1, <2>2
  <1>4. CASE DeleteNode(f)
    <2>1. /\ "lockCleanup" \in Steps /\ "lockCleanup" \notin CleanupHeldAt
          /\ "lockCleanup" \notin RegistryHeldAt /\ at[f] \in RegistryHeldAt
          /\ Goto(f, "lockCleanup") /\ UNCHANGED cleanupMutex
      BY <1>4 DEF DeleteNode, Step, Steps, ShutdownSteps, CleanupHeldAt, RegistryHeldAt, cleanupVars
    <2> QED BY <1>0, <2>1, RegistryLockMoves
  <1>5. CASE StopCleanup(f)
    <2>1. PICK s \in Steps : s \notin RegistryHeldAt /\ Goto(f, s)
      BY <1>5 DEF StopCleanup, Steps, ShutdownSteps, MemberSteps, RegistryHeldAt
    <2>2. UNCHANGED registryMutex /\ cleanupMutex = Nobody /\ cleanupMutex' = f
      BY <1>5 DEF StopCleanup, registryVars
    <2> QED BY <1>0, <2>1, <2>2, CleanupLockMoves
  <1>6. CASE JoinCleanup(f)
    <2>1. PICK s \in Steps : s \notin RegistryHeldAt /\ s \notin CleanupHeldAt /\ Goto(f, s)
      BY <1>6 DEF JoinCleanup, Steps, ShutdownSteps, MemberSteps, RegistryHeldAt, CleanupHeldAt
    <2>2. UNCHANGED registryMutex /\ at[f] \in CleanupHeldAt
      BY <1>6 DEF JoinCleanup, Step, registryVars, CleanupHeldAt
    <2> QED BY <1>0, <2>1, <2>2, CleanupLockMoves
  <1>7. CASE JoinSelf(f)
    BY <1>7 DEF JoinSelf, HolderInv, cleanupVars, registryVars
  <1> QED BY <1>1, <1>2, <1>3, <1>4, <1>5, <1>6, <1>7 DEF ShutdownStep

\* Stop runs in one frame at a time, and so do Register and Unregister.
THEOREM ServerMutualExclusion == Spec => []MutualExclusion
  <1>1. Init => HolderInv
    <2> SUFFICES ASSUME Init PROVE HolderInv
        OBVIOUS
    <2>1. \A f \in Frames : at[f] \in {"infrastructure", "idle"}
      BY DEF Init
    <2> QED BY <2>1 DEF HolderInv, CleanupHeldAt, RegistryHeldAt
  <1>2. TypeOK /\ HolderInv /\ [Next]_vars => HolderInv'
    <2> SUFFICES ASSUME TypeOK, HolderInv, [Next]_vars PROVE HolderInv'
        OBVIOUS
    <2>1. CASE MainStep
      BY <2>1, HolderMain
    <2>2. CASE \E f \in Frames : ShutdownStep(f)
      BY <2>2, HolderShutdown
    <2>3. CASE MonitorEnds \/ CleanupEnds \/ UNCHANGED vars
      BY <2>3 DEF HolderInv, MonitorEnds, CleanupEnds, vars, cleanupVars, registryVars
    <2>4. CASE \E h \in Hosts, s \in Signals : Deliver(h, s)
      <3> PICK h \in Hosts, s \in Signals : Deliver(h, s)
        BY <2>4
      <3>1. <<h, s>> \in Frames /\ Positions
        BY FrameFacts, TypeParts
      <3>2. Goto(<<h, s>>, "check") /\ UNCHANGED <<cleanupMutex, registryMutex>>
        BY DEF Deliver, cleanupVars, registryVars
      <3>3. "check" \in Steps /\ "check" \notin CleanupHeldAt /\ "check" \notin RegistryHeldAt
        BY DEF Steps, ShutdownSteps, CleanupHeldAt, RegistryHeldAt
      <3> QED BY <3>1, <3>2, <3>3, HoldersQuiet
    <2> QED BY <2>1, <2>2, <2>3, <2>4 DEF Next
  <1>3. HolderInv => MutualExclusion
    BY DEF HolderInv, MutualExclusion
  <1> QED BY <1>1, <1>2, <1>3, ServerTypeCorrect, PTL DEF Spec

\* std::terminate is called only where a handler on the cleanup thread joins
\* its own thread: never by the destructor of a joinable monitor thread,
\* which main's destructors would reach if Wait had not joined it.
THEOREM OnlySelfJoinTerminates ==
    Spec => [][terminated' # terminated => \E f \in Frames : JoinSelf(f)]_vars
  <1>1. TypeOK /\ ThreadInv /\ [Next]_vars
        => [terminated' # terminated => \E f \in Frames : JoinSelf(f)]_vars
    <2> SUFFICES ASSUME TypeOK, ThreadInv, Next, ~(\E f \in Frames : JoinSelf(f))
                 PROVE  terminated' = terminated
        OBVIOUS
    <2>1. CASE MainStep
      BY <2>1 DEF MainStep, InitInfrastructure, InitServices, InitServiceDiscovery, BuildAndStart,
           Publish, ClearRequest, LockForRegister, CreateNode, MarkRegistered,
           UnlockAfterRegister, SpawnMonitor, WaitForGrpc, JoinMonitor, Stopped,
           DestroyRegistry, MainGoes
    <2>2. ASSUME NEW f \in Frames, ShutdownStep(f) PROVE terminated' = terminated
      <3>1. CASE CheckRunning(f) \/ ShutdownGrpc(f)
        <4>1. CASE Return(f) /\ f = Main
          <5>1. at[Main] \in {"check", "shutdownGrpc"} /\ ~terminated
            BY <3>1, <4>1 DEF CheckRunning, ShutdownGrpc, Step, Active
          <5>2. monitor \notin {"running", "done"}
            BY <5>1 DEF ThreadInv
          <5>3. ~terminated'
            BY <4>1, <5>2 DEF Return
          <5>4. terminated \in BOOLEAN /\ terminated' \in BOOLEAN
            BY <4>1, TypeParts DEF Flags, Return
          <5> QED BY <5>1, <5>3, <5>4
        <4>2. CASE ~(Return(f) /\ f = Main)
          BY <3>1, <4>2 DEF CheckRunning, ShutdownGrpc, Return
        <4> QED BY <4>1, <4>2
      <3>2. CASE ~(CheckRunning(f) \/ ShutdownGrpc(f))
        BY <2>2, <3>2 DEF ShutdownStep, Request, IsRegistered, LockForUnregister, DeleteNode,
               StopCleanup, JoinCleanup
      <3> QED BY <3>1, <3>2
    <2>3. CASE MonitorEnds \/ CleanupEnds
      BY <2>3 DEF MonitorEnds, CleanupEnds
    <2>4. CASE \E h \in Hosts, s \in Signals : Deliver(h, s)
      BY <2>4 DEF Deliver
    <2> QED BY <2>1, <2>2, <2>3, <2>4 DEF Next
  <1> QED BY <1>1, ServerTypeCorrect, ThreadsKept, PTL DEF Spec
=============================================================================
