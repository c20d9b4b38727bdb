-------------------------- MODULE ServerLifecycle --------------------------
(***************************************************************************)
(* One server process from main's call of Initialize to its end: GrpcServer*)
(* with its monitor thread, TokenCleanupTask with its thread, the node in  *)
(* ZooKeeper, and the signal handler, which calls Shutdown on whichever    *)
(* thread the kernel chose and suspends that thread meanwhile.             *)
(*                                                                         *)
(* A frame is a call stack's top-level activity: main itself, or a handler *)
(* activation on a thread.  One action is one access to shared state.      *)
(***************************************************************************)
EXTENDS Naturals, Sequences, SequencesExt

CONSTANTS
    Signals,      \* SIGINT, SIGTERM: a handler blocks its own signal only
    Hosts,        \* threads a signal may be delivered to
    MaxSignals    \* the model's bound on deliveries

ASSUME HostsAssumption == Hosts \subseteq {"main", "monitor", "cleanup", "rpc"}
ASSUME SignalsAssumption == "" \notin Signals
ASSUME MaxSignalsAssumption == MaxSignals \in Nat

Handlers == Hosts \X Signals
Main == <<"main", "">>
Nobody == <<"", "">>
Frames == {Main} \cup Handlers

\* Initialize, Start, Wait of main.
RunSteps == {"infrastructure", "services", "discovery", "start", "publish",
             "clear", "register", "create", "created", "unlock", "spawn",
             "wait", "joinMonitor", "stopped"}
\* Steps of main after Start has reset shutdown_requested_, without the one
\* at which main still holds the registry's mutex and registered_ is set.
Listening == {"register", "create", "created", "spawn", "wait"}
\* Shutdown, in a handler or in main's destructor of the server.
ShutdownSteps == {"check", "request", "isRegistered", "lockRegistry",
                  "deleteNode", "lockCleanup", "joinCleanup", "shutdownGrpc"}
\* The destructors of the members.
MemberSteps == {"endCleanup", "endJoin", "endRegistry"}
Steps == {"idle", "exited"} \cup RunSteps \cup ShutdownSteps \cup MemberSteps

VARIABLES
    at,              \* the step of each frame
    stack,           \* handlers that run on each thread, the latest last
    running,         \* GrpcServer::running_
    requested,       \* shutdown_requested_
    grpc,            \* server_: "none", "up", "down"
    monitor,         \* shutdown_monitor_thread_
    cleanup,         \* TokenCleanupTask::thread_
    cleaning,        \* TokenCleanupTask::running_
    cleanupMutex,    \* the frame that holds TokenCleanupTask::mutex_
    registry,        \* service_registry_ exists
    registered,      \* ServiceRegistry::registered_
    registryMutex,   \* the frame that holds ServiceRegistry::mutex_
    node,            \* the instance's node in ZooKeeper
    terminated,      \* std::terminate
    \* History.
    deliveries,      \* signals delivered
    heardListening,  \* one was delivered while main was Listening, on main or
                     \* on the monitor thread
    late,            \* a Shutdown skipped Unregister before Register was done
    zkFailed         \* a ZooKeeper command failed, which may have been executed

flags == <<running, requested, grpc>>
cleanupVars == <<cleanup, cleaning, cleanupMutex>>
registryVars == <<registry, registered, registryMutex, node>>
history == <<deliveries, heardListening, late, zkFailed>>
vars == <<at, stack, flags, monitor, cleanupVars, registryVars, terminated, history>>

\* A mutex is held only between its lock and its unlock.
TypeOK ==
    /\ at \in [Frames -> Steps]
    /\ stack \in [Hosts -> Seq(Signals)]
    /\ running \in BOOLEAN
    /\ requested \in BOOLEAN
    /\ grpc \in {"none", "up", "down"}
    /\ monitor \in {"none", "running", "done", "joined"}
    /\ cleanup \in {"none", "running", "done", "joined"}
    /\ cleaning \in BOOLEAN
    /\ cleanupMutex \in {f \in Frames : at[f] \in {"joinCleanup", "endJoin"}} \cup {Nobody}
    /\ registry \in BOOLEAN
    /\ registered \in BOOLEAN
    /\ registryMutex \in {f \in Frames : at[f] \in {"create", "created", "unlock", "deleteNode"}}
                         \cup {Nobody}
    /\ node \in BOOLEAN
    /\ terminated \in BOOLEAN
    /\ deliveries \in 0 .. MaxSignals
    /\ heardListening \in BOOLEAN
    /\ late \in BOOLEAN
    /\ zkFailed \in BOOLEAN

\* main has stored g_server and installed the handler.
Init ==
    /\ at = [f \in Frames |-> IF f = Main THEN "infrastructure" ELSE "idle"]
    /\ stack = [h \in Hosts |-> <<>>]
    /\ running = FALSE
    /\ requested = FALSE
    /\ grpc = "none"
    /\ monitor = "none"
    /\ cleanup = "none"
    /\ cleaning = FALSE
    /\ cleanupMutex = Nobody
    /\ registry = FALSE
    /\ registered = FALSE
    /\ registryMutex = Nobody
    /\ node = FALSE
    /\ terminated = FALSE
    /\ deliveries = 0
    /\ heardListening = FALSE
    /\ late = FALSE
    /\ zkFailed = FALSE

\* No handler runs on thread h.
Unsuspended(h) == h \in Hosts => stack[h] = <<>>

\* Frame f is the one that its thread executes.
Active(f) ==
    /\ ~terminated
    /\ IF f = Main THEN Unsuspended("main")
       ELSE stack[f[1]] # <<>> /\ Last(stack[f[1]]) = f[2]

Goto(f, s) == at' = [at EXCEPT ![f] = s]

\* Frame f does its step s next.
Step(f, s) == at[f] = s /\ Active(f)

MainGoes(s, t) == Step(Main, s) /\ Goto(Main, t) /\ UNCHANGED <<stack, terminated>>

-----------------------------------------------------------------------------
(* main: Initialize.                                                       *)

\* The pool or Redis may be out of reach; then main returns and the server
\* is destroyed.
InitInfrastructure ==
    /\ \/ MainGoes("infrastructure", "services")
       \/ MainGoes("infrastructure", "check")
    /\ UNCHANGED <<flags, monitor, cleanupVars, registryVars, history>>

\* InitServices ends with TokenCleanupTask::Start, which sets running_ and
\* creates the thread; if that throws, Initialize returns false.
InitServices ==
    /\ \/ MainGoes("services", "discovery") /\ cleanup' = "running"
       \/ MainGoes("services", "check") /\ UNCHANGED cleanup
    /\ cleaning' = TRUE
    /\ UNCHANGED <<flags, monitor, cleanupMutex, registryVars, history>>

\* ZooKeeper is disabled, out of reach, or there will be a registry.
InitServiceDiscovery ==
    /\ MainGoes("discovery", "start")
    /\ registry' \in BOOLEAN
    /\ UNCHANGED <<flags, monitor, cleanupVars, registered, registryMutex, node, history>>

-----------------------------------------------------------------------------
(* main: Start.                                                            *)

\* BuildAndStart; without a server Run returns.
BuildAndStart ==
    /\ \/ MainGoes("start", "publish") /\ grpc' = "up"
       \/ MainGoes("start", "check") /\ UNCHANGED grpc
    /\ UNCHANGED <<running, requested, monitor, cleanupVars, registryVars, history>>

Publish ==
    /\ MainGoes("publish", "clear")
    /\ running' = TRUE
    /\ UNCHANGED <<requested, grpc, monitor, cleanupVars, registryVars, history>>

ClearRequest ==
    /\ MainGoes("clear", IF registry THEN "register" ELSE "spawn")
    /\ requested' = FALSE
    /\ UNCHANGED <<running, grpc, monitor, cleanupVars, registryVars, history>>

\* ServiceRegistry::Register: with the mutex held, create the path and the
\* node, then set registered_.  Not connected: return at once.
LockForRegister ==
    /\ registryMutex = Nobody
    /\ \/ MainGoes("register", "create") /\ registryMutex' = Main
       \/ MainGoes("register", "spawn") /\ UNCHANGED registryMutex
    /\ UNCHANGED <<flags, monitor, cleanupVars, registry, registered, node, history>>

CreateNode ==
    /\ \/ MainGoes("create", "created") /\ node' = TRUE /\ UNCHANGED zkFailed
       \/ MainGoes("create", "unlock") /\ node' \in BOOLEAN /\ zkFailed' = TRUE
    /\ UNCHANGED <<flags, monitor, cleanupVars, registry, registered, registryMutex,
                   deliveries, heardListening, late>>

MarkRegistered ==
    /\ MainGoes("created", "unlock")
    /\ registered' = TRUE
    /\ UNCHANGED <<flags, monitor, cleanupVars, registry, registryMutex, node, history>>

UnlockAfterRegister ==
    /\ MainGoes("unlock", "spawn")
    /\ registryMutex' = Nobody
    /\ UNCHANGED <<flags, monitor, cleanupVars, registry, registered, node, history>>

\* std::thread may throw: the server is destroyed while running_ is true.
SpawnMonitor ==
    /\ \/ MainGoes("spawn", "wait") /\ monitor' = "running"
       \/ MainGoes("spawn", "check") /\ UNCHANGED monitor
    /\ UNCHANGED <<flags, cleanupVars, registryVars, history>>

-----------------------------------------------------------------------------
(* main: Wait.                                                             *)

WaitForGrpc ==
    /\ grpc = "down"
    /\ MainGoes("wait", "joinMonitor")
    /\ UNCHANGED <<flags, monitor, cleanupVars, registryVars, history>>

\* Faulty variant of JoinMonitor: the thread is not joined.
JoinMonitorSkipped ==
    /\ MainGoes("joinMonitor", "stopped")
    /\ UNCHANGED <<flags, monitor, cleanupVars, registryVars, history>>

JoinMonitor ==
    /\ monitor = "done"
    /\ MainGoes("joinMonitor", "stopped")
    /\ monitor' = "joined"
    /\ UNCHANGED <<flags, cleanupVars, registryVars, history>>

Stopped ==
    /\ MainGoes("stopped", "check")
    /\ running' = FALSE
    /\ UNCHANGED <<requested, grpc, monitor, cleanupVars, registryVars, history>>

-----------------------------------------------------------------------------
(* The monitor and the cleanup thread.                                     *)

\* server_->Shutdown can return: it waits for gRPC's own threads, its deadline
\* only cancels the calls they serve, so none may be suspended by a handler.
GrpcThreadsEnd == Unsuspended("rpc")

\* ShutdownMonitor polls the flag, then shuts the server down.
MonitorEnds ==
    /\ ~terminated
    /\ Unsuspended("monitor")
    /\ monitor = "running"
    /\ requested
    /\ running => GrpcThreadsEnd
    /\ monitor' = "done"
    /\ grpc' = IF running THEN "down" ELSE grpc
    /\ UNCHANGED <<at, stack, running, requested, cleanupVars, registryVars, terminated, history>>

\* The cleanup thread looks at its flag at least once a second.
CleanupEnds ==
    /\ ~terminated
    /\ Unsuspended("cleanup")
    /\ cleanup = "running"
    /\ ~cleaning
    /\ cleanup' = "done"
    /\ UNCHANGED <<at, stack, flags, monitor, cleaning, cleanupMutex, registryVars, terminated, history>>

-----------------------------------------------------------------------------
(* Shutdown, by a handler or by the server's destructor.                   *)

\* Shutdown returns: the handler ends, main goes on to the members, of which
\* the monitor thread is the first; if it is joinable the process ends.
Return(f) ==
    IF f = Main
    THEN /\ Goto(f, "endCleanup")
         /\ terminated' = (monitor \in {"running", "done"})
         /\ UNCHANGED stack
    ELSE /\ Goto(f, "idle")
         /\ stack' = [stack EXCEPT ![f[1]] = Front(@)]
         /\ UNCHANGED terminated

CheckRunning(f) ==
    /\ Step(f, "check")
    /\ IF running THEN Goto(f, "request") /\ UNCHANGED <<stack, terminated>> ELSE Return(f)
    /\ UNCHANGED <<flags, monitor, cleanupVars, registryVars, history>>

Request(f) ==
    /\ Step(f, "request")
    /\ requested' = TRUE
    /\ Goto(f, "isRegistered")
    /\ UNCHANGED <<stack, running, grpc, monitor, cleanupVars, registryVars, terminated, history>>

\* UnregisterFromZooKeeper reads registered_ without the mutex.
IsRegistered(f) ==
    /\ Step(f, "isRegistered")
    /\ Goto(f, IF registered THEN "lockRegistry" ELSE "lockCleanup")
    /\ late' = (late \/ (~registered /\ at[Main] \in RunSteps \ {"wait", "joinMonitor", "stopped"}))
    /\ UNCHANGED <<stack, flags, monitor, cleanupVars, registryVars, terminated,
                   deliveries, heardListening, zkFailed>>

\* Faulty variant of LockForUnregister: registered_ is reset first.
LockForUnregisterEarlyReset(f) ==
    /\ Step(f, "lockRegistry")
    /\ registryMutex = Nobody
    /\ registered' = FALSE
    /\ IF registered
       THEN Goto(f, "deleteNode") /\ registryMutex' = f
       ELSE Goto(f, "lockCleanup") /\ UNCHANGED registryMutex
    /\ UNCHANGED <<stack, flags, monitor, cleanupVars, registry, node, terminated, history>>

\* ServiceRegistry::Unregister.
LockForUnregister(f) ==
    /\ Step(f, "lockRegistry")
    /\ registryMutex = Nobody
    /\ IF registered
       THEN Goto(f, "deleteNode") /\ registryMutex' = f
       ELSE Goto(f, "lockCleanup") /\ UNCHANGED registryMutex
    /\ UNCHANGED <<stack, flags, monitor, cleanupVars, registry, registered, node, terminated, history>>

\* DeleteNode, which may fail, the reset of registered_, and the unlock.
DeleteNode(f) ==
    /\ Step(f, "deleteNode")
    /\ \/ node' = FALSE /\ UNCHANGED zkFailed
       \/ node' \in {node, FALSE} /\ zkFailed' = TRUE
    /\ registered' = FALSE
    /\ registryMutex' = Nobody
    /\ Goto(f, "lockCleanup")
    /\ UNCHANGED <<stack, flags, monitor, cleanupVars, registry, terminated,
                   deliveries, heardListening, late>>

\* Faulty variant of StopCleanup: running_ is not reset.
StopCleanupKeepFlag(f) ==
    /\ Step(f, "lockCleanup") \/ Step(f, "endCleanup")
    /\ cleanupMutex = Nobody
    /\ cleanupMutex' = f
    /\ Goto(f, IF at[f] = "lockCleanup" THEN "joinCleanup" ELSE "endJoin")
    /\ UNCHANGED <<stack, flags, monitor, cleaning, cleanup, registryVars, terminated, history>>

\* TokenCleanupTask::Stop, also as its destructor: lock, reset running_ ...
StopCleanup(f) ==
    /\ Step(f, "lockCleanup") \/ Step(f, "endCleanup")
    /\ cleanupMutex = Nobody
    /\ cleanupMutex' = f
    /\ cleaning' = FALSE
    /\ Goto(f, IF at[f] = "lockCleanup" THEN "joinCleanup" ELSE "endJoin")
    /\ UNCHANGED <<stack, flags, monitor, cleanup, registryVars, terminated, history>>

\* Faulty variant of JoinCleanup: the thread is detached.
JoinCleanupDetached(f) ==
    /\ Step(f, "joinCleanup") \/ Step(f, "endJoin")
    /\ cleanupMutex' = Nobody
    /\ Goto(f, IF at[f] = "joinCleanup" THEN "shutdownGrpc" ELSE "endRegistry")
    /\ UNCHANGED <<stack, flags, monitor, cleaning, cleanup, registryVars, terminated, history>>

\* ... and join, if there is a thread to join.
JoinCleanup(f) ==
    /\ Step(f, "joinCleanup") \/ Step(f, "endJoin")
    /\ cleanup # "running"
    /\ cleanup' = IF cleanup = "done" THEN "joined" ELSE cleanup
    /\ cleanupMutex' = Nobody
    /\ Goto(f, IF at[f] = "joinCleanup" THEN "shutdownGrpc" ELSE "endRegistry")
    /\ UNCHANGED <<stack, flags, monitor, cleaning, registryVars, terminated, history>>

\* A handler on the cleanup thread joins its own thread, which throws.
JoinSelf(f) ==
    /\ f \in Handlers /\ f[1] = "cleanup"
    /\ Step(f, "joinCleanup")
    /\ cleanup = "running"
    /\ terminated' = TRUE
    /\ UNCHANGED <<at, stack, flags, monitor, cleanupVars, registryVars, history>>

\* On one of gRPC's threads the handler waits for the thread it suspends.
ShutdownGrpc(f) ==
    /\ Step(f, "shutdownGrpc")
    /\ GrpcThreadsEnd
    /\ grpc' = "down"
    /\ Return(f)
    /\ UNCHANGED <<running, requested, monitor, cleanupVars, registryVars, history>>

-----------------------------------------------------------------------------
(* The end of main, and signals.                                           *)

\* The registry's destructor unregisters and the session is closed, which
\* removes the node in any case.
DestroyRegistry ==
    /\ Step(Main, "endRegistry")
    /\ registryMutex = Nobody
    /\ Goto(Main, "exited")
    /\ registered' = FALSE
    /\ node' = FALSE
    /\ UNCHANGED <<stack, flags, monitor, cleanupVars, registry, registryMutex, terminated, history>>

\* Signal s is delivered on thread h, which is not blocking it.  After main
\* has begun to destroy the members no handler is modelled.
Deliver(h, s) ==
    /\ ~terminated
    /\ deliveries < MaxSignals
    /\ at[Main] \notin MemberSteps \cup {"exited"}
    /\ h = "cleanup" => cleanup = "running"
    /\ h = "monitor" => monitor = "running"
    /\ h = "rpc" => grpc = "up"
    /\ at[<<h, s>>] = "idle"
    /\ Goto(<<h, s>>, "check")
    /\ stack' = [stack EXCEPT ![h] = Append(@, s)]
    /\ deliveries' = deliveries + 1
    /\ heardListening' = (heardListening \/ (h \in {"main", "monitor"} /\ at[Main] \in Listening))
    /\ UNCHANGED <<flags, monitor, cleanupVars, registryVars, terminated, late, zkFailed>>

-----------------------------------------------------------------------------
MainStep ==
    \/ InitInfrastructure \/ InitServices \/ InitServiceDiscovery
    \/ BuildAndStart \/ Publish \/ ClearRequest
    \/ LockForRegister \/ CreateNode \/ MarkRegistered \/ UnlockAfterRegister
    \/ SpawnMonitor \/ WaitForGrpc \/ JoinMonitor \/ Stopped
    \/ DestroyRegistry

ShutdownStep(f) ==
    \/ CheckRunning(f) \/ Request(f) \/ IsRegistered(f) \/ LockForUnregister(f)
    \/ DeleteNode(f) \/ StopCleanup(f) \/ JoinCleanup(f) \/ JoinSelf(f)
    \/ ShutdownGrpc(f)

Next ==
    \/ MainStep
    \/ MonitorEnds
    \/ CleanupEnds
    \/ \E f \in Frames : ShutdownStep(f)
    \/ \E h \in Hosts, s \in Signals : Deliver(h, s)

Spec == Init /\ [][Next]_vars

\* Every thread that can go on does; a mutex is taken a bounded number of
\* times, so weak fairness lets everyone have it.  Signals need not arrive.
Fairness ==
    /\ WF_vars(MainStep)
    /\ WF_vars(MonitorEnds)
    /\ WF_vars(CleanupEnds)
    /\ \A f \in Frames : WF_vars(ShutdownStep(f))
FairSpec == Spec /\ Fairness

-----------------------------------------------------------------------------
(* Properties.                                                             *)

\* Whoever is past the Unregister of Shutdown finds the node gone, whichever
\* of several Shutdown calls deleted it: registered_ is read without the
\* mutex and reset only after the delete.  Unless ZooKeeper failed, or a
\* Shutdown came before Register had set registered_.
NodeGoneFirst ==
    \A f \in Frames :
        at[f] \in {"lockCleanup", "joinCleanup", "shutdownGrpc"} =>
            ~node \/ late \/ zkFailed

\* When the registry and everything declared before it are destroyed, and
\* when a Shutdown goes on to stop gRPC, the cleanup thread, which uses the
\* token repository, has ended; the monitor has before any member goes.
ThreadsEndFirst ==
    /\ \A f \in Frames : at[f] \in {"shutdownGrpc", "endRegistry", "exited"} =>
           cleanup \in {"none", "joined"}
    /\ at[Main] \in MemberSteps \cup {"exited"} => monitor \in {"none", "joined"}

Ended == at[Main] = "exited" \/ terminated

\* A single signal ends the process, also when it comes in the middle of
\* Start, once the request flag was reset, or while the monitor has yet to look
\* at that flag.  Not if the handler runs on the cleanup thread, which Stop
\* joins, on one of gRPC's, for which server_->Shutdown waits, or on the main
\* thread while that holds the mutex which the handler's Unregister wants.
SignalEndsProcess == heardListening ~> (Ended \/ deliveries > 1)
=============================================================================
