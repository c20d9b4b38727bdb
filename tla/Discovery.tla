----------------------------- MODULE Discovery -----------------------------
(***************************************************************************)
(* ServiceDiscovery and ZooKeeperClient on the client side: the cache of   *)
(* the instances of one service, kept in step with the children of the     *)
(* service's path by one-shot watches.  Application threads subscribe and  *)
(* unsubscribe; the ZooKeeper library's event thread runs the callbacks,   *)
(* one event at a time.  Services do not interact.  One action is one      *)
(* command to ZooKeeper or one access to shared state; the subscriber's own*)
(* callback is the client's code and not modelled.                         *)
(*                                                                         *)
(* From ZooKeeper it takes: a watch fires once, at the first change after  *)
(* it was set, before the client can read that change; the library sets the*)
(* watches again when it reconnects; an expired session has no watches.    *)
(***************************************************************************)
EXTENDS Naturals, Sequences

CONSTANTS
    Instances,    \* the instances that may register
    Apps,         \* application threads
    Faults,       \* what may go wrong: "session" (disconnects), "read"
    MaxEvents     \* the model's bound on undelivered events

EventThread == "event thread"
Threads == Apps \cup {EventThread}
Steps == {"idle", "refresh", "list", "data", "log", "watch", "rearm", "arm", "erase"}

ASSUME AppsAssumption == EventThread \notin Apps /\ "cache" \notin Apps
ASSUME FaultsAssumption == Faults \subseteq {"session", "read"}
ASSUME MaxEventsAssumption == MaxEvents \in Nat \ {0}

VARIABLES
    \* ZooKeeper.
    path,        \* the service's path exists
    children,    \* the instances registered under it
    session,     \* zoo_state
    armed,       \* the watch: "no", "yes", or "changed": to fire on reconnect
    events,      \* events the event thread has not taken
    \* The client.
    connected,   \* ZooKeeperClient::connected_
    watching,    \* watches_ has the path
    entry,       \* instance_cache_ has the service
    cached,      \* its instances
    at,          \* the step of each thread
    todo,        \* children whose data a refresh has still to get
    got,         \* the instances it has got
    \* History.
    stale,       \* copies that lack a change of which no event will tell: of
                 \* threads in a refresh, and "cache"
    unarmed      \* the last attempt to set the watch again came to nothing

zk == <<path, children, session, armed, events>>
client == <<connected, watching, entry, cached>>
history == <<stale, unarmed>>
vars == <<zk, client, at, todo, got, history>>

TypeOK ==
    /\ path \in BOOLEAN
    /\ children \subseteq Instances
    /\ children # {} => path
    /\ session \in {"connected", "connecting", "expired"}
    /\ armed \in {"no", "yes", "changed"}
    /\ armed = "changed" => session = "connecting"
    /\ events \in Seq({"child", "connected", "connecting", "expired"})
    /\ connected \in BOOLEAN
    /\ watching \in BOOLEAN
    /\ entry \in BOOLEAN
    /\ cached \subseteq Instances
    /\ ~entry => cached = {}
    /\ at \in [Threads -> Steps]
    /\ todo \in [Threads -> SUBSET Instances]
    /\ got \in [Threads -> SUBSET Instances]
    /\ \A t \in Threads : at[t] # "data" => todo[t] = {} /\ got[t] = {}
    /\ stale \subseteq Threads \cup {"cache"}
    /\ unarmed \in BOOLEAN

\* Connect has returned; there may be servers already.
Init ==
    /\ path \in BOOLEAN
    /\ children \in SUBSET Instances
    /\ children # {} => path
    /\ session = "connected"
    /\ armed = "no"
    /\ events = <<>>
    /\ connected = TRUE
    /\ watching = FALSE
    /\ entry = FALSE
    /\ cached = {}
    /\ at = [t \in Threads |-> "idle"]
    /\ todo = [t \in Threads |-> {}]
    /\ got = [t \in Threads |-> {}]
    /\ stale = {}
    /\ unarmed = FALSE

IsConnected == connected /\ session = "connected"

Goto(t, s) == at' = [at EXCEPT ![t] = s]

\* Where a refresh goes on: Subscribe sets the watch, the event thread sets
\* it again.
AfterRefresh(t) == IF t = EventThread THEN "rearm" ELSE "watch"

-----------------------------------------------------------------------------
(* RefreshInstances.                                                       *)

\* Without a connection it returns; an event's news is lost then.
BeginRefresh(t) ==
    /\ at[t] = "refresh"
    /\ Goto(t, IF IsConnected THEN "list" ELSE AfterRefresh(t))
    /\ stale' = IF IsConnected THEN stale ELSE stale \cup {"cache"}
    /\ UNCHANGED <<zk, client, todo, got, unarmed>>

\* GetChildren.  A failure is an empty list.
GetChildren(t) ==
    /\ at[t] = "list"
    /\ \/ /\ IsConnected
          /\ todo' = [todo EXCEPT ![t] = children]
          /\ stale' = stale \ {t}
       \/ /\ ~IsConnected \/ "read" \in Faults
          /\ stale' = stale \cup {t}
          /\ UNCHANGED todo
    /\ Goto(t, "data")
    /\ UNCHANGED <<zk, client, got, unarmed>>

\* GetData of one child, which may be gone.  Without data it is left out.
GetData(t, i) ==
    /\ at[t] = "data"
    /\ i \in todo[t]
    /\ todo' = [todo EXCEPT ![t] = @ \ {i}]
    /\ \/ /\ IsConnected /\ i \in children
          /\ got' = [got EXCEPT ![t] = @ \cup {i}]
          /\ UNCHANGED stale
       \/ /\ IsConnected /\ i \notin children
          /\ UNCHANGED <<got, stale>>
       \/ /\ ~IsConnected \/ "read" \in Faults
          /\ stale' = stale \cup {t}
          /\ UNCHANGED got
    /\ UNCHANGED <<zk, client, at, unarmed>>

\* Faulty variant of StoreInstances: the new instances are added to the old.
StoreInstancesMerged(t) ==
    /\ at[t] = "data" /\ todo[t] = {}
    /\ entry' = TRUE
    /\ cached' = cached \cup got[t]
    /\ got' = [got EXCEPT ![t] = {}]
    /\ stale' = IF t \in stale THEN stale \cup {"cache"} ELSE stale \ {"cache"}
    /\ Goto(t, "log")
    /\ UNCHANGED <<zk, connected, watching, todo, unarmed>>

StoreInstances(t) ==
    /\ at[t] = "data" /\ todo[t] = {}
    /\ entry' = TRUE
    /\ cached' = got[t]
    /\ got' = [got EXCEPT ![t] = {}]
    /\ stale' = IF t \in stale THEN stale \cup {"cache"} ELSE stale \ {"cache"}
    /\ Goto(t, "log")
    /\ UNCHANGED <<zk, connected, watching, todo, unarmed>>

\* The log line, if there is a logger, uses instance_cache_[] without the
\* lock: a service that was unsubscribed meanwhile has an empty entry again.
LogSize(t) ==
    /\ at[t] = "log"
    /\ entry' \in {entry, TRUE}
    /\ Goto(t, AfterRefresh(t))
    /\ UNCHANGED <<zk, connected, watching, cached, todo, got, history>>

-----------------------------------------------------------------------------
(* Subscribe and Unsubscribe.                                              *)

Subscribe(t) ==
    /\ at[t] = "idle"
    /\ IsConnected
    /\ Goto(t, "refresh")
    /\ UNCHANGED <<zk, client, todo, got, history>>

\* WatchChildren stores the callback and then sets the watch.
WatchChildren(t) ==
    /\ at[t] = "watch"
    /\ watching' = (watching \/ IsConnected)
    /\ unarmed' = (unarmed \/ ~IsConnected)
    /\ Goto(t, IF IsConnected THEN "arm" ELSE "idle")
    /\ UNCHANGED <<zk, connected, entry, cached, todo, got, stale>>

\* zoo_wget_children.  The list it returns is thrown away.  A path that does
\* not exist cannot be watched.
SetWatch(t) ==
    /\ at[t] = "arm"
    /\ \/ /\ session = "connected" /\ path
          /\ armed' = "yes"
          /\ unarmed' = FALSE
       \/ /\ session # "connected" \/ ~path \/ "read" \in Faults
          /\ unarmed' = TRUE
          /\ UNCHANGED armed
    /\ Goto(t, "idle")
    /\ UNCHANGED <<path, children, session, events, client, todo, got, stale>>

UnwatchChildren(t) ==
    /\ at[t] = "idle"
    /\ watching' = FALSE
    /\ Goto(t, "erase")
    /\ UNCHANGED <<zk, connected, entry, cached, todo, got, history>>

EraseEntry(t) ==
    /\ at[t] = "erase"
    /\ entry' = FALSE
    /\ cached' = {}
    /\ stale' = stale \cup {"cache"}
    /\ Goto(t, "idle")
    /\ UNCHANGED <<zk, connected, watching, todo, got, unarmed>>

-----------------------------------------------------------------------------
(* The event thread.                                                       *)

HandleSessionEvent ==
    /\ at[EventThread] = "idle"
    /\ events # <<>> /\ Head(events) # "child"
    /\ connected' = (Head(events) = "connected")
    /\ events' = Tail(events)
    /\ UNCHANGED <<path, children, session, armed, watching, entry, cached,
                   at, todo, got, history>>

\* Without a stored callback the event is dropped.
HandleChildEvent ==
    /\ at[EventThread] = "idle"
    /\ events # <<>> /\ Head(events) = "child"
    /\ events' = Tail(events)
    /\ IF watching
       THEN Goto(EventThread, "refresh") /\ UNCHANGED history
       ELSE /\ stale' = stale \cup {"cache"}
            /\ unarmed' = TRUE
            /\ UNCHANGED at
    /\ UNCHANGED <<path, children, session, armed, client, todo, got>>

\* Faulty variant of ResetWatch: the watch is taken to be permanent.
ResetWatchSkipped ==
    /\ at[EventThread] = "rearm"
    /\ Goto(EventThread, "idle")
    /\ UNCHANGED <<zk, client, todo, got, history>>

ResetWatch ==
    /\ at[EventThread] = "rearm"
    /\ Goto(EventThread, IF watching /\ IsConnected THEN "arm" ELSE "idle")
    /\ unarmed' = (unarmed \/ ~(watching /\ IsConnected))
    /\ UNCHANGED <<zk, client, todo, got, stale>>

-----------------------------------------------------------------------------
(* ZooKeeper.                                                              *)

\* The children become c.  A set watch fires, or will on reconnect; without
\* one, the cache lacks the change, as do lists that were already read.
Change(c) ==
    /\ children' = c
    /\ c # {} => path'
    /\ \/ /\ armed = "yes" /\ session = "connected" /\ Len(events) < MaxEvents
          /\ armed' = "no" /\ events' = Append(events, "child")
       \/ /\ armed = "yes" /\ session = "connecting"
          /\ armed' = "changed" /\ UNCHANGED events
       \/ /\ armed \in {"no", "changed"}
          /\ UNCHANGED <<armed, events>>
    /\ stale' = stale \cup {t \in Threads : at[t] = "data"}
                      \cup (IF armed = "no" THEN {"cache"} ELSE {})
    /\ UNCHANGED <<session, client, at, todo, got, unarmed>>

\* A server registers, and creates the path if it is the first ever.
Appear(i) ==
    /\ i \notin children
    /\ path' = TRUE
    /\ Change(children \cup {i})

\* A server unregisters, or its session ends.
Disappear(i) ==
    /\ i \in children
    /\ UNCHANGED path
    /\ Change(children \ {i})

Disconnect ==
    /\ "session" \in Faults
    /\ session = "connected"
    /\ Len(events) < MaxEvents
    /\ session' = "connecting"
    /\ events' = Append(events, "connecting")
    /\ UNCHANGED <<path, children, armed, client, at, todo, got, history>>

Reconnect ==
    /\ session = "connecting"
    /\ Len(events) + 1 < MaxEvents
    /\ session' = "connected"
    /\ events' = events \o (IF armed = "changed" THEN <<"connected", "child">>
                                                 ELSE <<"connected">>)
    /\ armed' = IF armed = "changed" THEN "no" ELSE armed
    /\ UNCHANGED <<path, children, client, at, todo, got, history>>

\* The client learns that the session is gone when it reaches a server again.
Expire ==
    /\ session = "connecting"
    /\ Len(events) < MaxEvents
    /\ session' = "expired"
    /\ events' = Append(events, "expired")
    /\ armed' = "no"
    /\ unarmed' = TRUE
    /\ UNCHANGED <<path, children, client, at, todo, got, stale>>

-----------------------------------------------------------------------------
\* What thread t does by itself once it has begun.
ThreadStep(t) ==
    \/ BeginRefresh(t)
    \/ GetChildren(t)
    \/ \E i \in Instances : GetData(t, i)
    \/ StoreInstances(t)
    \/ LogSize(t)
    \/ WatchChildren(t)
    \/ SetWatch(t)
    \/ EraseEntry(t)

EventThreadStep == HandleSessionEvent \/ HandleChildEvent \/ ResetWatch

Next ==
    \/ \E t \in Threads : ThreadStep(t)
    \/ \E t \in Apps : Subscribe(t) \/ UnwatchChildren(t)
    \/ EventThreadStep
    \/ \E i \in Instances : Appear(i) \/ Disappear(i)
    \/ Disconnect
    \/ Reconnect
    \/ Expire

Spec == Init /\ [][Next]_vars

\* Threads run and ZooKeeper answers; nothing else need happen.
Fairness ==
    /\ \A t \in Threads : WF_vars(ThreadStep(t))
    /\ WF_vars(EventThreadStep)
FairSpec == Spec /\ Fairness

-----------------------------------------------------------------------------
(* Properties.                                                             *)

\* Every thread rests, every event was handled, and the watch is set.
Settled ==
    /\ \A t \in Threads : at[t] = "idle"
    /\ events = <<>>
    /\ IsConnected
    /\ watching
    /\ armed = "yes"

\* A settled cache holds exactly the registered instances, whatever
\* interleaving of subscriptions, events, changes and reconnects led there.
\* The exceptions, which stale records: a change while no watch was set, a
\* list overtaken by a change before it was stored, an event that met no
\* connection or no subscription, a read that failed, an entry erased.
CacheCurrentUnlessStale == Settled /\ "cache" \notin stale => entry /\ cached = children

\* A subscription keeps its watch: after each event the watch is set again,
\* however fast changes follow each other, unless an attempt to set it came
\* to nothing (no connection, no path, an event without subscription).
WatchComesBack == []<>(armed # "no" \/ ~watching \/ unarmed)
=============================================================================
