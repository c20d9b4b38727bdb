------------------------- MODULE Discovery_proofs ---------------------------
(***************************************************************************)
(* Proofs about Discovery, for any number of instances and application     *)
(* threads, any bound on undelivered events and any faults; and about      *)
(* Selection, for every list of weights.                                   *)
(***************************************************************************)
EXTENDS Discovery, Selection, FiniteSetTheorems, TLAPS

-----------------------------------------------------------------------------
(* Queues of events.                                                       *)

Events == {"child", "connected", "connecting", "expired"}
HasChild(q) == \E i \in 1 .. Len(q) : q[i] = "child"

\* An event is added at the end, and what waits goes on waiting.
LEMMA AppendEvent ==
    ASSUME NEW q \in Seq(Events), NEW e \in Events
    PROVE  /\ Append(q, e) \in Seq(Events)
           /\ HasChild(q) \/ e = "child" => HasChild(Append(q, e))
  <1>1. /\ Len(Append(q, e)) = Len(q) + 1
        /\ \A i \in 1 .. Len(q) : Append(q, e)[i] = q[i]
        /\ Append(q, e)[Len(q) + 1] = e
        /\ Len(q) \in Nat
    OBVIOUS
  <1> QED BY <1>1 DEF HasChild

\* The first event is taken off; another one that waits goes on waiting.
LEMMA TakeEvent ==
    ASSUME NEW q \in Seq(Events), q # <<>>
    PROVE  /\ Head(q) \in Events
           /\ Tail(q) \in Seq(Events)
           /\ HasChild(q) /\ Head(q) # "child" => HasChild(Tail(q))
  <1>1. /\ Head(q) = q[1] /\ Head(q) \in Events /\ Tail(q) \in Seq(Events)
        /\ Len(q) \in Nat /\ Len(Tail(q)) = Len(q) - 1
        /\ \A i \in 1 .. Len(Tail(q)) : Tail(q)[i] = q[i + 1]
    OBVIOUS
  <1>2. ASSUME HasChild(q), Head(q) # "child" PROVE HasChild(Tail(q))
    <2>1. PICK i \in 1 .. Len(q) : q[i] = "child"
      BY <1>2 DEF HasChild
    <2>2. i - 1 \in 1 .. Len(Tail(q)) /\ Tail(q)[i - 1] = "child"
      BY <1>1, <1>2, <2>1
    <2> QED BY <2>2 DEF HasChild
  <1> QED BY <1>1, <1>2

\* A reconnect adds its own event and, perhaps, that of a watch.
LEMMA ReconnectEvents ==
    ASSUME NEW q \in Seq(Events)
    PROVE  /\ q \o <<"connected">> \in Seq(Events)
           /\ q \o <<"connected", "child">> \in Seq(Events)
           /\ HasChild(q) => HasChild(q \o <<"connected">>)
           /\ HasChild(q \o <<"connected", "child">>)
  <1>1. /\ "child" \in Events /\ "connected" \in Events
        /\ q \o <<"connected">> = Append(q, "connected")
        /\ q \o <<"connected", "child">> = Append(Append(q, "connected"), "child")
    BY DEF Events
  <1>2. Append(q, "connected") \in Seq(Events)
    BY <1>1, AppendEvent
  <1> QED BY <1>1, <1>2, AppendEvent

-----------------------------------------------------------------------------
(* Type correctness.                                                       *)

ZooKeeper ==
    /\ path \in BOOLEAN
    /\ children \subseteq Instances
    /\ children # {} => path
    /\ session \in {"connected", "connecting", "expired"}
    /\ armed \in {"no", "yes", "changed"}
    /\ armed = "changed" => session = "connecting"
    /\ events \in Seq(Events)

Client ==
    /\ connected \in BOOLEAN
    /\ watching \in BOOLEAN
    /\ entry \in BOOLEAN
    /\ cached \subseteq Instances
    /\ ~entry => cached = {}

Positions ==
    /\ at \in [Threads -> Steps]
    /\ todo \in [Threads -> SUBSET Instances]
    /\ got \in [Threads -> SUBSET Instances]
    /\ \A t \in Threads : at[t] # "data" => todo[t] = {} /\ got[t] = {}

History ==
    /\ stale \subseteq Threads \cup {"cache"}
    /\ unarmed \in BOOLEAN

\* The type invariant in parts.
LEMMA TypeParts == TypeOK <=> ZooKeeper /\ Client /\ Positions /\ History
  BY DEF TypeOK, ZooKeeper, Client, Positions, History, Events

LEMMA TypePartsNext == TypeOK' <=> ZooKeeper' /\ Client' /\ Positions' /\ History'
  BY DEF TypeOK, ZooKeeper, Client, Positions, History, Events

LEMMA TypeInit == Init => TypeOK
  <1> SUFFICES ASSUME Init PROVE TypeOK
      OBVIOUS
  <1>1. ZooKeeper
    BY DEF Init, ZooKeeper
  <1>2. Client
    BY DEF Init, Client
  <1>3. Positions
    BY DEF Init, Positions, Steps
  <1>4. History
    BY DEF Init, History
  <1> QED BY <1>1, <1>2, <1>3, <1>4, TypeParts

\* A thread that moves and is in no refresh afterwards or before.
LEMMA MovesOutside ==
    ASSUME Positions, NEW t \in Threads, NEW s \in Steps, Goto(t, s),
           at[t] # "data", s # "data", UNCHANGED <<todo, got>>
    PROVE  Positions'
  BY DEF Positions, Goto

\* The types of a thread's own steps.
LEMMA ThreadTypes ==
    ASSUME TypeOK, NEW t \in Threads, ThreadStep(t)
    PROVE  TypeOK'
  <1>0. ZooKeeper /\ Client /\ Positions /\ History
    BY TypeParts
  <1>1. CASE BeginRefresh(t)
    <2> USE <1>0, <1>1 DEF BeginRefresh
    <2>1. PICK s \in Steps : s # "data" /\ Goto(t, s)
      BY DEF Steps, AfterRefresh
    <2>2. Positions'
      BY <2>1, MovesOutside
    <2>3. ZooKeeper' /\ Client'
      BY DEF ZooKeeper, Client, zk, client
    <2>4. History'
      BY DEF History
    <2> QED BY <2>2, <2>3, <2>4, TypePartsNext
  <1>2. CASE GetChildren(t)
    <2> USE <1>0, <1>2 DEF GetChildren
    <2>1. Positions'
      <3>1. at' \in [Threads -> Steps] /\ at'[t] = "data"
        BY DEF Positions, Goto, Steps
      <3>2. todo' \in [Threads -> SUBSET Instances] /\ got' = got
        BY DEF Positions, ZooKeeper
      <3>3. \A u \in Threads : u # t => at'[u] = at[u] /\ todo'[u] = todo[u]
        BY DEF Positions, Goto
      <3> QED BY <3>1, <3>2, <3>3 DEF Positions
    <2>2. ZooKeeper' /\ Client'
      BY DEF ZooKeeper, Client, zk, client
    <2>3. History'
      BY DEF History
    <2> QED BY <2>1, <2>2, <2>3, TypePartsNext
  <1>3. CASE \E i \in Instances : GetData(t, i)
    <2> PICK i \in Instances : GetData(t, i)
      BY <1>3
    <2> USE <1>0 DEF GetData
    <2>1. Positions'
      <3>1. todo' \in [Threads -> SUBSET Instances] /\ got' \in [Threads -> SUBSET Instances] /\ at' = at
        BY DEF Positions
      <3>2. \A u \in Threads : u # t => got'[u] = got[u] /\ todo'[u] = todo[u]
        BY DEF Positions
      <3> QED BY <3>1, <3>2 DEF Positions
    <2>2. ZooKeeper' /\ Client'
      BY DEF ZooKeeper, Client, zk, client
    <2>3. History'
      BY DEF History
    <2> QED BY <2>1, <2>2, <2>3, TypePartsNext
  <1>4. CASE StoreInstances(t)
    <2> USE <1>0, <1>4 DEF StoreInstances
    <2>1. Positions'
      BY DEF Positions, Goto, Steps
    <2>2. ZooKeeper'
      BY DEF ZooKeeper, zk
    <2>3. Client'
      BY DEF Client, Positions
    <2>4. History'
      BY DEF History
    <2> QED BY <2>1, <2>2, <2>3, <2>4, TypePartsNext
  <1>5. CASE LogSize(t)
    <2> USE <1>0, <1>5 DEF LogSize
    <2>1. PICK s \in Steps : s # "data" /\ Goto(t, s)
      BY DEF Steps, AfterRefresh
    <2>2. Positions'
      BY <2>1, MovesOutside
    <2>3. ZooKeeper' /\ History'
      BY DEF ZooKeeper, History, zk, history
    <2>4. Client'
      <3>1. CASE entry' = entry
        BY <3>1 DEF Client
      <3>2. CASE entry' = TRUE
        BY <3>2 DEF Client
      <3> QED BY <3>1, <3>2
    <2> QED BY <2>2, <2>3, <2>4, TypePartsNext
  <1>6. CASE WatchChildren(t)
    <2> USE <1>0, <1>6 DEF WatchChildren
    <2>1. PICK s \in Steps : s # "data" /\ Goto(t, s)
      BY DEF Steps
    <2>2. Positions'
      BY <2>1, MovesOutside
    <2>3. ZooKeeper'
      BY DEF ZooKeeper, zk
    <2>4. Client' /\ History'
      BY DEF Client, History
    <2> QED BY <2>2, <2>3, <2>4, TypePartsNext
  <1>7. CASE SetWatch(t)
    <2> USE <1>0, <1>7 DEF SetWatch
    <2>1. "idle" \in Steps
      BY DEF Steps
    <2>2. Positions'
      BY <2>1, MovesOutside
    <2>3. ZooKeeper'
      BY DEF ZooKeeper
    <2>4. Client' /\ History'
      BY DEF Client, History, client
    <2> QED BY <2>2, <2>3, <2>4, TypePartsNext
  <1>8. CASE EraseEntry(t)
    <2> USE <1>0, <1>8 DEF EraseEntry
    <2>1. "idle" \in Steps
      BY DEF Steps
    <2>2. Positions'
      BY <2>1, MovesOutside
    <2>3. ZooKeeper'
      BY DEF ZooKeeper, zk
    <2>4. Client' /\ History'
      BY DEF Client, History
    <2> QED BY <2>2, <2>3, <2>4, TypePartsNext
  <1> QED BY <1>1, <1>2, <1>3, <1>4, <1>5, <1>6, <1>7, <1>8 DEF ThreadStep

\* The types of what begins on an application's thread or the event thread.
LEMMA CallTypes ==
    ASSUME TypeOK, \/ \E t \in Apps : Subscribe(t) \/ UnwatchChildren(t)
                   \/ EventThreadStep
    PROVE  TypeOK'
  <1>0. ZooKeeper /\ Client /\ Positions /\ History /\ EventThread \in Threads /\ Apps \subseteq Threads
    BY TypeParts DEF Threads
  <1>1. CASE \E t \in Apps : Subscribe(t)
    <2> PICK t \in Apps : Subscribe(t)
      BY <1>1
    <2>1. Positions'
      BY <1>0, MovesOutside DEF Subscribe, Steps
    <2>2. ZooKeeper' /\ Client' /\ History'
      BY <1>0 DEF Subscribe, ZooKeeper, Client, History, zk, client, history
    <2> QED BY <2>1, <2>2, TypePartsNext
  <1>2. CASE \E t \in Apps : UnwatchChildren(t)
    <2> PICK t \in Apps : UnwatchChildren(t)
      BY <1>2
    <2>1. Positions'
      BY <1>0, MovesOutside DEF UnwatchChildren, Steps
    <2>2. ZooKeeper' /\ Client' /\ History'
      BY <1>0 DEF UnwatchChildren, ZooKeeper, Client, History, zk, history
    <2> QED BY <2>1, <2>2, TypePartsNext
  <1>3. CASE HandleSessionEvent
    <2> USE <1>0, <1>3 DEF HandleSessionEvent
    <2>1. ZooKeeper'
      BY TakeEvent DEF ZooKeeper
    <2>2. Client'
      BY DEF Client
    <2>3. Positions' /\ History'
      BY DEF Positions, History, history
    <2> QED BY <2>1, <2>2, <2>3, TypePartsNext
  <1>4. CASE HandleChildEvent
    <2> USE <1>0, <1>4 DEF HandleChildEvent
    <2>1. ZooKeeper'
      BY TakeEvent DEF ZooKeeper
    <2>2. Client'
      BY DEF Client, client
    <2>3. Positions'
      BY DEF Positions, Goto, Steps
    <2>4. History'
      BY DEF History, history
    <2> QED BY <2>1, <2>2, <2>3, <2>4, TypePartsNext
  <1>5. CASE ResetWatch
    <2> USE <1>0, <1>5 DEF ResetWatch
    <2>1. ZooKeeper' /\ Client'
      BY DEF ZooKeeper, Client, zk, client
    <2>2. Positions'
      BY DEF Positions, Goto, Steps
    <2>3. History'
      BY DEF History
    <2> QED BY <2>1, <2>2, <2>3, TypePartsNext
  <1> QED BY <1>1, <1>2, <1>3, <1>4, <1>5 DEF EventThreadStep

\* The types of what happens in ZooKeeper, and of a stutter.
LEMMA ZooKeeperTypes ==
    ASSUME TypeOK, \/ \E i \in Instances : Appear(i) \/ Disappear(i)
                   \/ Disconnect \/ Reconnect \/ Expire \/ UNCHANGED vars
    PROVE  TypeOK'
  <1>0. ZooKeeper /\ Client /\ Positions /\ History
    BY TypeParts
  <1>1. CASE \E i \in Instances : Appear(i) \/ Disappear(i)
    <2> PICK i \in Instances : Appear(i) \/ Disappear(i)
      BY <1>1
    <2>1. PICK c \in SUBSET Instances : Change(c) /\ path' \in BOOLEAN
      BY <1>0 DEF Appear, Disappear, ZooKeeper
    <2>2. ZooKeeper'
      <3>1. events' \in Seq(Events)
        BY <1>0, <2>1, AppendEvent DEF Change, ZooKeeper, Events
      <3> QED BY <1>0, <2>1, <3>1 DEF Change, ZooKeeper
    <2>3. Client' /\ Positions' /\ History'
      BY <1>0, <2>1 DEF Change, Client, Positions, History, client
    <2> QED BY <2>2, <2>3, TypePartsNext
  <1>2. CASE Disconnect \/ Expire
    <2>1. ZooKeeper'
      <3>1. events' \in Seq(Events)
        BY <1>0, <1>2, AppendEvent DEF Disconnect, Expire, ZooKeeper, Events
      <3> QED BY <1>0, <1>2, <3>1 DEF Disconnect, Expire, ZooKeeper
    <2>2. Client' /\ Positions' /\ History'
      BY <1>0, <1>2 DEF Disconnect, Expire, Client, Positions, History, client, history
    <2> QED BY <2>1, <2>2, TypePartsNext
  <1>3. CASE Reconnect
    <2>1. ZooKeeper'
      <3>1. events' \in Seq(Events)
        BY <1>0, <1>3, ReconnectEvents DEF Reconnect, ZooKeeper
      <3> QED BY <1>0, <1>3, <3>1 DEF Reconnect, ZooKeeper
    <2>2. Client' /\ Positions' /\ History'
      BY <1>0, <1>3 DEF Reconnect, Client, Positions, History, client, history
    <2> QED BY <2>1, <2>2, TypePartsNext
  <1>4. CASE UNCHANGED vars
    <2>1. ZooKeeper' /\ Client' /\ Positions' /\ History'
      BY <1>0, <1>4 DEF ZooKeeper, Client, Positions, History, vars, zk, client, history
    <2> QED BY <2>1, TypePartsNext
  <1> QED BY <1>1, <1>2, <1>3, <1>4

\* Every variable keeps its type; a watch that is to fire on reconnect waits
\* for a session that is being reconnected, and only a thread in a refresh
\* holds a list.
THEOREM DiscoveryTypeCorrect == Spec => []TypeOK
  <1>1. TypeOK /\ [Next]_vars => TypeOK'
    BY ThreadTypes, CallTypes, ZooKeeperTypes DEF Next
  <1> QED BY <1>1, TypeInit, PTL DEF Spec

-----------------------------------------------------------------------------
(* Why a settled cache is current.                                         *)

\* The cache shows what is registered.
Fresh == entry /\ cached = children

\* An event that tells of a change is to fire, is under way, or is being
\* worked on.
Refreshing == {"refresh", "list", "data"}
NewsComing ==
    \/ armed = "changed"
    \/ HasChild(events)
    \/ at[EventThread] \in Refreshing

\* No watch is set and nobody is about to set one.
AboutToWatch == {"log", "watch", "arm", "rearm"}
Untouched == armed = "no" /\ \A t \in Threads : at[t] \notin AboutToWatch

\* What a refresh has read and has still to read are the children, unless
\* its list was overtaken.
ListsCurrent ==
    \A t \in Threads : at[t] = "data" /\ t \notin stale => got[t] \cup todo[t] = children

CacheInv ==
    /\ ListsCurrent
    /\ session # "expired" /\ "cache" \notin stale => Fresh \/ NewsComing \/ Untouched

\* A step that leaves the session, the watch, the children, the cache, the
\* queue and the lists alone, and moves a thread neither into nor out of a
\* refresh of the event thread.
LEMMA CacheQuiet ==
    ASSUME CacheInv, Positions, NEW t \in Threads, NEW s \in Steps, Goto(t, s),
           at[t] # "data", s # "data",
           at[t] \in Refreshing /\ t = EventThread => s \in Refreshing,
           s \in AboutToWatch => at[t] \in AboutToWatch,
           UNCHANGED <<session, armed, children, cached, events, todo, got, stale>>,
           entry => entry'
    PROVE  CacheInv'
  <1>1. at'[t] = s /\ \A u \in Threads : u # t => at'[u] = at[u]
    BY DEF Positions, Goto
  <1>2. EventThread \in Threads
    BY DEF Threads
  <1>3. ListsCurrent'
    BY <1>1 DEF CacheInv, ListsCurrent
  <1>4. Fresh => Fresh'
    BY DEF Fresh
  <1>5. NewsComing => NewsComing'
    BY <1>1, <1>2 DEF NewsComing
  <1>6. Untouched => Untouched'
    BY <1>1 DEF Untouched
  <1> QED BY <1>3, <1>4, <1>5, <1>6 DEF CacheInv

\* A step after which the cache is known to be stale.
LEMMA CacheStale ==
    ASSUME CacheInv, ListsCurrent', "cache" \in stale'
    PROVE  CacheInv'
  BY DEF CacheInv

\* A thread's own steps keep it: a refresh whose list was not overtaken puts
\* what is registered into the cache.
LEMMA CacheThread ==
    ASSUME TypeOK, CacheInv, NEW t \in Threads, ThreadStep(t)
    PROVE  CacheInv'
  <1>0. /\ ZooKeeper /\ Client /\ Positions /\ History /\ EventThread \in Threads
        /\ "cache" \notin Threads
    BY TypeParts, AppsAssumption DEF Threads, EventThread
  <1>1. CASE BeginRefresh(t)
    <2> USE <1>1 DEF BeginRefresh
    <2>1. CASE IsConnected
      <3>1. "list" \in Steps /\ "list" \in Refreshing /\ "list" \notin AboutToWatch
        BY DEF Steps, Refreshing, AboutToWatch
      <3> QED BY <1>0, <2>1, <3>1, CacheQuiet DEF zk, client
    <2>2. CASE ~IsConnected
      <3>1. PICK s \in Steps : s # "data" /\ Goto(t, s)
        BY <2>2 DEF Steps, AfterRefresh
      <3>2. at'[t] = s /\ \A u \in Threads : u # t => at'[u] = at[u]
        BY <1>0, <3>1 DEF Positions, Goto
      <3>3. "cache" \in stale' /\ stale \subseteq stale' /\ UNCHANGED <<children, todo, got>>
        BY <2>2 DEF zk
      <3>4. ListsCurrent'
        BY <3>1, <3>2, <3>3 DEF ListsCurrent, CacheInv
      <3> QED BY <3>3, <3>4, CacheStale
    <2> QED BY <2>1, <2>2
  <1>2. CASE GetChildren(t)
    <2> USE <1>2 DEF GetChildren
    <2>1. /\ at'[t] = "data" /\ at[t] = "list"
          /\ \A u \in Threads : u # t => at'[u] = at[u] /\ todo'[u] = todo[u]
      BY <1>0 DEF Positions, Goto
    <2>2. /\ got' = got /\ children' = children /\ got[t] = {}
          /\ t \notin stale' => todo'[t] = children
          /\ \A u \in Threads \cup {"cache"} : u # t => (u \in stale' <=> u \in stale)
      BY <1>0, <2>1 DEF Positions, zk
    <2>3. ListsCurrent'
      BY <2>1, <2>2 DEF ListsCurrent, CacheInv
    <2>4. Fresh => Fresh'
      BY DEF Fresh, zk, client
    <2>5. NewsComing => NewsComing'
      BY <1>0, <2>1 DEF NewsComing, Refreshing, zk
    <2>6. Untouched => Untouched'
      BY <2>1 DEF Untouched, AboutToWatch, zk
    <2>7. session' = session /\ ("cache" \notin stale' => "cache" \notin stale)
      BY <1>0, <2>2 DEF zk
    <2> QED BY <2>3, <2>4, <2>5, <2>6, <2>7 DEF CacheInv
  <1>3. CASE \E i \in Instances : GetData(t, i)
    <2> PICK i \in Instances : GetData(t, i)
      BY <1>3
    <2> USE DEF GetData
    <2>1. /\ at' = at /\ stale \subseteq stale' /\ children' = children
          /\ \A u \in Threads : u # t => got'[u] = got[u] /\ todo'[u] = todo[u]
      BY <1>0 DEF Positions, zk
    <2>2. t \notin stale' => got'[t] \cup todo'[t] = children
      <3> SUFFICES ASSUME t \notin stale' PROVE got'[t] \cup todo'[t] = children
          OBVIOUS
      <3>1. got[t] \cup todo[t] = children /\ i \in todo[t]
        BY <2>1 DEF CacheInv, ListsCurrent
      <3>2. got' = [got EXCEPT ![t] = @ \cup {i}] /\ todo' = [todo EXCEPT ![t] = @ \ {i}]
        BY <3>1
      <3>3. got'[t] = got[t] \cup {i} /\ todo'[t] = todo[t] \ {i}
        BY <1>0, <3>2 DEF Positions
      <3> QED BY <3>1, <3>3
    <2>3. ListsCurrent'
      BY <2>1, <2>2 DEF ListsCurrent, CacheInv
    <2>4. (Fresh => Fresh') /\ (NewsComing => NewsComing') /\ (Untouched => Untouched')
      BY <2>1 DEF Fresh, NewsComing, Untouched, zk, client
    <2>5. session' = session /\ ("cache" \notin stale' => "cache" \notin stale)
      BY <2>1 DEF zk
    <2> QED BY <2>3, <2>4, <2>5 DEF CacheInv
  <1>4. CASE StoreInstances(t)
    <2> USE <1>4 DEF StoreInstances
    <2>1. at'[t] = "log" /\ \A u \in Threads : u # t => at'[u] = at[u] /\ got'[u] = got[u]
      BY <1>0 DEF Positions, Goto
    <2>2. /\ todo' = todo /\ children' = children
          /\ \A u \in Threads : u \in stale' <=> u \in stale
      BY <1>0 DEF zk
    <2>3. ListsCurrent'
      BY <2>1, <2>2 DEF ListsCurrent, CacheInv
    <2>4. "cache" \notin stale' => Fresh'
      <3> SUFFICES ASSUME "cache" \notin stale' PROVE Fresh'
          OBVIOUS
      <3>1. t \notin stale
        OBVIOUS
      <3>2. got[t] \cup todo[t] = children /\ todo[t] = {}
        BY <3>1 DEF CacheInv, ListsCurrent
      <3> QED BY <2>2, <3>2 DEF Fresh
    <2> QED BY <2>3, <2>4 DEF CacheInv
  <1>5. CASE LogSize(t)
    <2>1. PICK s \in Steps : s # "data" /\ Goto(t, s)
      BY <1>5 DEF LogSize, Steps, AfterRefresh
    <2>2. /\ at[t] = "log" /\ UNCHANGED <<session, armed, children, cached, events, todo, got, stale>>
      BY <1>5 DEF LogSize, zk, history
    <2>3. entry => entry'
      BY <1>5 DEF LogSize
    <2>4. at[t] \notin Refreshing /\ at[t] \in AboutToWatch
      BY <2>2 DEF Refreshing, AboutToWatch
    <2> QED BY <1>0, <2>1, <2>2, <2>3, <2>4, CacheQuiet
  <1>6. CASE WatchChildren(t)
    <2>1. PICK s \in Steps : s # "data" /\ Goto(t, s)
      BY <1>6 DEF WatchChildren, Steps
    <2>2. /\ at[t] = "watch" /\ entry' = entry
          /\ UNCHANGED <<session, armed, children, cached, events, todo, got, stale>>
      BY <1>6 DEF WatchChildren, zk
    <2>3. at[t] \notin Refreshing /\ at[t] \in AboutToWatch
      BY <2>2 DEF Refreshing, AboutToWatch
    <2> QED BY <1>0, <2>1, <2>2, <2>3, CacheQuiet
  <1>7. CASE SetWatch(t)
    <2> USE <1>7 DEF SetWatch
    <2>1. /\ at'[t] = "idle" /\ at[t] = "arm"
          /\ \A u \in Threads : u # t => at'[u] = at[u]
      BY <1>0 DEF Positions, Goto, Steps
    <2>2. ~Untouched
      BY <2>1 DEF Untouched, AboutToWatch
    <2>3. ListsCurrent'
      BY <2>1 DEF ListsCurrent, CacheInv
    <2>4. Fresh => Fresh'
      BY DEF Fresh, client
    <2>5. armed = "changed" => armed' = "changed"
      BY <1>0 DEF ZooKeeper
    <2>6. NewsComing => NewsComing'
      BY <1>0, <2>1, <2>5 DEF NewsComing, Refreshing
    <2> QED BY <2>2, <2>3, <2>4, <2>6 DEF CacheInv
  <1>8. CASE EraseEntry(t)
    <2> USE <1>8 DEF EraseEntry
    <2>1. /\ at'[t] = "idle"
          /\ \A u \in Threads : u # t => at'[u] = at[u]
      BY <1>0 DEF Positions, Goto, Steps
    <2>2. ListsCurrent'
      BY <2>1 DEF ListsCurrent, CacheInv, zk
    <2> QED BY <2>2, CacheStale
  <1> QED BY <1>1, <1>2, <1>3, <1>4, <1>5, <1>6, <1>7, <1>8 DEF ThreadStep

\* So do the calls of the application and the handling of events.
LEMMA CacheCall ==
    ASSUME TypeOK, CacheInv, \/ \E t \in Apps : Subscribe(t) \/ UnwatchChildren(t)
                             \/ EventThreadStep
    PROVE  CacheInv'
  <1>0. /\ ZooKeeper /\ Positions /\ EventThread \in Threads /\ Apps \subseteq Threads
        /\ EventThread \notin Apps
    BY TypeParts, AppsAssumption DEF Threads
  <1>1. CASE \E t \in Apps : Subscribe(t) \/ UnwatchChildren(t)
    <2> PICK t \in Apps : Subscribe(t) \/ UnwatchChildren(t)
      BY <1>1
    <2>1. PICK s \in Steps : s \in {"refresh", "erase"} /\ Goto(t, s)
      BY DEF Subscribe, UnwatchChildren, Steps
    <2>2. /\ at[t] = "idle" /\ entry' = entry
          /\ UNCHANGED <<session, armed, children, cached, events, todo, got, stale>>
      BY DEF Subscribe, UnwatchChildren, zk, client, history
    <2>3. s # "data" /\ s \notin AboutToWatch
      BY <2>1 DEF AboutToWatch
    <2> QED BY <1>0, <2>1, <2>2, <2>3, CacheQuiet
  <1>2. CASE HandleSessionEvent
    <2> USE <1>2 DEF HandleSessionEvent
    <2>1. HasChild(events) => HasChild(events')
      BY <1>0, TakeEvent DEF ZooKeeper
    <2>2. ListsCurrent'
      BY DEF ListsCurrent, CacheInv, history
    <2>3. (Fresh => Fresh') /\ (Untouched => Untouched')
      BY DEF Fresh, Untouched
    <2>4. NewsComing => NewsComing'
      BY <2>1 DEF NewsComing
    <2>5. session' = session /\ stale' = stale
      BY DEF history
    <2> QED BY <2>2, <2>3, <2>4, <2>5 DEF CacheInv
  <1>3. CASE HandleChildEvent
    <2> USE <1>3 DEF HandleChildEvent
    <2>1. CASE watching
      <3>1. /\ at'[EventThread] = "refresh" /\ stale' = stale /\ session' = session
            /\ \A u \in Threads : u # EventThread => at'[u] = at[u]
        BY <1>0, <2>1 DEF Positions, Goto, history
      <3>2. ListsCurrent'
        BY <3>1 DEF ListsCurrent, CacheInv
      <3>3. NewsComing'
        BY <3>1 DEF NewsComing, Refreshing
      <3> QED BY <3>2, <3>3 DEF CacheInv
    <2>2. CASE ~watching
      <3>1. at' = at /\ "cache" \in stale' /\ stale \subseteq stale'
        BY <2>2
      <3>2. ListsCurrent'
        BY <3>1 DEF ListsCurrent, CacheInv
      <3> QED BY <3>1, <3>2, CacheStale
    <2> QED BY <2>1, <2>2
  <1>4. CASE ResetWatch
    <2>1. PICK s \in Steps : s \in {"arm", "idle"} /\ Goto(EventThread, s)
      BY <1>4 DEF ResetWatch, Steps
    <2>2. /\ at[EventThread] = "rearm" /\ entry' = entry
          /\ UNCHANGED <<session, armed, children, cached, events, todo, got, stale>>
      BY <1>4 DEF ResetWatch, zk, client
    <2>3. at[EventThread] \notin Refreshing /\ at[EventThread] \in AboutToWatch
      BY <2>2 DEF Refreshing, AboutToWatch
    <2> QED BY <1>0, <2>1, <2>2, <2>3, CacheQuiet
  <1> QED BY <1>1, <1>2, <1>3, <1>4 DEF EventThreadStep

\* So does ZooKeeper: a change is announced, or the cache is known to be
\* stale.
LEMMA CacheZooKeeper ==
    ASSUME TypeOK, CacheInv, \/ \E i \in Instances : Appear(i) \/ Disappear(i)
                             \/ Disconnect \/ Reconnect \/ Expire
    PROVE  CacheInv'
  <1>0. ZooKeeper /\ Positions
    BY TypeParts
  <1>1. CASE \E i \in Instances : Appear(i) \/ Disappear(i)
    <2>1. PICK c : Change(c)
      BY <1>1 DEF Appear, Disappear
    <2> USE <2>1 DEF Change
    <2>2. at' = at /\ session' = session /\ \A t \in Threads : at[t] = "data" => t \in stale'
      OBVIOUS
    <2>3. ListsCurrent'
      BY <2>2 DEF ListsCurrent
    <2>4. CASE armed = "no"
      BY <2>3, <2>4, CacheStale
    <2>5. CASE armed # "no"
      <3>1. armed' = "changed" \/ (events' = Append(events, "child"))
        BY <1>0, <2>5 DEF ZooKeeper
      <3>2. HasChild(Append(events, "child"))
        BY <1>0, AppendEvent DEF ZooKeeper, Events
      <3>3. NewsComing'
        BY <3>1, <3>2 DEF NewsComing
      <3> QED BY <2>3, <3>3 DEF CacheInv
    <2> QED BY <2>4, <2>5
  <1>2. CASE Disconnect
    <2> USE <1>2 DEF Disconnect
    <2>1. HasChild(events) => HasChild(events')
      BY <1>0, AppendEvent DEF ZooKeeper, Events
    <2>2. ListsCurrent'
      BY DEF ListsCurrent, CacheInv, history
    <2>3. (Fresh => Fresh') /\ (Untouched => Untouched')
      BY DEF Fresh, Untouched, client
    <2>4. NewsComing => NewsComing'
      BY <2>1 DEF NewsComing
    <2>5. stale' = stale
      BY DEF history
    <2> QED BY <2>2, <2>3, <2>4, <2>5 DEF CacheInv
  <1>3. CASE Reconnect
    <2> USE <1>3 DEF Reconnect
    <2>1. HasChild(events) \/ armed = "changed" => HasChild(events')
      BY <1>0, ReconnectEvents DEF ZooKeeper
    <2>2. ListsCurrent'
      BY DEF ListsCurrent, CacheInv, history
    <2>3. (Fresh => Fresh') /\ (Untouched => Untouched')
      BY DEF Fresh, Untouched, client
    <2>4. NewsComing => NewsComing'
      BY <2>1 DEF NewsComing
    <2>5. stale' = stale
      BY DEF history
    <2> QED BY <2>2, <2>3, <2>4, <2>5 DEF CacheInv
  <1>4. CASE Expire
    <2>1. ListsCurrent' /\ session' = "expired"
      BY <1>4 DEF Expire, ListsCurrent, CacheInv
    <2> QED BY <2>1 DEF CacheInv
  <1> QED BY <1>1, <1>2, <1>3, <1>4

\* A settled cache holds exactly the registered instances unless stale says
\* otherwise, for any number of instances, threads and waiting events: at
\* every moment the cache is current, or news of the change is on its way,
\* or no watch has been set since.
THEOREM SettledCacheIsCurrent == Spec => []CacheCurrentUnlessStale
  <1>1. Init => CacheInv
    <2> SUFFICES ASSUME Init PROVE CacheInv
        OBVIOUS
    <2>1. armed = "no" /\ \A t \in Threads : at[t] = "idle"
      BY DEF Init
    <2>2. Untouched
      BY <2>1 DEF Untouched, AboutToWatch
    <2> QED BY <2>1, <2>2 DEF CacheInv, ListsCurrent
  <1>2. TypeOK /\ CacheInv /\ [Next]_vars => CacheInv'
    <2>1. TypeOK /\ CacheInv /\ UNCHANGED vars => CacheInv'
      BY DEF CacheInv, ListsCurrent, Fresh, NewsComing, Untouched, vars, zk, client, history
    <2> QED BY <2>1, CacheThread, CacheCall, CacheZooKeeper DEF Next
  <1>3. CacheInv => CacheCurrentUnlessStale
    <2> SUFFICES ASSUME CacheInv, Settled, "cache" \notin stale PROVE Fresh
        BY DEF CacheCurrentUnlessStale, Fresh
    <2>1. session = "connected" /\ armed = "yes" /\ events = <<>> /\ at[EventThread] = "idle"
      BY DEF Settled, IsConnected, Threads
    <2>2. ~NewsComing
      BY <2>1 DEF NewsComing, HasChild, Refreshing
    <2> QED BY <2>1, <2>2 DEF CacheInv, Untouched
  <1> QED BY <1>1, <1>2, <1>3, DiscoveryTypeCorrect, PTL DEF Spec

-----------------------------------------------------------------------------
(* Selection: induction over the instances of a list.                      *)

\* A set of naturals has a least element.
LEMMA LeastNat ==
    ASSUME NEW T \in SUBSET Nat, T # {}
    PROVE  \E x \in T : \A y \in T : x <= y
  <1>1. PICK x \in T : \A y \in T : ~(<<y, x>> \in OpToRel(<, Nat))
    BY NatLessThanWellFounded, WFMin
  <1>2. \A y \in T : ~(y < x)
    BY <1>1 DEF OpToRel
  <1> QED BY <1>2

\* Induction, with the numbers of which a formula holds as a set.
LEMMA SetInduction ==
    ASSUME NEW S, 0 \in S, \A n \in Nat : n \in S => n + 1 \in S
    PROVE  Nat \subseteq S
  <1> SUFFICES ASSUME Nat \ S # {} PROVE FALSE
    OBVIOUS
  <1>1. PICK x \in Nat \ S : \A y \in Nat \ S : x <= y
    BY LeastNat
  <1>2. x - 1 \in Nat /\ x - 1 \in S
    BY <1>1
  <1> QED BY <1>1, <1>2

\* There are sums: the loop ends for every list.
LEMMA SumsExist ==
    ASSUME NEW ws, NEW n \in Nat
    PROVE  \E s : s = [k \in 0 .. n |-> IF k = 0 THEN 0 ELSE Wrapped(s[k - 1] + ws[k])]
  <1> DEFINE IsSums(s, m) ==
               s = [k \in 0 .. m |-> IF k = 0 THEN 0 ELSE Wrapped(s[k - 1] + ws[k])]
             S == {m \in Nat : \E s : IsSums(s, m)}
  <1>1. 0 \in S
    <2>1. IsSums([k \in 0 .. 0 |-> 0], 0)
      OBVIOUS
    <2> QED BY <2>1
  <1>2. ASSUME NEW m \in Nat, m \in S PROVE m + 1 \in S
    <2>1. PICK s : IsSums(s, m)
      BY <1>2
    <2> DEFINE t == [k \in 0 .. m + 1 |-> IF k <= m THEN s[k] ELSE Wrapped(s[m] + ws[m + 1])]
    <2>2. IsSums(t, m + 1)
      <3>1. ASSUME NEW k \in 0 .. m + 1
            PROVE  t[k] = IF k = 0 THEN 0 ELSE Wrapped(t[k - 1] + ws[k])
        <4>1. CASE k = 0
          BY <2>1, <4>1
        <4>2. CASE k # 0 /\ k <= m
          <5>1. k \in 0 .. m /\ k - 1 \in 0 .. m /\ k - 1 \in 0 .. m + 1 /\ k - 1 <= m
            BY <4>2
          <5>2. s[k] = Wrapped(s[k - 1] + ws[k])
            BY <2>1, <4>2, <5>1
          <5>3. t[k] = s[k] /\ t[k - 1] = s[k - 1]
            BY <4>2, <5>1
          <5> QED BY <4>2, <5>2, <5>3
        <4>3. CASE k = m + 1
          BY <4>3
        <4> QED BY <4>1, <4>2, <4>3
      <3> QED BY <3>1
    <2> HIDE DEF t
    <2> QED BY <2>2
  <1> HIDE DEF S
  <1>3. Nat \subseteq S
    BY <1>1, <1>2, SetInduction
  <1> QED BY <1>3 DEF S

\* The sum after an instance is the sum before and its weight, as an int.
LEMMA SumFacts ==
    ASSUME NEW ws \in Seq(Int)
    PROVE  /\ Sum(ws, 0) = 0
           /\ \A n \in 1 .. Len(ws) : Sum(ws, n) = Wrapped(Sum(ws, n - 1) + ws[n])
           /\ \A n \in 0 .. Len(ws) : Sum(ws, n) \in Int
  <1>1. Sums(ws) = [n \in 0 .. Len(ws) |-> IF n = 0 THEN 0 ELSE Wrapped(Sums(ws)[n - 1] + ws[n])]
    <2>1. \E s : s = [n \in 0 .. Len(ws) |-> IF n = 0 THEN 0 ELSE Wrapped(s[n - 1] + ws[n])]
      BY SumsExist
    <2> QED BY <2>1 DEF Sums
  <1>2. Sums(ws)[0] = 0 /\ \A n \in 1 .. Len(ws) : Sums(ws)[n] = Wrapped(Sums(ws)[n - 1] + ws[n])
    <2>1. ASSUME NEW s, s = [n \in 0 .. Len(ws) |-> IF n = 0 THEN 0 ELSE Wrapped(s[n - 1] + ws[n])]
          PROVE  s[0] = 0 /\ \A n \in 1 .. Len(ws) : s[n] = Wrapped(s[n - 1] + ws[n])
      <3> DEFINE Step(n) == IF n = 0 THEN 0 ELSE Wrapped(s[n - 1] + ws[n])
      <3>1. s = [n \in 0 .. Len(ws) |-> Step(n)]
        BY <2>1
      <3> HIDE DEF Step
      <3>2. \A n \in 0 .. Len(ws) : s[n] = Step(n)
        BY <3>1
      <3> QED BY <3>2 DEF Step
    <2> QED BY <1>1, <2>1
  <1>3. \A x \in Int : Wrapped(x) \in Int
    BY InstancesAssumption DEF Wrapped
  <1> DEFINE S == {n \in Nat : n <= Len(ws) => Sums(ws)[n] \in Int}
  <1>4. 0 \in S
    BY <1>2
  <1>5. ASSUME NEW n \in Nat, n \in S PROVE n + 1 \in S
    <2> SUFFICES ASSUME n + 1 <= Len(ws) PROVE Sums(ws)[n + 1] \in Int
      OBVIOUS
    <2>1. n + 1 \in 1 .. Len(ws) /\ (n + 1) - 1 = n /\ Sums(ws)[n] \in Int /\ ws[n + 1] \in Int
      BY <1>5
    <2>2. Sums(ws)[n + 1] = Wrapped(Sums(ws)[n] + ws[n + 1])
      BY <1>2, <2>1
    <2>3. Sums(ws)[n] + ws[n + 1] \in Int
      BY <2>1
    <2> QED BY <1>3, <2>2, <2>3
  <1> HIDE DEF S
  <1>6. Nat \subseteq S
    BY <1>4, <1>5, SetInduction
  <1>7. \A n \in 0 .. Len(ws) : Sums(ws)[n] \in Int
    BY <1>6 DEF S
  <1> QED BY <1>2, <1>7 DEF Sum

\* No addition of the loop leaves the ints.
Exact(ws) == \A i \in DOMAIN ws : Sum(ws, i) = Sum(ws, i - 1) + ws[i]

\* Sums of weights that are not negative grow.
LEMMA SumsGrow ==
    ASSUME NEW ws \in Seq(Int), Exact(ws), \A j \in DOMAIN ws : ws[j] >= 0,
           NEW i \in 0 .. Len(ws), NEW j \in 0 .. Len(ws), i <= j
    PROVE  Sum(ws, i) <= Sum(ws, j)
  <1> DEFINE S == {d \in Nat : i + d <= Len(ws) => Sum(ws, i) <= Sum(ws, i + d)}
  <1>0. \A n \in 0 .. Len(ws) : Sum(ws, n) \in Int
    BY SumFacts
  <1>1. 0 \in S
    BY <1>0
  <1>2. ASSUME NEW d \in Nat, d \in S PROVE d + 1 \in S
    <2> SUFFICES ASSUME i + (d + 1) <= Len(ws) PROVE Sum(ws, i) <= Sum(ws, i + (d + 1))
      OBVIOUS
    <2>1. /\ i + d \in 0 .. Len(ws) /\ i + (d + 1) \in 0 .. Len(ws) /\ i + (d + 1) \in DOMAIN ws
          /\ (i + (d + 1)) - 1 = i + d /\ Sum(ws, i) <= Sum(ws, i + d)
      BY <1>2
    <2>2. Sum(ws, i + (d + 1)) = Sum(ws, i + d) + ws[i + (d + 1)]
      BY <2>1 DEF Exact
    <2>3. ws[i + (d + 1)] \in Int /\ ws[i + (d + 1)] >= 0
      BY <2>1
    <2> QED BY <1>0, <2>1, <2>2, <2>3
  <1> HIDE DEF S
  <1>3. Nat \subseteq S
    BY <1>1, <1>2, SetInduction
  <1>4. j - i \in Nat /\ i + (j - i) = j /\ j <= Len(ws)
    OBVIOUS
  <1>5. j - i \in S
    BY <1>3, <1>4
  <1> QED BY <1>4, <1>5 DEF S

\* A draw within the sum picks the first instance whose sum reaches it.
LEMMA PickFirst ==
    ASSUME NEW ws \in Seq(Int), NEW d \in 1 .. Sum(ws, Len(ws))
    PROVE  /\ Pick(ws, d) \in DOMAIN ws
           /\ d <= Sum(ws, Pick(ws, d))
           /\ \A j \in DOMAIN ws : d <= Sum(ws, j) => Pick(ws, d) <= j
  <1> DEFINE reached == {i \in DOMAIN ws : d <= Sum(ws, i)}
  <1>0. Sum(ws, 0) = 0 /\ Sum(ws, Len(ws)) \in Int /\ Len(ws) \in Nat /\ DOMAIN ws = 1 .. Len(ws)
    <2>1. Sum(ws, 0) = 0 /\ \A n \in 0 .. Len(ws) : Sum(ws, n) \in Int
      BY SumFacts
    <2> QED BY <2>1
  <1>1. Len(ws) \in reached
    BY <1>0
  <1>2. reached \in SUBSET Nat /\ reached # {}
    BY <1>0, <1>1
  <1>3. \E i \in reached : \A j \in reached : i <= j
    BY <1>2, LeastNat
  <1>4. Pick(ws, d) = CHOOSE i \in reached : \A j \in reached : i <= j
    BY <1>2 DEF Pick
  <1>5. Pick(ws, d) \in reached /\ \A j \in reached : Pick(ws, d) <= j
    BY <1>3, <1>4
  <1> QED BY <1>5

LEMMA DrawsOfList ==
    ASSUME NEW ws \in Seq(Int), Exact(ws), Sum(ws, Len(ws)) > 0, NEW i \in DOMAIN ws
    PROVE  LET Draws == {d \in 1 .. Sum(ws, Len(ws)) : Pick(ws, d) = i}
           IN  /\ (\A j \in DOMAIN ws : ws[j] >= 0) => Cardinality(Draws) = ws[i]
               /\ ws[i] <= 0 => Draws = {}
  <1> DEFINE total == Sum(ws, Len(ws))
             Draws == {d \in 1 .. total : Pick(ws, d) = i}
  <1>0. /\ i \in 1 .. Len(ws) /\ i - 1 \in 0 .. Len(ws) /\ i \in 0 .. Len(ws) /\ Len(ws) \in 0 .. Len(ws)
        /\ i \in Nat /\ ws[i] \in Int
    OBVIOUS
  <1>1. /\ Sum(ws, 0) = 0 /\ \A n \in 0 .. Len(ws) : Sum(ws, n) \in Int
    BY SumFacts
  <1>2. total \in Int /\ Sum(ws, i) \in Int /\ Sum(ws, i - 1) \in Int /\ Sum(ws, i) = Sum(ws, i - 1) + ws[i]
    BY <1>0, <1>1 DEF Exact
  <1>3. ASSUME NEW d \in Draws PROVE Sum(ws, i - 1) < d /\ d <= Sum(ws, i)
    <2>1. d \in 1 .. total /\ Pick(ws, d) = i
      BY <1>3
    <2>2. d <= Sum(ws, i) /\ \A j \in DOMAIN ws : d <= Sum(ws, j) => i <= j
      BY <2>1, PickFirst
    <2>3. CASE i = 1
      BY <1>1, <1>2, <2>1, <2>2, <2>3
    <2>4. CASE i # 1
      <3>1. i - 1 \in DOMAIN ws /\ ~(i <= i - 1)
        BY <1>0, <2>4
      <3> QED BY <1>2, <2>1, <2>2, <3>1
    <2> QED BY <2>3, <2>4
  <1>4. ws[i] <= 0 => Draws = {}
    <2> SUFFICES ASSUME ws[i] <= 0, NEW d \in Draws PROVE FALSE
      OBVIOUS
    <2>1. d \in Int
      BY <1>2
    <2> QED BY <1>0, <1>2, <1>3, <2>1
  <1>5. ASSUME \A j \in DOMAIN ws : ws[j] >= 0 PROVE Cardinality(Draws) = ws[i]
    <2>1. 0 <= Sum(ws, i - 1) /\ Sum(ws, i) <= total
      <3>1. 0 <= i - 1 /\ i <= Len(ws) /\ 0 \in 0 .. Len(ws)
        BY <1>0
      <3>2. Sum(ws, 0) <= Sum(ws, i - 1)
        BY <1>0, <1>5, <3>1, SumsGrow
      <3>3. Sum(ws, i) <= Sum(ws, Len(ws))
        BY <1>0, <1>5, <3>1, SumsGrow
      <3> QED BY <1>1, <3>2, <3>3
    <2>2. ASSUME NEW d \in Sum(ws, i - 1) + 1 .. Sum(ws, i) PROVE d \in Draws
      <3>0. d \in 1 .. total /\ d \in Int /\ Sum(ws, i - 1) < d /\ d <= Sum(ws, i)
        BY <1>2, <2>1
      <3>1. /\ Pick(ws, d) \in DOMAIN ws /\ d <= Sum(ws, Pick(ws, d))
            /\ \A j \in DOMAIN ws : d <= Sum(ws, j) => Pick(ws, d) <= j
        BY <3>0, PickFirst
      <3> DEFINE p == Pick(ws, d)
      <3> HIDE DEF p
      <3>2. p \in DOMAIN ws /\ d <= Sum(ws, p) /\ p <= i
        BY <3>0, <3>1 DEF p
      <3>3. CASE p < i
        <4>1. p \in 0 .. Len(ws) /\ p <= i - 1
          BY <1>0, <3>2, <3>3
        <4>2. Sum(ws, p) <= Sum(ws, i - 1)
          BY <1>0, <1>5, <4>1, SumsGrow
        <4>3. Sum(ws, p) \in Int
          BY <1>1, <4>1
        <4> QED BY <1>2, <3>0, <3>2, <4>2, <4>3
      <3>4. CASE p = i
        BY <3>0, <3>4 DEF p
      <3> QED BY <1>0, <3>2, <3>3, <3>4
    <2>3. Draws = Sum(ws, i - 1) + 1 .. Sum(ws, i)
      <3>1. \A d \in Draws : d \in Sum(ws, i - 1) + 1 .. Sum(ws, i)
        <4> TAKE d \in Draws
        <4>1. d \in Int /\ Sum(ws, i - 1) < d /\ d <= Sum(ws, i)
          BY <1>2, <1>3
        <4> QED BY <1>2, <4>1
      <3> QED BY <2>2, <3>1
    <2>4. Sum(ws, i - 1) + 1 \in Int
      BY <1>2
    <2>5. Cardinality(Sum(ws, i - 1) + 1 .. Sum(ws, i)) =
              IF Sum(ws, i - 1) + 1 > Sum(ws, i) THEN 0 ELSE Sum(ws, i) - (Sum(ws, i - 1) + 1) + 1
      BY <1>2, <2>4, FS_Interval
    <2>6. ws[i] >= 0
      BY <1>5
    <2>7. Cardinality(Sum(ws, i - 1) + 1 .. Sum(ws, i)) = ws[i]
      BY <1>0, <1>2, <2>5, <2>6
    <2> HIDE DEF Draws
    <2> QED BY <2>3, <2>7
  <1> QED BY <1>4, <1>5

CacheTyped == cache \in Lists

\* SelectInstanceWeighted gives each instance of the cached list as many
\* draws as its weight says, and none to one without weight, for any list
\* whose sums are ints.
THEOREM ChoiceFollowsWeights ==
    SelectionInit /\ [][SelectionNext]_selectionVars => []DrawsFollowWeights
  <1>1. SelectionInit => CacheTyped
    BY DEF CacheTyped, SelectionInit
  <1>2. CacheTyped /\ [SelectionNext]_selectionVars => CacheTyped'
    BY DEF CacheTyped, SelectionNext, selectionVars, Refresh, SelectInstanceWeighted, SelectInstance
  <1>3. CacheTyped => DrawsFollowWeights
    <2> SUFFICES ASSUME cache \in Lists PROVE DrawsFollowWeights
      BY DEF CacheTyped
    <2>1. cache \in Seq(Int)
      <3>1. PICK n \in 0 .. MaxInstances : cache \in [1 .. n -> Weights]
        BY Zenon DEF Lists
      <3>2. n \in Nat /\ cache = [i \in 1 .. n |-> cache[i]]
        BY <3>1, InstancesAssumption
      <3>3. \A i \in 1 .. n : cache[i] \in Int
        BY <3>1, InstancesAssumption
      <3> QED BY <3>2, <3>3
    <2>2. SUFFICES ASSUME Sum(cache, Len(cache)) > 0, Exact(cache), NEW i \in DOMAIN cache
                   PROVE  LET Draws == {d \in 1 .. Sum(cache, Len(cache)) : Pick(cache, d) = i}
                          IN  /\ (\A j \in DOMAIN cache : cache[j] >= 0) => Cardinality(Draws) = cache[i]
                              /\ cache[i] <= 0 => Draws = {}
      BY DEF DrawsFollowWeights, Exact
    <2> QED BY <2>1, <2>2, DrawsOfList
  <1> QED BY <1>1, <1>2, <1>3, PTL
=============================================================================
