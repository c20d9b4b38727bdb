----------------------------- MODULE Selection ------------------------------
(***************************************************************************)
(* ServiceDiscovery::SelectInstance and SelectInstanceWeighted: the choice *)
(* of an instance from the cached list.                                    *)
(***************************************************************************)
EXTENDS Integers, Sequences, FiniteSets

CONSTANTS
    Weights,       \* weights that instances register with
    MaxInstances,  \* bound: instances of the service
    IntMax         \* the largest int

ASSUME InstancesAssumption == Weights \subseteq Int /\ MaxInstances \in Nat /\ IntMax \in Nat

\* What the cache holds: the weights of the instances, in order.
Lists == UNION {[1 .. n -> Weights] : n \in 0 .. MaxInstances}

VARIABLES
    cache,     \* instance_cache_ of the service
    list,      \* the copy that GetInstances returned
    selecting, \* where SelectInstanceWeighted is
    chosen     \* the place in list of the instance returned; 0 is nullptr

selectionVars == <<cache, list, selecting, chosen>>

SelectionRest == cache = <<>> /\ list = <<>> /\ selecting = "no" /\ chosen = 0

SelectionInit ==
    /\ cache \in Lists /\ list = <<>>
    /\ selecting = "begin" /\ chosen = 0

\* RefreshInstances: the registry may change to anything.
Refresh ==
    /\ selecting \in {"begin", "fallback"}
    /\ cache' \in Lists
    /\ UNCHANGED <<list, selecting, chosen>>

\* The sums of the loops, an int, after each instance.
Wrapped(x) == ((x + IntMax + 1) % (2 * IntMax + 2)) - IntMax - 1
Sums(ws) == LET s[n \in 0 .. Len(ws)] == IF n = 0 THEN 0 ELSE Wrapped(s[n - 1] + ws[n]) IN s
Sum(ws, n) == Sums(ws)[n]

\* Faulty variant of Pick: the boundary belongs to the next instance.
PickStrict(ws, draw) ==
    LET reached == {i \in DOMAIN ws : draw < Sum(ws, i)} IN
    IF reached = {} THEN Len(ws) ELSE CHOOSE i \in reached : \A j \in reached : i <= j

\* The first instance whose partial sum reaches the draw, or the last one.
Pick(ws, draw) ==
    LET reached == {i \in DOMAIN ws : draw <= Sum(ws, i)} IN
    IF reached = {} THEN Len(ws) ELSE CHOOSE i \in reached : \A j \in reached : i <= j

\* With no weight at all it begins anew, as SelectInstance.
SelectInstanceWeighted ==
    /\ selecting = "begin"
    /\ list' = cache
    /\ LET total == Sum(cache, Len(cache)) IN
       \/ cache = <<>> /\ selecting' = "done" /\ UNCHANGED chosen
       \/ cache # <<>> /\ total <= 0 /\ selecting' = "fallback" /\ UNCHANGED chosen
       \/ /\ \E draw \in 1 .. total : chosen' = Pick(cache, draw)
          /\ selecting' = "done"
    /\ UNCHANGED cache

\* SelectInstance reads the cache again.
SelectInstance ==
    /\ selecting = "fallback"
    /\ list' = cache
    /\ chosen' \in IF cache = <<>> THEN {0} ELSE DOMAIN cache
    /\ selecting' = "uniform"
    /\ UNCHANGED cache

SelectionNext == Refresh \/ SelectInstanceWeighted \/ SelectInstance

-----------------------------------------------------------------------------
(* Properties.                                                             *)

\* Each instance has as many draws as its weight says, and no draw goes to
\* one without weight; weights below zero take from their neighbours.  As
\* long as no addition of the loop leaves the ints.
DrawsFollowWeights ==
    LET total == Sum(cache, Len(cache))
        Draws(i) == {d \in 1 .. total : Pick(cache, d) = i}
        exact == \A i \in DOMAIN cache : Sum(cache, i) = Sum(cache, i - 1) + cache[i] IN
    total > 0 /\ exact =>
        \A i \in DOMAIN cache :
            /\ (\A j \in DOMAIN cache : cache[j] >= 0) => Cardinality(Draws(i)) = cache[i]
            /\ cache[i] <= 0 => Draws(i) = {}
=============================================================================
