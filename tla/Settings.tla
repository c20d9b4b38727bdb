------------------------------ MODULE Settings ------------------------------
(***************************************************************************)
(* How a server process comes by its configuration: Config::LoadFromFile   *)
(* with ValidateConfig, then ServerBuilder::Build with LoadFromEnv and the *)
(* overrides of the builder.  Of the settings with one and the same check  *)
(* one stands for all; texts are empty (0) or not (1), switches 0 or 1.    *)
(***************************************************************************)
EXTENDS Integers, FiniteSets, Functions

CONSTANTS
    Values,    \* numbers that a file or a variable may give
    Junk,      \* a text that is neither a number nor a switch
    MaxPort,   \* 65535
    MaxGiven   \* bound: settings given by file, environment and builder

Numbers == {"grpc_port", "pool_size", "access_ttl", "refresh_ttl", "code_ttl", "lock_seconds",
            "max_failed", "captcha_after", "min_length", "max_length", "weight"}
Texts == {"jwt_secret", "service_name"}
Switches == {"zk_enabled", "register_self"}
Names == Numbers \cup Texts \cup Switches

\* LoadFromEnv has no variable for the others.
EnvNames == Names \ {"grpc_port", "pool_size", "captcha_after"}
\* WithPort, WithServiceName, EnableServiceDiscovery.
BuilderNames == {"grpc_port", "service_name", "zk_enabled"}

ASSUME ValuesAssumption == Values \subseteq Int /\ {1, 2, 3} \subseteq Values /\ MaxPort \in Nat

\* What stands in a file or a variable.
Raw(n) == CASE n \in Texts -> {0, 1}
            [] n \in Switches -> {0, 1, Junk}
            [] OTHER -> Values \cup {Junk}

\* Partial functions that give at most k settings.
Gives(names, k) ==
    UNION {{g \in [ns -> UNION {Raw(n) : n \in ns}] : \A n \in ns : g[n] \in Raw(n)} :
               ns \in {x \in SUBSET names : Cardinality(x) <= k}}

\* The initialisers of config.h, in the order of their sizes.
Default == [n \in Names |->
    CASE n \in {"refresh_ttl", "lock_seconds", "max_failed", "max_length"} -> 2
      [] OTHER -> 1]

VARIABLES
    file,     \* the YAML file
    env,      \* the environment
    builder,  \* what main asked of the builder
    config,   \* the Config object
    loading   \* where main is

settingsVars == <<file, env, builder, config, loading>>

SettingsRest ==
    /\ file = <<>> /\ env = <<>> /\ builder = <<>> /\ config = Default /\ loading = "no"

SettingsInit ==
    /\ file \in Gives(Names, MaxGiven)
    /\ env \in Gives(EnvNames, MaxGiven - Cardinality(DOMAIN file))
    /\ builder \in {g \in Gives(BuilderNames, MaxGiven - Cardinality(DOMAIN file) - Cardinality(DOMAIN env)) :
                      \A n \in DOMAIN g : g[n] # Junk}
    /\ config = Default
    /\ loading = "file"

-----------------------------------------------------------------------------

\* The checks of ValidateConfig, each with the settings it reads.
Checks == {
    [reads |-> {"grpc_port"},                   what |-> "port"],
    [reads |-> {"pool_size"},                   what |-> "pool"],
    [reads |-> {"jwt_secret"},                  what |-> "secret"],
    [reads |-> {"access_ttl", "refresh_ttl"},   what |-> "tokens"],
    [reads |-> {"code_ttl", "lock_seconds"},    what |-> "captcha"],
    [reads |-> {"max_failed", "captcha_after"}, what |-> "login"],
    [reads |-> {"min_length", "max_length"},    what |-> "password"],
    [reads |-> {"zk_enabled", "register_self", "service_name"}, what |-> "name"],
    [reads |-> {"zk_enabled", "weight"},        what |-> "weight"]}

Holds(k, c) ==
    CASE k.what = "port" -> c["grpc_port"] \in 1 .. MaxPort
      [] k.what = "pool" -> c["pool_size"] > 0
      [] k.what = "secret" -> c["jwt_secret"] # 0
      [] k.what = "tokens" -> c["access_ttl"] > 0 /\ c["refresh_ttl"] > c["access_ttl"]
      [] k.what = "captcha" -> c["code_ttl"] > 0 /\ c["lock_seconds"] >= c["code_ttl"]
      [] k.what = "login" -> c["max_failed"] > 0 /\ c["captcha_after"] <= c["max_failed"]
      [] k.what = "password" -> c["min_length"] > 0 /\ c["min_length"] <= c["max_length"]
      [] k.what = "name" ->
            c["zk_enabled"] = 1 /\ c["register_self"] = 1 => c["service_name"] # 0
      [] k.what = "weight" -> c["zk_enabled"] = 1 => c["weight"] > 0

ValidateConfig(c) == \A k \in Checks : Holds(k, c)

Over(c, g) == [n \in Names |-> IF n \in DOMAIN g THEN g[n] ELSE c[n]]

\* A value that cannot be converted, or a failed check, is an exception, and
\* main returns.
LoadFromFile ==
    /\ loading = "file"
    /\ LET c == Over(config, file) IN
       IF (\A n \in DOMAIN file : file[n] # Junk) /\ ValidateConfig(c)
       THEN config' = c /\ loading' = "env"
       ELSE loading' = "failed" /\ UNCHANGED config
    /\ UNCHANGED <<file, env, builder>>

\* atoi, and the comparison with "true" and "1": junk is 0.
EnvValue(n) == IF env[n] = Junk THEN 0 ELSE env[n]

LoadFromEnv ==
    /\ loading = "env"
    /\ config' = Over(config, [n \in DOMAIN env |-> EnvValue(n)])
    /\ loading' = "build"
    /\ UNCHANGED <<file, env, builder>>

\* The overrides of the builder; nothing is validated again.
Build ==
    /\ loading = "build"
    /\ config' = Over(config, builder)
    /\ loading' = "built"
    /\ UNCHANGED <<file, env, builder>>

Configure == LoadFromFile \/ LoadFromEnv \/ Build

-----------------------------------------------------------------------------
(* Properties.                                                             *)

\* A server is built only with a configuration that passes the checks: Build
\* is documented to throw when the configuration is invalid, and the checks
\* to come after file, environment and command line were merged.
BuiltConfigValid == loading = "built" => ValidateConfig(config)
=============================================================================
