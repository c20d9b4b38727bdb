---------------------------- MODULE MySQLConnect ----------------------------
(***************************************************************************)
(* The constructor of MySQLConnection with ConnectWithRetry: what the pool *)
(* sees as one call of createConnFunc_ that gives a connection or throws.  *)
(* When a constructor throws, the destructor does not run, so every handle *)
(* that it made must have been closed by the constructor itself.           *)
(***************************************************************************)
EXTENDS Integers, FiniteSets

CONSTANT RetryLimits   \* values of max_retries

ASSUME RetryLimitsAssumption == RetryLimits \subseteq Nat

VARIABLES
    maxRetries,    \* max_retries of the configuration
    autoReconnect, \* auto_reconnect, FALSE when it is not given
    stage,         \* where the constructor is
    attempt,       \* attempts of ConnectWithRetry begun
    handle,        \* mysql_: the number of a handle, 0 is nullptr
    made,          \* handles that mysql_init has given
    closed,        \* handles that were closed
    refused        \* an attempt met an error that is not retryable

connectVars == <<maxRetries, autoReconnect, stage, attempt, handle, made, closed, refused>>

ConnectShape ==
    /\ attempt = 0 /\ handle = 0 /\ made = 0 /\ closed = {} /\ refused = FALSE
ConnectRest == maxRetries = 0 /\ autoReconnect = FALSE /\ stage = "no" /\ ConnectShape

ConnectInit ==
    /\ maxRetries \in RetryLimits /\ autoReconnect \in BOOLEAN
    /\ stage = "init" /\ ConnectShape

-----------------------------------------------------------------------------

\* mysql_close, and mysql_ = nullptr.
CloseHandle == closed' = closed \cup {handle} /\ handle' = 0

\* InitAndSetOptions gives a handle; without memory it throws, and there is
\* nothing to close.
InitAndSetOptions ==
    /\ stage \in {"init", "retryInit"}
    /\ \/ /\ made' = made + 1 /\ handle' = made + 1
          /\ stage' = IF stage = "init" THEN "connect" ELSE "retryConnect"
       \/ stage' = "thrown" /\ UNCHANGED <<made, handle>>
    /\ UNCHANGED <<maxRetries, autoReconnect, attempt, closed, refused>>

\* Faulty variant of FirstConnect: whether the error is retryable is asked
\* only from the second attempt on.
FirstConnectAnyError ==
    /\ stage = "connect"
    /\ \/ stage' = "connected" /\ UNCHANGED <<attempt, handle, closed, refused>>
       \/ \E retryable \in BOOLEAN :
             /\ CloseHandle
             /\ refused' = ~retryable
             /\ IF autoReconnect /\ maxRetries > 0
                THEN stage' = "retryInit" /\ attempt' = 1
                ELSE stage' = "thrown" /\ UNCHANGED attempt
    /\ UNCHANGED <<maxRetries, autoReconnect, made>>

\* The first attempt.
FirstConnect ==
    /\ stage = "connect"
    /\ \/ stage' = "connected" /\ UNCHANGED <<attempt, handle, closed, refused>>
       \/ \E retryable \in BOOLEAN :
             /\ CloseHandle
             /\ refused' = ~retryable
             /\ IF autoReconnect /\ maxRetries > 0 /\ retryable
                THEN stage' = "retryInit" /\ attempt' = 1
                ELSE stage' = "thrown" /\ UNCHANGED attempt
    /\ UNCHANGED <<maxRetries, autoReconnect, made>>

\* Faulty variant of RetryConnect: the handle is left to the destructor.
RetryConnectLeaky ==
    /\ stage = "retryConnect"
    /\ \/ stage' = "connected" /\ UNCHANGED <<attempt, refused>>
       \/ /\ refused' = FALSE
          /\ IF attempt < maxRetries
             THEN stage' = "retryInit" /\ attempt' = attempt + 1
             ELSE stage' = "thrown" /\ UNCHANGED attempt
       \/ refused' = TRUE /\ stage' = "thrown" /\ UNCHANGED attempt
    /\ UNCHANGED <<maxRetries, autoReconnect, handle, made, closed>>

\* An attempt of the loop; after an error that is not retryable the loop
\* ends.  The sleep between two attempts is nothing to see here.
RetryConnect ==
    /\ stage = "retryConnect"
    /\ \/ stage' = "connected" /\ UNCHANGED <<attempt, handle, closed, refused>>
       \/ \E retryable \in BOOLEAN :
             /\ CloseHandle
             /\ refused' = ~retryable
             /\ IF retryable /\ attempt < maxRetries
                THEN stage' = "retryInit" /\ attempt' = attempt + 1
                ELSE stage' = "thrown" /\ UNCHANGED attempt
    /\ UNCHANGED <<maxRetries, autoReconnect, made>>

Connect == InitAndSetOptions \/ FirstConnect \/ RetryConnect

ConnectSpec == ConnectInit /\ [][Connect]_connectVars

-----------------------------------------------------------------------------
(* Properties.                                                             *)

\* Whichever attempt fails, and for lack of memory or of a server: of all
\* handles that were made only the one in use is open, and it is the newest.
\* An object that could not be constructed leaves none.
OneHandle ==
    /\ (1 .. made) \ closed = IF handle = 0 THEN {} ELSE {handle}
    /\ stage = "connected" => handle = made /\ made > 0
    /\ stage = "thrown" => handle = 0

\* The pool's mutex is held meanwhile, so attempts count: at most
\* 1 + max_retries handles, one without auto_reconnect, and none after the
\* server has refused for good.
AttemptsBounded ==
    /\ made <= 1 + (IF autoReconnect THEN maxRetries ELSE 0)
    /\ refused => stage = "thrown"
=============================================================================
