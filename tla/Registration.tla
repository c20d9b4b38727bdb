---------------------------- MODULE Registration ----------------------------
(***************************************************************************)
(* The node of one server address in ZooKeeper, over the restarts of the   *)
(* server: ServiceRegistry on top of ZooKeeperClient.  A process has one   *)
(* session; the session of a crashed process lives on in the ensemble,     *)
(* with its ephemeral node, until it expires.  One action is one command:  *)
(* its reply may be lost, and then it was executed or not.                 *)
(*                                                                         *)
(* One process at a time uses the address; within it Register and          *)
(* Unregister exclude each other (ServerLifecycle models their callers).   *)
(***************************************************************************)
EXTENDS Naturals

CONSTANTS
    Data,          \* instance descriptions (weight, metadata) as stored
    Depth,         \* components of the service path: /services/user-service
    MaxSessions    \* the model's bound on sessions

ASSUME DepthAssumption == Depth \in Nat \ {0}
ASSUME MaxSessionsAssumption == MaxSessions \in Nat
ASSUME DataAssumption == Data # {} /\ "none" \notin Data

Sessions == 1 .. MaxSessions

\* Steps of Register: CreateServicePath, then CreateNode.
RegisterSteps == {"register", "exists", "mkdir", "create", "delete",
                  "recreate", "set"}
RegistrySteps == RegisterSteps \cup {"down", "connecting", "serving", "update",
                             "unregister", "closing"}

VARIABLES
    \* The ensemble.
    live,        \* sessions that have not expired
    znode,       \* the instance's ephemeral node: owner (0: no node), data
    servicePath, \* how many components of the service path exist
    \* The process.
    pc,
    self,        \* zh_: the session of the process, 0 without one
    link,        \* ZooKeeperClient::IsConnected()
    component,   \* component of the path that CreateServicePath is at
    given,       \* the instance that Register or Update was called with
    isRegistered, \* ServiceRegistry::registered_
    instance,    \* ServiceRegistry::current_instance_
    \* History.
    inherited,   \* Register succeeded by SetData on another session's node
    lostReply,   \* this process lost the reply to a create or a delete
    lostUpdate   \* the last Update lost its reply

ensemble == <<live, znode, servicePath>>
beliefs == <<isRegistered, instance>>
processHistory == <<inherited, lostReply, lostUpdate>>
registrationVars == <<live, znode, servicePath, pc, self, link, component, given,
                      isRegistered, instance, inherited, lostReply, lostUpdate>>

NoNode == [owner |-> 0, data |-> "none"]
Present == znode.owner # 0

RegistrationTypeOK ==
    /\ live \in SUBSET Sessions
    /\ znode \in [owner : 0 .. MaxSessions, data : Data \cup {"none"}]
    /\ servicePath \in 0 .. Depth
    /\ pc \in RegistrySteps
    /\ self \in 0 .. MaxSessions
    /\ link \in BOOLEAN
    /\ component \in 1 .. Depth
    /\ given \in Data \cup {"none"}
    /\ isRegistered \in BOOLEAN
    /\ instance \in Data \cup {"none"}
    /\ inherited \in BOOLEAN
    /\ lostReply \in BOOLEAN
    /\ lostUpdate \in BOOLEAN

RegistrationInit ==
    /\ live = {}
    /\ znode = NoNode
    /\ servicePath \in 0 .. Depth
    /\ pc = "down"
    /\ self = 0
    /\ link = FALSE
    /\ component = 1
    /\ given = "none"
    /\ isRegistered = FALSE
    /\ instance = "none"
    /\ inherited = FALSE /\ lostReply = FALSE /\ lostUpdate = FALSE

-----------------------------------------------------------------------------
(* Commands.                                                               *)

\* The command is executed and answered.
Answered == link /\ self \in live /\ UNCHANGED <<live, self, link>>

\* The connection breaks, or the session turns out to have expired.
Unanswered == link /\ link' = FALSE /\ UNCHANGED <<live, self>>

\* IsConnected() is false: nothing is sent.
NotSent == ~link /\ UNCHANGED <<live, self, link>>

\* A command that was not answered was executed only in a live session.
PerhapsNode(new) ==
    \/ UNCHANGED znode
    \/ self \in live /\ znode' = new

Mine(d) == [owner |-> self, data |-> d]

\* Faulty variant of Gone: the node was created without ZOO_EPHEMERAL.
GoneNever(s) == znode

\* The end of session s takes its ephemeral node along.
Gone(s) == IF znode.owner = s THEN NoNode ELSE znode

-----------------------------------------------------------------------------
(* The process starts and connects.                                        *)

\* GrpcServer::InitServiceDiscovery calls Connect, which calls
\* zookeeper_init.
Start ==
    /\ pc = "down"
    /\ pc' = "connecting"
    /\ inherited' = FALSE /\ lostReply' = FALSE /\ lostUpdate' = FALSE
    /\ UNCHANGED <<ensemble, self, link, component, given, beliefs>>

\* HandleSessionEvent(ZOO_CONNECTED_STATE) for a new session, whose
\* id is above those of the sessions that are still alive.
Connected ==
    /\ pc = "connecting" /\ self = 0
    /\ \E s \in Sessions :
          /\ \A r \in live \cup {znode.owner} : r < s
          /\ self' = s
          /\ live' = live \cup {s}
    /\ link' = TRUE
    /\ UNCHANGED <<znode, servicePath, pc, component, given, beliefs, processHistory>>

\* Connect finds connected_, or gives up, closes the handle, and the server
\* runs without a registry.
ConnectReturns ==
    /\ pc = "connecting"
    /\ \/ link /\ pc' = "register" /\ UNCHANGED <<live, self, link>>
       \/ /\ ~link
          /\ pc' = "serving"
          /\ self' = 0
          /\ live' \in {live, live \ {self}}
          /\ UNCHANGED link
    /\ UNCHANGED <<znode, servicePath, component, given, beliefs, processHistory>>

-----------------------------------------------------------------------------
(* ServiceRegistry::Register.                                              *)

\* Register returns false: the server serves without an entry.
Refused == pc' = "serving" /\ UNCHANGED beliefs

\* current_instance_ and registered_ are set.
Accepted ==
    /\ pc' = "serving"
    /\ isRegistered' = TRUE
    /\ instance' = given

Register(d) ==
    /\ pc = "register"
    /\ given' = d
    /\ component' = 1
    /\ IF link THEN pc' = "exists" ELSE pc' = "serving"
    /\ UNCHANGED <<ensemble, self, link, beliefs, processHistory>>

\* CreateServicePath: the loop over the components.
NextComponent ==
    IF component < Depth THEN pc' = "exists" /\ component' = component + 1
    ELSE pc' = "create" /\ UNCHANGED component

\* Exists() is false for every failure as well.
Exists ==
    /\ pc = "exists"
    /\ \/ Answered /\ component <= servicePath /\ NextComponent
       \/ Answered /\ component > servicePath /\ pc' = "mkdir" /\ UNCHANGED component
       \/ (Unanswered \/ NotSent) /\ pc' = "mkdir" /\ UNCHANGED component
    /\ UNCHANGED <<znode, servicePath, given, beliefs, processHistory>>

\* CreateNode for a persistent component: that it exists is a success.
MakeComponent ==
    /\ pc = "mkdir"
    /\ \/ /\ Answered
          /\ servicePath' = IF component > servicePath THEN component ELSE servicePath
          /\ NextComponent
          /\ UNCHANGED beliefs
       \/ /\ Unanswered \/ NotSent
          /\ \/ UNCHANGED servicePath
             \/ link /\ self \in live /\ component > servicePath /\ servicePath' = component
          /\ Refused
          /\ UNCHANGED component
    /\ UNCHANGED <<znode, given, processHistory>>

\* Faulty variant of CreateInstanceNode: an ephemeral node that exists is a success,
\* as a persistent one is.
CreateInstanceNodeKeep ==
    /\ pc = "create"
    /\ \/ /\ Answered
          /\ znode' = IF Present THEN znode ELSE Mine(given)
          /\ Accepted
          /\ UNCHANGED lostReply
       \/ Unanswered /\ PerhapsNode(IF Present THEN znode ELSE Mine(given))
          /\ lostReply' = TRUE /\ Refused
       \/ NotSent /\ Refused /\ UNCHANGED <<znode, lostReply>>
    /\ UNCHANGED <<servicePath, component, given, inherited, lostUpdate>>

\* CreateNode for the instance: zoo_create with ZOO_EPHEMERAL.
CreateInstanceNode ==
    /\ pc = "create"
    /\ \/ /\ Answered
          /\ IF Present
             THEN pc' = "delete" /\ UNCHANGED <<znode, beliefs>>
             ELSE znode' = Mine(given) /\ Accepted
          /\ UNCHANGED lostReply
       \/ Unanswered /\ PerhapsNode(IF Present THEN znode ELSE Mine(given))
          /\ lostReply' = TRUE /\ Refused
       \/ NotSent /\ Refused /\ UNCHANGED <<znode, lostReply>>
    /\ UNCHANGED <<servicePath, component, given, inherited, lostUpdate>>

\* Recovery from ZNODEEXISTS: DeleteNode; without an answer try SetData.
DeleteOld ==
    /\ pc = "delete"
    /\ \/ Answered /\ znode' = NoNode /\ pc' = "recreate" /\ UNCHANGED lostReply
       \/ Unanswered /\ PerhapsNode(NoNode) /\ lostReply' = TRUE /\ pc' = "set"
       \/ NotSent /\ pc' = "set" /\ UNCHANGED <<znode, lostReply>>
    /\ UNCHANGED <<servicePath, component, given, beliefs, inherited, lostUpdate>>

\* The second zoo_create.  Nobody else creates a node at this address.
Recreate ==
    /\ pc = "recreate"
    /\ \/ Answered /\ znode' = Mine(given) /\ Accepted /\ UNCHANGED lostReply
       \/ Unanswered /\ PerhapsNode(Mine(given)) /\ lostReply' = TRUE
          /\ pc' = "set" /\ UNCHANGED beliefs
       \/ NotSent /\ pc' = "set" /\ UNCHANGED <<znode, lostReply, beliefs>>
    /\ UNCHANGED <<servicePath, component, given, inherited, lostUpdate>>

\* Faulty variant of SetOld: the fallback does not look at the answer.
SetOldUnchecked ==
    /\ pc = "set"
    /\ Accepted
    /\ inherited' = (Present /\ znode.owner # self)
    /\ UNCHANGED <<ensemble, self, link, component, given, lostReply, lostUpdate>>

\* The fallback: SetData on whatever node is there.
SetOld ==
    /\ pc = "set"
    /\ \/ /\ Answered
          /\ IF Present
             THEN /\ znode' = [znode EXCEPT !.data = given]
                  /\ inherited' = (znode.owner # self)
                  /\ Accepted
             ELSE Refused /\ UNCHANGED <<znode, inherited>>
       \/ /\ Unanswered
          /\ PerhapsNode(IF Present THEN [znode EXCEPT !.data = given] ELSE znode)
          /\ Refused
          /\ UNCHANGED inherited
       \/ NotSent /\ Refused /\ UNCHANGED <<znode, inherited>>
    /\ UNCHANGED <<servicePath, component, given, lostReply, lostUpdate>>

-----------------------------------------------------------------------------
(* ServiceRegistry::Update and Unregister; the process ends.               *)

\* Update: registered_ and IsConnected() are checked first.
BeginUpdate(d) ==
    /\ pc = "serving"
    /\ isRegistered /\ link
    /\ given' = d
    /\ pc' = "update"
    /\ UNCHANGED <<ensemble, self, link, component, beliefs, processHistory>>

Update ==
    /\ pc = "update"
    /\ \/ /\ Answered
          /\ IF Present
             THEN /\ znode' = [znode EXCEPT !.data = given]
                  /\ instance' = given
                  /\ lostUpdate' = FALSE
             ELSE UNCHANGED <<znode, instance, lostUpdate>>
       \/ /\ Unanswered
          /\ PerhapsNode(IF Present THEN [znode EXCEPT !.data = given] ELSE znode)
          /\ lostUpdate' = TRUE
          /\ UNCHANGED instance
       \/ NotSent /\ UNCHANGED <<znode, instance, lostUpdate>>
    /\ pc' = "serving"
    /\ UNCHANGED <<servicePath, component, given, isRegistered, inherited, lostReply>>

\* GrpcServer::UnregisterFromZooKeeper asks IsRegistered().
Shutdown ==
    /\ pc = "serving"
    /\ pc' = IF isRegistered THEN "unregister" ELSE "closing"
    /\ UNCHANGED <<ensemble, self, link, component, given, beliefs, processHistory>>

\* Faulty variant of Unregister: the node is not deleted.
UnregisterFlagOnly ==
    /\ pc = "unregister"
    /\ isRegistered' = FALSE
    /\ pc' = "closing"
    /\ UNCHANGED <<ensemble, self, link, component, given, instance, processHistory>>

\* Unregister: DeleteNode(current_path_) of whoever's node; registered_ is
\* reset also when that failed.
Unregister ==
    /\ pc = "unregister"
    /\ \/ Answered /\ znode' = NoNode /\ UNCHANGED lostReply
       \/ Unanswered /\ PerhapsNode(NoNode) /\ lostReply' = TRUE
       \/ NotSent /\ lostReply' = TRUE /\ UNCHANGED znode
    /\ isRegistered' = FALSE
    /\ pc' = "closing"
    /\ UNCHANGED <<servicePath, component, given, instance, inherited, lostUpdate>>

\* What a new process starts with.
ProcessEnds ==
    /\ pc' = "down"
    /\ self' = 0
    /\ link' = FALSE
    /\ component' = 1
    /\ given' = "none"
    /\ isRegistered' = FALSE
    /\ instance' = "none"
    /\ UNCHANGED <<servicePath, processHistory>>

\* ~ZooKeeperClient, Close: zookeeper_close ends the session if it can.
Close ==
    /\ pc = "closing"
    /\ IF link /\ self \in live
       THEN live' = live \ {self} /\ znode' = Gone(self)
       ELSE UNCHANGED <<live, znode>>
    /\ ProcessEnds

Crash ==
    /\ pc # "down"
    /\ UNCHANGED <<live, znode>>
    /\ ProcessEnds

-----------------------------------------------------------------------------
(* ZooKeeper.                                                              *)

\* The server has not heard of session s for the session timeout.  The
\* process may not know yet; nothing ever connects or registers again.
ExpireSession(s) ==
    /\ s \in live
    /\ live' = live \ {s}
    /\ znode' = Gone(s)
    /\ UNCHANGED <<servicePath, pc, self, link, component, given, beliefs, processHistory>>

\* ZOO_CONNECTING_STATE or ZOO_EXPIRED_SESSION_STATE arrives.
LinkDown ==
    /\ link
    /\ link' = FALSE
    /\ UNCHANGED <<ensemble, pc, self, component, given, beliefs, processHistory>>

\* The client library resumes a session that has not expired.
LinkUp ==
    /\ self \in live
    /\ ~link
    /\ link' = TRUE
    /\ UNCHANGED <<ensemble, pc, self, component, given, beliefs, processHistory>>

\* Another server of the service creates the next component of the path.
OtherServer ==
    /\ servicePath < Depth
    /\ servicePath' = servicePath + 1
    /\ UNCHANGED <<live, znode, pc, self, link, component, given, beliefs, processHistory>>

RegisterStep ==
    \/ \E d \in Data : Register(d)
    \/ Exists
    \/ MakeComponent
    \/ CreateInstanceNode
    \/ DeleteOld
    \/ Recreate
    \/ SetOld

ProcessStep ==
    \/ Start
    \/ ConnectReturns
    \/ RegisterStep
    \/ \E d \in Data : BeginUpdate(d)
    \/ Update
    \/ Shutdown
    \/ Unregister
    \/ Close
    \/ Crash

RegistrationNext ==
    \/ ProcessStep
    \/ Connected
    \/ \E s \in Sessions : ExpireSession(s)
    \/ LinkDown
    \/ LinkUp
    \/ OtherServer

RegistrationSpec == RegistrationInit /\ [][RegistrationNext]_registrationVars

\* ZooKeeper ends every session whose process is gone: nobody sends its
\* heartbeats.
ExpireDead == \E s \in live \ {self} : ExpireSession(s)

RegistrationFairness == WF_registrationVars(ExpireDead)

-----------------------------------------------------------------------------
(* Properties.                                                             *)

\* A server that Register has told it is registered, and whose session is
\* alive, is announced by a node of that session: whatever was left of
\* earlier processes, whichever commands failed on the way, and whenever old
\* sessions expire.  The exception is the fallback that only wrote into a
\* node of another session.
RegisteredIsAnnounced ==
    (isRegistered /\ self \in live /\ ~inherited)
        => znode.owner = self

\* While the server is registered, what clients read at its address is what
\* it gave to Register or Update last, never what an earlier process left.
\* The exception is an Update whose reply was lost.
AnnouncedIsCurrent ==
    (isRegistered /\ Present /\ ~lostUpdate)
        => znode.data = instance

\* A server that is not registered, because Register failed or Unregister is
\* done, is announced by its own session only if a reply to a create or a
\* delete was lost (or the delete could not be sent).
NoGhost ==
    (pc \in {"serving", "closing"} /\ ~isRegistered /\ self # 0 /\ znode.owner = self)
        => lostReply

\* When the server of an address stops for good, its node goes away.
StoppedServerLeaves == <>[](pc = "down") => <>[]~Present
=============================================================================
