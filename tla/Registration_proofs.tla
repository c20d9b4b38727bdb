------------------------ MODULE Registration_proofs ------------------------
(***************************************************************************)
(* The safety properties of Registration for every number of sessions,     *)
(* every depth of the service path and every set of descriptions.          *)
(***************************************************************************)
EXTENDS Registration, TLAPS

\* An ephemeral node belongs to a session that is alive.
Ephemeral == Present => znode.owner \in live

\* Before Register has returned true, and after the process has ended,
\* registered_ is false; connecting comes before the first command.
NotYetRegistered ==
    /\ pc \in RegisterSteps \cup {"down", "connecting", "closing"} => ~isRegistered
    /\ pc = "down" => self = 0
    /\ pc = "connecting" /\ self # 0 => znode.owner # self
    /\ link => self # 0

\* The commands that write a description have one.
GivenIsSet ==
    pc \in {"exists", "mkdir", "create", "delete", "recreate", "set", "update"}
        => given \in Data

\* NoGhost at every step: as long as registered_ is false, only a lost reply
\* leaves a node of the own session.
GhostNeedsLoss ==
    (~isRegistered /\ self # 0 /\ znode.owner = self) => lostReply

\* RegisteredIsAnnounced, AnnouncedIsCurrent and NoGhost are not inductive:
\* a session that expires must own the node it takes along, and a step of
\* Register must find registered_ false and a description to write.
IInv ==
    /\ RegistrationTypeOK
    /\ Ephemeral
    /\ NotYetRegistered
    /\ GivenIsSet
    /\ GhostNeedsLoss
    /\ RegisteredIsAnnounced
    /\ AnnouncedIsCurrent

\* Initially nothing is registered and there is no session.
LEMMA InitIInv == RegistrationInit => IInv
<1> SUFFICES ASSUME RegistrationInit PROVE IInv OBVIOUS
<1> USE DepthAssumption, MaxSessionsAssumption, DataAssumption DEF RegistrationInit
<1>1. /\ live \in SUBSET Sessions
      /\ servicePath \in 0 .. Depth
      /\ self \in 0 .. MaxSessions
      /\ component \in 1 .. Depth
      /\ given \in Data \cup {"none"}
      /\ instance \in Data \cup {"none"}
      OBVIOUS
<1>2. znode \in [owner : 0 .. MaxSessions, data : Data \cup {"none"}] BY DEF NoNode
<1>3. pc \in RegistrySteps BY DEF RegistrySteps
<1>4. RegistrationTypeOK BY <1>1, <1>2, <1>3 DEF RegistrationTypeOK
<1>5. Ephemeral /\ AnnouncedIsCurrent BY DEF Ephemeral, AnnouncedIsCurrent, Present, NoNode
<1>6. NotYetRegistered /\ GivenIsSet /\ GhostNeedsLoss /\ RegisteredIsAnnounced
      BY DEF NotYetRegistered, GivenIsSet, GhostNeedsLoss, RegisteredIsAnnounced
<1> QED BY <1>4, <1>5, <1>6 DEF IInv

\* The steps that connect and disconnect leave node, registered_ and
\* current_instance_ alone.
LEMMA ConnectionSteps ==
    ASSUME IInv,
           Start \/ Connected \/ ConnectReturns \/ LinkDown \/ LinkUp \/ OtherServer
    PROVE  IInv'
<1> USE DepthAssumption, MaxSessionsAssumption, DataAssumption
        DEF Sessions, RegistrySteps, RegisterSteps, NoNode, Present, ensemble, beliefs, processHistory
<1>1. CASE Start
  <2>1. RegistrationTypeOK'
        BY <1>1 DEF IInv, RegistrationTypeOK, GivenIsSet, Start
  <2>2. Ephemeral'
        BY <1>1 DEF IInv, RegistrationTypeOK, Ephemeral, NotYetRegistered, Start
  <2>3. NotYetRegistered'
        BY <1>1 DEF IInv, RegistrationTypeOK, NotYetRegistered, Start
  <2>4. GivenIsSet'
        BY <1>1 DEF IInv, RegistrationTypeOK, GivenIsSet, Start
  <2>5. GhostNeedsLoss'
        BY <1>1 DEF IInv, RegistrationTypeOK, Ephemeral, NotYetRegistered, GhostNeedsLoss, Start
  <2>6. RegisteredIsAnnounced'
        BY <1>1 DEF IInv, RegistrationTypeOK, Ephemeral, NotYetRegistered, RegisteredIsAnnounced, Start
  <2>7. AnnouncedIsCurrent'
        BY <1>1 DEF IInv, RegistrationTypeOK, Ephemeral, NotYetRegistered, AnnouncedIsCurrent, Start
  <2> QED BY <2>1, <2>2, <2>3, <2>4, <2>5, <2>6, <2>7 DEF IInv
<1>2. CASE Connected
  <2>1. RegistrationTypeOK'
        BY <1>2 DEF IInv, RegistrationTypeOK, GivenIsSet, Connected
  <2>2. Ephemeral'
        BY <1>2 DEF IInv, RegistrationTypeOK, Ephemeral, NotYetRegistered, Connected
  <2>3. NotYetRegistered'
        BY <1>2 DEF IInv, RegistrationTypeOK, NotYetRegistered, Connected
  <2>4. GivenIsSet'
        BY <1>2 DEF IInv, RegistrationTypeOK, GivenIsSet, Connected
  <2>5. GhostNeedsLoss'
        BY <1>2 DEF IInv, RegistrationTypeOK, Ephemeral, NotYetRegistered, GhostNeedsLoss, Connected
  <2>6. RegisteredIsAnnounced'
        BY <1>2 DEF IInv, RegistrationTypeOK, Ephemeral, NotYetRegistered, RegisteredIsAnnounced, Connected
  <2>7. AnnouncedIsCurrent'
        BY <1>2 DEF IInv, RegistrationTypeOK, Ephemeral, NotYetRegistered, AnnouncedIsCurrent, Connected
  <2> QED BY <2>1, <2>2, <2>3, <2>4, <2>5, <2>6, <2>7 DEF IInv
<1>3. CASE ConnectReturns
  <2>1. RegistrationTypeOK'
    <3>1. znode' \in [owner : 0 .. MaxSessions, data : Data \cup {"none"}]
          BY <1>3 DEF IInv, RegistrationTypeOK, GivenIsSet, ConnectReturns
    <3>2. pc' \in RegistrySteps
          BY <1>3 DEF IInv, RegistrationTypeOK, GivenIsSet, ConnectReturns
    <3>3. live' \in SUBSET Sessions /\ self' \in 0 .. MaxSessions
      <4>1. live' \subseteq live
            BY <1>3 DEF ConnectReturns
      <4>2. self' \in 0 .. MaxSessions
            BY <1>3 DEF IInv, RegistrationTypeOK, ConnectReturns
      <4> QED BY <4>1, <4>2 DEF IInv, RegistrationTypeOK
    <3>4. servicePath' \in 0 .. Depth /\ component' \in 1 .. Depth
          BY <1>3 DEF IInv, RegistrationTypeOK, GivenIsSet, ConnectReturns
    <3>5. given' \in Data \cup {"none"} /\ instance' \in Data \cup {"none"}
          BY <1>3 DEF IInv, RegistrationTypeOK, GivenIsSet, ConnectReturns
    <3>6. link' \in BOOLEAN /\ isRegistered' \in BOOLEAN /\ inherited' \in BOOLEAN
          BY <1>3 DEF IInv, RegistrationTypeOK, GivenIsSet, ConnectReturns
    <3>7. lostReply' \in BOOLEAN /\ lostUpdate' \in BOOLEAN
          BY <1>3 DEF IInv, RegistrationTypeOK, GivenIsSet, ConnectReturns
    <3> QED BY <3>1, <3>2, <3>3, <3>4, <3>5, <3>6, <3>7 DEF RegistrationTypeOK
  <2>2. Ephemeral'
        BY <1>3 DEF IInv, RegistrationTypeOK, Ephemeral, NotYetRegistered, ConnectReturns
  <2>3. NotYetRegistered'
        BY <1>3 DEF IInv, RegistrationTypeOK, NotYetRegistered, ConnectReturns
  <2>4. GivenIsSet'
        BY <1>3 DEF IInv, RegistrationTypeOK, GivenIsSet, ConnectReturns
  <2>5. GhostNeedsLoss'
        BY <1>3 DEF IInv, RegistrationTypeOK, Ephemeral, NotYetRegistered, GhostNeedsLoss, ConnectReturns
  <2>6. RegisteredIsAnnounced'
        BY <1>3 DEF IInv, RegistrationTypeOK, Ephemeral, NotYetRegistered, RegisteredIsAnnounced, ConnectReturns
  <2>7. AnnouncedIsCurrent'
        BY <1>3 DEF IInv, RegistrationTypeOK, Ephemeral, NotYetRegistered, AnnouncedIsCurrent, ConnectReturns
  <2> QED BY <2>1, <2>2, <2>3, <2>4, <2>5, <2>6, <2>7 DEF IInv
<1>4. CASE LinkDown
  <2>1. RegistrationTypeOK'
        BY <1>4 DEF IInv, RegistrationTypeOK, GivenIsSet, LinkDown
  <2>2. Ephemeral'
        BY <1>4 DEF IInv, RegistrationTypeOK, Ephemeral, NotYetRegistered, LinkDown
  <2>3. NotYetRegistered'
        BY <1>4 DEF IInv, RegistrationTypeOK, NotYetRegistered, LinkDown
  <2>4. GivenIsSet'
        BY <1>4 DEF IInv, RegistrationTypeOK, GivenIsSet, LinkDown
  <2>5. GhostNeedsLoss'
        BY <1>4 DEF IInv, RegistrationTypeOK, Ephemeral, NotYetRegistered, GhostNeedsLoss, LinkDown
  <2>6. RegisteredIsAnnounced'
        BY <1>4 DEF IInv, RegistrationTypeOK, Ephemeral, NotYetRegistered, RegisteredIsAnnounced, LinkDown
  <2>7. AnnouncedIsCurrent'
        BY <1>4 DEF IInv, RegistrationTypeOK, Ephemeral, NotYetRegistered, AnnouncedIsCurrent, LinkDown
  <2> QED BY <2>1, <2>2, <2>3, <2>4, <2>5, <2>6, <2>7 DEF IInv
<1>5. CASE LinkUp
  <2>1. RegistrationTypeOK'
        BY <1>5 DEF IInv, RegistrationTypeOK, GivenIsSet, LinkUp
  <2>2. Ephemeral'
        BY <1>5 DEF IInv, RegistrationTypeOK, Ephemeral, NotYetRegistered, LinkUp
  <2>3. NotYetRegistered'
        BY <1>5 DEF IInv, RegistrationTypeOK, NotYetRegistered, LinkUp
  <2>4. GivenIsSet'
        BY <1>5 DEF IInv, RegistrationTypeOK, GivenIsSet, LinkUp
  <2>5. GhostNeedsLoss'
        BY <1>5 DEF IInv, RegistrationTypeOK, Ephemeral, NotYetRegistered, GhostNeedsLoss, LinkUp
  <2>6. RegisteredIsAnnounced'
        BY <1>5 DEF IInv, RegistrationTypeOK, Ephemeral, NotYetRegistered, RegisteredIsAnnounced, LinkUp
  <2>7. AnnouncedIsCurrent'
        BY <1>5 DEF IInv, RegistrationTypeOK, Ephemeral, NotYetRegistered, AnnouncedIsCurrent, LinkUp
  <2> QED BY <2>1, <2>2, <2>3, <2>4, <2>5, <2>6, <2>7 DEF IInv
<1>6. CASE OtherServer
  <2>1. RegistrationTypeOK'
        BY <1>6 DEF IInv, RegistrationTypeOK, GivenIsSet, OtherServer
  <2>2. Ephemeral'
        BY <1>6 DEF IInv, RegistrationTypeOK, Ephemeral, NotYetRegistered, OtherServer
  <2>3. NotYetRegistered'
        BY <1>6 DEF IInv, RegistrationTypeOK, NotYetRegistered, OtherServer
  <2>4. GivenIsSet'
        BY <1>6 DEF IInv, RegistrationTypeOK, GivenIsSet, OtherServer
  <2>5. GhostNeedsLoss'
        BY <1>6 DEF IInv, RegistrationTypeOK, Ephemeral, NotYetRegistered, GhostNeedsLoss, OtherServer
  <2>6. RegisteredIsAnnounced'
        BY <1>6 DEF IInv, RegistrationTypeOK, Ephemeral, NotYetRegistered, RegisteredIsAnnounced, OtherServer
  <2>7. AnnouncedIsCurrent'
        BY <1>6 DEF IInv, RegistrationTypeOK, Ephemeral, NotYetRegistered, AnnouncedIsCurrent, OtherServer
  <2> QED BY <2>1, <2>2, <2>3, <2>4, <2>5, <2>6, <2>7 DEF IInv
<1> QED BY <1>1, <1>2, <1>3, <1>4, <1>5, <1>6

\* Register up to the first command on the instance's node.
LEMMA PathSteps ==
    ASSUME IInv,
           (\E d \in Data : Register(d)) \/ Exists \/ MakeComponent
    PROVE  IInv'
<1> USE DepthAssumption, MaxSessionsAssumption, DataAssumption
        DEF Sessions, RegistrySteps, RegisterSteps, NoNode, Present, ensemble, beliefs, processHistory
<1>1. CASE \E d \in Data : Register(d)
  <2>1. RegistrationTypeOK'
        BY <1>1 DEF IInv, RegistrationTypeOK, GivenIsSet, Register
  <2>2. Ephemeral'
        BY <1>1 DEF IInv, RegistrationTypeOK, Ephemeral, NotYetRegistered, Register
  <2>3. NotYetRegistered'
        BY <1>1 DEF IInv, RegistrationTypeOK, NotYetRegistered, Register
  <2>4. GivenIsSet'
        BY <1>1 DEF IInv, RegistrationTypeOK, GivenIsSet, Register
  <2>5. GhostNeedsLoss'
        BY <1>1 DEF IInv, RegistrationTypeOK, Ephemeral, NotYetRegistered, GhostNeedsLoss, Register
  <2>6. RegisteredIsAnnounced'
        BY <1>1 DEF IInv, RegistrationTypeOK, Ephemeral, NotYetRegistered, RegisteredIsAnnounced, Register
  <2>7. AnnouncedIsCurrent'
        BY <1>1 DEF IInv, RegistrationTypeOK, Ephemeral, NotYetRegistered, AnnouncedIsCurrent, Register
  <2> QED BY <2>1, <2>2, <2>3, <2>4, <2>5, <2>6, <2>7 DEF IInv
<1>2. CASE Exists
  <2>1. RegistrationTypeOK'
    <3>1. znode' \in [owner : 0 .. MaxSessions, data : Data \cup {"none"}]
          BY <1>2 DEF IInv, RegistrationTypeOK, GivenIsSet, Exists, Answered, Unanswered, NotSent, NextComponent
    <3>2. pc' \in RegistrySteps
          BY <1>2 DEF IInv, RegistrationTypeOK, GivenIsSet, Exists, Answered, Unanswered, NotSent, NextComponent
    <3>3. live' \in SUBSET Sessions /\ self' \in 0 .. MaxSessions
          BY <1>2 DEF IInv, RegistrationTypeOK, GivenIsSet, Exists, Answered, Unanswered, NotSent, NextComponent
    <3>4. servicePath' \in 0 .. Depth /\ component' \in 1 .. Depth
          BY <1>2 DEF IInv, RegistrationTypeOK, GivenIsSet, Exists, Answered, Unanswered, NotSent, NextComponent
    <3>5. given' \in Data \cup {"none"} /\ instance' \in Data \cup {"none"}
          BY <1>2 DEF IInv, RegistrationTypeOK, GivenIsSet, Exists, Answered, Unanswered, NotSent, NextComponent
    <3>6. link' \in BOOLEAN /\ isRegistered' \in BOOLEAN /\ inherited' \in BOOLEAN
          BY <1>2 DEF IInv, RegistrationTypeOK, GivenIsSet, Exists, Answered, Unanswered, NotSent, NextComponent
    <3>7. lostReply' \in BOOLEAN /\ lostUpdate' \in BOOLEAN
          BY <1>2 DEF IInv, RegistrationTypeOK, GivenIsSet, Exists, Answered, Unanswered, NotSent, NextComponent
    <3> QED BY <3>1, <3>2, <3>3, <3>4, <3>5, <3>6, <3>7 DEF RegistrationTypeOK
  <2>2. Ephemeral'
        BY <1>2 DEF IInv, RegistrationTypeOK, Ephemeral, NotYetRegistered, Exists, Answered, Unanswered, NotSent, NextComponent
  <2>3. NotYetRegistered'
        BY <1>2 DEF IInv, RegistrationTypeOK, NotYetRegistered, Exists, Answered, Unanswered, NotSent, NextComponent
  <2>4. GivenIsSet'
        BY <1>2 DEF IInv, RegistrationTypeOK, GivenIsSet, Exists, Answered, Unanswered, NotSent, NextComponent
  <2>5. GhostNeedsLoss'
        BY <1>2 DEF IInv, RegistrationTypeOK, Ephemeral, NotYetRegistered, GhostNeedsLoss, Exists, Answered, Unanswered, NotSent, NextComponent
  <2>6. RegisteredIsAnnounced'
        BY <1>2 DEF IInv, RegistrationTypeOK, Ephemeral, NotYetRegistered, RegisteredIsAnnounced, Exists, Answered, Unanswered, NotSent, NextComponent
  <2>7. AnnouncedIsCurrent'
        BY <1>2 DEF IInv, RegistrationTypeOK, Ephemeral, NotYetRegistered, AnnouncedIsCurrent, Exists, Answered, Unanswered, NotSent, NextComponent
  <2> QED BY <2>1, <2>2, <2>3, <2>4, <2>5, <2>6, <2>7 DEF IInv
<1>3. CASE MakeComponent
  <2>1. RegistrationTypeOK'
    <3>1. znode' \in [owner : 0 .. MaxSessions, data : Data \cup {"none"}]
          BY <1>3 DEF IInv, RegistrationTypeOK, GivenIsSet, MakeComponent, Answered, Unanswered, NotSent, NextComponent, Refused
    <3>2. pc' \in RegistrySteps
          BY <1>3 DEF IInv, RegistrationTypeOK, GivenIsSet, MakeComponent, Answered, Unanswered, NotSent, NextComponent, Refused
    <3>3. live' \in SUBSET Sessions /\ self' \in 0 .. MaxSessions
          BY <1>3 DEF IInv, RegistrationTypeOK, GivenIsSet, MakeComponent, Answered, Unanswered, NotSent, NextComponent, Refused
    <3>4. servicePath' \in 0 .. Depth /\ component' \in 1 .. Depth
          BY <1>3 DEF IInv, RegistrationTypeOK, GivenIsSet, MakeComponent, Answered, Unanswered, NotSent, NextComponent, Refused
    <3>5. given' \in Data \cup {"none"} /\ instance' \in Data \cup {"none"}
          BY <1>3 DEF IInv, RegistrationTypeOK, GivenIsSet, MakeComponent, Answered, Unanswered, NotSent, NextComponent, Refused
    <3>6. link' \in BOOLEAN /\ isRegistered' \in BOOLEAN /\ inherited' \in BOOLEAN
          BY <1>3 DEF IInv, RegistrationTypeOK, GivenIsSet, MakeComponent, Answered, Unanswered, NotSent, NextComponent, Refused
    <3>7. lostReply' \in BOOLEAN /\ lostUpdate' \in BOOLEAN
          BY <1>3 DEF IInv, RegistrationTypeOK, GivenIsSet, MakeComponent, Answered, Unanswered, NotSent, NextComponent, Refused
    <3> QED BY <3>1, <3>2, <3>3, <3>4, <3>5, <3>6, <3>7 DEF RegistrationTypeOK
  <2>2. Ephemeral'
        BY <1>3 DEF IInv, RegistrationTypeOK, Ephemeral, NotYetRegistered, MakeComponent, Answered, Unanswered, NotSent, NextComponent, Refused
  <2>3. NotYetRegistered'
        BY <1>3 DEF IInv, RegistrationTypeOK, NotYetRegistered, MakeComponent, Answered, Unanswered, NotSent, NextComponent, Refused
  <2>4. GivenIsSet'
        BY <1>3 DEF IInv, RegistrationTypeOK, GivenIsSet, MakeComponent, Answered, Unanswered, NotSent, NextComponent, Refused
  <2>5. GhostNeedsLoss'
        BY <1>3 DEF IInv, RegistrationTypeOK, Ephemeral, NotYetRegistered, GhostNeedsLoss, MakeComponent, Answered, Unanswered, NotSent, NextComponent, Refused
  <2>6. RegisteredIsAnnounced'
        BY <1>3 DEF IInv, RegistrationTypeOK, Ephemeral, NotYetRegistered, RegisteredIsAnnounced, MakeComponent, Answered, Unanswered, NotSent, NextComponent, Refused
  <2>7. AnnouncedIsCurrent'
        BY <1>3 DEF IInv, RegistrationTypeOK, Ephemeral, NotYetRegistered, AnnouncedIsCurrent, MakeComponent, Answered, Unanswered, NotSent, NextComponent, Refused
  <2> QED BY <2>1, <2>2, <2>3, <2>4, <2>5, <2>6, <2>7 DEF IInv
<1> QED BY <1>1, <1>2, <1>3

\* CreateNode with its recovery.
LEMMA NodeSteps ==
    ASSUME IInv,
           CreateInstanceNode \/ DeleteOld \/ Recreate \/ SetOld
    PROVE  IInv'
<1> USE DepthAssumption, MaxSessionsAssumption, DataAssumption
        DEF Sessions, RegistrySteps, RegisterSteps, NoNode, Present, ensemble, beliefs, processHistory
<1>1. CASE CreateInstanceNode
  <2>1. RegistrationTypeOK'
    <3>1. znode' \in [owner : 0 .. MaxSessions, data : Data \cup {"none"}]
          BY <1>1 DEF IInv, RegistrationTypeOK, GivenIsSet, CreateInstanceNode, Answered, Unanswered, NotSent,
              PerhapsNode, Mine, Refused, Accepted
    <3>2. pc' \in RegistrySteps
          BY <1>1 DEF IInv, RegistrationTypeOK, GivenIsSet, CreateInstanceNode, Answered, Unanswered, NotSent,
              PerhapsNode, Mine, Refused, Accepted
    <3>3. live' \in SUBSET Sessions /\ self' \in 0 .. MaxSessions
          BY <1>1 DEF IInv, RegistrationTypeOK, GivenIsSet, CreateInstanceNode, Answered, Unanswered, NotSent,
              PerhapsNode, Mine, Refused, Accepted
    <3>4. servicePath' \in 0 .. Depth /\ component' \in 1 .. Depth
          BY <1>1 DEF IInv, RegistrationTypeOK, GivenIsSet, CreateInstanceNode, Answered, Unanswered, NotSent,
              PerhapsNode, Mine, Refused, Accepted
    <3>5. given' \in Data \cup {"none"} /\ instance' \in Data \cup {"none"}
          BY <1>1 DEF IInv, RegistrationTypeOK, GivenIsSet, CreateInstanceNode, Answered, Unanswered, NotSent,
              PerhapsNode, Mine, Refused, Accepted
    <3>6. link' \in BOOLEAN /\ isRegistered' \in BOOLEAN /\ inherited' \in BOOLEAN
          BY <1>1 DEF IInv, RegistrationTypeOK, GivenIsSet, CreateInstanceNode, Answered, Unanswered, NotSent,
              PerhapsNode, Mine, Refused, Accepted
    <3>7. lostReply' \in BOOLEAN /\ lostUpdate' \in BOOLEAN
          BY <1>1 DEF IInv, RegistrationTypeOK, GivenIsSet, CreateInstanceNode, Answered, Unanswered, NotSent,
              PerhapsNode, Mine, Refused, Accepted
    <3> QED BY <3>1, <3>2, <3>3, <3>4, <3>5, <3>6, <3>7 DEF RegistrationTypeOK
  <2>2. Ephemeral'
        BY <1>1 DEF IInv, RegistrationTypeOK, Ephemeral, NotYetRegistered, CreateInstanceNode, Answered, Unanswered, NotSent,
              PerhapsNode, Mine, Refused, Accepted
  <2>3. NotYetRegistered'
        BY <1>1 DEF IInv, RegistrationTypeOK, NotYetRegistered, CreateInstanceNode, Answered, Unanswered, NotSent,
              PerhapsNode, Mine, Refused, Accepted
  <2>4. GivenIsSet'
        BY <1>1 DEF IInv, RegistrationTypeOK, GivenIsSet, CreateInstanceNode, Answered, Unanswered, NotSent,
              PerhapsNode, Mine, Refused, Accepted
  <2>5. GhostNeedsLoss'
        BY <1>1 DEF IInv, RegistrationTypeOK, Ephemeral, NotYetRegistered, GhostNeedsLoss, CreateInstanceNode, Answered, Unanswered, NotSent,
              PerhapsNode, Mine, Refused, Accepted
  <2>6. RegisteredIsAnnounced'
    <3>1. isRegistered' => znode' = Mine(given) /\ instance' = given /\ self' = self
          BY <1>1 DEF IInv, RegistrationTypeOK, NotYetRegistered, CreateInstanceNode, Answered, Unanswered,
                      NotSent, PerhapsNode, Refused, Accepted
    <3> QED BY <3>1 DEF RegisteredIsAnnounced, Mine
  <2>7. AnnouncedIsCurrent'
    <3>1. isRegistered' => znode' = Mine(given) /\ instance' = given /\ self' = self
          BY <1>1 DEF IInv, RegistrationTypeOK, NotYetRegistered, CreateInstanceNode, Answered, Unanswered,
                      NotSent, PerhapsNode, Refused, Accepted
    <3> QED BY <3>1 DEF AnnouncedIsCurrent, Mine
  <2> QED BY <2>1, <2>2, <2>3, <2>4, <2>5, <2>6, <2>7 DEF IInv
<1>2. CASE DeleteOld
  <2>1. RegistrationTypeOK'
    <3>1. znode' \in [owner : 0 .. MaxSessions, data : Data \cup {"none"}]
          BY <1>2 DEF IInv, RegistrationTypeOK, GivenIsSet, DeleteOld, Answered, Unanswered, NotSent, PerhapsNode
    <3>2. pc' \in RegistrySteps
          BY <1>2 DEF IInv, RegistrationTypeOK, GivenIsSet, DeleteOld, Answered, Unanswered, NotSent, PerhapsNode
    <3>3. live' \in SUBSET Sessions /\ self' \in 0 .. MaxSessions
          BY <1>2 DEF IInv, RegistrationTypeOK, GivenIsSet, DeleteOld, Answered, Unanswered, NotSent, PerhapsNode
    <3>4. servicePath' \in 0 .. Depth /\ component' \in 1 .. Depth
          BY <1>2 DEF IInv, RegistrationTypeOK, GivenIsSet, DeleteOld, Answered, Unanswered, NotSent, PerhapsNode
    <3>5. given' \in Data \cup {"none"} /\ instance' \in Data \cup {"none"}
          BY <1>2 DEF IInv, RegistrationTypeOK, GivenIsSet, DeleteOld, Answered, Unanswered, NotSent, PerhapsNode
    <3>6. link' \in BOOLEAN /\ isRegistered' \in BOOLEAN /\ inherited' \in BOOLEAN
          BY <1>2 DEF IInv, RegistrationTypeOK, GivenIsSet, DeleteOld, Answered, Unanswered, NotSent, PerhapsNode
    <3>7. lostReply' \in BOOLEAN /\ lostUpdate' \in BOOLEAN
          BY <1>2 DEF IInv, RegistrationTypeOK, GivenIsSet, DeleteOld, Answered, Unanswered, NotSent, PerhapsNode
    <3> QED BY <3>1, <3>2, <3>3, <3>4, <3>5, <3>6, <3>7 DEF RegistrationTypeOK
  <2>2. Ephemeral'
        BY <1>2 DEF IInv, RegistrationTypeOK, Ephemeral, NotYetRegistered, DeleteOld, Answered, Unanswered, NotSent, PerhapsNode
  <2>3. NotYetRegistered'
        BY <1>2 DEF IInv, RegistrationTypeOK, NotYetRegistered, DeleteOld, Answered, Unanswered, NotSent, PerhapsNode
  <2>4. GivenIsSet'
        BY <1>2 DEF IInv, RegistrationTypeOK, GivenIsSet, DeleteOld, Answered, Unanswered, NotSent, PerhapsNode
  <2>5. GhostNeedsLoss'
        BY <1>2 DEF IInv, RegistrationTypeOK, Ephemeral, NotYetRegistered, GhostNeedsLoss, DeleteOld, Answered, Unanswered, NotSent, PerhapsNode
  <2>6. RegisteredIsAnnounced'
        BY <1>2 DEF IInv, RegistrationTypeOK, Ephemeral, NotYetRegistered, RegisteredIsAnnounced, DeleteOld, Answered, Unanswered, NotSent, PerhapsNode
  <2>7. AnnouncedIsCurrent'
        BY <1>2 DEF IInv, RegistrationTypeOK, Ephemeral, NotYetRegistered, AnnouncedIsCurrent, DeleteOld, Answered, Unanswered, NotSent, PerhapsNode
  <2> QED BY <2>1, <2>2, <2>3, <2>4, <2>5, <2>6, <2>7 DEF IInv
<1>3. CASE Recreate
  <2>1. RegistrationTypeOK'
    <3>1. znode' \in [owner : 0 .. MaxSessions, data : Data \cup {"none"}]
          BY <1>3 DEF IInv, RegistrationTypeOK, GivenIsSet, Recreate, Answered, Unanswered, NotSent,
              PerhapsNode, Mine, Accepted
    <3>2. pc' \in RegistrySteps
          BY <1>3 DEF IInv, RegistrationTypeOK, GivenIsSet, Recreate, Answered, Unanswered, NotSent,
              PerhapsNode, Mine, Accepted
    <3>3. live' \in SUBSET Sessions /\ self' \in 0 .. MaxSessions
          BY <1>3 DEF IInv, RegistrationTypeOK, GivenIsSet, Recreate, Answered, Unanswered, NotSent,
              PerhapsNode, Mine, Accepted
    <3>4. servicePath' \in 0 .. Depth /\ component' \in 1 .. Depth
          BY <1>3 DEF IInv, RegistrationTypeOK, GivenIsSet, Recreate, Answered, Unanswered, NotSent,
              PerhapsNode, Mine, Accepted
    <3>5. given' \in Data \cup {"none"} /\ instance' \in Data \cup {"none"}
          BY <1>3 DEF IInv, RegistrationTypeOK, GivenIsSet, Recreate, Answered, Unanswered, NotSent,
              PerhapsNode, Mine, Accepted
    <3>6. link' \in BOOLEAN /\ isRegistered' \in BOOLEAN /\ inherited' \in BOOLEAN
          BY <1>3 DEF IInv, RegistrationTypeOK, GivenIsSet, Recreate, Answered, Unanswered, NotSent,
              PerhapsNode, Mine, Accepted
    <3>7. lostReply' \in BOOLEAN /\ lostUpdate' \in BOOLEAN
          BY <1>3 DEF IInv, RegistrationTypeOK, GivenIsSet, Recreate, Answered, Unanswered, NotSent,
              PerhapsNode, Mine, Accepted
    <3> QED BY <3>1, <3>2, <3>3, <3>4, <3>5, <3>6, <3>7 DEF RegistrationTypeOK
  <2>2. Ephemeral'
        BY <1>3 DEF IInv, RegistrationTypeOK, Ephemeral, NotYetRegistered, Recreate, Answered, Unanswered, NotSent,
              PerhapsNode, Mine, Accepted
  <2>3. NotYetRegistered'
        BY <1>3 DEF IInv, RegistrationTypeOK, NotYetRegistered, Recreate, Answered, Unanswered, NotSent,
              PerhapsNode, Mine, Accepted
  <2>4. GivenIsSet'
        BY <1>3 DEF IInv, RegistrationTypeOK, GivenIsSet, Recreate, Answered, Unanswered, NotSent,
              PerhapsNode, Mine, Accepted
  <2>5. GhostNeedsLoss'
        BY <1>3 DEF IInv, RegistrationTypeOK, Ephemeral, NotYetRegistered, GhostNeedsLoss, Recreate, Answered, Unanswered, NotSent,
              PerhapsNode, Mine, Accepted
  <2>6. RegisteredIsAnnounced'
    <3>1. isRegistered' => znode' = Mine(given) /\ instance' = given /\ self' = self
          BY <1>3 DEF IInv, RegistrationTypeOK, NotYetRegistered, Recreate, Answered, Unanswered,
                      NotSent, PerhapsNode, Accepted
    <3> QED BY <3>1 DEF RegisteredIsAnnounced, Mine
  <2>7. AnnouncedIsCurrent'
    <3>1. isRegistered' => znode' = Mine(given) /\ instance' = given /\ self' = self
          BY <1>3 DEF IInv, RegistrationTypeOK, NotYetRegistered, Recreate, Answered, Unanswered,
                      NotSent, PerhapsNode, Accepted
    <3> QED BY <3>1 DEF AnnouncedIsCurrent, Mine
  <2> QED BY <2>1, <2>2, <2>3, <2>4, <2>5, <2>6, <2>7 DEF IInv
<1>4. CASE SetOld
  <2>1. RegistrationTypeOK'
    <3>1. znode' \in [owner : 0 .. MaxSessions, data : Data \cup {"none"}]
          BY <1>4 DEF IInv, RegistrationTypeOK, GivenIsSet, SetOld, Answered, Unanswered, NotSent,
              PerhapsNode, Refused, Accepted
    <3>2. pc' \in RegistrySteps
          BY <1>4 DEF IInv, RegistrationTypeOK, GivenIsSet, SetOld, Answered, Unanswered, NotSent,
              PerhapsNode, Refused, Accepted
    <3>3. live' \in SUBSET Sessions /\ self' \in 0 .. MaxSessions
          BY <1>4 DEF IInv, RegistrationTypeOK, GivenIsSet, SetOld, Answered, Unanswered, NotSent,
              PerhapsNode, Refused, Accepted
    <3>4. servicePath' \in 0 .. Depth /\ component' \in 1 .. Depth
          BY <1>4 DEF IInv, RegistrationTypeOK, GivenIsSet, SetOld, Answered, Unanswered, NotSent,
              PerhapsNode, Refused, Accepted
    <3>5. given' \in Data \cup {"none"} /\ instance' \in Data \cup {"none"}
          BY <1>4 DEF IInv, RegistrationTypeOK, GivenIsSet, SetOld, Answered, Unanswered, NotSent,
              PerhapsNode, Refused, Accepted
    <3>6. link' \in BOOLEAN /\ isRegistered' \in BOOLEAN /\ inherited' \in BOOLEAN
          BY <1>4 DEF IInv, RegistrationTypeOK, GivenIsSet, SetOld, Answered, Unanswered, NotSent,
              PerhapsNode, Refused, Accepted
    <3>7. lostReply' \in BOOLEAN /\ lostUpdate' \in BOOLEAN
          BY <1>4 DEF IInv, RegistrationTypeOK, GivenIsSet, SetOld, Answered, Unanswered, NotSent,
              PerhapsNode, Refused, Accepted
    <3> QED BY <3>1, <3>2, <3>3, <3>4, <3>5, <3>6, <3>7 DEF RegistrationTypeOK
  <2>2. Ephemeral'
        BY <1>4 DEF IInv, RegistrationTypeOK, Ephemeral, NotYetRegistered, SetOld, Answered, Unanswered, NotSent,
              PerhapsNode, Refused, Accepted
  <2>3. NotYetRegistered'
        BY <1>4 DEF IInv, RegistrationTypeOK, NotYetRegistered, SetOld, Answered, Unanswered, NotSent,
              PerhapsNode, Refused, Accepted
  <2>4. GivenIsSet'
        BY <1>4 DEF IInv, RegistrationTypeOK, GivenIsSet, SetOld, Answered, Unanswered, NotSent,
              PerhapsNode, Refused, Accepted
  <2>5. GhostNeedsLoss'
        BY <1>4 DEF IInv, RegistrationTypeOK, Ephemeral, NotYetRegistered, GhostNeedsLoss, SetOld, Answered, Unanswered, NotSent,
              PerhapsNode, Refused, Accepted
  <2>6. RegisteredIsAnnounced'
        BY <1>4 DEF IInv, RegistrationTypeOK, Ephemeral, NotYetRegistered, RegisteredIsAnnounced, SetOld, Answered, Unanswered, NotSent,
              PerhapsNode, Refused, Accepted
  <2>7. AnnouncedIsCurrent'
        BY <1>4 DEF IInv, RegistrationTypeOK, Ephemeral, NotYetRegistered, AnnouncedIsCurrent, SetOld, Answered, Unanswered, NotSent,
              PerhapsNode, Refused, Accepted
  <2> QED BY <2>1, <2>2, <2>3, <2>4, <2>5, <2>6, <2>7 DEF IInv
<1> QED BY <1>1, <1>2, <1>3, <1>4

\* Update, Unregister, and the end of the process or of a session.
LEMMA ServingSteps ==
    ASSUME IInv,
           \/ \E d \in Data : BeginUpdate(d)
           \/ Update \/ Shutdown \/ Unregister \/ Close \/ Crash
           \/ \E s \in Sessions : ExpireSession(s)
    PROVE  IInv'
<1> USE DepthAssumption, MaxSessionsAssumption, DataAssumption
        DEF Sessions, RegistrySteps, RegisterSteps, NoNode, Present, ensemble, beliefs, processHistory
<1>1. CASE \E d \in Data : BeginUpdate(d)
  <2>1. RegistrationTypeOK'
        BY <1>1 DEF IInv, RegistrationTypeOK, GivenIsSet, BeginUpdate
  <2>2. Ephemeral'
        BY <1>1 DEF IInv, RegistrationTypeOK, Ephemeral, NotYetRegistered, BeginUpdate
  <2>3. NotYetRegistered'
        BY <1>1 DEF IInv, RegistrationTypeOK, NotYetRegistered, BeginUpdate
  <2>4. GivenIsSet'
        BY <1>1 DEF IInv, RegistrationTypeOK, GivenIsSet, BeginUpdate
  <2>5. GhostNeedsLoss'
        BY <1>1 DEF IInv, RegistrationTypeOK, Ephemeral, NotYetRegistered, GhostNeedsLoss, BeginUpdate
  <2>6. RegisteredIsAnnounced'
        BY <1>1 DEF IInv, RegistrationTypeOK, Ephemeral, NotYetRegistered, RegisteredIsAnnounced, BeginUpdate
  <2>7. AnnouncedIsCurrent'
        BY <1>1 DEF IInv, RegistrationTypeOK, Ephemeral, NotYetRegistered, AnnouncedIsCurrent, BeginUpdate
  <2> QED BY <2>1, <2>2, <2>3, <2>4, <2>5, <2>6, <2>7 DEF IInv
<1>2. CASE Update
  <2>1. RegistrationTypeOK'
    <3>1. znode' \in [owner : 0 .. MaxSessions, data : Data \cup {"none"}]
          BY <1>2 DEF IInv, RegistrationTypeOK, GivenIsSet, Update, Answered, Unanswered, NotSent, PerhapsNode
    <3>2. pc' \in RegistrySteps
          BY <1>2 DEF IInv, RegistrationTypeOK, GivenIsSet, Update, Answered, Unanswered, NotSent, PerhapsNode
    <3>3. live' \in SUBSET Sessions /\ self' \in 0 .. MaxSessions
          BY <1>2 DEF IInv, RegistrationTypeOK, GivenIsSet, Update, Answered, Unanswered, NotSent, PerhapsNode
    <3>4. servicePath' \in 0 .. Depth /\ component' \in 1 .. Depth
          BY <1>2 DEF IInv, RegistrationTypeOK, GivenIsSet, Update, Answered, Unanswered, NotSent, PerhapsNode
    <3>5. given' \in Data \cup {"none"} /\ instance' \in Data \cup {"none"}
          BY <1>2 DEF IInv, RegistrationTypeOK, GivenIsSet, Update, Answered, Unanswered, NotSent, PerhapsNode
    <3>6. link' \in BOOLEAN /\ isRegistered' \in BOOLEAN /\ inherited' \in BOOLEAN
          BY <1>2 DEF IInv, RegistrationTypeOK, GivenIsSet, Update, Answered, Unanswered, NotSent, PerhapsNode
    <3>7. lostReply' \in BOOLEAN /\ lostUpdate' \in BOOLEAN
          BY <1>2 DEF IInv, RegistrationTypeOK, GivenIsSet, Update, Answered, Unanswered, NotSent, PerhapsNode
    <3> QED BY <3>1, <3>2, <3>3, <3>4, <3>5, <3>6, <3>7 DEF RegistrationTypeOK
  <2>2. Ephemeral'
        BY <1>2 DEF IInv, RegistrationTypeOK, Ephemeral, NotYetRegistered, Update, Answered, Unanswered, NotSent, PerhapsNode
  <2>3. NotYetRegistered'
        BY <1>2 DEF IInv, RegistrationTypeOK, NotYetRegistered, Update, Answered, Unanswered, NotSent, PerhapsNode
  <2>4. GivenIsSet'
        BY <1>2 DEF IInv, RegistrationTypeOK, GivenIsSet, Update, Answered, Unanswered, NotSent, PerhapsNode
  <2>5. GhostNeedsLoss'
        BY <1>2 DEF IInv, RegistrationTypeOK, Ephemeral, NotYetRegistered, GhostNeedsLoss, Update, Answered, Unanswered, NotSent, PerhapsNode
  <2>6. RegisteredIsAnnounced'
        BY <1>2 DEF IInv, RegistrationTypeOK, Ephemeral, NotYetRegistered, RegisteredIsAnnounced, Update, Answered, Unanswered, NotSent, PerhapsNode
  <2>7. AnnouncedIsCurrent'
        BY <1>2 DEF IInv, RegistrationTypeOK, Ephemeral, NotYetRegistered, AnnouncedIsCurrent, Update, Answered, Unanswered, NotSent, PerhapsNode
  <2> QED BY <2>1, <2>2, <2>3, <2>4, <2>5, <2>6, <2>7 DEF IInv
<1>3. CASE Shutdown
  <2>1. RegistrationTypeOK'
        BY <1>3 DEF IInv, RegistrationTypeOK, GivenIsSet, Shutdown
  <2>2. Ephemeral'
        BY <1>3 DEF IInv, RegistrationTypeOK, Ephemeral, NotYetRegistered, Shutdown
  <2>3. NotYetRegistered'
        BY <1>3 DEF IInv, RegistrationTypeOK, NotYetRegistered, Shutdown
  <2>4. GivenIsSet'
        BY <1>3 DEF IInv, RegistrationTypeOK, GivenIsSet, Shutdown
  <2>5. GhostNeedsLoss'
        BY <1>3 DEF IInv, RegistrationTypeOK, Ephemeral, NotYetRegistered, GhostNeedsLoss, Shutdown
  <2>6. RegisteredIsAnnounced'
        BY <1>3 DEF IInv, RegistrationTypeOK, Ephemeral, NotYetRegistered, RegisteredIsAnnounced, Shutdown
  <2>7. AnnouncedIsCurrent'
        BY <1>3 DEF IInv, RegistrationTypeOK, Ephemeral, NotYetRegistered, AnnouncedIsCurrent, Shutdown
  <2> QED BY <2>1, <2>2, <2>3, <2>4, <2>5, <2>6, <2>7 DEF IInv
<1>4. CASE Unregister
  <2>1. RegistrationTypeOK'
    <3>1. znode' \in [owner : 0 .. MaxSessions, data : Data \cup {"none"}]
          BY <1>4 DEF IInv, RegistrationTypeOK, GivenIsSet, Unregister, Answered, Unanswered, NotSent, PerhapsNode
    <3>2. pc' \in RegistrySteps
          BY <1>4 DEF IInv, RegistrationTypeOK, GivenIsSet, Unregister, Answered, Unanswered, NotSent, PerhapsNode
    <3>3. live' \in SUBSET Sessions /\ self' \in 0 .. MaxSessions
          BY <1>4 DEF IInv, RegistrationTypeOK, GivenIsSet, Unregister, Answered, Unanswered, NotSent, PerhapsNode
    <3>4. servicePath' \in 0 .. Depth /\ component' \in 1 .. Depth
          BY <1>4 DEF IInv, RegistrationTypeOK, GivenIsSet, Unregister, Answered, Unanswered, NotSent, PerhapsNode
    <3>5. given' \in Data \cup {"none"} /\ instance' \in Data \cup {"none"}
          BY <1>4 DEF IInv, RegistrationTypeOK, GivenIsSet, Unregister, Answered, Unanswered, NotSent, PerhapsNode
    <3>6. link' \in BOOLEAN /\ isRegistered' \in BOOLEAN /\ inherited' \in BOOLEAN
          BY <1>4 DEF IInv, RegistrationTypeOK, GivenIsSet, Unregister, Answered, Unanswered, NotSent, PerhapsNode
    <3>7. lostReply' \in BOOLEAN /\ lostUpdate' \in BOOLEAN
          BY <1>4 DEF IInv, RegistrationTypeOK, GivenIsSet, Unregister, Answered, Unanswered, NotSent, PerhapsNode
    <3> QED BY <3>1, <3>2, <3>3, <3>4, <3>5, <3>6, <3>7 DEF RegistrationTypeOK
  <2>2. Ephemeral'
        BY <1>4 DEF IInv, RegistrationTypeOK, Ephemeral, NotYetRegistered, Unregister, Answered, Unanswered, NotSent, PerhapsNode
  <2>3. NotYetRegistered'
        BY <1>4 DEF IInv, RegistrationTypeOK, NotYetRegistered, Unregister, Answered, Unanswered, NotSent, PerhapsNode
  <2>4. GivenIsSet'
        BY <1>4 DEF IInv, RegistrationTypeOK, GivenIsSet, Unregister, Answered, Unanswered, NotSent, PerhapsNode
  <2>5. GhostNeedsLoss'
        BY <1>4 DEF IInv, RegistrationTypeOK, Ephemeral, NotYetRegistered, GhostNeedsLoss, Unregister, Answered, Unanswered, NotSent, PerhapsNode
  <2>6. RegisteredIsAnnounced'
        BY <1>4 DEF IInv, RegistrationTypeOK, Ephemeral, NotYetRegistered, RegisteredIsAnnounced, Unregister, Answered, Unanswered, NotSent, PerhapsNode
  <2>7. AnnouncedIsCurrent'
        BY <1>4 DEF IInv, RegistrationTypeOK, Ephemeral, NotYetRegistered, AnnouncedIsCurrent, Unregister, Answered, Unanswered, NotSent, PerhapsNode
  <2> QED BY <2>1, <2>2, <2>3, <2>4, <2>5, <2>6, <2>7 DEF IInv
<1>5. CASE Close
  <2>1. RegistrationTypeOK'
    <3>1. znode' \in [owner : 0 .. MaxSessions, data : Data \cup {"none"}]
          BY <1>5 DEF IInv, RegistrationTypeOK, GivenIsSet, Close, Gone, ProcessEnds
    <3>2. pc' \in RegistrySteps
          BY <1>5 DEF IInv, RegistrationTypeOK, GivenIsSet, Close, Gone, ProcessEnds
    <3>3. live' \in SUBSET Sessions /\ self' \in 0 .. MaxSessions
      <4>1. live' \subseteq live
            BY <1>5 DEF Close, Gone, ProcessEnds
      <4>2. self' \in 0 .. MaxSessions
            BY <1>5 DEF IInv, RegistrationTypeOK, Close, Gone, ProcessEnds
      <4> QED BY <4>1, <4>2 DEF IInv, RegistrationTypeOK
    <3>4. servicePath' \in 0 .. Depth /\ component' \in 1 .. Depth
          BY <1>5 DEF IInv, RegistrationTypeOK, GivenIsSet, Close, Gone, ProcessEnds
    <3>5. given' \in Data \cup {"none"} /\ instance' \in Data \cup {"none"}
          BY <1>5 DEF IInv, RegistrationTypeOK, GivenIsSet, Close, Gone, ProcessEnds
    <3>6. link' \in BOOLEAN /\ isRegistered' \in BOOLEAN /\ inherited' \in BOOLEAN
          BY <1>5 DEF IInv, RegistrationTypeOK, GivenIsSet, Close, Gone, ProcessEnds
    <3>7. lostReply' \in BOOLEAN /\ lostUpdate' \in BOOLEAN
          BY <1>5 DEF IInv, RegistrationTypeOK, GivenIsSet, Close, Gone, ProcessEnds
    <3> QED BY <3>1, <3>2, <3>3, <3>4, <3>5, <3>6, <3>7 DEF RegistrationTypeOK
  <2>2. Ephemeral'
        BY <1>5 DEF IInv, RegistrationTypeOK, Ephemeral, NotYetRegistered, Close, Gone, ProcessEnds
  <2>3. NotYetRegistered'
        BY <1>5 DEF IInv, RegistrationTypeOK, NotYetRegistered, Close, Gone, ProcessEnds
  <2>4. GivenIsSet'
        BY <1>5 DEF IInv, RegistrationTypeOK, GivenIsSet, Close, Gone, ProcessEnds
  <2>5. GhostNeedsLoss'
        BY <1>5 DEF IInv, RegistrationTypeOK, Ephemeral, NotYetRegistered, GhostNeedsLoss, Close, Gone, ProcessEnds
  <2>6. RegisteredIsAnnounced'
        BY <1>5 DEF IInv, RegistrationTypeOK, Ephemeral, NotYetRegistered, RegisteredIsAnnounced, Close, Gone, ProcessEnds
  <2>7. AnnouncedIsCurrent'
        BY <1>5 DEF IInv, RegistrationTypeOK, Ephemeral, NotYetRegistered, AnnouncedIsCurrent, Close, Gone, ProcessEnds
  <2> QED BY <2>1, <2>2, <2>3, <2>4, <2>5, <2>6, <2>7 DEF IInv
<1>6. CASE Crash
  <2>1. RegistrationTypeOK'
    <3>1. znode' \in [owner : 0 .. MaxSessions, data : Data \cup {"none"}]
          BY <1>6 DEF IInv, RegistrationTypeOK, GivenIsSet, Crash, ProcessEnds
    <3>2. pc' \in RegistrySteps
          BY <1>6 DEF IInv, RegistrationTypeOK, GivenIsSet, Crash, ProcessEnds
    <3>3. live' \in SUBSET Sessions /\ self' \in 0 .. MaxSessions
          BY <1>6 DEF IInv, RegistrationTypeOK, GivenIsSet, Crash, ProcessEnds
    <3>4. servicePath' \in 0 .. Depth /\ component' \in 1 .. Depth
          BY <1>6 DEF IInv, RegistrationTypeOK, GivenIsSet, Crash, ProcessEnds
    <3>5. given' \in Data \cup {"none"} /\ instance' \in Data \cup {"none"}
          BY <1>6 DEF IInv, RegistrationTypeOK, GivenIsSet, Crash, ProcessEnds
    <3>6. link' \in BOOLEAN /\ isRegistered' \in BOOLEAN /\ inherited' \in BOOLEAN
          BY <1>6 DEF IInv, RegistrationTypeOK, GivenIsSet, Crash, ProcessEnds
    <3>7. lostReply' \in BOOLEAN /\ lostUpdate' \in BOOLEAN
          BY <1>6 DEF IInv, RegistrationTypeOK, GivenIsSet, Crash, ProcessEnds
    <3> QED BY <3>1, <3>2, <3>3, <3>4, <3>5, <3>6, <3>7 DEF RegistrationTypeOK
  <2>2. Ephemeral'
        BY <1>6 DEF IInv, RegistrationTypeOK, Ephemeral, NotYetRegistered, Crash, ProcessEnds
  <2>3. NotYetRegistered'
        BY <1>6 DEF IInv, RegistrationTypeOK, NotYetRegistered, Crash, ProcessEnds
  <2>4. GivenIsSet'
        BY <1>6 DEF IInv, RegistrationTypeOK, GivenIsSet, Crash, ProcessEnds
  <2>5. GhostNeedsLoss'
        BY <1>6 DEF IInv, RegistrationTypeOK, Ephemeral, NotYetRegistered, GhostNeedsLoss, Crash, ProcessEnds
  <2>6. RegisteredIsAnnounced'
        BY <1>6 DEF IInv, RegistrationTypeOK, Ephemeral, NotYetRegistered, RegisteredIsAnnounced, Crash, ProcessEnds
  <2>7. AnnouncedIsCurrent'
        BY <1>6 DEF IInv, RegistrationTypeOK, Ephemeral, NotYetRegistered, AnnouncedIsCurrent, Crash, ProcessEnds
  <2> QED BY <2>1, <2>2, <2>3, <2>4, <2>5, <2>6, <2>7 DEF IInv
<1>7. CASE \E s \in Sessions : ExpireSession(s)
  <2>1. RegistrationTypeOK'
        BY <1>7 DEF IInv, RegistrationTypeOK, GivenIsSet, ExpireSession, Gone
  <2>2. Ephemeral'
        BY <1>7 DEF IInv, RegistrationTypeOK, Ephemeral, NotYetRegistered, ExpireSession, Gone
  <2>3. NotYetRegistered'
        BY <1>7 DEF IInv, RegistrationTypeOK, NotYetRegistered, ExpireSession, Gone
  <2>4. GivenIsSet'
        BY <1>7 DEF IInv, RegistrationTypeOK, GivenIsSet, ExpireSession, Gone
  <2>5. GhostNeedsLoss'
        BY <1>7 DEF IInv, RegistrationTypeOK, Ephemeral, NotYetRegistered, GhostNeedsLoss, ExpireSession, Gone
  <2>6. RegisteredIsAnnounced'
        BY <1>7 DEF IInv, RegistrationTypeOK, Ephemeral, NotYetRegistered, RegisteredIsAnnounced, ExpireSession, Gone
  <2>7. AnnouncedIsCurrent'
        BY <1>7 DEF IInv, RegistrationTypeOK, Ephemeral, NotYetRegistered, AnnouncedIsCurrent, ExpireSession, Gone
  <2> QED BY <2>1, <2>2, <2>3, <2>4, <2>5, <2>6, <2>7 DEF IInv
<1> QED BY <1>1, <1>2, <1>3, <1>4, <1>5, <1>6, <1>7

\* Every step keeps the inductive invariant.
LEMMA NextIInv == IInv /\ [RegistrationNext]_registrationVars => IInv'
<1> SUFFICES ASSUME IInv, [RegistrationNext]_registrationVars PROVE IInv' OBVIOUS
<1>1. CASE ProcessStep
      BY <1>1, ConnectionSteps, PathSteps, NodeSteps, ServingSteps
      DEF ProcessStep, RegisterStep
<1>2. CASE Connected \/ LinkDown \/ LinkUp \/ OtherServer
      BY <1>2, ConnectionSteps
<1>3. CASE \E s \in Sessions : ExpireSession(s)
      BY <1>3, ServingSteps
<1>4. CASE UNCHANGED registrationVars
  <2>1. RegistrationTypeOK' BY <1>4 DEF registrationVars, IInv, RegistrationTypeOK
  <2>2. (Ephemeral /\ NotYetRegistered /\ GivenIsSet)'
        BY <1>4 DEF registrationVars, IInv, Ephemeral, NotYetRegistered, GivenIsSet, Present
  <2>3. (GhostNeedsLoss /\ RegisteredIsAnnounced /\ AnnouncedIsCurrent)'
        BY <1>4 DEF registrationVars, IInv, GhostNeedsLoss, RegisteredIsAnnounced, AnnouncedIsCurrent,
                    Present
  <2> QED BY <2>1, <2>2, <2>3 DEF IInv
<1> QED BY <1>1, <1>2, <1>3, <1>4 DEF RegistrationNext

\* The inductive invariant holds in every reachable state.
THEOREM Invariance == RegistrationSpec => []IInv
<1>1. RegistrationInit => IInv BY InitIInv
<1>2. IInv /\ [RegistrationNext]_registrationVars => IInv' BY NextIInv
<1> QED BY <1>1, <1>2, PTL DEF RegistrationSpec

\* Type correctness.
THEOREM TypeCorrect == RegistrationSpec => []RegistrationTypeOK
<1>1. IInv => RegistrationTypeOK BY DEF IInv
<1> QED BY <1>1, Invariance, PTL

\* A server that believes it is registered has a node of its own session,
\* unless Register only wrote into the node of an earlier session.
THEOREM RegistrationHolds == RegistrationSpec => []RegisteredIsAnnounced
<1>1. IInv => RegisteredIsAnnounced BY DEF IInv
<1> QED BY <1>1, Invariance, PTL

\* Clients never read what an earlier process stored at the address of a
\* registered server.
THEOREM DescriptionHolds == RegistrationSpec => []AnnouncedIsCurrent
<1>1. IInv => AnnouncedIsCurrent BY DEF IInv
<1> QED BY <1>1, Invariance, PTL

\* A server that is not registered leaves a node of its session only when a
\* create or delete went unanswered.
THEOREM GhostsNeedLoss == RegistrationSpec => []NoGhost
<1>1. IInv => NoGhost BY DEF IInv, GhostNeedsLoss, NoGhost
<1> QED BY <1>1, Invariance, PTL
=============================================================================
