---------------------------- MODULE HarnessProofs ----------------------------
(***************************************************************************)
(* Proofs about the scenario lifecycle (module Harness), for every set of *)
(* container ids, config files and ports and every number of scenarios.   *)
(***************************************************************************)
EXTENDS Harness, SequenceTheorems, TLAPS

USE CtrIdsAssumption, FilesAssumption, PortsAssumption,
    MaxScenariosAssumption, NoneAssumption

\* TypeOK, with the fact that a scenario in progress has a number
TInv ==
    /\ TypeOK
    /\ phase # "between" => scen \in 1..MaxScenarios

\* The effect of a stop loop keeps the statuses in their types.
LEMMA StopEffectType ==
    ASSUME TypeOK, NEW S, StopEffect(S)
    PROVE  /\ ctr' \in [CtrIds -> {"none", "running", "exited", "removed"}]
           /\ agent' \in [CtrIds -> {"none", "pending", "up", "down"}]
BY DEF StopEffect, TypeOK

LEMMA TInvInit == Init => TInv
BY DEF Init, TInv, TypeOK

LEMMA TInvNext == TInv /\ [Next]_vars => TInv'
<1> SUFFICES ASSUME TInv, [Next]_vars PROVE TInv'
  OBVIOUS
<1> USE DEF TInv, TypeOK
<1>1. CASE BeforeScenario
  BY <1>1 DEF BeforeScenario, docker
<1>2. CASE CreateConfigDefault
  BY <1>2 DEF CreateConfigDefault, WriteConfig, Ports
<1>3. CASE CreateConfigAvailable
  <2>1. CASE \E p \in EphemeralPorts \ BoundPorts :
                /\ WriteConfig(p)
                /\ UNCHANGED <<phase, dirty>>
    BY <1>3, <2>1 DEF CreateConfigAvailable, WriteConfig, Ports
  <2>2. CASE /\ EphemeralPorts \subseteq BoundPorts
             /\ Fail
             /\ UNCHANGED <<fileCfg, onDisk, ctxFile, ctxPort>>
    BY <1>3, <2>2 DEF CreateConfigAvailable, Fail
  <2>3. QED
    BY <1>3, <2>1, <2>2 DEF CreateConfigAvailable
<1>4. CASE CreateConfigUnavailable
  BY <1>4 DEF CreateConfigUnavailable, Fail, docker
<1>5. CASE RunAgent
  <2>1. CASE /\ ctxFile = None
             /\ Fail
             /\ UNCHANGED <<registry, ctxCtr, docker>>
    BY <1>5, <2>1 DEF RunAgent, Fail, docker
  <2>2. CASE /\ ctxFile # None
             /\ \E c \in CtrIds : Exists(c) /\ ctrFile[c] = ctxFile
             /\ Fail
             /\ UNCHANGED <<registry, ctxCtr, docker>>
    BY <1>5, <2>2 DEF RunAgent, Fail, docker
  <2>3. CASE /\ ctxFile # None
             /\ \A c \in CtrIds : Exists(c) => ctrFile[c] # ctxFile
             /\ \E c \in CtrIds :
                   /\ ctr[c] = "none"
                   /\ ctr' = [ctr EXCEPT ![c] = "running"]
                   /\ ctrFile' = [ctrFile EXCEPT ![c] = ctxFile]
                   /\ agent' = [agent EXCEPT ![c] = "pending"]
                   /\ owner' = [owner EXCEPT ![c] = scen]
                   /\ ctxCtr' = c
                   /\ registry' = Append(registry, c)
             /\ UNCHANGED <<phase, dirty, fileCfg, onDisk>>
    <3>1. PICK c \in CtrIds : /\ ctr' = [ctr EXCEPT ![c] = "running"]
                              /\ ctrFile' = [ctrFile EXCEPT ![c] = ctxFile]
                              /\ agent' = [agent EXCEPT ![c] = "pending"]
                              /\ owner' = [owner EXCEPT ![c] = scen]
                              /\ ctxCtr' = c
                              /\ registry' = Append(registry, c)
      BY <2>3
    <3>2. registry' \in Seq(CtrIds)
      BY <3>1, AppendProperties
    <3>3. QED
      BY <1>5, <2>3, <3>1, <3>2 DEF RunAgent
  <2>4. CASE /\ ctxFile # None
             /\ \A c \in CtrIds : Exists(c) => ctrFile[c] # ctxFile
             /\ \E c \in CtrIds :
                   /\ ctr[c] = "none"
                   /\ ctr' = [ctr EXCEPT ![c] = "exited"]
                   /\ ctrFile' = [ctrFile EXCEPT ![c] = ctxFile]
                   /\ owner' = [owner EXCEPT ![c] = scen]
             /\ Fail
             /\ UNCHANGED <<registry, ctxCtr, agent, fileCfg, onDisk, clashes>>
    BY <1>5, <2>4 DEF RunAgent, Fail
  <2>5. QED
    BY <1>5, <2>1, <2>2, <2>3, <2>4 DEF RunAgent
<1>6. CASE \E s \in {"running", "exited"} : ValidateStatus(s)
  BY <1>6 DEF ValidateStatus, Fail, docker
<1>7. CASE StopStep
  <2>1. /\ ctr' \in [CtrIds -> {"none", "running", "exited", "removed"}]
        /\ agent' \in [CtrIds -> {"none", "pending", "up", "down"}]
    BY <1>7, StopEffectType DEF StopStep, StopAgents
  <2>2. phase' \in {"between", "running", "failed"} /\ dirty' \subseteq 1..MaxScenarios
    <3>1. CASE Raises(registry, StopOk)
      BY <1>7, <3>1 DEF StopStep, StopAgents, Fail
    <3>2. CASE ~Raises(registry, StopOk)
      BY <1>7, <3>2 DEF StopStep, StopAgents
    <3>3. QED
      BY <3>1, <3>2
  <2>3. QED
    BY <1>7, <2>1, <2>2 DEF StopStep
<1>8. CASE RemoveStep
  <2>1. ctr' \in [CtrIds -> {"none", "running", "exited", "removed"}]
    BY <1>8 DEF RemoveStep, RemoveAgents
  <2>2. phase' \in {"between", "running", "failed"} /\ dirty' \subseteq 1..MaxScenarios
    <3>1. CASE Raises(registry, RemoveOk)
      BY <1>8, <3>1 DEF RemoveStep, RemoveAgents, Fail
    <3>2. CASE ~Raises(registry, RemoveOk)
      BY <1>8, <3>2 DEF RemoveStep, RemoveAgents
    <3>3. QED
      BY <3>1, <3>2
  <2>3. QED
    BY <1>8, <2>1, <2>2 DEF RemoveStep
<1>9. CASE ForceRemoveAll
  BY <1>9 DEF ForceRemoveAll
<1>10. CASE RemoveConfigFiles
  BY <1>10 DEF RemoveConfigFiles
<1>11. CASE AfterScenario
  <2>1. CASE phase = "failed"
    BY <1>11, <2>1 DEF AfterScenario
  <2>2. CASE phase # "failed" /\ Raises(registry, StopOk)
    <3>1. StopEffect(Reached(registry, StopOk)) /\ dirty' = dirty \cup {scen}
      BY <1>11, <2>2 DEF AfterScenario
    <3>2. QED
      BY <1>11, <2>2, <3>1, StopEffectType DEF AfterScenario
  <2>3. CASE phase # "failed" /\ ~Raises(registry, StopOk)
    <3>1. /\ ctr' = [c \in CtrIds |->
                      IF c \in Range(registry) THEN "removed" ELSE ctr[c]]
          /\ agent' = [c \in CtrIds |->
                        IF c \in Range(registry) /\ agent[c] # "none"
                           THEN "down" ELSE agent[c]]
          /\ dirty' = dirty
      BY <1>11, <2>3 DEF AfterScenario
    <3>2. QED
      BY <1>11, <3>1 DEF AfterScenario
  <2>4. QED
    BY <2>1, <2>2, <2>3
<1>12. CASE \E c \in CtrIds : AgentSettles(c)
  <2> PICK c \in CtrIds : AgentSettles(c)
    BY <1>12
  <2>1. CASE ctrFile[c] \in onDisk /\ fileCfg[ctrFile[c]] \notin BoundPorts
    BY <2>1 DEF AgentSettles
  <2>2. CASE ~(ctrFile[c] \in onDisk /\ fileCfg[ctrFile[c]] \notin BoundPorts)
    <3>1. clashes' \subseteq CtrIds \X CtrIds
      BY <2>2 DEF AgentSettles
    <3>2. QED
      BY <2>2, <3>1 DEF AgentSettles
  <2>3. QED
    BY <2>1, <2>2
<1>13. CASE UNCHANGED vars
  BY <1>13 DEF vars
<1>14. QED
  BY <1>1, <1>2, <1>3, <1>4, <1>5, <1>6, <1>7, <1>8, <1>9, <1>10, <1>11,
     <1>12, <1>13 DEF Next

\* The harness keeps its state, the context and the Docker daemon's view in
\* their types.
THEOREM TypeCorrect == Spec => []TypeOK
<1>1. TInv => TypeOK
  BY DEF TInv
<1>2. QED
  BY TInvInit, TInvNext, <1>1, PTL DEF Spec

-----------------------------------------------------------------------------
(***************************************************************************)
(* OnlyDirtyScenariosLeak is not inductive: the cleanup hook removes the  *)
(* containers of the registry, and the property needs to know that those  *)
(* are all the containers a running scenario started.  A container whose  *)
(* start raised is never registered, but the scenario has failed by then. *)
(* HInv adds that fact (RegistryCoversScenario), that an unused id has no *)
(* owner and a used one belongs to a scenario already started, that a     *)
(* failed scenario is recorded as dirty, and that during a scenario every *)
(* container of an earlier scenario still known to the daemon belongs to  *)
(* a dirty one.                                                           *)
(***************************************************************************)

\* an id the daemon never handed out belongs to no scenario
OwnedIffUsed == \A c \in CtrIds : ctr[c] = "none" <=> owner[c] = 0

\* containers belong to scenarios already started
OwnerBound == \A c \in CtrIds : owner[c] <= scen

\* the registry holds only containers of the current scenario, and while
\* the scenario runs it holds all of them
RegistryCoversScenario ==
    /\ Range(registry) \subseteq {c \in CtrIds : owner[c] = scen}
    /\ phase = "running" =>
           {c \in CtrIds : owner[c] = scen} \subseteq Range(registry)

\* a failed scenario is dirty
FailedIsDirty == phase = "failed" => scen \in dirty

\* a known container of a finished or earlier scenario belongs to a dirty one
LeaksDirty ==
    \A c \in CtrIds :
        Exists(c) /\ (phase = "between" \/ owner[c] < scen) => owner[c] \in dirty

\* an agent that has not settled runs in a running container
PendingRuns == \A c \in CtrIds : agent[c] = "pending" => ctr[c] = "running"

HInv ==
    /\ TInv
    /\ PendingRuns
    /\ OwnedIffUsed
    /\ OwnerBound
    /\ RegistryCoversScenario
    /\ FailedIsDirty
    /\ LeaksDirty

\* The ids the stop or remove loop reaches are ids on which the call
\* succeeds.
LEMMA ReachedOk ==
    ASSUME NEW reg, NEW ok
    PROVE  Reached(reg, ok) \subseteq ok
<1> SUFFICES ASSUME NEW i \in 1..Len(reg), PrefixOk(reg, i, ok)
             PROVE  reg[i] \in ok
  BY DEF Reached
<1> QED
  BY DEF PrefixOk

\* Appending an id to the registry adds it to the registry's range.
LEMMA RangeAppend ==
    ASSUME NEW S, NEW s \in Seq(S), NEW e \in S
    PROVE  Range(Append(s, e)) = Range(s) \cup {e}
<1>1. /\ Len(Append(s, e)) = Len(s) + 1
      /\ \A i \in 1..Len(s) : Append(s, e)[i] = s[i]
      /\ Append(s, e)[Len(s) + 1] = e
  BY AppendProperties
<1>2. DOMAIN Append(s, e) = 1..Len(s) + 1 /\ DOMAIN s = 1..Len(s)
  BY AppendProperties
<1>3. QED
  BY <1>1, <1>2 DEF Range

LEMMA HInvInit == Init => HInv
BY TInvInit DEF Init, HInv, PendingRuns, OwnedIffUsed, OwnerBound,
   RegistryCoversScenario, FailedIsDirty, LeaksDirty, Exists, Range

\* the conjuncts of HInv other than the type invariant
HRest == PendingRuns /\ OwnedIffUsed /\ OwnerBound /\ RegistryCoversScenario
         /\ FailedIsDirty /\ LeaksDirty

LEMMA HInvNext == HInv /\ [Next]_vars => HInv'
<1> SUFFICES ASSUME HInv, [Next]_vars PROVE HInv'
  OBVIOUS
<1>0. TInv'
  BY TInvNext DEF HInv
<1> USE DEF HInv, HRest, PendingRuns, OwnedIffUsed, OwnerBound, RegistryCoversScenario,
            FailedIsDirty, LeaksDirty, Exists, TInv, TypeOK
<1>1. CASE BeforeScenario
  <2>1. Range(registry') = {} /\ {c \in CtrIds : owner'[c] = scen'} = {}
    BY <1>1 DEF BeforeScenario, docker, Range
  <2>2. QED
    BY <1>0, <1>1, <2>1 DEF BeforeScenario, docker
<1>2. CASE CreateConfigDefault
  BY <1>0, <1>2 DEF CreateConfigDefault, WriteConfig
<1>3. CASE CreateConfigAvailable
  BY <1>0, <1>3 DEF CreateConfigAvailable, WriteConfig, Fail
<1>4. CASE CreateConfigUnavailable
  BY <1>0, <1>4 DEF CreateConfigUnavailable, Fail, docker
<1>5. CASE RunAgent
  <2>1. CASE \/ ctxFile = None
             \/ \E c \in CtrIds : Exists(c) /\ ctrFile[c] = ctxFile
    BY <1>0, <1>5, <2>1 DEF RunAgent, Fail, docker
  <2>2. CASE /\ ctxFile # None
             /\ \A c \in CtrIds : Exists(c) => ctrFile[c] # ctxFile
             /\ phase' = "running"
    <3>1. PICK c \in CtrIds : /\ ctr[c] = "none"
                              /\ ctr' = [ctr EXCEPT ![c] = "running"]
                              /\ owner' = [owner EXCEPT ![c] = scen]
                              /\ agent' = [agent EXCEPT ![c] = "pending"]
                              /\ registry' = Append(registry, c)
                              /\ UNCHANGED <<phase, scen, dirty>>
      BY <1>5, <2>2 DEF RunAgent, Fail
    <3>2. phase = "running" /\ scen \in 1..MaxScenarios /\ owner[c] = 0
      BY <1>5, <3>1 DEF RunAgent
    <3>6. agent' = [agent EXCEPT ![c] = "pending"]
      BY <3>1
    <3>3. Range(registry') = Range(registry) \cup {c}
      BY <3>1, RangeAppend
    <3>4. RegistryCoversScenario'
      BY <3>1, <3>2, <3>3
    <3>7. (PendingRuns /\ OwnedIffUsed /\ OwnerBound)'
      BY <3>1, <3>2, <3>6
    <3>8. (FailedIsDirty /\ LeaksDirty)'
      BY <3>1, <3>2
    <3>5. QED
      BY <1>0, <3>4, <3>7, <3>8
  <2>3. CASE /\ ctxFile # None
             /\ \A c \in CtrIds : Exists(c) => ctrFile[c] # ctxFile
             /\ phase' # "running"
    <3>1. PICK c \in CtrIds : /\ ctr[c] = "none"
                              /\ ctr' = [ctr EXCEPT ![c] = "exited"]
                              /\ owner' = [owner EXCEPT ![c] = scen]
                              /\ phase' = "failed" /\ dirty' = dirty \cup {scen}
                              /\ UNCHANGED <<scen, registry, agent>>
      BY <1>5, <2>3 DEF RunAgent, Fail
    <3>2. phase = "running" /\ scen \in 1..MaxScenarios /\ owner[c] = 0
      BY <1>5, <3>1 DEF RunAgent
    <3>3. (PendingRuns /\ OwnedIffUsed /\ OwnerBound)'
      BY <3>1, <3>2
    <3>4. (RegistryCoversScenario /\ FailedIsDirty /\ LeaksDirty)'
      BY <3>1, <3>2
    <3>5. QED
      BY <1>0, <3>3, <3>4
  <2>4. QED
    BY <2>1, <2>2, <2>3
<1>6. CASE \E s \in {"running", "exited"} : ValidateStatus(s)
  BY <1>0, <1>6 DEF ValidateStatus, Fail, docker
<1>7. CASE StopStep
  <2>1. \A c \in CtrIds : (ctr'[c] = "none" <=> ctr[c] = "none")
                          /\ (Exists(c)' => Exists(c))
                          /\ (agent'[c] = "pending" => agent[c] = "pending"
                                                      /\ ctr'[c] = ctr[c])
    <3>1. Reached(registry, StopOk) \subseteq StopOk
      BY ReachedOk
    <3>2. QED
      BY <1>7, <3>1 DEF StopStep, StopAgents, StopEffect, StopOk, Exists
  <2>2. CASE Raises(registry, StopOk)
    BY <1>0, <1>7, <2>1, <2>2 DEF StopStep, StopAgents, Fail
  <2>3. CASE ~Raises(registry, StopOk)
    BY <1>0, <1>7, <2>1, <2>3 DEF StopStep, StopAgents
  <2>4. QED
    BY <2>2, <2>3
<1>8. CASE RemoveStep
  <2>1. \A c \in CtrIds : (ctr'[c] = "none" <=> ctr[c] = "none")
                          /\ (Exists(c)' => Exists(c))
                          /\ (agent'[c] = "pending" => agent[c] = "pending"
                                                      /\ ctr'[c] = ctr[c])
    BY <1>8 DEF RemoveStep, RemoveAgents, Reached, PrefixOk, RemoveOk
  <2>2. CASE Raises(registry, RemoveOk)
    BY <1>0, <1>8, <2>1, <2>2 DEF RemoveStep, RemoveAgents, Fail
  <2>3. CASE ~Raises(registry, RemoveOk)
    BY <1>0, <1>8, <2>1, <2>3 DEF RemoveStep, RemoveAgents
  <2>4. QED
    BY <2>2, <2>3
<1>9. CASE ForceRemoveAll
  BY <1>0, <1>9 DEF ForceRemoveAll
<1>10. CASE RemoveConfigFiles
  BY <1>0, <1>10 DEF RemoveConfigFiles
<1>11. CASE AfterScenario
  <2>1. CASE phase = "failed"
    BY <1>0, <1>11, <2>1 DEF AfterScenario
  <2>2. CASE phase # "failed" /\ Raises(registry, StopOk)
    <3>1. /\ StopEffect(Reached(registry, StopOk))
          /\ dirty' = dirty \cup {scen}
          /\ phase \in {"running", "failed"} /\ phase' = "between"
          /\ UNCHANGED <<scen, registry, owner>>
      BY <1>11, <2>2 DEF AfterScenario
    <3>2. \A c \in CtrIds : (ctr'[c] = "none" <=> ctr[c] = "none")
                            /\ (Exists(c)' => Exists(c))
                            /\ (agent'[c] = "pending" => agent[c] = "pending"
                                                        /\ ctr'[c] = ctr[c])
      BY <3>1 DEF StopEffect, Reached, PrefixOk, StopOk
    <3>3. ASSUME NEW c \in CtrIds, Exists(c)'
          PROVE  owner[c] \in dirty'
      <4>1. Exists(c) /\ owner[c] \in 0..scen
        BY <3>2, <3>3
      <4>2. CASE owner[c] = scen
        BY <3>1, <4>2
      <4>3. CASE owner[c] < scen
        BY <3>1, <4>1, <4>3
      <4>4. QED
        BY <4>1, <4>2, <4>3
    <3>4. QED
      BY <1>0, <3>1, <3>2, <3>3
  <2>3. CASE phase # "failed" /\ ~Raises(registry, StopOk)
    <3>1. /\ ctr' = [c \in CtrIds |->
                      IF c \in Range(registry) THEN "removed" ELSE ctr[c]]
          /\ dirty' = dirty
          /\ phase' = "between"
          /\ UNCHANGED <<scen, registry, owner>>
      BY <1>11, <2>3 DEF AfterScenario
    <3>2. phase = "running"
      BY <1>11, <2>3 DEF AfterScenario
    <3>3. ASSUME NEW c \in CtrIds, Exists(c)'
          PROVE  owner[c] \in dirty
      <4>1. c \notin Range(registry) /\ Exists(c)
        BY <3>1, <3>3
      <4>2. owner[c] # scen /\ owner[c] # 0
        BY <3>2, <4>1
      <4>3. QED
        BY <3>2, <4>1, <4>2
    <3>5. agent' = [c \in CtrIds |->
                     IF c \in Range(registry) /\ agent[c] # "none"
                        THEN "down" ELSE agent[c]]
      BY <1>11, <2>3 DEF AfterScenario
    <3>6. \A c \in Range(registry) : ctr[c] # "none"
      BY <3>2
    <3>7. (PendingRuns /\ OwnedIffUsed /\ OwnerBound)'
      BY <3>1, <3>5, <3>6
    <3>8. RegistryCoversScenario' /\ FailedIsDirty'
      BY <3>1
    <3>4. QED
      BY <1>0, <3>1, <3>3, <3>7, <3>8
  <2>4. QED
    BY <2>1, <2>2, <2>3
<1>12. CASE \E c \in CtrIds : AgentSettles(c)
  <2>1. PICK c \in CtrIds : AgentSettles(c)
    BY <1>12
  <2>2. ctr[c] = "running"
    BY <2>1 DEF AgentSettles
  <2>3. CASE ctrFile[c] \in onDisk /\ fileCfg[ctrFile[c]] \notin BoundPorts
    BY <1>0, <2>1, <2>2, <2>3 DEF AgentSettles
  <2>4. CASE ~(ctrFile[c] \in onDisk /\ fileCfg[ctrFile[c]] \notin BoundPorts)
    <3>1. /\ agent' = [agent EXCEPT ![c] = "down"]
          /\ ctr' = [ctr EXCEPT ![c] = "exited"]
          /\ UNCHANGED <<phase, scen, registry, owner, dirty>>
      BY <2>1, <2>4 DEF AgentSettles
    <3>2. QED
      BY <1>0, <2>2, <3>1
  <2>5. QED
    BY <2>3, <2>4
<1>13. CASE UNCHANGED vars
  BY <1>0, <1>13 DEF vars
<1>14. QED
  BY <1>1, <1>2, <1>3, <1>4, <1>5, <1>6, <1>7, <1>8, <1>9, <1>10, <1>11,
     <1>12, <1>13 DEF Next

\* A scenario that passed and whose cleanup succeeded leaves no container
\* behind: between scenarios every container the daemon knows of belongs
\* to a scenario that failed or whose cleanup raised.
THEOREM DirtyLeaksOnly == Spec => []OnlyDirtyScenariosLeak
<1>1. HInv => OnlyDirtyScenariosLeak
  BY DEF HInv, LeaksDirty, OnlyDirtyScenariosLeak, Exists
<1>2. QED
  BY HInvInit, HInvNext, <1>1, PTL DEF Spec

-----------------------------------------------------------------------------
(***************************************************************************)
(* Port clashes.  PortClashesExplained is about the history of clashes,   *)
(* whose owners must stay fixed and whose owners' scenarios must have     *)
(* been current or dirty when the clash happened.  CInv adds to HInv that  *)
(* a settled agent runs in a running container, so that LeaksDirty also   *)
(* covers the agent holding the port, and that the ids of a clash were    *)
(* handed out, so that RunAgent never changes their owner.                *)
(***************************************************************************)

\* a settled agent runs in a running container
UpRuns == \A c \in CtrIds : agent[c] = "up" => ctr[c] = "running"

\* both ids of a clash were handed out by the daemon
ClashesUsed == \A p \in clashes : ctr[p[1]] # "none" /\ ctr[p[2]] # "none"

CInv == HInv /\ UpRuns /\ ClashesUsed /\ PortClashesExplained

\* A step that adds no clash, keeps every owner, drops no dirty scenario
\* and hands no used id back keeps the clashes explained.
LEMMA ClashesStable ==
    ASSUME ClashesUsed, PortClashesExplained,
           clashes' = clashes, owner' = owner, dirty \subseteq dirty',
           \A c \in CtrIds : ctr[c] # "none" => ctr'[c] # "none",
           clashes \subseteq CtrIds \X CtrIds
    PROVE  ClashesUsed' /\ PortClashesExplained'
BY DEF ClashesUsed, PortClashesExplained

LEMMA CInvInit == Init => CInv
BY HInvInit DEF Init, CInv, UpRuns, ClashesUsed, PortClashesExplained

LEMMA CInvNext == CInv /\ [Next]_vars => CInv'
<1> SUFFICES ASSUME CInv, [Next]_vars PROVE CInv'
  OBVIOUS
<1>0. HInv'
  BY HInvNext DEF CInv
<1>1. TypeOK /\ TypeOK'
  BY <1>0 DEF CInv, HInv, TInv
<1> SUFFICES UpRuns' /\ ClashesUsed' /\ PortClashesExplained'
  BY <1>0 DEF CInv
<1>2. CASE BeforeScenario
  BY <1>1, <1>2, ClashesStable DEF BeforeScenario, docker, CInv, UpRuns, TypeOK
<1>3. CASE CreateConfigDefault
  BY <1>1, <1>3, ClashesStable DEF CreateConfigDefault, CInv, UpRuns, TypeOK
<1>4. CASE CreateConfigAvailable
  BY <1>1, <1>4, ClashesStable DEF CreateConfigAvailable, Fail, CInv, UpRuns, TypeOK
<1>5. CASE CreateConfigUnavailable
  BY <1>1, <1>5, ClashesStable DEF CreateConfigUnavailable, Fail, docker, CInv,
     UpRuns, TypeOK
<1>6. CASE RunAgent
  <2>1. CASE UNCHANGED docker
    BY <1>1, <1>6, <2>1, ClashesStable DEF RunAgent, Fail, docker, CInv, UpRuns,
       TypeOK
  <2>2. CASE ~UNCHANGED docker /\ phase' = "running"
    <3> PICK c \in CtrIds :
            /\ ctr[c] = "none"
            /\ ctr' = [ctr EXCEPT ![c] = "running"]
            /\ agent' = [agent EXCEPT ![c] = "pending"]
            /\ owner' = [owner EXCEPT ![c] = scen]
            /\ clashes' = clashes /\ dirty' = dirty
      BY <1>6, <2>2 DEF RunAgent, docker, Fail
    <3>1. \A p \in clashes : p[1] # c /\ p[2] # c
      BY DEF CInv, ClashesUsed
    <3>2. QED
      BY <1>1, <3>1 DEF CInv, UpRuns, ClashesUsed, PortClashesExplained, TypeOK
  <2>3. CASE ~UNCHANGED docker /\ phase' # "running"
    <3> PICK c \in CtrIds :
            /\ ctr[c] = "none"
            /\ ctr' = [ctr EXCEPT ![c] = "exited"]
            /\ owner' = [owner EXCEPT ![c] = scen]
            /\ UNCHANGED <<agent, clashes>> /\ dirty' = dirty \cup {scen}
      BY <1>6, <2>3 DEF RunAgent, docker, Fail
    <3>1. \A p \in clashes : p[1] # c /\ p[2] # c
      BY DEF CInv, ClashesUsed
    <3>2. agent[c] # "up"
      BY DEF CInv, UpRuns
    <3>3. QED
      BY <1>1, <3>1, <3>2 DEF CInv, UpRuns, ClashesUsed, PortClashesExplained, TypeOK
  <2>4. QED
    BY <2>1, <2>2, <2>3
<1>7. CASE \E st \in {"running", "exited"} : ValidateStatus(st)
  BY <1>1, <1>7, ClashesStable DEF ValidateStatus, Fail, docker, CInv, UpRuns,
     TypeOK
<1>8. CASE StopStep
  BY <1>1, <1>8, ClashesStable DEF StopStep, StopAgents, StopEffect, Fail, CInv,
     UpRuns, TypeOK
<1>9. CASE RemoveStep
  <2>1. Reached(registry, RemoveOk) \subseteq RemoveOk
    BY ReachedOk
  <2>2. QED
    BY <1>1, <1>9, <2>1, ClashesStable DEF RemoveStep, RemoveAgents, RemoveOk,
       Fail, CInv, UpRuns, TypeOK
<1>10. CASE ForceRemoveAll
  BY <1>1, <1>10, ClashesStable DEF ForceRemoveAll, Exists, CInv, UpRuns, TypeOK
<1>11. CASE RemoveConfigFiles
  BY <1>1, <1>11, ClashesStable DEF RemoveConfigFiles, CInv, UpRuns, TypeOK
<1>12. CASE AfterScenario
  BY <1>1, <1>12, ClashesStable DEF AfterScenario, StopEffect, CInv, UpRuns,
     TypeOK
<1>13. CASE \E c \in CtrIds : AgentSettles(c)
  <2> PICK c \in CtrIds : AgentSettles(c)
    BY <1>13
  <2>1. CASE ctrFile[c] \in onDisk /\ fileCfg[ctrFile[c]] \notin BoundPorts
    BY <1>1, <2>1, ClashesStable DEF AgentSettles, CInv, HInv, PendingRuns,
       UpRuns, TypeOK
  <2>2. CASE ~(ctrFile[c] \in onDisk /\ fileCfg[ctrFile[c]] \notin BoundPorts)
    <3> DEFINE Holders == {e \in CtrIds : agent[e] = "up"
                                /\ fileCfg[ctrFile[e]] = fileCfg[ctrFile[c]]}
    <3>1. /\ agent' = [agent EXCEPT ![c] = "down"]
          /\ ctr' = [ctr EXCEPT ![c] = "exited"]
          /\ clashes' = clashes \cup {<<c, d>> : d \in Holders}
          /\ owner' = owner /\ dirty' = dirty
          /\ phase' = phase /\ scen' = scen
      BY <2>2 DEF AgentSettles
    <3>2. UpRuns'
      BY <1>1, <3>1 DEF CInv, UpRuns, TypeOK
    <3>3. ASSUME NEW d \in Holders
          PROVE  \/ owner[c] = owner[d]
                 \/ owner[c] \in dirty
                 \/ owner[d] \in dirty
      <4>1. Exists(c) /\ Exists(d)
        BY <1>13 DEF AgentSettles, CInv, HInv, PendingRuns, UpRuns, Exists
      <4>2. owner[c] <= scen /\ owner[d] <= scen
        BY DEF CInv, HInv, OwnerBound
      <4>3. owner[c] \in Nat /\ owner[d] \in Nat /\ scen \in Nat
        BY <1>1 DEF TypeOK
      <4>4. QED
        BY <4>1, <4>2, <4>3 DEF CInv, HInv, LeaksDirty
    <3>4. c \notin Holders /\ ctr[c] = "running"
      BY <1>13 DEF AgentSettles, CInv, HInv, PendingRuns
    <3>5. ClashesUsed'
      BY <1>1, <3>1, <3>4 DEF CInv, ClashesUsed, UpRuns, TypeOK
    <3>6. PortClashesExplained'
      <4> SUFFICES ASSUME NEW p \in clashes'
                   PROVE  \/ owner'[p[1]] = owner'[p[2]]
                          \/ owner'[p[1]] \in dirty'
                          \/ owner'[p[2]] \in dirty'
        BY DEF PortClashesExplained
      <4>1. CASE p \in clashes
        BY <3>1, <4>1 DEF CInv, PortClashesExplained
      <4>2. CASE p \notin clashes
        <5> PICK d \in Holders : p = <<c, d>>
          BY <3>1, <4>2
        <5> QED
          BY <3>1, <3>3
      <4>3. QED
        BY <4>1, <4>2
    <3>7. QED
      BY <3>2, <3>5, <3>6
  <2>3. QED
    BY <2>1, <2>2
<1>14. CASE UNCHANGED vars
  BY <1>14 DEF vars, CInv, UpRuns, ClashesUsed, PortClashesExplained
<1>15. QED
  BY <1>2, <1>3, <1>4, <1>5, <1>6, <1>7, <1>8, <1>9, <1>10, <1>11, <1>12,
     <1>13, <1>14 DEF Next

\* Whatever steps the feature files order and however the agents settle,
\* every agent that exited on a port another agent held clashed with an
\* agent of its own scenario or of a failed or cleanup-failed one.
THEOREM ClashesExplained == Spec => []PortClashesExplained
<1>1. CInv => PortClashesExplained
  BY DEF CInv
<1>2. QED
  BY CInvInit, CInvNext, <1>1, PTL DEF Spec



=============================================================================
