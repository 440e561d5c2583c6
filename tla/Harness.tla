------------------------------- MODULE Harness -------------------------------
(***************************************************************************)
(* The integration-test harness of src/automated_tests: behave runs       *)
(* scenarios one after the other; the hooks of environment.py reset the   *)
(* container registry before a scenario and stop and remove its agent    *)
(* containers after it, unless it failed; the steps of local_agent.py and *)
(* diode_config_file.py write agent config files, run agent containers    *)
(* through the Docker daemon, poll their status, and stop, remove or      *)
(* force-remove them.                                                     *)
(*                                                                        *)
(* The steps come from feature files that are not part of the source, so *)
(* the model lets any defined step run at any point of a scenario.  A     *)
(* step is atomic; a step that raises fails the scenario and behave skips *)
(* its remaining steps.  The Docker daemon and the agent process inside   *)
(* a container are the environment: an agent that has not yet settled    *)
(* binds its configured port (host networking) or exits.                  *)
(***************************************************************************)
EXTENDS Naturals, Sequences, FiniteSets, Functions

CONSTANTS
    CtrIds,          \* container ids the daemon hands out (fresh per run)
    Files,           \* names test_diode_agent_<random> of config files
    EphemeralPorts,  \* ports the OS may assign to a socket bound to port 0
    DefaultPort,     \* 10911, the port of the "default" configuration
    MaxScenarios,    \* number of scenarios of the test run
    None             \* an unset context attribute

ASSUME CtrIdsAssumption == IsFiniteSet(CtrIds)
ASSUME FilesAssumption == IsFiniteSet(Files)
ASSUME PortsAssumption == DefaultPort \notin EphemeralPorts
ASSUME MaxScenariosAssumption == MaxScenarios \in Nat
ASSUME NoneAssumption ==
    None \notin CtrIds \cup Files \cup EphemeralPorts \cup {DefaultPort}

Ports == EphemeralPorts \cup {DefaultPort}

VARIABLES
    phase,     \* "between" scenarios, "running" its steps, or "failed"
    scen,      \* number of the current (last started) scenario
    registry,  \* context.containers_id_port: ids in insertion order
    ctxFile,   \* context.agent_file_name
    ctxPort,   \* context.port_to_use
    ctxCtr,    \* context.container_id
    fileCfg,   \* port written in each config file ever created, or None
    onDisk,    \* config files present under local_path
    ctr,       \* Docker status of each id: "none" (unused), "running",
               \* "exited" or "removed"
    ctrFile,   \* name of each container = its config file
    agent,     \* agent process: "none", "pending" (not settled), "up", "down"
    owner,     \* history: scenario that started each container (0: none)
    dirty,     \* history: scenarios that failed or whose cleanup raised
    clashes    \* history: <<c, d>> when c's agent exited on the port d held

vars == <<phase, scen, registry, ctxFile, ctxPort, ctxCtr, fileCfg, onDisk,
          ctr, ctrFile, agent, owner, dirty, clashes>>
docker == <<fileCfg, onDisk, ctr, ctrFile, agent, owner, clashes>>

-----------------------------------------------------------------------------
(* Helpers *)

\* containers the daemon knows of: containers.get(id) succeeds on them
Exists(c) == ctr[c] \in {"running", "exited"}

\* ports bound on the host by a settled agent
BoundPorts == {fileCfg[ctrFile[c]] : c \in {d \in CtrIds : agent[d] = "up"}}

\* the first k ids of the registry are in ok
PrefixOk(reg, k, ok) == \A j \in 1..k : reg[j] \in ok

\* ids the loop "for container_id in context.containers_id_port" reaches
\* before the first one on which a call raises, and whether one raises
Reached(reg, ok) ==
    {reg[i] : i \in {k \in 1..Len(reg) : PrefixOk(reg, k, ok)}}
Raises(reg, ok) == \E i \in 1..Len(reg) : reg[i] \notin ok

\* docker stop: a running container exits, its agent with it
StopEffect(S) ==
    /\ ctr' = [c \in CtrIds |-> IF c \in S THEN "exited" ELSE ctr[c]]
    /\ agent' = [c \in CtrIds |->
                   IF c \in S /\ agent[c] # "none" THEN "down" ELSE agent[c]]

\* stop_container succeeds on an id the daemon knows
StopOk == {c \in CtrIds : Exists(c)}
\* remove_container(force=False): known to the daemon and not running
RemoveOk == {c \in CtrIds : ctr[c] = "exited"}

\* a step raised: the scenario fails, its remaining steps are skipped
Fail ==
    /\ phase' = "failed"
    /\ dirty' = dirty \cup {scen}

-----------------------------------------------------------------------------
Init ==
    /\ phase = "between"
    /\ scen = 0
    /\ registry = << >>
    /\ ctxFile = None /\ ctxPort = None /\ ctxCtr = None
    /\ fileCfg = [f \in Files |-> None]
    /\ onDisk = {}
    /\ ctr = [c \in CtrIds |-> "none"]
    /\ ctrFile = [c \in CtrIds |-> None]
    /\ agent = [c \in CtrIds |-> "none"]
    /\ owner = [c \in CtrIds |-> 0]
    /\ dirty = {}
    /\ clashes = {}

\* environment.before_scenario; behave also drops the scenario-level
\* attributes of the previous scenario from the context
BeforeScenario ==
    /\ phase = "between"
    /\ scen < MaxScenarios
    /\ phase' = "running"
    /\ scen' = scen + 1
    /\ registry' = << >>
    /\ ctxFile' = None /\ ctxPort' = None /\ ctxCtr' = None
    /\ UNCHANGED <<docker, dirty>>

\* Diode.create_config_file: writes a fresh test_diode_agent_<random>.yaml
WriteConfig(port) ==
    \E f \in Files :
        /\ fileCfg[f] = None
        /\ fileCfg' = [fileCfg EXCEPT ![f] = port]
        /\ onDisk' = onDisk \cup {f}
        /\ ctxFile' = f
        /\ ctxPort' = port

\* step "that a diode configuration file exist with default configuration
\* and port {port}"
CreateConfigDefault ==
    /\ phase = "running"
    /\ WriteConfig(DefaultPort)
    /\ UNCHANGED <<phase, scen, registry, ctxCtr, ctr, ctrFile, agent,
                   owner, clashes, dirty>>

\* port "available": return_port_by_availability(True) with the default
\* empty exclusion list: the first port the OS assigns is taken
CreateConfigAvailable ==
    /\ phase = "running"
    /\ \/ \E p \in EphemeralPorts \ BoundPorts :
            /\ WriteConfig(p)
            /\ UNCHANGED <<phase, dirty>>
       \/ /\ EphemeralPorts \subseteq BoundPorts   \* bind(('', 0)) raises
          /\ Fail
          /\ UNCHANGED <<fileCfg, onDisk, ctxFile, ctxPort>>
    /\ UNCHANGED <<scen, registry, ctxCtr, ctr, ctrFile, agent, owner, clashes>>

\* port "unavailable": return_port_by_availability(False) is called with
\* the default unavailable_ports=list(), so its assertion
\* len(unavailable_ports) > 0 raises before a file is written
CreateConfigUnavailable ==
    /\ phase = "running"
    /\ Fail
    /\ UNCHANGED <<scen, registry, ctxFile, ctxPort, ctxCtr, docker>>

\* mutant: the id is not added to context.containers_id_port
RunAgentUnregistered ==
    /\ phase = "running"
    /\ \/ /\ ctxFile = None          \* context.agent_file_name unset
          /\ Fail
          /\ UNCHANGED <<registry, ctxCtr, docker>>
       \/ /\ ctxFile # None          \* name already in use: 409 Conflict
          /\ \E c \in CtrIds : Exists(c) /\ ctrFile[c] = ctxFile
          /\ Fail
          /\ UNCHANGED <<registry, ctxCtr, docker>>
       \/ /\ ctxFile # None
          /\ \A c \in CtrIds : Exists(c) => ctrFile[c] # ctxFile
          /\ \E c \in CtrIds :
                /\ ctr[c] = "none"
                /\ ctr' = [ctr EXCEPT ![c] = "running"]
                /\ ctrFile' = [ctrFile EXCEPT ![c] = ctxFile]
                /\ agent' = [agent EXCEPT ![c] = "pending"]
                /\ owner' = [owner EXCEPT ![c] = scen]
                /\ ctxCtr' = c
                /\ UNCHANGED registry
          /\ UNCHANGED <<phase, dirty, fileCfg, onDisk, clashes>>
       \/ /\ ctxFile # None          \* created, then start raises: the
          /\ \A c \in CtrIds : Exists(c) => ctrFile[c] # ctxFile
          /\ \E c \in CtrIds :         \* container stays, never started
                /\ ctr[c] = "none"
                /\ ctr' = [ctr EXCEPT ![c] = "exited"]
                /\ ctrFile' = [ctrFile EXCEPT ![c] = ctxFile]
                /\ owner' = [owner EXCEPT ![c] = scen]
          /\ Fail
          /\ UNCHANGED <<registry, ctxCtr, agent, fileCfg, onDisk, clashes>>
    /\ UNCHANGED <<scen, ctxFile, ctxPort>>

\* mutant: context.container_id takes the container's name, not its id
RunAgentKeepsName ==
    /\ phase = "running"
    /\ \/ /\ ctxFile = None          \* context.agent_file_name unset
          /\ Fail
          /\ UNCHANGED <<registry, ctxCtr, docker>>
       \/ /\ ctxFile # None          \* name already in use: 409 Conflict
          /\ \E c \in CtrIds : Exists(c) /\ ctrFile[c] = ctxFile
          /\ Fail
          /\ UNCHANGED <<registry, ctxCtr, docker>>
       \/ /\ ctxFile # None
          /\ \A c \in CtrIds : Exists(c) => ctrFile[c] # ctxFile
          /\ \E c \in CtrIds :
                /\ ctr[c] = "none"
                /\ ctr' = [ctr EXCEPT ![c] = "running"]
                /\ ctrFile' = [ctrFile EXCEPT ![c] = ctxFile]
                /\ agent' = [agent EXCEPT ![c] = "pending"]
                /\ owner' = [owner EXCEPT ![c] = scen]
                /\ ctxCtr' = ctxFile
                /\ registry' = Append(registry, c)
          /\ UNCHANGED <<phase, dirty, fileCfg, onDisk, clashes>>
       \/ /\ ctxFile # None          \* created, then start raises: the
          /\ \A c \in CtrIds : Exists(c) => ctrFile[c] # ctxFile
          /\ \E c \in CtrIds :         \* container stays, never started
                /\ ctr[c] = "none"
                /\ ctr' = [ctr EXCEPT ![c] = "exited"]
                /\ ctrFile' = [ctrFile EXCEPT ![c] = ctxFile]
                /\ owner' = [owner EXCEPT ![c] = scen]
          /\ Fail
          /\ UNCHANGED <<registry, ctxCtr, agent, fileCfg, onDisk, clashes>>
    /\ UNCHANGED <<scen, ctxFile, ctxPort>>

\* step "the diode agent is run using existing configuration file":
\* containers.run(name=agent_file_name, detach=True), then a 5 s settle
\* wait, then the id is added to context.containers_id_port.  run creates
\* the container, then starts it; when the start raises the created
\* container keeps its name and is never registered.  A created container
\* answers get, stop and remove(force=False) as an exited one does, so it
\* is "exited" here.
RunAgent ==
    /\ phase = "running"
    /\ \/ /\ ctxFile = None          \* context.agent_file_name unset
          /\ Fail
          /\ UNCHANGED <<registry, ctxCtr, docker>>
       \/ /\ ctxFile # None          \* name already in use: 409 Conflict
          /\ \E c \in CtrIds : Exists(c) /\ ctrFile[c] = ctxFile
          /\ Fail
          /\ UNCHANGED <<registry, ctxCtr, docker>>
       \/ /\ ctxFile # None
          /\ \A c \in CtrIds : Exists(c) => ctrFile[c] # ctxFile
          /\ \E c \in CtrIds :
                /\ ctr[c] = "none"
                /\ ctr' = [ctr EXCEPT ![c] = "running"]
                /\ ctrFile' = [ctrFile EXCEPT ![c] = ctxFile]
                /\ agent' = [agent EXCEPT ![c] = "pending"]
                /\ owner' = [owner EXCEPT ![c] = scen]
                /\ ctxCtr' = c
                /\ registry' = Append(registry, c)
          /\ UNCHANGED <<phase, dirty, fileCfg, onDisk, clashes>>
       \/ /\ ctxFile # None          \* created, then start raises: the
          /\ \A c \in CtrIds : Exists(c) => ctrFile[c] # ctxFile
          /\ \E c \in CtrIds :         \* container stays, never started
                /\ ctr[c] = "none"
                /\ ctr' = [ctr EXCEPT ![c] = "exited"]
                /\ ctrFile' = [ctrFile EXCEPT ![c] = ctxFile]
                /\ owner' = [owner EXCEPT ![c] = scen]
          /\ Fail
          /\ UNCHANGED <<registry, ctxCtr, agent, fileCfg, onDisk, clashes>>
    /\ UNCHANGED <<scen, ctxFile, ctxPort>>

\* step "the diode agent container is {status}": wait_container_status
\* polls containers.get(id).status until it equals status or 30 s pass.
\* The environment's steps interleave with the poll; the step passes when
\* the status it reads matches, and fails on a timeout or on NotFound.
ValidateStatus(status) ==
    /\ phase = "running"
    /\ IF ctxCtr # None /\ ctr[ctxCtr] = status
          THEN UNCHANGED <<phase, dirty>>
          ELSE Fail
    /\ UNCHANGED <<scen, registry, ctxFile, ctxPort, ctxCtr, docker>>

\* step "force remove of all agent containers whose names start with the
\* test prefix": every container name is a config file name, which has the
\* prefix; the registry is left as it is
ForceRemoveAll ==
    /\ phase = "running"
    /\ ctr' = [c \in CtrIds |-> IF Exists(c) THEN "removed" ELSE ctr[c]]
    /\ agent' = [c \in CtrIds |->
                   IF Exists(c) /\ agent[c] # "none" THEN "down" ELSE agent[c]]
    /\ UNCHANGED <<phase, scen, registry, ctxFile, ctxPort, ctxCtr,
                   fileCfg, onDisk, ctrFile, owner, clashes, dirty>>

\* stop_orb_agent_container: stop every registered container in order
StopAgents ==
    /\ StopEffect(Reached(registry, StopOk))
    /\ IF Raises(registry, StopOk) THEN Fail ELSE UNCHANGED <<phase, dirty>>

\* remove_orb_agent_container: remove every registered container in order;
\* on success it sets context.containers_id, not containers_id_port
RemoveAgents ==
    /\ ctr' = [c \in CtrIds |->
                 IF c \in Reached(registry, RemoveOk) THEN "removed" ELSE ctr[c]]
    /\ IF Raises(registry, RemoveOk) THEN Fail ELSE UNCHANGED <<phase, dirty>>

\* step "stop agent container"
StopStep ==
    /\ phase = "running"
    /\ StopAgents
    /\ UNCHANGED <<scen, registry, ctxFile, ctxPort, ctxCtr, fileCfg, onDisk,
                   ctrFile, owner, clashes>>

\* step "remove agent container"
RemoveStep ==
    /\ phase = "running"
    /\ RemoveAgents
    /\ UNCHANGED <<scen, registry, ctxFile, ctxPort, ctxCtr, fileCfg, onDisk,
                   ctrFile, agent, owner, clashes>>

\* step "remove all the agents .yaml generated on test process"
RemoveConfigFiles ==
    /\ phase = "running"
    /\ onDisk' = {}
    /\ UNCHANGED <<phase, scen, registry, ctxFile, ctxPort, ctxCtr, fileCfg,
                   ctr, ctrFile, agent, owner, clashes, dirty>>

\* mutant: the cleanup stops the containers but does not remove them
AfterScenarioOnlyStops ==
    /\ phase \in {"running", "failed"}
    /\ phase' = "between"
    /\ IF phase = "failed"
          THEN UNCHANGED <<ctr, agent, dirty>>
       ELSE IF Raises(registry, StopOk)
          THEN /\ StopEffect(Reached(registry, StopOk))
               /\ dirty' = dirty \cup {scen}
       ELSE \* every registered container is stopped, then removed
               /\ ctr' = [c \in CtrIds |->
                            IF c \in Range(registry) THEN "exited" ELSE ctr[c]]
               /\ agent' = [c \in CtrIds |->
                              IF c \in Range(registry) /\ agent[c] # "none"
                                 THEN "down" ELSE agent[c]]
               /\ dirty' = dirty
    /\ UNCHANGED <<scen, registry, ctxFile, ctxPort, ctxCtr, fileCfg, onDisk,
                   ctrFile, owner, clashes>>

\* environment.after_scenario: unless the scenario failed, execute_steps
\* runs "stop agent container" then "remove agent container"; a step that
\* raises aborts execute_steps and the hook fails
AfterScenario ==
    /\ phase \in {"running", "failed"}
    /\ phase' = "between"
    /\ IF phase = "failed"
          THEN UNCHANGED <<ctr, agent, dirty>>
       ELSE IF Raises(registry, StopOk)
          THEN /\ StopEffect(Reached(registry, StopOk))
               /\ dirty' = dirty \cup {scen}
       ELSE \* every registered container is stopped, then removed
               /\ ctr' = [c \in CtrIds |->
                            IF c \in Range(registry) THEN "removed" ELSE ctr[c]]
               /\ agent' = [c \in CtrIds |->
                              IF c \in Range(registry) /\ agent[c] # "none"
                                 THEN "down" ELSE agent[c]]
               /\ dirty' = dirty
    /\ UNCHANGED <<scen, registry, ctxFile, ctxPort, ctxCtr, fileCfg, onDisk,
                   ctrFile, owner, clashes>>

\* the agent inside a started container reads its config file and binds
\* its port on the host network; it exits when either fails
AgentSettles(c) ==
    /\ agent[c] = "pending"
    /\ IF ctrFile[c] \in onDisk /\ fileCfg[ctrFile[c]] \notin BoundPorts
          THEN /\ agent' = [agent EXCEPT ![c] = "up"]
               /\ UNCHANGED <<ctr, clashes>>
          ELSE /\ agent' = [agent EXCEPT ![c] = "down"]
               /\ ctr' = [ctr EXCEPT ![c] = "exited"]
               /\ clashes' = clashes \cup
                    {<<c, d>> : d \in {e \in CtrIds :
                        agent[e] = "up" /\ fileCfg[ctrFile[e]] = fileCfg[ctrFile[c]]}}
    /\ UNCHANGED <<phase, scen, registry, ctxFile, ctxPort, ctxCtr, fileCfg,
                   onDisk, ctrFile, owner, dirty>>

Next ==
    \/ BeforeScenario
    \/ CreateConfigDefault
    \/ CreateConfigAvailable
    \/ CreateConfigUnavailable
    \/ RunAgent
    \/ \E s \in {"running", "exited"} : ValidateStatus(s)
    \/ StopStep
    \/ RemoveStep
    \/ ForceRemoveAll
    \/ RemoveConfigFiles
    \/ AfterScenario
    \/ \E c \in CtrIds : AgentSettles(c)

Spec == Init /\ [][Next]_vars

-----------------------------------------------------------------------------
(* Properties *)

TypeOK ==
    /\ phase \in {"between", "running", "failed"}
    /\ scen \in 0..MaxScenarios
    /\ registry \in Seq(CtrIds)
    /\ ctxFile \in Files \cup {None}
    /\ ctxPort \in Ports \cup {None}
    /\ ctxCtr \in CtrIds \cup {None}
    /\ fileCfg \in [Files -> Ports \cup {None}]
    /\ onDisk \subseteq Files
    /\ ctr \in [CtrIds -> {"none", "running", "exited", "removed"}]
    /\ ctrFile \in [CtrIds -> Files \cup {None}]
    /\ agent \in [CtrIds -> {"none", "pending", "up", "down"}]
    /\ owner \in [CtrIds -> 0..MaxScenarios]
    /\ dirty \subseteq 1..MaxScenarios
    /\ clashes \subseteq CtrIds \X CtrIds

\* Between scenarios, a container the daemon still knows of was started by
\* a scenario that failed (after_scenario skips its cleanup) or whose
\* cleanup hook raised: a scenario that passed leaves no container behind.
OnlyDirtyScenariosLeak ==
    phase = "between" =>
        \A c \in CtrIds : Exists(c) => owner[c] \in dirty

\* Spec, data model: a container session leaves the registry on
\* stop+remove.  A "remove agent container" step that succeeds ends by
\* resetting the registry (its last line), so that after_scenario does not
\* stop the removed containers a second time.
RemoveStepResetsRegistry ==
    [][RemoveStep /\ phase' = "running" => registry' = << >>]_vars

\* A port clash (an agent that exits because another settled agent holds
\* its host port, the fixed 10911 of every "default" configuration or a
\* reused ephemeral one) is between two agents of one scenario or
\* involves an agent of a scenario that failed or whose cleanup raised: a
\* scenario that passes leaves no agent bound to a port behind.
PortClashesExplained ==
    \A p \in clashes :
        \/ owner[p[1]] = owner[p[2]]
        \/ owner[p[1]] \in dirty
        \/ owner[p[2]] \in dirty


=============================================================================
