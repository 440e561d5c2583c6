# TLA+ models of the diode integration-test harness

This directory holds TLA+ models of the code under `src/`, TLC
configurations that model-check them, and TLAPS proofs about them. The
sources fall into two groups:

* `src/automated_tests/features/`: a behave test harness. It runs the diode
  agent in Docker containers, configures each agent with a generated YAML
  file, and exercises the agent's policy REST API.
* `src/agent/backend/suzieq/{extention,extension}/.../writers/logging.py`:
  two near-duplicate output writers for the discovery poller.

Most of the models cover the harness, because its control flow is where the
hard behaviour lives.

## 1. Inventory

### Components and how they interact

| Component | Source | State | Operations |
|---|---|---|---|
| Scenario lifecycle | `environment.py` | `context.containers_id_port` (the registry), the scenario status | `before_scenario` resets the registry. `after_scenario` runs the steps "stop agent container" and "remove agent container", unless the scenario failed. |
| Container steps | `steps/local_agent.py` | `context.agent_file_name`, `port_to_use`, `container_id`; the Docker daemon's containers | create config, run agent, validate status (polled), force-remove all, stop, remove |
| ConfigFileBuilder | `steps/diode_config_file.py` | the config files on disk | write a `test_diode_agent_<random>.yaml` file; remove all of them |
| PortAllocator | `utils.return_port_by_availability` | none; it reads the OS port table | pick an ephemeral port (bind to port 0, then close), or pick a listed "unavailable" port |
| PollUntil | `utils.threading_wait_until` | a `threading.Event`, `time_running`, `func_value` | call the probe, `event.wait(wait_time)`, re-read the clock, until the event is set or the timeout passes |
| PolicyClient and policy steps | `steps/policies.py` | `context.policies`; the agent's policy store | apply N policies (POST, diff, GET, diff, record), delete N (sample, DELETE, pop), check the count (poll the list route) |
| Policy model | `steps/policies.py` `Policy` | a nested dict | `full_test_policy` and `yaml`, both pure data |
| RandomNamer | `utils.random_string` and its prefix variant | none | random names |
| TestConfig | `steps/config.py` | a singleton `ConfigParser` | read once |
| Logging writers | `writers/logging.py` (×2) | none | `write_data`: one log line per record, or one JSON line per batch |

The steps and the hooks share behave's `context`. The container steps talk to
the Docker daemon. Each agent process in a container binds its configured
port on the host network and serves the policy API on it. The status step and
the count step both poll through `threading_wait_until`.

### Hard behaviours

* **Cleanup across steps.** A container stays in the registry until the
  next `before_scenario`. The explicit remove step resets the wrong attribute
  (`local_agent.py:64`). A stop loop raises on the first unknown id and leaves
  the rest running. A failed scenario skips cleanup entirely
  (`environment.py:9`).
* **The environment races the steps.** An agent settles some time after
  `containers.run`, possibly after the 5 s sleep. Config files can be deleted
  before the agent reads them, and ports are reused once the allocator closes
  its probe socket.
* **Time in the poll.** `time_running` is re-read only after the sleep. The
  probe calls have no timeout. A timeout ≤ 0 never calls the probe.
* **Partial failure in the policy loops.** The agent's store and
  `context.policies` can disagree when a request fails midway.

## 2. Plan and modules

| Module | Models | Status |
|---|---|---|
| `Harness` | lifecycle hooks, container steps, config files, port allocation, the Docker daemon and agent settling (environment) | done |
| `WaitUntil` | `threading_wait_until`, with a discrete clock | done |
| `Policies` | the policy steps and the client | done |
| `HarnessProofs`, `WaitUntilProofs`, `PoliciesProofs` | TLAPS proofs | done |
| `PortAllocator`, `PortAllocatorProofs` | one call of `return_port_by_availability` with any exclusion list, against other processes taking ports; its proof | done |
| `AllocatorContract` | the spec's atomic `allocate` (spec §4.2, §5): the abstract spec `PortAllocator` refines. Its outcomes are: a free port outside the exclusion set, an excluded port for an unavailable request, exhausted, an OS error when every port is taken, and invalid | done |
| `RecordWriter` | the per-record `write_data` (`extention/`): the abstract spec of what a logging writer delivers | done |
| `JsonWriter` | the one-JSON-line-per-batch `write_data` (`extension/`), checked to refine `RecordWriter` | done |
| `HarnessPolicies` | composes `Harness` and `Policies`: `context.port` is the port of the scenario's agent, and leaked agents keep their policies and ports | planned |
| `Namer` | the namespace references of `full_test_policy` resolve (a pure check) | planned |

`HarnessPolicies` was not written: nothing under `src/` assigns
`context.port`, so which agent the policy steps talk to is not in the
code, and a composition would have to invent it.

### Module correspondence

**Harness** (`Harness.tla`, every definition mapped in `PROJECT.json`):

* **Scenario state.**
  * `phase` is `between`, `running` or `failed`; `failed` means a step raised.
  * `scen` counts scenarios, up to `MaxScenarios`.
  * `registry` is `context.containers_id_port`, in insertion order.
  * `ctxFile`, `ctxPort` and `ctxCtr` are the context attributes.
* **Docker and the agents.**
  * `ctr` holds each container's Docker status; the model values `CtrIds`
    are the ids.
  * `ctrFile` holds each container's name, which is its config file's name.
  * `agent` is the agent process inside each container.
  * `fileCfg` and `onDisk` are the config files.
* **Histories.** `owner` is the scenario that started a container. `dirty`
  is the set of failed scenarios and scenarios whose cleanup raised.
  `clashes` holds the pairs `<<c, d>>` where `c`'s agent exited on the
  port that `d`'s settled agent held.
* **Actions.** There is one action per step and hook:
  * `CreateConfigDefault`, `CreateConfigAvailable` and
    `CreateConfigUnavailable`, which share `WriteConfig`.
  * `RunAgent` and `ValidateStatus`. `RunAgent` has four branches:
    - no file name, which fails;
    - a name conflict (409), which fails;
    - a container that starts, is registered and has a pending agent;
    - a container that `containers.run` created but whose start raised.
      The last one keeps its name and is never registered. It is `exited`
      in the model, because a created container answers `get`, `stop` and
      `remove` as an exited one does.
  * `ForceRemoveAll`, `StopStep`, `RemoveStep` and `RemoveConfigFiles`.
  * `BeforeScenario` and `AfterScenario`.
* **Stop and remove loops.** The loops over the registry are `Reached` (the
  ids handled before the first raise) and `Raises`.
* **The environment.** The agent process is modelled from the spec as
  `AgentSettles`: it binds the port from its file, or exits if the file is
  gone or the port is taken.
* **What can interleave.** Feature files are not part of the source, so any
  step may run in any order. Steps are atomic, because behave runs them on one
  thread. Only the agents and the Docker daemon interleave with them.

**WaitUntil** has one process:

* `pc` is the loop position.
* `now` is the clock in ticks.
* `Call` is a probe call. It takes 0..`MaxCallTime` ticks and may or may not
  see the condition. The history `lastCall` is the duration of the last one.
* `CallRaises` is a probe that raises.
* `Wait` is `event.wait`, followed by re-reading the clock.

**PortAllocator** models one call of `return_port_by_availability`, with
the arguments chosen in `Init`:

* `ReturnUnavailable` is the `not available` branch. It fails the assertion
  on an empty list and otherwise returns a listed port.
* `StartLoop`, then `BindOne`, is one iteration of the retry loop. Bind
  raises `OSError` when every port is taken. Otherwise the OS picks a free
  port, the socket is closed and `retries` counts up. The port is returned
  unless it is excluded.
* `Exhausted` is the failed assertion after ten excluded ports.
* `OtherProcess` is the host's other processes taking and releasing ports.
* `bound` is a history of the ports the call's sockets got.

**RecordWriter and JsonWriter.** Both model `write_data(data)`. The
abstract spec is the per-record writer:

* `written` is the sequence of `<<topic, record>>` pairs its warning lines
  carry.
* `handed` is a history of the pairs passed in, which ties an abstract
  step to its input.

The JSON writer keeps its lines as `<<topic, records>>`, plus the count of
"failed to parse" errors. The refinement mapping `LoggedEntries` reads the
records back out of the JSON lines in order. `Unencodable` is the set of
records `json.dumps` raises on.

**Policies**:

* `store` is the agent's store.
* `ctxPolicies` is the key set of `context.policies`.
* `toApply` and `toRemove` are the loop positions; `toRemove` holds what
  `sample` drew.
* Each loop iteration is one action:
  * `ApplyOne` makes a POST, checks the status and diffs the answer, makes a
    GET and diffs it, then records the policy.
  * `RemoveOne` makes a DELETE, then pops the name.
* The agent may answer any status. A policy created with 201 may still come
  back with a different body.
* `context.port` and `context.policies` are never assigned in `src/`.
  `SetUpContext`, modelled from the spec, stands for whatever assigns them.
  A policy step run before it raises `AttributeError`, as the code would.

## 3. Runs

| Run | What it shows | Bounds |
|---|---|---|
| `harness` (pass) | `OnlyDirtyScenariosLeak`: between scenarios, only failed or cleanup-failed scenarios have containers left. This holds even when a container start, a stop or a remove raises midway. | 3 ids, 3 files, 2 ephemeral ports + 10911, 2 scenarios; symmetric sets. 197k states. |
| `harness_registry_reset` (violation) | A successful "remove agent container" leaves the ids registered (`local_agent.py:64`). The trace is: run agent, stop, remove; after_scenario would then stop removed ids. | same |
| `policies` (pass) | `ContextMatchesAgent`: while running, `context.policies` equals the agent store whatever the agent answers. `RemovalPlanStored`: the delete loop only targets distinct stored names. | 4 names, amounts 0..3 |
| `wait_until` (pass) | `ReturnsWithinBound`: the poll returns by timeout − 1 + (its own last probe call's duration) + wait_time. If it never probes, it returns at once. The bound does not assume a limit on probe duration, which the `requests` and Docker calls do not have. | timeouts {−1,0,3,6}, wait 1, call ≤ 2 |
| `wait_until_try_once` (violation) | A timeout ≤ 0 never calls the probe, against the spec's "try once". | same |
| `wait_until_interval_bound` (violation) | The poll may return later than timeout + one interval. | same |
| `harness_ports` (pass) | `PortClashesExplained`: an agent that exits on a port another agent holds clashes with one of its own scenario, or of a failed or cleanup-failed scenario. A scenario that passes leaves no agent on a port. | as `harness`; 197k states |
| `port_allocator` (pass) | `AllocationContract`: an available port returned came from the call's own socket and is not excluded, and an unavailable one is listed. The call gives up only after ten excluded ports, and fails an unavailable request only for an empty list. `ImplementsContract`: the loop refines `AllocatorContract` under the mapping `CallState` ("start" and "loop" both map to "start"), so a returned available port was free when it was bound. | 3 ports, every exclusion list and initial port table, 10 retries |
| `port_allocator_terminates` (pass) | `Terminates`, under weak fairness of the calling thread, whatever other processes do | same |
| `json_writer` (pass) | `ImplementsRecordWriter`: with encodable records the JSON writer logs exactly the per-record writer's records, topics and order | 2 topics, 3 records, batches of up to 2, 3 calls; 15k states |
| `json_writer_unencodable` (violation) | One record `json.dumps` cannot encode drops its whole batch, so the refinement fails. | same, with one unencodable record |

Why the bounds are enough:

* Two scenarios are the least that show a leak surviving into the next
  scenario.
* Three ids let one scenario run two agents, so a stop loop can raise midway,
  while another container remains.
* Two ephemeral ports plus the default port make both port exhaustion and
  port reuse reachable.
* For the poll, timeouts below zero, at zero and above zero cover each branch
  of the loop condition. The call durations 0..2 exceed the wait time.
* Four policy names with amounts up to 3 allow two apply steps and a partial
  delete.
* The allocator keeps the code's 10 retries. Three ports are enough for the
  OS to hand out excluded ports ten times in a row, and also to run out of
  free ports. The probes of the run reach all four outcomes.
* For the writers, batches of length 0..2 cover three cases: the early
  return on an empty batch, the loop, and an unencodable record among
  encodable ones. Three calls interleave two topics.

Each run has a mutant, listed in `PROJECT.json`. The mutant is a plausible
bug in the mapped code, and TLC catches it.

**Fairness.** `PortAllocator` assumes weak fairness of the call's own
steps (`Allocate`), not of the other processes. The loop runs on the
calling thread, which behave does not pre-empt forever, and each step of
the loop is enabled until it is taken. `WaitUntil` has no liveness
property. Its loop ends only if every probe call returns, and the
`requests` and Docker calls it wraps have no timeout. In the model, a
loop that never ends could only come from probe calls that take no time
forever, which the real clock does not allow. The Harness and Policies
models have no liveness properties. Steps are chosen by a feature file and
may simply stop, so those runs set `CHECK_DEADLOCK FALSE`.

## 4. Findings

* **Code bug, `local_agent.py:64`.** `remove_orb_agent_container` sets
  `context.containers_id = {}` instead of resetting
  `context.containers_id_port`. After the explicit stop and remove steps,
  `after_scenario` calls `containers.get` on removed ids. It gets `NotFound`,
  and the hook errors. See run `harness_registry_reset`.
* **Spec divergence, `utils.py:76`.** With `int(timeout) <= 0` the probe is
  never called and `False` is returned. Callers unpack a pair (at
  `local_agent.py:40` and `policies.py:56`), so they raise `TypeError`. See
  run `wait_until_try_once`.
* **Spec divergence, `utils.py:77`.** The probe's duration adds to the
  timeout, so the poll is bounded by max(timeout,0) + longest call +
  wait_time − 1, not by timeout + interval. The bound holds and is proved.
  See run `wait_until_interval_bound`.
* **Spec divergence, `extension/.../logging.py:31`.** The JSON writer wraps
  `json.dumps` of the whole batch in a bare `except`. One record it cannot
  encode drops every record of the batch, logging only "failed to parse".
  The per-record copy logs each record. See run `json_writer_unencodable`.
* **Not given a run:**
  * The "unavailable" port option always fails. It calls
    `return_port_by_availability(False)` with the default empty list
    (`local_agent.py:22`).
  * `context.port` and `context.policies` are never assigned in `src/`.

## 5. Proofs

The proofs are checked with `tlapm`. Each module's assumptions are stated in
the module that declares the constants.

* **`WaitUntilProofs`** proves `TypeCorrect`, `WithinBound`
  (`[]ReturnsWithinBound`).
  * Assumptions: `Timeouts ⊆ Int`, `WaitTime > 0`, `MaxCallTime ∈ Nat`.
  * `ReturnsWithinBound` alone is not inductive. The inductive invariant
    `IInv` adds three facts. At a test, `time_running` is the clock. A probe
    runs only while `time_running < timeout`. A sleep starts exactly
    `lastCall` ticks after that test, and a probe has run by then. So the
    clock at the next test is at most timeout − 1 + `lastCall` + wait_time.
* **`HarnessProofs`** proves `TypeCorrect`, `DirtyLeaksOnly`
  (`[]OnlyDirtyScenariosLeak`).
  * Assumptions: finite id and file sets, the default port is not
    ephemeral, `MaxScenarios ∈ Nat`, and `None` is distinct.
  * The inductive invariant adds several facts:
    * `scen ≥ 1` while a scenario runs.
    * A pending agent's container is running.
    * `ctr = "none"` exactly when `owner = 0`.
    * `owner ≤ scen`.
    * A failed scenario is dirty.
    * `RegistryCoversScenario`: the registry holds only the current
      scenario's containers, and while the scenario runs it holds all of
      them. A container whose start raised is outside the registry, but
      only once its scenario has failed. This is why a cleanup that
      succeeds leaves nothing behind.
    * The key strengthening: any existing container of an *earlier*
      scenario, or of any scenario between scenarios, has a dirty owner.
      `OnlyDirtyScenariosLeak` speaks only of "between" states. The stronger
      form is what survives a new scenario's steps.
  * The lemma `RangeAppend` (the range of `Append`) carries `RunAgent`.
  * `ClashesExplained` (`[]PortClashesExplained`) adds two facts: a
    settled agent's container runs, and the ids of a clash were handed out,
    so `RunAgent` never changes their owner. When a pending agent meets a
    settled one on its port, both containers exist. `LeaksDirty` then makes
    each owner either dirty or the current scenario.
* **`PortAllocatorProofs`** proves `TypeCorrect`, `Contract`
  (`[]AllocationContract`) and `Refinement` (`Spec => ImplementsContract`).
  * Assumptions: a finite, non-empty port set, `MaxRetries ∈ Nat`, and
    `NoPort` is not a port.
  * The contract is strengthened with three facts. No socket exists before
    the loop. While looping, the request is for an available port. Every
    port a socket got so far was excluded.
  * The refinement maps `pc` to `CallState`, so the loop's start and its
    iterations that meet an excluded port are stutters of the abstract
    call. `Init` maps to the abstract `Init`. The lemma `NextRefines`
    shows that every step is an abstract step or a stutter, under `IInv`.
    A bind that returns a port is `AllocateFree`, because the port was not
    in `inUse`. An OSError is `NoFreePort`. The fairness of `Spec` is
    dropped by the proof, since the abstract spec has none.
* **`PoliciesProofs`** proves `TypeCorrect`, `ContextMatches`
  (`[]ContextMatchesAgent`) and `RemovalPlan` (`[]RemovalPlanStored`).
  * The two invariants are inductive only together. DELETE of the head keeps
    context and store equal only because the head is stored, and the rest is
    still stored only because the sample is injective.
  * Lemmas: `TailInjective` (the tail of an injective sequence is injective
    and has the range minus the head) and `InjectionSeq`.

**Left to TLC:**

* Liveness: `PortAllocator`'s `Terminates`. It needs ENABLED and
  fairness, which the provers do not handle.
* Anything that would need induction over data.
* The writers' refinement. `LoggedEntries` flattens a sequence of
  sequences with `FlattenSeq`, a fold of the community modules. It cannot
  be unfolded by the provers without induction.

No proof module reaches a RECURSIVE operator.

## 6. Not modelled

* **TestConfig.** It is a read-once configuration file, with no state
  changes.
* **RandomNamer.** Names are fresh model values. A collision among 52¹⁰
  names is not a behaviour worth checking.
* **The Policy document and YAML/DeepDiff.** A body is abstracted to its
  name. A round-trip mismatch is a nondeterministic outcome.
* **The writers' constructors.** They only store `data_dir`, which
  `write_data` never reads.
* **The settle race at `local_agent.py:94`.** `AgentSettles` lets the
  status step run before or after an agent settles. The spec keeps the
  fixed delay as its contract, so no property says the delay is enough.
* **A composition of `Harness` and `Policies`.** The port that the policy
  steps use is not assigned in `src/`.
