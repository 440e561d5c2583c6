------------------------------ MODULE Policies -------------------------------
(***************************************************************************)
(* The policy steps of policies.py against the agent's policy REST API.   *)
(* The test keeps context.policies, the names it applied; the agent keeps *)
(* its own store.  A step runs its loop one request at a time: "N policy  *)
(* is applied" POSTs a fresh policy, diffs the answer, GETs it back,      *)
(* diffs again, and only then records it; "N policy is deleted" samples   *)
(* N recorded names and DELETEs them one by one, popping each after its   *)
(* request; "policies route shows N" polls the list route until it has N *)
(* entries and asserts the count.  Any failed assertion or unexpected     *)
(* status raises and fails the scenario; behave then runs no more steps.  *)
(*                                                                        *)
(* The agent answers 201/200 and stores or deletes, or answers another    *)
(* status and leaves its store as it was; a created policy may come back  *)
(* different from the body sent (the round-trip diffs).  A policy's body *)
(* is abstracted to its name.  context.port and context.policies are not  *)
(* assigned anywhere in the source: SetUpContext stands for the code that *)
(* does it, and a policy step before it raises AttributeError.            *)
(***************************************************************************)
EXTENDS Naturals, Sequences, FiniteSets, Functions

CONSTANTS
    Names,      \* test_diode_policy_<random> names the steps may generate
    MaxAmount   \* largest amount_of_policies a step is given

ASSUME NamesAssumption == IsFiniteSet(Names)
ASSUME MaxAmountAssumption == MaxAmount \in Nat

VARIABLES
    phase,     \* "running" the scenario's steps, or "failed"
    step,      \* loop in progress: "idle", "apply" or "remove"
    ctxSet,    \* context.port and context.policies are assigned
    ctxPolicies, \* DOMAIN context.policies
    store,     \* names of the policies the agent holds
    used,      \* names generated so far (random names do not repeat)
    toApply,   \* iterations left of the apply loop
    toRemove   \* names left of the sampled list policies_to_remove

vars == <<phase, step, ctxSet, ctxPolicies, store, used, toApply, toRemove>>

-----------------------------------------------------------------------------
(* The policy client: one request each, its status checked *)

\* create_policy: POST /api/v1/policies; with 201 the agent stores the
\* policy, with any other status the assertion raises
CreatePolicy(nm, created) ==
    store' = IF created THEN store \cup {nm} ELSE store

\* get_policy: GET /api/v1/policies/<name>, sent after the POST, answers
\* 200 for a name the agent then holds
GetPolicyOk(nm) == nm \in store'

\* remove_policy: DELETE /api/v1/policies/<name>; 200 only for a stored
\* name, and then the agent no longer holds it
RemovePolicy(nm, deleted) ==
    /\ deleted => nm \in store
    /\ store' = IF deleted THEN store \ {nm} ELSE store

\* get_policies: GET /api/v1/policies lists the stored policies
GetPolicies == store

\* wait_until_policies_applied sets the event once the list has the count
PolicyCountReached(n) == Cardinality(GetPolicies) = n

Fail ==
    /\ phase' = "failed"
    /\ step' = "idle"

-----------------------------------------------------------------------------
(* Steps *)

Init ==
    /\ phase = "running"
    /\ step = "idle"
    /\ ctxSet = FALSE
    /\ ctxPolicies = {}
    /\ store = {}
    /\ used = {}
    /\ toApply = 0
    /\ toRemove = << >>

\* context.port = <agent port>; context.policies = {}
SetUpContext ==
    /\ phase = "running" /\ step = "idle"
    /\ ~ctxSet
    /\ ctxSet' = TRUE
    /\ UNCHANGED <<phase, step, ctxPolicies, store, used, toApply, toRemove>>

\* "{amount} policy is applied to the agent": the amount must be numeric
\* (a non-numeric one fails the first assertion, as does an unset context
\* at the first create_policy(..., context.port)); amount 0 does nothing
ApplyStep ==
    /\ phase = "running" /\ step = "idle"
    /\ \E n \in 0..MaxAmount :
          IF ~ctxSet /\ n > 0
          THEN Fail /\ UNCHANGED <<toApply>>
          ELSE /\ toApply' = n
               /\ step' = IF n = 0 THEN "idle" ELSE "apply"
               /\ UNCHANGED phase
    /\ UNCHANGED <<ctxSet, ctxPolicies, store, used, toRemove>>

\* mutant: a non-201 answer to the POST is not checked
ApplyOneUnchecked ==
    /\ phase = "running" /\ step = "apply" /\ toApply > 0
    /\ \E nm \in Names \ used :
          /\ used' = used \cup {nm}
          /\ \E created \in BOOLEAN :
                /\ CreatePolicy(nm, created)
                /\ ctxPolicies' = ctxPolicies \cup {nm}
                /\ toApply' = toApply - 1
                /\ step' = IF toApply = 1 THEN "idle" ELSE "apply"
                /\ UNCHANGED phase
    /\ UNCHANGED <<ctxSet, toRemove>>

\* mutant: the loop runs amount + 1 times
ApplyOneOffByOne ==
    /\ phase = "running" /\ step = "apply" /\ toApply >= 0
    /\ \E nm \in Names \ used :
          /\ used' = used \cup {nm}
          /\ \E created, sameBody, sameGet \in BOOLEAN :
                /\ CreatePolicy(nm, created)
                /\ IF created /\ sameBody /\ GetPolicyOk(nm) /\ sameGet
                   THEN /\ ctxPolicies' = ctxPolicies \cup {nm}
                        /\ toApply' = toApply - 1
                        /\ step' = IF toApply = 0 THEN "idle" ELSE "apply"
                        /\ UNCHANGED phase
                   ELSE Fail /\ UNCHANGED <<ctxPolicies, toApply>>
    /\ UNCHANGED <<ctxSet, toRemove>>

\* one iteration: POST a fresh policy, diff the answer, GET it, diff
\* again, then context.policies[policy_name] = ...
ApplyOne ==
    /\ phase = "running" /\ step = "apply" /\ toApply > 0
    /\ \E nm \in Names \ used :
          /\ used' = used \cup {nm}
          /\ \E created, sameBody, sameGet \in BOOLEAN :
                /\ CreatePolicy(nm, created)
                /\ IF created /\ sameBody /\ GetPolicyOk(nm) /\ sameGet
                   THEN /\ ctxPolicies' = ctxPolicies \cup {nm}
                        /\ toApply' = toApply - 1
                        /\ step' = IF toApply = 1 THEN "idle" ELSE "apply"
                        /\ UNCHANGED phase
                   ELSE Fail /\ UNCHANGED <<ctxPolicies, toApply>>
    /\ UNCHANGED <<ctxSet, toRemove>>

\* mutant: random.choices, a sample with replacement
RemoveStepWithReplacement ==
    /\ phase = "running" /\ step = "idle"
    /\ \E n \in 0..MaxAmount :
          IF ~ctxSet \/ n > Cardinality(ctxPolicies)
          THEN Fail /\ UNCHANGED toRemove
          ELSE \E s \in [1..n -> ctxPolicies] :
                  /\ toRemove' = s
                  /\ step' = IF n = 0 THEN "idle" ELSE "remove"
                  /\ UNCHANGED phase
    /\ UNCHANGED <<ctxSet, ctxPolicies, store, used, toApply>>

\* "{amount} policy is deleted from agent": assert the amount does not
\* exceed len(context.policies), then sample(keys, amount)
RemoveStep ==
    /\ phase = "running" /\ step = "idle"
    /\ \E n \in 0..MaxAmount :
          IF ~ctxSet \/ n > Cardinality(ctxPolicies)
          THEN Fail /\ UNCHANGED toRemove
          ELSE \E s \in Injection(1..n, ctxPolicies) :
                  /\ toRemove' = s
                  /\ step' = IF n = 0 THEN "idle" ELSE "remove"
                  /\ UNCHANGED phase
    /\ UNCHANGED <<ctxSet, ctxPolicies, store, used, toApply>>

\* one iteration: remove_policy(name), then context.policies.pop(name)
RemoveOne ==
    /\ phase = "running" /\ step = "remove" /\ toRemove # << >>
    /\ \E deleted \in BOOLEAN :
          /\ RemovePolicy(Head(toRemove), deleted)
          /\ IF deleted
             THEN /\ ctxPolicies' = ctxPolicies \ {Head(toRemove)}
                  /\ toRemove' = Tail(toRemove)
                  /\ step' = IF Len(toRemove) = 1 THEN "idle" ELSE "remove"
                  /\ UNCHANGED phase
             ELSE Fail /\ UNCHANGED <<ctxPolicies, toRemove>>
    /\ UNCHANGED <<ctxSet, used, toApply>>

\* "policies route shows {amount} policies applied": the poll returns at
\* the first list of that length or, at the timeout, the last list read
\* (the list route answers 200, or get_policies raises); the step then
\* asserts the length
CheckStep ==
    /\ phase = "running" /\ step = "idle"
    /\ \E n \in 0..MaxAmount, listed \in BOOLEAN :
          IF ctxSet /\ listed /\ PolicyCountReached(n)
          THEN UNCHANGED <<phase, step>>
          ELSE Fail
    /\ UNCHANGED <<ctxSet, ctxPolicies, store, used, toApply, toRemove>>

Next ==
    \/ SetUpContext
    \/ ApplyStep \/ ApplyOne
    \/ RemoveStep \/ RemoveOne
    \/ CheckStep

Spec == Init /\ [][Next]_vars

-----------------------------------------------------------------------------
(* Properties *)

TypeOK ==
    /\ phase \in {"running", "failed"}
    /\ step \in {"idle", "apply", "remove"}
    /\ ctxSet \in BOOLEAN
    /\ ctxPolicies \in SUBSET Names
    /\ store \in SUBSET Names
    /\ used \in SUBSET Names
    /\ toApply \in 0..MaxAmount
    /\ toRemove \in Seq(Names)

\* While the scenario runs, context.policies names exactly the policies
\* the agent holds: the apply loop records a policy only after the agent
\* stored it and served it back, and the delete loop pops a name only
\* after the agent deleted it.
ContextMatchesAgent ==
    phase = "running" => ctxPolicies = store

\* Every name the delete loop has still to remove is a distinct policy
\* that the context records and the agent holds, so no DELETE of the
\* running loop can meet a 404: sample draws without replacement from
\* context.policies, which matches the agent.
RemovalPlanStored ==
    phase = "running" /\ step = "remove" =>
        /\ IsInjective(toRemove)
        /\ Range(toRemove) \subseteq ctxPolicies \cap store

=============================================================================
