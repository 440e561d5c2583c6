--------------------------- MODULE PoliciesProofs ---------------------------
(***************************************************************************)
(* Proofs about the policy steps (module Policies), for every set of      *)
(* policy names and every largest amount.                                 *)
(*                                                                        *)
(* The two safety invariants are inductive together with the type         *)
(* invariant: the delete loop needs the context to match the agent to    *)
(* know that each sampled name is stored, and the context stays matched  *)
(* through a DELETE only because the sampled names are distinct, so that *)
(* the names left to delete are still stored.                            *)
(***************************************************************************)
EXTENDS Policies, SequenceTheorems, TLAPS

IInv == TypeOK /\ ContextMatchesAgent /\ RemovalPlanStored

USE NamesAssumption, MaxAmountAssumption

\* The tail of an injective sequence is injective and holds the other
\* elements: what the delete loop keeps after DELETE of its head.
LEMMA TailInjective ==
    ASSUME NEW S, NEW s \in Seq(S), s # << >>, IsInjective(s)
    PROVE  /\ IsInjective(Tail(s))
           /\ Range(Tail(s)) = Range(s) \ {Head(s)}
<1>1. Tail(s) \in Seq(S) /\ Len(Tail(s)) = Len(s) - 1
      /\ \A i \in 1..Len(s) - 1 : Tail(s)[i] = s[i + 1]
  BY HeadTailProperties
<1>2. IsInjective(Tail(s))
  BY <1>1 DEF IsInjective
<1>3. Range(Tail(s)) = Range(s) \ {Head(s)}
  <2>1. Range(Tail(s)) \subseteq Range(s) \ {Head(s)}
    BY <1>1 DEF IsInjective, Range
  <2>2. Range(s) \ {Head(s)} \subseteq Range(Tail(s))
    <3> SUFFICES ASSUME NEW i \in 1..Len(s), s[i] # Head(s)
                 PROVE  s[i] \in Range(Tail(s))
      BY DEF Range
    <3>1. i # 1
      OBVIOUS
    <3>2. i - 1 \in DOMAIN Tail(s) /\ Tail(s)[i - 1] = s[i]
      BY <1>1, <3>1
    <3>3. QED
      BY <3>2 DEF Range
  <2>3. QED
    BY <2>1, <2>2
<1>4. QED
  BY <1>2, <1>3

\* An injection from 1..n is an injective sequence.
LEMMA InjectionSeq ==
    ASSUME NEW S, NEW n \in Nat, NEW s \in Injection(1..n, S)
    PROVE  s \in Seq(S) /\ IsInjective(s) /\ Len(s) = n /\ Range(s) \subseteq S
BY DEF Injection, Range

LEMMA InitIInv == Init => IInv
<1> SUFFICES ASSUME Init PROVE IInv
  OBVIOUS
<1>1. << >> \in Seq(Names)
  OBVIOUS
<1>2. TypeOK
  <2>1. toApply \in 0..MaxAmount
    BY DEF Init
  <2>2. ctxSet \in BOOLEAN
    BY Zenon DEF Init
  <2>3. QED
    BY <1>1, <2>1, <2>2 DEF Init, TypeOK
<1>3. QED
  BY <1>2 DEF Init, IInv, ContextMatchesAgent, RemovalPlanStored

LEMMA NextIInv == IInv /\ [Next]_vars => IInv'
<1> SUFFICES ASSUME IInv, [Next]_vars PROVE IInv'
  OBVIOUS
<1>1. CASE SetUpContext
  BY <1>1 DEF SetUpContext, IInv, TypeOK, ContextMatchesAgent,
             RemovalPlanStored
<1>2. CASE ApplyStep
  BY <1>2 DEF ApplyStep, Fail, IInv, TypeOK, ContextMatchesAgent,
             RemovalPlanStored
<1>3. CASE ApplyOne
  BY <1>3 DEF ApplyOne, CreatePolicy, GetPolicyOk, Fail, IInv, TypeOK,
             ContextMatchesAgent, RemovalPlanStored
<1>4. CASE RemoveStep
  <2> PICK n \in 0..MaxAmount :
          IF ~ctxSet \/ n > Cardinality(ctxPolicies)
          THEN Fail /\ UNCHANGED toRemove
          ELSE \E s \in Injection(1..n, ctxPolicies) :
                  /\ toRemove' = s
                  /\ step' = IF n = 0 THEN "idle" ELSE "remove"
                  /\ UNCHANGED phase
    BY <1>4 DEF RemoveStep
  <2>1. CASE ~ctxSet \/ n > Cardinality(ctxPolicies)
    BY <1>4, <2>1 DEF RemoveStep, Fail, IInv, TypeOK, ContextMatchesAgent,
                      RemovalPlanStored
  <2>2. CASE ~(~ctxSet \/ n > Cardinality(ctxPolicies))
    <3> PICK s \in Injection(1..n, ctxPolicies) :
            /\ toRemove' = s
            /\ step' = IF n = 0 THEN "idle" ELSE "remove"
            /\ UNCHANGED phase
      BY <2>2
    <3>1. s \in Seq(Names) /\ IsInjective(s) /\ Range(s) \subseteq ctxPolicies
      BY InjectionSeq DEF IInv, TypeOK
    <3>2. QED
      BY <1>4, <3>1 DEF RemoveStep, IInv, TypeOK, ContextMatchesAgent,
                        RemovalPlanStored
  <2>3. QED
    BY <2>1, <2>2
<1>5. CASE RemoveOne
  <2> PICK deleted \in BOOLEAN :
          /\ RemovePolicy(Head(toRemove), deleted)
          /\ IF deleted
             THEN /\ ctxPolicies' = ctxPolicies \ {Head(toRemove)}
                  /\ toRemove' = Tail(toRemove)
                  /\ step' = IF Len(toRemove) = 1 THEN "idle" ELSE "remove"
                  /\ UNCHANGED phase
             ELSE Fail /\ UNCHANGED <<ctxPolicies, toRemove>>
    BY <1>5 DEF RemoveOne
  <2>1. CASE deleted
    <3>1. /\ IsInjective(Tail(toRemove))
          /\ Range(Tail(toRemove)) = Range(toRemove) \ {Head(toRemove)}
          /\ Tail(toRemove) \in Seq(Names)
      BY <1>5, TailInjective, HeadTailProperties
         DEF RemoveOne, IInv, TypeOK, RemovalPlanStored
    <3>2. Head(toRemove) \in Range(toRemove)
      BY <1>5 DEF RemoveOne, IInv, TypeOK, Range
    <3>3. QED
      BY <1>5, <2>1, <3>1, <3>2 DEF RemoveOne, RemovePolicy, IInv, TypeOK,
                                    ContextMatchesAgent, RemovalPlanStored
  <2>2. CASE ~deleted
    BY <1>5, <2>2 DEF RemoveOne, RemovePolicy, Fail, IInv, TypeOK,
                      ContextMatchesAgent, RemovalPlanStored
  <2>3. QED
    BY <2>1, <2>2
<1>6. CASE CheckStep
  BY <1>6 DEF CheckStep, Fail, IInv, TypeOK, ContextMatchesAgent,
             RemovalPlanStored
<1>7. CASE UNCHANGED vars
  BY <1>7 DEF vars, IInv, TypeOK, ContextMatchesAgent, RemovalPlanStored
<1>8. QED
  BY <1>1, <1>2, <1>3, <1>4, <1>5, <1>6, <1>7 DEF Next

\* The policy steps keep their variables in their types.
THEOREM TypeCorrect == Spec => []TypeOK
<1>1. IInv => TypeOK
  BY DEF IInv
<1>2. QED
  BY InitIInv, NextIInv, <1>1, PTL DEF Spec

\* While a scenario runs, context.policies names exactly the policies
\* the agent holds, whatever the agent answers.
THEOREM ContextMatches == Spec => []ContextMatchesAgent
<1>1. IInv => ContextMatchesAgent
  BY DEF IInv
<1>2. QED
  BY InitIInv, NextIInv, <1>1, PTL DEF Spec

\* Every DELETE the running delete loop has still to send names a
\* distinct policy the agent holds.
THEOREM RemovalPlan == Spec => []RemovalPlanStored
<1>1. IInv => RemovalPlanStored
  BY DEF IInv
<1>2. QED
  BY InitIInv, NextIInv, <1>1, PTL DEF Spec

=============================================================================
