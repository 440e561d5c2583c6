------------------------- MODULE PortAllocatorProofs -------------------------
(***************************************************************************)
(* Proofs about one call of return_port_by_availability (module          *)
(* PortAllocator), for every set of ports and every retry bound.          *)
(*                                                                        *)
(* The contract is not inductive by itself: a step of the loop that      *)
(* returns must know that the call asked for an available port, and the  *)
(* step that gives up must know that every earlier socket got an         *)
(* excluded port.  LoopInv records both while the loop runs, and that   *)
(* no socket was opened before it.                                       *)
(***************************************************************************)
EXTENDS PortAllocator, TLAPS

LoopInv ==
    /\ pc = "start" => bound = {}
    /\ pc \in {"loop", "exhausted"} => available /\ bound \subseteq excluded

IInv == TypeOK /\ AllocationContract /\ LoopInv

USE PortsAssumption, MaxRetriesAssumption, NoPortAssumption

LEMMA InitIInv == Init => IInv
BY DEF Init, IInv, TypeOK, AllocationContract, LoopInv, Outcomes

LEMMA NextIInv == IInv /\ [Next]_vars => IInv'
<1> SUFFICES ASSUME IInv, [Next]_vars PROVE IInv'
  OBVIOUS
<1> USE DEF IInv, TypeOK, AllocationContract, LoopInv, Outcomes
<1>1. CASE ReturnUnavailable
  <2>1. CASE excluded = {}
    BY <1>1, <2>1 DEF ReturnUnavailable
  <2>2. CASE excluded # {}
    <3> PICK p \in excluded : result' = p /\ pc' = "returned"
      BY <1>1, <2>2 DEF ReturnUnavailable
    <3> QED
      BY <1>1 DEF ReturnUnavailable
  <2>3. QED
    BY <2>1, <2>2
<1>2. CASE StartLoop
  BY <1>2 DEF StartLoop
<1>3. CASE BindOne
  <2>1. CASE Ports \subseteq inUse
    BY <1>3, <2>1 DEF BindOne
  <2>2. CASE ~(Ports \subseteq inUse)
    <3> PICK p \in Ports \ inUse :
            /\ retries' = retries + 1
            /\ bound' = bound \cup {p}
            /\ IF p \notin excluded
                  THEN result' = p /\ pc' = "returned"
                  ELSE UNCHANGED <<result, pc>>
      BY <1>3, <2>2 DEF BindOne
    <3>1. CASE p \notin excluded
      BY <1>3, <3>1 DEF BindOne
    <3>2. CASE p \in excluded
      BY <1>3, <3>2 DEF BindOne
    <3>3. QED
      BY <3>1, <3>2
  <2>3. QED
    BY <2>1, <2>2
<1>4. CASE Exhausted
  BY <1>4 DEF Exhausted
<1>5. CASE OtherProcess
  BY <1>5 DEF OtherProcess
<1>6. CASE UNCHANGED vars
  BY <1>6 DEF vars
<1>7. QED
  BY <1>1, <1>2, <1>3, <1>4, <1>5, <1>6 DEF Next, Allocate

\* A call keeps its variables in their types: in particular retries never
\* passes the bound of the loop.
THEOREM TypeCorrect == Spec => []TypeOK
<1>1. IInv => TypeOK
  BY DEF IInv
<1>2. QED
  BY InitIInv, NextIInv, <1>1, PTL DEF Spec

\* Whatever the ports, the exclusion list and the other processes do, a
\* call of return_port_by_availability keeps its contract: an available
\* port it returns came from its own socket and is not excluded, and it
\* gives up only after MaxRetries excluded ports.
THEOREM Contract == Spec => []AllocationContract
<1>1. IInv => AllocationContract
  BY DEF IInv
<1>2. QED
  BY InitIInv, NextIInv, <1>1, PTL DEF Spec

\* Each step of the loop is a step of the spec's atomic allocate or leaves
\* the spec's view of the call unchanged.
LEMMA NextRefines == IInv /\ [Next]_vars => [Abstract!Next]_Abstract!vars
<1> SUFFICES ASSUME IInv, [Next]_vars PROVE [Abstract!Next]_Abstract!vars
  OBVIOUS
<1> USE DEF IInv, TypeOK, LoopInv, CallState, Abstract!vars
<1>1. CASE ReturnUnavailable
  <2>1. CASE excluded = {}
    BY <1>1, <2>1 DEF ReturnUnavailable, Abstract!Next, Abstract!Invalid
  <2>2. CASE excluded # {}
    BY <1>1, <2>2 DEF ReturnUnavailable, Abstract!Next, Abstract!AllocateExcluded
  <2>3. QED
    BY <2>1, <2>2
<1>2. CASE StartLoop
  BY <1>2 DEF StartLoop
<1>3. CASE BindOne
  <2>0. available
    BY <1>3 DEF BindOne
  <2>1. CASE Ports \subseteq inUse
    BY <1>3, <2>0, <2>1 DEF BindOne, Abstract!Next, Abstract!NoFreePort
  <2>2. CASE ~(Ports \subseteq inUse)
    <3> PICK p \in Ports \ inUse :
            /\ retries' = retries + 1
            /\ bound' = bound \cup {p}
            /\ IF p \notin excluded
                  THEN result' = p /\ pc' = "returned"
                  ELSE UNCHANGED <<result, pc>>
      BY <1>3, <2>2 DEF BindOne
    <3>1. CASE p \notin excluded
      BY <1>3, <2>0, <3>1 DEF BindOne, Abstract!Next, Abstract!AllocateFree
    <3>2. CASE p \in excluded
      BY <1>3, <3>2 DEF BindOne
    <3>3. QED
      BY <3>1, <3>2
  <2>3. QED
    BY <2>1, <2>2
<1>4. CASE Exhausted
  BY <1>4 DEF Exhausted, Abstract!Next, Abstract!GiveUp
<1>5. CASE OtherProcess
  BY <1>5 DEF OtherProcess, Abstract!Next, Abstract!Other
<1>6. CASE UNCHANGED vars
  BY <1>6 DEF vars
<1>7. QED
  BY <1>1, <1>2, <1>3, <1>4, <1>5, <1>6 DEF Next, Allocate

\* return_port_by_availability implements the allocate of the spec: the
\* initial states agree, and every step of the retry loop is a step of
\* the atomic allocate or a step that the spec does not see.
THEOREM Refinement == Spec => ImplementsContract
<1>1. Init => Abstract!Init
  BY DEF Init, Abstract!Init, CallState
<1>2. QED
  BY <1>1, InitIInv, NextIInv, NextRefines, PTL
     DEF Spec, ImplementsContract, Abstract!Spec

=============================================================================
