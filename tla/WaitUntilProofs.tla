--------------------------- MODULE WaitUntilProofs ---------------------------
(***************************************************************************)
(* Proofs about threading_wait_until (module WaitUntil), for every set of *)
(* timeouts, every wait_time > 0 and every bound on the probe's duration. *)
(*                                                                        *)
(* ReturnsWithinBound is not inductive: a "done" state says nothing about *)
(* how it was reached.  IInv adds what the loop keeps between its steps:  *)
(* at the loop test time_running is the clock, the probe only runs while  *)
(* time_running < timeout, and a sleep starts exactly one probe call      *)
(* (lastCall ticks) after that test, so the clock at the next test is     *)
(* below timeout + lastCall + wait_time.                                  *)
(***************************************************************************)
EXTENDS WaitUntil, TLAPS

\* the latest time at which the wait may return, given its last probe call
Bound == IF probed THEN timeout - 1 + lastCall + WaitTime ELSE 0

IInv ==
    /\ TypeOK
    /\ pc \in {"test", "done", "raised"} => now = timeRunning
    /\ pc \in {"test", "done"} => now <= Bound
    /\ pc = "call" => now = timeRunning /\ timeRunning < timeout
    /\ pc = "wait" => /\ timeRunning < timeout
                      /\ now = timeRunning + lastCall
                      /\ probed

USE TimeoutsAssumption, WaitTimeAssumption, MaxCallTimeAssumption,
    StartValueAssumption

LEMMA InitIInv == Init => IInv
<1> SUFFICES ASSUME Init PROVE IInv
  OBVIOUS
<1>1. TypeOK
  <2>1. lastCall \in 0..MaxCallTime
    BY SMT DEF Init
  <2>2. QED
    BY <2>1 DEF Init, TypeOK
<1>2. QED
  BY <1>1 DEF Init, IInv, Bound

LEMMA NextIInv == IInv /\ [Next]_vars => IInv'
<1> SUFFICES ASSUME IInv, [Next]_vars PROVE IInv'
  OBVIOUS
<1>1. CASE Test
  BY <1>1 DEF IInv, TypeOK, Test, Bound
<1>2. CASE Call
  BY <1>2 DEF IInv, TypeOK, Call
<1>3. CASE CallRaises
  BY <1>3 DEF IInv, TypeOK, CallRaises
<1>4. CASE Wait
  <2>1. TypeOK'
    BY <1>4 DEF IInv, TypeOK, Wait
  <2>2. now' <= Bound'
    BY <1>4 DEF IInv, TypeOK, Wait, Bound
  <2>3. QED
    BY <1>4, <2>1, <2>2 DEF IInv, Wait
<1>5. CASE UNCHANGED vars
  BY <1>5 DEF IInv, TypeOK, vars, Bound
<1>6. QED
  BY <1>1, <1>2, <1>3, <1>4, <1>5 DEF Next

\* The loop keeps its variables in their types.
THEOREM TypeCorrect == Spec => []TypeOK
<1>1. IInv => TypeOK
  BY DEF IInv
<1>2. QED
  BY InitIInv, NextIInv, <1>1, PTL DEF Spec

\* For every timeout, wait time and probe duration, the wait returns no
\* later than its own last probe call and one sleep after int(timeout),
\* and at once when it never calls the probe.
THEOREM WithinBound == Spec => []ReturnsWithinBound
<1>1. IInv => ReturnsWithinBound
  BY DEF IInv, ReturnsWithinBound, Bound
<1>2. QED
  BY InitIInv, NextIInv, <1>1, PTL DEF Spec

=============================================================================
