------------------------------ MODULE WaitUntil ------------------------------
(***************************************************************************)
(* utils.threading_wait_until: the decorator behind wait_container_status *)
(* and wait_until_policies_applied.  It calls the wrapped probe, sleeping *)
(* wait_time on a threading.Event between calls, until the probe sets the *)
(* event or time_running (wall-clock time since the start, re-read after  *)
(* each sleep) reaches int(timeout); it returns the probe's last value,   *)
(* or start_func_value when the probe never ran.                          *)
(*                                                                        *)
(* Time is counted in whole ticks.  A probe call (a Docker or HTTP        *)
(* request) takes 0..MaxCallTime ticks, observes the condition or not,    *)
(* and may raise, which propagates out of the loop.  The probe's payload  *)
(* (container, policy list) is abstracted away: its value is the flag     *)
(* event.is_set() it returns.                                             *)
(***************************************************************************)
EXTENDS Integers

CONSTANTS
    Timeouts,     \* timeout arguments a caller may pass (int(timeout))
    WaitTime,     \* wait_time, ticks slept between two probe calls
    MaxCallTime,  \* longest duration of one probe call
    StartValue    \* start_func_value (False by default)

ASSUME TimeoutsAssumption == Timeouts \subseteq Int
ASSUME WaitTimeAssumption == WaitTime \in Nat \ {0}
ASSUME MaxCallTimeAssumption == MaxCallTime \in Nat
ASSUME StartValueAssumption == StartValue \notin BOOLEAN

VARIABLES
    pc,           \* "test" the loop condition, "call" the probe, "wait",
                  \* or returned: "done", "raised"
    timeout,      \* the caller's timeout
    event,        \* event.is_set()
    funcValue,    \* func_value
    timeRunning,  \* time_running
    now,          \* ticks since start = datetime.now().timestamp() - start
    probed,       \* history: the probe has been called
    lastCall      \* history: ticks the last probe call took

vars == <<pc, timeout, event, funcValue, timeRunning, now, probed, lastCall>>

\* the larger of two integers
Max2(a, b) == IF a >= b THEN a ELSE b

Init ==
    /\ pc = "test"
    /\ timeout \in Timeouts
    /\ event = FALSE
    /\ funcValue = StartValue
    /\ timeRunning = 0
    /\ now = 0
    /\ probed = FALSE
    /\ lastCall = 0

\* mutant: the loop runs while time_running <= int(timeout)
TestUpToTimeout ==
    /\ pc = "test"
    /\ pc' = IF ~event /\ timeRunning <= timeout THEN "call" ELSE "done"
    /\ UNCHANGED <<timeout, event, funcValue, timeRunning, now, probed,
                   lastCall>>

\* while not event.is_set() and time_running < int(timeout)
Test ==
    /\ pc = "test"
    /\ pc' = IF ~event /\ timeRunning < timeout THEN "call" ELSE "done"
    /\ UNCHANGED <<timeout, event, funcValue, timeRunning, now, probed,
                   lastCall>>

\* func_value = func(*args, event=event, **kwargs): the probe sets the
\* event when it observes the condition and returns event.is_set()
Call ==
    /\ pc = "call"
    /\ \E d \in 0..MaxCallTime, seen \in BOOLEAN :
          /\ now' = now + d
          /\ lastCall' = d
          /\ event' = (event \/ seen)
          /\ funcValue' = (event \/ seen)
    /\ pc' = "wait"
    /\ probed' = TRUE
    /\ UNCHANGED <<timeout, timeRunning>>

\* the probe raises (containers.get on a removed id, a failed status
\* assertion in get_policies): nothing catches it
CallRaises ==
    /\ pc = "call"
    /\ pc' = "raised"
    /\ probed' = TRUE
    /\ UNCHANGED <<timeout, event, funcValue, timeRunning, now, lastCall>>

\* mutant: time_running = start - datetime.now().timestamp()
WaitSwapsClock ==
    /\ pc = "wait"
    /\ LET slept == IF event THEN 0 ELSE WaitTime
       IN /\ now' = now + slept
          /\ timeRunning' = -(now + slept)
    /\ pc' = "test"
    /\ UNCHANGED <<timeout, event, funcValue, probed, lastCall>>

\* event.wait(wait_time) returns at once when the event is set; then
\* time_running = datetime.now().timestamp() - start
Wait ==
    /\ pc = "wait"
    /\ LET slept == IF event THEN 0 ELSE WaitTime
       IN /\ now' = now + slept
          /\ timeRunning' = now + slept
    /\ pc' = "test"
    /\ UNCHANGED <<timeout, event, funcValue, probed, lastCall>>

Next == Test \/ Call \/ CallRaises \/ Wait

Spec == Init /\ [][Next]_vars

-----------------------------------------------------------------------------
(* Properties *)

TypeOK ==
    /\ pc \in {"test", "call", "wait", "done", "raised"}
    /\ timeout \in Timeouts
    /\ event \in BOOLEAN
    /\ funcValue \in BOOLEAN \cup {StartValue}
    /\ timeRunning \in Nat /\ now \in Nat
    /\ probed \in BOOLEAN
    /\ lastCall \in 0..MaxCallTime

\* The wait overruns its timeout by at most its own last probe call and
\* one sleep: the loop re-reads the clock only after event.wait, so its
\* last round starts before int(timeout) and may add the whole call (which
\* has no timeout of its own) and a whole sleep.  Without a probe call it
\* returns at once.  Ticks are whole, so "< X" is written "<= X - 1".
ReturnsWithinBound ==
    pc = "done" =>
        now <= IF probed THEN timeout - 1 + lastCall + WaitTime ELSE 0

\* Spec 4.1: a zero or negative timeout means "try once, do not wait", so
\* a wait that returns has called the probe at least once.
TriesAtLeastOnce == pc = "done" => probed

\* Spec 8: the wait returns within timeout + one poll interval.
WithinTimeoutPlusInterval ==
    pc = "done" => now <= Max2(timeout, 0) + WaitTime

=============================================================================
