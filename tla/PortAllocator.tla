---------------------------- MODULE PortAllocator ----------------------------
(***************************************************************************)
(* return_port_by_availability(available, unavailable_ports) of utils.py, *)
(* one call.  With available = False it returns a member of the exclusion *)
(* list, whose emptiness fails the assertion.  With available = True it   *)
(* loops at most ten times: bind a socket to port 0, read the port the OS *)
(* chose, close the socket, count the retry and return the port unless    *)
(* it is excluded; when the loop ends without a port the assertion        *)
(* "Unable to find an available port" fails (the wait and return after it *)
(* are unreachable).  bind raises OSError when no port is free.           *)
(*                                                                        *)
(* The other processes of the host bind and release ports at any time:    *)
(* inUse is the environment the OS picks a free port from.                *)
(***************************************************************************)
EXTENDS Naturals, FiniteSets

CONSTANTS
    Ports,       \* the ephemeral ports the OS may assign
    MaxRetries,  \* the bound of the retry loop (10 in the code)
    NoPort       \* the None of available_port before a port is found

ASSUME PortsAssumption == IsFiniteSet(Ports) /\ Ports # {}
ASSUME MaxRetriesAssumption == MaxRetries \in Nat
ASSUME NoPortAssumption == NoPort \notin Ports

VARIABLES
    available,   \* the available argument
    excluded,    \* the set of ports in unavailable_ports
    pc,          \* "start", "loop", or how the call ended: "returned",
                 \* "invalid", "exhausted", "oserror"
    retries,     \* iterations of the loop so far
    result,      \* the returned port, NoPort before
    bound,       \* history: the ports the loop's sockets were given
    inUse        \* ports other processes hold

vars == <<available, excluded, pc, retries, result, bound, inUse>>

Outcomes == {"returned", "invalid", "exhausted", "oserror"}

Init ==
    /\ available \in BOOLEAN
    /\ excluded \in SUBSET Ports
    /\ pc = "start"
    /\ retries = 0
    /\ result = NoPort
    /\ bound = {}
    /\ inUse \in SUBSET Ports

\* if not available: assert len(unavailable_ports) > 0;
\* return choice(unavailable_ports)
ReturnUnavailable ==
    /\ pc = "start" /\ ~available
    /\ IF excluded = {}
          THEN pc' = "invalid" /\ UNCHANGED result
          ELSE \E p \in excluded : result' = p /\ pc' = "returned"
    /\ UNCHANGED <<available, excluded, retries, bound, inUse>>

\* else: available_port = None; retries = 0
StartLoop ==
    /\ pc = "start" /\ available
    /\ pc' = "loop"
    /\ UNCHANGED <<available, excluded, retries, result, bound, inUse>>

\* mutant: the port is returned without the exclusion test
BindOneUnfiltered ==
    /\ pc = "loop" /\ retries < MaxRetries
    /\ IF Ports \subseteq inUse
          THEN pc' = "oserror" /\ UNCHANGED <<retries, result, bound>>
          ELSE \E p \in Ports \ inUse :
                  /\ retries' = retries + 1
                  /\ bound' = bound \cup {p}
                  /\ result' = p /\ pc' = "returned"
    /\ UNCHANGED <<available, excluded, inUse>>

\* mutant: retries += 1 is left out of the loop body
BindOneUncounted ==
    /\ pc = "loop" /\ retries < MaxRetries
    /\ IF Ports \subseteq inUse
          THEN pc' = "oserror" /\ UNCHANGED <<retries, result, bound>>
          ELSE \E p \in Ports \ inUse :
                  /\ UNCHANGED retries
                  /\ bound' = bound \cup {p}
                  /\ IF p \notin excluded
                        THEN result' = p /\ pc' = "returned"
                        ELSE UNCHANGED <<result, pc>>
    /\ UNCHANGED <<available, excluded, inUse>>

\* mutant: while ... retries <= 10
BindOnePastBound ==
    /\ pc = "loop" /\ retries <= MaxRetries
    /\ IF Ports \subseteq inUse
          THEN pc' = "oserror" /\ UNCHANGED <<retries, result, bound>>
          ELSE \E p \in Ports \ inUse :
                  /\ retries' = retries + 1
                  /\ bound' = bound \cup {p}
                  /\ IF p \notin excluded
                        THEN result' = p /\ pc' = "returned"
                        ELSE UNCHANGED <<result, pc>>
    /\ UNCHANGED <<available, excluded, inUse>>

\* mutant: the socket is set SO_REUSEPORT, so bind may share a port that
\* another process holds
BindOneShared ==
    /\ pc = "loop" /\ retries < MaxRetries
    /\ \E p \in Ports :
          /\ retries' = retries + 1
          /\ bound' = bound \cup {p}
          /\ IF p \notin excluded
                THEN result' = p /\ pc' = "returned"
                ELSE UNCHANGED <<result, pc>>
    /\ UNCHANGED <<available, excluded, inUse>>

\* one iteration: s.bind(('', 0)) (OSError when no port is free),
\* getsockname, close, retries += 1, return the port unless excluded
BindOne ==
    /\ pc = "loop" /\ retries < MaxRetries
    /\ IF Ports \subseteq inUse
          THEN pc' = "oserror" /\ UNCHANGED <<retries, result, bound>>
          ELSE \E p \in Ports \ inUse :
                  /\ retries' = retries + 1
                  /\ bound' = bound \cup {p}
                  /\ IF p \notin excluded
                        THEN result' = p /\ pc' = "returned"
                        ELSE UNCHANGED <<result, pc>>
    /\ UNCHANGED <<available, excluded, inUse>>

\* the loop ran out of retries: assert_that(available_port, is_not(None))
Exhausted ==
    /\ pc = "loop" /\ retries >= MaxRetries
    /\ pc' = "exhausted"
    /\ UNCHANGED <<available, excluded, retries, result, bound, inUse>>

\* another process of the host binds or releases a port
OtherProcess ==
    /\ \E p \in Ports :
          inUse' = IF p \in inUse THEN inUse \ {p} ELSE inUse \cup {p}
    /\ UNCHANGED <<available, excluded, pc, retries, result, bound>>

Allocate == ReturnUnavailable \/ StartLoop \/ BindOne \/ Exhausted

Next == Allocate \/ OtherProcess

\* the call runs on the test's thread, which nothing else blocks
Spec == Init /\ [][Next]_vars /\ WF_vars(Allocate)

-----------------------------------------------------------------------------
(* Properties *)

TypeOK ==
    /\ available \in BOOLEAN
    /\ excluded \in SUBSET Ports
    /\ pc \in {"start", "loop"} \cup Outcomes
    /\ retries \in 0..MaxRetries
    /\ result \in Ports \cup {NoPort}
    /\ bound \in SUBSET Ports
    /\ inUse \in SUBSET Ports

\* The allocator's contract: an available port it returns was assigned to
\* one of its sockets and is not in unavailable_ports; an unavailable port
\* it returns is one of unavailable_ports; it fails for want of a port only
\* after all MaxRetries sockets were given excluded ports, and for an
\* unavailable request only when the exclusion list is empty.
AllocationContract ==
    /\ pc = "returned" /\ available => result \in bound \ excluded
    /\ pc = "returned" /\ ~available => result \in excluded
    /\ pc = "exhausted" => available /\ retries = MaxRetries
                           /\ bound \subseteq excluded
    /\ pc = "invalid" => ~available /\ excluded = {}

\* the call seen as the atomic allocate of the spec: the loop has not
\* answered yet
CallState == IF pc \in {"start", "loop"} THEN "start" ELSE pc

Abstract == INSTANCE AllocatorContract WITH state <- CallState

\* The loop implements the spec's allocate: each call ends in one of its
\* outcomes, a port returned for an available request was free when its
\* socket was bound and is not excluded, and bind raises OSError only
\* when the other processes hold every port.
ImplementsContract == Abstract!Spec

\* Every call ends: it returns a port or raises.
Terminates == <>(pc \in Outcomes)

=============================================================================
