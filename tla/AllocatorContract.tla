--------------------------- MODULE AllocatorContract ---------------------------
(***************************************************************************)
(* What the PortAllocator promises (spec 4.2 and 5), as one atomic step:  *)
(* allocate(available, excluded) either returns a port, bindable at that  *)
(* moment and not excluded, or, for available = False, a member of the    *)
(* exclusion set; or it fails with AllocationExhausted, with an OS error  *)
(* when no port is free, or with InvalidArgument for an unavailable       *)
(* request with an empty exclusion set.  The other processes of the host  *)
(* take and release ports at any time.                                    *)
(***************************************************************************)
EXTENDS Naturals

CONSTANTS Ports, NoPort

VARIABLES
    available,   \* the available argument
    excluded,    \* the exclusion set
    state,       \* "start", or the outcome of the call
    result,      \* the port returned, NoPort before
    inUse        \* ports other processes hold

vars == <<available, excluded, state, result, inUse>>

Init ==
    /\ available \in BOOLEAN
    /\ excluded \in SUBSET Ports
    /\ state = "start"
    /\ result = NoPort
    /\ inUse \in SUBSET Ports

\* a free port outside the exclusion set
AllocateFree ==
    /\ state = "start" /\ available
    /\ \E p \in Ports \ (inUse \cup excluded) : result' = p
    /\ state' = "returned"
    /\ UNCHANGED <<available, excluded, inUse>>

\* AllocationExhausted: no candidate within the retry budget
GiveUp ==
    /\ state = "start" /\ available
    /\ state' = "exhausted"
    /\ UNCHANGED <<available, excluded, result, inUse>>

\* the OS has no free port to bind
NoFreePort ==
    /\ state = "start" /\ available
    /\ Ports \subseteq inUse
    /\ state' = "oserror"
    /\ UNCHANGED <<available, excluded, result, inUse>>

\* available = False: a member of the exclusion set, returned verbatim
AllocateExcluded ==
    /\ state = "start" /\ ~available
    /\ \E p \in excluded : result' = p
    /\ state' = "returned"
    /\ UNCHANGED <<available, excluded, inUse>>

\* InvalidArgument: an unavailable port asked for with nothing excluded
Invalid ==
    /\ state = "start" /\ ~available /\ excluded = {}
    /\ state' = "invalid"
    /\ UNCHANGED <<available, excluded, result, inUse>>

Other ==
    /\ \E p \in Ports :
          inUse' = IF p \in inUse THEN inUse \ {p} ELSE inUse \cup {p}
    /\ UNCHANGED <<available, excluded, state, result>>

Next ==
    \/ AllocateFree \/ GiveUp \/ NoFreePort
    \/ AllocateExcluded \/ Invalid
    \/ Other

Spec == Init /\ [][Next]_vars

=============================================================================
