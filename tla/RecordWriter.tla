---------------------------- MODULE RecordWriter ----------------------------
(***************************************************************************)
(* LoggingOutputWorker.write_data of the "extention" package: the poller  *)
(* hands it a batch {"topic": t, "records": [...]} and it logs one        *)
(* warning line "topic: t, record: r" per record, in order; an empty      *)
(* batch logs nothing.  The log is the sequence of <<topic, record>>      *)
(* pairs the lines carry.  This writer is the reference the other copy of *)
(* the logging writer (module JsonWriter) is checked against.             *)
(***************************************************************************)
EXTENDS Naturals, Sequences, SequencesExt

CONSTANTS
    Topics,     \* data["topic"] values
    Records,    \* records a poller command may produce
    MaxBatch,   \* longest data["records"] list
    MaxCalls    \* number of write_data calls

VARIABLES
    written,    \* the logged lines, as <<topic, record>> pairs
    calls,      \* write_data calls so far
    handed      \* history: the <<topic, record>> pairs handed to write_data

\* the batches the poller may pass
Batches == BoundedSeq(Records, MaxBatch)

\* the lines one batch stands for, in order
Entries(t, batch) == [i \in 1..Len(batch) |-> <<t, batch[i]>>]

Init ==
    /\ written = << >>
    /\ calls = 0
    /\ handed = << >>

\* if not data["records"]: return; then one logger.warning per record
WriteData(t, batch) ==
    /\ calls < MaxCalls
    /\ calls' = calls + 1
    /\ handed' = handed \o Entries(t, batch)
    /\ written' = IF batch = << >> THEN written ELSE written \o Entries(t, batch)

Next == \E t \in Topics, batch \in Batches : WriteData(t, batch)

Spec == Init /\ [][Next]_<<written, calls, handed>>

=============================================================================
