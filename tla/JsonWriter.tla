----------------------------- MODULE JsonWriter -----------------------------
(***************************************************************************)
(* LoggingOutputWorker.write_data of the "extension" package: for a       *)
(* non-empty batch it collects the records under their topic and logs the *)
(* whole batch as one warning line json.dumps({topic: records}); when     *)
(* json.dumps raises (a record holding a value JSON cannot encode) the    *)
(* bare except logs "failed to parse" on the root logger and the batch's  *)
(* records are not written anywhere.                                      *)
(*                                                                        *)
(* The writer is meant to do what the "extention" copy does in one line  *)
(* per batch: it is checked to implement RecordWriter under the mapping  *)
(* that reads the records back out of its JSON lines.                     *)
(***************************************************************************)
EXTENDS Naturals, Sequences, SequencesExt

CONSTANTS Topics, Records, MaxBatch, MaxCalls,
    Unencodable   \* records json.dumps raises TypeError on

ASSUME JsonWriterAssumption ==
    /\ Topics # {} /\ Records # {}
    /\ MaxBatch \in Nat /\ MaxCalls \in Nat
    /\ Unencodable \subseteq Records

VARIABLES
    warnings,   \* the JSON lines logged, each as <<topic, records>>
    errors,     \* "failed to parse" lines logged
    calls,      \* write_data calls so far
    handed      \* history: the <<topic, record>> pairs handed to write_data

vars == <<warnings, errors, calls, handed>>

Batches == BoundedSeq(Records, MaxBatch)

\* the <<topic, record>> pairs the JSON lines carry, line after line
LoggedEntries ==
    FlattenSeq([k \in 1..Len(warnings) |->
                  [i \in 1..Len(warnings[k][2]) |->
                     <<warnings[k][1], warnings[k][2][i]>>]])

Ref == INSTANCE RecordWriter WITH written <- LoggedEntries

Init ==
    /\ warnings = << >>
    /\ errors = 0
    /\ calls = 0
    /\ handed = << >>

\* mutant: ret_val[topic] = [record] in place of append(record)
WriteDataKeepsLast(t, batch) ==
    /\ calls < MaxCalls
    /\ calls' = calls + 1
    /\ handed' = handed \o Ref!Entries(t, batch)
    /\ IF batch = << >>
          THEN UNCHANGED <<warnings, errors>>
       ELSE IF \E i \in 1..Len(batch) : batch[i] \in Unencodable
          THEN /\ errors' = errors + 1
               /\ UNCHANGED warnings
       ELSE /\ warnings' = Append(warnings, <<t, <<batch[Len(batch)]>> >>)
            /\ UNCHANGED errors

\* if not data["records"]: return; try: ret_val = {topic: records};
\* logger.warning(json.dumps(ret_val)) except: logging.error(...)
WriteData(t, batch) ==
    /\ calls < MaxCalls
    /\ calls' = calls + 1
    /\ handed' = handed \o Ref!Entries(t, batch)
    /\ IF batch = << >>
          THEN UNCHANGED <<warnings, errors>>
       ELSE IF \E i \in 1..Len(batch) : batch[i] \in Unencodable
          THEN /\ errors' = errors + 1
               /\ UNCHANGED warnings
       ELSE /\ warnings' = Append(warnings, <<t, batch>>)
            /\ UNCHANGED errors

Next == \E t \in Topics, batch \in Batches : WriteData(t, batch)

Spec == Init /\ [][Next]_vars

-----------------------------------------------------------------------------
(* Properties *)

\* The JSON writer logs, over any sequence of write_data calls, exactly the
\* records the per-record writer logs, in the same order and under the
\* same topics: no record of a batch is lost, duplicated or moved.
ImplementsRecordWriter == Ref!Spec

=============================================================================
