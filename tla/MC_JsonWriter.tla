---------------------------- MODULE MC_JsonWriter ----------------------------
(* JsonWriter on two topics and three records, batches of up to two. *)
EXTENDS JsonWriter, TLC

CONSTANTS t1, t2, r1, r2, r3

MC_Topics == {t1, t2}
MC_Records == {r1, r2, r3}

=============================================================================
