---------------------------- MODULE MCIngestion ----------------------------
(***************************************************************************)
(* Constants of the Ingestion runs: the first version of a file parses to  *)
(* two chunks, so with BatchSize 1 it takes two batches; the second one to *)
(* a single chunk, so the versions differ in what they leave behind.       *)
(***************************************************************************)
EXTENDS Ingestion

MCChunkCount == [v \in Versions |-> IF v = 1 THEN 2 ELSE 1]

=============================================================================
