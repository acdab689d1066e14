--------------------------- MODULE MCNetworkBench ---------------------------
(* Two clients, which two shards serve at a time.  Reliable payloads every
   second moment and deadline payloads every moment; two moments are measured. *)
EXTENDS NetworkBench, TLC

MCInterval == <<2, 0, 0, 0, 1>>

ClientSymmetry == Permutations(BenchClient)
=============================================================================
