----------------------------- MODULE MCBenchmark -----------------------------
(***************************************************************************)
(* The benchmark on a small map, of which it may read what the wrapped     *)
(* addresses reach, with batches long enough for an address that is not    *)
(* wrapped to leave the readable regions.                                  *)
(***************************************************************************)
EXTENDS Benchmark

MCIdentity == <<73, 77, 76, 80>>

MCPolicies == {[writes_enabled |-> FALSE, write_allow_begin |-> 100,
                write_allow_end |-> 159]}

\* Texts as long as those of src/server.cpp.
MCDiagnostic == [name \in DiagnosticName |-> [i \in 1 .. 13 |-> 0]]
=============================================================================
