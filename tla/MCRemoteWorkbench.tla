-------------------------- MODULE MCRemoteWorkbench --------------------------
(***************************************************************************)
(* The remote setting for TLC: three bytes, of which two can be written,   *)
(* three calls, two attempts for a read.                                   *)
(***************************************************************************)
EXTENDS RemoteRefinement

MCIdentity == <<1>>

MCPolicies ==
    {[writes_enabled |-> TRUE, write_allow_begin |-> 1, write_allow_end |-> 2]}

MCDiagnostic == [name \in DiagnosticName |-> <<1>>]

MCReadAttempts == {2}

MCReads == {[address |-> 1, length |-> 2]}

\* One write the server applies, one it refuses.
MCWrites == {[address |-> 1, data |-> <<1, 1>>], [address |-> 0, data |-> <<0>>]}
=============================================================================
