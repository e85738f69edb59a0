----------------------------- MODULE MCWorkbench -----------------------------
(***************************************************************************)
(* The laboratory for TLC: a map of four bytes (one read-only, two         *)
(* read/write, one denied), request IDs 0..2, so that they wrap and skip   *)
(* zero within three calls, and clients configured with no and with two    *)
(* read attempts.                                                          *)
(***************************************************************************)
EXTENDS Workbench

MCIdentity == <<1>>

MCPolicies ==
    {[writes_enabled |-> FALSE, write_allow_begin |-> 1, write_allow_end |-> 2],
     [writes_enabled |-> TRUE, write_allow_begin |-> 1, write_allow_end |-> 7],
     [writes_enabled |-> TRUE, write_allow_begin |-> 2, write_allow_end |-> 2]}

MCDiagnostic == [name \in DiagnosticName |-> <<1>>]

MCReadAttempts == {0, 2}

\* A full-length read, one that crosses into the denied byte, and one the
\* client must not send.
MCReads ==
    {[address |-> 1, length |-> 2, deadline |-> 1],
     [address |-> 2, length |-> 2, deadline |-> 1],
     [address |-> 1, length |-> 1, deadline |-> 0]}

\* Writes inside and partly outside what a policy allows, one that leaves the
\* read/write region, and one that is too long for a frame.
MCWrites ==
    {[address |-> 1, data |-> <<1, 1>>, deadline |-> 1],
     [address |-> 2, data |-> <<1, 1>>, deadline |-> 1],
     [address |-> 1, data |-> <<1, 0, 1>>, deadline |-> 1]}
=============================================================================
