--------------------------- MODULE MCLoopbackCalls ---------------------------
(***************************************************************************)
(* The loopback transport for TLC: a map of four bytes (one read-only, two *)
(* read/write, one denied), request IDs 0..2, so that ID 2 wraps.          *)
(***************************************************************************)
EXTENDS LoopbackCalls

MCIdentity == <<1>>

MCPolicies ==
    {[writes_enabled |-> FALSE, write_allow_begin |-> 1, write_allow_end |-> 2],
     [writes_enabled |-> TRUE, write_allow_begin |-> 1, write_allow_end |-> 2]}

MCDiagnostic == [name \in DiagnosticName |-> <<1>>]

MCFrame(opcode, flags, id, address, payload) ==
    [version |-> 1, opcode |-> opcode, flags |-> flags, request_id |-> id,
     address |-> address, status |-> "ok", payload |-> payload]

\* An accepted read and write, at the wrap of the request ID and before it, a
\* denied read, a response sent as a request, and bytes that do not decode.
MCWires ==
    {EncodedBytes(MCFrame("read_request", 0, 2, 1, <<1, 0>>)),
     EncodedBytes(MCFrame("read_request", 0, 1, 3, <<0, 1>>)),
     EncodedBytes(MCFrame("write_request", 0, 2, 1, <<1, 1>>)),
     EncodedBytes(MCFrame("write_request", 0, 1, 2, <<0>>)),
     EncodedBytes(MCFrame("data_response", 1, 1, 1, <<>>)),
     FlipChecksumBit(EncodedBytes(MCFrame("write_request", 0, 1, 1, <<1>>)))}

MCDeadlines == {0, 1}
=============================================================================
