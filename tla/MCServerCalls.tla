---------------------------- MODULE MCServerCalls ----------------------------
(***************************************************************************)
(* A scaled-down server for TLC: two byte values, addresses 0..7, a map of *)
(* six bytes (two read-only, two read/write, two denied).                  *)
(* maximum_payload_size equals ByteBase as in the code (256 and 256), so   *)
(* the largest length needs the high byte of the length field.             *)
(***************************************************************************)
EXTENDS ServerCalls

MCIdentity == <<1, 0>>

MCPolicies ==
    {[writes_enabled |-> FALSE, write_allow_begin |-> 2, write_allow_end |-> 3],
     [writes_enabled |-> TRUE, write_allow_begin |-> 2, write_allow_end |-> 3],
     [writes_enabled |-> TRUE, write_allow_begin |-> 3, write_allow_end |-> 3],
     [writes_enabled |-> TRUE, write_allow_begin |-> 3, write_allow_end |-> 2],
     [writes_enabled |-> TRUE, write_allow_begin |-> 0, write_allow_end |-> 7]}

\* Longer than a payload may be: text_payload must cut it.
MCDiagnostic == [name \in DiagnosticName |-> <<1, 0, 1>>]

MCFrame(opcode, flags, address, status, payload) ==
    [version |-> 1, opcode |-> opcode, flags |-> flags, request_id |-> 1,
     address |-> address, status |-> status, payload |-> payload]

\* Every read and every write, of legal and of illegal length.
MCRequests ==
    {MCFrame("read_request", 0, a, "ok", <<hi, lo>>) :
        a \in Address, hi \in Byte, lo \in Byte}
    \cup {MCFrame("write_request", 0, a, "ok", d) :
        a \in Address, d \in UNION {[1 .. n -> Byte] : n \in 0 .. 3}}

\* Frames whose opcode, flags, status and payload do not go together.
MCOddFrames ==
    {MCFrame(o, f, 2, s, d) :
        o \in OpcodeByte, f \in 0 .. 3, s \in {"ok", "access_denied", "unassigned"},
        d \in {<<>>, <<1>>, <<0, 1>>}}

\* Byte vectors damaged in one place.
MCDamaged(w) ==
    {[w EXCEPT !.size = 0], [w EXCEPT !.size = 17], [w EXCEPT !.size = @ - 1],
     [w EXCEPT !.size = @ + 1], [w EXCEPT !.magic = FALSE],
     [w EXCEPT !.version = 2], [w EXCEPT !.opcode = "unassigned"],
     [w EXCEPT !.flags = 2], [w EXCEPT !.reserved = 1],
     [w EXCEPT !.payload_size = @ + 1], [w EXCEPT !.checksum = FALSE]}

MCWires ==
    {EmptyWire}
    \cup {EncodedBytes(f) : f \in MCRequests \cup MCOddFrames}
    \cup UNION {MCDamaged(EncodedBytes(f)) :
            f \in {MCFrame("read_request", 0, 1, "ok", <<1, 0>>),
                   MCFrame("write_request", 0, 2, "ok", <<1, 1>>)}}

=============================================================================
