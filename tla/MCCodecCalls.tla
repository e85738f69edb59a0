----------------------------- MODULE MCCodecCalls -----------------------------
(***************************************************************************)
(* CodecCalls with the real sizes, over one frame of every opcode, frames  *)
(* with extreme fields, frames at the payload limit and one beyond it.     *)
(***************************************************************************)
EXTENDS CodecCalls

Frame32(opcode, flags, request_id, address, code, payload) ==
    [version |-> 1, opcode |-> opcode, flags |-> flags, request_id |-> request_id,
     address |-> address, status |-> Named(StatusValue, code), code |-> code,
     payload |-> payload]

Counting(n) == [i \in 1 .. n |-> i % 256]

DocumentedRead == Frame32("read_request", 0, <<0, 1>>, <<0, 256>>, 0, <<0, 4>>)

MCSent ==
    {DocumentedRead,
     Frame32("write_request", 0, <<65535, 65535>>, <<258, 772>>, 0, <<222, 173>>),
     Frame32("write_request", 0, <<0, 1>>, <<0, 256>>, 0, Counting(256)),
     Frame32("write_request", 0, <<0, 1>>, <<0, 256>>, 0, Counting(257)),
     Frame32("data_response", 1, <<0, 7>>, <<65535, 65535>>, 0, <<255>>),
     Frame32("write_acknowledgement", 1, <<0, 256>>, <<0, 256>>, 0, <<>>),
     Frame32("error_response", 1, <<0, 1>>, <<1, 0>>, 4, <<77>>),
     Frame32("error_response", 1, <<0, 1>>, <<1, 0>>, 1025, <<>>)}

\* The read of docs/protocol-spec.md and docs/cli.md, byte for byte, and the
\* CRC-32 check value of tests/test_codec.cpp: layout and checksum are the
\* documented ones, which no round trip through encode() and decode() tells.
LayoutIsTheDocumentedOne ==
    /\ frame = DocumentedRead /\ line = "sent" /\ damage = "none" =>
         bytes = <<\h49, \h4D, 1, 1, 0, 0, 0, 0, 0, 1, 0, 0, 1, 0, 0, 2, 0, 0,
                   0, 4, \hA0, \hCF, \h9F, \hFD>>
    /\ line = "idle" => crc32([i \in 1 .. 9 |-> 48 + i]) = <<\hCBF4, \h3926>>
=============================================================================
