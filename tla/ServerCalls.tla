----------------------------- MODULE ServerCalls -----------------------------
(***************************************************************************)
(* A MemoryServer driven directly, by any caller that hands bytes to       *)
(* handle(): the benchmark, the fuzzer and the server tests do.            *)
(***************************************************************************)
EXTENDS MemoryServer

CONSTANT Wires    \* the request byte vectors the caller may hand over

ASSUME WiresConstant == Wires \subseteq Wire

VARIABLES
    request,      \* the bytes of the last call
    handled,      \* the HandleResult of the last call
    found         \* the memory the last call found (history)

vars == <<policy, memory, request, handled, found>>

Init ==
    /\ ServerInit
    /\ request = EmptyWire
    /\ handled = HandleResult(EmptyWire, FALSE, 0, "bad_request", "none")
    /\ found = memory

Call(w) ==
    /\ Handle(w)
    /\ request' = w
    /\ handled' = Handled(w)
    /\ found' = memory

Next == \E w \in Wires : Call(w)

Spec == Init /\ [][Next]_vars

-----------------------------------------------------------------------------
\* Type invariant.
TypeOK ==
    /\ policy \in ServerPolicy
    /\ memory \in Memory
    /\ request \in Wire
    /\ handled \in HandleResults
    /\ found \in Memory

\* Safety: a request that decodes is always answered, with a frame that the
\* client's decoder accepts and that echoes request ID and address; one that
\* does not decode is never answered (handle, make_response, text_payload).
AnsweredExactlyWhenDecodable ==
    /\ Decodes(request) <=> handled.event.request_decoded
    /\ Decodes(request) =>
          /\ Decodes(handled.response)
          /\ handled.response.opcode \in ResponseOpcode
          /\ handled.response.request_id = request.request_id
          /\ handled.response.address = request.address
    /\ ~Decodes(request) => handled.response = EmptyWire

\* Safety: encode() and decode() agree on what a frame is, at every limit: any
\* bytes that decode() accepts hold a frame that encode() accepts and that
\* decode() finds again (the assertion of fuzz/codec_fuzzer.cpp).
AcceptedFramesAreStable ==
    Decodes(request) =>
        LET frame == DecodedFrame(request)
        IN /\ EncodeError(frame) = "none"
           /\ Decodes(EncodedBytes(frame))
           /\ DecodedFrame(EncodedBytes(frame)) = frame

\* The status a request deserves, as the protocol documents state it: by
\* comparing the last address of the interval, not by scanning it.
ReadDeserves(first, length) ==
    IF length = 0 \/ length > maximum_payload_size
       \/ first + length > memory_capacity THEN "out_of_range"
    ELSE IF first + length - 1 > read_write_last THEN "access_denied"
    ELSE "ok"

WriteDeserves(first, length) ==
    IF ~policy.writes_enabled THEN "write_disabled"
    ELSE IF ~(first .. first + length - 1 \subseteq
                policy.write_allow_begin .. policy.write_allow_end)
         THEN "access_denied"
    ELSE IF first + length > memory_capacity THEN "out_of_range"
    ELSE IF first .. first + length - 1 \subseteq Writable THEN "ok"
    ELSE "access_denied"

\* Safety: the interval checks of the code (range_fits, write_is_allowed and
\* the per-byte access scans, all written to avoid address + length) decide
\* exactly as the arithmetic over unbounded integers does.
StatusMatchesIntervalArithmetic ==
    Decodes(request) =>
        handled.response.status =
            CASE request.opcode = "read_request" ->
                    ReadDeserves(request.address, LengthField(request.payload))
              [] request.opcode = "write_request" ->
                    WriteDeserves(request.address, Len(request.payload))
              [] OTHER -> "bad_request"

\* Safety: a call changes memory only if it is answered by an acknowledgement,
\* and then it has stored the whole payload and nothing else; a data response
\* carries the bytes in memory, as many as were asked for, none of them denied
\* ("validate the entire interval before copying").
EffectMatchesAnswer ==
    LET first == request.address
        data == request.payload
    IN /\ handled.response.opcode # "write_acknowledgement" => memory = found
       /\ handled.response.opcode = "write_acknowledgement" =>
            \A a \in Location :
                memory[a] = IF \E i \in DOMAIN data : a = first + i - 1
                            THEN data[a - first + 1] ELSE found[a]
       /\ handled.response.opcode = "data_response" =>
            /\ Len(handled.response.payload) = LengthField(data)
            /\ \A i \in DOMAIN handled.response.payload :
                  /\ first + i - 1 <= read_write_last
                  /\ handled.response.payload[i] = memory[first + i - 1]
=============================================================================
