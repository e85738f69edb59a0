---------------------------- MODULE MemoryServer ----------------------------
(***************************************************************************)
(* The simulator server: src/server.cpp.  It owns the memory map and a     *)
(* write policy fixed at construction; handle() is one synchronous step.   *)
(***************************************************************************)
EXTENDS MemoryMap

CONSTANTS
    Policies,     \* the ServerPolicy values a server may be constructed with
    Diagnostic    \* the bytes of each diagnostic text

DiagnosticName == {"read_rejected", "write_disabled", "outside_write_allowlist",
                   "memory_write_rejected", "request_opcode_required"}

ServerPolicy == [writes_enabled : BOOLEAN,
                 write_allow_begin : Address, write_allow_end : Address]

ASSUME ServerConstants ==
    /\ Policies \subseteq ServerPolicy
    /\ Diagnostic \in [DiagnosticName -> Seq(Byte)]

VARIABLES
    policy,    \* MemoryServer::policy_
    memory     \* MemoryServer::memory_.bytes_

serverVars == <<policy, memory>>

ServerInit ==
    /\ policy \in Policies
    /\ memory = InitialMemory

\* Mutant: the text is not cut to what a frame can carry.
text_payload_Uncut(name) == Diagnostic[name]

text_payload(name) ==
    LET text == Diagnostic[name]
    IN IF Len(text) <= maximum_payload_size THEN text
       ELSE SubSeq(text, 1, maximum_payload_size)

\* Mutant: the length of begin .. end is taken to be end - begin.
write_is_allowed_OffByOne(address, length) ==
    /\ length # 0
    /\ address >= policy.write_allow_begin
    /\ address <= policy.write_allow_end
    /\ length <= policy.write_allow_end - address

\* The subtraction is done in 64 bits, so it is exact.
write_is_allowed(address, length) ==
    /\ length # 0
    /\ address >= policy.write_allow_begin
    /\ address <= policy.write_allow_end
    /\ length <= policy.write_allow_end - address + 1

-----------------------------------------------------------------------------
(***************************************************************************)
(* handle() returns a HandleResult: response bytes (none for a request     *)
(* that does not decode) and an event.  A Verdict is what handle() decides *)
(* before make_response() encodes it.                                      *)
(***************************************************************************)
Verdict(opcode, status, payload, detail) ==
    [opcode |-> opcode, status |-> status, payload |-> payload, detail |-> detail]

ReadVerdict(request) ==
    LET length == LengthField(request.payload)
        status == ReadStatus(request.address, length)
    IN IF status = "ok"
       THEN Verdict("data_response", "ok",
                    ReadBytes(memory, request.address, length), "read_ok")
       ELSE Verdict("error_response", status,
                    text_payload("read_rejected"), "read_rejected")

WriteVerdict(request) ==
    LET status == WriteStatus(request.address, request.payload)
    IN IF ~policy.writes_enabled
       THEN Verdict("error_response", "write_disabled",
                    text_payload("write_disabled"), "write_disabled")
       ELSE IF ~write_is_allowed(request.address, Len(request.payload))
       THEN Verdict("error_response", "access_denied",
                    text_payload("outside_write_allowlist"),
                    "outside_write_allowlist")
       ELSE IF status # "ok"
       THEN Verdict("error_response", status,
                    text_payload("memory_write_rejected"), "memory_write_rejected")
       ELSE Verdict("write_acknowledgement", "ok", <<>>, "write_ok")

RequestVerdict(request) ==
    CASE request.opcode = "read_request" -> ReadVerdict(request)
      [] request.opcode = "write_request" -> WriteVerdict(request)
      [] OTHER -> Verdict("error_response", "bad_request",
                          text_payload("request_opcode_required"),
                          "request_opcode_required")

ResponseFrame(request, verdict) ==
    [version |-> protocol_version, opcode |-> verdict.opcode,
     flags |-> response_flag, request_id |-> request.request_id,
     address |-> request.address, status |-> verdict.status,
     payload |-> verdict.payload]

HandleResult(response, decoded, request_id, status, detail) ==
    [response |-> response,
     event |-> [request_decoded |-> decoded, request_id |-> request_id,
                status |-> status, detail |-> detail]]

VerdictDetail == {"read_ok", "write_ok"} \cup DiagnosticName
Detail == VerdictDetail \cup {"response_encoding_failed"} \cup CodecError

HandleResults ==
    [response : Wire,
     event : [request_decoded : BOOLEAN, request_id : RequestId,
              status : Status, detail : Detail]]

make_response(request, verdict) ==
    LET response == ResponseFrame(request, verdict)
    IN IF EncodeError(response) # "none"
       THEN HandleResult(EmptyWire, TRUE, request.request_id,
                         "internal_error", "response_encoding_failed")
       ELSE HandleResult(EncodedBytes(response), TRUE, request.request_id,
                         verdict.status, verdict.detail)

\* What handle() returns for the request bytes w.
Handled(w) ==
    IF ~Decodes(w)
    THEN HandleResult(EmptyWire, FALSE, 0, "bad_request", DecodeError(w))
    ELSE make_response(DecodedFrame(w), RequestVerdict(DecodedFrame(w)))

\* memory_.write() is reached and accepted.
Applies(w) ==
    /\ Decodes(w)
    /\ w.opcode = "write_request"
    /\ WriteVerdict(DecodedFrame(w)).detail = "write_ok"

\* Mutant: memory_.write() comes before the policy is looked at.
MemoryAfter_PolicyLast(w) ==
    IF /\ Decodes(w)
       /\ w.opcode = "write_request"
       /\ WriteStatus(w.address, w.payload) = "ok"
    THEN Written(memory, w.address, w.payload) ELSE memory

\* What handle() leaves in memory.
MemoryAfter(w) ==
    IF Applies(w) THEN Written(memory, w.address, w.payload) ELSE memory

\* One call of handle(): the caller receives Handled(w).
Handle(w) ==
    /\ memory' = MemoryAfter(w)
    /\ UNCHANGED policy

-----------------------------------------------------------------------------
\* The locations a server with this policy may ever change.
Writable ==
    {a \in Location : /\ policy.writes_enabled
                      /\ policy.write_allow_begin <= a
                      /\ a <= policy.write_allow_end
                      /\ read_only_last < a /\ a <= read_write_last}

\* Safety: whatever sequence of byte vectors reaches handle(), a byte
\* that is not in both the allowlist of a write-enabled policy and the
\* read/write region keeps the value the constructor gave it
\* (MemoryServer::write_is_allowed, MemoryMap::write).
ProtectedBytesKeepTheirValue ==
    \A a \in Location \ Writable : memory[a] = InitialMemory[a]
=============================================================================
