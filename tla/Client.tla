------------------------------- MODULE Client -------------------------------
(***************************************************************************)
(* The correlation-aware client: src/client.cpp.                           *)
(*                                                                         *)
(* A call of read() or write() is a sequence of steps, because between     *)
(* them the transport acts:                                                *)
(*    "idle"      no call is running; result is what the last one returned *)
(*    "attempt"   at ensure_connected()                                    *)
(*    "exchange"  inside transport_.exchange()                             *)
(*    "reply"     exchange() has returned and reply holds its answer       *)
(***************************************************************************)
EXTENDS Transport

CONSTANT ReadAttempts    \* the values ClientOptions::maximum_read_attempts may have

ASSUME ClientConstants == ReadAttempts \subseteq Nat

VARIABLES
    maximum_read_attempts,   \* options_.maximum_read_attempts
    next_request_id,         \* next_request_id_
    metrics,                 \* metrics_
    pc,                      \* where the running call is
    call,                    \* the locals of the running (or last) call
    result                   \* the OperationResult last returned

clientVars == <<maximum_read_attempts, next_request_id, metrics, pc, call, result>>

ClientError == {"none", "invalid_argument", "connect_failed", "timeout",
                "disconnected", "encoding_failed", "malformed_response",
                "correlation_mismatch", "unexpected_response", "remote_error"}

ClientMetrics == [operations : Nat, transport_attempts : Nat, reconnects : Nat,
                  retries : Nat, timeouts : Nat, protocol_errors : Nat]

OperationResults == [error : ClientError, remote_status : StatusWord,
                     request_id : RequestId, attempts : Nat, data : Seq(Byte)]

Calls == [request : Frame, expected_length : Nat, deadline : Int, attempt : Nat]

\* An OperationResult whose remote_status and data keep their defaults.
Failure(error, request_id, attempts) ==
    [error |-> error, remote_status |-> "ok", request_id |-> request_id,
     attempts |-> attempts, data |-> <<>>]

RequestFrame(opcode, request_id, address, payload) ==
    [version |-> protocol_version, opcode |-> opcode, flags |-> 0,
     request_id |-> request_id, address |-> address, status |-> "ok",
     payload |-> payload]

\* Client::Client(): the option is raised to at least one attempt.
EffectiveAttempts(option) == IF option < 1 THEN 1 ELSE option

ClientInit ==
    /\ \E option \in ReadAttempts :
          maximum_read_attempts = EffectiveAttempts(option)
    /\ next_request_id = 1
    /\ metrics = [operations |-> 0, transport_attempts |-> 0, reconnects |-> 0,
                  retries |-> 0, timeouts |-> 0, protocol_errors |-> 0]
    /\ pc = "idle"
    /\ call = [request |-> RequestFrame("read_request", 0, 0, <<>>),
               expected_length |-> 0, deadline |-> 0, attempt |-> 0]
    /\ result = Failure("none", 0, 0)

Reading == call.request.opcode = "read_request"

Return(r) == pc' = "idle" /\ result' = r

-----------------------------------------------------------------------------
\* Mutant: zero is given out after the wrap.
IdAfter_ZeroNotSkipped(id) == (id + 1) % IdSpace

\* allocate_request_id(): ++ on a std::uint32_t, and zero is skipped.
IdAfter(id) == IF (id + 1) % IdSpace = 0 THEN 1 ELSE (id + 1) % IdSpace

\* encode() the request once; every attempt sends the same bytes.
Submit(request, expected_length, deadline) ==
    /\ call' = [request |-> request, expected_length |-> expected_length,
                deadline |-> deadline, attempt |-> 1]
    /\ IF EncodeError(request) # "none"
       THEN Return(Failure("encoding_failed", request.request_id, 0))
       ELSE pc' = "attempt" /\ UNCHANGED result

\* What read() and write() do before they look at their arguments.
BeginCall ==
    /\ pc = "idle"
    /\ metrics' = [metrics EXCEPT !.operations = @ + 1]
    /\ next_request_id' = IdAfter(next_request_id)

InvalidArguments(length, deadline) ==
    length = 0 \/ length > maximum_payload_size \/ deadline <= 0

RejectArguments ==
    /\ Return(Failure("invalid_argument", next_request_id, 0))
    /\ UNCHANGED call

\* read()
Read(address, length, deadline) ==
    /\ BeginCall
    /\ IF InvalidArguments(length, deadline)
       THEN RejectArguments
       ELSE Submit(RequestFrame("read_request", next_request_id, address,
                                LengthPayload(length)), length, deadline)
    /\ UNCHANGED <<maximum_read_attempts, connected, reply>>

\* write()
Write(address, data, deadline) ==
    /\ BeginCall
    /\ IF InvalidArguments(Len(data), deadline)
       THEN RejectArguments
       ELSE Submit(RequestFrame("write_request", next_request_id, address, data),
                   0, deadline)
    /\ UNCHANGED <<maximum_read_attempts, connected, reply>>

-----------------------------------------------------------------------------
(***************************************************************************)
(* ensure_connected() and the step into exchange().  connects is what      *)
(* transport_.connect() answers when it is called.                         *)
(***************************************************************************)
Attempt(connects) ==
    /\ pc = "attempt"
    /\ IF Reading /\ call.attempt > maximum_read_attempts
       THEN \* the loop of execute_read() ends without a return in its body
            /\ Return(Failure("disconnected", call.request.request_id,
                              maximum_read_attempts))
            /\ UNCHANGED <<metrics, connected>>
       ELSE IF connected
       THEN /\ metrics' = [metrics EXCEPT !.transport_attempts = @ + 1]
            /\ pc' = "exchange"
            /\ UNCHANGED <<connected, result>>
       ELSE IF connects
       THEN /\ connected' = TRUE
            /\ metrics' = [metrics EXCEPT !.reconnects = @ + 1,
                                          !.transport_attempts = @ + 1]
            /\ pc' = "exchange"
            /\ UNCHANGED result
       ELSE /\ metrics' = [metrics EXCEPT !.reconnects = @ + 1]
            /\ Return(Failure("connect_failed", call.request.request_id,
                              call.attempt))
            /\ UNCHANGED connected
    /\ UNCHANGED <<maximum_read_attempts, next_request_id, call, reply>>

-----------------------------------------------------------------------------
(***************************************************************************)
(* validate_response(): the OperationResult for the bytes of a reply.      *)
(***************************************************************************)
ExpectedOpcode == IF Reading THEN "data_response" ELSE "write_acknowledgement"

\* Mutant: only the address correlates an answer with its request.
Correlates_AddressOnly(frame) == frame.address = call.request.address

Correlates(frame) ==
    /\ frame.request_id = call.request.request_id
    /\ frame.address = call.request.address

Validated(w) ==
    LET frame == DecodedFrame(w)
        Answered(error, data) ==
            [error |-> error, remote_status |-> frame.status,
             request_id |-> call.request.request_id,
             attempts |-> call.attempt, data |-> data]
    IN IF ~Decodes(w)
       THEN Failure("malformed_response", call.request.request_id, call.attempt)
       ELSE IF ~Correlates(frame)
       THEN Answered("correlation_mismatch", <<>>)
       ELSE IF frame.opcode = "error_response"
       THEN Answered("remote_error", frame.payload)
       ELSE IF \/ frame.opcode # ExpectedOpcode
               \/ Len(frame.payload) # call.expected_length
       THEN Answered("unexpected_response", <<>>)
       ELSE Answered("none", frame.payload)

ProtocolError == {"malformed_response", "correlation_mismatch", "unexpected_response"}

\* Mutant: a read passes an answer to another request over and calls exchange() again.
AcceptReply_PassesOver ==
    /\ pc = "reply"
    /\ reply.error = "none"
    /\ LET r == Validated(reply.bytes)
       IN IF Reading /\ r.error = "correlation_mismatch"
          THEN pc' = "exchange" /\ UNCHANGED <<metrics, result>>
          ELSE /\ Return(r)
               /\ metrics' = IF r.error \in ProtocolError
                             THEN [metrics EXCEPT !.protocol_errors = @ + 1]
                             ELSE metrics
    /\ UNCHANGED <<maximum_read_attempts, next_request_id, call, connected, reply>>

\* exchange() returned bytes.
AcceptReply ==
    /\ pc = "reply"
    /\ reply.error = "none"
    /\ LET r == Validated(reply.bytes)
       IN /\ Return(r)
          /\ metrics' = IF r.error \in ProtocolError
                        THEN [metrics EXCEPT !.protocol_errors = @ + 1]
                        ELSE metrics
    /\ UNCHANGED <<maximum_read_attempts, next_request_id, call, connected, reply>>

-----------------------------------------------------------------------------
\* Mutant: a timeout is not counted.
MetricsAfterFailure_TimeoutsIgnored == metrics

MetricsAfterFailure ==
    IF reply.error = "timeout" THEN [metrics EXCEPT !.timeouts = @ + 1] ELSE metrics

FailureOfReply ==
    Failure(IF reply.error = "timeout" THEN "timeout" ELSE "disconnected",
            call.request.request_id, call.attempt)

\* Mutant: one retry too many.
CanRetry_OffByOne ==
    /\ Reading
    /\ call.attempt <= maximum_read_attempts
    /\ reply.error \in {"timeout", "disconnected", "not_connected"}

\* Mutant: writes are retried as reads are.
CanRetry_Writes ==
    /\ call.attempt < maximum_read_attempts
    /\ reply.error \in {"timeout", "disconnected", "not_connected"}

CanRetry ==
    /\ Reading
    /\ call.attempt < maximum_read_attempts
    /\ reply.error \in {"timeout", "disconnected", "not_connected"}

\* Mutant: the retry takes a request ID of its own.
Retry_NewId ==
    /\ pc = "reply"
    /\ reply.error # "none"
    /\ CanRetry
    /\ connected' = FALSE
    /\ metrics' = [MetricsAfterFailure EXCEPT !.retries = @ + 1]
    /\ call' = [call EXCEPT !.attempt = @ + 1,
                            !.request.request_id = next_request_id]
    /\ next_request_id' = IdAfter(next_request_id)
    /\ pc' = "attempt"
    /\ UNCHANGED <<maximum_read_attempts, result, reply>>

\* Mutant: the exchange is repeated in a loop of its own, which counts no attempt.
Retry_NotCounted ==
    /\ pc = "reply"
    /\ reply.error # "none"
    /\ CanRetry
    /\ pc' = "exchange"
    /\ UNCHANGED <<maximum_read_attempts, next_request_id, metrics, call, result,
                   connected, reply>>

\* exchange() failed: close(), and try a read again while attempts are left.
Retry ==
    /\ pc = "reply"
    /\ reply.error # "none"
    /\ CanRetry
    /\ connected' = FALSE
    /\ metrics' = [MetricsAfterFailure EXCEPT !.retries = @ + 1]
    /\ call' = [call EXCEPT !.attempt = @ + 1]
    /\ pc' = "attempt"
    /\ UNCHANGED <<maximum_read_attempts, next_request_id, result, reply>>

\* exchange() failed: close(), and report it.
GiveUp ==
    /\ pc = "reply"
    /\ reply.error # "none"
    /\ ~CanRetry
    /\ connected' = FALSE
    /\ metrics' = MetricsAfterFailure
    /\ Return(FailureOfReply)
    /\ UNCHANGED <<maximum_read_attempts, next_request_id, call, reply>>

-----------------------------------------------------------------------------
ClientTypeOK ==
    /\ maximum_read_attempts \in Nat \ {0}
    /\ next_request_id \in RequestId \ {0}
    /\ metrics \in ClientMetrics
    /\ pc \in {"idle", "attempt", "exchange", "reply"}
    /\ call \in Calls
    /\ result \in OperationResults
=============================================================================
