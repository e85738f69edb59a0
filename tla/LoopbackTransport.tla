-------------------------- MODULE LoopbackTransport --------------------------
(***************************************************************************)
(* The in-process transport with a scripted fault queue and a packet       *)
(* trace: src/transport.cpp.                                               *)
(***************************************************************************)
EXTENDS Transport, MemoryServer

VARIABLES
    faults,         \* faults_: the scripted faults not yet consumed, oldest first
    trace,          \* trace_
    next_sequence   \* next_sequence_

loopbackVars == <<connected, reply, faults, trace, next_sequence>>

TransportFault == {"timeout", "disconnect", "truncate_response",
                   "corrupt_response", "wrong_request_id"}

LoopbackInit ==
    /\ TransportInit
    /\ faults = <<>>
    /\ trace = <<>>
    /\ next_sequence = 1

\* The two record() calls of an exchange: the request, then what came back.
RecordExchange(request, outcome, response) ==
    /\ trace' = trace \o
         <<[sequence |-> next_sequence, direction |-> "client_to_server",
            outcome |-> "sent", bytes |-> request],
           [sequence |-> next_sequence + 1, direction |-> "server_to_client",
            outcome |-> outcome, bytes |-> response]>>
    /\ next_sequence' = next_sequence + 2

\* The fault that meets the next exchange, and the script that is left.
NextFault == IF faults = <<>> THEN "no_fault" ELSE Head(faults)

\* Mutant: the fault is met but stays in the script.
RemainingFaults_Kept == faults

RemainingFaults == IF faults = <<>> THEN faults ELSE Tail(faults)

\* Mutant: the ID saturates instead of wrapping.
WithWrongRequestId_Saturating(w) ==
    LET frame == [DecodedFrame(w) EXCEPT
                    !.request_id = IF @ = IdSpace - 1 THEN @ ELSE @ + 1]
    IN IF Decodes(w) /\ EncodeError(frame) = "none" THEN EncodedBytes(frame) ELSE w

\* ++request_id on a std::uint32_t, then encode() again.
WithWrongRequestId(w) ==
    LET frame == [DecodedFrame(w) EXCEPT !.request_id = (@ + 1) % IdSpace]
    IN IF Decodes(w) /\ EncodeError(frame) = "none" THEN EncodedBytes(frame) ELSE w

\* Mutant: pop_back() on an empty vector.
Distorted_PopsEmpty(fault, response) ==
    CASE fault = "truncate_response" -> DropLastByte(response)
      [] fault = "corrupt_response" /\ response.size # 0 -> FlipChecksumBit(response)
      [] fault = "wrong_request_id" -> WithWrongRequestId(response)
      [] OTHER -> response

\* What a response fault makes of the server's answer.
Distorted(fault, response) ==
    CASE fault = "truncate_response" /\ response.size # 0 -> DropLastByte(response)
      [] fault = "corrupt_response" /\ response.size # 0 -> FlipChecksumBit(response)
      [] fault = "wrong_request_id" -> WithWrongRequestId(response)
      [] OTHER -> response

-----------------------------------------------------------------------------
(***************************************************************************)
(* exchange(request, deadline), one action per way it returns.             *)
(***************************************************************************)
ExchangeNotConnected(request, deadline) ==
    /\ ~connected
    /\ reply' = TransportReply("not_connected", EmptyWire)
    /\ UNCHANGED <<connected, faults, trace, next_sequence, policy, memory>>

\* Mutant: the script is advanced before the deadline is looked at.
ExchangeDeadlineExpired_TakesFault(request, deadline) ==
    /\ connected
    /\ deadline <= 0
    /\ faults' = RemainingFaults
    /\ RecordExchange(request, "deadline_expired", EmptyWire)
    /\ reply' = TransportReply("timeout", EmptyWire)
    /\ UNCHANGED <<connected, policy, memory>>

\* The fault script is not touched: the deadline is looked at first.
ExchangeDeadlineExpired(request, deadline) ==
    /\ connected
    /\ deadline <= 0
    /\ RecordExchange(request, "deadline_expired", EmptyWire)
    /\ reply' = TransportReply("timeout", EmptyWire)
    /\ UNCHANGED <<connected, faults, policy, memory>>

\* Mutant: the server has handled the request when the timeout strikes.
ExchangeTimesOut_AfterHandling(request, deadline) ==
    /\ connected
    /\ deadline > 0
    /\ NextFault = "timeout"
    /\ faults' = RemainingFaults
    /\ Handle(request)
    /\ RecordExchange(request, "timeout", EmptyWire)
    /\ reply' = TransportReply("timeout", EmptyWire)
    /\ UNCHANGED connected

\* The request does not reach the server.
ExchangeTimesOut(request, deadline) ==
    /\ connected
    /\ deadline > 0
    /\ NextFault = "timeout"
    /\ faults' = RemainingFaults
    /\ RecordExchange(request, "timeout", EmptyWire)
    /\ reply' = TransportReply("timeout", EmptyWire)
    /\ UNCHANGED <<connected, policy, memory>>

ExchangeDisconnects(request, deadline) ==
    /\ connected
    /\ deadline > 0
    /\ NextFault = "disconnect"
    /\ faults' = RemainingFaults
    /\ connected' = FALSE
    /\ RecordExchange(request, "disconnected", EmptyWire)
    /\ reply' = TransportReply("disconnected", EmptyWire)
    /\ UNCHANGED <<policy, memory>>

\* The server handles the request; a response fault acts on its answer.
ExchangeIsServed(request, deadline) ==
    /\ connected
    /\ deadline > 0
    /\ NextFault \notin {"timeout", "disconnect"}
    /\ faults' = RemainingFaults
    /\ Handle(request)
    /\ LET handled == Handled(request)
           response == Distorted(NextFault, handled.response)
       IN /\ RecordExchange(request,
                IF handled.event.request_decoded THEN handled.event.detail
                ELSE "rejected", response)
          /\ reply' = TransportReply("none", response)
    /\ UNCHANGED connected

Exchange(request, deadline) ==
    \/ ExchangeNotConnected(request, deadline)
    \/ ExchangeDeadlineExpired(request, deadline)
    \/ ExchangeTimesOut(request, deadline)
    \/ ExchangeDisconnects(request, deadline)
    \/ ExchangeIsServed(request, deadline)

-----------------------------------------------------------------------------
\* connect() always succeeds; close() may be called at any time.
Connect ==
    /\ connected' = TRUE
    /\ UNCHANGED <<reply, faults, trace, next_sequence, policy, memory>>

Close ==
    /\ connected' = FALSE
    /\ UNCHANGED <<reply, faults, trace, next_sequence, policy, memory>>

\* push_fault()
PushFault(fault) ==
    /\ faults' = Append(faults, fault)
    /\ UNCHANGED <<connected, reply, trace, next_sequence, policy, memory>>

\* Mutant: the numbering starts again with an empty trace.
ClearTrace_Renumbers ==
    /\ trace' = <<>>
    /\ next_sequence' = 1
    /\ UNCHANGED <<connected, reply, faults, policy, memory>>

\* clear_trace(): the sequence numbers go on.
ClearTrace ==
    /\ trace' = <<>>
    /\ UNCHANGED <<connected, reply, faults, next_sequence, policy, memory>>

-----------------------------------------------------------------------------
Outcome == {"sent", "deadline_expired", "timeout", "disconnected", "rejected",
            "response_encoding_failed"} \cup VerdictDetail

TraceRecord == [sequence : Nat, direction : {"client_to_server", "server_to_client"},
                outcome : Outcome, bytes : Wire]

LoopbackTypeOK ==
    /\ TransportTypeOK
    /\ faults \in Seq(TransportFault)
    /\ trace \in Seq(TraceRecord)
    /\ next_sequence \in Nat
    /\ policy \in ServerPolicy
    /\ memory \in Memory
=============================================================================
