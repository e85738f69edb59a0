--------------------------- MODULE RemoteWorkbench ---------------------------
(***************************************************************************)
(* The client of src/client.cpp over an unreliable network: the setting    *)
(* its retry policy ("retry reads, never writes") and its correlation      *)
(* checks exist for.                                                       *)
(***************************************************************************)
EXTENDS Client, RemoteTransport

CONSTANTS
    Reads,           \* [address, length]: the reads the user may ask for
    Writes,          \* [address, data]: the writes the user may ask for
    MaxOperations    \* bound on the number of calls

ASSUME RemoteWorkbenchConstants ==
    /\ Reads \subseteq [address : Address, length : 1 .. maximum_payload_size]
    /\ Writes \subseteq [address : Address, data : Seq(Byte)]
    /\ \A w \in Writes : Len(w.data) \in 1 .. maximum_payload_size
    \* Request IDs are not used again while an old answer may still arrive:
    \* with 2^32 of them, an assumption about how long the network remembers.
    /\ MaxOperations \in Nat /\ MaxOperations < IdSpace

VARIABLES
    seen,           \* the memories there were during the running or last call (history)
    applications    \* how often the request with an ID was applied (history)

historyVars == <<seen, applications>>

vars == <<policy, memory, connected, reply, awaiting, requests, answers,
          maximum_read_attempts, next_request_id, metrics, pc, call, result,
          seen, applications>>

Init ==
    /\ ServerInit
    /\ RemoteInit
    /\ ClientInit
    /\ seen = {memory}
    /\ applications = [id \in RequestId |-> 0]

-----------------------------------------------------------------------------
UserCalls ==
    /\ metrics.operations < MaxOperations
    /\ \/ \E r \in Reads : Read(r.address, r.length, 1)
       \/ \E w \in Writes : Write(w.address, w.data, 1)
    /\ seen' = {memory}
    /\ UNCHANGED <<serverVars, networkVars, applications>>

ClientAttempts ==
    /\ \E connects \in BOOLEAN : Attempt(connects)
    /\ UNCHANGED <<serverVars, networkVars, historyVars>>

ClientConcludes ==
    /\ AcceptReply \/ Retry \/ GiveUp
    /\ UNCHANGED <<serverVars, networkVars, historyVars>>

ExchangeStarts ==
    /\ pc = "exchange"
    /\ \/ RemoteSends(EncodedBytes(call.request)) /\ UNCHANGED pc
       \/ RemoteRefuses /\ pc' = "reply"
    /\ UNCHANGED <<serverVars, maximum_read_attempts, next_request_id, metrics,
                   call, result, historyVars>>

ExchangeReturns ==
    /\ pc = "exchange"
    /\ RemoteDelivers \/ RemoteFails
    /\ pc' = "reply"
    /\ UNCHANGED <<serverVars, maximum_read_attempts, next_request_id, metrics,
                   call, result, historyVars>>

ServerServes ==
    /\ \E request \in requests :
          /\ RemoteServes(request)
          /\ applications' = [applications EXCEPT
                ![request.request_id] = @ + (IF Applies(request) THEN 1 ELSE 0)]
    /\ seen' = IF pc = "idle" THEN seen ELSE seen \cup {memory'}
    /\ UNCHANGED clientVars

ConnectionDrops ==
    /\ RemoteDrops
    /\ UNCHANGED <<serverVars, clientVars, historyVars>>

Next ==
    \/ UserCalls
    \/ ClientAttempts
    \/ ExchangeStarts
    \/ ExchangeReturns
    \/ ClientConcludes
    \/ ServerServes
    \/ ConnectionDrops

\* The client's thread is never suspended for good, and exchange() honours its
\* deadline.  Nothing is assumed of the user, the network or the server.
Fairness ==
    /\ WF_vars(ClientAttempts)
    /\ WF_vars(ClientConcludes)
    /\ WF_vars(ExchangeStarts)
    /\ WF_vars(ExchangeReturns)

Spec == Init /\ [][Next]_vars /\ Fairness

-----------------------------------------------------------------------------
\* Type invariant.
TypeOK ==
    /\ ClientTypeOK
    /\ RemoteTypeOK
    /\ seen \subseteq Memory
    /\ applications \in [RequestId -> Nat]

Returned(opcode, error) ==
    /\ pc = "idle"
    /\ metrics.operations > 0
    /\ call.request.opcode = opcode
    /\ result.error = error

\* Safety: a read that succeeds returns the bytes as they stood together in
\* memory at some moment between call and return, however many old answers,
\* answers to its own earlier attempts and late writes are under way
\* (validate_response: request ID, address, opcode and length).
SuccessfulReadsAreFresh ==
    Returned("read_request", "none") =>
        \E m \in seen :
            result.data = ReadBytes(m, call.request.address, call.expected_length)

\* Safety: no write is applied twice: the client sends each one once, whatever
\* becomes of the answer (execute_write).
WritesApplyAtMostOnce ==
    \A id \in RequestId : applications[id] <= 1

\* Is the running call a write that has not been sent?
WriteUnsent ==
    /\ call.request.opcode = "write_request"
    /\ pc = "attempt" \/ (pc = "exchange" /\ ~awaiting)

\* Safety, the inductive form of WritesApplyAtMostOnce: a request ID stands for
\* one request only.  IDs above the number of calls are unused; two requests
\* under way with one ID are the same bytes; and a write that is still to be
\* sent, or still under way, has not been applied (allocate_request_id,
\* execute_write, and execute_read sending the same bytes again).
IdsStandForOneRequest ==
    /\ metrics.operations <= MaxOperations
    /\ metrics.operations + 1 < IdSpace => next_request_id = metrics.operations + 1
    /\ awaiting => pc = "exchange"
    /\ pc # "idle" => call.request.request_id \in 1 .. metrics.operations
    /\ \A id \in RequestId : id > metrics.operations => applications[id] = 0
    /\ \A r \in requests :
          /\ r.request_id <= metrics.operations
          /\ pc # "idle" /\ r.request_id = call.request.request_id
                => r = EncodedBytes(call.request)
          /\ \A s \in requests : r.request_id = s.request_id => r = s
          /\ r.opcode = "write_request" => applications[r.request_id] = 0
    /\ WriteUnsent =>
          /\ applications[call.request.request_id] = 0
          /\ \A r \in requests : r.request_id # call.request.request_id

\* What an answer under way with the request ID of the running call proves.
AnswerIsTrue(w) ==
    IF Reading
    THEN w.opcode = "data_response" =>
            \E m \in seen :
                w.payload = ReadBytes(m, call.request.address, call.expected_length)
    ELSE /\ ~WriteUnsent
         /\ \A r \in requests : r.request_id # w.request_id
         /\ w.opcode = "write_acknowledgement" => applications[w.request_id] = 1
         /\ w.opcode = "error_response" => applications[w.request_id] = 0

\* Safety, the inductive form of the two properties about results: whatever
\* answers the network holds, those with the ID of the running call tell the
\* truth about it: a data response carries bytes that stood in memory during
\* the call, an answer to a write its final fate.  What exchange() returns and
\* decode() accepts is such an answer (handle, allocate_request_id,
\* execute_read, execute_write).
AnswersAreTrue ==
    /\ call.request.opcode \in RequestOpcode
    /\ pc # "idle" =>
          /\ memory \in seen
          /\ call.expected_length =
                IF Reading THEN LengthField(call.request.payload) ELSE 0
    /\ pc = "reply" /\ reply.error = "none" /\ Decodes(reply.bytes)
          => reply.bytes \in answers
    /\ \A w \in answers :
          /\ w.request_id <= metrics.operations
          /\ pc # "idle" /\ w.request_id = call.request.request_id => AnswerIsTrue(w)

\* Safety: a write that succeeds has been applied exactly once before the call
\* returns; a write the server is reported to have refused, or that was never
\* sent, is not applied, then or later (validate_response, execute_write).
WriteReportsAreTrue ==
    /\ Returned("write_request", "none") => applications[result.request_id] = 1
    /\ \/ Returned("write_request", "remote_error")
       \/ Returned("write_request", "connect_failed")
       => /\ applications[result.request_id] = 0
          /\ \A request \in requests : request.request_id # result.request_id

\* Liveness: every call returns, even if no request is ever answered and every
\* connect() fails (execute_read: the attempts are bounded).
EveryCallReturns == pc # "idle" ~> pc = "idle"
=============================================================================
