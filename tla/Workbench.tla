------------------------------ MODULE Workbench ------------------------------
(***************************************************************************)
(* The assembled laboratory: one client over one loopback transport over   *)
(* one memory server, as the CLI demo and the client tests put it          *)
(* together.  Between two calls the user may script faults and clear the   *)
(* packet trace.                                                           *)
(***************************************************************************)
EXTENDS Client, LoopbackTransport, FiniteSets

CONSTANTS
    Reads,           \* the arguments the user may give to Client::read
    Writes,          \* the arguments the user may give to Client::write
    MaxOperations,   \* bound on the number of calls
    MaxFaults,       \* bound on the length of the fault script
    MaxTrace         \* a user with so long a trace clears it before the next call

ReadArguments == [address : Address, length : Nat, deadline : Int]
WriteArguments == [address : Address, data : Seq(Byte), deadline : Int]

ASSUME WorkbenchConstants ==
    /\ Reads \subseteq ReadArguments
    /\ Writes \subseteq WriteArguments
    /\ MaxOperations \in Nat /\ MaxFaults \in Nat /\ MaxTrace \in Nat

VARIABLES
    issued,    \* the arguments of the running or last call (history)
    before     \* the state in which that call was made (history)

vars == <<policy, memory, connected, reply, faults, trace, next_sequence,
          maximum_read_attempts, next_request_id, metrics, pc, call, result,
          issued, before>>

Snapshot == [memory |-> memory, faults |-> faults, connected |-> connected,
             metrics |-> metrics, next_sequence |-> next_sequence]

Issued(kind, address, length, data, deadline) ==
    [kind |-> kind, address |-> address, length |-> length, data |-> data,
     deadline |-> deadline]

Init ==
    /\ ServerInit
    /\ LoopbackInit
    /\ ClientInit
    /\ issued = Issued("nothing", 0, 0, <<>>, 0)
    /\ before = Snapshot

-----------------------------------------------------------------------------
UserReads ==
    /\ metrics.operations < MaxOperations /\ Len(trace) < MaxTrace
    /\ \E r \in Reads :
          /\ Read(r.address, r.length, r.deadline)
          /\ issued' = Issued("read", r.address, r.length, <<>>, r.deadline)
    /\ before' = Snapshot
    /\ UNCHANGED <<policy, memory, faults, trace, next_sequence>>

UserWrites ==
    /\ metrics.operations < MaxOperations /\ Len(trace) < MaxTrace
    /\ \E w \in Writes :
          /\ Write(w.address, w.data, w.deadline)
          /\ issued' = Issued("write", w.address, Len(w.data), w.data, w.deadline)
    /\ before' = Snapshot
    /\ UNCHANGED <<policy, memory, faults, trace, next_sequence>>

\* LoopbackTransport::connect() always succeeds.
ClientAttempts ==
    /\ Attempt(TRUE)
    /\ UNCHANGED <<policy, memory, faults, trace, next_sequence, issued, before>>

\* The client is inside exchange() until the transport returns.
TransportExchanges ==
    /\ pc = "exchange"
    /\ Exchange(EncodedBytes(call.request), call.deadline)
    /\ pc' = "reply"
    /\ UNCHANGED <<maximum_read_attempts, next_request_id, metrics, call, result,
                   issued, before>>

ClientConcludes ==
    /\ AcceptReply \/ Retry \/ GiveUp
    /\ UNCHANGED <<policy, memory, faults, trace, next_sequence, issued, before>>

\* The program has one thread: the user acts only between calls.
UserScripts ==
    /\ pc = "idle"
    /\ metrics.operations < MaxOperations
    /\ Len(faults) < MaxFaults
    /\ \E fault \in TransportFault : PushFault(fault)
    /\ UNCHANGED <<clientVars, issued, before>>

UserClearsTrace ==
    /\ pc = "idle"
    /\ ClearTrace
    /\ UNCHANGED <<clientVars, issued, before>>

Next ==
    \/ UserReads
    \/ UserWrites
    \/ ClientAttempts
    \/ TransportExchanges
    \/ ClientConcludes
    \/ UserScripts
    \/ UserClearsTrace

Spec == Init /\ [][Next]_vars

-----------------------------------------------------------------------------
Snapshots == [memory : Memory, faults : Seq(TransportFault), connected : BOOLEAN,
              metrics : ClientMetrics, next_sequence : Nat]

Issues == [kind : {"nothing", "read", "write"}, address : Address, length : Nat,
           data : Seq(Byte), deadline : Int]

\* Type invariant.
TypeOK ==
    /\ ClientTypeOK
    /\ LoopbackTypeOK
    /\ issued \in Issues
    /\ before \in Snapshots

\* No call is running and at least one has returned.
Returned == pc = "idle" /\ issued.kind # "nothing"

ArgumentsAreValid ==
    issued.length \in 1 .. maximum_payload_size /\ issued.deadline > 0

\* How many exchanges the script makes fail in a row, from its start.
LeadingFailures(script) ==
    CHOOSE n \in 0 .. Len(script) :
        /\ \A i \in 1 .. n : script[i] \in {"timeout", "disconnect"}
        /\ n < Len(script) => script[n + 1] \notin {"timeout", "disconnect"}

AttemptsAllowed == IF issued.kind = "read" THEN maximum_read_attempts ELSE 1

\* Does the call issued end without the server having answered?
ScriptDefeatsCall == LeadingFailures(before.faults) >= AttemptsAllowed

AttemptsNeeded ==
    IF ScriptDefeatsCall THEN AttemptsAllowed ELSE LeadingFailures(before.faults) + 1

\* The fault that meets the n-th exchange of the call.
FaultMet(n) == IF n <= Len(before.faults) THEN before.faults[n] ELSE "no_fault"

\* The error a call must report, told from its arguments and the script alone.
ErrorDue ==
    IF ~ArgumentsAreValid THEN {"invalid_argument"}
    ELSE CASE FaultMet(AttemptsNeeded) = "timeout" -> {"timeout"}
           [] FaultMet(AttemptsNeeded) = "disconnect" -> {"disconnected"}
           [] FaultMet(AttemptsNeeded) \in {"truncate_response", "corrupt_response"}
                -> {"malformed_response"}
           [] FaultMet(AttemptsNeeded) = "wrong_request_id"
                -> {"correlation_mismatch"}
           [] OTHER -> {"none", "remote_error"}

\* Safety: a call ends as the fault script at its start says: a read survives
\* fewer failures than it has attempts, a write none; every attempt uses up one
\* fault; and the connection is open afterwards just if the last exchange was
\* answered (execute_read, execute_write, exchange, ensure_connected).
CallFollowsFaultScript ==
    Returned =>
        /\ result.error \in ErrorDue
        /\ result.attempts = IF ArgumentsAreValid THEN AttemptsNeeded ELSE 0
        /\ LET left == SubSeq(before.faults, result.attempts + 1, Len(before.faults))
           IN /\ Len(faults) >= Len(left)
              /\ SubSeq(faults, 1, Len(left)) = left
        /\ ArgumentsAreValid => (connected <=> ~ScriptDefeatsCall)
        /\ ~ArgumentsAreValid => (connected <=> before.connected)

-----------------------------------------------------------------------------
\* The bytes a write was to store, in place; and whether the server may store them.
Installed == Written(before.memory, issued.address, issued.data)

Permitted ==
    issued.address .. issued.address + issued.length - 1 \subseteq Writable

\* Safety: what the user learns is what happened to the memory.  A read leaves
\* it alone and returns its bytes; a write that reports success, or whose
\* answer was spoiled on the way back, has stored every byte if the server may
\* store them at all, and a write that reports anything else has stored none
\* (the ambiguity of a write whose answer is lost is never partial).
MemoryMatchesResult ==
    Returned =>
        CASE issued.kind = "read" ->
                /\ memory = before.memory
                /\ result.error = "none" =>
                      result.data = ReadBytes(memory, issued.address, issued.length)
          [] issued.kind = "write" /\ result.error = "none" ->
                Permitted /\ memory = Installed
          [] issued.kind = "write" /\ result.error \in ProtocolError ->
                memory = IF Permitted THEN Installed ELSE before.memory
          [] issued.kind = "write" /\ result.error = "remote_error" ->
                ~Permitted /\ memory = before.memory
          [] OTHER -> memory = before.memory

\* Safety: the counters a call leaves behind follow from its result and the
\* script: one transport attempt and one pair of trace records per attempt, one
\* retry and one reconnect per attempt after the first, one timeout per timeout
\* met (also those a retry hides), one protocol error per spoiled answer.
MetricsExplainCall ==
    LET Grown(counter) == metrics[counter] - before.metrics[counter]
        retries == IF result.attempts = 0 THEN 0 ELSE result.attempts - 1
        met == {i \in 1 .. result.attempts : FaultMet(i) = "timeout"}
    IN Returned =>
        /\ Grown("operations") = 1
        /\ Grown("transport_attempts") = result.attempts
        /\ next_sequence - before.next_sequence = 2 * result.attempts
        /\ Grown("retries") = retries
        /\ Grown("reconnects") =
              retries + (IF result.attempts > 0 /\ ~before.connected THEN 1 ELSE 0)
        /\ Grown("timeouts") = Cardinality(met)
        /\ Grown("protocol_errors") = IF result.error \in ProtocolError THEN 1 ELSE 0

\* Safety: every request record of a call, the retries of a read included,
\* holds the same bytes, and they decode to what the user asked for under the
\* nonzero request ID the user is told (read, write, allocate_request_id).
RetriesRepeatTheRequest ==
    \A i \in DOMAIN trace :
        /\ trace[i].sequence >= before.next_sequence
        /\ trace[i].direction = "client_to_server"
        => LET sent == trace[i].bytes
           IN /\ Decodes(sent)
              /\ sent = EncodedBytes(call.request)
              /\ sent.address = issued.address
              /\ sent.request_id # 0
              /\ Returned => sent.request_id = result.request_id
              /\ issued.kind = "read" =>
                    /\ sent.opcode = "read_request"
                    /\ LengthField(sent.payload) = issued.length
              /\ issued.kind = "write" =>
                    /\ sent.opcode = "write_request"
                    /\ sent.payload = issued.data
=============================================================================
