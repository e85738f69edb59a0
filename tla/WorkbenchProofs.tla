--------------------------- MODULE WorkbenchProofs ---------------------------
(***************************************************************************)
(* The assembled laboratory, for every client configuration, every policy  *)
(* and every sequence of calls and scripted faults.                        *)
(*                                                                         *)
(* First types and protected memory.  Then the four properties of a call   *)
(* that has returned: they follow from what holds at each control state of *)
(* a call under way (CallInvariant), which is proved one named part at a   *)
(* time from the effect of each action.                                    *)
(***************************************************************************)
EXTENDS Workbench, ComponentProofs, WellFoundedInduction, FiniteSetTheorems,
        SequenceTheorems

(***************************************************************************)
(* The whole laboratory.  The invariant: everything has its type and every *)
(* protected byte its constructed value.                                   *)
(***************************************************************************)
WorkbenchInvariant == TypeOK /\ ProtectedBytesKeepTheirValue

\* The state a call is made in, as it is remembered.
LEMMA SnapshotType == TypeOK => Snapshot \in Snapshots
BY DEF TypeOK, ClientTypeOK, LoopbackTypeOK, TransportTypeOK, Snapshot, Snapshots

\* It holds when the objects have been constructed.
LEMMA InitWorkbenchInvariant == Init => WorkbenchInvariant
<1> SUFFICES ASSUME Init PROVE WorkbenchInvariant
    OBVIOUS
<1>1. policy \in ServerPolicy /\ memory \in Memory
    BY ServerConstants, InitialMemoryType DEF Init, ServerInit
<1>2. LoopbackTypeOK
    <2>1. /\ connected = FALSE /\ reply = TransportReply("none", EmptyWire)
          /\ faults = <<>> /\ trace = <<>> /\ next_sequence = 1
        BY DEF Init, LoopbackInit, TransportInit
    <2>2. reply \in TransportReplies
        BY <2>1, EmptyWireType DEF TransportReply, TransportReplies, TransportError
    <2>3. <<>> \in Seq(TransportFault) /\ <<>> \in Seq(TraceRecord)
        OBVIOUS
    <2>4. faults \in Seq(TransportFault) /\ trace \in Seq(TraceRecord)
        BY <2>1, <2>3
    <2> QED BY <1>1, <2>1, <2>2, <2>4 DEF LoopbackTypeOK, TransportTypeOK
<1>3. ClientTypeOK
    BY ClientInitType DEF Init
<1>4. issued \in Issues
    BY FrameConstants DEF Init, Issued, Issues, Address
<1>5. before \in Snapshots
    BY <1>2, <1>3 DEF Init, Snapshot, Snapshots, ClientTypeOK, LoopbackTypeOK,
                      TransportTypeOK
<1>6. ProtectedBytesKeepTheirValue
    BY DEF Init, ServerInit, ProtectedBytesKeepTheirValue
<1> QED BY <1>2, <1>3, <1>4, <1>5, <1>6 DEF WorkbenchInvariant, TypeOK

\* Every step of the user, the client and the transport preserves it.
LEMMA NextWorkbenchInvariant == WorkbenchInvariant /\ [Next]_vars => WorkbenchInvariant'
<1> SUFFICES ASSUME WorkbenchInvariant, [Next]_vars PROVE WorkbenchInvariant'
    OBVIOUS
<1>1. /\ ClientTypeOK /\ LoopbackTypeOK /\ TransportTypeOK
      /\ issued \in Issues /\ before \in Snapshots
      /\ ProtectedBytesKeepTheirValue /\ Snapshot \in Snapshots
    BY SnapshotType DEF WorkbenchInvariant, TypeOK, LoopbackTypeOK
<1>2. ASSUME ClientTypeOK', TransportTypeOK',
             UNCHANGED <<policy, memory, faults, trace, next_sequence>>,
             issued' \in Issues, before' \in Snapshots
      PROVE  WorkbenchInvariant'
    BY <1>1, <1>2 DEF WorkbenchInvariant, TypeOK, LoopbackTypeOK,
                      ProtectedBytesKeepTheirValue, Writable
<1>3. CASE UserReads
    <2>1. PICK r \in Reads :
            /\ Read(r.address, r.length, r.deadline)
            /\ issued' = Issued("read", r.address, r.length, <<>>, r.deadline)
        BY <1>3 DEF UserReads
    <2>2. r.address \in Address /\ r.length \in Nat /\ r.deadline \in Int
        BY WorkbenchConstants DEF ReadArguments
    <2>3. ClientTypeOK'
        BY <1>1, <2>1, <2>2, ReadType
    <2>4. TransportTypeOK'
        BY <1>1, <2>1 DEF Read, TransportTypeOK
    <2>5. issued' \in Issues
        BY <2>1, <2>2 DEF Issued, Issues
    <2> QED BY <1>1, <1>2, <1>3, <2>3, <2>4, <2>5 DEF UserReads
<1>4. CASE UserWrites
    <2>1. PICK w \in Writes :
            /\ Write(w.address, w.data, w.deadline)
            /\ issued' = Issued("write", w.address, Len(w.data), w.data, w.deadline)
        BY <1>4 DEF UserWrites
    <2>2. w.address \in Address /\ w.data \in Seq(Byte) /\ w.deadline \in Int
        BY WorkbenchConstants DEF WriteArguments
    <2>3. ClientTypeOK'
        BY <1>1, <2>1, <2>2, WriteType
    <2>4. TransportTypeOK'
        BY <1>1, <2>1 DEF Write, TransportTypeOK
    <2>5. issued' \in Issues
        BY <2>1, <2>2 DEF Issued, Issues
    <2> QED BY <1>1, <1>2, <1>4, <2>3, <2>4, <2>5 DEF UserWrites
<1>5. CASE ClientAttempts
    BY <1>1, <1>2, <1>5, AttemptType DEF ClientAttempts
<1>6. CASE TransportExchanges
    <2>1. call.request \in Frame /\ call.deadline \in Int
        BY <1>1 DEF ClientTypeOK, Calls
    <2>2. EncodedBytes(call.request) \in Wire
        BY <2>1, EncodedBytesType
    <2>3. LoopbackTypeOK' /\ ProtectedBytesKeepTheirValue'
        BY <1>1, <1>6, <2>1, <2>2, ExchangeType DEF TransportExchanges
    <2>4. ClientTypeOK' /\ issued' \in Issues /\ before' \in Snapshots
        BY <1>1, <1>6 DEF TransportExchanges, ClientTypeOK
    <2> QED BY <2>3, <2>4 DEF WorkbenchInvariant, TypeOK
<1>7. CASE ClientConcludes
    BY <1>1, <1>2, <1>7, ConcludeType DEF ClientConcludes
<1>8. CASE UserScripts
    <2>1. PICK fault \in TransportFault : PushFault(fault)
        BY <1>8 DEF UserScripts
    <2>2. faults' \in Seq(TransportFault)
        BY <1>1, <2>1 DEF PushFault, LoopbackTypeOK
    <2>3. LoopbackTypeOK' /\ ProtectedBytesKeepTheirValue'
        BY <1>1, <2>1, <2>2 DEF PushFault, LoopbackTypeOK, TransportTypeOK,
                                ProtectedBytesKeepTheirValue, Writable
    <2>4. ClientTypeOK' /\ issued' \in Issues /\ before' \in Snapshots
        BY <1>1, <1>8 DEF UserScripts, ClientTypeOK, clientVars
    <2> QED BY <2>3, <2>4 DEF WorkbenchInvariant, TypeOK
<1>9. CASE UserClearsTrace
    <2>1. LoopbackTypeOK' /\ ProtectedBytesKeepTheirValue'
        BY <1>1, <1>9 DEF UserClearsTrace, ClearTrace, LoopbackTypeOK, TransportTypeOK,
                          ProtectedBytesKeepTheirValue, Writable
    <2>2. ClientTypeOK' /\ issued' \in Issues /\ before' \in Snapshots
        BY <1>1, <1>9 DEF UserClearsTrace, ClientTypeOK, clientVars
    <2> QED BY <2>1, <2>2 DEF WorkbenchInvariant, TypeOK
<1>10. CASE UNCHANGED vars
    <2>1. ClientTypeOK' /\ TransportTypeOK'
        BY <1>1, <1>10 DEF vars, ClientTypeOK, TransportTypeOK
    <2> QED BY <1>1, <1>2, <1>10, <2>1 DEF vars
<1> QED BY <1>3, <1>4, <1>5, <1>6, <1>7, <1>8, <1>9, <1>10 DEF Next

\* Every reachable state of the laboratory is well typed: in particular the
\* attempt limit is at least one and no request ID is zero.
THEOREM WorkbenchTypeCorrect == Spec => []TypeOK
<1>1. WorkbenchInvariant => TypeOK
    BY DEF WorkbenchInvariant
<1> QED BY <1>1, InitWorkbenchInvariant, NextWorkbenchInvariant, PTL DEF Spec

(***************************************************************************)
(* A call under way, control state by control state.                       *)
(***************************************************************************)
\* The faults that keep a request from the server.
RequestFault == {"timeout", "disconnect"}

\* How many exchanges of the running call have returned.
Exchanged == IF pc = "reply" THEN call.attempt ELSE call.attempt - 1

\* The script is the one of the call's start without its first k faults.
ScriptWithout(k) ==
    /\ Len(faults) = IF k <= Len(before.faults) THEN Len(before.faults) - k ELSE 0
    /\ \A i \in 1 .. Len(faults) : faults[i] = before.faults[i + k]

\* What is being sent is what the user asked for.
RequestIsAsIssued ==
    pc # "idle" =>
        /\ issued.kind \in {"read", "write"} /\ ArgumentsAreValid
        /\ EncodeError(call.request) = "none" /\ call.request.request_id # 0
        /\ call.request.address = issued.address /\ call.deadline = issued.deadline
        /\ issued.kind = "read" =>
              /\ call.request.opcode = "read_request"
              /\ LengthField(call.request.payload) = issued.length
              /\ call.expected_length = issued.length
        /\ issued.kind = "write" =>
              /\ call.request.opcode = "write_request"
              /\ call.request.payload = issued.data
              /\ Len(issued.data) = issued.length
              /\ call.expected_length = 0

\* Every attempt before this one met a request fault; each exchange used up one
\* fault, and the connection is what the last one left.
ScriptIsFollowed ==
    pc # "idle" =>
        /\ call.attempt \in 1 .. AttemptsAllowed
        /\ \A i \in 1 .. call.attempt - 1 : FaultMet(i) \in RequestFault
        /\ ScriptWithout(Exchanged)
        /\ pc = "attempt" => (connected <=> call.attempt = 1 /\ before.connected)
        /\ pc = "exchange" => connected
        /\ pc = "reply" => (connected <=> FaultMet(call.attempt) # "disconnect")

\* The server's own answer to the call.
HonestAnswer(w) ==
    /\ Decodes(w)
    /\ w.request_id = call.request.request_id /\ w.address = call.request.address
    /\ issued.kind = "read" =>
          /\ w.opcode \in {"data_response", "error_response"}
          /\ w.opcode = "data_response" =>
                /\ w.payload = ReadBytes(before.memory, issued.address, issued.length)
                /\ Len(w.payload) = issued.length
    /\ issued.kind = "write" =>
          /\ w.opcode = IF Permitted THEN "write_acknowledgement" ELSE "error_response"
          /\ Permitted => Len(w.payload) = 0

\* What exchange() has returned, by the fault it met.
ReplyIsDue ==
    pc = "reply" =>
        LET fault == FaultMet(call.attempt)
        IN /\ reply.error = CASE fault = "timeout" -> "timeout"
                              [] fault = "disconnect" -> "disconnected"
                              [] OTHER -> "none"
           /\ fault \in {"truncate_response", "corrupt_response"} =>
                 ~Decodes(reply.bytes)
           /\ fault = "wrong_request_id" =>
                 /\ Decodes(reply.bytes)
                 /\ reply.bytes.request_id # call.request.request_id
           /\ fault = "no_fault" => HonestAnswer(reply.bytes)

\* The memory changes with the one answered exchange of a permitted write.
MemoryIsDue ==
    pc # "idle" =>
        memory = IF /\ pc = "reply" /\ FaultMet(call.attempt) \notin RequestFault
                    /\ issued.kind = "write" /\ Permitted
                 THEN Installed ELSE before.memory

\* The timeouts among the first k faults.
TimeoutsMet(k) == {i \in 1 .. k : FaultMet(i) = "timeout"}

\* Whether the call found the connection closed.
Reopened == IF before.connected THEN 0 ELSE 1

\* The counters of a call under way.
MetricsAreDue ==
    pc # "idle" =>
        LET n == call.attempt
        IN /\ metrics.operations = before.metrics.operations + 1
           /\ metrics.transport_attempts = before.metrics.transport_attempts
                                             + (IF pc = "attempt" THEN n - 1 ELSE n)
           /\ next_sequence = before.next_sequence + 2 * Exchanged
           /\ metrics.retries = before.metrics.retries + (n - 1)
           /\ metrics.reconnects = before.metrics.reconnects +
                 (IF pc # "attempt" THEN (n - 1) + Reopened
                  ELSE IF n = 1 THEN 0 ELSE (n - 2) + Reopened)
           /\ metrics.timeouts = before.metrics.timeouts + Cardinality(TimeoutsMet(n - 1))
           /\ metrics.protocol_errors = before.metrics.protocol_errors

\* Every record is older than the next number.
RecordsAreNumbered == \A i \in DOMAIN trace : trace[i].sequence < next_sequence

\* What the history variables say stays the same as long as they do.
LEMMA HistoryIsStable ==
    ASSUME UNCHANGED <<issued, before, policy, maximum_read_attempts>>
    PROVE  /\ \A i : FaultMet(i)' = FaultMet(i)
           /\ AttemptsAllowed' = AttemptsAllowed
           /\ ArgumentsAreValid' <=> ArgumentsAreValid
           /\ Permitted' <=> Permitted
           /\ Installed' = Installed /\ Reopened' = Reopened
           /\ \A k : TimeoutsMet(k)' = TimeoutsMet(k)
BY DEF FaultMet, AttemptsAllowed, ArgumentsAreValid, Permitted, Writable, Installed,
       Reopened, TimeoutsMet

\* read() and write() up to the first attempt, or up to the rejection of their
\* arguments.
LEMMA CallEffect ==
    ASSUME TypeOK, UserReads \/ UserWrites
    PROVE  /\ pc = "idle" /\ before' = Snapshot
           /\ metrics' = [metrics EXCEPT !.operations = @ + 1]
           /\ UNCHANGED <<policy, memory, faults, trace, next_sequence, connected, reply,
                          maximum_read_attempts>>
           /\ issued'.kind \in {"read", "write"}
           /\ \/ ~ArgumentsAreValid' /\ pc' = "idle"
                 /\ result' = Failure("invalid_argument", next_request_id, 0)
              \/ /\ pc' = "attempt" /\ call'.attempt = 1 /\ RequestIsAsIssued'
<1>1. /\ pc = "idle" /\ before' = Snapshot
      /\ metrics' = [metrics EXCEPT !.operations = @ + 1]
      /\ UNCHANGED <<policy, memory, faults, trace, next_sequence, connected, reply,
                     maximum_read_attempts>>
    BY DEF UserReads, UserWrites, Read, Write, BeginCall
<1>2. next_request_id \in RequestId \ {0}
    BY DEF TypeOK, ClientTypeOK
<1> DEFINE Starts(opcode, address, payload, length, deadline) ==
               /\ pc' = "attempt" /\ call'.attempt = 1
               /\ EncodeError(call'.request) = "none" /\ call'.request.request_id # 0
               /\ call'.request.address = address /\ call'.deadline = deadline
               /\ call'.request.opcode = opcode /\ call'.request.payload = payload
               /\ call'.expected_length = length
<1>3. ASSUME NEW opcode \in RequestOpcode, NEW address \in Address,
             NEW payload \in Seq(Byte), NEW length \in Nat, NEW deadline \in Int,
             Len(payload) \in 1 .. maximum_payload_size,
             opcode = "read_request" => Len(payload) = 2,
             Submit(RequestFrame(opcode, next_request_id, address, payload), length,
                    deadline)
      PROVE  Starts(opcode, address, payload, length, deadline)
    <2> DEFINE f == RequestFrame(opcode, next_request_id, address, payload)
    <2>1. EncodeError(f) = "none"
        BY <1>2, <1>3, RequestEncodes
    <2>2. /\ f.request_id = next_request_id /\ f.opcode = opcode /\ f.payload = payload
          /\ f.address = address
        BY DEF RequestFrame
    <2> HIDE DEF f
    <2>3. /\ call' = [request |-> f, expected_length |-> length, deadline |-> deadline,
                      attempt |-> 1]
          /\ pc' = "attempt"
        BY <1>3, <2>1 DEF Submit, f
    <2> QED BY <1>2, <2>1, <2>2, <2>3
<1> HIDE DEF Starts
<1>4. CASE UserReads
    <2>1. PICK r \in Reads :
            /\ Read(r.address, r.length, r.deadline)
            /\ issued' = Issued("read", r.address, r.length, <<>>, r.deadline)
        BY <1>4 DEF UserReads
    <2>2. r.address \in Address /\ r.length \in Nat /\ r.deadline \in Int
        BY WorkbenchConstants DEF ReadArguments
    <2>3. /\ issued'.kind = "read" /\ issued'.address = r.address
          /\ issued'.length = r.length /\ issued'.deadline = r.deadline
        BY <2>1 DEF Issued
    <2>4. CASE InvalidArguments(r.length, r.deadline)
        <3>1. ~ArgumentsAreValid'
            BY <2>2, <2>3, <2>4, FrameConstants DEF InvalidArguments, ArgumentsAreValid
        <3>2. pc' = "idle" /\ result' = Failure("invalid_argument", next_request_id, 0)
            BY <2>1, <2>4 DEF Read, RejectArguments, Return
        <3> QED BY <1>1, <2>3, <3>1, <3>2
    <2>5. CASE ~InvalidArguments(r.length, r.deadline)
        <3>1. r.length \in 1 .. maximum_payload_size /\ r.deadline > 0
            BY <2>2, <2>5, FrameConstants DEF InvalidArguments
        <3>2. PICK p : p = LengthPayload(r.length)
            OBVIOUS
        <3>3. /\ p \in Seq(Byte) /\ Len(p) = 2 /\ Len(p) \in 1 .. maximum_payload_size
              /\ LengthField(p) = r.length
            <4>1. r.length < ByteBase * ByteBase
                BY <3>1, FrameConstants
            <4>2. p \in Seq(Byte) /\ Len(p) = 2 /\ LengthField(p) = r.length
                BY <2>2, <3>2, <4>1, LengthPayloadType, LengthRoundTrip
            <4>3. 2 \in 1 .. maximum_payload_size
                BY FrameConstants
            <4> QED BY <4>2, <4>3
        <3>4. Submit(RequestFrame("read_request", next_request_id, r.address, p), r.length,
                     r.deadline)
            BY <2>1, <2>5, <3>2 DEF Read
        <3>5. "read_request" \in RequestOpcode
            BY DEF RequestOpcode
        <3>6. Starts("read_request", r.address, p, r.length, r.deadline)
            BY <1>3, <2>2, <3>3, <3>4, <3>5
        <3>7. ArgumentsAreValid'
            BY <2>3, <3>1 DEF ArgumentsAreValid
        <3>8. RequestIsAsIssued'
            BY <2>3, <3>3, <3>6, <3>7 DEF RequestIsAsIssued, Starts
        <3> QED BY <1>1, <2>3, <3>6, <3>8 DEF Starts
    <2> QED BY <2>4, <2>5
<1>5. CASE UserWrites
    <2>1. PICK w \in Writes :
            /\ Write(w.address, w.data, w.deadline)
            /\ issued' = Issued("write", w.address, Len(w.data), w.data, w.deadline)
        BY <1>5 DEF UserWrites
    <2>2. w.address \in Address /\ w.data \in Seq(Byte) /\ w.deadline \in Int
          /\ Len(w.data) \in Nat
        BY WorkbenchConstants DEF WriteArguments
    <2>3. /\ issued'.kind = "write" /\ issued'.address = w.address
          /\ issued'.length = Len(w.data) /\ issued'.deadline = w.deadline
          /\ issued'.data = w.data
        BY <2>1 DEF Issued
    <2>4. CASE InvalidArguments(Len(w.data), w.deadline)
        <3>1. ~ArgumentsAreValid'
            BY <2>2, <2>3, <2>4, FrameConstants DEF InvalidArguments, ArgumentsAreValid
        <3>2. pc' = "idle" /\ result' = Failure("invalid_argument", next_request_id, 0)
            BY <2>1, <2>4 DEF Write, RejectArguments, Return
        <3> QED BY <1>1, <2>3, <3>1, <3>2
    <2>5. CASE ~InvalidArguments(Len(w.data), w.deadline)
        <3>1. Len(w.data) \in 1 .. maximum_payload_size /\ w.deadline > 0
            BY <2>2, <2>5, FrameConstants DEF InvalidArguments
        <3>2. Submit(RequestFrame("write_request", next_request_id, w.address, w.data), 0,
                     w.deadline)
            BY <2>1, <2>5 DEF Write
        <3>3. "write_request" \in RequestOpcode /\ 0 \in Nat
            BY DEF RequestOpcode
        <3>4. Starts("write_request", w.address, w.data, 0, w.deadline)
            BY <1>3, <2>2, <3>1, <3>2, <3>3
        <3>5. ArgumentsAreValid'
            BY <2>3, <3>1 DEF ArgumentsAreValid
        <3>6. RequestIsAsIssued'
            BY <2>3, <3>4, <3>5 DEF RequestIsAsIssued, Starts
        <3> QED BY <1>1, <2>3, <3>4, <3>6 DEF Starts
    <2> QED BY <2>4, <2>5
<1> QED BY <1>4, <1>5

(***************************************************************************)
(* How many faults a call meets.                                           *)
(***************************************************************************)
\* Every set of natural numbers that is not empty has a least element.
LEMMA LeastNatural ==
    ASSUME NEW T, T \subseteq Nat, T # {}
    PROVE  \E x \in T : \A y \in T : x <= y
<1> DEFINE R == OpToRel(<, Nat)
<1>1. IsWellFoundedOn(R, Nat)
    BY NatLessThanWellFounded, Zenon
<1>2. \A x, y \in Nat : x < y => <<x, y>> \in R
    BY DEF OpToRel
<1> HIDE DEF R
<1>3. PICK x \in T : \A y \in T : ~(<<y, x>> \in R)
    BY <1>1, WFMin
<1>4. ASSUME NEW y \in T PROVE x <= y
    <2>1. x \in Nat /\ y \in Nat
        OBVIOUS
    <2>2. ~(y < x)
        BY <1>2, <1>3, <2>1
    <2> QED BY <2>1, <2>2
<1> QED BY <1>4

\* The number of failures a script starts with exists, and it is the only number
\* with its two properties.
LEMMA LeadingFailuresExist ==
    ASSUME NEW script \in Seq(TransportFault)
    PROVE  LET n == LeadingFailures(script)
           IN /\ n \in 0 .. Len(script)
              /\ \A i \in 1 .. n : script[i] \in RequestFault
              /\ n < Len(script) => script[n + 1] \notin RequestFault
<1> DEFINE L == Len(script)
           Stops(k) == k < L => script[k + 1] \notin RequestFault
           Is(n) == (\A i \in 1 .. n : script[i] \in RequestFault) /\ Stops(n)
           T == {k \in 0 .. L : Stops(k)}
<1>1. L \in Nat
    OBVIOUS
<1>2. L \in T /\ T \subseteq Nat
    BY <1>1
<1>3. PICK x \in T : \A y \in T : x <= y
    BY <1>2, LeastNatural
<1>4. x \in 0 .. L /\ Stops(x)
    BY <1>3
<1>5. ASSUME NEW i \in 1 .. x PROVE script[i] \in RequestFault
    <2>1. i - 1 \in 0 .. L /\ i - 1 < L /\ ~(x <= i - 1) /\ (i - 1) + 1 = i
        BY <1>1, <1>4
    <2>2. i - 1 \notin T
        BY <1>3, <2>1
    <2>3. ~Stops(i - 1)
        BY <2>1, <2>2
    <2> QED BY <2>1, <2>3
<1>6. \E n \in 0 .. L : Is(n)
    BY <1>4, <1>5
<1>7. LeadingFailures(script) = CHOOSE n \in 0 .. L : Is(n)
    BY DEF LeadingFailures, RequestFault
<1> HIDE DEF Is
<1>8. LeadingFailures(script) \in 0 .. L /\ Is(LeadingFailures(script))
    BY <1>6, <1>7
<1> QED BY <1>8 DEF Is

\* An exchange that is answered after n - 1 failures shows how many there are,
\* and n failures in a row show that there are no fewer.
LEMMA LeadingFailuresBound ==
    ASSUME NEW script \in Seq(TransportFault), NEW n \in Nat, n <= Len(script),
           \A i \in 1 .. n : script[i] \in RequestFault
    PROVE  /\ LeadingFailures(script) \in Nat /\ LeadingFailures(script) >= n
           /\ (n < Len(script) => script[n + 1] \notin RequestFault)
                 => LeadingFailures(script) = n
<1> DEFINE m == LeadingFailures(script)
<1>1. /\ m \in 0 .. Len(script) /\ Len(script) \in Nat
      /\ \A i \in 1 .. m : script[i] \in RequestFault
      /\ m < Len(script) => script[m + 1] \notin RequestFault
    BY LeadingFailuresExist
<1> HIDE DEF m
<1>2. m >= n
    <2> SUFFICES ASSUME m < n PROVE FALSE
        BY <1>1
    <2>1. m + 1 \in 1 .. n /\ m < Len(script)
        BY <1>1
    <2> QED BY <1>1, <2>1
<1>3. ASSUME n < Len(script) => script[n + 1] \notin RequestFault, m > n PROVE FALSE
    <2>1. n + 1 \in 1 .. m /\ n < Len(script)
        BY <1>1, <1>3
    <2> QED BY <1>1, <1>3, <2>1
<1>4. m \in Nat /\ (m > n \/ m = n)
    BY <1>1, <1>2
<1> QED BY <1>2, <1>3, <1>4 DEF m

\* The faults a running call has met are the first of the script.
LEMMA FaultsMet ==
    ASSUME TypeOK, ScriptIsFollowed, pc # "idle"
    PROVE  /\ before.faults \in Seq(TransportFault) /\ call.attempt \in Nat
           /\ maximum_read_attempts \in Nat /\ AttemptsAllowed \in Nat
           /\ call.attempt >= 1 /\ call.attempt - 1 <= Len(before.faults)
           /\ \A i \in 1 .. call.attempt - 1 : before.faults[i] \in RequestFault
<1> DEFINE n == call.attempt
<1>1. before.faults \in Seq(TransportFault) /\ n \in Nat /\ maximum_read_attempts \in Nat
    BY DEF TypeOK, Snapshots, ClientTypeOK, Calls
<1>2. AttemptsAllowed \in Nat
    BY <1>1 DEF AttemptsAllowed
<1>3. n >= 1 /\ \A i \in 1 .. n - 1 : FaultMet(i) \in RequestFault
    BY <1>1, <1>2 DEF ScriptIsFollowed
<1>4. "no_fault" \notin RequestFault
    BY DEF RequestFault
<1>5. \A i \in 1 .. n - 1 : i <= Len(before.faults) /\ before.faults[i] \in RequestFault
    BY <1>3, <1>4 DEF FaultMet
<1>6. n - 1 <= Len(before.faults)
    <2>1. CASE n = 1
        BY <1>1, <2>1
    <2>2. CASE n # 1
        <3>1. n - 1 \in 1 .. n - 1
            BY <1>1, <1>3, <2>2
        <3> QED BY <1>5, <3>1
    <2> QED BY <2>1, <2>2
<1> QED BY <1>1, <1>2, <1>3, <1>5, <1>6

\* A call whose exchange is answered needed just the attempts it made.
LEMMA AnsweredCall ==
    ASSUME TypeOK, ScriptIsFollowed, pc # "idle", FaultMet(call.attempt) \notin RequestFault
    PROVE  ~ScriptDefeatsCall /\ AttemptsNeeded = call.attempt
<1> DEFINE n == call.attempt
           script == before.faults
<1>1. /\ script \in Seq(TransportFault) /\ n \in Nat /\ n >= 1 /\ n - 1 <= Len(script)
      /\ AttemptsAllowed \in Nat
      /\ \A i \in 1 .. n - 1 : script[i] \in RequestFault
    BY FaultsMet
<1>2. n <= AttemptsAllowed
    BY <1>1 DEF ScriptIsFollowed
<1>3. n - 1 < Len(script) => script[(n - 1) + 1] \notin RequestFault
    <2>1. n <= Len(script) => script[n] \notin RequestFault
        BY DEF FaultMet
    <2>2. (n - 1) + 1 = n /\ Len(script) \in Nat
        BY <1>1
    <2> QED BY <1>1, <2>1, <2>2
<1> HIDE DEF n, script
<1>4. LeadingFailures(script) = n - 1
    <2>1. n - 1 \in Nat
        BY <1>1
    <2> QED BY <1>1, <1>3, <2>1, LeadingFailuresBound
<1>5. ~ScriptDefeatsCall
    BY <1>1, <1>2, <1>4 DEF ScriptDefeatsCall, script
<1>6. AttemptsNeeded = n
    BY <1>1, <1>4, <1>5 DEF AttemptsNeeded, script
<1> QED BY <1>5, <1>6 DEF n

\* A call whose last attempt fails is one the script defeats.
LEMMA DefeatedCall ==
    ASSUME TypeOK, ScriptIsFollowed, pc # "idle", FaultMet(call.attempt) \in RequestFault,
           call.attempt = AttemptsAllowed
    PROVE  ScriptDefeatsCall /\ AttemptsNeeded = call.attempt
<1> DEFINE n == call.attempt
           script == before.faults
<1>1. /\ script \in Seq(TransportFault) /\ n \in Nat /\ n >= 1
      /\ \A i \in 1 .. n - 1 : script[i] \in RequestFault
    BY FaultsMet
<1>2. n <= Len(script) /\ script[n] \in RequestFault
    <2>1. "no_fault" \notin RequestFault
        BY DEF RequestFault
    <2> QED BY <2>1 DEF FaultMet
<1>3. \A i \in 1 .. n : script[i] \in RequestFault
    BY <1>1, <1>2
<1> HIDE DEF n, script
<1>4. LeadingFailures(script) >= n
    BY <1>1, <1>2, <1>3, LeadingFailuresBound
<1> QED BY <1>4 DEF ScriptDefeatsCall, AttemptsNeeded, n, script

(***************************************************************************)
(* The effect of the client's and the transport's steps on a call under    *)
(* way.                                                                    *)
(***************************************************************************)
\* Taking the fault that meets the exchange leaves the script without it.
LEMMA FaultIsTaken ==
    ASSUME TypeOK, ScriptIsFollowed, pc = "exchange", faults' = RemainingFaults,
           UNCHANGED <<before, call>>
    PROVE  NextFault = FaultMet(call.attempt) /\ ScriptWithout(call.attempt)'
<1> DEFINE n == call.attempt
           L == Len(before.faults)
<1>1. /\ before.faults \in Seq(TransportFault) /\ n \in Nat /\ n >= 1 /\ n - 1 <= L
      /\ L \in Nat
    BY FaultsMet
<1>2. faults \in Seq(TransportFault)
    BY DEF TypeOK, LoopbackTypeOK
<1>3. /\ Len(faults) = L - (n - 1)
      /\ \A i \in 1 .. Len(faults) : faults[i] = before.faults[i + (n - 1)]
    BY <1>1 DEF ScriptIsFollowed, ScriptWithout, Exchanged
<1> HIDE DEF n, L
<1>4. CASE faults = <<>>
    <2>1. L = n - 1
        BY <1>1, <1>3, <1>4
    <2>2. NextFault = "no_fault" /\ FaultMet(n) = "no_fault"
        BY <1>1, <1>4, <2>1 DEF NextFault, FaultMet, L
    <2>3. faults' = <<>>
        BY <1>4 DEF RemainingFaults
    <2>4. ~(n <= L) /\ Len(faults') = 0
        BY <1>1, <2>1, <2>3
    <2> QED BY <2>2, <2>4 DEF ScriptWithout, n, L
<1>5. CASE faults # <<>>
    <2>1. Len(faults) >= 1
        BY <1>2, <1>5
    <2>2. n <= L
        BY <1>1, <1>3, <2>1
    <2>3. Head(faults) = faults[1] /\ faults[1] = before.faults[n]
        <3>1. 1 \in 1 .. Len(faults) /\ 1 + (n - 1) = n
            BY <1>1, <1>2, <2>1
        <3> QED BY <1>2, <1>3, <1>5, <3>1
    <2>4. NextFault = FaultMet(n)
        BY <1>5, <2>2, <2>3 DEF NextFault, FaultMet, L
    <2>5. /\ faults' = Tail(faults) /\ Len(faults') = Len(faults) - 1
          /\ \A i \in 1 .. Len(faults') : faults'[i] = faults[i + 1]
        BY <1>2, <1>5, HeadTailProperties DEF RemainingFaults
    <2>6. ASSUME NEW i \in 1 .. Len(faults')
          PROVE  faults'[i] = before.faults[i + n]
        <3>1. i + 1 \in 1 .. Len(faults) /\ (i + 1) + (n - 1) = i + n
            BY <1>1, <1>2, <2>1, <2>5
        <3> QED BY <1>3, <2>5, <3>1
    <2>7. Len(faults') = L - n
        BY <1>1, <1>3, <2>5
    <2> QED BY <2>2, <2>4, <2>6, <2>7 DEF ScriptWithout, n, L
<1> QED BY <1>4, <1>5 DEF n

\* An exchange of a running call, by the fault that the script says it meets.
LEMMA ExchangeEffect ==
    ASSUME TypeOK, RequestIsAsIssued, ScriptIsFollowed, TransportExchanges
    PROVE  LET fault == FaultMet(call.attempt)
               w == EncodedBytes(call.request)
           IN /\ pc = "exchange" /\ pc' = "reply"
              /\ UNCHANGED <<issued, before, policy, maximum_read_attempts, call, metrics>>
              /\ ScriptWithout(call.attempt)'
              /\ \E outcome, response : RecordExchange(w, outcome, response)
              /\ fault = "timeout" =>
                    /\ memory' = memory /\ connected'
                    /\ reply' = TransportReply("timeout", EmptyWire)
              /\ fault = "disconnect" =>
                    /\ memory' = memory /\ ~connected'
                    /\ reply' = TransportReply("disconnected", EmptyWire)
              /\ fault \notin RequestFault =>
                    /\ memory' = MemoryAfter(w) /\ connected'
                    /\ reply' = TransportReply("none", Distorted(fault, Handled(w).response))
<1> DEFINE fault == FaultMet(call.attempt)
           w == EncodedBytes(call.request)
<1>1. /\ pc = "exchange" /\ pc' = "reply" /\ Exchange(w, call.deadline)
      /\ UNCHANGED <<issued, before, maximum_read_attempts, call, metrics>>
    BY DEF TransportExchanges
<1>2. connected /\ call.deadline > 0 /\ call.deadline \in Int
    BY <1>1 DEF ScriptIsFollowed, RequestIsAsIssued, ArgumentsAreValid, TypeOK,
                ClientTypeOK, Calls
<1>3. ~(call.deadline <= 0)
    BY <1>2
<1> HIDE DEF w, fault
<1>4. \/ ExchangeTimesOut(w, call.deadline)
      \/ ExchangeDisconnects(w, call.deadline)
      \/ ExchangeIsServed(w, call.deadline)
    BY <1>1, <1>2, <1>3 DEF Exchange, ExchangeNotConnected, ExchangeDeadlineExpired
<1>5. faults' = RemainingFaults
    BY <1>4 DEF ExchangeTimesOut, ExchangeDisconnects, ExchangeIsServed
<1>6. NextFault = fault /\ ScriptWithout(call.attempt)'
    BY <1>1, <1>5, FaultIsTaken DEF fault
<1>7. /\ UNCHANGED policy
      /\ \E outcome, response : RecordExchange(w, outcome, response)
    BY <1>4 DEF ExchangeTimesOut, ExchangeDisconnects, ExchangeIsServed, Handle
<1>8. ASSUME fault = "timeout"
      PROVE  memory' = memory /\ connected' /\ reply' = TransportReply("timeout", EmptyWire)
    BY <1>2, <1>4, <1>6, <1>8 DEF ExchangeTimesOut, ExchangeDisconnects, ExchangeIsServed
<1>9. ASSUME fault = "disconnect"
      PROVE  memory' = memory /\ ~connected'
             /\ reply' = TransportReply("disconnected", EmptyWire)
    BY <1>4, <1>6, <1>9 DEF ExchangeTimesOut, ExchangeDisconnects, ExchangeIsServed
<1>10. ASSUME fault \notin RequestFault
       PROVE  memory' = MemoryAfter(w) /\ connected'
              /\ reply' = TransportReply("none", Distorted(fault, Handled(w).response))
    <2>1. ExchangeIsServed(w, call.deadline)
        BY <1>4, <1>6, <1>10 DEF ExchangeTimesOut, ExchangeDisconnects, RequestFault
    <2> QED BY <1>2, <1>6, <2>1 DEF ExchangeIsServed, Handle
<1> QED BY <1>1, <1>6, <1>7, <1>8, <1>9, <1>10 DEF w, fault

\* ensure_connected() never ends a call here: attempts are left and connect()
\* succeeds.
LEMMA AttemptEffect ==
    ASSUME TypeOK, RequestIsAsIssued, ScriptIsFollowed, ClientAttempts
    PROVE  /\ pc = "attempt" /\ pc' = "exchange" /\ connected'
           /\ UNCHANGED <<issued, before, policy, memory, maximum_read_attempts, call, reply,
                          faults, trace, next_sequence>>
           /\ metrics'.transport_attempts = metrics.transport_attempts + 1
           /\ metrics'.reconnects = metrics.reconnects + (IF connected THEN 0 ELSE 1)
           /\ metrics'.operations = metrics.operations
           /\ metrics'.retries = metrics.retries
           /\ metrics'.timeouts = metrics.timeouts
           /\ metrics'.protocol_errors = metrics.protocol_errors
<1>1. /\ pc = "attempt" /\ Attempt(TRUE)
      /\ UNCHANGED <<issued, before, policy, memory, maximum_read_attempts, call, reply,
                     faults, trace, next_sequence>>
    BY DEF ClientAttempts, Attempt
<1>2. ~(Reading /\ call.attempt > maximum_read_attempts)
    <2>1. /\ call.attempt \in Nat /\ maximum_read_attempts \in Nat
          /\ AttemptsAllowed \in Nat /\ call.attempt <= AttemptsAllowed
        BY <1>1, FaultsMet DEF ScriptIsFollowed
    <2>2. Reading => issued.kind = "read"
        BY <1>1 DEF RequestIsAsIssued, Reading
    <2> QED BY <2>1, <2>2 DEF AttemptsAllowed
<1>3. pc' = "exchange" /\ connected'
    BY <1>1, <1>2 DEF Attempt
<1>4. metrics \in ClientMetrics
    BY DEF TypeOK, ClientTypeOK
<1>5. CASE connected
    <2>1. metrics' = [metrics EXCEPT !.transport_attempts = @ + 1]
        BY <1>1, <1>2, <1>5 DEF Attempt
    <2> QED BY <1>1, <1>3, <1>4, <1>5, <2>1 DEF ClientMetrics
<1>6. CASE ~connected
    <2>1. metrics' = [metrics EXCEPT !.reconnects = @ + 1, !.transport_attempts = @ + 1]
        BY <1>1, <1>2, <1>6 DEF Attempt
    <2> QED BY <1>1, <1>3, <1>4, <1>6, <2>1 DEF ClientMetrics
<1> QED BY <1>5, <1>6

\* Once exchange() has returned, the call returns or tries again.
LEMMA ConcludeEffect ==
    ASSUME TypeOK, RequestIsAsIssued, ScriptIsFollowed, ReplyIsDue, ClientConcludes
    PROVE  LET fault == FaultMet(call.attempt)
               n == call.attempt
           IN /\ pc = "reply"
              /\ UNCHANGED <<issued, before, policy, memory, maximum_read_attempts, reply,
                             faults, trace, next_sequence>>
              /\ call'.request = call.request /\ call'.deadline = call.deadline
              /\ call'.expected_length = call.expected_length
              /\ metrics'.operations = metrics.operations
              /\ metrics'.transport_attempts = metrics.transport_attempts
              /\ metrics'.reconnects = metrics.reconnects
              /\ metrics'.timeouts = metrics.timeouts + (IF fault = "timeout" THEN 1 ELSE 0)
              /\ \/ /\ fault \in RequestFault /\ issued.kind = "read" /\ n < AttemptsAllowed
                    /\ pc' = "attempt" /\ call'.attempt = n + 1 /\ ~connected'
                    /\ metrics'.retries = metrics.retries + 1
                    /\ metrics'.protocol_errors = metrics.protocol_errors
                 \/ /\ fault \in RequestFault /\ n = AttemptsAllowed
                    /\ pc' = "idle" /\ call' = call /\ ~connected'
                    /\ result' = Failure(IF fault = "timeout" THEN "timeout"
                                         ELSE "disconnected",
                                         call.request.request_id, n)
                    /\ metrics'.retries = metrics.retries
                    /\ metrics'.protocol_errors = metrics.protocol_errors
                 \/ /\ fault \notin RequestFault
                    /\ pc' = "idle" /\ call' = call /\ (connected' <=> connected)
                    /\ result' = Validated(reply.bytes)
                    /\ metrics'.retries = metrics.retries
                    /\ metrics'.protocol_errors = metrics.protocol_errors
                         + (IF result'.error \in ProtocolError THEN 1 ELSE 0)
<1> DEFINE fault == FaultMet(call.attempt)
           n == call.attempt
<1>1. /\ pc = "reply"
      /\ UNCHANGED <<issued, before, policy, memory, maximum_read_attempts, reply, faults,
                     trace, next_sequence>>
    BY DEF ClientConcludes, AcceptReply, Retry, GiveUp
<1>2. /\ call \in Calls /\ metrics \in ClientMetrics /\ n \in Nat
      /\ maximum_read_attempts \in Nat /\ AttemptsAllowed \in Nat
      /\ n >= 1 /\ n <= AttemptsAllowed
    BY <1>1, FaultsMet DEF TypeOK, ClientTypeOK, ScriptIsFollowed
<1>3. Reading <=> issued.kind = "read"
    BY <1>1 DEF RequestIsAsIssued, Reading
<1>4. /\ reply.error = "none" <=> fault \notin RequestFault
      /\ reply.error = "timeout" <=> fault = "timeout"
      /\ fault = "disconnect" => reply.error = "disconnected"
    BY <1>1 DEF ReplyIsDue, RequestFault
<1> HIDE DEF fault
<1>5. CASE AcceptReply
    <2>1. /\ fault \notin RequestFault /\ fault # "timeout"
          /\ pc' = "idle" /\ call' = call /\ connected' = connected
          /\ result' = Validated(reply.bytes)
          /\ metrics' = IF result'.error \in ProtocolError
                        THEN [metrics EXCEPT !.protocol_errors = @ + 1] ELSE metrics
        BY <1>4, <1>5 DEF AcceptReply, Return, RequestFault
    <2> QED BY <1>1, <1>2, <2>1 DEF fault, ClientMetrics
<1>6. /\ MetricsAfterFailure \in ClientMetrics
      /\ MetricsAfterFailure.operations = metrics.operations
      /\ MetricsAfterFailure.transport_attempts = metrics.transport_attempts
      /\ MetricsAfterFailure.reconnects = metrics.reconnects
      /\ MetricsAfterFailure.retries = metrics.retries
      /\ MetricsAfterFailure.protocol_errors = metrics.protocol_errors
      /\ MetricsAfterFailure.timeouts = metrics.timeouts
                                          + (IF fault = "timeout" THEN 1 ELSE 0)
    BY <1>2, <1>4 DEF MetricsAfterFailure, ClientMetrics
<1>7. CASE Retry
    <2>1. /\ fault \in RequestFault /\ issued.kind = "read" /\ n < maximum_read_attempts
          /\ pc' = "attempt" /\ ~connected'
          /\ metrics' = [MetricsAfterFailure EXCEPT !.retries = @ + 1]
          /\ call' = [call EXCEPT !.attempt = @ + 1]
        BY <1>3, <1>4, <1>7 DEF Retry, CanRetry
    <2>2. n < AttemptsAllowed
        BY <2>1 DEF AttemptsAllowed
    <2>3. /\ call'.request = call.request /\ call'.deadline = call.deadline
          /\ call'.expected_length = call.expected_length /\ call'.attempt = n + 1
        BY <1>2, <2>1 DEF Calls
    <2>4. /\ metrics'.operations = metrics.operations
          /\ metrics'.transport_attempts = metrics.transport_attempts
          /\ metrics'.reconnects = metrics.reconnects
          /\ metrics'.timeouts = metrics.timeouts + (IF fault = "timeout" THEN 1 ELSE 0)
          /\ metrics'.retries = metrics.retries + 1
          /\ metrics'.protocol_errors = metrics.protocol_errors
        BY <1>6, <2>1 DEF ClientMetrics
    <2> QED BY <1>1, <2>1, <2>2, <2>3, <2>4 DEF fault
<1>8. CASE GiveUp
    <2>1. /\ fault \in RequestFault /\ pc' = "idle" /\ ~connected' /\ call' = call
          /\ metrics' = MetricsAfterFailure
          /\ result' = Failure(IF fault = "timeout" THEN "timeout" ELSE "disconnected",
                               call.request.request_id, n)
        BY <1>4, <1>8 DEF GiveUp, Return, FailureOfReply
    <2>2. n = AttemptsAllowed
        <3>1. reply.error \in {"timeout", "disconnected", "not_connected"}
            BY <1>4, <2>1 DEF RequestFault
        <3>2. ~(Reading /\ n < maximum_read_attempts)
            BY <1>8, <3>1 DEF GiveUp, CanRetry
        <3> QED BY <1>2, <1>3, <3>2 DEF AttemptsAllowed
    <2> QED BY <1>1, <1>6, <2>1, <2>2 DEF fault
<1> QED BY <1>5, <1>7, <1>8 DEF ClientConcludes

(***************************************************************************)
(* What holds of a call under way is kept by every step.                   *)
(***************************************************************************)
\* What holds of a call under way, at each of its control states.
CallInvariant ==
    /\ RequestIsAsIssued
    /\ ScriptIsFollowed
    /\ ReplyIsDue
    /\ MemoryIsDue
    /\ MetricsAreDue

\* The request on the wire.
LEMMA RequestOnTheWire ==
    ASSUME TypeOK, RequestIsAsIssued, pc # "idle"
    PROVE  LET w == EncodedBytes(call.request)
           IN /\ w \in Wire /\ Decodes(w)
              /\ w.opcode = call.request.opcode /\ w.address = issued.address
              /\ w.payload = call.request.payload
              /\ w.request_id = call.request.request_id
              /\ issued.kind = "read" => ~Applies(w)
              /\ issued.kind = "write" => (Applies(w) <=> Permitted)
<1> DEFINE w == EncodedBytes(call.request)
<1>1. call.request \in Frame /\ policy \in ServerPolicy
    BY DEF TypeOK, ClientTypeOK, Calls, LoopbackTypeOK
<1>2. w \in Wire /\ Decodes(w)
    BY <1>1, EncodedBytesType DEF RequestIsAsIssued
<1>3. /\ w.opcode = call.request.opcode /\ w.address = issued.address
      /\ w.payload = call.request.payload /\ w.request_id = call.request.request_id
    BY DEF EncodedBytes, RequestIsAsIssued
<1> HIDE DEF w
<1>4. ASSUME issued.kind = "read" PROVE ~Applies(w)
    BY <1>3, <1>4 DEF RequestIsAsIssued, Applies
<1>5. ASSUME issued.kind = "write" PROVE Applies(w) <=> Permitted
    <2>1. w.opcode = "write_request" /\ Len(w.payload) = issued.length
        BY <1>3, <1>5 DEF RequestIsAsIssued
    <2>2. Permitted <=> w.address .. w.address + Len(w.payload) - 1 \subseteq Writable
        BY <1>3, <2>1 DEF Permitted
    <2> QED BY <1>1, <1>2, <2>1, <2>2, AppliedInterval, WritableIsApplied
<1> QED BY <1>2, <1>3, <1>4, <1>5 DEF w

\* What is being sent stays what the user asked for.
LEMMA NextRequest ==
    ASSUME TypeOK, CallInvariant, [Next]_vars
    PROVE  RequestIsAsIssued'
<1>1. RequestIsAsIssued /\ ScriptIsFollowed /\ ReplyIsDue
    BY DEF CallInvariant
<1>2. ASSUME pc # "idle", UNCHANGED <<issued, before, policy, maximum_read_attempts>>,
             call'.request = call.request, call'.deadline = call.deadline,
             call'.expected_length = call.expected_length
      PROVE  RequestIsAsIssued'
    BY <1>1, <1>2, HistoryIsStable DEF RequestIsAsIssued
<1>3. CASE UserReads \/ UserWrites
    BY <1>3, CallEffect DEF RequestIsAsIssued
<1>4. CASE ClientAttempts
    BY <1>1, <1>2, <1>4, AttemptEffect
<1>5. CASE TransportExchanges
    BY <1>1, <1>2, <1>5, ExchangeEffect
<1>6. CASE ClientConcludes
    BY <1>1, <1>2, <1>6, ConcludeEffect
<1>7. CASE UserScripts \/ UserClearsTrace
    BY <1>7 DEF UserScripts, UserClearsTrace, clientVars, RequestIsAsIssued
<1>8. CASE UNCHANGED vars
    BY <1>1, <1>8 DEF vars, RequestIsAsIssued, ArgumentsAreValid
<1> QED BY <1>3, <1>4, <1>5, <1>6, <1>7, <1>8 DEF Next

\* The call keeps following the script.
LEMMA NextScript ==
    ASSUME TypeOK, CallInvariant, [Next]_vars
    PROVE  ScriptIsFollowed'
<1>1. RequestIsAsIssued /\ ScriptIsFollowed /\ ReplyIsDue
    BY DEF CallInvariant
<1>2. maximum_read_attempts \in Nat \ {0} /\ faults \in Seq(TransportFault)
      /\ call.attempt \in Nat /\ connected \in BOOLEAN
    BY DEF TypeOK, ClientTypeOK, LoopbackTypeOK, TransportTypeOK, Calls
<1>3. CASE UserReads \/ UserWrites
    <2>1. CASE pc' = "idle"
        BY <2>1 DEF ScriptIsFollowed
    <2>2. CASE pc' # "idle"
        <3>1. /\ pc' = "attempt" /\ call'.attempt = 1 /\ before' = Snapshot
              /\ faults' = faults /\ connected' = connected
              /\ maximum_read_attempts' = maximum_read_attempts
            BY <1>3, <2>2, CallEffect
        <3>2. before'.faults = faults /\ before'.connected = connected
            BY <3>1 DEF Snapshot
        <3>3. 1 \in 1 .. AttemptsAllowed' /\ 1 .. 1 - 1 = {} /\ Exchanged' = 0
            BY <1>2, <3>1 DEF AttemptsAllowed, Exchanged
        <3>4. ScriptWithout(Exchanged)'
            <4>1. Len(faults) \in Nat /\ 0 <= Len(faults) /\ Len(faults) - 0 = Len(faults)
                BY <1>2
            <4>2. \A i \in 1 .. Len(faults) : i + 0 = i
                OBVIOUS
            <4> QED BY <3>1, <3>2, <3>3, <4>1, <4>2 DEF ScriptWithout
        <3> QED BY <3>1, <3>2, <3>3, <3>4 DEF ScriptIsFollowed
    <2> QED BY <2>1, <2>2
<1>4. ASSUME pc # "idle", UNCHANGED <<issued, before, policy, maximum_read_attempts>>
      PROVE  /\ \A i : FaultMet(i)' = FaultMet(i)
             /\ AttemptsAllowed' = AttemptsAllowed /\ AttemptsAllowed \in Nat
             /\ call.attempt \in 1 .. AttemptsAllowed
             /\ \A i \in 1 .. call.attempt - 1 : FaultMet(i) \in RequestFault
    BY <1>1, <1>4, HistoryIsStable, FaultsMet DEF ScriptIsFollowed
<1>5. CASE ClientAttempts
    <2>1. /\ pc = "attempt" /\ pc' = "exchange" /\ connected'
          /\ UNCHANGED <<issued, before, policy, maximum_read_attempts, call, faults>>
        BY <1>1, <1>5, AttemptEffect
    <2>2. ScriptWithout(Exchanged)'
        BY <1>1, <2>1 DEF ScriptIsFollowed, ScriptWithout, Exchanged
    <2> QED BY <1>4, <2>1, <2>2 DEF ScriptIsFollowed
<1>6. CASE TransportExchanges
    <2>1. /\ pc = "exchange" /\ pc' = "reply"
          /\ UNCHANGED <<issued, before, policy, maximum_read_attempts, call>>
          /\ ScriptWithout(call.attempt)'
          /\ connected' <=> FaultMet(call.attempt) # "disconnect"
        BY <1>1, <1>6, ExchangeEffect DEF RequestFault
    <2>2. ScriptWithout(Exchanged)'
        BY <2>1 DEF ScriptWithout, Exchanged
    <2>3. FaultMet(call.attempt)' = FaultMet(call.attempt)
        BY <2>1 DEF FaultMet
    <2> QED BY <1>4, <2>1, <2>2, <2>3 DEF ScriptIsFollowed
<1>7. CASE ClientConcludes
    <2>1. CASE pc' = "idle"
        BY <2>1 DEF ScriptIsFollowed
    <2>2. CASE pc' # "idle"
        <3> DEFINE n == call.attempt
        <3>1. /\ pc = "reply" /\ pc' = "attempt" /\ call'.attempt = n + 1 /\ ~connected'
              /\ UNCHANGED <<issued, before, policy, maximum_read_attempts, faults>>
              /\ FaultMet(n) \in RequestFault /\ n < AttemptsAllowed
            BY <1>1, <1>7, <2>2, ConcludeEffect
        <3>2. ScriptWithout(n)
            BY <1>1, <3>1 DEF ScriptIsFollowed, Exchanged
        <3>3. Exchanged' = n
            BY <1>2, <3>1 DEF Exchanged
        <3>4. ScriptWithout(Exchanged)'
            BY <3>1, <3>2, <3>3 DEF ScriptWithout
        <3>5. /\ \A i : FaultMet(i)' = FaultMet(i)
              /\ AttemptsAllowed' = AttemptsAllowed /\ AttemptsAllowed \in Nat
              /\ n \in 1 .. AttemptsAllowed
              /\ \A i \in 1 .. n - 1 : FaultMet(i) \in RequestFault
            BY <1>4, <3>1
        <3> HIDE DEF n
        <3>6. /\ n + 1 \in 1 .. AttemptsAllowed /\ n + 1 # 1
              /\ \A i \in 1 .. (n + 1) - 1 : FaultMet(i) \in RequestFault
            BY <3>1, <3>5
        <3> QED BY <3>1, <3>4, <3>5, <3>6 DEF ScriptIsFollowed
    <2> QED BY <2>1, <2>2
<1>8. CASE UserScripts \/ UserClearsTrace
    BY <1>8 DEF UserScripts, UserClearsTrace, clientVars, ScriptIsFollowed
<1>9. CASE UNCHANGED vars
    BY <1>1, <1>9 DEF vars, ScriptIsFollowed, ScriptWithout, Exchanged, FaultMet,
                      AttemptsAllowed
<1> QED BY <1>3, <1>5, <1>6, <1>7, <1>8, <1>9 DEF Next

\* Served without a fault, the call gets the server's own answer.
LEMMA AnswerIsHonest ==
    ASSUME TypeOK, CallInvariant, pc = "exchange"
    PROVE  HonestAnswer(Handled(EncodedBytes(call.request)).response)
<1>1. PICK w : w = EncodedBytes(call.request)
    OBVIOUS
<1>2. PICK answer : answer = Handled(w).response
    OBVIOUS
<1>3. /\ memory \in Memory /\ memory = before.memory /\ RequestIsAsIssued
    BY DEF TypeOK, LoopbackTypeOK, CallInvariant, MemoryIsDue
<1>4. /\ w \in Wire /\ Decodes(w)
      /\ w.opcode = call.request.opcode /\ w.address = issued.address
      /\ w.payload = call.request.payload
      /\ w.request_id = call.request.request_id
      /\ issued.kind = "write" => (Applies(w) <=> Permitted)
    BY <1>1, <1>3, RequestOnTheWire
<1>5. /\ Decodes(answer) /\ answer.request_id = w.request_id
      /\ answer.address = w.address
    BY <1>2, <1>3, <1>4, AnswerFields
<1>6. ASSUME issued.kind = "read"
      PROVE  /\ answer.opcode \in {"data_response", "error_response"}
             /\ answer.opcode = "data_response" =>
                   /\ answer.payload = ReadBytes(before.memory, issued.address,
                                                 issued.length)
                   /\ Len(answer.payload) = issued.length
    <2>1. w.opcode = "read_request" /\ LengthField(w.payload) = issued.length
        BY <1>3, <1>4, <1>6 DEF RequestIsAsIssued
    <2> QED BY <1>2, <1>3, <1>4, <2>1, AnswerLength, ReadAnswer
<1>7. ASSUME issued.kind = "write"
      PROVE  /\ answer.opcode = IF Permitted THEN "write_acknowledgement"
                                ELSE "error_response"
             /\ Permitted => Len(answer.payload) = 0
    <2>1. w.opcode = "write_request"
        BY <1>3, <1>4, <1>7 DEF RequestIsAsIssued
    <2> QED BY <1>2, <1>3, <1>4, <1>7, <2>1, AnswerLength, WriteAnswer
<1>8. w.address = call.request.address
    BY <1>1 DEF EncodedBytes
<1> QED BY <1>1, <1>2, <1>4, <1>5, <1>6, <1>7, <1>8 DEF HonestAnswer

\* What exchange() returns is what its fault calls for.
LEMMA NextReply ==
    ASSUME TypeOK, CallInvariant, [Next]_vars
    PROVE  ReplyIsDue'
<1>1. RequestIsAsIssued /\ ScriptIsFollowed /\ ReplyIsDue
    BY DEF CallInvariant
<1>2. CASE TransportExchanges
    <2>1. PICK w : w = EncodedBytes(call.request)
        OBVIOUS
    <2>2. PICK answer : answer = Handled(w).response
        OBVIOUS
    <2>3. PICK fault : fault = FaultMet(call.attempt)
        OBVIOUS
    <2>4. /\ pc = "exchange"
          /\ UNCHANGED <<issued, before, policy, maximum_read_attempts, call>>
          /\ fault = "timeout" => reply'.error = "timeout"
          /\ fault = "disconnect" => reply'.error = "disconnected"
          /\ fault \notin RequestFault =>
                reply'.error = "none" /\ reply'.bytes = Distorted(fault, answer)
        BY <1>1, <1>2, <2>1, <2>2, <2>3, ExchangeEffect DEF TransportReply
    <2>5. FaultMet(call.attempt)' = fault
        BY <2>3, <2>4 DEF FaultMet
    <2>6. HonestAnswer(answer) /\ HonestAnswer(answer)'
        <3>1. HonestAnswer(answer)
            BY <2>1, <2>2, <2>4, AnswerIsHonest
        <3>2. Permitted' <=> Permitted
            BY <2>4, HistoryIsStable
        <3> QED BY <2>4, <3>1, <3>2 DEF HonestAnswer
    <2>7. /\ answer \in Wire /\ Decodes(answer)
          /\ answer.request_id = call.request.request_id
        <3>1. w \in Wire /\ Decodes(w) /\ memory \in Memory
            BY <1>1, <2>1, <2>4, RequestOnTheWire DEF TypeOK, LoopbackTypeOK
        <3> QED BY <2>2, <2>6, <3>1, AnswerFields DEF HonestAnswer
    <2>8. fault \in {"truncate_response", "corrupt_response"} => ~Decodes(reply'.bytes)
        BY <2>4, <2>7, DistortedAnswer DEF RequestFault, Decodes
    <2>9. fault = "wrong_request_id" =>
             Decodes(reply'.bytes) /\ reply'.bytes.request_id # call.request.request_id
        BY <2>4, <2>7, DistortedAnswer DEF RequestFault
    <2>10. fault = "no_fault" => HonestAnswer(reply.bytes)'
        <3> SUFFICES ASSUME fault = "no_fault" PROVE HonestAnswer(reply.bytes)'
            OBVIOUS
        <3>1. reply'.bytes = answer
            BY <2>4, <2>7, DistortedAnswer DEF RequestFault
        <3> QED BY <2>6, <3>1 DEF HonestAnswer
    <2>11. reply'.error = CASE fault = "timeout" -> "timeout"
                            [] fault = "disconnect" -> "disconnected"
                            [] OTHER -> "none"
        BY <2>4 DEF RequestFault
    <2> QED BY <2>4, <2>5, <2>8, <2>9, <2>10, <2>11 DEF ReplyIsDue
<1>3. CASE UNCHANGED vars
    BY <1>1, <1>3 DEF vars, ReplyIsDue, FaultMet, HonestAnswer, Permitted, Writable
<1>4. CASE Next /\ ~TransportExchanges
    <2>1. pc' # "reply"
        <3>1. CASE UserReads \/ UserWrites
            BY <3>1, CallEffect
        <3>2. CASE ClientAttempts
            BY <1>1, <3>2, AttemptEffect
        <3>3. CASE ClientConcludes
            BY <1>1, <3>3, ConcludeEffect
        <3>4. CASE UserScripts \/ UserClearsTrace
            BY <3>4 DEF UserScripts, UserClearsTrace, clientVars
        <3> QED BY <1>4, <3>1, <3>2, <3>3, <3>4 DEF Next
    <2> QED BY <2>1 DEF ReplyIsDue
<1> QED BY <1>2, <1>3, <1>4

\* The memory changes only where it should.
LEMMA NextMemory ==
    ASSUME TypeOK, CallInvariant, [Next]_vars
    PROVE  MemoryIsDue'
<1>1. RequestIsAsIssued /\ ScriptIsFollowed /\ ReplyIsDue /\ MemoryIsDue
    BY DEF CallInvariant
<1>2. CASE UserReads \/ UserWrites
    <2>1. memory' = before'.memory /\ pc' # "reply"
        BY <1>2, CallEffect DEF Snapshot
    <2> QED BY <2>1 DEF MemoryIsDue
<1>3. CASE ClientAttempts
    <2>1. pc = "attempt" /\ pc' = "exchange" /\ UNCHANGED <<memory, before>>
        BY <1>1, <1>3, AttemptEffect
    <2> QED BY <1>1, <2>1 DEF MemoryIsDue
<1>4. CASE TransportExchanges
    <2>1. PICK w : w = EncodedBytes(call.request)
        OBVIOUS
    <2>2. PICK fault : fault = FaultMet(call.attempt)
        OBVIOUS
    <2>3. /\ pc = "exchange" /\ pc' = "reply"
          /\ UNCHANGED <<issued, before, policy, maximum_read_attempts, call>>
          /\ fault \in RequestFault => memory' = memory
          /\ fault \notin RequestFault => memory' = MemoryAfter(w)
        BY <1>1, <1>4, <2>1, <2>2, ExchangeEffect DEF RequestFault
    <2>4. FaultMet(call.attempt)' = fault /\ (Permitted' <=> Permitted)
          /\ Installed' = Installed
        BY <2>2, <2>3, HistoryIsStable DEF FaultMet
    <2>5. memory = before.memory
        BY <1>1, <2>3 DEF MemoryIsDue
    <2>6. MemoryAfter(w) = IF issued.kind = "write" /\ Permitted THEN Installed
                           ELSE memory
        <3>1. /\ w.address = issued.address /\ w.payload = call.request.payload
              /\ issued.kind = "read" => ~Applies(w)
              /\ issued.kind = "write" => (Applies(w) <=> Permitted)
              /\ issued.kind \in {"read", "write"}
              /\ issued.kind = "write" => call.request.payload = issued.data
            BY <1>1, <2>1, <2>3, RequestOnTheWire DEF RequestIsAsIssued
        <3> QED BY <2>5, <3>1 DEF MemoryAfter, Installed
    <2> QED BY <2>3, <2>4, <2>5, <2>6 DEF MemoryIsDue
<1>5. CASE ClientConcludes
    <2>1. CASE pc' = "idle"
        BY <2>1 DEF MemoryIsDue
    <2>2. CASE pc' # "idle"
        <3>1. /\ pc = "reply" /\ pc' = "attempt" /\ UNCHANGED <<memory, before>>
              /\ FaultMet(call.attempt) \in RequestFault
            BY <1>1, <1>5, <2>2, ConcludeEffect
        <3> QED BY <1>1, <3>1 DEF MemoryIsDue
    <2> QED BY <2>1, <2>2
<1>6. CASE UserScripts \/ UserClearsTrace
    BY <1>6 DEF UserScripts, UserClearsTrace, clientVars, MemoryIsDue
<1>7. CASE UNCHANGED vars
    BY <1>1, <1>7 DEF vars, MemoryIsDue, FaultMet, Permitted, Writable, Installed
<1> QED BY <1>2, <1>3, <1>4, <1>5, <1>6, <1>7 DEF Next

\* The timeouts met are counted one by one.
LEMMA TimeoutsStep ==
    ASSUME NEW n \in Nat
    PROVE  /\ IsFiniteSet(TimeoutsMet(n)) /\ Cardinality(TimeoutsMet(n)) \in Nat
           /\ Cardinality(TimeoutsMet(0)) = 0
           /\ Cardinality(TimeoutsMet(n + 1)) = Cardinality(TimeoutsMet(n))
                + (IF FaultMet(n + 1) = "timeout" THEN 1 ELSE 0)
<1>1. IsFiniteSet(1 .. n)
    BY FS_Interval
<1>2. TimeoutsMet(n) \in SUBSET (1 .. n)
    BY DEF TimeoutsMet
<1>3. IsFiniteSet(TimeoutsMet(n)) /\ Cardinality(TimeoutsMet(n)) \in Nat
    BY <1>1, <1>2, FS_Subset, FS_CardinalityType
<1>4. TimeoutsMet(0) = {}
    BY DEF TimeoutsMet
<1>5. Cardinality(TimeoutsMet(0)) = 0
    BY <1>4, FS_EmptySet
<1>6. 1 .. n + 1 = (1 .. n) \cup {n + 1} /\ n + 1 \notin 1 .. n
    OBVIOUS
<1>7. CASE FaultMet(n + 1) = "timeout"
    <2>1. TimeoutsMet(n + 1) = TimeoutsMet(n) \cup {n + 1} /\ n + 1 \notin TimeoutsMet(n)
        BY <1>6, <1>7 DEF TimeoutsMet
    <2> QED BY <1>3, <1>5, <1>7, <2>1, FS_AddElement
<1>8. CASE FaultMet(n + 1) # "timeout"
    <2>1. TimeoutsMet(n + 1) = TimeoutsMet(n)
        BY <1>6, <1>8 DEF TimeoutsMet
    <2> QED BY <1>3, <1>5, <1>8, <2>1
<1> QED BY <1>7, <1>8

\* The counters keep telling what has happened.
LEMMA NextMetrics ==
    ASSUME TypeOK, CallInvariant, [Next]_vars
    PROVE  MetricsAreDue'
<1>1. RequestIsAsIssued /\ ScriptIsFollowed /\ ReplyIsDue /\ MetricsAreDue
    BY DEF CallInvariant
<1>2. /\ metrics \in ClientMetrics /\ before.metrics \in ClientMetrics
      /\ next_sequence \in Nat /\ before.next_sequence \in Nat /\ call.attempt \in Nat
      /\ before.connected \in BOOLEAN /\ connected \in BOOLEAN
    BY DEF TypeOK, ClientTypeOK, Snapshots, LoopbackTypeOK, TransportTypeOK, Calls
<1>3. /\ metrics.operations \in Nat /\ metrics.transport_attempts \in Nat
      /\ metrics.reconnects \in Nat /\ metrics.retries \in Nat
      /\ metrics.timeouts \in Nat /\ metrics.protocol_errors \in Nat
    BY <1>2 DEF ClientMetrics
<1>4. /\ before.metrics.operations \in Nat /\ before.metrics.transport_attempts \in Nat
      /\ before.metrics.reconnects \in Nat /\ before.metrics.retries \in Nat
      /\ before.metrics.timeouts \in Nat /\ before.metrics.protocol_errors \in Nat
    BY <1>2 DEF ClientMetrics
<1>5. CASE UserReads \/ UserWrites
    <2>1. CASE pc' = "idle"
        BY <2>1 DEF MetricsAreDue
    <2>2. CASE pc' # "idle"
        <3>1. /\ pc' = "attempt" /\ call'.attempt = 1 /\ before' = Snapshot
              /\ metrics' = [metrics EXCEPT !.operations = @ + 1]
              /\ next_sequence' = next_sequence
            BY <1>5, <2>2, CallEffect
        <3>2. before'.metrics = metrics /\ before'.next_sequence = next_sequence
            BY <3>1 DEF Snapshot
        <3>3. /\ metrics'.operations = metrics.operations + 1
              /\ metrics'.transport_attempts = metrics.transport_attempts
              /\ metrics'.reconnects = metrics.reconnects
              /\ metrics'.retries = metrics.retries
              /\ metrics'.timeouts = metrics.timeouts
              /\ metrics'.protocol_errors = metrics.protocol_errors
            BY <1>2, <3>1 DEF ClientMetrics
        <3>4. Cardinality(TimeoutsMet(1 - 1)') = 0 /\ Exchanged' = 0
            <4>1. TimeoutsMet(0)' = {}
                BY DEF TimeoutsMet
            <4> QED BY <3>1, <4>1, FS_EmptySet DEF Exchanged
        <3> QED BY <1>2, <1>3, <3>1, <3>2, <3>3, <3>4 DEF MetricsAreDue, TimeoutsMet
    <2> QED BY <2>1, <2>2
<1>6. ASSUME pc # "idle", UNCHANGED <<issued, before, policy, maximum_read_attempts>>
      PROVE  /\ \A k : TimeoutsMet(k)' = TimeoutsMet(k)
             /\ Reopened' = Reopened /\ Reopened \in {0, 1}
             /\ Cardinality(TimeoutsMet(call.attempt - 1)) \in Nat
             /\ call.attempt >= 1
    <2>1. call.attempt >= 1 /\ call.attempt - 1 \in Nat
        BY <1>1, <1>6, FaultsMet
    <2>2. Cardinality(TimeoutsMet(call.attempt - 1)) \in Nat
        BY <2>1, TimeoutsStep
    <2> QED BY <1>6, <2>1, <2>2, HistoryIsStable DEF Reopened
<1>7. CASE ClientAttempts
    <2>1. /\ pc = "attempt" /\ pc' = "exchange"
          /\ UNCHANGED <<issued, before, policy, maximum_read_attempts, call, next_sequence>>
          /\ metrics'.transport_attempts = metrics.transport_attempts + 1
          /\ metrics'.reconnects = metrics.reconnects + (IF connected THEN 0 ELSE 1)
          /\ metrics'.operations = metrics.operations
          /\ metrics'.retries = metrics.retries
          /\ metrics'.timeouts = metrics.timeouts
          /\ metrics'.protocol_errors = metrics.protocol_errors
        BY <1>1, <1>7, AttemptEffect
    <2>2. connected <=> call.attempt = 1 /\ before.connected
        BY <1>1, <2>1 DEF ScriptIsFollowed
    <2>3. Exchanged' = Exchanged
        BY <2>1 DEF Exchanged
    <2>4. /\ TimeoutsMet(call.attempt - 1)' = TimeoutsMet(call.attempt - 1)
          /\ Reopened' = Reopened /\ call.attempt >= 1
        BY <1>6, <2>1 DEF TimeoutsMet, FaultMet
    <2>5. metrics'.reconnects = before.metrics.reconnects + ((call.attempt - 1) + Reopened)
        <3>1. metrics.reconnects = before.metrics.reconnects +
                (IF call.attempt = 1 THEN 0 ELSE (call.attempt - 2) + Reopened)
            BY <1>1, <2>1 DEF MetricsAreDue
        <3> QED BY <1>2, <1>4, <2>1, <2>2, <2>4, <3>1 DEF Reopened
    <2> QED BY <1>1, <1>2, <1>4, <2>1, <2>3, <2>4, <2>5 DEF MetricsAreDue
<1>8. CASE TransportExchanges
    <2>1. /\ pc = "exchange" /\ pc' = "reply"
          /\ UNCHANGED <<issued, before, policy, maximum_read_attempts, call, metrics>>
          /\ next_sequence' = next_sequence + 2
        BY <1>1, <1>8, ExchangeEffect DEF RecordExchange
    <2>2. Exchanged' = Exchanged + 1 /\ Exchanged \in Int
        BY <1>2, <2>1 DEF Exchanged
    <2>3. /\ TimeoutsMet(call.attempt - 1)' = TimeoutsMet(call.attempt - 1)
          /\ Reopened' = Reopened
        BY <1>6, <2>1 DEF TimeoutsMet, FaultMet
    <2>4. next_sequence' = before.next_sequence + 2 * Exchanged'
        BY <1>1, <1>2, <2>1, <2>2 DEF MetricsAreDue
    <2> QED BY <1>1, <2>1, <2>3, <2>4 DEF MetricsAreDue
<1>9. CASE ClientConcludes
    <2>1. CASE pc' = "idle"
        BY <2>1 DEF MetricsAreDue
    <2>2. CASE pc' # "idle"
        <3>1. PICK n : n = call.attempt
            OBVIOUS
        <3>2. /\ pc = "reply" /\ pc' = "attempt" /\ call'.attempt = n + 1
              /\ UNCHANGED <<issued, before, policy, maximum_read_attempts, next_sequence>>
              /\ metrics'.operations = metrics.operations
              /\ metrics'.transport_attempts = metrics.transport_attempts
              /\ metrics'.reconnects = metrics.reconnects
              /\ metrics'.timeouts = metrics.timeouts
                                       + (IF FaultMet(n) = "timeout" THEN 1 ELSE 0)
              /\ metrics'.retries = metrics.retries + 1
              /\ metrics'.protocol_errors = metrics.protocol_errors
            BY <1>1, <1>9, <2>2, <3>1, ConcludeEffect
        <3>3. n \in Nat /\ n >= 1 /\ n - 1 \in Nat /\ (n - 1) + 1 = n /\ (n + 1) - 1 = n
            BY <1>2, <1>6, <3>1, <3>2
        <3>4. /\ Cardinality(TimeoutsMet(n - 1)) \in Nat
              /\ Cardinality(TimeoutsMet(n)) = Cardinality(TimeoutsMet(n - 1))
                   + (IF FaultMet(n) = "timeout" THEN 1 ELSE 0)
            BY <3>3, TimeoutsStep
        <3>5. TimeoutsMet(n)' = TimeoutsMet(n) /\ Reopened' = Reopened
              /\ Reopened \in {0, 1}
            BY <1>6, <3>2
        <3>6. TimeoutsMet(call.attempt - 1)' = TimeoutsMet(n)
            BY <3>2, <3>3, <3>5 DEF TimeoutsMet
        <3>7. Exchanged' = n /\ Exchanged = n
            BY <3>1, <3>2, <3>3 DEF Exchanged
        <3>8. /\ metrics.operations = before.metrics.operations + 1
              /\ metrics.transport_attempts = before.metrics.transport_attempts + n
              /\ next_sequence = before.next_sequence + 2 * n
              /\ metrics.retries = before.metrics.retries + (n - 1)
              /\ metrics.reconnects = before.metrics.reconnects + ((n - 1) + Reopened)
              /\ metrics.timeouts = before.metrics.timeouts
                                      + Cardinality(TimeoutsMet(n - 1))
              /\ metrics.protocol_errors = before.metrics.protocol_errors
            BY <1>1, <3>1, <3>2, <3>7 DEF MetricsAreDue
        <3>9. /\ metrics'.retries = before.metrics.retries + ((n + 1) - 1)
              /\ metrics'.transport_attempts = before.metrics.transport_attempts
                                                 + ((n + 1) - 1)
              /\ metrics'.reconnects = before.metrics.reconnects
                                         + (((n + 1) - 2) + Reopened)
              /\ n + 1 # 1
            BY <1>4, <3>2, <3>3, <3>5, <3>8
        <3>10. metrics'.timeouts = before.metrics.timeouts + Cardinality(TimeoutsMet(n))
            BY <1>4, <3>2, <3>4, <3>8
        <3> QED BY <3>2, <3>5, <3>6, <3>7, <3>8, <3>9, <3>10 DEF MetricsAreDue
    <2> QED BY <2>1, <2>2
<1>10. CASE UserScripts \/ UserClearsTrace
    BY <1>10 DEF UserScripts, UserClearsTrace, clientVars, MetricsAreDue
<1>11. CASE UNCHANGED vars
    BY <1>1, <1>11 DEF vars, MetricsAreDue, TimeoutsMet, FaultMet, Reopened, Exchanged
<1> QED BY <1>5, <1>7, <1>8, <1>9, <1>10, <1>11 DEF Next

(***************************************************************************)
(* What the call reports, and what the trace records of it.                *)
(***************************************************************************)
\* A fault met is one of the script, or none.
LEMMA FaultMetType ==
    ASSUME TypeOK, NEW n \in Nat, n >= 1
    PROVE  FaultMet(n) \in TransportFault \cup {"no_fault"}
<1>1. before.faults \in Seq(TransportFault)
    BY DEF TypeOK, Snapshots
<1> QED BY <1>1 DEF FaultMet

\* How the client validates what a response fault left of the answer.
LEMMA ValidatedDue ==
    ASSUME TypeOK, CallInvariant, pc = "reply", FaultMet(call.attempt) \notin RequestFault
    PROVE  LET fault == FaultMet(call.attempt)
               r == Validated(reply.bytes)
           IN /\ r.request_id = call.request.request_id /\ r.attempts = call.attempt
              /\ fault \in {"truncate_response", "corrupt_response"} =>
                    r.error = "malformed_response"
              /\ fault = "wrong_request_id" => r.error = "correlation_mismatch"
              /\ fault = "no_fault" => r.error \in {"none", "remote_error"}
              /\ fault = "no_fault" /\ issued.kind = "read" /\ r.error = "none" =>
                    r.data = ReadBytes(before.memory, issued.address, issued.length)
              /\ fault = "no_fault" /\ issued.kind = "write" =>
                    (r.error = "none" <=> Permitted)
<1> DEFINE fault == FaultMet(call.attempt)
           w == reply.bytes
           r == Validated(w)
<1>1. RequestIsAsIssued /\ ReplyIsDue
    BY DEF CallInvariant
<1>2. r.request_id = call.request.request_id /\ r.attempts = call.attempt
    BY ValidatedMeans
<1>3. ASSUME fault \in {"truncate_response", "corrupt_response"}
      PROVE  r.error = "malformed_response"
    <2>1. ~Decodes(w)
        BY <1>1, <1>3 DEF ReplyIsDue
    <2> QED BY <2>1 DEF Validated, Failure
<1>4. ASSUME fault = "wrong_request_id"
      PROVE  r.error = "correlation_mismatch"
    <2>1. Decodes(w) /\ w.request_id # call.request.request_id
        BY <1>1, <1>4 DEF ReplyIsDue
    <2>2. ~Correlates(DecodedFrame(w))
        BY <2>1 DEF Correlates, DecodedFrame
    <2> QED BY <2>1, <2>2 DEF Validated
<1>5. ASSUME fault = "no_fault"
      PROVE  /\ r.error \in {"none", "remote_error"}
             /\ issued.kind = "read" /\ r.error = "none" =>
                   r.data = ReadBytes(before.memory, issued.address, issued.length)
             /\ issued.kind = "write" => (r.error = "none" <=> Permitted)
    <2>1. HonestAnswer(w)
        BY <1>1, <1>5 DEF ReplyIsDue
    <2>2. Decodes(w) /\ Correlates(DecodedFrame(w))
        BY <2>1 DEF HonestAnswer, Correlates, DecodedFrame
    <2>3. DecodedFrame(w).opcode = w.opcode /\ DecodedFrame(w).payload = w.payload
        BY DEF DecodedFrame
    <2>4. /\ w.opcode = "error_response" => r.error = "remote_error"
          /\ w.opcode # "error_response" =>
                IF w.opcode = ExpectedOpcode /\ Len(w.payload) = call.expected_length
                THEN r.error = "none" /\ r.data = w.payload
                ELSE r.error = "unexpected_response"
        BY <2>2, <2>3 DEF Validated
    <2>5. CASE issued.kind = "read"
        <3>1. ExpectedOpcode = "data_response" /\ call.expected_length = issued.length
            BY <1>1, <2>5 DEF RequestIsAsIssued, ExpectedOpcode, Reading
        <3> QED BY <2>1, <2>4, <2>5, <3>1 DEF HonestAnswer
    <2>6. CASE issued.kind = "write"
        <3>1. ExpectedOpcode = "write_acknowledgement" /\ call.expected_length = 0
            BY <1>1, <2>6 DEF RequestIsAsIssued, ExpectedOpcode, Reading
        <3> QED BY <2>1, <2>4, <2>6, <3>1 DEF HonestAnswer
    <2> QED BY <1>1, <2>5, <2>6 DEF RequestIsAsIssued
<1> QED BY <1>2, <1>3, <1>4, <1>5

\* What a call that returns reports, by the fault its last exchange met.
LEMMA ResultDue ==
    ASSUME TypeOK, CallInvariant, ClientConcludes, pc' = "idle"
    PROVE  LET fault == FaultMet(call.attempt)
           IN /\ call' = call
              /\ result'.request_id = call.request.request_id
              /\ result'.attempts = call.attempt
              /\ fault \in TransportFault \cup {"no_fault"}
              /\ fault = "timeout" => result'.error = "timeout"
              /\ fault = "disconnect" => result'.error = "disconnected"
              /\ fault \in {"truncate_response", "corrupt_response"} =>
                    result'.error = "malformed_response"
              /\ fault = "wrong_request_id" => result'.error = "correlation_mismatch"
              /\ fault = "no_fault" => result'.error \in {"none", "remote_error"}
              /\ fault = "no_fault" /\ issued.kind = "read" /\ result'.error = "none" =>
                    result'.data = ReadBytes(before.memory, issued.address, issued.length)
              /\ fault = "no_fault" /\ issued.kind = "write" =>
                    (result'.error = "none" <=> Permitted)
<1>1. RequestIsAsIssued /\ ScriptIsFollowed /\ ReplyIsDue
    BY DEF CallInvariant
<1>2. PICK fault : fault = FaultMet(call.attempt)
    OBVIOUS
<1>3. /\ pc = "reply"
      /\ call' = call
      /\ fault \in RequestFault =>
            result' = Failure(IF fault = "timeout" THEN "timeout" ELSE "disconnected",
                              call.request.request_id, call.attempt)
      /\ fault \notin RequestFault => result' = Validated(reply.bytes)
    BY <1>1, <1>2, ConcludeEffect
<1>4. fault \in TransportFault \cup {"no_fault"}
    BY <1>1, <1>2, <1>3, FaultsMet, FaultMetType
<1>5. CASE fault \in RequestFault
    <2>1. /\ result'.error = IF fault = "timeout" THEN "timeout" ELSE "disconnected"
          /\ result'.request_id = call.request.request_id
          /\ result'.attempts = call.attempt
        BY <1>3, <1>5 DEF Failure
    <2> QED BY <1>2, <1>3, <1>4, <1>5, <2>1 DEF RequestFault
<1>6. CASE fault \notin RequestFault
    BY <1>2, <1>3, <1>4, <1>6, ValidatedDue DEF RequestFault
<1> QED BY <1>5, <1>6

\* The request records of the call hold what was asked for.
LEMMA NextTrace ==
    ASSUME TypeOK, CallInvariant, RecordsAreNumbered, RetriesRepeatTheRequest, [Next]_vars
    PROVE  RecordsAreNumbered' /\ RetriesRepeatTheRequest'
<1>1. RequestIsAsIssued /\ ScriptIsFollowed /\ ReplyIsDue
    BY DEF CallInvariant
<1>2. /\ trace \in Seq(TraceRecord) /\ next_sequence \in Nat
      /\ \A i \in DOMAIN trace : trace[i].sequence \in Nat
    <2>1. trace \in Seq(TraceRecord) /\ next_sequence \in Nat
        BY DEF TypeOK, LoopbackTypeOK
    <2>2. \A i \in DOMAIN trace : trace[i] \in TraceRecord
        BY <2>1
    <2> QED BY <2>1, <2>2 DEF TraceRecord
<1>3. CASE UserReads \/ UserWrites
    <2>1. UNCHANGED <<trace, next_sequence>> /\ before'.next_sequence = next_sequence
        BY <1>3, CallEffect DEF Snapshot
    <2>2. RecordsAreNumbered'
        BY <2>1 DEF RecordsAreNumbered
    <2>3. \A i \in DOMAIN trace' : ~(trace'[i].sequence >= before'.next_sequence)
        BY <1>2, <2>1 DEF RecordsAreNumbered
    <2> QED BY <2>2, <2>3 DEF RetriesRepeatTheRequest
<1>4. CASE ClientAttempts
    <2>1. /\ pc = "attempt" /\ pc' = "exchange"
          /\ UNCHANGED <<trace, next_sequence, before, issued, call>>
        BY <1>1, <1>4, AttemptEffect
    <2> QED BY <2>1 DEF RecordsAreNumbered, RetriesRepeatTheRequest, Returned
<1>5. CASE TransportExchanges
    <2>1. PICK w : w = EncodedBytes(call.request)
        OBVIOUS
    <2>2. /\ pc = "exchange" /\ pc' = "reply" /\ UNCHANGED <<before, issued, call>>
          /\ \E outcome, response : RecordExchange(w, outcome, response)
        BY <1>1, <1>5, <2>1, ExchangeEffect
    <2>3. PICK outcome, response : RecordExchange(w, outcome, response)
        BY <2>2
    <2> DEFINE r1 == [sequence |-> next_sequence, direction |-> "client_to_server",
                      outcome |-> "sent", bytes |-> w]
               r2 == [sequence |-> next_sequence + 1, direction |-> "server_to_client",
                      outcome |-> outcome, bytes |-> response]
               n == Len(trace)
    <2>4. /\ r1.sequence = next_sequence /\ r1.bytes = w
          /\ r2.sequence = next_sequence + 1 /\ r2.direction = "server_to_client"
        OBVIOUS
    <2>5. trace' = trace \o <<r1, r2>> /\ next_sequence' = next_sequence + 2
        BY <2>3 DEF RecordExchange
    <2> HIDE DEF r1, r2
    <2>6. /\ n \in Nat /\ DOMAIN trace = 1 .. n /\ DOMAIN trace' = 1 .. n + 2
          /\ \A i \in 1 .. n : trace'[i] = trace[i]
          /\ trace'[n + 1] = r1 /\ trace'[n + 2] = r2
        BY <1>2, <2>5
    <2> HIDE DEF n
    <2>7. \A i \in DOMAIN trace' : i \in DOMAIN trace \/ i = n + 1 \/ i = n + 2
        BY <2>6
    <2>8. RecordsAreNumbered'
        <3> SUFFICES ASSUME NEW i \in DOMAIN trace'
                     PROVE  trace'[i].sequence < next_sequence'
            BY DEF RecordsAreNumbered
        <3>1. CASE i \in DOMAIN trace
            <4>1. trace[i].sequence \in Nat /\ trace[i].sequence < next_sequence
                BY <1>2, <3>1 DEF RecordsAreNumbered
            <4>2. trace'[i] = trace[i]
                BY <2>6, <3>1
            <4> QED BY <1>2, <2>5, <4>1, <4>2
        <3>2. CASE i = n + 1
            BY <1>2, <2>4, <2>5, <2>6, <3>2
        <3>3. CASE i = n + 2
            <4>1. trace'[i].sequence = next_sequence + 1
                BY <2>4, <2>6, <3>3
            <4> QED BY <1>2, <2>5, <4>1
        <3> QED BY <2>7, <3>1, <3>2, <3>3
    <2>9. RetriesRepeatTheRequest'
        <3>1. /\ Decodes(w) /\ w.address = issued.address /\ w.request_id # 0
              /\ issued.kind = "read" =>
                    w.opcode = "read_request" /\ LengthField(w.payload) = issued.length
              /\ issued.kind = "write" =>
                    w.opcode = "write_request" /\ w.payload = issued.data
            BY <1>1, <2>1, <2>2, RequestOnTheWire DEF RequestIsAsIssued
        <3>2. ~Returned'
            BY <2>2 DEF Returned
        <3>3. ASSUME NEW i \in DOMAIN trace',
                     trace'[i].sequence >= before'.next_sequence,
                     trace'[i].direction = "client_to_server"
              PROVE  /\ Decodes(trace'[i].bytes)
                     /\ trace'[i].bytes = EncodedBytes(call'.request)
                     /\ trace'[i].bytes.address = issued'.address
                     /\ trace'[i].bytes.request_id # 0
                     /\ issued'.kind = "read" =>
                           /\ trace'[i].bytes.opcode = "read_request"
                           /\ LengthField(trace'[i].bytes.payload) = issued'.length
                     /\ issued'.kind = "write" =>
                           /\ trace'[i].bytes.opcode = "write_request"
                           /\ trace'[i].bytes.payload = issued'.data
            <4>1. CASE i \in DOMAIN trace
                <5>1. trace'[i] = trace[i]
                    BY <2>6, <4>1
                <5> QED BY <2>2, <3>3, <4>1, <5>1 DEF RetriesRepeatTheRequest
            <4>2. CASE i = n + 1
                <5>1. trace'[i].bytes = w
                    BY <2>4, <2>6, <4>2
                <5> QED BY <2>1, <2>2, <3>1, <5>1
            <4>3. CASE i = n + 2
                BY <2>4, <2>6, <3>3, <4>3
            <4> QED BY <2>7, <4>1, <4>2, <4>3
        <3> QED BY <3>2, <3>3 DEF RetriesRepeatTheRequest
    <2> QED BY <2>8, <2>9
<1>6. CASE ClientConcludes
    <2>1. /\ pc = "reply" /\ UNCHANGED <<trace, next_sequence, before, issued>>
          /\ call'.request = call.request
        BY <1>1, <1>6, ConcludeEffect
    <2>2. CASE pc' # "idle"
        BY <2>1, <2>2 DEF RecordsAreNumbered, RetriesRepeatTheRequest, Returned
    <2>3. CASE pc' = "idle"
        <3>1. result'.request_id = call.request.request_id
            BY <1>6, <2>3, ResultDue
        <3>2. EncodedBytes(call.request).request_id = call.request.request_id
            BY DEF EncodedBytes
        <3> QED BY <2>1, <3>1, <3>2 DEF RecordsAreNumbered, RetriesRepeatTheRequest, Returned
    <2> QED BY <2>2, <2>3
<1>7. CASE UserScripts
    <2>1. UNCHANGED <<trace, next_sequence, before, issued, call, pc, result>>
        BY <1>7 DEF UserScripts, PushFault, clientVars
    <2> QED BY <2>1 DEF RecordsAreNumbered, RetriesRepeatTheRequest, Returned
<1>8. CASE UserClearsTrace
    <2>1. DOMAIN trace' = {}
        BY <1>8 DEF UserClearsTrace, ClearTrace
    <2> QED BY <2>1 DEF RecordsAreNumbered, RetriesRepeatTheRequest
<1>9. CASE UNCHANGED vars
    BY <1>9 DEF vars, RecordsAreNumbered, RetriesRepeatTheRequest, Returned
<1> QED BY <1>3, <1>4, <1>5, <1>6, <1>7, <1>8, <1>9 DEF Next

(***************************************************************************)
(* A call that has returned.                                               *)
(***************************************************************************)
\* What a script's end holds, from the fault after the n-th on.
LEMMA EndOfScript ==
    ASSUME NEW S, NEW s \in Seq(S), NEW n \in Nat
    PROVE  LET end == SubSeq(s, n + 1, Len(s))
           IN /\ end \in Seq(S) /\ Len(end) = IF n <= Len(s) THEN Len(s) - n ELSE 0
              /\ \A i \in 1 .. Len(s) - n : end[i] = s[i + n]
<1> DEFINE end == SubSeq(s, n + 1, Len(s))
<1>1. \A i \in n + 1 .. Len(s) : s[i] \in S
    OBVIOUS
<1>2. /\ end \in Seq(S) /\ Len(end) = IF n + 1 <= Len(s) THEN Len(s) - (n + 1) + 1 ELSE 0
      /\ \A i \in 1 .. Len(s) - (n + 1) + 1 : end[i] = s[(n + 1) + i - 1]
    BY <1>1, SubSeqProperties
<1> QED BY <1>2

\* A script that starts with t still does after a fault is appended.
LEMMA AppendKeepsStart ==
    ASSUME NEW S, NEW s \in Seq(S), NEW t \in Seq(S), NEW e \in S,
           Len(s) >= Len(t), SubSeq(s, 1, Len(t)) = t
    PROVE  Len(Append(s, e)) >= Len(t) /\ SubSeq(Append(s, e), 1, Len(t)) = t
<1> DEFINE a == Append(s, e)
           k == Len(t)
<1>1. /\ a \in Seq(S) /\ Len(a) = Len(s) + 1 /\ k \in Nat /\ Len(s) \in Nat
      /\ \A i \in 1 .. Len(s) : a[i] = s[i]
    BY AppendProperties
<1>2. \A i \in 1 .. k : s[i] \in S /\ a[i] = s[i]
    BY <1>1
<1>3. \A i \in 1 .. k : a[i] \in S
    BY <1>2
<1> HIDE DEF a, k
<1>4. /\ SubSeq(s, 1, k) \in Seq(S) /\ Len(SubSeq(s, 1, k)) = (IF 1 <= k THEN k - 1 + 1 ELSE 0)
      /\ \A i \in 1 .. k - 1 + 1 : SubSeq(s, 1, k)[i] = s[1 + i - 1]
    BY <1>1, <1>2, SubSeqProperties
<1>5. /\ SubSeq(a, 1, k) \in Seq(S) /\ Len(SubSeq(a, 1, k)) = (IF 1 <= k THEN k - 1 + 1 ELSE 0)
      /\ \A i \in 1 .. k - 1 + 1 : SubSeq(a, 1, k)[i] = a[1 + i - 1]
    BY <1>1, <1>3, SubSeqProperties
<1>6. /\ Len(SubSeq(s, 1, k)) = k /\ Len(SubSeq(a, 1, k)) = k
      /\ \A i \in 1 .. k : SubSeq(s, 1, k)[i] = s[i] /\ SubSeq(a, 1, k)[i] = a[i]
    BY <1>1, <1>4, <1>5
<1>7. SubSeq(a, 1, k) = SubSeq(s, 1, k)
    BY <1>2, <1>4, <1>5, <1>6, SeqEqual
<1> QED BY <1>1, <1>7 DEF a, k

\* The script after n exchanges is the end of the call's script.
LEMMA ScriptLeft ==
    ASSUME TypeOK, NEW n \in Nat, ScriptWithout(n)
    PROVE  LET left == SubSeq(before.faults, n + 1, Len(before.faults))
           IN Len(faults) >= Len(left) /\ SubSeq(faults, 1, Len(left)) = left
<1> DEFINE s == before.faults
           left == SubSeq(s, n + 1, Len(s))
<1>1. s \in Seq(TransportFault) /\ faults \in Seq(TransportFault)
    BY DEF TypeOK, Snapshots, LoopbackTypeOK
<1>2. /\ left \in Seq(TransportFault)
      /\ Len(left) = IF n <= Len(s) THEN Len(s) - n ELSE 0
      /\ \A i \in 1 .. Len(s) - n : left[i] = s[i + n]
    BY <1>1, EndOfScript
<1>3. /\ Len(faults) = IF n <= Len(s) THEN Len(s) - n ELSE 0
      /\ \A i \in 1 .. Len(faults) : faults[i] = s[i + n]
    BY DEF ScriptWithout
<1>4. Len(s) \in Nat
    BY <1>1
<1> HIDE DEF left, s
<1>5. Len(faults) = Len(left) /\ \A i \in 1 .. Len(faults) : faults[i] = left[i]
    BY <1>2, <1>3, <1>4
<1>6. faults = left
    BY <1>1, <1>2, <1>5, SeqEqual
<1>7. SubSeq(left, 1, Len(left)) = left /\ Len(left) \in Nat
    BY <1>2, SubSeqFull
<1> QED BY <1>6, <1>7 DEF left, s

\* The verdict on the last call is about the history and the result alone.
LEMMA VerdictIsStable ==
    ASSUME UNCHANGED <<issued, before, policy, maximum_read_attempts>>
    PROVE  /\ ErrorDue' = ErrorDue /\ AttemptsNeeded' = AttemptsNeeded
           /\ ScriptDefeatsCall' <=> ScriptDefeatsCall
<1>1. /\ ScriptDefeatsCall' <=> ScriptDefeatsCall
      /\ AttemptsNeeded' = AttemptsNeeded
    BY DEF ScriptDefeatsCall, AttemptsNeeded, AttemptsAllowed, LeadingFailures
<1>2. PICK fault : fault = FaultMet(AttemptsNeeded)
    OBVIOUS
<1>3. FaultMet(AttemptsNeeded)' = fault
    BY <1>1, <1>2 DEF FaultMet
<1>4. ArgumentsAreValid' <=> ArgumentsAreValid
    BY HistoryIsStable
<1>5. ErrorDue' = ErrorDue
    BY <1>2, <1>3, <1>4 DEF ErrorDue
<1> QED BY <1>1, <1>5

\* A call that returns ends as its fault script says.
LEMMA ReturnFollowsScript ==
    ASSUME TypeOK, CallInvariant, ClientConcludes, pc' = "idle"
    PROVE  CallFollowsFaultScript'
<1>1. RequestIsAsIssued /\ ScriptIsFollowed /\ ReplyIsDue
    BY DEF CallInvariant
<1>2. PICK fault : fault = FaultMet(call.attempt)
    OBVIOUS
<1>3. PICK n : n = call.attempt
    OBVIOUS
<1>4. /\ pc = "reply"
      /\ UNCHANGED <<issued, before, policy, maximum_read_attempts, faults>>
      /\ \/ fault \in RequestFault /\ n = AttemptsAllowed /\ ~connected'
         \/ fault \notin RequestFault /\ (connected' <=> connected)
    BY <1>1, <1>2, <1>3, ConcludeEffect
<1>5. n \in Nat /\ ArgumentsAreValid /\ connected \in BOOLEAN
    BY <1>1, <1>3, <1>4 DEF TypeOK, ClientTypeOK, Calls, RequestIsAsIssued, LoopbackTypeOK,
                            TransportTypeOK
<1>6. AttemptsNeeded = n /\ (ScriptDefeatsCall <=> fault \in RequestFault)
    BY <1>1, <1>2, <1>3, <1>4, AnsweredCall, DefeatedCall
<1>7. connected' <=> ~ScriptDefeatsCall
    <2>1. connected <=> fault # "disconnect"
        BY <1>1, <1>2, <1>4 DEF ScriptIsFollowed
    <2> QED BY <1>4, <1>6, <2>1 DEF RequestFault
<1>8. /\ result'.attempts = n
      /\ fault \in TransportFault \cup {"no_fault"}
      /\ fault = "timeout" => result'.error = "timeout"
      /\ fault = "disconnect" => result'.error = "disconnected"
      /\ fault \in {"truncate_response", "corrupt_response"} =>
            result'.error = "malformed_response"
      /\ fault = "wrong_request_id" => result'.error = "correlation_mismatch"
      /\ fault = "no_fault" => result'.error \in {"none", "remote_error"}
    BY <1>2, <1>3, ResultDue
<1>9. result'.error \in ErrorDue
    <2>1. FaultMet(AttemptsNeeded) = fault
        BY <1>2, <1>3, <1>6
    <2> QED BY <1>5, <1>8, <2>1 DEF ErrorDue, TransportFault
<1>10. LET left == SubSeq(before.faults, n + 1, Len(before.faults))
       IN Len(faults) >= Len(left) /\ SubSeq(faults, 1, Len(left)) = left
    <2>1. ScriptWithout(n)
        BY <1>1, <1>3, <1>4 DEF ScriptIsFollowed, Exchanged
    <2> QED BY <1>5, <2>1, ScriptLeft
<1>11. /\ ErrorDue' = ErrorDue /\ AttemptsNeeded' = AttemptsNeeded
       /\ ScriptDefeatsCall' <=> ScriptDefeatsCall
       /\ ArgumentsAreValid' <=> ArgumentsAreValid
    BY <1>4, VerdictIsStable, HistoryIsStable
<1> QED BY <1>4, <1>5, <1>6, <1>7, <1>8, <1>9, <1>10, <1>11 DEF CallFollowsFaultScript

\* A call that returns reports what happened to the memory.
LEMMA ReturnMatchesMemory ==
    ASSUME TypeOK, CallInvariant, ClientConcludes, pc' = "idle"
    PROVE  MemoryMatchesResult'
<1>1. RequestIsAsIssued /\ ScriptIsFollowed /\ ReplyIsDue /\ MemoryIsDue
    BY DEF CallInvariant
<1>2. PICK fault : fault = FaultMet(call.attempt)
    OBVIOUS
<1>3. /\ pc = "reply" /\ UNCHANGED <<issued, before, policy, maximum_read_attempts, memory>>
    BY <1>1, ConcludeEffect
<1>4. /\ fault \in TransportFault \cup {"no_fault"}
      /\ fault = "timeout" => result'.error = "timeout"
      /\ fault = "disconnect" => result'.error = "disconnected"
      /\ fault \in {"truncate_response", "corrupt_response"} =>
            result'.error = "malformed_response"
      /\ fault = "wrong_request_id" => result'.error = "correlation_mismatch"
      /\ fault = "no_fault" => result'.error \in {"none", "remote_error"}
      /\ fault = "no_fault" /\ issued.kind = "read" /\ result'.error = "none" =>
            result'.data = ReadBytes(before.memory, issued.address, issued.length)
      /\ fault = "no_fault" /\ issued.kind = "write" =>
            (result'.error = "none" <=> Permitted)
    BY <1>2, ResultDue
<1>5. memory = IF fault \notin RequestFault /\ issued.kind = "write" /\ Permitted
               THEN Installed ELSE before.memory
    BY <1>1, <1>2, <1>3 DEF MemoryIsDue
<1>6. (Permitted' <=> Permitted) /\ Installed' = Installed
    BY <1>3, HistoryIsStable
<1>7. CASE issued.kind = "read"
    <2>1. memory = before.memory
        BY <1>5, <1>7
    <2>2. result'.error = "none" => fault = "no_fault"
        BY <1>4 DEF TransportFault
    <2> QED BY <1>3, <1>4, <1>7, <2>1, <2>2 DEF MemoryMatchesResult
<1>8. CASE issued.kind = "write"
    <2>1. /\ result'.error = "none" => Permitted /\ memory = Installed
          /\ result'.error \in ProtocolError =>
                memory = IF Permitted THEN Installed ELSE before.memory
          /\ result'.error = "remote_error" => ~Permitted /\ memory = before.memory
          /\ result'.error \notin ProtocolError \cup {"none", "remote_error"} =>
                memory = before.memory
        BY <1>4, <1>5, <1>8 DEF TransportFault, ProtocolError, RequestFault
    <2> QED BY <1>3, <1>6, <1>8, <2>1 DEF MemoryMatchesResult, ProtocolError
<1> QED BY <1>1, <1>3, <1>7, <1>8 DEF RequestIsAsIssued

\* What the counters m of a call with result r say, told from the state b at its
\* start, the next record number s and the timeouts met t.
Explained(m, b, r, s, t) ==
    LET retries == IF r.attempts = 0 THEN 0 ELSE r.attempts - 1
    IN /\ m.operations - b.metrics.operations = 1
       /\ m.transport_attempts - b.metrics.transport_attempts = r.attempts
       /\ s - b.next_sequence = 2 * r.attempts
       /\ m.retries - b.metrics.retries = retries
       /\ m.reconnects - b.metrics.reconnects =
             retries + (IF r.attempts > 0 /\ ~b.connected THEN 1 ELSE 0)
       /\ m.timeouts - b.metrics.timeouts = Cardinality(t)
       /\ m.protocol_errors - b.metrics.protocol_errors =
             IF r.error \in ProtocolError THEN 1 ELSE 0

\* The counters a call that returns leaves behind follow from its result.
LEMMA ReturnExplainsMetrics ==
    ASSUME TypeOK, CallInvariant, ClientConcludes, pc' = "idle"
    PROVE  MetricsExplainCall'
<1>1. RequestIsAsIssued /\ ScriptIsFollowed /\ ReplyIsDue /\ MetricsAreDue
    BY DEF CallInvariant
<1>2. PICK fault : fault = FaultMet(call.attempt)
    OBVIOUS
<1>3. PICK n : n = call.attempt
    OBVIOUS
<1>4. /\ pc = "reply"
      /\ UNCHANGED <<issued, before, policy, maximum_read_attempts, next_sequence>>
      /\ metrics'.operations = metrics.operations
      /\ metrics'.transport_attempts = metrics.transport_attempts
      /\ metrics'.reconnects = metrics.reconnects
      /\ metrics'.retries = metrics.retries
      /\ metrics'.timeouts = metrics.timeouts + (IF fault = "timeout" THEN 1 ELSE 0)
      /\ \/ fault \in RequestFault /\ metrics'.protocol_errors = metrics.protocol_errors
         \/ /\ fault \notin RequestFault
            /\ metrics'.protocol_errors = metrics.protocol_errors
                 + (IF result'.error \in ProtocolError THEN 1 ELSE 0)
    BY <1>1, <1>2, <1>3, ConcludeEffect
<1>5. /\ result'.attempts = n
      /\ fault = "timeout" => result'.error = "timeout"
      /\ fault = "disconnect" => result'.error = "disconnected"
    BY <1>2, <1>3, ResultDue
<1>6. n \in Nat /\ n >= 1
    BY <1>1, <1>3, <1>4, FaultsMet
<1>7. /\ before.metrics.operations \in Nat /\ before.metrics.transport_attempts \in Nat
      /\ before.metrics.reconnects \in Nat /\ before.metrics.retries \in Nat
      /\ before.metrics.timeouts \in Nat /\ before.metrics.protocol_errors \in Nat
      /\ before.next_sequence \in Nat
    BY DEF TypeOK, Snapshots, ClientMetrics
<1>8. /\ metrics.operations = before.metrics.operations + 1
      /\ metrics.transport_attempts = before.metrics.transport_attempts + n
      /\ next_sequence = before.next_sequence + 2 * n
      /\ metrics.retries = before.metrics.retries + (n - 1)
      /\ metrics.reconnects = before.metrics.reconnects + ((n - 1) + Reopened)
      /\ metrics.timeouts = before.metrics.timeouts + Cardinality(TimeoutsMet(n - 1))
      /\ metrics.protocol_errors = before.metrics.protocol_errors
    BY <1>1, <1>3, <1>4 DEF MetricsAreDue, Exchanged
<1>9. metrics'.timeouts = before.metrics.timeouts + Cardinality(TimeoutsMet(n))
      /\ Cardinality(TimeoutsMet(n)) \in Nat
    <2>1. n - 1 \in Nat /\ (n - 1) + 1 = n
        BY <1>6
    <2>2. /\ Cardinality(TimeoutsMet(n - 1)) \in Nat /\ Cardinality(TimeoutsMet(n)) \in Nat
          /\ Cardinality(TimeoutsMet(n)) = Cardinality(TimeoutsMet(n - 1))
               + (IF fault = "timeout" THEN 1 ELSE 0)
        BY <1>2, <1>3, <1>6, <2>1, TimeoutsStep
    <2> QED BY <1>4, <1>7, <1>8, <2>2
<1>10. TimeoutsMet(result.attempts)' = TimeoutsMet(n)
    BY <1>4, <1>5, HistoryIsStable DEF TimeoutsMet
<1>11. metrics'.protocol_errors = before.metrics.protocol_errors
         + (IF result'.error \in ProtocolError THEN 1 ELSE 0)
    <2>1. fault \in RequestFault => result'.error \notin ProtocolError
        BY <1>5 DEF RequestFault, ProtocolError
    <2> QED BY <1>4, <1>7, <1>8, <2>1
<1>12. /\ metrics'.operations - before.metrics.operations = 1
       /\ metrics'.transport_attempts - before.metrics.transport_attempts = n
       /\ next_sequence - before.next_sequence = 2 * n
       /\ metrics'.retries - before.metrics.retries = n - 1
       /\ metrics'.reconnects - before.metrics.reconnects
            = (n - 1) + (IF n > 0 /\ ~before.connected THEN 1 ELSE 0)
       /\ metrics'.timeouts - before.metrics.timeouts = Cardinality(TimeoutsMet(n))
       /\ metrics'.protocol_errors - before.metrics.protocol_errors
            = (IF result'.error \in ProtocolError THEN 1 ELSE 0)
    BY <1>4, <1>6, <1>7, <1>8, <1>9, <1>11 DEF Reopened
<1>13. Explained(metrics', before', result', next_sequence', TimeoutsMet(result.attempts)')
    BY <1>4, <1>5, <1>6, <1>10, <1>12 DEF Explained
<1> QED BY <1>13 DEF MetricsExplainCall, Explained, TimeoutsMet

\* A call whose arguments are rejected leaves everything but one counter alone.
LEMMA RejectedCallHolds ==
    ASSUME TypeOK, UserReads \/ UserWrites, pc' = "idle"
    PROVE  CallFollowsFaultScript' /\ MemoryMatchesResult' /\ MetricsExplainCall'
<1>1. /\ before' = Snapshot /\ metrics' = [metrics EXCEPT !.operations = @ + 1]
      /\ UNCHANGED <<policy, memory, faults, next_sequence, connected>>
      /\ issued'.kind \in {"read", "write"} /\ ~ArgumentsAreValid'
      /\ result' = Failure("invalid_argument", next_request_id, 0)
    BY CallEffect
<1>2. /\ result'.error = "invalid_argument" /\ result'.attempts = 0
      /\ before'.memory = memory /\ before'.faults = faults
      /\ before'.connected = connected /\ before'.metrics = metrics
      /\ before'.next_sequence = next_sequence
    BY <1>1 DEF Failure, Snapshot
<1>3. CallFollowsFaultScript'
    <2>1. faults \in Seq(TransportFault)
        BY DEF TypeOK, LoopbackTypeOK
    <2>2. SubSeq(faults, 1, Len(faults)) = faults /\ Len(faults) \in Nat
        BY <2>1, SubSeqFull
    <2>3. SubSeq(before'.faults, result'.attempts + 1, Len(before'.faults)) = faults
        BY <1>2, <2>2
    <2>4. ErrorDue' = {"invalid_argument"}
        BY <1>1 DEF ErrorDue
    <2> QED BY <1>1, <1>2, <2>2, <2>3, <2>4 DEF CallFollowsFaultScript
<1>4. MemoryMatchesResult'
    BY <1>1, <1>2 DEF MemoryMatchesResult, ProtocolError
<1>5. MetricsExplainCall'
    <2>1. metrics \in ClientMetrics /\ next_sequence \in Nat
        BY DEF TypeOK, ClientTypeOK, LoopbackTypeOK
    <2>2. /\ metrics'.operations - metrics.operations = 1
          /\ metrics'.transport_attempts - metrics.transport_attempts = 0
          /\ next_sequence - next_sequence = 0
          /\ metrics'.retries - metrics.retries = 0
          /\ metrics'.reconnects - metrics.reconnects = 0
          /\ metrics'.timeouts - metrics.timeouts = 0
          /\ metrics'.protocol_errors - metrics.protocol_errors = 0
        BY <1>1, <2>1 DEF ClientMetrics
    <2>3. TimeoutsMet(result.attempts)' = {}
        BY <1>2 DEF TimeoutsMet
    <2>4. Cardinality({}) = 0
        BY FS_EmptySet
    <2>5. Explained(metrics', before', result', next_sequence',
                    TimeoutsMet(result.attempts)')
        BY <1>1, <1>2, <2>2, <2>3, <2>4 DEF Explained, ProtocolError
    <2> QED BY <2>5 DEF MetricsExplainCall, Explained, TimeoutsMet
<1> QED BY <1>3, <1>4, <1>5

\* What the user does between two calls leaves the last one's report true.
LEMMA IdleStepsHold ==
    ASSUME TypeOK, CallFollowsFaultScript, MemoryMatchesResult, MetricsExplainCall,
           UserScripts \/ UserClearsTrace \/ UNCHANGED vars
    PROVE  CallFollowsFaultScript' /\ MemoryMatchesResult' /\ MetricsExplainCall'
<1>1. UNCHANGED <<policy, memory, connected, next_sequence, maximum_read_attempts, metrics,
                  pc, result, issued, before>>
    BY DEF UserScripts, UserClearsTrace, PushFault, ClearTrace, clientVars, vars
<1>2. /\ ErrorDue' = ErrorDue /\ AttemptsNeeded' = AttemptsNeeded
      /\ ScriptDefeatsCall' <=> ScriptDefeatsCall
      /\ ArgumentsAreValid' <=> ArgumentsAreValid
      /\ Permitted' <=> Permitted
      /\ Installed' = Installed
      /\ \A i : FaultMet(i)' = FaultMet(i)
    BY <1>1, VerdictIsStable, HistoryIsStable
<1>3. MemoryMatchesResult'
    BY <1>1, <1>2 DEF MemoryMatchesResult, Returned
<1>4. MetricsExplainCall'
    BY <1>1, <1>2 DEF MetricsExplainCall, Returned
<1>5. CallFollowsFaultScript'
    <2> SUFFICES ASSUME Returned PROVE CallFollowsFaultScript'
        BY <1>1 DEF CallFollowsFaultScript, Returned
    <2> DEFINE left == SubSeq(before.faults, result.attempts + 1, Len(before.faults))
    <2>1. Len(faults) >= Len(left) /\ SubSeq(faults, 1, Len(left)) = left
        BY DEF CallFollowsFaultScript
    <2>2. Len(faults') >= Len(left) /\ SubSeq(faults', 1, Len(left)) = left
        <3>1. CASE faults' = faults
            BY <2>1, <3>1
        <3>2. CASE faults' # faults
            <4>1. PICK fault \in TransportFault : faults' = Append(faults, fault)
                BY <3>2 DEF UserScripts, UserClearsTrace, PushFault, ClearTrace, vars
            <4>2. /\ faults \in Seq(TransportFault) /\ before.faults \in Seq(TransportFault)
                  /\ result.attempts \in Nat
                BY DEF TypeOK, LoopbackTypeOK, Snapshots, ClientTypeOK, OperationResults
            <4>3. left \in Seq(TransportFault)
                BY <4>2, EndOfScript
            <4> QED BY <2>1, <4>1, <4>2, <4>3, AppendKeepsStart
        <3> QED BY <3>1, <3>2
    <2> QED BY <1>1, <1>2, <2>2 DEF CallFollowsFaultScript, Returned
<1> QED BY <1>3, <1>4, <1>5

\* What the properties say once a call has returned is kept by every step.
LEMMA NextReports ==
    ASSUME TypeOK, CallInvariant, CallFollowsFaultScript, MemoryMatchesResult,
           MetricsExplainCall, [Next]_vars
    PROVE  CallFollowsFaultScript' /\ MemoryMatchesResult' /\ MetricsExplainCall'
<1>1. CASE pc' # "idle"
    BY <1>1 DEF CallFollowsFaultScript, MemoryMatchesResult, MetricsExplainCall, Returned
<1>2. CASE pc' = "idle"
    <2>1. CASE UserReads \/ UserWrites
        BY <1>2, <2>1, RejectedCallHolds
    <2>2. CASE ClientAttempts
        BY <1>2, <2>2, AttemptEffect DEF CallInvariant
    <2>3. CASE TransportExchanges
        BY <1>2, <2>3 DEF TransportExchanges
    <2>4. CASE ClientConcludes
        BY <1>2, <2>4, ReturnFollowsScript, ReturnMatchesMemory, ReturnExplainsMetrics
    <2>5. CASE UserScripts \/ UserClearsTrace \/ UNCHANGED vars
        BY <2>5, IdleStepsHold
    <2> QED BY <2>1, <2>2, <2>3, <2>4, <2>5 DEF Next
<1> QED BY <1>1, <1>2

\* The inductive invariant: the calls under way, the records and the reports.
LaboratoryInvariant ==
    /\ WorkbenchInvariant
    /\ CallInvariant
    /\ RecordsAreNumbered
    /\ RetriesRepeatTheRequest
    /\ CallFollowsFaultScript
    /\ MemoryMatchesResult
    /\ MetricsExplainCall

\* It holds when the objects have been constructed: no call has been made.
LEMMA InitLaboratory == Init => LaboratoryInvariant
<1> SUFFICES ASSUME Init PROVE LaboratoryInvariant
    OBVIOUS
<1>1. WorkbenchInvariant
    BY InitWorkbenchInvariant
<1>2. pc = "idle" /\ issued.kind = "nothing"
    BY DEF Init, ClientInit, Issued
<1>3. DOMAIN trace = {}
    BY DEF Init, LoopbackInit
<1>4. CallInvariant
    BY <1>2 DEF CallInvariant, RequestIsAsIssued, ScriptIsFollowed, ReplyIsDue, MemoryIsDue,
                MetricsAreDue
<1>5. RecordsAreNumbered /\ RetriesRepeatTheRequest
    BY <1>3 DEF RecordsAreNumbered, RetriesRepeatTheRequest
<1>6. ~Returned
    BY <1>2 DEF Returned
<1>7. CallFollowsFaultScript /\ MemoryMatchesResult /\ MetricsExplainCall
    BY <1>6 DEF CallFollowsFaultScript, MemoryMatchesResult, MetricsExplainCall
<1> QED BY <1>1, <1>4, <1>5, <1>7 DEF LaboratoryInvariant

\* Every step preserves it.
LEMMA NextLaboratory == LaboratoryInvariant /\ [Next]_vars => LaboratoryInvariant'
<1> SUFFICES ASSUME LaboratoryInvariant, [Next]_vars PROVE LaboratoryInvariant'
    OBVIOUS
<1>1. /\ WorkbenchInvariant /\ TypeOK /\ CallInvariant /\ RecordsAreNumbered
      /\ RetriesRepeatTheRequest
      /\ CallFollowsFaultScript /\ MemoryMatchesResult /\ MetricsExplainCall
    BY DEF LaboratoryInvariant, WorkbenchInvariant
<1>2. WorkbenchInvariant'
    BY <1>1, NextWorkbenchInvariant
<1>3. CallInvariant'
    <2>1. RequestIsAsIssued' /\ ScriptIsFollowed'
        BY <1>1, NextRequest, NextScript
    <2>2. ReplyIsDue' /\ MemoryIsDue' /\ MetricsAreDue'
        BY <1>1, NextReply, NextMemory, NextMetrics
    <2> QED BY <2>1, <2>2 DEF CallInvariant
<1>4. RecordsAreNumbered' /\ RetriesRepeatTheRequest'
    BY <1>1, NextTrace
<1>5. CallFollowsFaultScript' /\ MemoryMatchesResult' /\ MetricsExplainCall'
    BY <1>1, NextReports
<1> QED BY <1>2, <1>3, <1>4, <1>5 DEF LaboratoryInvariant

\* The invariant holds in every reachable state.
THEOREM LaboratoryInvariantHolds == Spec => []LaboratoryInvariant
BY InitLaboratory, NextLaboratory, PTL DEF Spec

\* However long the fault script and whatever the attempt limit, a call ends as
\* the script at its start says: with the error of the exchange it stops at, after
\* the attempts it needs and no others, having used up one fault per attempt, and
\* with the connection open just if that exchange was answered.
THEOREM WorkbenchCallFollowsFaultScript == Spec => []CallFollowsFaultScript
<1>1. LaboratoryInvariant => CallFollowsFaultScript
    BY DEF LaboratoryInvariant
<1> QED BY <1>1, LaboratoryInvariantHolds, PTL

\* For every address, length and data, what the user learns is what happened to
\* the memory: a write is stored whole or not at all, and a write that reports a
\* timeout or a lost connection has stored nothing over this transport.
THEOREM WorkbenchMemoryMatchesResult == Spec => []MemoryMatchesResult
<1>1. LaboratoryInvariant => MemoryMatchesResult
    BY DEF LaboratoryInvariant
<1> QED BY <1>1, LaboratoryInvariantHolds, PTL

\* The six counters and the numbering of the trace follow from a call's result
\* and its script; also the timeouts that a successful retry hides are counted.
THEOREM WorkbenchMetricsExplainCall == Spec => []MetricsExplainCall
<1>1. LaboratoryInvariant => MetricsExplainCall
    BY DEF LaboratoryInvariant
<1> QED BY <1>1, LaboratoryInvariantHolds, PTL

\* Every attempt of a call sends the same bytes, and they decode to what the
\* user asked for under the nonzero request ID the user is told.
THEOREM WorkbenchRetriesRepeatTheRequest == Spec => []RetriesRepeatTheRequest
<1>1. LaboratoryInvariant => RetriesRepeatTheRequest
    BY DEF LaboratoryInvariant
<1> QED BY <1>1, LaboratoryInvariantHolds, PTL
=============================================================================
