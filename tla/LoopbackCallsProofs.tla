------------------------- MODULE LoopbackCallsProofs -------------------------
(***************************************************************************)
(* The loopback transport on its own, for all byte vectors, deadlines and  *)
(* scripts of faults, in any order of calls.                               *)
(***************************************************************************)
EXTENDS LoopbackCalls, ComponentProofs

\* Every conjunct but the last is a property of the run; the last is what the
\* type of the memory rests on.
LoopbackInvariant ==
    /\ TypeOK
    /\ TraceIsPairedAndNumbered
    /\ RequestFaultsStrikeBeforeTheServer
    /\ ResponseFaultsAreDetectable
    /\ FaultsAwaitTheirExchange
    /\ ProtectedBytesKeepTheirValue

\* It holds when the objects have been constructed.
LEMMA InitLoopback == Init => LoopbackInvariant
<1> SUFFICES ASSUME Init PROVE LoopbackInvariant
    OBVIOUS
<1>1. policy \in ServerPolicy /\ memory \in Memory /\ ProtectedBytesKeepTheirValue
    BY ServerConstants, InitialMemoryType
    DEF Init, ServerInit, ProtectedBytesKeepTheirValue
<1>2. /\ connected = FALSE /\ reply = TransportReply("none", EmptyWire)
      /\ faults = <<>> /\ trace = <<>> /\ next_sequence = 1 /\ exchanges = 0
    BY DEF Init, LoopbackInit, TransportInit
<1>3. last = [request |-> EmptyWire, deadline |-> 0, connected |-> FALSE,
              fault |-> "no_fault", script |-> <<>>, memory |-> memory]
    BY DEF Init
<1>4. TypeOK
    <2>1. reply \in TransportReplies
        BY <1>2, EmptyWireType DEF TransportReply, TransportReplies, TransportError
    <2>2. <<>> \in Seq(TransportFault) /\ <<>> \in Seq(TraceRecord)
        OBVIOUS
    <2>3. last \in [request : Wire, deadline : Int, connected : BOOLEAN,
                    fault : TransportFault \cup {"no_fault"},
                    script : Seq(TransportFault), memory : Memory]
        BY <1>1, <1>3, <2>2, EmptyWireType
    <2> QED BY <1>1, <1>2, <2>1, <2>2, <2>3 DEF TypeOK, LoopbackTypeOK, TransportTypeOK
<1>5. TraceIsPairedAndNumbered
    BY <1>2 DEF TraceIsPairedAndNumbered
<1>6. RequestFaultsStrikeBeforeTheServer /\ ResponseFaultsAreDetectable
    BY <1>2, <1>3 DEF RequestFaultsStrikeBeforeTheServer, ResponseFaultsAreDetectable,
                      Served, TransportReply
<1>7. FaultsAwaitTheirExchange
    BY <1>2, <1>3 DEF FaultsAwaitTheirExchange, ScriptLeft
<1> QED BY <1>1, <1>4, <1>5, <1>6, <1>7 DEF LoopbackInvariant

\* The two records of an exchange continue the pairs and their numbering.
LEMMA RecordKeepsPairs ==
    ASSUME TypeOK, TraceIsPairedAndNumbered, NEW request, NEW outcome, NEW response,
           RecordExchange(request, outcome, response), exchanges' = exchanges + 1
    PROVE  TraceIsPairedAndNumbered'
<1> DEFINE r1 == [sequence |-> next_sequence, direction |-> "client_to_server",
                  outcome |-> "sent", bytes |-> request]
           r2 == [sequence |-> next_sequence + 1, direction |-> "server_to_client",
                  outcome |-> outcome, bytes |-> response]
           n == Len(trace)
<1>1. /\ trace \in Seq(TraceRecord) /\ next_sequence \in Nat /\ exchanges \in Nat
      /\ n \in Nat /\ n % 2 = 0
    <2>1. trace \in Seq(TraceRecord) /\ next_sequence \in Nat /\ exchanges \in Nat
        BY DEF TypeOK, LoopbackTypeOK
    <2> QED BY <2>1 DEF TraceIsPairedAndNumbered
<1>2. /\ r1.sequence = next_sequence /\ r1.direction = "client_to_server"
      /\ r1.outcome = "sent"
      /\ r2.sequence = next_sequence + 1 /\ r2.direction = "server_to_client"
    OBVIOUS
<1>3. trace' = trace \o <<r1, r2>> /\ next_sequence' = next_sequence + 2
    BY DEF RecordExchange
<1> HIDE DEF r1, r2
<1>4. /\ Len(trace') = n + 2 /\ DOMAIN trace' = 1 .. n + 2
      /\ \A i \in 1 .. n : trace'[i] = trace[i]
      /\ trace'[n + 1] = r1 /\ trace'[n + 2] = r2
    BY <1>1, <1>3
<1>5. DOMAIN trace = 1 .. n
    BY <1>1
<1> HIDE DEF n
<1>6. (n + 1) % 2 = 1 /\ (n + 2) % 2 = 0
    BY <1>1
<1>7. ASSUME NEW i \in DOMAIN trace'
      PROVE  /\ trace'[i].sequence = next_sequence' - Len(trace') + i - 1
             /\ trace'[i].direction = IF i % 2 = 1 THEN "client_to_server"
                                      ELSE "server_to_client"
             /\ i % 2 = 1 => trace'[i].outcome = "sent"
    <2>1. CASE i \in 1 .. n
        BY <1>1, <1>3, <1>4, <1>5, <2>1 DEF TraceIsPairedAndNumbered, n
    <2>2. CASE i = n + 1
        <3>1. trace'[i] = r1 /\ i % 2 = 1
            BY <1>4, <1>6, <2>2
        <3>2. next_sequence' - Len(trace') + i - 1 = next_sequence
            <4>1. /\ n \in Nat /\ next_sequence \in Nat /\ Len(trace') = n + 2
                  /\ next_sequence' = next_sequence + 2
                BY <1>1, <1>3, <1>4
            <4> QED BY <2>2, <4>1
        <3> QED BY <1>2, <3>1, <3>2
    <2>3. CASE i = n + 2
        BY <1>1, <1>2, <1>3, <1>4, <1>6, <2>3
    <2> QED BY <1>1, <1>4, <1>7, <2>1, <2>2, <2>3
<1>8. next_sequence' = 1 + 2 * exchanges' /\ Len(trace') % 2 = 0
    BY <1>1, <1>3, <1>4, <1>6 DEF TraceIsPairedAndNumbered
<1> QED BY <1>7, <1>8 DEF TraceIsPairedAndNumbered

\* Whether a write is applied depends on the policy alone.
LEMMA AppliesIsStable ==
    ASSUME UNCHANGED policy, NEW w
    PROVE  Applies(w)' <=> Applies(w)
BY DEF Applies, WriteVerdict, write_is_allowed

\* What exchange() does to the fault script.
LEMMA ExchangeLeavesScript ==
    ASSUME faults \in Seq(TransportFault), NEW w, NEW deadline \in Int,
           Exchange(w, deadline)
    PROVE  faults' = IF connected /\ deadline > 0 /\ faults # <<>> THEN Tail(faults)
                     ELSE faults
<1>1. CASE ExchangeNotConnected(w, deadline)
    BY <1>1 DEF ExchangeNotConnected
<1>2. CASE ExchangeDeadlineExpired(w, deadline)
    BY <1>2 DEF ExchangeDeadlineExpired
<1>3. CASE ExchangeTimesOut(w, deadline)
    BY <1>3 DEF ExchangeTimesOut, RemainingFaults
<1>4. CASE ExchangeDisconnects(w, deadline)
    BY <1>4 DEF ExchangeDisconnects, RemainingFaults
<1>5. CASE ExchangeIsServed(w, deadline)
    BY <1>5 DEF ExchangeIsServed, RemainingFaults
<1> QED BY <1>1, <1>2, <1>3, <1>4, <1>5 DEF Exchange

\* A call of exchange() preserves the invariant.
LEMMA CallKeepsLoopback ==
    ASSUME LoopbackInvariant, NEW w \in Wires, NEW deadline \in Deadlines,
           Call(w, deadline)
    PROVE  LoopbackInvariant'
<1>1. /\ TypeOK /\ LoopbackTypeOK /\ exchanges \in Nat /\ connected \in BOOLEAN
      /\ memory \in Memory /\ policy \in ServerPolicy /\ faults \in Seq(TransportFault)
      /\ ProtectedBytesKeepTheirValue /\ TraceIsPairedAndNumbered
    BY DEF LoopbackInvariant, TypeOK, LoopbackTypeOK, TransportTypeOK
<1>2. w \in Wire /\ deadline \in Int
    BY LoopbackCallsConstants
<1>3. /\ Exchange(w, deadline)
      /\ last' = [request |-> w, deadline |-> deadline, connected |-> connected,
                  fault |-> NextFault, script |-> faults, memory |-> memory]
      /\ exchanges' = IF connected THEN exchanges + 1 ELSE exchanges
    BY DEF Call
<1>4. TypeOK' /\ ProtectedBytesKeepTheirValue'
    <2>1. LoopbackTypeOK' /\ ProtectedBytesKeepTheirValue'
        BY <1>1, <1>2, <1>3, ExchangeType
    <2>2. NextFault \in TransportFault \cup {"no_fault"}
        BY <1>1 DEF NextFault
    <2>3. last' \in [request : Wire, deadline : Int, connected : BOOLEAN,
                     fault : TransportFault \cup {"no_fault"},
                     script : Seq(TransportFault), memory : Memory]
        BY <1>1, <1>2, <1>3, <2>2
    <2> QED BY <1>1, <1>3, <2>1, <2>3 DEF TypeOK
<1>5. /\ last'.request = w /\ last'.deadline = deadline /\ last'.connected = connected
      /\ last'.fault = NextFault /\ last'.script = faults /\ last'.memory = memory
    BY <1>3
<1>6. UNCHANGED policy
    BY <1>3 DEF Exchange, ExchangeNotConnected, ExchangeDeadlineExpired, ExchangeTimesOut,
                ExchangeDisconnects, ExchangeIsServed, Handle
<1>7. FaultsAwaitTheirExchange'
    <2>1. faults' = ScriptLeft'
        BY <1>1, <1>2, <1>3, <1>5, ExchangeLeavesScript DEF ScriptLeft
    <2>2. faults' \in Seq(TransportFault)
        BY <1>4 DEF TypeOK, LoopbackTypeOK
    <2> QED BY <2>1, <2>2 DEF FaultsAwaitTheirExchange
\* The calls that fail.
<1>8. ASSUME reply'.error # "none", memory' = memory, ~Served',
             TraceIsPairedAndNumbered'
      PROVE  LoopbackInvariant'
    BY <1>4, <1>5, <1>7, <1>8 DEF LoopbackInvariant, RequestFaultsStrikeBeforeTheServer,
                            ResponseFaultsAreDetectable
<1>9. CASE ExchangeNotConnected(w, deadline)
    <2>1. /\ ~connected /\ reply'.error # "none"
          /\ UNCHANGED <<memory, trace, next_sequence>>
        BY <1>9 DEF ExchangeNotConnected, TransportReply
    <2>2. TraceIsPairedAndNumbered'
        BY <1>1, <1>3, <2>1 DEF TraceIsPairedAndNumbered
    <2> QED BY <1>5, <1>8, <2>1, <2>2 DEF Served
<1>10. CASE ExchangeDeadlineExpired(w, deadline)
    <2>1. /\ connected /\ ~(deadline > 0) /\ reply'.error # "none" /\ memory' = memory
          /\ RecordExchange(w, "deadline_expired", EmptyWire)
        BY <1>2, <1>10 DEF ExchangeDeadlineExpired, TransportReply
    <2> QED BY <1>1, <1>3, <1>5, <1>8, <2>1, RecordKeepsPairs DEF Served
<1>11. CASE ExchangeTimesOut(w, deadline)
    <2>1. /\ connected /\ NextFault = "timeout" /\ reply'.error # "none"
          /\ memory' = memory /\ RecordExchange(w, "timeout", EmptyWire)
        BY <1>11 DEF ExchangeTimesOut, TransportReply
    <2> QED BY <1>1, <1>3, <1>5, <1>8, <2>1, RecordKeepsPairs DEF Served
<1>12. CASE ExchangeDisconnects(w, deadline)
    <2>1. /\ connected /\ NextFault = "disconnect" /\ reply'.error # "none"
          /\ memory' = memory /\ RecordExchange(w, "disconnected", EmptyWire)
        BY <1>12 DEF ExchangeDisconnects, TransportReply
    <2> QED BY <1>1, <1>3, <1>5, <1>8, <2>1, RecordKeepsPairs DEF Served
\* The call the server answers.
<1>13. CASE ExchangeIsServed(w, deadline)
    <2>1. PICK answer : answer = Handled(w).response
        OBVIOUS
    <2>2. /\ connected /\ memory' = MemoryAfter(w)
          /\ NextFault \notin {"timeout", "disconnect"}
          /\ reply' = TransportReply("none", Distorted(NextFault, answer))
          /\ \E outcome, response : RecordExchange(w, outcome, response)
        BY <1>13, <2>1 DEF ExchangeIsServed, Handle
    <2>3. TraceIsPairedAndNumbered'
        BY <1>1, <1>3, <2>2, RecordKeepsPairs
    <2>4. reply'.error = "none" /\ reply'.bytes = Distorted(NextFault, answer)
        BY <2>2 DEF TransportReply
    <2>5. RequestFaultsStrikeBeforeTheServer'
        <3>1. Applies(last.request)' <=> Applies(w)
            <4>1. PICK v : v = w
                OBVIOUS
            <4>2. Applies(v)' <=> Applies(v)
                BY <1>6, AppliesIsStable
            <4>3. Applies(last.request)' <=> Applies(v)'
                BY <1>5, <4>1
            <4> QED BY <4>1, <4>2, <4>3
        <3> QED BY <1>5, <2>2, <2>4, <3>1
            DEF RequestFaultsStrikeBeforeTheServer, MemoryAfter
    <2>6. ResponseFaultsAreDetectable'
        <3>1. CASE ~Decodes(w)
            <4>1. answer = EmptyWire
                BY <2>1, <3>1 DEF Handled, HandleResult
            <4>2. EmptyWire.size = 0 /\ ~Decodes(EmptyWire)
                BY DEF EmptyWire, Decodes, DecodeError, header_size, checksum_size
            <4>3. Distorted(NextFault, EmptyWire) = EmptyWire
                BY <4>2 DEF Distorted, WithWrongRequestId
            <4> QED BY <1>5, <2>4, <3>1, <4>1, <4>3 DEF ResponseFaultsAreDetectable
        <3> SUFFICES ASSUME Decodes(w) PROVE ResponseFaultsAreDetectable'
            BY <3>1
        <3>2. /\ answer \in Wire /\ Decodes(answer)
              /\ answer.request_id = w.request_id /\ answer.address = w.address
            BY <1>1, <1>2, <2>1, AnswerFields
        <3> QED BY <1>5, <2>4, <3>2, DistortedAnswer DEF ResponseFaultsAreDetectable
    <2> QED BY <1>4, <1>7, <2>3, <2>5, <2>6 DEF LoopbackInvariant
<1> QED BY <1>3, <1>9, <1>10, <1>11, <1>12, <1>13 DEF Exchange

\* Between exchanges the script only grows, at its end.
LEMMA ScriptIsKept ==
    ASSUME LoopbackInvariant, UNCHANGED last,
           \/ UNCHANGED faults
           \/ \E fault \in TransportFault : faults' = Append(faults, fault)
    PROVE  FaultsAwaitTheirExchange'
<1>1. /\ faults \in Seq(TransportFault) /\ FaultsAwaitTheirExchange
      /\ last.script \in Seq(TransportFault)
    BY DEF LoopbackInvariant, TypeOK, LoopbackTypeOK
<1>2. ScriptLeft \in Seq(TransportFault) /\ ScriptLeft' = ScriptLeft
    BY <1>1 DEF ScriptLeft
<1> HIDE DEF ScriptLeft
<1>3. CASE UNCHANGED faults
    BY <1>1, <1>2, <1>3 DEF FaultsAwaitTheirExchange
<1>4. CASE \E fault \in TransportFault : faults' = Append(faults, fault)
    <2>1. PICK fault \in TransportFault : faults' = Append(faults, fault)
        BY <1>4
    <2>2. /\ Len(faults') = Len(faults) + 1
          /\ \A i \in 1 .. Len(faults) : faults'[i] = faults[i]
        BY <1>1, <2>1
    <2>3. Len(faults) \in Nat /\ Len(ScriptLeft) \in Nat
        BY <1>1, <1>2
    <2> QED BY <1>1, <1>2, <2>2, <2>3 DEF FaultsAwaitTheirExchange
<1> QED BY <1>3, <1>4

\* Every step preserves the invariant.
LEMMA NextLoopback == LoopbackInvariant /\ [Next]_vars => LoopbackInvariant'
<1> SUFFICES ASSUME LoopbackInvariant, [Next]_vars PROVE LoopbackInvariant'
    OBVIOUS
<1>1. /\ LoopbackTypeOK /\ TransportTypeOK /\ exchanges \in Nat
      /\ last \in [request : Wire, deadline : Int, connected : BOOLEAN,
                   fault : TransportFault \cup {"no_fault"},
                   script : Seq(TransportFault), memory : Memory]
    BY DEF LoopbackInvariant, TypeOK, LoopbackTypeOK
\* The steps between exchanges, which leave alone all the properties speak of
\* but the trace.
<1>2. ASSUME UNCHANGED <<policy, memory, reply, next_sequence, last, exchanges>>,
             connected' \in BOOLEAN, faults' \in Seq(TransportFault),
             trace' \in {trace, <<>>}, FaultsAwaitTheirExchange'
      PROVE  LoopbackInvariant'
    <2>1. trace' \in Seq(TraceRecord)
        <3>1. <<>> \in Seq(TraceRecord) /\ trace \in Seq(TraceRecord)
            BY <1>1 DEF LoopbackTypeOK
        <3> QED BY <1>2, <3>1
    <2>2. TypeOK' /\ ProtectedBytesKeepTheirValue'
        BY <1>1, <1>2, <2>1 DEF LoopbackInvariant, TypeOK, LoopbackTypeOK, TransportTypeOK,
                                ProtectedBytesKeepTheirValue, Writable
    <2>3. TraceIsPairedAndNumbered'
        <3>1. CASE trace' = trace
            BY <1>2, <3>1 DEF LoopbackInvariant, TraceIsPairedAndNumbered
        <3>2. CASE trace' = <<>>
            BY <1>2, <3>2 DEF LoopbackInvariant, TraceIsPairedAndNumbered
        <3> QED BY <1>2, <3>1, <3>2
    <2>4. RequestFaultsStrikeBeforeTheServer'
        <3>1. Applies(last.request)' <=> Applies(last.request)
            BY <1>2 DEF Applies, WriteVerdict, write_is_allowed
        <3> QED BY <1>2, <3>1 DEF LoopbackInvariant, RequestFaultsStrikeBeforeTheServer,
                                  Served
    <2>5. ResponseFaultsAreDetectable'
        BY <1>2 DEF LoopbackInvariant, ResponseFaultsAreDetectable, Served
    <2> QED BY <1>2, <2>2, <2>3, <2>4, <2>5 DEF LoopbackInvariant
<1>3. CASE \E w \in Wires, deadline \in Deadlines : Call(w, deadline)
    BY <1>3, CallKeepsLoopback
<1>4. CASE Adjust
    <2>1. UNCHANGED <<last, exchanges>>
        BY <1>4 DEF Adjust
    <2>2. CASE Connect \/ Close \/ ClearTrace
        <3>1. UNCHANGED faults
            BY <2>2 DEF Connect, Close, ClearTrace
        <3>2. FaultsAwaitTheirExchange'
            BY <2>1, <3>1, ScriptIsKept
        <3> QED BY <1>1, <1>2, <2>1, <2>2, <3>2
            DEF Connect, Close, ClearTrace, LoopbackTypeOK, TransportTypeOK
    <2>3. CASE \E fault \in TransportFault : PushFault(fault)
        <3>1. faults' \in Seq(TransportFault)
            BY <1>1, <2>3 DEF PushFault, LoopbackTypeOK
        <3>2. FaultsAwaitTheirExchange'
            BY <2>1, <2>3, ScriptIsKept DEF PushFault
        <3> QED BY <1>1, <1>2, <2>1, <2>3, <3>1, <3>2 DEF PushFault, TransportTypeOK
    <2> QED BY <1>4, <2>2, <2>3 DEF Adjust
<1>5. CASE UNCHANGED vars
    <2>1. FaultsAwaitTheirExchange'
        BY <1>5, ScriptIsKept DEF vars
    <2> QED BY <1>1, <1>2, <1>5, <2>1 DEF vars, LoopbackTypeOK, TransportTypeOK
<1> QED BY <1>3, <1>4, <1>5 DEF Next

\* The invariant holds in every reachable state.
THEOREM LoopbackInvariantHolds == Spec => []LoopbackInvariant
BY InitLoopback, NextLoopback, PTL DEF Spec

\* Everything the transport keeps has its type, whatever bytes it is handed.
THEOREM LoopbackTypeCorrect == Spec => []TypeOK
<1>1. LoopbackInvariant => TypeOK
    BY DEF LoopbackInvariant
<1> QED BY <1>1, LoopbackInvariantHolds, PTL

\* The trace is a sequence of numbered pairs, and no number is given out twice.
THEOREM LoopbackTraceIsPairedAndNumbered == Spec => []TraceIsPairedAndNumbered
<1>1. LoopbackInvariant => TraceIsPairedAndNumbered
    BY DEF LoopbackInvariant
<1> QED BY <1>1, LoopbackInvariantHolds, PTL

\* A request fault leaves the memory alone, a response fault comes too late to.
THEOREM LoopbackRequestFaultsStrikeBeforeTheServer ==
    Spec => []RequestFaultsStrikeBeforeTheServer
<1>1. LoopbackInvariant => RequestFaultsStrikeBeforeTheServer
    BY DEF LoopbackInvariant
<1> QED BY <1>1, LoopbackInvariantHolds, PTL

\* An exchange takes at most its own fault off the script, and none when it fails
\* for want of a connection or of time.
THEOREM LoopbackFaultsAwaitTheirExchange == Spec => []FaultsAwaitTheirExchange
<1>1. LoopbackInvariant => FaultsAwaitTheirExchange
    BY DEF LoopbackInvariant
<1> QED BY <1>1, LoopbackInvariantHolds, PTL

\* No response fault makes an answer that passes for an honest one.
THEOREM LoopbackResponseFaultsAreDetectable == Spec => []ResponseFaultsAreDetectable
<1>1. LoopbackInvariant => ResponseFaultsAreDetectable
    BY DEF LoopbackInvariant
<1> QED BY <1>1, LoopbackInvariantHolds, PTL
=============================================================================
