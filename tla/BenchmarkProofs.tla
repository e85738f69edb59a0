--------------------------- MODULE BenchmarkProofs ---------------------------
(***************************************************************************)
(* The benchmark's checksum, for every number of samples and of operations *)
(* per sample.                                                             *)
(***************************************************************************)
EXTENDS Benchmark, ComponentProofs

\* The sum over the first n operations of a batch, as the property states it.
BatchSum(n) == (n * (n + 1)) \div 2 + 16 * n

\* The objects have their types and the loop counters their ranges.
LoopTypeOK ==
    /\ policy \in ServerPolicy /\ memory \in Memory
    /\ sample \in Nat /\ index \in 0 .. operations_per_sample

BenchmarkInvariant == LoopTypeOK /\ ChecksumCountsServedReads

\* One more operation adds its request ID and sixteen bytes.
LEMMA BatchSumStep ==
    ASSUME NEW n \in Nat
    PROVE  /\ BatchSum(n) \in Nat /\ BatchSum(0) = 0
           /\ BatchSum(n + 1) = BatchSum(n) + (n + 1) + 16
<1>1. n * (n + 1) \in Nat /\ (n + 1) * ((n + 1) + 1) = n * (n + 1) + 2 * (n + 1)
    OBVIOUS
<1>2. \A x, y \in Nat : (x + 2 * y) \div 2 = (x \div 2) + y
    OBVIOUS
<1>3. ((n + 1) * ((n + 1) + 1)) \div 2 = ((n * (n + 1)) \div 2) + (n + 1)
    BY <1>1, <1>2
<1>4. \A x \in Nat : x \div 2 \in Nat
    OBVIOUS
<1>5. (n * (n + 1)) \div 2 \in Nat
    BY <1>1, <1>4
<1> QED BY <1>3, <1>5 DEF BatchSum

\* Every operation of the loop is encoded, served in full and answered under
\* its own request ID.
LEMMA OperationIsServed ==
    ASSUME LoopTypeOK, index < operations_per_sample
    PROVE  LET request == BatchRequest(index)
               w == EncodedBytes(request)
               response == Handled(w).response
           IN /\ EncodeError(request) = "none" /\ w \in Wire /\ ~Applies(w)
              /\ Decodes(response)
              /\ response.request_id = index + 1 /\ Len(response.payload) = 16
<1> DEFINE request == BatchRequest(index)
           w == EncodedBytes(request)
           a == BatchAddress(index)
<1>1. a \in 0 .. 127 /\ index + 1 \in RequestId /\ index \in Nat
    BY BenchmarkConstants, FrameConstants DEF LoopTypeOK, BatchAddress, RequestId
<1>2. a \in Address
    <2>1. 127 < AddressSpace /\ AddressSpace \in Nat
        BY BenchmarkReadsFit, MemoryConstants, FrameConstants
    <2> QED BY <1>1, <2>1 DEF Address
<1>3. /\ request.version = protocol_version /\ request.opcode = "read_request"
      /\ request.flags = 0 /\ request.request_id = index + 1 /\ request.address = a
      /\ request.status = "ok" /\ request.payload = <<0, 16>>
    BY DEF BatchRequest
<1>4. <<0, 16>> \in Seq(Byte) /\ Len(<<0, 16>>) = 2
    BY BenchmarkReadsFit, FrameConstants DEF Byte
<1>5. request \in Frame
    BY <1>1, <1>2, <1>4 DEF BatchRequest, Frame, OpcodeByte, Opcode, RequestOpcode,
                            StatusWord, Status, protocol_version
<1> HIDE DEF request, a
<1>6. EncodeError(request) = "none"
    <2>1. has_valid_semantics(request)
        <3>1. ~IsResponse(0) /\ ~HasUnknownFlags(0)
            BY DEF IsResponse, HasUnknownFlags, response_flag
        <3>2. "read_request" \notin ResponseOpcode
            BY DEF ResponseOpcode
        <3> QED BY <1>3, <1>4, <3>1, <3>2 DEF has_valid_semantics
    <2>2. ~(Len(request.payload) > maximum_payload_size)
        BY <1>3, <1>4, BenchmarkReadsFit, FrameConstants
    <2> QED BY <1>3, <2>1, <2>2 DEF EncodeError, is_supported_opcode, Opcode, RequestOpcode
<1>7. w \in Wire /\ Decodes(w) /\ DecodedFrame(w) = request
    BY <1>5, <1>6, EncodedBytesType
<1>8. /\ w.opcode = "read_request" /\ w.request_id = index + 1 /\ w.address = a
      /\ w.payload = <<0, 16>>
    BY <1>3 DEF EncodedBytes
<1> HIDE DEF w
<1>9. LengthField(<<0, 16>>) = 16
    BY FrameConstants DEF LengthField
<1>10. ReadStatus(a, 16) = "ok"
    <2>1. RangeAccepted(a, 16)
        BY <1>1, BenchmarkReadsFit, MemoryConstants DEF RangeAccepted, range_fits
    <2>2. \A offset \in 0 .. 15 : access_for(a + offset) # "denied"
        BY <1>1, BenchmarkReadsFit, MemoryConstants DEF access_for
    <2> QED BY <2>1, <2>2 DEF ReadStatus
<1>11. memory \in Memory
    BY DEF LoopTypeOK
<1>12. RequestVerdict(DecodedFrame(w)) =
           Verdict("data_response", "ok", ReadBytes(memory, a, 16), "read_ok")
    BY <1>3, <1>7, <1>9, <1>10 DEF RequestVerdict, ReadVerdict
<1>13. /\ Decodes(Handled(w).response)
       /\ Handled(w).response.request_id = index + 1
       /\ Handled(w).response.payload = ReadBytes(memory, a, 16)
    BY <1>7, <1>8, <1>11, <1>12, AnswerFields DEF Verdict
<1>14. Len(ReadBytes(memory, a, 16)) = 16
    <2> HIDE DEF a, w, request
    <2>1. 16 \in Nat
        OBVIOUS
    <2> QED BY <1>2, <1>10, <1>11, <2>1, ReadBytesType
<1>15. ~Applies(w)
    BY <1>8 DEF Applies
<1> QED BY <1>6, <1>7, <1>13, <1>14, <1>15 DEF request, w

\* The invariant holds before the first operation.
LEMMA InitBenchmark == Init => BenchmarkInvariant
<1> SUFFICES ASSUME Init PROVE BenchmarkInvariant
    OBVIOUS
<1>1. policy \in ServerPolicy /\ memory \in Memory
    BY ServerConstants, InitialMemoryType DEF Init, ServerInit
<1>2. sample = 0 /\ index = 0 /\ checksum = 0 /\ ~failed
    BY DEF Init
<1>3. operations_per_sample \in Nat
    BY BenchmarkConstants
<1>4. BatchSum(operations_per_sample) \in Nat /\ BatchSum(0) = 0
    BY <1>3, BatchSumStep
<1>5. checksum = sample * BatchSum(operations_per_sample) + BatchSum(index)
    BY <1>2, <1>4
<1> QED BY <1>1, <1>2, <1>3, <1>5
    DEF BenchmarkInvariant, LoopTypeOK, ChecksumCountsServedReads, BatchSum

\* Every operation and the end of every batch preserve it.
LEMMA NextBenchmark == BenchmarkInvariant /\ [Next]_vars => BenchmarkInvariant'
<1> SUFFICES ASSUME BenchmarkInvariant, [Next]_vars PROVE BenchmarkInvariant'
    OBVIOUS
<1> DEFINE all == BatchSum(operations_per_sample)
<1>1. /\ LoopTypeOK /\ policy \in ServerPolicy /\ memory \in Memory
      /\ sample \in Nat /\ index \in 0 .. operations_per_sample
      /\ ~failed /\ checksum = sample * all + BatchSum(index)
    BY DEF BenchmarkInvariant, LoopTypeOK, ChecksumCountsServedReads, BatchSum
<1>2. operations_per_sample \in Nat /\ index \in Nat
    BY <1>1, BenchmarkConstants
<1>3. /\ all \in Nat /\ BatchSum(index) \in Nat /\ BatchSum(0) = 0
      /\ BatchSum(index + 1) = BatchSum(index) + (index + 1) + 16
    BY <1>2, BatchSumStep
<1>4. ASSUME policy' = policy, memory' = memory, sample' \in Nat,
             index' \in 0 .. operations_per_sample, ~failed',
             checksum' = sample' * all + BatchSum(index')
      PROVE  BenchmarkInvariant'
    BY <1>1, <1>4 DEF BenchmarkInvariant, LoopTypeOK, ChecksumCountsServedReads, BatchSum
<1> HIDE DEF all
<1>5. CASE Operate
    <2>1. index < operations_per_sample
        BY <1>5 DEF Operate
    <2>2. /\ policy' = policy /\ memory' = memory /\ sample' = sample
          /\ index' = index + 1 /\ ~failed'
          /\ checksum' = checksum + (index + 1) + 16
        BY <1>1, <1>5, <2>1, OperationIsServed DEF Operate, Handle, MemoryAfter
    <2>3. sample * all \in Nat
        BY <1>1, <1>3
    <2>4. checksum' = sample' * all + BatchSum(index')
        BY <1>1, <1>2, <1>3, <2>2, <2>3
    <2> QED BY <1>1, <1>2, <1>4, <2>1, <2>2, <2>4
<1>6. CASE FinishSample
    <2>1. /\ policy' = policy /\ memory' = memory /\ sample' = sample + 1
          /\ index = operations_per_sample /\ index' = 0 /\ ~failed'
          /\ checksum' = checksum
        BY <1>1, <1>6 DEF FinishSample
    <2>2. (sample + 1) * all = sample * all + all /\ sample * all \in Nat
        BY <1>1, <1>3
    <2>3. checksum' = sample' * all + BatchSum(index')
        BY <1>1, <1>3, <2>1, <2>2 DEF all
    <2> QED BY <1>1, <1>2, <1>4, <2>1, <2>3
<1>7. CASE UNCHANGED vars
    BY <1>1, <1>4, <1>7 DEF vars
<1> QED BY <1>5, <1>6, <1>7 DEF Next

\* No operation of the benchmark fails, none is answered with an error or in
\* part, and the checksum it validates itself by is the closed sum.
THEOREM BenchmarkChecksumCountsServedReads == Spec => []ChecksumCountsServedReads
<1>1. BenchmarkInvariant => ChecksumCountsServedReads
    BY DEF BenchmarkInvariant
<1> QED BY <1>1, InitBenchmark, NextBenchmark, PTL DEF Spec
=============================================================================
