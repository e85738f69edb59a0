-------------------------- MODULE ServerCallsProofs --------------------------
(***************************************************************************)
(* The server's contract, for every caller and every value of the          *)
(* constants.                                                              *)
(***************************************************************************)
EXTENDS ServerCalls, ComponentProofs

\* The server's state and the protection of its memory are inductive together.
ServerInvariant == TypeOK /\ ProtectedBytesKeepTheirValue

\* Initially every protected byte has its constructed value.
LEMMA InitServerInvariant == Init => ServerInvariant
<1> SUFFICES ASSUME Init PROVE ServerInvariant
    OBVIOUS
<1>1. policy \in ServerPolicy /\ memory \in Memory /\ found \in Memory
    BY ServerConstants, InitialMemoryType DEF Init, ServerInit
<1>2. request \in Wire
    BY EmptyWireType DEF Init
<1>3. handled \in HandleResults
    BY EmptyWireType, FrameConstants
    DEF Init, HandleResult, HandleResults, Detail, CodecError, RequestId, Status
<1>4. ProtectedBytesKeepTheirValue
    BY DEF Init, ServerInit, ProtectedBytesKeepTheirValue
<1> QED BY <1>1, <1>2, <1>3, <1>4 DEF ServerInvariant, TypeOK

\* A call of handle(), with any bytes, preserves both.
LEMMA NextServerInvariant == ServerInvariant /\ [Next]_vars => ServerInvariant'
<1> SUFFICES ASSUME ServerInvariant, [Next]_vars PROVE ServerInvariant'
    OBVIOUS
<1>1. ASSUME NEW w \in Wires, Call(w)
      PROVE  ServerInvariant'
    <2>1. w \in Wire
        BY WiresConstant
    <2>2. memory' \in Memory /\ ProtectedBytesKeepTheirValue'
        BY <1>1, <2>1, HandlePreservesProtected DEF ServerInvariant, TypeOK, Call
    <2>3. handled' \in HandleResults
        BY <1>1, <2>1, HandledType DEF ServerInvariant, TypeOK, Call
    <2>4. policy' \in ServerPolicy /\ request' \in Wire /\ found' \in Memory
        BY <1>1, <2>1 DEF ServerInvariant, TypeOK, Call, Handle
    <2> QED BY <2>2, <2>3, <2>4 DEF ServerInvariant, TypeOK
<1>2. CASE UNCHANGED vars
    BY <1>2 DEF vars, ServerInvariant, TypeOK, ProtectedBytesKeepTheirValue, Writable
<1> QED BY <1>1, <1>2 DEF Next

\* Every reachable state of the server is well typed.
THEOREM ServerTypeCorrect == Spec => []TypeOK
<1>1. ServerInvariant => TypeOK
    BY DEF ServerInvariant
<1> QED BY <1>1, InitServerInvariant, NextServerInvariant, PTL DEF Spec

\* No sequence of byte vectors changes a byte outside the allowlist of a
\* write-enabled policy or outside the read/write region.
THEOREM ServerProtectsMemory == Spec => []ProtectedBytesKeepTheirValue
<1>1. ServerInvariant => ProtectedBytesKeepTheirValue
    BY DEF ServerInvariant
<1> QED BY <1>1, InitServerInvariant, NextServerInvariant, PTL DEF Spec

-----------------------------------------------------------------------------
\* A request that decodes has a good verdict, an event that says so, and an
\* answer with its fields.
LEMMA DecodableIsAnswered ==
    ASSUME memory \in Memory, NEW w \in Wire, Decodes(w)
    PROVE  LET v == RequestVerdict(DecodedFrame(w))
               answer == Handled(w).response
           IN /\ GoodVerdict(v)
              /\ Handled(w).event.request_decoded = TRUE
              /\ Decodes(answer)
              /\ answer.opcode = v.opcode /\ answer.status = v.status
              /\ answer.payload = v.payload
              /\ answer.request_id = w.request_id /\ answer.address = w.address
<1>1. /\ GoodVerdict(RequestVerdict(DecodedFrame(w)))
      /\ Handled(w).event.request_decoded = TRUE
    BY HandledDecodable DEF HandleResult
<1> QED BY <1>1, AnswerFields

\* The empty vector does not decode.
LEMMA EmptyWireDoesNotDecode == ~Decodes(EmptyWire)
BY DEF EmptyWire, Decodes, DecodeError, header_size

\* A request is answered exactly when it decodes, and the answer is a frame the
\* client can decode and correlate: the branch of make_response() that gives up
\* on encoding is never taken.
THEOREM ServerAnswers == Spec => []AnsweredExactlyWhenDecodable
<1>1. Init => AnsweredExactlyWhenDecodable
    BY EmptyWireDoesNotDecode DEF Init, AnsweredExactlyWhenDecodable, HandleResult
<1>2. ServerInvariant /\ AnsweredExactlyWhenDecodable /\ [Next]_vars
        => AnsweredExactlyWhenDecodable'
    <2> SUFFICES ASSUME ServerInvariant, AnsweredExactlyWhenDecodable, [Next]_vars
                 PROVE  AnsweredExactlyWhenDecodable'
        OBVIOUS
    <2>1. ASSUME NEW w \in Wires, Call(w)
          PROVE  AnsweredExactlyWhenDecodable'
        <3>1. w \in Wire /\ memory \in Memory /\ request' = w /\ handled' = Handled(w)
            BY <2>1, WiresConstant DEF Call, ServerInvariant, TypeOK
        <3>2. CASE Decodes(w)
            <4>1. GoodVerdict(RequestVerdict(DecodedFrame(w)))
                BY <3>1, <3>2, DecodableIsAnswered
            <4>2. RequestVerdict(DecodedFrame(w)).opcode \in ResponseOpcode
                BY <4>1 DEF GoodVerdict
            <4> QED BY <3>1, <3>2, <4>2, DecodableIsAnswered DEF AnsweredExactlyWhenDecodable
        <3>3. CASE ~Decodes(w)
            BY <3>1, <3>3 DEF AnsweredExactlyWhenDecodable, Handled, HandleResult
        <3> QED BY <3>2, <3>3
    <2>2. CASE UNCHANGED vars
        BY <2>2 DEF vars, AnsweredExactlyWhenDecodable
    <2> QED BY <2>1, <2>2 DEF Next
<1> QED BY <1>1, <1>2, InitServerInvariant, NextServerInvariant, PTL DEF Spec

-----------------------------------------------------------------------------
\* range_fits() is the comparison address + length <= capacity.
LEMMA RangeAcceptedExact ==
    ASSUME NEW address \in Address, NEW length \in Nat
    PROVE  RangeAccepted(address, length) <=>
              /\ length # 0 /\ length <= maximum_payload_size
              /\ address + length <= memory_capacity
BY MemoryConstants, FrameConstants DEF RangeAccepted, range_fits, Address

\* Scanning a range for a denied byte is looking at its last address.
LEMMA ReadStatusExact ==
    ASSUME NEW address \in Address, NEW length \in Nat
    PROVE  ReadStatus(address, length) = ReadDeserves(address, length)
<1>1. address \in Nat /\ maximum_payload_size \in Nat /\ memory_capacity \in Nat
      /\ read_only_last \in Nat /\ read_write_last \in Nat
      /\ read_only_last <= read_write_last
    BY MemoryConstants, FrameConstants DEF Address
<1>2. CASE ~RangeAccepted(address, length)
    BY <1>1, <1>2, RangeAcceptedExact DEF ReadStatus, ReadDeserves
<1>3. CASE RangeAccepted(address, length) /\ address + length - 1 > read_write_last
    <2>1. length - 1 \in 0 .. length - 1 /\ address + (length - 1) > read_write_last
        BY <1>1, <1>3, RangeAcceptedExact
    <2>2. access_for(address + (length - 1)) = "denied"
        BY <1>1, <2>1 DEF access_for
    <2>3. ReadStatus(address, length) = "access_denied"
        BY <1>3, <2>1, <2>2 DEF ReadStatus
    <2>4. ReadDeserves(address, length) = "access_denied"
        BY <1>1, <1>3, RangeAcceptedExact DEF ReadDeserves
    <2> QED BY <2>3, <2>4
<1>4. CASE RangeAccepted(address, length) /\ ~(address + length - 1 > read_write_last)
    <2>1. \A offset \in 0 .. length - 1 : access_for(address + offset) # "denied"
        BY <1>1, <1>4 DEF access_for
    <2>2. ReadStatus(address, length) = "ok"
        BY <1>4, <2>1 DEF ReadStatus
    <2>3. ReadDeserves(address, length) = "ok"
        BY <1>1, <1>4, RangeAcceptedExact DEF ReadDeserves
    <2> QED BY <2>2, <2>3
<1> QED BY <1>2, <1>3, <1>4

\* write_is_allowed() is the inclusion of the interval in the allowlist.
LEMMA WriteIsAllowedExact ==
    ASSUME policy \in ServerPolicy, NEW address \in Address, NEW length \in Nat \ {0}
    PROVE  write_is_allowed(address, length) <=>
              address .. address + length - 1 \subseteq
                 policy.write_allow_begin .. policy.write_allow_end
<1> DEFINE first == policy.write_allow_begin
           last == policy.write_allow_end
<1>1. address \in Nat /\ first \in Nat /\ last \in Nat
    BY FrameConstants DEF Address, ServerPolicy
<1>2. write_is_allowed(address, length) <=>
         address >= first /\ address <= last /\ length <= last - address + 1
    BY DEF write_is_allowed
<1> HIDE DEF first, last
<1>3. ASSUME address >= first /\ address <= last /\ length <= last - address + 1
      PROVE  address .. address + length - 1 \subseteq first .. last
    BY <1>1, <1>3
<1>4. ASSUME address .. address + length - 1 \subseteq first .. last
      PROVE  address >= first /\ address <= last /\ length <= last - address + 1
    <2>1. /\ address \in address .. address + length - 1
          /\ address + length - 1 \in address .. address + length - 1
        BY <1>1
    <2>2. address \in first .. last /\ address + length - 1 \in first .. last
        BY <1>4, <2>1
    <2> QED BY <1>1, <2>2
<1> QED BY <1>2, <1>3, <1>4 DEF first, last

\* The verdict on a write is what interval arithmetic says it should be.
LEMMA WriteVerdictExact ==
    ASSUME policy \in ServerPolicy, NEW f \in Frame,
           Len(f.payload) \in 1 .. maximum_payload_size
    PROVE  WriteVerdict(f).status = WriteDeserves(f.address, Len(f.payload))
<1> DEFINE a == f.address
           n == Len(f.payload)
           interval == a .. a + n - 1
<1>1. /\ a \in Address /\ a \in Nat /\ n \in Nat \ {0} /\ n <= maximum_payload_size
      /\ memory_capacity \in Nat /\ read_only_last \in Nat /\ read_write_last \in Nat
      /\ read_only_last <= read_write_last /\ read_write_last < memory_capacity
    BY MemoryConstants, FrameConstants DEF Address, Frame
<1>2. CASE ~policy.writes_enabled
    BY <1>2 DEF WriteVerdict, WriteDeserves, Verdict
<1>3. CASE policy.writes_enabled /\ ~write_is_allowed(a, n)
    BY <1>1, <1>3, WriteIsAllowedExact DEF WriteVerdict, WriteDeserves, Verdict
<1>4. CASE policy.writes_enabled /\ write_is_allowed(a, n)
    <2>1. interval \subseteq policy.write_allow_begin .. policy.write_allow_end
        BY <1>1, <1>4, WriteIsAllowedExact
    <2>2. WriteVerdict(f).status = WriteStatus(a, f.payload)
        BY <1>4 DEF WriteVerdict, Verdict
    <2>3. CASE a + n > memory_capacity
        <3>1. ~RangeAccepted(a, n)
            BY <1>1, <2>3, RangeAcceptedExact
        <3>2. WriteStatus(a, f.payload) = "out_of_range"
            BY <3>1 DEF WriteStatus
        <3> QED BY <1>4, <2>1, <2>2, <2>3, <3>2 DEF WriteDeserves
    <2>4. CASE ~(a + n > memory_capacity)
        <3>1. RangeAccepted(a, n)
            BY <1>1, <2>4, RangeAcceptedExact
        <3>2. WriteDeserves(a, n) = IF interval \subseteq Writable THEN "ok"
                                    ELSE "access_denied"
            BY <1>4, <2>1, <2>4 DEF WriteDeserves
        <3>3. ASSUME NEW x \in interval
              PROVE  x \in Writable <=> access_for(x) = "read_write"
            <4>1. /\ x \in Location /\ x \in Nat
                  /\ x \in policy.write_allow_begin .. policy.write_allow_end
                BY <1>1, <2>1, <2>4 DEF Location
            <4> QED BY <1>1, <1>4, <4>1 DEF Writable, access_for
        <3>4. interval \subseteq Writable <=>
                 \A offset \in 0 .. n - 1 : access_for(a + offset) = "read_write"
            <4>1. \A offset \in 0 .. n - 1 : a + offset \in interval
                BY <1>1
            <4>2. \A x \in interval : x - a \in 0 .. n - 1 /\ a + (x - a) = x
                BY <1>1
            <4> HIDE DEF interval, a, n
            <4> QED BY <3>3, <4>1, <4>2
        <3>5. WriteStatus(a, f.payload) =
                IF \A offset \in 0 .. n - 1 : access_for(a + offset) = "read_write"
                THEN "ok" ELSE "access_denied"
            BY <3>1 DEF WriteStatus
        <3> QED BY <2>2, <3>2, <3>4, <3>5
    <2> QED BY <2>3, <2>4
<1> QED BY <1>2, <1>3, <1>4

\* The overflow-free checks of range_fits, write_is_allowed and the access scans
\* decide every request as arithmetic over the integers does.
THEOREM ServerDecidesExactly == Spec => []StatusMatchesIntervalArithmetic
<1>1. Init => StatusMatchesIntervalArithmetic
    BY EmptyWireDoesNotDecode DEF Init, StatusMatchesIntervalArithmetic
<1>2. ServerInvariant /\ StatusMatchesIntervalArithmetic /\ [Next]_vars
        => StatusMatchesIntervalArithmetic'
    <2> SUFFICES ASSUME ServerInvariant, StatusMatchesIntervalArithmetic, [Next]_vars
                 PROVE  StatusMatchesIntervalArithmetic'
        OBVIOUS
    <2>1. ASSUME NEW w \in Wires, Call(w)
          PROVE  StatusMatchesIntervalArithmetic'
        <3> DEFINE f == DecodedFrame(w)
        <3>1. /\ w \in Wire /\ memory \in Memory /\ policy \in ServerPolicy
              /\ request' = w /\ handled' = Handled(w) /\ policy' = policy
            BY <2>1, WiresConstant DEF Call, Handle, ServerInvariant, TypeOK
        <3>2. SUFFICES ASSUME Decodes(w)
                       PROVE  handled'.response.status =
                          CASE w.opcode = "read_request" ->
                                  ReadDeserves(w.address, LengthField(w.payload))
                            [] w.opcode = "write_request" ->
                                  WriteDeserves(w.address, Len(w.payload))
                            [] OTHER -> "bad_request"
            BY <3>1 DEF StatusMatchesIntervalArithmetic, ReadDeserves, WriteDeserves,
                        Writable
        <3>3. handled'.response.status = RequestVerdict(f).status
            BY <3>1, <3>2, DecodableIsAnswered
        <3>4. /\ f \in Frame /\ has_valid_semantics(f)
              /\ Len(f.payload) <= maximum_payload_size
              /\ f.opcode = w.opcode /\ f.address = w.address /\ f.payload = w.payload
            BY <3>1, <3>2, DecodedRequest DEF DecodedFrame
        <3> HIDE DEF f
        <3>5. CASE w.opcode = "read_request"
            <4>1. Len(f.payload) = 2 /\ f.payload \in Seq(Byte) /\ f.address \in Address
                BY <3>4, <3>5 DEF has_valid_semantics, Frame
            <4>2. LengthField(f.payload) \in Nat
                BY <4>1, LengthFieldType
            <4>3. RequestVerdict(f).status = ReadStatus(f.address, LengthField(f.payload))
                BY <3>4, <3>5 DEF RequestVerdict, ReadVerdict, Verdict
            <4> QED BY <3>3, <3>4, <3>5, <4>1, <4>2, <4>3, ReadStatusExact
        <3>6. CASE w.opcode = "write_request"
            <4>1. f.payload # <<>> /\ f.payload \in Seq(Byte)
                BY <3>4, <3>6 DEF has_valid_semantics, Frame
            <4>2. Len(f.payload) \in 1 .. maximum_payload_size
                BY <3>4, <4>1, FrameConstants
            <4>3. RequestVerdict(f) = WriteVerdict(f)
                BY <3>4, <3>6 DEF RequestVerdict
            <4> QED BY <3>1, <3>3, <3>4, <3>6, <4>2, <4>3, WriteVerdictExact
        <3>7. CASE w.opcode \notin {"read_request", "write_request"}
            BY <3>3, <3>4, <3>7 DEF RequestVerdict, Verdict
        <3> QED BY <3>5, <3>6, <3>7
    <2>2. CASE UNCHANGED vars
        BY <2>2 DEF vars, StatusMatchesIntervalArithmetic, ReadDeserves, WriteDeserves,
                    Writable
    <2> QED BY <2>1, <2>2 DEF Next
<1> QED BY <1>1, <1>2, InitServerInvariant, NextServerInvariant, PTL DEF Spec

-----------------------------------------------------------------------------
\* handle() writes to memory exactly when it answers with an acknowledgement.
LEMMA AppliesIffAcknowledged ==
    ASSUME memory \in Memory, NEW w \in Wire, Decodes(w)
    PROVE  Applies(w) <=> Handled(w).response.opcode = "write_acknowledgement"
<1> DEFINE f == DecodedFrame(w)
<1>1. /\ Handled(w).response.opcode = RequestVerdict(f).opcode
      /\ f.opcode = w.opcode
    BY DecodableIsAnswered DEF DecodedFrame
<1>2. CASE w.opcode = "write_request"
    <2>1. RequestVerdict(f) = WriteVerdict(f)
        BY <1>1, <1>2 DEF RequestVerdict
    <2>2. WriteVerdict(f).opcode = "write_acknowledgement"
             <=> WriteVerdict(f).detail = "write_ok"
        BY DEF WriteVerdict, Verdict
    <2> QED BY <1>1, <1>2, <2>1, <2>2 DEF Applies
<1>3. CASE w.opcode # "write_request"
    <2>1. RequestVerdict(f).opcode # "write_acknowledgement"
        BY <1>1, <1>3 DEF RequestVerdict, ReadVerdict, Verdict
    <2> QED BY <1>1, <1>3, <2>1 DEF Applies
<1> QED BY <1>2, <1>3

\* A call changes the memory only if it is acknowledged, and then it stores the
\* whole payload and nothing else; a data response carries exactly the bytes
\* asked for.
THEOREM ServerEffectMatchesAnswer == Spec => []EffectMatchesAnswer
<1>1. Init => EffectMatchesAnswer
    BY DEF Init, EffectMatchesAnswer, HandleResult, EmptyWire
<1>2. ServerInvariant /\ EffectMatchesAnswer /\ [Next]_vars => EffectMatchesAnswer'
    <2> SUFFICES ASSUME ServerInvariant, EffectMatchesAnswer, [Next]_vars
                 PROVE  EffectMatchesAnswer'
        OBVIOUS
    <2>1. ASSUME NEW w \in Wires, Call(w)
          PROVE  EffectMatchesAnswer'
        <3> DEFINE f == DecodedFrame(w)
                   answer == Handled(w).response
        <3>1. /\ w \in Wire /\ memory \in Memory /\ found' = memory
              /\ request' = w /\ handled'.response = answer
              /\ memory' = MemoryAfter(w)
              /\ w.payload \in Seq(Byte) /\ w.address \in Address
            BY <2>1, WiresConstant
            DEF Call, Handle, ServerInvariant, TypeOK, Wire, WireFields
        <3>2. CASE ~Decodes(w)
            <4>1. answer.opcode = "unassigned"
                BY <3>2 DEF Handled, HandleResult, EmptyWire
            <4>2. memory' = memory
                BY <3>1, <3>2 DEF MemoryAfter, Applies
            <4> HIDE DEF answer
            <4> QED BY <3>1, <4>1, <4>2 DEF EffectMatchesAnswer
        <3>3. CASE Decodes(w) /\ Applies(w)
            <4>1. answer.opcode = "write_acknowledgement"
                BY <3>1, <3>3, AppliesIffAcknowledged
            <4>2. memory' = Written(memory, w.address, w.payload)
                BY <3>1, <3>3 DEF MemoryAfter
            <4>3. ASSUME NEW a \in Location
                  PROVE  (\E i \in DOMAIN w.payload : a = w.address + i - 1)
                            <=> a >= w.address /\ a < w.address + Len(w.payload)
                <5>1. a \in Nat /\ w.address \in Nat /\ Len(w.payload) \in Nat
                      /\ DOMAIN w.payload = 1 .. Len(w.payload)
                    BY <3>1, MemoryConstants, FrameConstants DEF Location, Address
                <5>2. ASSUME a >= w.address /\ a < w.address + Len(w.payload)
                      PROVE  \E i \in DOMAIN w.payload : a = w.address + i - 1
                    <6>1. a - w.address + 1 \in DOMAIN w.payload
                          /\ a = w.address + (a - w.address + 1) - 1
                        BY <5>1, <5>2
                    <6> QED BY <6>1
                <5> QED BY <5>1, <5>2
            <4>4. \A a \in Location :
                    memory'[a] = IF \E i \in DOMAIN w.payload : a = w.address + i - 1
                                 THEN w.payload[a - w.address + 1] ELSE memory[a]
                BY <4>2, <4>3 DEF Written
            <4> HIDE DEF answer
            <4> QED BY <3>1, <4>1, <4>4 DEF EffectMatchesAnswer
        <3>4. CASE Decodes(w) /\ ~Applies(w)
            <4>1. answer.opcode # "write_acknowledgement" /\ memory' = memory
                BY <3>1, <3>4, AppliesIffAcknowledged DEF MemoryAfter
            <4>2. ASSUME answer.opcode = "data_response"
                  PROVE  /\ Len(answer.payload) = LengthField(w.payload)
                         /\ \A i \in DOMAIN answer.payload :
                               /\ w.address + i - 1 <= read_write_last
                               /\ answer.payload[i] = memory[w.address + i - 1]
                <5> DEFINE length == LengthField(w.payload)
                <5>1. /\ RequestVerdict(f).opcode = "data_response"
                      /\ answer.payload = RequestVerdict(f).payload
                    BY <3>1, <3>4, <4>2, DecodableIsAnswered
                <5>2. /\ f.opcode = w.opcode /\ f.payload = w.payload
                      /\ f.address = w.address
                    BY DEF DecodedFrame
                <5>3. w.opcode = "read_request"
                    BY <5>1, <5>2 DEF RequestVerdict, WriteVerdict, Verdict
                <5>4. /\ ReadStatus(w.address, length) = "ok"
                      /\ answer.payload = ReadBytes(memory, w.address, length)
                    BY <5>1, <5>2, <5>3 DEF RequestVerdict, ReadVerdict, Verdict
                <5>5. Len(w.payload) = 2
                    BY <3>1, <3>4, <5>2, <5>3, DecodedRequest DEF has_valid_semantics
                <5>6. length \in Nat
                    BY <3>1, <5>5, LengthFieldType
                <5> HIDE DEF length, answer
                <5>7. memory \in Memory /\ w.address \in Address
                    BY <3>1
                <5> DEFINE bytes == ReadBytes(memory, w.address, length)
                <5>8. /\ bytes \in Seq(Byte) /\ Len(bytes) = length
                      /\ \A i \in 1 .. length :
                            /\ w.address + i - 1 <= read_write_last
                            /\ bytes[i] = memory[w.address + i - 1]
                    BY <5>4, <5>6, <5>7, ReadBytesType
                <5>9. DOMAIN bytes = 1 .. length
                    BY DEF ReadBytes
                <5> HIDE DEF bytes
                <5> QED BY <5>4, <5>8, <5>9 DEF length, bytes
            <4> HIDE DEF answer
            <4> QED BY <3>1, <4>1, <4>2 DEF EffectMatchesAnswer
        <3> QED BY <3>2, <3>3, <3>4
    <2>2. CASE UNCHANGED vars
        BY <2>2 DEF vars, EffectMatchesAnswer
    <2> QED BY <2>1, <2>2 DEF Next
<1> QED BY <1>1, <1>2, InitServerInvariant, NextServerInvariant, PTL DEF Spec

-----------------------------------------------------------------------------
(***************************************************************************)
(* Any bytes decode() accepts hold a frame that encode() accepts and that  *)
(* survives the round trip: encode() and decode() in src/codec.cpp share   *)
(* their limits and their semantic rules.                                  *)
(***************************************************************************)
THEOREM ServerFramesAreStable == Spec => []AcceptedFramesAreStable
<1>1. ServerInvariant => AcceptedFramesAreStable
    <2> SUFFICES ASSUME request \in Wire, Decodes(request)
                 PROVE  LET frame == DecodedFrame(request)
                        IN /\ EncodeError(frame) = "none"
                           /\ Decodes(EncodedBytes(frame))
                           /\ DecodedFrame(EncodedBytes(frame)) = frame
        BY DEF ServerInvariant, TypeOK, AcceptedFramesAreStable
    <2> DEFINE frame == DecodedFrame(request)
    <2>1. /\ frame \in Frame /\ has_valid_semantics(frame)
          /\ request.opcode \in Opcode
          /\ Len(request.payload) <= maximum_payload_size
        BY DecodedRequest
    <2>2. /\ frame.version = protocol_version
          /\ frame.opcode = request.opcode
          /\ frame.payload = request.payload
        BY DEF DecodedFrame
    <2>3. Len(frame.payload) \in Nat
        BY <2>1 DEF Frame
    <2> HIDE DEF frame
    <2>4. EncodeError(frame) = "none"
        BY <2>1, <2>2, <2>3, FrameConstants DEF EncodeError, is_supported_opcode
    <2>5. Decodes(EncodedBytes(frame)) /\ DecodedFrame(EncodedBytes(frame)) = frame
        BY <2>1, <2>4, EncodedBytesType
    <2> QED BY <2>4, <2>5 DEF frame
<1> QED BY <1>1, InitServerInvariant, NextServerInvariant, PTL DEF Spec
=============================================================================
