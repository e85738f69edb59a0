------------------------ MODULE RemoteWorkbenchProofs ------------------------
(***************************************************************************)
(* The client over an unreliable network, for every number of calls and    *)
(* attempts: no write is applied twice, what a call reports is true, and   *)
(* every step is one of the abstract memory service.                       *)
(***************************************************************************)
EXTENDS RemoteRefinement, ComponentProofs

\* What is under way is what encode() made, so the network has no empty vector
\* to damage; and only a request that encode() accepts is ever sent.
HonestTraffic ==
    /\ pc # "idle" => EncodeError(call.request) = "none"
    /\ \A r \in requests : Decodes(r)
    /\ \A w \in answers : Decodes(w)

TrafficInvariant == TypeOK /\ HonestTraffic

\* A vector that decodes has the size it announces.
LEMMA DecodableSize ==
    ASSUME NEW w \in Wire, Decodes(w)
    PROVE  w.size = ExpectedSize(w)
BY Zenon DEF Decodes, DecodeError

\* Both hold when the objects have been constructed.
LEMMA InitTraffic == Init => TrafficInvariant
<1> SUFFICES ASSUME Init PROVE TrafficInvariant
    OBVIOUS
<1>1. policy \in ServerPolicy /\ memory \in Memory
    BY ServerConstants, InitialMemoryType DEF Init, ServerInit
<1>2. ClientTypeOK
    BY ClientInitType DEF Init
<1>3. /\ connected = FALSE /\ reply = TransportReply("none", EmptyWire)
      /\ awaiting = FALSE /\ requests = {} /\ answers = {}
    BY DEF Init, RemoteInit, TransportInit
<1>4. reply \in TransportReplies
    BY <1>3, EmptyWireType DEF TransportReply, TransportReplies, TransportError
<1>5. RemoteTypeOK
    BY <1>1, <1>3, <1>4 DEF RemoteTypeOK, TransportTypeOK
<1>6. seen \subseteq Memory /\ applications \in [RequestId -> Nat]
    BY <1>1 DEF Init
<1>7. HonestTraffic
    BY <1>3 DEF Init, ClientInit, HonestTraffic
<1> QED BY <1>2, <1>5, <1>6, <1>7 DEF TrafficInvariant, TypeOK

\* Both are preserved by every step.
LEMMA NextTraffic == TrafficInvariant /\ [Next]_vars => TrafficInvariant'
<1> SUFFICES ASSUME TrafficInvariant, [Next]_vars PROVE TrafficInvariant'
    OBVIOUS
<1>1. /\ ClientTypeOK /\ RemoteTypeOK /\ TransportTypeOK
      /\ seen \subseteq Memory /\ applications \in [RequestId -> Nat]
      /\ policy \in ServerPolicy /\ memory \in Memory /\ HonestTraffic
    BY DEF TrafficInvariant, TypeOK, RemoteTypeOK
<1>2. ASSUME ClientTypeOK', TransportTypeOK', UNCHANGED <<serverVars, networkVars>>,
             seen' \subseteq Memory, UNCHANGED applications,
             pc' # "idle" => EncodeError(call.request)' = "none"
      PROVE  TrafficInvariant'
    BY <1>1, <1>2 DEF TrafficInvariant, TypeOK, RemoteTypeOK, HonestTraffic,
                      serverVars, networkVars
<1>3. CASE UserCalls
    <2>1. ClientTypeOK' /\ TransportTypeOK'
        <3>1. ASSUME NEW r \in Reads, Read(r.address, r.length, 1)
              PROVE  ClientTypeOK' /\ TransportTypeOK'
            <4>1. r.address \in Address /\ r.length \in Nat
                BY RemoteWorkbenchConstants
            <4>2. ClientTypeOK'
                BY <1>1, <3>1, <4>1, ReadType
            <4> QED BY <1>1, <3>1, <4>2 DEF Read, TransportTypeOK
        <3>2. ASSUME NEW w \in Writes, Write(w.address, w.data, 1)
              PROVE  ClientTypeOK' /\ TransportTypeOK'
            <4>1. w.address \in Address /\ w.data \in Seq(Byte)
                BY RemoteWorkbenchConstants
            <4>2. ClientTypeOK'
                BY <1>1, <3>2, <4>1, WriteType
            <4> QED BY <1>1, <3>2, <4>2 DEF Write, TransportTypeOK
        <3> QED BY <1>3, <3>1, <3>2 DEF UserCalls
    <2>2. pc' # "idle" => EncodeError(call.request)' = "none"
        BY <1>3 DEF UserCalls, Read, Write, Submit, RejectArguments, Return
    <2>3. seen' \subseteq Memory
        BY <1>1, <1>3 DEF UserCalls
    <2> QED BY <1>2, <1>3, <2>1, <2>2, <2>3 DEF UserCalls
<1>4. CASE ClientAttempts
    <2>1. ClientTypeOK' /\ TransportTypeOK'
        BY <1>1, <1>4, AttemptType DEF ClientAttempts
    <2>2. pc # "idle" /\ UNCHANGED call
        BY <1>4 DEF ClientAttempts, Attempt
    <2> QED BY <1>1, <1>2, <1>4, <2>1, <2>2 DEF ClientAttempts, HonestTraffic, historyVars
<1>5. CASE ClientConcludes
    <2>1. ClientTypeOK' /\ TransportTypeOK'
        BY <1>1, <1>5, ConcludeType DEF ClientConcludes
    <2>2. pc # "idle" /\ call.request' = call.request
        BY <1>1, <1>5 DEF ClientConcludes, AcceptReply, Retry, GiveUp, ClientTypeOK, Calls
    <2> QED BY <1>1, <1>2, <1>5, <2>1, <2>2 DEF ClientConcludes, HonestTraffic, historyVars
<1>6. CASE ExchangeStarts
    <2>1. /\ pc = "exchange" /\ pc' \in {"exchange", "reply"}
          /\ UNCHANGED <<serverVars, maximum_read_attempts, next_request_id, metrics,
                         call, result, historyVars>>
        BY <1>6 DEF ExchangeStarts
    <2>2. ClientTypeOK'
        BY <1>1, <2>1 DEF ClientTypeOK
    <2>3. call.request \in Frame /\ EncodeError(call.request) = "none"
        BY <1>1, <2>1 DEF ClientTypeOK, Calls, HonestTraffic
    <2>4. EncodedBytes(call.request) \in Wire /\ Decodes(EncodedBytes(call.request))
        BY <2>3, EncodedBytesType
    <2>5. /\ requests' \subseteq requests \cup {EncodedBytes(call.request)}
          /\ UNCHANGED <<connected, answers>> /\ awaiting' \in BOOLEAN
          /\ reply' \in TransportReplies
        <3>1. CASE RemoteSends(EncodedBytes(call.request))
            BY <1>1, <3>1 DEF RemoteSends, TransportTypeOK
        <3>2. CASE RemoteRefuses
            <4>1. TransportReply("not_connected", EmptyWire) \in TransportReplies
                BY EmptyWireType DEF TransportReply, TransportReplies, TransportError
            <4> QED BY <1>1, <3>2, <4>1 DEF RemoteRefuses, RemoteTypeOK
        <3> QED BY <1>6, <3>1, <3>2 DEF ExchangeStarts
    <2>6. RemoteTypeOK'
        BY <1>1, <2>1, <2>4, <2>5 DEF RemoteTypeOK, TransportTypeOK, serverVars
    <2>7. HonestTraffic'
        BY <1>1, <2>1, <2>3, <2>4, <2>5 DEF HonestTraffic
    <2> QED BY <1>1, <2>1, <2>2, <2>6, <2>7 DEF TrafficInvariant, TypeOK, historyVars
<1>7. CASE ExchangeReturns
    <2>1. /\ pc = "exchange" /\ pc' = "reply"
          /\ UNCHANGED <<serverVars, maximum_read_attempts, next_request_id, metrics,
                         call, result, historyVars>>
        BY <1>7 DEF ExchangeReturns
    <2>2. ClientTypeOK'
        BY <1>1, <2>1 DEF ClientTypeOK
    <2>3. /\ UNCHANGED <<requests, answers>> /\ awaiting' = FALSE
          /\ connected' \in BOOLEAN /\ reply' \in TransportReplies
        <3>1. CASE RemoteDelivers
            <4>1. PICK w \in answers :
                    \E bytes \in {w, DropLastByte(w), FlipChecksumBit(w)} :
                        reply' = TransportReply("none", bytes)
                BY <3>1 DEF RemoteDelivers
            <4>2. w \in Wire /\ w.size = ExpectedSize(w)
                BY <1>1, DecodableSize DEF RemoteTypeOK, HonestTraffic
            <4>3. DropLastByte(w) \in Wire /\ FlipChecksumBit(w) \in Wire
                BY <4>2, DropLastByteType, FlipChecksumBitType
            <4>4. reply' \in TransportReplies
                BY <4>1, <4>2, <4>3 DEF TransportReply, TransportReplies, TransportError
            <4> QED BY <1>1, <3>1, <4>4 DEF RemoteDelivers, TransportTypeOK
        <3>2. CASE RemoteFails
            <4>1. /\ TransportReply("timeout", EmptyWire) \in TransportReplies
                  /\ TransportReply("disconnected", EmptyWire) \in TransportReplies
                BY EmptyWireType DEF TransportReply, TransportReplies, TransportError
            <4> QED BY <1>1, <3>2, <4>1 DEF RemoteFails, TransportTypeOK
        <3> QED BY <1>7, <3>1, <3>2 DEF ExchangeReturns
    <2>4. RemoteTypeOK'
        BY <1>1, <2>1, <2>3 DEF RemoteTypeOK, TransportTypeOK, serverVars
    <2>5. HonestTraffic'
        BY <1>1, <2>1, <2>3 DEF HonestTraffic
    <2> QED BY <1>1, <2>1, <2>2, <2>4, <2>5 DEF TrafficInvariant, TypeOK, historyVars
<1>8. CASE ServerServes
    <2>1. PICK r \in requests :
            /\ RemoteServes(r)
            /\ applications' = [applications EXCEPT
                 ![r.request_id] = @ + (IF Applies(r) THEN 1 ELSE 0)]
        BY <1>8 DEF ServerServes
    <2>2. r \in Wire /\ Decodes(r) /\ r.request_id \in RequestId
        BY <1>1 DEF RemoteTypeOK, HonestTraffic, Wire, WireFields
    <2>3. Handled(r).response \in Wire /\ Decodes(Handled(r).response)
        BY <1>1, <2>2, HandledDecodable DEF HandleResult
    <2>4. memory' \in Memory /\ policy' = policy
        <3>1. CASE Applies(r)
            BY <1>1, <2>1, <2>2, <3>1, WrittenType
            DEF RemoteServes, Handle, MemoryAfter, Wire, WireFields
        <3>2. CASE ~Applies(r)
            BY <1>1, <2>1, <3>2 DEF RemoteServes, Handle, MemoryAfter
        <3> QED BY <2>1, <3>1, <3>2 DEF RemoteServes, Handle
    <2>5. RemoteTypeOK'
        BY <1>1, <2>1, <2>3, <2>4 DEF RemoteServes, RemoteTypeOK, TransportTypeOK
    <2>6. ClientTypeOK' /\ pc' = pc /\ call' = call
        BY <1>1, <1>8 DEF ServerServes, clientVars, ClientTypeOK
    <2>7. applications' \in [RequestId -> Nat]
        BY <1>1, <2>1, <2>2
    <2>8. seen' \subseteq Memory
        BY <1>1, <1>8, <2>4 DEF ServerServes
    <2>9. HonestTraffic'
        BY <1>1, <2>1, <2>3, <2>6 DEF RemoteServes, HonestTraffic
    <2> QED BY <2>5, <2>6, <2>7, <2>8, <2>9 DEF TrafficInvariant, TypeOK
<1>9. CASE ConnectionDrops
    <2>1. ClientTypeOK' /\ pc' = pc /\ call' = call
        BY <1>1, <1>9 DEF ConnectionDrops, clientVars, ClientTypeOK
    <2>2. RemoteTypeOK' /\ HonestTraffic'
        BY <1>1, <1>9, <2>1
        DEF ConnectionDrops, RemoteDrops, serverVars, RemoteTypeOK, TransportTypeOK,
            HonestTraffic
    <2> QED BY <1>1, <1>9, <2>1, <2>2
        DEF ConnectionDrops, historyVars, TrafficInvariant, TypeOK
<1>10. CASE UNCHANGED vars
    <2>1. ClientTypeOK' /\ RemoteTypeOK' /\ HonestTraffic'
        BY <1>1, <1>10 DEF vars, ClientTypeOK, RemoteTypeOK, TransportTypeOK, HonestTraffic
    <2> QED BY <1>1, <1>10, <2>1 DEF vars, TrafficInvariant, TypeOK
<1> QED BY <1>3, <1>4, <1>5, <1>6, <1>7, <1>8, <1>9, <1>10 DEF Next

\* Every reachable state of the client over an unreliable network is well typed.
THEOREM RemoteTypeCorrect == Spec => []TypeOK
<1>1. TrafficInvariant => TypeOK
    BY DEF TrafficInvariant
<1> QED BY <1>1, InitTraffic, NextTraffic, PTL DEF Spec

-----------------------------------------------------------------------------
(***************************************************************************)
(* At most once.  The invariant says that a request ID stands for one      *)
(* request: then the server, which handles what it is sent once, can apply *)
(* no write twice.                                                         *)
(***************************************************************************)
IdInvariant == IdsStandForOneRequest /\ WritesApplyAtMostOnce

\* Before the first call no ID has been used.
LEMMA InitIds == Init => IdInvariant
<1> SUFFICES ASSUME Init PROVE IdInvariant
    OBVIOUS
<1>1. /\ requests = {} /\ awaiting = FALSE /\ pc = "idle" /\ next_request_id = 1
      /\ metrics.operations = 0 /\ applications = [id \in RequestId |-> 0]
    BY DEF Init, RemoteInit, ClientInit
<1>2. 0 <= MaxOperations
    BY RemoteWorkbenchConstants
<1>3. WritesApplyAtMostOnce
    BY <1>1 DEF WritesApplyAtMostOnce
<1> QED BY <1>1, <1>2, <1>3 DEF IdInvariant, IdsStandForOneRequest, WriteUnsent

\* While there are unused IDs, allocation counts up.
LEMMA IdAfterCounts ==
    ASSUME NEW id \in Nat, id + 1 < IdSpace
    PROVE  IdAfter(id) = id + 1
<1>1. (id + 1) % IdSpace = id + 1
    BY FrameConstants
<1> QED BY <1>1 DEF IdAfter

\* Every step preserves it.
LEMMA NextIds ==
    TrafficInvariant /\ IdInvariant /\ [Next]_vars => IdInvariant'
<1> SUFFICES ASSUME TrafficInvariant, IdInvariant, [Next]_vars PROVE IdInvariant'
    OBVIOUS
<1> DEFINE n == metrics.operations
           me == call.request.request_id
<1>1. /\ n \in Nat /\ next_request_id \in Nat /\ MaxOperations \in Nat
      /\ MaxOperations < IdSpace /\ IdSpace \in Nat
      /\ applications \in [RequestId -> Nat]
      /\ call.request \in Frame /\ me \in RequestId /\ me \in Nat
      /\ \A r \in requests : r.request_id \in RequestId /\ r.request_id \in Nat
    <2>1. ClientTypeOK /\ requests \subseteq Wire /\ applications \in [RequestId -> Nat]
        BY DEF TrafficInvariant, TypeOK, RemoteTypeOK
    <2>2. n \in Nat /\ call.request \in Frame /\ next_request_id \in RequestId
        BY <2>1 DEF ClientTypeOK, ClientMetrics, Calls
    <2>3. me \in RequestId
        BY <2>2 DEF Frame
    <2>4. \A r \in requests : r.request_id \in RequestId
        BY <2>1 DEF Wire, WireFields
    <2>5. /\ IdSpace \in Nat /\ MaxOperations \in Nat /\ MaxOperations < IdSpace
          /\ RequestId \subseteq Nat
        BY RemoteWorkbenchConstants, FrameConstants DEF RequestId
    <2> QED BY <2>1, <2>2, <2>3, <2>4, <2>5
<1>2. IdsStandForOneRequest /\ WritesApplyAtMostOnce
    BY DEF IdInvariant
\* A step that neither counts a call nor touches requests and applications.
<1>3. ASSUME UNCHANGED <<requests, applications, next_request_id>>,
             metrics'.operations = n, call'.request = call.request,
             pc # "idle", awaiting' => pc' = "exchange",
             WriteUnsent' => WriteUnsent
      PROVE  IdInvariant'
    <2>1. WritesApplyAtMostOnce'
        BY <1>2, <1>3 DEF WritesApplyAtMostOnce
    <2> QED BY <1>2, <1>3, <2>1 DEF IdInvariant, IdsStandForOneRequest
<1>4. CASE UserCalls
    <2>1. /\ pc = "idle" /\ n < MaxOperations
          /\ metrics'.operations = n + 1 /\ next_request_id' = IdAfter(next_request_id)
          /\ UNCHANGED <<requests, applications, awaiting>>
          /\ pc' # "idle" => call'.request.request_id = next_request_id
        <3>1. BeginCall /\ UNCHANGED <<requests, applications, awaiting>> /\ n < MaxOperations
            BY <1>4 DEF UserCalls, Read, Write, networkVars
        <3>2. metrics'.operations = n + 1
            BY <3>1 DEF BeginCall, TrafficInvariant, TypeOK, ClientTypeOK, ClientMetrics
        <3>3. pc' # "idle" => call'.request.request_id = next_request_id
            <4>1. ASSUME NEW opcode, NEW address, NEW payload, NEW length,
                         Submit(RequestFrame(opcode, next_request_id, address, payload),
                                length, 1)
                  PROVE  call'.request.request_id = next_request_id
                <5> DEFINE f == RequestFrame(opcode, next_request_id, address, payload)
                <5>1. call'.request = f
                    BY <4>1 DEF Submit
                <5>2. f.request_id = next_request_id
                    BY DEF RequestFrame
                <5> QED BY <5>1, <5>2
            <4>2. RejectArguments => pc' = "idle"
                BY DEF RejectArguments, Return
            <4>3. ASSUME NEW r \in Reads, Read(r.address, r.length, 1)
                  PROVE  pc' # "idle" => call'.request.request_id = next_request_id
                BY <4>1, <4>2, <4>3, Zenon DEF Read
            <4>4. ASSUME NEW w \in Writes, Write(w.address, w.data, 1)
                  PROVE  pc' # "idle" => call'.request.request_id = next_request_id
                BY <4>1, <4>2, <4>4, Zenon DEF Write
            <4> QED BY <1>4, <4>3, <4>4, Zenon DEF UserCalls
        <3> QED BY <3>1, <3>2, <3>3 DEF BeginCall
    <2>2. next_request_id = n + 1
        BY <1>1, <1>2, <2>1 DEF IdsStandForOneRequest
    <2>3. n + 1 + 1 < IdSpace => next_request_id' = n + 1 + 1
        BY <1>1, <2>1, <2>2, IdAfterCounts
    <2>4. ~awaiting
        BY <1>2, <2>1 DEF IdsStandForOneRequest
    <2>5. n + 1 \in RequestId /\ applications[n + 1] = 0
        BY <1>1, <1>2, <2>1, FrameConstants DEF IdsStandForOneRequest, RequestId
    <2>6. \A r \in requests : r.request_id # n + 1 /\ r.request_id <= n + 1
        BY <1>1, <1>2 DEF IdsStandForOneRequest
    <2>7. \A id \in RequestId : id > n + 1 => applications[id] = 0
        BY <1>1, <1>2, FrameConstants DEF IdsStandForOneRequest, RequestId
    <2>8. WritesApplyAtMostOnce'
        BY <1>2, <2>1 DEF WritesApplyAtMostOnce
    <2>9. n + 1 <= MaxOperations
        BY <1>1, <2>1
    <2>10. n + 1 \in 1 .. n + 1
        BY <1>1
    <2>11. \A r \in requests :
              /\ \A s \in requests : r.request_id = s.request_id => r = s
              /\ r.opcode = "write_request" => applications[r.request_id] = 0
        BY <1>2 DEF IdsStandForOneRequest
    <2>12. WriteUnsent' => pc' # "idle"
        BY DEF WriteUnsent
    <2> HIDE DEF n
    <2> QED BY <2>1, <2>2, <2>3, <2>4, <2>5, <2>6, <2>7, <2>8, <2>9, <2>10, <2>11, <2>12
        DEF IdInvariant, IdsStandForOneRequest
<1>5. CASE ClientAttempts
    <2>1. /\ pc = "attempt" /\ UNCHANGED <<requests, applications, awaiting, call,
                                            next_request_id>>
        BY <1>5 DEF ClientAttempts, Attempt, networkVars, historyVars
    <2>2. metrics'.operations = n
        BY <1>5 DEF ClientAttempts, Attempt, TrafficInvariant, TypeOK, ClientTypeOK,
                    ClientMetrics
    <2>3. ~awaiting
        BY <1>2, <2>1 DEF IdsStandForOneRequest
    <2>4. WriteUnsent' => WriteUnsent
        BY <2>1 DEF WriteUnsent
    <2> QED BY <1>3, <2>1, <2>2, <2>3, <2>4
<1>6. CASE ClientConcludes
    <2>1. /\ pc = "reply" /\ UNCHANGED <<requests, applications, awaiting, next_request_id>>
          /\ call'.request = call.request
        BY <1>6 DEF ClientConcludes, AcceptReply, Retry, GiveUp, networkVars, historyVars,
                    TrafficInvariant, TypeOK, ClientTypeOK, Calls
    <2>2. metrics'.operations = n
        BY <1>6 DEF ClientConcludes, AcceptReply, Retry, GiveUp, MetricsAfterFailure,
                    TrafficInvariant, TypeOK, ClientTypeOK, ClientMetrics
    <2>3. ~awaiting
        BY <1>2, <2>1 DEF IdsStandForOneRequest
    <2>4. ~WriteUnsent'
        <3>1. pc' = "idle" \/ (pc' = "attempt" /\ call.request.opcode = "read_request")
            BY <1>6 DEF ClientConcludes, AcceptReply, Retry, GiveUp, CanRetry, Reading, Return
        <3> QED BY <2>1, <3>1 DEF WriteUnsent
    <2> QED BY <1>3, <2>1, <2>2, <2>3, <2>4
<1>7. CASE ExchangeStarts
    <2>1. /\ pc = "exchange"
          /\ UNCHANGED <<metrics, call, next_request_id, applications>>
        BY <1>7 DEF ExchangeStarts, historyVars
    <2>2. CASE RemoteRefuses /\ pc' = "reply"
        <3>1. ~awaiting' /\ UNCHANGED requests
            BY <2>2 DEF RemoteRefuses
        <3>2. ~WriteUnsent'
            BY <2>2 DEF WriteUnsent
        <3> QED BY <1>3, <2>1, <3>1, <3>2
    <2>3. CASE RemoteSends(EncodedBytes(call.request)) /\ UNCHANGED pc
        <3> DEFINE sent == EncodedBytes(call.request)
        <3>1. ~awaiting /\ awaiting' /\ requests' = requests \cup {sent}
            BY <2>3 DEF RemoteSends
        <3>2. sent.request_id = me /\ sent.opcode = call.request.opcode
            BY DEF EncodedBytes
        <3>3. sent.opcode = "write_request" => applications[sent.request_id] = 0
            BY <1>2, <2>1, <3>1, <3>2 DEF IdsStandForOneRequest, WriteUnsent
        <3>4. me <= n
            BY <1>1, <1>2, <2>1 DEF IdsStandForOneRequest
        <3>5. \A r \in requests : r.request_id = me => r = sent
            BY <1>2, <2>1 DEF IdsStandForOneRequest
        <3>6. ~WriteUnsent'
            BY <2>1, <2>3, <3>1 DEF WriteUnsent
        <3>7. WritesApplyAtMostOnce'
            BY <1>2, <2>1 DEF WritesApplyAtMostOnce
        <3> HIDE DEF sent
        <3> QED BY <1>2, <2>1, <2>3, <3>1, <3>2, <3>3, <3>4, <3>5, <3>6, <3>7
            DEF IdInvariant, IdsStandForOneRequest, sent
    <2> QED BY <1>7, <2>2, <2>3 DEF ExchangeStarts
<1>8. CASE ExchangeReturns
    <2>1. /\ pc = "exchange" /\ pc' = "reply" /\ ~awaiting'
          /\ UNCHANGED <<requests, metrics, call, next_request_id, applications>>
        BY <1>8 DEF ExchangeReturns, RemoteDelivers, RemoteFails, historyVars
    <2>2. ~WriteUnsent'
        BY <2>1 DEF WriteUnsent
    <2> QED BY <1>3, <2>1, <2>2
<1>9. CASE ServerServes
    <2>1. PICK r \in requests :
            /\ RemoteServes(r)
            /\ applications' = [applications EXCEPT
                 ![r.request_id] = @ + (IF Applies(r) THEN 1 ELSE 0)]
        BY <1>9 DEF ServerServes
    <2>2. /\ requests' = requests \ {r}
          /\ UNCHANGED <<awaiting, metrics, call, next_request_id, pc>>
        BY <1>9, <2>1 DEF ServerServes, RemoteServes, clientVars
    <2>3. r.request_id \in RequestId /\ r.request_id <= n
        BY <1>1, <1>2 DEF IdsStandForOneRequest
    <2>4. \A id \in RequestId : id # r.request_id => applications'[id] = applications[id]
        BY <1>1, <2>1
    <2>5. applications'[r.request_id] <= 1
        <3>1. Applies(r) => applications[r.request_id] = 0
            BY <1>2 DEF Applies, IdsStandForOneRequest
        <3>2. applications[r.request_id] \in Nat /\ applications[r.request_id] <= 1
            BY <1>1, <1>2, <2>3 DEF WritesApplyAtMostOnce
        <3> QED BY <1>1, <2>1, <2>3, <3>1, <3>2
    <2>6. WritesApplyAtMostOnce'
        BY <1>2, <2>4, <2>5 DEF WritesApplyAtMostOnce
    <2>7. \A s \in requests' : s.request_id # r.request_id
        BY <1>2, <2>2 DEF IdsStandForOneRequest
    <2>8. \A s \in requests' : applications'[s.request_id] = applications[s.request_id]
        BY <1>1, <2>2, <2>4, <2>7
    <2>9. \A id \in RequestId : id > n => applications'[id] = 0
        BY <1>1, <1>2, <2>3, <2>4 DEF IdsStandForOneRequest
    <2>10. WriteUnsent' => applications'[me] = 0
        BY <1>1, <1>2, <2>2, <2>4 DEF IdsStandForOneRequest, WriteUnsent
    <2>11. WriteUnsent' => WriteUnsent
        BY <2>2 DEF WriteUnsent
    <2> QED BY <1>2, <2>2, <2>6, <2>8, <2>9, <2>10, <2>11
        DEF IdInvariant, IdsStandForOneRequest
<1>10. CASE ConnectionDrops \/ UNCHANGED vars
    <2>1. UNCHANGED <<requests, applications, next_request_id, metrics, call, pc, awaiting>>
        BY <1>10 DEF ConnectionDrops, RemoteDrops, clientVars, historyVars, vars
    <2> QED BY <1>2, <2>1
        DEF IdInvariant, IdsStandForOneRequest, WritesApplyAtMostOnce, WriteUnsent
<1> QED BY <1>4, <1>5, <1>6, <1>7, <1>8, <1>9, <1>10 DEF Next

\* A request ID stands for one request.
THEOREM RemoteIdsStandForOneRequest == Spec => []IdsStandForOneRequest
<1>1. IdInvariant => IdsStandForOneRequest
    BY DEF IdInvariant
<1> QED BY <1>1, InitTraffic, NextTraffic, InitIds, NextIds, PTL DEF Spec

\* However late the network delivers, and whatever it loses, repeats or damages
\* on the way back, no write of the client is applied twice.
THEOREM RemoteWritesApplyAtMostOnce == Spec => []WritesApplyAtMostOnce
<1>1. IdInvariant => WritesApplyAtMostOnce
    BY DEF IdInvariant
<1> QED BY <1>1, InitTraffic, NextTraffic, InitIds, NextIds, PTL DEF Spec

-----------------------------------------------------------------------------
(***************************************************************************)
(* The answers under way tell the truth, and so do the results.            *)
(***************************************************************************)
\* A call of the user starts with a request that can be encoded and whose ID
\* nothing under way has.
LEMMA UserCallsEffect ==
    ASSUME TrafficInvariant, IdInvariant, UserCalls
    PROVE  /\ pc = "idle" /\ pc' = "attempt" /\ result' = result
           /\ metrics.operations \in Nat
           /\ metrics'.operations = metrics.operations + 1
           /\ call'.request \in Frame
           /\ call'.request.request_id = metrics.operations + 1
           /\ call'.request.opcode \in RequestOpcode
           /\ call'.expected_length =
                 IF call'.request.opcode = "read_request"
                 THEN LengthField(call'.request.payload) ELSE 0
           /\ seen' = {memory}
           /\ UNCHANGED <<policy, memory, awaiting, requests, answers, applications,
                          reply>>
<1>1. ClientTypeOK /\ next_request_id \in RequestId /\ metrics.operations \in Nat
    BY DEF TrafficInvariant, TypeOK, ClientTypeOK, ClientMetrics
<1>2. /\ BeginCall /\ metrics.operations < MaxOperations
      /\ seen' = {memory}
      /\ UNCHANGED <<policy, memory, awaiting, requests, answers, applications, reply>>
    BY DEF UserCalls, Read, Write, serverVars, networkVars
<1>3. pc = "idle" /\ metrics'.operations = metrics.operations + 1
    BY <1>2 DEF BeginCall, TrafficInvariant, TypeOK, ClientTypeOK, ClientMetrics
<1>4. next_request_id = metrics.operations + 1
    <2>1. metrics.operations + 1 < IdSpace
        BY <1>1, <1>2, RemoteWorkbenchConstants, FrameConstants
    <2> QED BY <2>1 DEF IdInvariant, IdsStandForOneRequest
<1>5. ASSUME NEW opcode \in RequestOpcode, NEW address \in Address,
             NEW payload \in Seq(Byte), NEW length \in Nat,
             Len(payload) \in 1 .. maximum_payload_size,
             opcode = "read_request" => Len(payload) = 2,
             length = IF opcode = "read_request" THEN LengthField(payload) ELSE 0,
             Submit(RequestFrame(opcode, next_request_id, address, payload), length, 1)
      PROVE  /\ pc' = "attempt" /\ result' = result
             /\ call'.request \in Frame
             /\ call'.request.request_id = next_request_id
             /\ call'.request.opcode \in RequestOpcode
             /\ call'.expected_length =
                   IF call'.request.opcode = "read_request"
                   THEN LengthField(call'.request.payload) ELSE 0
    <2> DEFINE f == RequestFrame(opcode, next_request_id, address, payload)
    <2>1. f \in Frame
        BY <1>1, RequestFrameType
    <2>2. EncodeError(f) = "none"
        BY <1>1, <1>5, RequestEncodes
    <2>3. f.request_id = next_request_id /\ f.opcode = opcode /\ f.payload = payload
        BY DEF RequestFrame
    <2> HIDE DEF f
    <2>4. /\ call'.request = f /\ call'.expected_length = length
          /\ pc' = "attempt" /\ result' = result
        BY <1>5, <2>2 DEF Submit, f
    <2> QED BY <1>5, <2>1, <2>3, <2>4
<1>6. /\ "read_request" \in RequestOpcode /\ "write_request" \in RequestOpcode
      /\ "read_request" # "write_request"
    BY DEF RequestOpcode
<1>7. ASSUME NEW r \in Reads, Read(r.address, r.length, 1)
      PROVE  Submit(RequestFrame("read_request", next_request_id, r.address,
                                 LengthPayload(r.length)), r.length, 1)
    <2>1. ~InvalidArguments(r.length, 1)
        BY RemoteWorkbenchConstants, FrameConstants DEF InvalidArguments
    <2> QED BY <1>7, <2>1 DEF Read
<1>8. ASSUME NEW r \in Reads
      PROVE  /\ r.address \in Address /\ r.length \in Nat
             /\ LengthPayload(r.length) \in Seq(Byte)
             /\ Len(LengthPayload(r.length)) = 2
             /\ 2 \in 1 .. maximum_payload_size
             /\ LengthField(LengthPayload(r.length)) = r.length
    <2>1. r.address \in Address /\ r.length \in Nat /\ r.length < ByteBase * ByteBase
        BY RemoteWorkbenchConstants, FrameConstants
    <2> QED BY <2>1, LengthPayloadType, LengthRoundTrip, FrameConstants
<1>9. ASSUME NEW w \in Writes, Write(w.address, w.data, 1)
      PROVE  Submit(RequestFrame("write_request", next_request_id, w.address, w.data),
                    0, 1)
    <2>1. ~InvalidArguments(Len(w.data), 1)
        BY RemoteWorkbenchConstants, FrameConstants DEF InvalidArguments
    <2> QED BY <1>9, <2>1 DEF Write
<1>10. ASSUME NEW w \in Writes
       PROVE  /\ w.address \in Address /\ w.data \in Seq(Byte)
              /\ Len(w.data) \in 1 .. maximum_payload_size
    BY RemoteWorkbenchConstants
<1>11. (\E r \in Reads : Read(r.address, r.length, 1))
       \/ (\E w \in Writes : Write(w.address, w.data, 1))
    BY DEF UserCalls
<1>12. /\ pc' = "attempt" /\ result' = result
       /\ call'.request \in Frame
       /\ call'.request.request_id = next_request_id
       /\ call'.request.opcode \in RequestOpcode
       /\ call'.expected_length =
             IF call'.request.opcode = "read_request"
             THEN LengthField(call'.request.payload) ELSE 0
    <2>1. CASE \E r \in Reads : Read(r.address, r.length, 1)
        <3>1. PICK r \in Reads : Read(r.address, r.length, 1)
            BY <2>1
        <3> DEFINE p == LengthPayload(r.length)
        <3>2. Submit(RequestFrame("read_request", next_request_id, r.address, p),
                     r.length, 1)
            BY <1>7, <3>1
        <3>3. /\ r.address \in Address /\ r.length \in Nat /\ p \in Seq(Byte)
              /\ Len(p) = 2 /\ Len(p) \in 1 .. maximum_payload_size
              /\ LengthField(p) = r.length
            BY <1>8
        <3> HIDE DEF p
        <3> QED BY <1>5, <1>6, <3>2, <3>3
    <2>2. CASE \E w \in Writes : Write(w.address, w.data, 1)
        <3>1. PICK w \in Writes : Write(w.address, w.data, 1)
            BY <2>2
        <3> QED BY <1>5, <1>6, <1>9, <1>10, <3>1
    <2> QED BY <1>11, <2>1, <2>2
<1> QED BY <1>1, <1>2, <1>3, <1>4, <1>12

-----------------------------------------------------------------------------
\* Before the first call there are no answers.
LEMMA InitAnswers == Init => AnswersAreTrue
<1> SUFFICES ASSUME Init PROVE AnswersAreTrue
    OBVIOUS
<1>1. pc = "idle" /\ answers = {}
    BY DEF Init, RemoteInit, ClientInit
<1>2. call.request = RequestFrame("read_request", 0, 0, <<>>)
    BY DEF Init, ClientInit
<1>3. call.request.opcode \in RequestOpcode
    BY <1>2 DEF RequestFrame, RequestOpcode
<1> QED BY <1>1, <1>3 DEF AnswersAreTrue

\* Every step preserves it.
LEMMA NextAnswers ==
    TrafficInvariant /\ IdInvariant /\ AnswersAreTrue /\ [Next]_vars => AnswersAreTrue'
<1> SUFFICES ASSUME TrafficInvariant, IdInvariant, AnswersAreTrue, [Next]_vars
             PROVE  AnswersAreTrue'
    OBVIOUS
<1>1. /\ ClientTypeOK /\ requests \subseteq Wire /\ answers \subseteq Wire
      /\ memory \in Memory /\ applications \in [RequestId -> Nat]
      /\ \A r \in requests : Decodes(r)
      /\ \A w \in answers : Decodes(w)
      /\ IdsStandForOneRequest
    BY DEF TrafficInvariant, TypeOK, RemoteTypeOK, HonestTraffic, IdInvariant
<1>2. /\ metrics.operations \in Nat /\ call.request.request_id \in Nat
      /\ \A w \in answers : w.request_id \in Nat
      /\ \A r \in requests : r.request_id \in RequestId /\ r.request_id \in Nat
    <2>1. RequestId \subseteq Nat
        BY FrameConstants DEF RequestId
    <2> QED BY <1>1, <2>1
        DEF ClientTypeOK, ClientMetrics, Calls, Frame, Wire, WireFields
\* A step of a running call that touches neither network nor memory.
<1>3. ASSUME pc # "idle", call'.request = call.request,
             call'.expected_length = call.expected_length,
             metrics'.operations = metrics.operations,
             UNCHANGED <<memory, seen, requests, answers, applications>>,
             WriteUnsent' => WriteUnsent,
             pc' = "reply" /\ reply'.error = "none" /\ Decodes(reply'.bytes)
                => reply'.bytes \in answers
      PROVE  AnswersAreTrue'
    <2>1. \A w : AnswerIsTrue(w) => AnswerIsTrue(w)'
        BY <1>3 DEF AnswerIsTrue, Reading
    <2> QED BY <1>3, <2>1 DEF AnswersAreTrue, Reading
<1>4. CASE UserCalls
    <2>1. \A w \in answers : /\ w.request_id <= metrics.operations + 1
                             /\ w.request_id # metrics.operations + 1
        BY <1>2 DEF AnswersAreTrue
    <2> QED BY <1>4, <2>1, UserCallsEffect DEF AnswersAreTrue, Reading
<1>5. CASE ClientAttempts
    <2>1. /\ pc = "attempt" /\ pc' # "reply"
          /\ UNCHANGED <<memory, seen, requests, answers, applications, awaiting, call>>
        BY <1>5 DEF ClientAttempts, Attempt, Return, serverVars, networkVars, historyVars
    <2>2. metrics'.operations = metrics.operations
        BY <1>1, <1>5 DEF ClientAttempts, Attempt, ClientTypeOK, ClientMetrics
    <2>3. WriteUnsent' => WriteUnsent
        BY <2>1 DEF WriteUnsent
    <2> QED BY <1>3, <2>1, <2>2, <2>3
<1>6. CASE ClientConcludes
    <2>1. /\ pc = "reply" /\ pc' # "reply"
          /\ UNCHANGED <<memory, seen, requests, answers, applications, awaiting>>
          /\ call'.request = call.request /\ call'.expected_length = call.expected_length
        BY <1>1, <1>6 DEF ClientConcludes, AcceptReply, Retry, GiveUp, Return, serverVars,
                          networkVars, historyVars, ClientTypeOK, Calls
    <2>2. metrics'.operations = metrics.operations
        BY <1>1, <1>6 DEF ClientConcludes, AcceptReply, Retry, GiveUp,
                          MetricsAfterFailure, ClientTypeOK, ClientMetrics
    <2>3. ~WriteUnsent'
        <3>1. pc' = "idle" \/ (pc' = "attempt" /\ call.request.opcode = "read_request")
            BY <1>6 DEF ClientConcludes, AcceptReply, Retry, GiveUp, CanRetry, Reading, Return
        <3> QED BY <2>1, <3>1 DEF WriteUnsent
    <2> QED BY <1>3, <2>1, <2>2, <2>3
<1>7. CASE ExchangeStarts
    <2>1. /\ pc = "exchange"
          /\ UNCHANGED <<memory, seen, answers, applications, metrics, call>>
        BY <1>7 DEF ExchangeStarts, RemoteSends, RemoteRefuses, serverVars, historyVars
    <2>2. CASE RemoteRefuses /\ pc' = "reply"
        <3>1. UNCHANGED requests /\ reply'.error # "none"
            BY <2>2 DEF RemoteRefuses, TransportReply
        <3>2. ~WriteUnsent'
            BY <2>2 DEF WriteUnsent
        <3> QED BY <1>3, <2>1, <3>1, <3>2
    <2>3. CASE RemoteSends(EncodedBytes(call.request)) /\ UNCHANGED pc
        <3>1. ~awaiting /\ awaiting'
            BY <2>3 DEF RemoteSends
        <3>2. ASSUME NEW w \in answers, w.request_id = call.request.request_id
              PROVE  AnswerIsTrue(w)'
            <4>1. Reading
                BY <2>1, <3>1, <3>2 DEF AnswersAreTrue, AnswerIsTrue, WriteUnsent, Reading,
                                        RequestOpcode
            <4> QED BY <2>1, <3>2, <4>1 DEF AnswersAreTrue, AnswerIsTrue, Reading
        <3> QED BY <2>1, <2>3, <3>2 DEF AnswersAreTrue, Reading
    <2> QED BY <1>7, <2>2, <2>3 DEF ExchangeStarts
<1>8. CASE ExchangeReturns
    <2>1. /\ pc = "exchange" /\ pc' = "reply"
          /\ UNCHANGED <<memory, seen, requests, answers, applications, metrics, call>>
        BY <1>8 DEF ExchangeReturns, RemoteDelivers, RemoteFails, serverVars, historyVars
    <2>2. ~WriteUnsent'
        BY <2>1 DEF WriteUnsent
    <2>3. reply'.error = "none" /\ Decodes(reply'.bytes) => reply'.bytes \in answers
        <3>1. CASE RemoteDelivers
            <4>1. PICK w \in answers :
                    \E bytes \in {w, DropLastByte(w), FlipChecksumBit(w)} :
                        reply' = TransportReply("none", bytes)
                BY <3>1 DEF RemoteDelivers
            <4>2. ~Decodes(DropLastByte(w)) /\ ~Decodes(FlipChecksumBit(w))
                BY <1>1, DamageIsRefused DEF Decodes
            <4> QED BY <4>1, <4>2 DEF TransportReply
        <3>2. CASE RemoteFails
            BY <3>2 DEF RemoteFails, TransportReply
        <3> QED BY <1>8, <3>1, <3>2 DEF ExchangeReturns
    <2> QED BY <1>3, <2>1, <2>2, <2>3
<1>9. CASE ServerServes
    <2>1. PICK r \in requests :
            /\ RemoteServes(r)
            /\ applications' = [applications EXCEPT
                 ![r.request_id] = @ + (IF Applies(r) THEN 1 ELSE 0)]
        BY <1>9 DEF ServerServes
    <2>0. PICK answer : answer = Handled(r).response
        OBVIOUS
    <2>2. /\ requests' = requests \ {r} /\ answers' = answers \cup {answer}
          /\ UNCHANGED <<awaiting, metrics, call, pc, reply>>
          /\ pc # "idle" => memory' \in seen' /\ seen \subseteq seen'
        BY <1>9, <2>0, <2>1 DEF ServerServes, RemoteServes, clientVars
    <2>3. r \in Wire /\ Decodes(r) /\ r.request_id \in RequestId
        BY <1>1, <1>2
    <2>4. answer.request_id = r.request_id /\ r.request_id <= metrics.operations
        BY <1>1, <2>0, <2>3, AnswerFields DEF IdsStandForOneRequest
    <2>5. ASSUME NEW w \in answers, pc # "idle", w.request_id = call.request.request_id
          PROVE  AnswerIsTrue(w)'
        <3>1. AnswerIsTrue(w)
            BY <2>5 DEF AnswersAreTrue
        <3>2. CASE Reading
            BY <2>2, <2>5, <3>1, <3>2 DEF AnswerIsTrue, Reading
        <3>3. CASE ~Reading
            <4>1. r.request_id # w.request_id
                BY <3>1, <3>3 DEF AnswerIsTrue
            <4>2. applications'[w.request_id] = applications[w.request_id]
                BY <1>1, <2>1, <2>3, <4>1
            <4>3. ~WriteUnsent'
                BY <2>2, <3>1, <3>3 DEF AnswerIsTrue, WriteUnsent
            <4> QED BY <2>2, <3>1, <3>3, <4>2, <4>3 DEF AnswerIsTrue, Reading
        <3> QED BY <3>2, <3>3
    <2>6. ASSUME pc # "idle", r.request_id = call.request.request_id
          PROVE  AnswerIsTrue(answer)'
        <3>1. r = EncodedBytes(call.request)
            BY <1>1, <2>6 DEF IdsStandForOneRequest
        <3>2. /\ r.opcode = call.request.opcode /\ r.address = call.request.address
              /\ r.payload = call.request.payload
            BY <3>1 DEF EncodedBytes
        <3>3. CASE Reading
            <4>1. ASSUME answer.opcode = "data_response"
                  PROVE  answer.payload = ReadBytes(memory, call.request.address,
                                                    call.expected_length)
                <5>1. r.opcode = "read_request"
                    BY <3>2, <3>3 DEF Reading
                <5>2. answer.payload = ReadBytes(memory, r.address, LengthField(r.payload))
                    BY <1>1, <2>0, <2>3, <4>1, <5>1, ReadAnswer
                <5>3. call.expected_length = LengthField(r.payload)
                    BY <2>6, <3>2, <3>3 DEF AnswersAreTrue
                <5> QED BY <3>2, <5>2, <5>3
            <4>2. memory \in seen'
                BY <2>2, <2>6 DEF AnswersAreTrue
            <4> QED BY <2>2, <3>3, <4>1, <4>2 DEF AnswerIsTrue, Reading
        <3>4. CASE ~Reading
            <4>1. r.opcode = "write_request"
                BY <3>2, <3>4 DEF AnswersAreTrue, RequestOpcode, Reading
            <4>2. answer.opcode = IF Applies(r) THEN "write_acknowledgement"
                                  ELSE "error_response"
                BY <1>1, <2>0, <2>3, <4>1, WriteAnswer
            <4>3. applications[r.request_id] = 0
                BY <1>1, <4>1 DEF IdsStandForOneRequest
            <4>4. applications'[r.request_id] = IF Applies(r) THEN 1 ELSE 0
                BY <1>1, <2>1, <2>3, <4>3
            <4>5. \A s \in requests' : s.request_id # r.request_id
                BY <1>1, <2>2 DEF IdsStandForOneRequest
            <4>6. ~WriteUnsent'
                BY <1>1, <2>2, <2>6 DEF IdsStandForOneRequest, WriteUnsent
            <4> QED BY <2>2, <2>4, <3>4, <4>2, <4>4, <4>5, <4>6 DEF AnswerIsTrue, Reading
        <3> QED BY <3>3, <3>4
    <2> QED BY <2>2, <2>4, <2>5, <2>6 DEF AnswersAreTrue, Reading
<1>10. CASE ConnectionDrops \/ UNCHANGED vars
    <2>1. UNCHANGED <<memory, seen, requests, answers, applications, metrics, call, pc,
                      awaiting, reply>>
        BY <1>10 DEF ConnectionDrops, RemoteDrops, clientVars, serverVars, historyVars, vars
    <2>2. \A w : AnswerIsTrue(w) => AnswerIsTrue(w)'
        BY <2>1 DEF AnswerIsTrue, Reading, WriteUnsent
    <2> QED BY <2>1, <2>2 DEF AnswersAreTrue, Reading
<1> QED BY <1>4, <1>5, <1>6, <1>7, <1>8, <1>9, <1>10 DEF Next

-----------------------------------------------------------------------------
\* What a call reports when it returns is true at that moment.
LEMMA ReturnIsTrue ==
    ASSUME TrafficInvariant, IdInvariant, AnswersAreTrue, Next,
           pc # "idle", pc' = "idle"
    PROVE  /\ UNCHANGED <<policy, memory, seen, requests, applications, awaiting>>
           /\ metrics'.operations = metrics.operations
           /\ call'.request = call.request
           /\ call'.expected_length = call.expected_length
           /\ result'.request_id = call.request.request_id
           /\ WriteUnsent => result'.error = "connect_failed"
           /\ Reading /\ result'.error = "none" =>
                 \E m \in seen : result'.data =
                     ReadBytes(m, call.request.address, call.expected_length)
           /\ ~Reading /\ result'.error = "none" =>
                 /\ result'.data = <<>>
                 /\ applications[call.request.request_id] = 1
           /\ ~Reading /\ result'.error \in {"remote_error", "connect_failed"} =>
                 /\ applications[call.request.request_id] = 0
                 /\ \A r \in requests : r.request_id # call.request.request_id
<1> DEFINE me == call.request.request_id
<1>1. ClientTypeOK /\ IdsStandForOneRequest /\ reply.bytes \in Wire
    BY DEF TrafficInvariant, TypeOK, RemoteTypeOK, TransportTypeOK, TransportReplies,
           IdInvariant
<1>2. ClientAttempts \/ ClientConcludes
    <2>1. UserCalls => pc = "idle"
        BY DEF UserCalls, Read, Write, BeginCall
    <2>2. ExchangeStarts => pc' # "idle"
        BY DEF ExchangeStarts
    <2>3. ExchangeReturns => pc' # "idle"
        BY DEF ExchangeReturns
    <2>4. ServerServes \/ ConnectionDrops => pc' = pc
        BY DEF ServerServes, ConnectionDrops, clientVars
    <2> QED BY <2>1, <2>2, <2>3, <2>4 DEF Next
<1>3. /\ UNCHANGED <<policy, memory, seen, requests, applications, awaiting>>
      /\ call'.request = call.request /\ call'.expected_length = call.expected_length
    BY <1>1, <1>2 DEF ClientAttempts, Attempt, ClientConcludes, AcceptReply, Retry, GiveUp,
                      serverVars, networkVars, historyVars, ClientTypeOK, Calls
<1>4. metrics'.operations = metrics.operations
    BY <1>1, <1>2 DEF ClientAttempts, Attempt, ClientConcludes, AcceptReply, Retry, GiveUp,
                      MetricsAfterFailure, ClientTypeOK, ClientMetrics
<1>5. CASE ClientAttempts
    <2>1. /\ pc = "attempt" /\ result'.request_id = me
          /\ result'.error \in {"disconnected", "connect_failed"}
        BY <1>5 DEF ClientAttempts, Attempt, Return, Failure
    <2>2. ~Reading <=> WriteUnsent
        BY <2>1 DEF WriteUnsent, Reading, AnswersAreTrue, RequestOpcode
    <2>3. ~Reading => result'.error = "connect_failed"
        BY <1>5 DEF ClientAttempts, Attempt, Return, Failure
    <2> QED BY <1>1, <1>3, <1>4, <2>1, <2>2, <2>3 DEF IdsStandForOneRequest
<1>6. CASE ClientConcludes
    <2>0. ~WriteUnsent
        BY <1>6 DEF ClientConcludes, AcceptReply, Retry, GiveUp, WriteUnsent
    <2>1. CASE AcceptReply
        <3> DEFINE w == reply.bytes
        <3>1. pc = "reply" /\ reply.error = "none" /\ result' = Validated(w)
            BY <2>1 DEF AcceptReply, Return
        <3>2. /\ result'.request_id = me
              /\ result'.error \in {"none", "remote_error"} \cup ProtocolError
              /\ result'.error \in {"none", "remote_error"} =>
                    Decodes(w) /\ w.request_id = me /\ result'.data = w.payload
              /\ result'.error = "none" =>
                    w.opcode = ExpectedOpcode /\ Len(w.payload) = call.expected_length
              /\ result'.error = "remote_error" => w.opcode = "error_response"
            BY <3>1, ValidatedMeans
        <3>3. Decodes(w) /\ w.request_id = me => AnswerIsTrue(w)
            BY <3>1 DEF AnswersAreTrue
        <3>4. ASSUME Reading, result'.error = "none"
              PROVE  \E m \in seen : result'.data =
                         ReadBytes(m, call.request.address, call.expected_length)
            BY <3>2, <3>3, <3>4 DEF AnswerIsTrue, ExpectedOpcode
        <3>5. ASSUME ~Reading, result'.error = "none"
              PROVE  result'.data = <<>> /\ applications[me] = 1
            <4>1. call.expected_length = 0
                BY <3>1, <3>5 DEF AnswersAreTrue
            <4>2. w.payload \in Seq(Byte)
                BY <1>1 DEF Wire, WireFields
            <4>3. w.payload = <<>>
                BY <3>2, <3>5, <4>1, <4>2
            <4> QED BY <3>2, <3>3, <3>5, <4>3 DEF AnswerIsTrue, ExpectedOpcode
        <3>6. ASSUME ~Reading, result'.error \in {"remote_error", "connect_failed"}
              PROVE  /\ applications[me] = 0
                     /\ \A r \in requests : r.request_id # me
            BY <3>2, <3>3, <3>6 DEF AnswerIsTrue, ProtocolError
        <3> QED BY <1>3, <1>4, <2>0, <3>2, <3>4, <3>5, <3>6
    <2>2. CASE GiveUp
        <3>1. /\ result'.request_id = me
              /\ result'.error \in {"timeout", "disconnected"}
            BY <2>2 DEF GiveUp, Return, FailureOfReply, Failure
        <3> QED BY <1>3, <1>4, <2>0, <3>1
    <2>3. CASE Retry
        BY <2>3 DEF Retry
    <2> QED BY <1>6, <2>1, <2>2, <2>3 DEF ClientConcludes
<1> QED BY <1>2, <1>5, <1>6

\* While no call is running, only the network and the server act.
LEMMA IdleStep ==
    ASSUME [Next]_vars, pc = "idle", pc' = "idle", TrafficInvariant, IdInvariant
    PROVE  /\ UNCHANGED <<result, call, metrics, seen>>
           /\ requests' \subseteq requests
           /\ \A id \in RequestId :
                 \/ applications'[id] = applications[id]
                 \/ \E r \in requests :
                       r.request_id = id /\ r.opcode = "write_request"
<1>1. applications \in [RequestId -> Nat] /\ requests \subseteq Wire
    BY DEF TrafficInvariant, TypeOK, RemoteTypeOK
<1>2. CASE UserCalls
    BY <1>2, UserCallsEffect
<1>3. CASE ClientAttempts \/ ClientConcludes \/ ExchangeStarts \/ ExchangeReturns
    BY <1>3 DEF ClientAttempts, Attempt, ClientConcludes, AcceptReply, Retry, GiveUp,
                ExchangeStarts, ExchangeReturns
<1>4. CASE ServerServes
    <2>1. PICK r \in requests :
            /\ RemoteServes(r)
            /\ applications' = [applications EXCEPT
                 ![r.request_id] = @ + (IF Applies(r) THEN 1 ELSE 0)]
        BY <1>4 DEF ServerServes
    <2>2. r.request_id \in RequestId
        BY <1>1 DEF Wire, WireFields
    <2>3. applications[r.request_id] \in Nat
        BY <1>1, <2>2
    <2>4. \A id \in RequestId :
             \/ applications'[id] = applications[id]
             \/ id = r.request_id /\ r.opcode = "write_request"
        BY <1>1, <2>1, <2>3 DEF Applies
    <2> QED BY <1>4, <2>1, <2>4 DEF ServerServes, RemoteServes, clientVars
<1>5. CASE ConnectionDrops \/ UNCHANGED vars
    BY <1>5 DEF ConnectionDrops, RemoteDrops, clientVars, historyVars, vars
<1> QED BY <1>2, <1>3, <1>4, <1>5 DEF Next

\* What the user was told, as the two properties of the results state it.
ResultInvariant == SuccessfulReadsAreFresh /\ WriteReportsAreTrue

\* Before the first call nothing has been reported.
LEMMA InitResults == Init => ResultInvariant
BY DEF Init, ClientInit, ResultInvariant, SuccessfulReadsAreFresh, WriteReportsAreTrue,
       Returned

\* What was reported stays true: nothing that is still under way can undo it.
LEMMA NextResults ==
    TrafficInvariant /\ IdInvariant /\ AnswersAreTrue /\ ResultInvariant /\ [Next]_vars
        => ResultInvariant'
<1> SUFFICES ASSUME TrafficInvariant, IdInvariant, AnswersAreTrue, ResultInvariant,
                    [Next]_vars, pc' = "idle"
             PROVE  ResultInvariant'
    BY DEF ResultInvariant, SuccessfulReadsAreFresh, WriteReportsAreTrue, Returned
<1>1. CASE pc = "idle"
    <2>1. result.request_id \in RequestId
        BY DEF TrafficInvariant, TypeOK, ClientTypeOK, OperationResults
    <2>2. SuccessfulReadsAreFresh'
        BY <1>1, IdleStep DEF ResultInvariant, SuccessfulReadsAreFresh, Returned
    <2>3. ASSUME Returned("write_request", "none")
          PROVE  applications'[result.request_id] = 1
        <3>1. applications[result.request_id] = 1
            BY <2>3 DEF ResultInvariant, WriteReportsAreTrue
        <3>2. \A r \in requests : r.opcode = "write_request"
                                    => applications[r.request_id] = 0
            BY DEF IdInvariant, IdsStandForOneRequest
        <3> QED BY <1>1, <2>1, <3>1, <3>2, IdleStep
    <2>4. ASSUME \/ Returned("write_request", "remote_error")
                 \/ Returned("write_request", "connect_failed")
          PROVE  /\ applications'[result.request_id] = 0
                 /\ \A r \in requests' : r.request_id # result.request_id
        BY <1>1, <2>1, <2>4, IdleStep DEF ResultInvariant, WriteReportsAreTrue
    <2> QED BY <1>1, <2>2, <2>3, <2>4, IdleStep
        DEF ResultInvariant, WriteReportsAreTrue, Returned
<1>2. CASE pc # "idle"
    <2>1. Next
        BY <1>2 DEF vars
    <2>2. "read_request" # "write_request"
        OBVIOUS
    <2> QED BY <1>2, <2>1, <2>2, ReturnIsTrue
        DEF ResultInvariant, SuccessfulReadsAreFresh, WriteReportsAreTrue, Returned, Reading
<1> QED BY <1>1, <1>2

\* The inductive invariant: types and honest traffic, the meaning of request IDs,
\* the truth of the answers under way, and with them that of the results.
RemoteInvariant ==
    TrafficInvariant /\ IdInvariant /\ AnswersAreTrue /\ ResultInvariant

\* The whole invariant of the client over an unreliable network.
THEOREM RemoteInvariantHolds == Spec => []RemoteInvariant
<1>1. Init => RemoteInvariant
    BY InitTraffic, InitIds, InitAnswers, InitResults DEF RemoteInvariant
<1>2. RemoteInvariant /\ [Next]_vars => RemoteInvariant'
    BY NextTraffic, NextIds, NextAnswers, NextResults DEF RemoteInvariant
<1> QED BY <1>1, <1>2, PTL DEF Spec

\* Those with the ID of the running call, of all the answers the network holds,
\* tell the truth about it.
THEOREM RemoteAnswersAreTrue == Spec => []AnswersAreTrue
<1>1. RemoteInvariant => AnswersAreTrue
    BY DEF RemoteInvariant
<1> QED BY <1>1, RemoteInvariantHolds, PTL

\* A read that succeeds returns bytes that stood together in memory during the
\* call, however old the answers the network still delivers.
THEOREM RemoteReadsAreFresh == Spec => []SuccessfulReadsAreFresh
<1>1. RemoteInvariant => SuccessfulReadsAreFresh
    BY DEF RemoteInvariant, ResultInvariant
<1> QED BY <1>1, RemoteInvariantHolds, PTL

\* What a write reports is what has become, and will become, of it.
THEOREM RemoteWriteReportsAreTrue == Spec => []WriteReportsAreTrue
<1>1. RemoteInvariant => WriteReportsAreTrue
    BY DEF RemoteInvariant, ResultInvariant
<1> QED BY <1>1, RemoteInvariantHolds, PTL

-----------------------------------------------------------------------------
(***************************************************************************)
(* The refinement.  Every step of the detailed specification is a step of  *)
(* MemoryService or leaves its variables alone.                            *)
(***************************************************************************)

\* When the objects have been constructed, the service is in its initial state.
LEMMA InitService == Init => Service!Init
<1> SUFFICES ASSUME Init PROVE Service!Init
    OBVIOUS
<1>1. memory = InitialMemory /\ seen = {memory} /\ pc = "idle" /\ requests = {}
    BY DEF Init, ServerInit, RemoteInit, ClientInit
<1>2. metrics.operations = 0 /\ applications = [id \in RequestId |-> 0]
    BY DEF Init, ClientInit
<1>3. memory = Service!InitialMemory
    BY <1>1 DEF InitialMemory, Service!InitialMemory, Location, Service!Location,
                protocol_version, Service!protocol_version
<1>4. Writable \subseteq Service!Location
    BY DEF Writable, Service!Location, Location
<1>5. 1 .. metrics.operations = {}
    BY <1>2
<1>6. Outstanding = {}
    BY <1>1 DEF Outstanding, WritesUnderWay, WriteUnsent
<1>7. CarriedOut = {}
    BY <1>2 DEF CarriedOut
<1> QED BY <1>1, <1>3, <1>4, <1>5, <1>6, <1>7 DEF Service!Init

\* A step that changes none of what the service consists of.
LEMMA ServiceStutters ==
    ASSUME UNCHANGED <<memory, policy, result, applications, seen>>,
           (pc' = "idle") <=> (pc = "idle"), call'.request = call.request,
           metrics'.operations = metrics.operations, Outstanding' = Outstanding
    PROVE  UNCHANGED Service!vars
<1>1. Writable' = Writable /\ Reported' = Reported /\ CarriedOut' = CarriedOut
    BY DEF Writable, Reported, CarriedOut
<1> QED BY <1>1 DEF Service!vars

\* The writes under way are told apart by their request IDs.
LEMMA UnderWay ==
    ASSUME NEW f
    PROVE  f \in WritesUnderWay <=>
              \E r \in requests : r.opcode = "write_request" /\ f = DecodedFrame(r)
BY DEF WritesUnderWay

\* A call of the user is an Ask.
LEMMA ServiceAsks ==
    ASSUME RemoteInvariant, UserCalls
    PROVE  Service!Ask
<1>1. TrafficInvariant /\ IdInvariant
    BY DEF RemoteInvariant
<1> DEFINE n == metrics.operations
<1>2. /\ pc = "idle" /\ pc' = "attempt" /\ result' = result
      /\ n \in Nat /\ metrics'.operations = n + 1
      /\ call'.request.request_id = n + 1
      /\ seen' = {memory}
      /\ UNCHANGED <<policy, memory, awaiting, requests, applications>>
    BY <1>1, UserCallsEffect
<1>3. n + 1 \notin 1 .. n /\ 1 .. n + 1 = (1 .. n) \cup {n + 1}
    BY <1>2
<1>4. ~WriteUnsent /\ (WriteUnsent' <=> call'.request.opcode = "write_request")
    BY <1>2 DEF WriteUnsent
<1>5. Outstanding' = Outstanding \cup
        (IF call'.request.opcode = "write_request" THEN {call'.request} ELSE {})
    BY <1>2, <1>4 DEF Outstanding, WritesUnderWay
<1>6. Writable' = Writable /\ Reported' = Reported /\ CarriedOut' = CarriedOut
    BY <1>2 DEF Writable, Reported, CarriedOut
<1> QED BY <1>2, <1>3, <1>5, <1>6 DEF Service!Ask, Service!IsWrite

\* A call that returns reports to the user what the service may report.
LEMMA ServiceReturns ==
    ASSUME RemoteInvariant, Next, pc # "idle", pc' = "idle"
    PROVE  Service!Return
<1> DEFINE me == call.request.request_id
<1>1. TrafficInvariant /\ IdInvariant /\ AnswersAreTrue
    BY DEF RemoteInvariant
<1>2. /\ UNCHANGED <<policy, memory, seen, requests, applications>>
      /\ metrics'.operations = metrics.operations
      /\ call'.request = call.request
      /\ WriteUnsent => result'.error = "connect_failed"
      /\ Reading /\ result'.error = "none" =>
            \E m \in seen : result'.data =
                ReadBytes(m, call.request.address, call.expected_length)
      /\ ~Reading /\ result'.error = "none" =>
            result'.data = <<>> /\ applications[me] = 1
      /\ ~Reading /\ result'.error \in {"remote_error", "connect_failed"} =>
            /\ applications[me] = 0
            /\ \A r \in requests : r.request_id # me
    BY <1>1, ReturnIsTrue
<1>3. ~Reading <=> call.request.opcode = "write_request"
    BY <1>1 DEF AnswersAreTrue, Reading, RequestOpcode
<1>4. Outstanding' = WritesUnderWay
    BY <1>2 DEF Outstanding, WritesUnderWay, WriteUnsent
<1>5. Writable' = Writable /\ CarriedOut' = CarriedOut
    BY <1>2 DEF Writable, CarriedOut
<1>6. Service!ReportsDone \/ Service!ReportsNotDone \/ Service!ReportsUnknown
    <2>1. CASE result'.error = "none"
        <3>1. Outstanding' = Outstanding
            BY <1>2, <1>4, <2>1 DEF Outstanding
        <3>2. Reported' = [report |-> "done", data |-> result'.data]
            BY <2>1 DEF Reported
        <3>3. CASE Reading
            <4>1. call.expected_length = Service!LengthField(call.request.payload)
                BY <1>1, <3>3 DEF AnswersAreTrue, LengthField, Service!LengthField
            <4>2. \E m \in seen : result'.data =
                    Service!ReadBytes(m, call.request.address,
                                      Service!LengthField(call.request.payload))
                BY <1>2, <2>1, <3>3, <4>1 DEF ReadBytes, Service!ReadBytes
            <4> QED BY <1>3, <3>1, <3>2, <3>3, <4>2
                DEF Service!ReportsDone, Service!IsWrite
        <3>4. CASE ~Reading
            <4>1. me \in CarriedOut
                <5>1. me \in RequestId
                    BY <1>1 DEF TrafficInvariant, TypeOK, ClientTypeOK, Calls, Frame
                <5> QED BY <1>2, <2>1, <3>4, <5>1 DEF CarriedOut
            <4> QED BY <1>2, <1>3, <2>1, <3>1, <3>2, <3>4, <4>1
                DEF Service!ReportsDone, Service!IsWrite
        <3> QED BY <3>3, <3>4
    <2>2. CASE result'.error \in {"remote_error", "connect_failed"}
        <3>1. Reported' = [report |-> "not_done", data |-> <<>>]
            BY <2>2 DEF Reported
        <3>2. call.request \notin WritesUnderWay
            <4>1. ASSUME NEW r \in requests, r.opcode = "write_request",
                         call.request = DecodedFrame(r)
                  PROVE  FALSE
                <5>1. call.request.opcode = "write_request" /\ me = r.request_id
                    BY <4>1 DEF DecodedFrame
                <5> QED BY <1>2, <1>3, <2>2, <5>1
            <4> QED BY <4>1, UnderWay
        <3>3. Outstanding' = Outstanding \ {call.request}
            BY <1>4, <3>2 DEF Outstanding
        <3>4. call.request.opcode = "write_request" => me \notin CarriedOut
            BY <1>2, <1>3, <2>2 DEF CarriedOut
        <3> QED BY <3>1, <3>3, <3>4 DEF Service!ReportsNotDone, Service!IsWrite
    <2>3. CASE result'.error \notin {"none", "remote_error", "connect_failed"}
        <3>1. Outstanding' = Outstanding
            BY <1>2, <1>4, <2>3 DEF Outstanding
        <3>2. Reported' = [report |-> "unknown", data |-> <<>>]
            BY <2>3 DEF Reported
        <3> QED BY <3>1, <3>2 DEF Service!ReportsUnknown
    <2> QED BY <2>1, <2>2, <2>3
<1> QED BY <1>2, <1>5, <1>6 DEF Service!Return

\* The server's step carries a write out, drops it, or only answers a read.
LEMMA ServiceCarriesOut ==
    ASSUME RemoteInvariant, ServerServes
    PROVE  \/ \E write \in Outstanding : Service!CarryOut(write) \/ Service!Drop(write)
           \/ UNCHANGED Service!vars
<1>1. /\ IdsStandForOneRequest /\ AnswersAreTrue
      /\ requests \subseteq Wire /\ policy \in ServerPolicy
      /\ applications \in [RequestId -> Nat]
      /\ \A r \in requests : Decodes(r)
    BY DEF RemoteInvariant, IdInvariant, TrafficInvariant, TypeOK, RemoteTypeOK,
           HonestTraffic
<1>2. PICK r \in requests :
        /\ RemoteServes(r)
        /\ applications' = [applications EXCEPT
             ![r.request_id] = @ + (IF Applies(r) THEN 1 ELSE 0)]
    BY DEF ServerServes
<1>3. /\ requests' = requests \ {r} /\ policy' = policy /\ memory' = MemoryAfter(r)
      /\ UNCHANGED <<awaiting, metrics, call, pc, result>>
      /\ seen' = IF pc = "idle" THEN seen ELSE seen \cup {memory'}
    BY <1>2 DEF ServerServes, RemoteServes, Handle, clientVars
<1>4. Writable' = Writable /\ Reported' = Reported /\ (WriteUnsent' <=> WriteUnsent)
    BY <1>3 DEF Writable, Reported, WriteUnsent
<1>5. r \in Wire /\ r.request_id \in RequestId /\ applications[r.request_id] \in Nat
    BY <1>1 DEF Wire, WireFields
<1>6. ASSUME memory' = memory
      PROVE  seen' = seen
    BY <1>1, <1>3, <1>6 DEF AnswersAreTrue
<1>7. CASE r.opcode # "write_request"
    <2>1. ~Applies(r) /\ memory' = memory
        BY <1>3, <1>7 DEF Applies, MemoryAfter
    <2>2. applications' = applications
        BY <1>1, <1>2, <1>5, <2>1
    <2>3. Outstanding' = Outstanding
        BY <1>3, <1>4, <1>7 DEF Outstanding, WritesUnderWay
    <2> QED BY <1>3, <1>6, <2>1, <2>2, <2>3, ServiceStutters
<1>8. CASE r.opcode = "write_request"
    <2>1. PICK write : write = DecodedFrame(r)
        OBVIOUS
    <2>2. /\ write.request_id = r.request_id /\ write.address = r.address
          /\ write.payload = r.payload
        BY <2>1 DEF DecodedFrame
    <2>3. write \in Outstanding
        BY <1>8, <2>1, UnderWay DEF Outstanding
    <2>4. WritesUnderWay' = WritesUnderWay \ {write}
        <3>1. \A s \in requests : s # r => DecodedFrame(s) # write
            <4>1. \A s \in requests : DecodedFrame(s).request_id = s.request_id
                BY DEF DecodedFrame
            <4> QED BY <1>1, <2>2, <4>1 DEF IdsStandForOneRequest
        <3> QED BY <1>3, <2>1, <3>1 DEF WritesUnderWay
    <2>5. WriteUnsent => call.request # write
        BY <1>1, <2>2 DEF IdsStandForOneRequest
    <2>6. Outstanding' = Outstanding \ {write}
        BY <1>3, <1>4, <2>4, <2>5 DEF Outstanding
    <2>7. CASE Applies(r)
        <3>1. memory' = Service!Written(memory, write.address, write.payload)
            BY <1>3, <2>2, <2>7 DEF MemoryAfter, Written, Service!Written, Location,
                                    Service!Location
        <3>2. write.address .. write.address + Len(write.payload) - 1 \subseteq Writable
            BY <1>1, <1>5, <2>2, <2>7, AppliedInterval
        <3>3. CarriedOut' = CarriedOut \cup {write.request_id}
            <4>1. applications'[r.request_id] = applications[r.request_id] + 1
                BY <1>1, <1>2, <1>5, <2>7
            <4>2. \A id \in RequestId : id # r.request_id
                                            => applications'[id] = applications[id]
                BY <1>1, <1>2
            <4> QED BY <1>5, <2>2, <4>1, <4>2 DEF CarriedOut
        <3>4. Service!CarryOut(write)
            BY <1>3, <1>4, <2>6, <3>1, <3>2, <3>3 DEF Service!CarryOut
        <3> QED BY <2>3, <3>4
    <2>8. CASE ~Applies(r)
        <3>1. memory' = memory
            BY <1>3, <2>8 DEF MemoryAfter
        <3>2. applications' = applications
            BY <1>1, <1>2, <1>5, <2>8
        <3>3. CarriedOut' = CarriedOut
            BY <3>2 DEF CarriedOut
        <3>4. Service!Drop(write)
            BY <1>3, <1>4, <1>6, <2>6, <3>1, <3>3 DEF Service!Drop
        <3> QED BY <2>3, <3>4
    <2> QED BY <2>7, <2>8
<1> QED BY <1>7, <1>8

\* Every step is a step of the service or changes nothing of it.
LEMMA NextService == RemoteInvariant /\ [Next]_vars => [Service!Next]_(Service!vars)
<1> SUFFICES ASSUME RemoteInvariant, [Next]_vars
             PROVE  Service!Next \/ UNCHANGED Service!vars
    OBVIOUS
<1>1. ClientTypeOK /\ HonestTraffic /\ IdsStandForOneRequest /\ AnswersAreTrue
    BY DEF RemoteInvariant, TrafficInvariant, TypeOK, IdInvariant
\* A step of the client that leaves the network alone.
<1>2. ASSUME UNCHANGED <<memory, policy, result, applications, seen, requests>>,
             (pc' = "idle") <=> (pc = "idle"), call'.request = call.request,
             metrics'.operations = metrics.operations, WriteUnsent' <=> WriteUnsent
      PROVE  UNCHANGED Service!vars
    <2>1. Outstanding' = Outstanding
        BY <1>2 DEF Outstanding, WritesUnderWay
    <2> QED BY <1>2, <2>1, ServiceStutters
<1>3. CASE Next /\ pc # "idle" /\ pc' = "idle"
    BY <1>3, ServiceReturns DEF Service!Next
<1>4. CASE UserCalls
    BY <1>4, ServiceAsks DEF Service!Next
<1>5. CASE ClientAttempts /\ pc' # "idle"
    <2>1. /\ pc = "attempt" /\ pc' = "exchange" /\ result' = result
          /\ UNCHANGED <<memory, policy, seen, requests, applications, awaiting, call>>
        BY <1>5 DEF ClientAttempts, Attempt, Return, serverVars, networkVars, historyVars
    <2>2. metrics'.operations = metrics.operations
        BY <1>1, <1>5 DEF ClientAttempts, Attempt, ClientTypeOK, ClientMetrics
    <2>3. WriteUnsent' <=> WriteUnsent
        BY <1>1, <2>1 DEF WriteUnsent, IdsStandForOneRequest
    <2> QED BY <1>2, <2>1, <2>2, <2>3
<1>6. CASE ClientConcludes /\ pc' # "idle"
    <2>1. Retry
        BY <1>6 DEF ClientConcludes, AcceptReply, GiveUp, Return
    <2>2. /\ pc = "reply" /\ pc' = "attempt" /\ result' = result
          /\ UNCHANGED <<memory, policy, seen, requests, applications, awaiting>>
        BY <1>6, <2>1 DEF ClientConcludes, Retry, serverVars, networkVars, historyVars
    <2>3. metrics'.operations = metrics.operations /\ call'.request = call.request
        BY <1>1, <2>1 DEF Retry, MetricsAfterFailure, ClientTypeOK, ClientMetrics, Calls
    <2>4. ~WriteUnsent /\ ~WriteUnsent'
        BY <2>1, <2>2, <2>3 DEF WriteUnsent, Retry, CanRetry, Reading
    <2> QED BY <1>2, <2>2, <2>3, <2>4
<1>7. CASE ExchangeStarts
    <2>1. /\ pc = "exchange" /\ pc' # "idle"
          /\ UNCHANGED <<memory, policy, result, seen, applications, metrics, call>>
        BY <1>7 DEF ExchangeStarts, serverVars, historyVars
    <2>2. CASE RemoteSends(EncodedBytes(call.request)) /\ UNCHANGED pc
        <3> DEFINE sent == EncodedBytes(call.request)
        <3>1. ~awaiting /\ awaiting' /\ requests' = requests \cup {sent}
            BY <2>2 DEF RemoteSends
        <3>2. sent.opcode = call.request.opcode /\ DecodedFrame(sent) = call.request
            <4>1. call.request \in Frame /\ EncodeError(call.request) = "none"
                BY <1>1, <2>1 DEF ClientTypeOK, Calls, HonestTraffic
            <4> QED BY <4>1, EncodedBytesType DEF EncodedBytes
        <3>3. ~WriteUnsent' /\ (WriteUnsent <=> call.request.opcode = "write_request")
            BY <2>1, <2>2, <3>1 DEF WriteUnsent
        <3> HIDE DEF sent
        <3>4. Outstanding' = Outstanding
            BY <3>1, <3>2, <3>3 DEF Outstanding, WritesUnderWay
        <3> QED BY <2>1, <3>4, ServiceStutters
    <2>3. CASE RemoteRefuses /\ pc' = "reply"
        <3>1. requests' = requests /\ ~WriteUnsent'
            BY <2>3 DEF RemoteRefuses, WriteUnsent
        <3>2. CASE ~WriteUnsent
            BY <1>2, <2>1, <3>1, <3>2
        <3>3. CASE WriteUnsent
            <4>1. call.request \in Outstanding
                BY <3>3 DEF Outstanding
            <4>2. call.request \notin WritesUnderWay
                <5>1. \A r \in requests : /\ DecodedFrame(r).request_id = r.request_id
                                         /\ r.request_id # call.request.request_id
                    BY <1>1, <3>3 DEF DecodedFrame, IdsStandForOneRequest
                <5> QED BY <5>1, UnderWay
            <4>3. Outstanding' = Outstanding \ {call.request}
                BY <3>1, <3>3, <4>2 DEF Outstanding, WritesUnderWay
            <4>4. Writable' = Writable /\ Reported' = Reported /\ CarriedOut' = CarriedOut
                BY <2>1 DEF Writable, Reported, CarriedOut
            <4>5. Service!Drop(call.request)
                BY <2>1, <4>3, <4>4 DEF Service!Drop
            <4> QED BY <4>1, <4>5 DEF Service!Next
        <3> QED BY <3>2, <3>3
    <2> QED BY <1>7, <2>2, <2>3 DEF ExchangeStarts
<1>8. CASE ExchangeReturns
    <2>1. /\ pc = "exchange" /\ pc' = "reply" /\ awaiting
          /\ UNCHANGED <<memory, policy, result, seen, requests, applications, metrics, call>>
        BY <1>8 DEF ExchangeReturns, RemoteDelivers, RemoteFails, serverVars, historyVars
    <2>2. ~WriteUnsent /\ ~WriteUnsent'
        BY <2>1 DEF WriteUnsent
    <2> QED BY <1>2, <2>1, <2>2
<1>9. CASE ServerServes
    BY <1>9, ServiceCarriesOut DEF Service!Next
<1>10. CASE ConnectionDrops \/ UNCHANGED vars
    <2>1. UNCHANGED <<memory, policy, result, seen, requests, applications, metrics, call,
                      pc, awaiting>>
        BY <1>10 DEF ConnectionDrops, RemoteDrops, clientVars, serverVars, historyVars, vars
    <2>2. WriteUnsent' <=> WriteUnsent
        BY <2>1 DEF WriteUnsent
    <2> QED BY <1>2, <2>1, <2>2
<1>11. ClientAttempts \/ ClientConcludes => pc # "idle"
    BY DEF ClientAttempts, Attempt, ClientConcludes, AcceptReply, Retry, GiveUp
<1> QED BY <1>3, <1>4, <1>5, <1>6, <1>7, <1>8, <1>9, <1>10, <1>11 DEF Next

\* Client, network and server together take only steps of the memory service.
THEOREM RemoteImplementsServiceSteps == Spec => TakesServiceSteps
BY InitService, NextService, RemoteInvariantHolds, PTL DEF Spec, TakesServiceSteps
=============================================================================
