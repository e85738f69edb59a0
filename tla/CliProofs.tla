------------------------------ MODULE CliProofs ------------------------------
(***************************************************************************)
(* The command line, for every list of argument words.                     *)
(***************************************************************************)
EXTENDS Cli, CodecCallsProofs

\* The words ask for writes: the demo, or a write with its opt-in.
WordsAskForWrites ==
    \/ argv = <<<<"demo">>>>
    \/ Len(argv) = 4 /\ argv[1] = <<"write">> /\ argv[4] = <<"--allow-writes">>

\* Statements none of which constructs a server that writes.
Harmless(program) ==
    \E S : /\ program \in Seq(S)
           /\ \A s \in S : s.do = "construct" => s.writes_enabled = FALSE

\* Unless the words ask for writes, the server has the constructor's memory and a closed
\* policy, and none of the statements to come will open it.
OptInInv ==
    /\ argv \in CommandLines
    /\ policy \in ServerPolicy
    /\ ~WordsAskForWrites =>
          memory = InitialMemory /\ policy.writes_enabled = FALSE /\ Harmless(statements)

\* What is left of harmless statements is harmless, and so is the next one.
LEMMA HarmlessTail ==
    ASSUME NEW program, Harmless(program), program # <<>>
    PROVE  /\ Harmless(Tail(program))
           /\ Head(program).do = "construct" => Head(program).writes_enabled = FALSE
<1>1. PICK S : /\ program \in Seq(S)
               /\ \A s \in S : s.do = "construct" => s.writes_enabled = FALSE
    BY DEF Harmless
<1>2. Tail(program) \in Seq(S) /\ Head(program) \in S
    BY <1>1
<1> QED BY <1>1, <1>2 DEF Harmless

\* run_read() constructs no server that writes.
LEMMA ReadIsHarmless ==
    ASSUME NEW a, NEW b
    PROVE  Harmless(<<ConstructStack(FALSE), CallRead(a, b), print_result, print_trace>>)
<1> DEFINE S == {ConstructStack(FALSE), CallRead(a, b), print_result, print_trace}
<1>1. \A s \in S : s.do = "construct" => s.writes_enabled = FALSE
    BY DEF ConstructStack, CallRead, print_result, print_trace
<1>2. \A p, q, r, s \in S : <<p, q, r, s>> \in Seq(S)
    <2> HIDE DEF S
    <2> QED OBVIOUS
<1>3. <<ConstructStack(FALSE), CallRead(a, b), print_result, print_trace>> \in Seq(S)
    BY <1>2
<1> HIDE DEF S
<1> QED BY <1>1, <1>3, Zenon DEF Harmless

\* A server with a closed policy keeps its memory whatever reaches it.
LEMMA ClosedPolicyKeepsMemory ==
    ASSUME NEW w, policy.writes_enabled = FALSE, Handle(w)
    PROVE  memory' = memory
<1>1. WriteVerdict(DecodedFrame(w)).detail = "write_disabled"
    BY DEF WriteVerdict, Verdict
<1>2. ~Applies(w)
    BY <1>1 DEF Applies
<1> QED BY <1>2 DEF Handle, MemoryAfter

\* An exchange keeps the policy, and under a closed one the memory.
LEMMA ExchangeKeepsMemory ==
    ASSUME NEW w, NEW limit, Exchange(w, limit)
    PROVE  /\ policy' = policy
           /\ policy.writes_enabled = FALSE => memory' = memory
<1>1. CASE ExchangeIsServed(w, limit)
    BY <1>1, ClosedPolicyKeepsMemory DEF ExchangeIsServed, Handle
<1>2. CASE ~ExchangeIsServed(w, limit)
    BY <1>2 DEF Exchange, ExchangeNotConnected, ExchangeDeadlineExpired, ExchangeTimesOut,
                ExchangeDisconnects
<1> QED BY <1>1, <1>2

\* Unless the words ask for them, no step opens the policy or touches the memory.
LEMMA OptInInvHolds == Spec => []OptInInv
<1>1. Init => OptInInv
    <2> SUFFICES ASSUME Init PROVE OptInInv
        OBVIOUS
    <2>1. /\ argv \in CommandLines /\ statements = <<>> /\ policy \in ServerPolicy
          /\ memory = InitialMemory /\ policy.writes_enabled = FALSE
        BY ServerConstants DEF Init, ServerInit, ServerPolicy
    <2>2. Harmless(<<>>)
        <3> DEFINE S == {}
        <3>1. <<>> \in Seq(S)
            OBVIOUS
        <3>2. \A s \in S : s.do = "construct" => s.writes_enabled = FALSE
            OBVIOUS
        <3> HIDE DEF S
        <3> QED BY <3>1, <3>2 DEF Harmless
    <2> QED BY <2>1, <2>2 DEF OptInInv
<1>2. OptInInv /\ [Next]_vars => OptInInv'
    <2> SUFFICES ASSUME OptInInv, [Next]_vars PROVE OptInInv'
        OBVIOUS
    <2>1. ASSUME argv' = argv, policy' = policy, memory' = memory, statements' = statements
          PROVE  OptInInv'
        BY <2>1 DEF OptInInv, WordsAskForWrites
    <2>2. ASSUME argv' = argv, policy' = policy, memory' = memory, statements # <<>>,
                 statements' = Tail(statements)
          PROVE  OptInInv'
        BY <2>2, HarmlessTail DEF OptInInv, WordsAskForWrites
    <2>3. \A code, lines : Exit(code, lines) => OptInInv'
        BY <2>1 DEF Exit, stackVars, serverVars
    <2>4. /\ Is("write", 5) => Len(argv) = 4 /\ argv[1] = <<"write">>
          /\ Is("demo", 2) => Len(argv) = 1 /\ argv[1] = <<"demo">>
        <3>1. 5 - 1 = 4 /\ 2 - 1 = 1
            OBVIOUS
        <3> QED BY <3>1 DEF Is
    <2>5. CASE Usage
        BY <2>3, <2>5 DEF Usage
    <2>6. CASE RunInspect
        BY <2>3, <2>6 DEF RunInspect
    <2>7. CASE RunEncodeRead
        BY <2>3, <2>7 DEF RunEncodeRead
    <2>8. CASE RunRead
        <3>1. ASSUME NEW a, NEW b,
                     Start(<<ConstructStack(FALSE), CallRead(a, b), print_result, print_trace>>)
              PROVE  OptInInv'
            BY <3>1, ReadIsHarmless
               DEF Start, stackVars, serverVars, OptInInv, WordsAskForWrites
        <3> QED BY <2>3, <2>8, <3>1 DEF RunRead
    <2>9. CASE RunWrite
        <3>1. Is("write", 5)
            BY <2>9 DEF RunWrite
        <3>2. Len(argv) = 4 /\ argv[1] = <<"write">>
            BY <2>4, <3>1
        <3>3. ASSUME NEW program, Start(program), OptedIn(argv[4]) PROVE OptInInv'
            BY <3>2, <3>3 DEF Start, OptedIn, stackVars, serverVars, OptInInv, WordsAskForWrites
        <3> QED BY <2>3, <2>9, <3>3 DEF RunWrite
    <2>10. CASE RunDemo
        <3>1. Len(argv) = 1 /\ argv[1] = <<"demo">>
            BY <2>4, <2>10 DEF RunDemo
        <3>2. argv \in Seq(Seq(STRING))
            BY CliConstants DEF OptInInv
        <3>3. argv = <<<<"demo">>>>
            BY <3>1, <3>2
        <3>4. argv' = argv /\ policy' = policy
            BY <2>10 DEF RunDemo, Start, stackVars, serverVars
        <3> QED BY <3>3, <3>4 DEF OptInInv, WordsAskForWrites
    <2>11. CASE DoConstruct
        <3>1. /\ statements # <<>> /\ Head(statements).do = "construct" /\ argv' = argv
              /\ statements' = Tail(statements) /\ memory' = InitialMemory
              /\ policy' \in Policies /\ policy'.writes_enabled = Head(statements).writes_enabled
            BY <2>11 DEF DoConstruct, At
        <3>2. policy' \in ServerPolicy
            BY <3>1, ServerConstants
        <3> QED BY <3>1, <3>2, HarmlessTail DEF OptInInv, WordsAskForWrites
    <2>12. CASE DoPushFault
        BY <2>2, <2>12 DEF DoPushFault, At, PushFault
    <2>13. CASE DoRead
        BY <2>2, <2>13 DEF DoRead, At, belowClient, serverVars
    <2>14. CASE DoWrite
        BY <2>2, <2>14 DEF DoWrite, At, belowClient, serverVars
    <2>15. CASE DoPrint
        BY <2>2, <2>15 DEF DoPrint, At, stackVars, serverVars
    <2>16. CASE ClientAttempts
        BY <2>1, <2>16 DEF ClientAttempts, belowClient, serverVars, cliVars
    <2>17. CASE TransportExchanges
        <3>1. /\ argv' = argv /\ statements' = statements
              /\ Exchange(EncodedBytes(call.request), call.deadline)
            BY <2>17 DEF TransportExchanges, cliVars
        <3>2. policy' = policy /\ (policy.writes_enabled = FALSE => memory' = memory)
            BY <3>1, ExchangeKeepsMemory
        <3> QED BY <3>1, <3>2 DEF OptInInv, WordsAskForWrites
    <2>18. CASE ClientConcludes
        BY <2>1, <2>18 DEF ClientConcludes, belowClient, serverVars, cliVars
    <2>19. CASE Leave
        BY <2>3, <2>19 DEF Leave
    <2>20. CASE Exited
        BY <2>1, <2>20 DEF Exited, vars, cliVars, stackVars, serverVars
    <2>21. CASE UNCHANGED vars
        BY <2>1, <2>21 DEF vars, cliVars, stackVars, serverVars
    <2> QED BY <2>5, <2>6, <2>7, <2>8, <2>9, <2>10, <2>11, <2>12, <2>13, <2>14, <2>15, <2>16,
               <2>17, <2>18, <2>19, <2>20, <2>21 DEF Next
<1> QED BY <1>1, <1>2, PTL DEF Spec

\* For every list of words: the simulator's memory changes, and its policy is opened, only
\* in the demo or in a write that carries its opt-in.
THEOREM WritesNeedOptInHolds == Spec => []WritesNeedOptIn
<1>1. OptInInv => WritesNeedOptIn
    BY DEF OptInInv, WritesNeedOptIn, WordsAskForWrites
<1> QED BY <1>1, OptInInvHolds, PTL

(***************************************************************************)
(* inspect.                                                                *)
(***************************************************************************)
InspectWords == Len(argv) = 2 /\ argv[1] = <<"inspect">>

\* An inspect does everything in one step; when it succeeds, its word is the text of
\* a vector that decode() accepts, and it has printed one line.
InspectInv ==
    /\ argv \in CommandLines
    /\ stage \in {"main", "running", "exited"}
    /\ stage = "main" => printed = <<>>
    /\ stage = "running" => ~InspectWords
    /\ stage = "exited" /\ InspectWords /\ exit_code = 0 =>
          LET vector == bytes_from_hex(argv[2])
          IN /\ IsHex(argv[2]) /\ DecodeErrorOf(vector) = "none"
             /\ printed = <<Line("frame", Shown(FrameOf(vector)))>>

\* A status that has a name has one number.
LEMMA StatusNumbers ==
    \A v : Named(StatusValue, v) \in Status => StatusValue[Named(StatusValue, v)] = v
BY DEF Named, StatusValue, Status

\* Every character is one of the sixteen digits or none.
LEMMA NibbleType == \A char : hex_nibble(char) \in 0 .. 16
<1> TAKE char
<1>1. DOMAIN digits = 1 .. 16 /\ DOMAIN UpperDigits = 1 .. 6
    BY DEF digits, UpperDigits
<1>2. CASE \E i \in DOMAIN digits : digits[i] = char
    <2> DEFINE c == CHOOSE i \in DOMAIN digits : digits[i] = char
    <2>1. c \in 1 .. 16
        BY <1>1, <1>2
    <2>2. hex_nibble(char) = c - 1
        BY <1>2 DEF hex_nibble
    <2> HIDE DEF c
    <2> QED BY <2>1, <2>2
<1>3. CASE ~(\E i \in DOMAIN digits : digits[i] = char) /\ \E i \in DOMAIN UpperDigits : UpperDigits[i] = char
    <2> DEFINE c == CHOOSE i \in DOMAIN UpperDigits : UpperDigits[i] = char
    <2>1. c \in 1 .. 6
        BY <1>1, <1>3
    <2>2. hex_nibble(char) = c + 9
        BY <1>3 DEF hex_nibble
    <2> HIDE DEF c
    <2> QED BY <2>1, <2>2
<1>4. CASE /\ ~(\E i \in DOMAIN digits : digits[i] = char)
           /\ ~(\E i \in DOMAIN UpperDigits : UpperDigits[i] = char)
    BY <1>4 DEF hex_nibble, NotADigit
<1> QED BY <1>2, <1>3, <1>4

\* bytes_from_hex() returns bytes.
LEMMA TextIsBytes ==
    ASSUME NEW S, NEW text \in Seq(S), IsHex(text)
    PROVE  bytes_from_hex(text) \in Seq(Octet)
<1> DEFINE n == Len(text) \div 2
<1>1. n \in Nat /\ 2 * n <= Len(text) /\ Len(text) \in Nat
    OBVIOUS
<1>2. ASSUME NEW i \in 1 .. n
      PROVE  hex_nibble(text[2 * i - 1]) * 16 + hex_nibble(text[2 * i]) \in Octet
    <2>1. 2 * i - 1 \in 1 .. Len(text) /\ 2 * i \in 1 .. Len(text)
        <3> HIDE DEF n
        <3> QED BY <1>1
    <2>2. \A k \in 1 .. Len(text) : hex_nibble(text[k]) # NotADigit
        BY DEF IsHex
    <2>3. \A k \in 1 .. Len(text) : hex_nibble(text[k]) \in 0 .. 15
        BY <2>2, NibbleType DEF NotADigit
    <2>4. \A a, b \in 0 .. 15 : a * 16 + b \in Octet
        BY DEF Octet
    <2> QED BY <2>1, <2>3, <2>4
<1>3. bytes_from_hex(text) =
          [i \in 1 .. n |-> hex_nibble(text[2 * i - 1]) * 16 + hex_nibble(text[2 * i])]
    BY DEF bytes_from_hex
<1> HIDE DEF n
<1>4. bytes_from_hex(text) \in [1 .. n -> Octet]
    BY <1>2, <1>3
<1> QED BY <1>1, <1>4

\* The frame is made again from what is shown of it.
LEMMA ShownTellsTheFrame ==
    ASSUME NEW f \in ByteFrame, EncodeError(f) = "none", Shown(f).status # "unknown"
    PROVE  LET shown == Shown(f)
           IN f = [version |-> shown.version,
                   opcode |-> Named(OpcodeValue, shown.opcode), flags |-> shown.flags,
                   request_id |-> shown.request_id, address |-> shown.address,
                   status |-> shown.status, code |-> StatusValue[shown.status],
                   payload |-> bytes_from_hex(shown.payload)]
<1>1. /\ Shown(f).version = f.version /\ Shown(f).opcode = OpcodeValue[f.opcode]
      /\ Shown(f).flags = f.flags /\ Shown(f).request_id = f.request_id
      /\ Shown(f).address = f.address /\ Shown(f).status = status_name(f.status)
      /\ Shown(f).payload = bytes_to_hex(f.payload)
    BY DEF Shown
<1>2. f.status \in Status /\ status_name(f.status) = f.status
    BY <1>1 DEF status_name
<1>3. StatusValue[f.status] = f.code
    <2>1. f.status = Named(StatusValue, f.code)
        BY DEF ByteFrame
    <2> QED BY <1>2, <2>1, StatusNumbers
<1>4. Named(OpcodeValue, OpcodeValue[f.opcode]) = f.opcode
    BY EncodeAccepts, OpcodeNames
<1>5. bytes_from_hex(bytes_to_hex(f.payload)) = f.payload
    <2>1. f.payload \in Seq(Octet)
        BY DEF ByteFrame
    <2> DEFINE p == f.payload
               text == bytes_to_hex(p)
    <2>2. /\ DOMAIN text = 1 .. 2 * Len(p) /\ Len(text) = 2 * Len(p)
          /\ \A i \in 1 .. Len(p) : /\ hex_nibble(text[2 * i - 1]) = p[i] \div 16
                                    /\ hex_nibble(text[2 * i]) = p[i] % 16
        BY <2>1, TextOfVector
    <2> HIDE DEF text, p
    <2>3. p \in Seq(Octet)
        BY <2>1 DEF p
    <2>4. bytes_from_hex(text) = p
        BY <2>2, <2>3, ReadText
    <2> QED BY <2>4 DEF text, p
<1>6. f = [version |-> f.version, opcode |-> f.opcode, flags |-> f.flags,
           request_id |-> f.request_id, address |-> f.address,
           status |-> f.status, code |-> f.code, payload |-> f.payload]
    BY DEF ByteFrame
<1> QED BY <1>1, <1>2, <1>3, <1>4, <1>5, <1>6

\* InspectInv holds in every state.
LEMMA InspectInvHolds == Spec => []InspectInv
<1>1. Init => InspectInv
    BY DEF Init, InspectInv
<1>2. InspectInv /\ [Next]_vars => InspectInv'
    <2> SUFFICES ASSUME InspectInv, [Next]_vars PROVE InspectInv'
        OBVIOUS
    <2>1. ASSUME cliVars' = cliVars PROVE InspectInv'
        BY <2>1 DEF InspectInv, InspectWords, cliVars
    <2>2. ASSUME stage = "running", stage' = stage, argv' = argv PROVE InspectInv'
        BY <2>2 DEF InspectInv, InspectWords
    <2>3. ASSUME NEW code, NEW lines, Exit(code, lines), code # 0 \/ ~InspectWords
          PROVE  InspectInv'
        BY <2>3 DEF Exit, InspectInv, InspectWords
    <2>4. ASSUME NEW program, Start(program), ~InspectWords PROVE InspectInv'
        BY <2>4 DEF Start, InspectInv, InspectWords
    <2>5. \/ Is("encode-read", 4) \/ Is("read", 4) \/ Is("write", 5) \/ Is("demo", 2)
          => ~InspectWords
        <3>1. 4 - 1 = 3 /\ 5 - 1 = 4 /\ 2 - 1 = 1
            OBVIOUS
        <3> QED BY <3>1 DEF Is, InspectWords
    <2>6. CASE Usage
        BY <2>3, <2>6 DEF Usage
    <2>7. CASE RunInspect
        <3> DEFINE vector == bytes_from_hex(argv[2])
        <3>1. stage = "main" /\ printed = <<>>
            BY <2>7 DEF RunInspect, InspectInv
        <3>2. \/ \E lines : Exit(2, lines)
              \/ \E lines : Exit(3, lines)
              \/ /\ IsHex(argv[2]) /\ DecodeErrorOf(vector) = "none"
                 /\ Exit(0, <<Line("frame", Shown(FrameOf(vector)))>>)
            BY <2>7 DEF RunInspect
        <3>3. ASSUME NEW lines, Exit(2, lines) \/ Exit(3, lines) PROVE InspectInv'
            BY <2>3, <3>3
        <3>4. ASSUME IsHex(argv[2]), DecodeErrorOf(vector) = "none",
                     Exit(0, <<Line("frame", Shown(FrameOf(vector)))>>)
              PROVE  InspectInv'
            <4> DEFINE shown == Line("frame", Shown(FrameOf(vector)))
            <4>1. /\ stage' = "exited" /\ argv' = argv /\ printed' = printed \o <<shown>>
                BY <3>4 DEF Exit
            <4>2. printed' = <<shown>>
                <5> HIDE DEF shown
                <5> QED BY <3>1, <4>1
            <4> HIDE DEF shown, vector
            <4> QED BY <3>4, <4>1, <4>2 DEF InspectInv, InspectWords, shown, vector
        <3> QED BY <3>2, <3>3, <3>4
    <2>8. CASE RunEncodeRead
        BY <2>3, <2>5, <2>8 DEF RunEncodeRead
    <2>9. CASE RunRead
        BY <2>3, <2>4, <2>5, <2>9 DEF RunRead
    <2>10. CASE RunWrite
        BY <2>3, <2>4, <2>5, <2>10 DEF RunWrite
    <2>11. CASE RunDemo
        BY <2>4, <2>5, <2>11 DEF RunDemo
    <2>12. CASE \/ DoConstruct \/ DoPushFault \/ DoRead \/ DoWrite \/ DoPrint
        <3>1. stage = "running" /\ stage' = stage /\ argv' = argv
            BY <2>12 DEF DoConstruct, DoPushFault, DoRead, DoWrite, DoPrint, At
        <3> QED BY <2>2, <3>1
    <2>13. CASE ClientAttempts \/ TransportExchanges \/ ClientConcludes
        BY <2>1, <2>13 DEF ClientAttempts, TransportExchanges, ClientConcludes, cliVars
    <2>14. CASE Leave
        BY <2>3, <2>14 DEF Leave, InspectInv
    <2>15. CASE Exited \/ UNCHANGED vars
        BY <2>1, <2>15 DEF Exited, vars
    <2> QED BY <2>6, <2>7, <2>8, <2>9, <2>10, <2>11, <2>12, <2>13, <2>14, <2>15 DEF Next
<1> QED BY <1>1, <1>2, PTL DEF Spec

\* For every text: if inspect accepts it, the frame it shows, unless its status has no
\* name, is laid out as exactly the bytes of the text.
THEOREM InspectShowsTheVectorHolds == Spec => []InspectShowsTheVector
<1>1. InspectInv => InspectShowsTheVector
    <2> SUFFICES ASSUME InspectInv, Ended("inspect", 3), exit_code = 0,
                        printed[1].content.status # "unknown"
                 PROVE  LET shown == printed[1].content
                        IN bytes_from_hex(argv[2]) =
                             LayOut([version |-> shown.version,
                                     opcode |-> Named(OpcodeValue, shown.opcode),
                                     flags |-> shown.flags,
                                     request_id |-> shown.request_id,
                                     address |-> shown.address,
                                     status |-> shown.status,
                                     code |-> StatusValue[shown.status],
                                     payload |-> bytes_from_hex(shown.payload)])
        BY Zenon DEF InspectShowsTheVector
    <2> DEFINE vector == bytes_from_hex(argv[2])
               f == FrameOf(vector)
    <2>1. stage = "exited" /\ InspectWords
        <3>1. 3 - 1 = 2
            OBVIOUS
        <3> QED BY <3>1 DEF Ended, Is, InspectWords
    <2>2. /\ IsHex(argv[2]) /\ DecodeErrorOf(vector) = "none"
          /\ printed = <<Line("frame", Shown(f))>>
        BY <2>1 DEF InspectInv
    <2>3. argv[2] \in Seq(STRING)
        <3>1. argv \in Seq(Seq(STRING)) /\ Len(argv) = 2
            BY <2>1, CliConstants DEF InspectInv, InspectWords
        <3> QED BY <3>1
    <2>4. vector \in Seq(Octet)
        BY <2>2, <2>3, TextIsBytes
    <2> HIDE DEF vector
    <2>5. Acceptable(vector)
        BY <2>2, <2>4, DecodeAccepts
    <2>6. f \in ByteFrame /\ EncodeError(f) = "none" /\ LayOut(f) = vector
        BY <2>4, <2>5, AcceptableIsLaidOut
    <2> HIDE DEF f
    <2>7. printed[1].content = Shown(f)
        BY <2>2 DEF Line
    <2> DEFINE shown == Shown(f)
    <2>8. f = [version |-> shown.version,
               opcode |-> Named(OpcodeValue, shown.opcode), flags |-> shown.flags,
               request_id |-> shown.request_id, address |-> shown.address,
               status |-> shown.status, code |-> StatusValue[shown.status],
               payload |-> bytes_from_hex(shown.payload)]
        BY <2>6, <2>7, ShownTellsTheFrame
    <2> HIDE DEF shown
    <2> QED BY <2>6, <2>7, <2>8, Zenon DEF shown, vector
<1> QED BY <1>1, InspectInvHolds, PTL
=============================================================================
