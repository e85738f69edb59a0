--------------------------------- MODULE Cli ---------------------------------
(***************************************************************************)
(* The command line: apps/cli_main.cpp, from its argument words to its     *)
(* exit code, over the client, the transport, the server and the codec.    *)
(*                                                                         *)
(* A word is a sequence of characters.  A command that talks to the        *)
(* simulator is a list of statements, run in order; a statement that calls *)
(* the client waits until the call has returned.                           *)
(***************************************************************************)
EXTENDS WireCodec, Client, LoopbackTransport

CONSTANTS
    CommandLines,     \* the argument lists the program may be started with
    NumberMeaning,    \* the std::uint32_t each numeric word stands for, if any
    PayloadMeaning    \* the bytes each hexadecimal word stands for, if any

ASSUME CliConstants == CommandLines \subseteq Seq(Seq(STRING))

VARIABLES
    argv,        \* the argument words, without the program's name
    stage,       \* "main", "running", "exited"
    statements,  \* what is left to do of the command
    printed,     \* the lines written to stdout and stderr
    exit_code

cliVars == <<argv, stage, statements, printed, exit_code>>
stackVars == <<serverVars, loopbackVars, clientVars>>
\* What a step of the client does not change.
belowClient == <<serverVars, faults, trace, next_sequence>>
vars == <<cliVars, stackVars>>

NoValue == <<>>

\* An address or a length for the modules that use TLC's integers: what is
\* above AddressSpace is beyond every limit there, as the last address is.
Number(v) ==
    IF v[1] >= AddressSpace \div 65536 THEN AddressSpace - 1 ELSE v[1] * 65536 + v[2]

\* Mutant: a number that does not fit is taken modulo 2^32.
Fitting_Wraps(high, low) == <<high % 65536, low>>

\* std::errc::result_out_of_range
Fitting(high, low) == IF high > 65535 THEN NoValue ELSE <<high, low>>

\* std::from_chars() for a std::uint32_t, over a text of digits.
from_chars(text, base) ==
    LET Loop[i \in Nat, high \in Nat, low \in Half] ==
            LET sum == low * base + hex_nibble(text[i])
            IN IF i > Len(text) THEN Fitting(high, low)
               ELSE Loop[i + 1, high * base + sum \div 65536, sum % 65536]
    IN Loop[1, 0, 0]

\* parse_u32(): NoValue unless the whole text is one number.
parse_u32(text) ==
    LET prefixed == Len(text) > 2 /\ SubSeq(text, 1, 2) = <<"0", "x">>
        digits_of == IF prefixed THEN SubSeq(text, 3, Len(text)) ELSE text
        base == IF prefixed THEN 16 ELSE 10
    IN IF digits_of = <<>> \/ \E i \in DOMAIN digits_of : hex_nibble(digits_of[i]) >= base
       THEN NoValue
       ELSE from_chars(digits_of, base)

\* The printable names: those of the enumerators.
status_name(status) == IF status \in Status THEN status ELSE "unknown"
codec_error_name(error) == IF error \in CodecError THEN error ELSE "unknown"
client_error_name(error) == IF error \in ClientError THEN error ELSE "unknown"

-----------------------------------------------------------------------------
Line(kind, content) == [kind |-> kind, content |-> content]
ErrorLine(name) == <<Line("error", name)>>

ResultLine ==
    Line("result", [result EXCEPT !.error = client_error_name(@),
                                  !.remote_status = status_name(@),
                                  !.data = bytes_to_hex(@)])

TraceLines == Line("trace", trace)

Exit(code, lines) ==
    /\ stage' = "exited"
    /\ exit_code' = code
    /\ printed' = printed \o lines
    /\ UNCHANGED <<argv, statements, stackVars>>

Start(program) ==
    /\ stage' = "running"
    /\ statements' = program
    /\ UNCHANGED <<argv, printed, exit_code, stackVars>>

Is(command, argc) == Len(argv) = argc - 1 /\ argv[1] = <<command>>

Known == \/ Is("inspect", 3) \/ Is("encode-read", 4) \/ Is("read", 4)
         \/ Is("write", 5) \/ Is("demo", 2)

Usage ==
    /\ stage = "main"
    /\ argv = <<>> \/ ~Known
    /\ Exit(1, <<Line("usage", "usage")>>)

\* What run_inspect() shows of a frame: not the number of a status without a name.
Shown(frame) ==
    [version |-> frame.version, opcode |-> OpcodeValue[frame.opcode],
     flags |-> frame.flags, request_id |-> frame.request_id,
     address |-> frame.address, status |-> status_name(frame.status),
     payload |-> bytes_to_hex(frame.payload)]

RunInspect ==
    /\ stage = "main" /\ Is("inspect", 3)
    /\ LET bytes == bytes_from_hex(argv[2])
       IN IF ~IsHex(argv[2]) THEN Exit(2, ErrorLine("invalid_hex"))
          ELSE IF DecodeErrorOf(bytes) # "none"
          THEN Exit(3, ErrorLine(codec_error_name(DecodeErrorOf(bytes))))
          ELSE Exit(0, <<Line("frame", Shown(FrameOf(bytes)))>>)

\* Mutant: only the low byte of the length is sent.
ReadVector_OneByteLength(address, length) ==
    RequestFrame("read_request", <<0, 1>>, address, <<0, length % 256>>) @@ [code |-> 0]

ReadVector(address, length) ==
    RequestFrame("read_request", <<0, 1>>, address, append_u16(length)) @@ [code |-> 0]

RunEncodeRead ==
    /\ stage = "main" /\ Is("encode-read", 4)
    /\ LET address == parse_u32(argv[2])
           length == parse_u32(argv[3])
           request == ReadVector(address, length[2])
       IN IF \/ address = NoValue \/ length = NoValue
             \/ Number(length) \notin 1 .. maximum_payload_size
          THEN Exit(2, ErrorLine("invalid_address_or_length"))
          ELSE IF EncodeError(request) # "none"
          THEN Exit(3, ErrorLine(codec_error_name(EncodeError(request))))
          ELSE Exit(0, <<Line("hex", bytes_to_hex(LayOut(request)))>>)

-----------------------------------------------------------------------------
(***************************************************************************)
(* The statements of run_read(), run_write() and run_demo().               *)
(***************************************************************************)
ConstructStack(writes) == [do |-> "construct", writes_enabled |-> writes]
Push(fault) == [do |-> "push_fault", fault |-> fault]
CallRead(address, length) == [do |-> "read", address |-> address, length |-> length]
CallWrite(address, data) == [do |-> "write", address |-> address, data |-> data]
print_result == [do |-> "print", what |-> "result"]
print_trace == [do |-> "print", what |-> "trace"]

RunRead ==
    /\ stage = "main" /\ Is("read", 4)
    /\ LET address == parse_u32(argv[2])
           length == parse_u32(argv[3])
       IN IF address = NoValue \/ length = NoValue
          THEN Exit(2, ErrorLine("invalid_address_or_length"))
          ELSE Start(<<ConstructStack(FALSE), CallRead(Number(address), Number(length)),
                       print_result, print_trace>>)

\* Mutant: any third word will do.
OptedIn_AnyWord(confirmation) == confirmation # <<>>

OptedIn(confirmation) == confirmation = <<"--allow-writes">>

RunWrite ==
    /\ stage = "main" /\ Is("write", 5)
    /\ LET address == parse_u32(argv[2])
           payload == bytes_from_hex(argv[3])
       IN IF \/ address = NoValue \/ ~IsHex(argv[3]) \/ payload = <<>>
             \/ ~OptedIn(argv[4])
          THEN Exit(2, ErrorLine("invalid_write_or_missing_explicit_opt_in"))
          ELSE Start(<<ConstructStack(TRUE), CallWrite(Number(address), payload),
                       print_result, print_trace>>)

sample == <<\h12, \h34>>

RunDemo ==
    /\ stage = "main" /\ Is("demo", 2)
    /\ Start(<<ConstructStack(FALSE),
               CallRead(0, 12), print_result,
               CallWrite(\h100, sample), print_result,
               Push("timeout"),
               CallRead(\h40, 1), print_result,
               Push("corrupt_response"),
               CallRead(0, 4), print_result, print_trace,
               ConstructStack(TRUE),
               CallWrite(\h100, sample), print_result,
               CallRead(\h100, 2), print_result>>)

-----------------------------------------------------------------------------
\* The next statement is of this kind, and no call is running.
At(kind) ==
    /\ stage = "running" /\ pc = "idle" /\ statements # <<>>
    /\ Head(statements).do = kind
    /\ statements' = Tail(statements)
    /\ UNCHANGED <<argv, stage, exit_code>>

\* A server, a transport over it and a client over that, all new; only what
\* the last call left in this function's own variables stays.
DoConstruct ==
    /\ At("construct")
    /\ policy' \in {p \in Policies : p.writes_enabled = Head(statements).writes_enabled}
    /\ memory' = InitialMemory
    /\ connected' = FALSE
    /\ faults' = <<>> /\ trace' = <<>> /\ next_sequence' = 1
    /\ maximum_read_attempts' \in {EffectiveAttempts(option) : option \in ReadAttempts}
    /\ next_request_id' = 1
    /\ metrics' = [counter \in DOMAIN metrics |-> 0]
    /\ UNCHANGED <<reply, pc, call, result, printed>>

DoPushFault ==
    /\ At("push_fault")
    /\ PushFault(Head(statements).fault)
    /\ UNCHANGED <<clientVars, printed>>

deadline == 100

DoRead ==
    /\ At("read")
    /\ Read(Head(statements).address, Head(statements).length, deadline)
    /\ UNCHANGED <<belowClient, printed>>

DoWrite ==
    /\ At("write")
    /\ Write(Head(statements).address, Head(statements).data, deadline)
    /\ UNCHANGED <<belowClient, printed>>

DoPrint ==
    /\ At("print")
    /\ printed' = Append(printed, IF Head(statements).what = "result" THEN ResultLine
                                  ELSE TraceLines)
    /\ UNCHANGED stackVars

Leave ==
    /\ stage = "running" /\ pc = "idle" /\ statements = <<>>
    /\ Exit(IF Is("demo", 2) \/ result.error = "none" THEN 0 ELSE 4, <<>>)

\* The call of the client that is running.
ClientAttempts ==
    /\ Attempt(TRUE)
    /\ UNCHANGED <<belowClient, cliVars>>

TransportExchanges ==
    /\ pc = "exchange"
    /\ Exchange(EncodedBytes(call.request), call.deadline)
    /\ pc' = "reply"
    /\ UNCHANGED <<maximum_read_attempts, next_request_id, metrics, call, result,
                   cliVars>>

ClientConcludes ==
    /\ AcceptReply \/ Retry \/ GiveUp
    /\ UNCHANGED <<belowClient, cliVars>>

-----------------------------------------------------------------------------
Init ==
    /\ argv \in CommandLines
    /\ stage = "main"
    /\ statements = <<>>
    /\ printed = <<>>
    /\ exit_code = 0
    /\ ServerInit /\ ~policy.writes_enabled
    /\ LoopbackInit
    /\ ClientInit

\* The process is gone.
Exited == stage = "exited" /\ UNCHANGED vars

Next ==
    \/ Usage \/ RunInspect \/ RunEncodeRead \/ RunRead \/ RunWrite \/ RunDemo
    \/ DoConstruct \/ DoPushFault \/ DoRead \/ DoWrite \/ DoPrint
    \/ ClientAttempts \/ TransportExchanges \/ ClientConcludes
    \/ Leave \/ Exited

Spec == Init /\ [][Next]_vars

-----------------------------------------------------------------------------
Ended(command, argc) == stage = "exited" /\ argv # <<>> /\ Is(command, argc)

Results == SelectSeq(printed, LAMBDA line : line.kind = "result")

\* Does the interval lie between first and last?  Told in exact arithmetic from
\* the halves of the address.
Within(address, length, first, last) ==
    address[1] = 0 /\ first <= address[2] /\ address[2] + length - 1 <= last

\* Safety: the exit code of a read or a write tells apart words that are not
\* numbers or bytes (2), requests the client or the simulator refuses (4) and
\* success (0), for what the words mean; a successful read prints the bytes in
\* memory and a successful write, no other, has stored its payload (parse_u32,
\* bytes_from_hex, run_read, run_write and everything they call).
ExitCodeTellsWhatHappened ==
    /\ Ended("read", 4) =>
         LET address == NumberMeaning[argv[2]]
             length == NumberMeaning[argv[3]]
             valid == address # NoValue /\ length # NoValue
             served == /\ valid /\ Number(length) \in 1 .. maximum_payload_size
                       /\ Within(address, length[2], 0, read_write_last)
         IN /\ exit_code = IF served THEN 0 ELSE IF valid THEN 4 ELSE 2
            /\ served => bytes_from_hex(printed[1].content.data) =
                             ReadBytes(InitialMemory, address[2], length[2])
            /\ memory = InitialMemory
    /\ Ended("write", 5) =>
         LET address == NumberMeaning[argv[2]]
             payload == PayloadMeaning[argv[3]]
             valid == /\ address # NoValue /\ payload # NoValue
                      /\ argv[4] = <<"--allow-writes">>
             stored == /\ valid /\ Len(payload) <= maximum_payload_size
                       /\ Within(address, Len(payload), read_only_last + 1,
                                 read_write_last)
         IN /\ exit_code = IF stored THEN 0 ELSE IF valid THEN 4 ELSE 2
            /\ memory = IF stored THEN Written(InitialMemory, address[2], payload)
                        ELSE InitialMemory

\* Safety: at no moment of any command but the demo has the simulator's memory
\* changed, or its policy been opened, unless the words are those of a write
\* with its opt-in (run_write's check comes before the server exists).
WritesNeedOptIn ==
    memory # InitialMemory \/ policy.writes_enabled =>
        \/ argv = <<<<"demo">>>>
        \/ Len(argv) = 4 /\ argv[1] = <<"write">> /\ argv[4] = <<"--allow-writes">>

\* Safety: encode-read prints a vector for exactly the requests a frame can
\* carry, and inspecting that text shows a read of the address and the length
\* that were asked for (run_encode_read, parse_u32, hex and codec).
VectorsInspectAsEncoded ==
    Ended("encode-read", 4) =>
        LET address == NumberMeaning[argv[2]]
            length == NumberMeaning[argv[3]]
            bytes == bytes_from_hex(printed[1].content)
        IN IF /\ address # NoValue /\ length # NoValue
              /\ Number(length) \in 1 .. maximum_payload_size
           THEN /\ exit_code = 0
                /\ IsHex(printed[1].content)
                /\ DecodeErrorOf(bytes) = "none"
                /\ FrameOf(bytes).opcode = "read_request"
                /\ FrameOf(bytes).address = address
                /\ LengthField(FrameOf(bytes).payload) = length[2]
           ELSE exit_code = 2

\* Safety: what inspect shows of a vector it accepts is enough to lay the same
\* vector out again, unless its status has no name: nothing of the frame is left
\* out or shown as something else (run_inspect, status_name, hex and codec).
InspectShowsTheVector ==
    Ended("inspect", 3) /\ exit_code = 0 =>
        LET shown == printed[1].content
        IN shown.status # "unknown" =>
             bytes_from_hex(argv[2]) =
                LayOut([version |-> shown.version,
                        opcode |-> Named(OpcodeValue, shown.opcode), flags |-> shown.flags,
                        request_id |-> shown.request_id, address |-> shown.address,
                        status |-> shown.status, code |-> StatusValue[shown.status],
                        payload |-> bytes_from_hex(shown.payload)])

\* Safety: the demo shows what docs/cli.md and docs/fault-catalog.md say of it:
\* a served read, a write refused by the default policy, a read that survives a
\* timeout in two attempts under one ID, a corrupted answer reported as
\* malformed, and a write that is read back once writes are enabled.
DemoShowsEveryScenario ==
    Ended("demo", 2) =>
        LET shown == [i \in DOMAIN Results |-> Results[i].content]
        IN /\ exit_code = 0
           /\ [i \in DOMAIN shown |-> shown[i].error] =
                <<"none", "remote_error", "none", "malformed_response", "none", "none">>
           /\ [i \in DOMAIN shown |-> shown[i].attempts] = <<1, 1, 2, 1, 1, 1>>
           /\ [i \in DOMAIN shown |-> shown[i].request_id] = <<1, 2, 3, 4, 1, 2>>
           /\ shown[1].data = bytes_to_hex(SubSeq(identity, 1, 12))
           /\ shown[2].remote_status = "write_disabled"
           /\ shown[6].data = bytes_to_hex(sample)

\* docs/cli.md: exit code 2 means "Invalid numeric/hex input or missing write
\* opt-in."  A write with its address and its payload, as in the example there,
\* but without the opt-in should therefore leave with 2.
MissingOptInExitsTwo ==
    stage = "exited" /\ Len(argv) >= 3 /\ argv[1] = <<"write">>
        /\ (\A i \in DOMAIN argv : argv[i] # <<"--allow-writes">>)
        => exit_code = 2
=============================================================================
