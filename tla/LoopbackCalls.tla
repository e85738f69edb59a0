---------------------------- MODULE LoopbackCalls ----------------------------
(***************************************************************************)
(* A LoopbackTransport used directly, without the client: connect, close,  *)
(* exchange with any bytes and any deadline, push_fault and clear_trace in *)
(* any order.                                                              *)
(***************************************************************************)
EXTENDS LoopbackTransport

CONSTANTS
    Wires,          \* the byte vectors the caller may hand to exchange()
    Deadlines,      \* the deadlines it may give
    MaxFaults,      \* bound on the length of the fault script
    MaxExchanges    \* bound on the number of exchanges

ASSUME LoopbackCallsConstants ==
    /\ Wires \subseteq Wire
    /\ Deadlines \subseteq Int
    /\ MaxFaults \in Nat /\ MaxExchanges \in Nat

VARIABLES
    last,         \* the last exchange: its request, and the state it met (history)
    exchanges     \* how many exchanges were made while connected (history)

vars == <<connected, reply, faults, trace, next_sequence, policy, memory,
          last, exchanges>>

Init ==
    /\ LoopbackInit
    /\ ServerInit
    /\ last = [request |-> EmptyWire, deadline |-> 0, connected |-> FALSE,
               fault |-> "no_fault", script |-> <<>>, memory |-> memory]
    /\ exchanges = 0

Call(w, deadline) ==
    /\ exchanges < MaxExchanges
    /\ Exchange(w, deadline)
    /\ last' = [request |-> w, deadline |-> deadline, connected |-> connected,
                fault |-> NextFault, script |-> faults, memory |-> memory]
    /\ exchanges' = IF connected THEN exchanges + 1 ELSE exchanges

Adjust ==
    /\ \/ Connect
       \/ Close
       \/ ClearTrace
       \/ /\ Len(faults) < MaxFaults
          /\ \E fault \in TransportFault : PushFault(fault)
    /\ UNCHANGED <<last, exchanges>>

Next ==
    \/ \E w \in Wires, deadline \in Deadlines : Call(w, deadline)
    \/ Adjust

Spec == Init /\ [][Next]_vars

-----------------------------------------------------------------------------
\* Type invariant.
TypeOK ==
    /\ LoopbackTypeOK
    /\ exchanges \in Nat
    /\ last \in [request : Wire, deadline : Int, connected : BOOLEAN,
                 fault : TransportFault \cup {"no_fault"},
                 script : Seq(TransportFault), memory : Memory]

\* Safety: however exchanges that succeed, time out, expire or lose the
\* connection follow each other and whenever clear_trace() is called, the
\* trace is a sequence of pairs, a request and what came back for it, its
\* sequence numbers have no gap, and no number is ever given out twice
\* (record, exchange, clear_trace).
TraceIsPairedAndNumbered ==
    /\ next_sequence = 1 + 2 * exchanges
    /\ Len(trace) % 2 = 0
    /\ \A i \in DOMAIN trace :
          /\ trace[i].sequence = next_sequence - Len(trace) + i - 1
          /\ trace[i].direction = IF i % 2 = 1 THEN "client_to_server"
                                  ELSE "server_to_client"
          /\ i % 2 = 1 => trace[i].outcome = "sent"

\* What the last exchange had to leave of the script it met.
ScriptLeft ==
    IF last.connected /\ last.deadline > 0 /\ last.script # <<>>
    THEN Tail(last.script)
    ELSE last.script

\* Safety: an exchange takes its own fault off the script and no other; one
\* that finds no connection or has no time takes none.  What it leaves stays in
\* place and in order, in front of all that push_fault() adds, whatever is
\* called before the next exchange (exchange, faults_.pop_front, push_fault:
\* "each subsequent exchange consumes at most one queued item").
FaultsAwaitTheirExchange ==
    /\ Len(ScriptLeft) <= Len(faults)
    /\ \A i \in 1 .. Len(ScriptLeft) : faults[i] = ScriptLeft[i]

\* Was the last exchange one that reached the server?
Served == last.connected /\ last.deadline > 0
            /\ last.fault \notin {"timeout", "disconnect"}

\* Safety: an exchange that fails (no connection, no time, a scripted timeout
\* or disconnect) has not touched the memory; one that a response fault spoils
\* has had its full effect on it, as if there had been no fault (exchange: the
\* order of the deadline check, the request faults, handle() and the response
\* faults).
RequestFaultsStrikeBeforeTheServer ==
    /\ reply.error # "none" => memory = last.memory
    /\ Served =>
          memory = IF Applies(last.request)
                   THEN Written(last.memory, last.request.address,
                                last.request.payload)
                   ELSE last.memory

\* Safety: what a response fault makes of an answer can always be told from an
\* honest answer: the decoder refuses a truncated or a corrupted one for just
\* that reason, and a wrong request ID is never the one asked for, not even
\* where the 32-bit ID wraps.  A request that is not answered leaves no bytes
\* for a fault to act on (exchange, pop_back, back() ^= 0x01, ++request_id).
ResponseFaultsAreDetectable ==
    /\ Served /\ ~Decodes(last.request) => reply.bytes = EmptyWire
    /\ Served /\ Decodes(last.request) =>
        CASE last.fault = "truncate_response" ->
                DecodeError(reply.bytes) = "truncated"
          [] last.fault = "corrupt_response" ->
                DecodeError(reply.bytes) = "checksum_mismatch"
          [] last.fault = "wrong_request_id" ->
                /\ Decodes(reply.bytes)
                /\ reply.bytes.request_id # last.request.request_id
          [] OTHER ->
                /\ Decodes(reply.bytes)
                /\ reply.bytes.request_id = last.request.request_id
                /\ reply.bytes.address = last.request.address
=============================================================================
