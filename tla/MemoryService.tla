---------------------------- MODULE MemoryService ----------------------------
(***************************************************************************)
(* What the workbench promises the user of a client, without client,       *)
(* transport or server: one memory, one call at a time, every call         *)
(* returns.  The memory changes only by a write the user asked for, at     *)
(* most once for each, inside the permitted locations; perhaps only after  *)
(* the call has returned, but not after a call that reported "not_done".   *)
(* A read that reports "done" returns bytes that stood together in memory  *)
(* during the call (docs/adr/0003-retry-policy.md and the comments of      *)
(* include/imlp/client.hpp).                                               *)
(***************************************************************************)
EXTENDS MemoryMap

VARIABLES
    memory,         \* what the service stores
    permitted,      \* the locations writes may change
    running,        \* is a call running?
    request,        \* the request of the running or last call
    outcome,        \* what the last call reported
    used,           \* the request IDs of all calls
    outstanding,    \* the writes that may still be carried out
    carried_out,    \* the IDs of the writes that were carried out
    seen            \* the memories there were during the running or last call

vars == <<memory, permitted, running, request, outcome, used, outstanding,
          carried_out, seen>>

Init ==
    /\ memory = InitialMemory
    /\ permitted \subseteq Location
    /\ running = FALSE
    /\ used = {} /\ outstanding = {} /\ carried_out = {}
    /\ seen = {memory}

IsWrite == request.opcode = "write_request"

\* The user calls with a request that has an ID of its own.
Ask ==
    /\ ~running
    /\ running' = TRUE
    /\ request'.request_id \notin used
    /\ used' = used \cup {request'.request_id}
    /\ outstanding' = outstanding \cup (IF IsWrite' THEN {request'} ELSE {})
    /\ seen' = {memory}
    /\ UNCHANGED <<memory, permitted, outcome, carried_out>>

\* A write takes effect, as a whole.
CarryOut(write) ==
    /\ write.address .. write.address + Len(write.payload) - 1 \subseteq permitted
    /\ memory' = Written(memory, write.address, write.payload)
    /\ carried_out' = carried_out \cup {write.request_id}
    /\ outstanding' = outstanding \ {write}
    /\ seen' = IF running THEN seen \cup {memory'} ELSE seen
    /\ UNCHANGED <<permitted, running, request, outcome, used>>

\* A write is lost or refused.
Drop(write) ==
    /\ outstanding' = outstanding \ {write}
    /\ UNCHANGED <<memory, permitted, running, request, outcome, used,
                   carried_out, seen>>

\* The call returns.
ReportsDone ==
    /\ IF IsWrite
       THEN /\ request.request_id \in carried_out
            /\ outcome' = [report |-> "done", data |-> <<>>]
       ELSE \E m \in seen :
                outcome' = [report |-> "done",
                            data |-> ReadBytes(m, request.address,
                                               LengthField(request.payload))]
    /\ UNCHANGED outstanding

ReportsNotDone ==
    /\ IsWrite => request.request_id \notin carried_out
    /\ outcome' = [report |-> "not_done", data |-> <<>>]
    /\ outstanding' = outstanding \ {request}

ReportsUnknown ==
    /\ outcome' = [report |-> "unknown", data |-> <<>>]
    /\ UNCHANGED outstanding

Return ==
    /\ running
    /\ running' = FALSE
    /\ ReportsDone \/ ReportsNotDone \/ ReportsUnknown
    /\ UNCHANGED <<memory, permitted, request, used, carried_out, seen>>

Next ==
    \/ Ask
    \/ \E write \in outstanding : CarryOut(write) \/ Drop(write)
    \/ Return

Spec == Init /\ [][Next]_vars /\ WF_vars(Return)
=============================================================================
