-------------------------- MODULE RemoteRefinement --------------------------
(***************************************************************************)
(* The client over an unreliable network, seen as the memory service: the  *)
(* writes outstanding are the ones unsent or under way, whoever still      *)
(* waits for them.                                                         *)
(***************************************************************************)
EXTENDS RemoteWorkbench

WritesUnderWay ==
    {DecodedFrame(r) : r \in {q \in requests : q.opcode = "write_request"}}

Outstanding == WritesUnderWay \cup (IF WriteUnsent THEN {call.request} ELSE {})

CarriedOut == {id \in RequestId : applications[id] > 0}

Reported ==
    CASE result.error = "none" -> [report |-> "done", data |-> result.data]
      [] result.error \in {"remote_error", "connect_failed"} ->
            [report |-> "not_done", data |-> <<>>]
      [] OTHER -> [report |-> "unknown", data |-> <<>>]

Service == INSTANCE MemoryService WITH
    permitted <- Writable,
    running <- pc # "idle",
    request <- call.request,
    outcome <- Reported,
    used <- 1 .. metrics.operations,
    outstanding <- Outstanding,
    carried_out <- CarriedOut

\* Refinement: through any delay, loss, repetition and damage the client, the
\* network and the server together take only steps of MemoryService: writes
\* take effect at most once and as a whole, never after the user was told that
\* they did not; reads that succeed are fresh (execute_read, execute_write,
\* validate_response, handle).
TakesServiceSteps == Service!Init /\ [][Service!Next]_(Service!vars)

\* Refinement with liveness: and every call returns.
ImplementsService == Service!Spec
=============================================================================
