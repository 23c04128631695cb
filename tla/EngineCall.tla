----------------------------- MODULE EngineCall -----------------------------
(***************************************************************************)
(* What a caller may rely on when it lets the engine back up: the call     *)
(* returns one outcome, and an outcome better than a failure is returned   *)
(* only for a snapshot that is in the repository.  AgentJobs is written    *)
(* against this promise; EngineRun, the supervised process, keeps it.      *)
(***************************************************************************)

VARIABLES
    call,       \* "idle", "running" or "returned"
    written,    \* this call's snapshot is in the repository
    outcome     \* what the call returned, "" before

vars == <<call, written, outcome>>

Init == call = "idle" /\ written = FALSE /\ outcome = ""

Begin == call = "idle" /\ call' = "running" /\ UNCHANGED <<written, outcome>>

Publish ==
    /\ call = "running" /\ ~written
    /\ written' = TRUE
    /\ UNCHANGED <<call, outcome>>

\* The snapshot may be there and the outcome still be a failure.
Return ==
    /\ call = "running" \/ call = "idle"
    /\ call' = "returned"
    /\ outcome' \in {"FAILED", "CANCELLED"} \cup
                    (IF written THEN {"PARTIAL", "SUCCEEDED"} ELSE {})
    /\ UNCHANGED written

Next == Begin \/ Publish \/ Return

Spec == Init /\ [][Next]_vars

=============================================================================
