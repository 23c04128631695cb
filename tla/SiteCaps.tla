------------------------------- MODULE SiteCaps -------------------------------
(***************************************************************************)
(* The upload cap of a site at the gateway (gw/limiter.py SiteLimiter): the  *)
(* gateway keeps it in memory only, the panel sends it before it commits a  *)
(* change (main.py patch of a site) and the worker sends what it read of    *)
(* every site, at least a minute apart (worker.py push_site_limits).        *)
(***************************************************************************)
EXTENDS Integers

CONSTANTS
    Rates,          \* budgets a measured site may have
    MaxPatches,     \* bound: changes by the operator
    MaxFaults       \* bound: restarts of the gateway, calls and commits that fail

NoRate == 0         \* a site that was not measured, or a cap the gateway has not

VARIABLES
    site,       \* the budget in the table
    patch,      \* the operator's request
    push,       \* the worker's call
    late,       \* calls that were given up and may still be executed
    cap,        \* the limiter's rate
    patches, faults

vars == <<site, patch, push, late, cap, patches, faults>>

Idle == [pc |-> "idle", rate |-> NoRate]

Init ==
    /\ site = NoRate /\ cap = NoRate
    /\ patch = Idle /\ push = Idle
    /\ late = {} /\ patches = 0 /\ faults = 0

Fault == faults < MaxFaults /\ faults' = faults + 1

\* The row is changed in the session; a site that is not measured is not sent.
Patch(rate) ==
    /\ patch.pc = "idle" /\ patches < MaxPatches
    /\ patches' = patches + 1
    /\ patch' = [pc |-> IF rate = NoRate THEN "commit" ELSE "send", rate |-> rate]
    /\ UNCHANGED <<site, push, late, cap, faults>>

PatchSends ==
    /\ patch.pc = "send"
    /\ cap' = patch.rate /\ patch' = [patch EXCEPT !.pc = "commit"]
    /\ UNCHANGED <<site, push, late, patches, faults>>

\* notify_gateway_site_limit: the call fails and the request with it, outside
\* the lab; the gateway may execute it later.
PatchFails ==
    /\ patch.pc = "send" /\ Fault
    /\ late' = late \cup {patch.rate} /\ patch' = Idle
    /\ UNCHANGED <<site, push, cap, patches>>

PatchCommits ==
    /\ patch.pc = "commit"
    /\ \/ site' = patch.rate /\ UNCHANGED faults
       \/ Fault /\ UNCHANGED site
    /\ patch' = Idle
    /\ UNCHANGED <<push, late, cap, patches>>

\* Mutated form of PushDue: a cap is sent when the site is edited, no more.
PushDue_OnEdit == FALSE

PushDue == site # NoRate

\* push_site_limits reads the sites, then calls the gateway for each.
PushReads ==
    /\ push.pc = "idle" /\ PushDue
    /\ push' = [pc |-> "send", rate |-> site]
    /\ UNCHANGED <<site, patch, late, cap, patches, faults>>

\* A call that fails is passed over.
PushSends ==
    /\ push.pc = "send"
    /\ \/ cap' = push.rate /\ UNCHANGED <<late, faults>>
       \/ Fault /\ late' = late \cup {push.rate} /\ UNCHANGED cap
    /\ push' = Idle
    /\ UNCHANGED <<site, patch, patches>>

\* A call that was given up is executed, or was lost.
LateCall ==
    /\ \E r \in late : late' = late \ {r} /\ cap' \in {cap, r}
    /\ UNCHANGED <<site, patch, push, patches, faults>>

\* The gateway starts again, with the caps of its environment: none.
Restart ==
    /\ Fault /\ cap' = NoRate
    /\ UNCHANGED <<site, patch, push, late, patches>>

Worker == PushReads \/ PushSends
Operator == PatchSends \/ PatchFails \/ PatchCommits

Next == (\E r \in Rates \cup {NoRate} : Patch(r)) \/ Operator \/ Worker \/ LateCall \/ Restart

\* The worker loops, handlers end, and a call that was given up is over in
\* the end.
Fairness == WF_vars(Worker) /\ WF_vars(Operator) /\ WF_vars(LateCall)

Spec == Init /\ [][Next]_vars /\ Fairness

-----------------------------------------------------------------------------
TypeOK ==
    /\ {site, cap, patch.rate, push.rate} \subseteq Rates \cup {NoRate}
    /\ patch.pc \in {"idle", "send", "commit"} /\ push.pc \in {"idle", "send"}
    /\ late \subseteq Rates /\ patches \in 0..MaxPatches /\ faults \in 0..MaxFaults

\* worker.py, push_site_limits: after restarts, failed calls, late ones and
\* changes that were sent and then not committed, the gateway has the cap of a
\* measured site again and keeps it.
CapRestored == <>[](site # NoRate => cap = site)

=============================================================================
