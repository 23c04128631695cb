------------------------------ MODULE ReportsHost ------------------------------
(***************************************************************************)
(* The agent's service, from two components that share no state: the        *)
(* reports of its attempts (AttemptReports) and its process with its        *)
(* upgrade (AgentHost).  A behaviour is one of a single component, chosen   *)
(* at the start; the other one stays as it began.                           *)
(***************************************************************************)
EXTENDS AttemptReports

CONSTANTS       \* those of AgentHost
    Builds, First, Broken, Dead, MaxBoots, Keep, MaxNames, MaxPins, MaxRestores, MaxFaults

VARIABLES
    part,
    live, aside, staged, failed, marker, loaded, at, tick, want, pending, mine, restoring,
    pin, pins, restores, faults, beaten

Host == INSTANCE AgentHost

hostVars == <<live, aside, staged, failed, marker, loaded, at, tick, want, pending, mine, restoring,
              pin, pins, restores, faults, beaten>>

BothInit == part \in {"reports", "host"} /\ Init /\ Host!Init

BothNext ==
    \/ part = "reports" /\ Next /\ UNCHANGED <<part, hostVars>>
    \/ part = "host" /\ Host!Next /\ UNCHANGED <<part, vars>>

\* The fairness of AttemptReports and of AgentHost, each in its own part.
BothFairness ==
    /\ WF_vars(part = "reports" /\ Flush)
    /\ \A i \in 0..MaxLost : WF_vars(part = "reports" /\ Ingest(i))
    /\ WF_hostVars(part = "host" /\ Host!ScmStart)
    /\ WF_hostVars(part = "host" /\ Host!Guard)
    /\ WF_hostVars(part = "host" /\ Host!Upgrade)
    /\ WF_hostVars(part = "host" /\ Host!TickEnds)
    /\ WF_hostVars(part = "host" /\ Host!PageRestoreEnds)
    /\ WF_hostVars(part = "host" /\ Host!Dies)
    /\ WF_hostVars(part = "host" /\ (Host!Stopped \/ Host!BudgetOver))
    /\ SF_hostVars(part = "host" /\ Host!Heartbeat /\ ~Host!Busy)
    /\ SF_hostVars(part = "host" /\ Host!Fetch)
    /\ SF_hostVars(part = "host" /\ Host!UpgradeExits)

BothSpec == BothInit /\ [][BothNext]_<<part, vars, hostVars>> /\ BothFairness

-----------------------------------------------------------------------------
(* Properties: those of the service's process.                             *)

RollbackKept == Host!RollbackKept
ConfirmedStays == Host!ConfirmedStays
BrokenReplaced == Host!BrokenReplaced
PinReached == Host!PinReached

=============================================================================
