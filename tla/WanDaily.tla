------------------------------ MODULE WanDaily ------------------------------
(***************************************************************************)
(* Two sides of admission that share no state: the leases (WanAdmission)    *)
(* and the schedule of one agent that asks for them (Schedule, where a      *)
(* lease is granted or not).  A behaviour is one of a single part, chosen   *)
(* at the start; the other one stays as it began.                           *)
(***************************************************************************)
EXTENDS WanAdmission

CONSTANTS       \* those of Schedule
    DayLen, MaxNow, Period, Configs, Default, Delays, Runs, Hash, BootHash, MaxKiBps, Wan, MaxMishaps

VARIABLES
    part,
    now, pol, accepted, job, last, going, next, on, startedAt, mishaps, clear

Daily == INSTANCE Schedule WITH run <- going, up <- on

scheduleVars == <<now, pol, accepted, job, last, going, next, on, startedAt, mishaps, clear>>

\* Sites that are not looked at have one of their settings.
PartsInit ==
    /\ part \in {"leases", "schedule"} /\ Init /\ Daily!Init
    /\ part = "schedule" => site = [s \in Sites |-> CHOOSE c \in SiteConfigs : TRUE]

PartsNext ==
    \/ part = "leases" /\ Next /\ UNCHANGED <<part, scheduleVars>>
    \/ part = "schedule" /\ Daily!Next /\ UNCHANGED <<part, vars>>

PartsSpec == PartsInit /\ [][PartsNext]_<<part, vars, scheduleVars>>

-----------------------------------------------------------------------------
(* Properties, besides those of WanAdmission.                              *)

DayCovered == Daily!DayCovered

=============================================================================
