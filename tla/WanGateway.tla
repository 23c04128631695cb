----------------------------- MODULE WanGateway -----------------------------
(***************************************************************************)
(* Three ways in which an upload is held or kept that share no state: its   *)
(* lease (WanAdmission), the cap of its site at the gateway (SiteCaps) and  *)
(* the objects it makes there (ObjectStore).  A behaviour is one of a       *)
(* single part, chosen at the start; the others stay as they began.         *)
(***************************************************************************)
EXTENDS WanAdmission

CONSTANTS
    Names, Locks, Contents, MaxPosts, MaxStoreFaults,   \* those of ObjectStore
    Rates, MaxPatches, MaxCapFaults                     \* and of SiteCaps

VARIABLES
    part,
    kind, store, post, answered, undone, mishaps,
    budget, patch, push, late, cap, patches, failures

Objects == INSTANCE ObjectStore WITH MaxFaults <- MaxStoreFaults, faults <- mishaps
Caps == INSTANCE SiteCaps WITH MaxFaults <- MaxCapFaults, site <- budget, faults <- failures

objectVars == <<kind, store, post, answered, undone, mishaps>>
capVars == <<budget, patch, push, late, cap, patches, failures>>

\* A store that is not looked at is one kind of store.
PartsInit ==
    /\ part \in {"leases", "caps", "objects"} /\ Init /\ Caps!Init /\ Objects!Init
    /\ part # "objects" => kind = "local"

PartsNext ==
    \/ part = "leases" /\ Next /\ UNCHANGED <<part, capVars, objectVars>>
    \/ part = "caps" /\ Caps!Next /\ UNCHANGED <<part, objectVars, vars>>
    \/ part = "objects" /\ Objects!Next /\ UNCHANGED <<part, capVars, vars>>

\* The fairness of WanAdmission and of SiteCaps, each in its own part.
PartsFairness ==
    /\ WF_vars(part = "leases" /\ Tick)
    /\ WF_vars(part = "leases" /\ ReapRead)
    /\ WF_vars(part = "leases" /\ ReapCommit)
    /\ \A q \in Requests : WF_vars(part = "leases" /\ (Handle(q) \/ LoseRequest(q)))
    /\ \A a \in Attempts : /\ WF_vars(part = "leases" /\ (Renew(a) \/ LoseMessage(a)))
                           /\ WF_vars(part = "leases" /\ (Finish(a) \/ AgentCrash(a)))
    /\ WF_capVars(part = "caps" /\ Caps!Worker)
    /\ WF_capVars(part = "caps" /\ Caps!Operator)
    /\ WF_capVars(part = "caps" /\ Caps!LateCall)

PartsSpec == PartsInit /\ [][PartsNext]_<<part, vars, capVars, objectVars>> /\ PartsFairness

-----------------------------------------------------------------------------
(* Properties, besides those of WanAdmission.                              *)

ObjectsKept == Objects!ObjectsKept
CapRestored == Caps!CapRestored

=============================================================================
