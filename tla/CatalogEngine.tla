---------------------------- MODULE CatalogEngine ----------------------------
(***************************************************************************)
(* Two users of restic that share no state: the upload of a snapshot's file *)
(* list (SnapshotCatalog) and one run of the engine (EngineRun).  A         *)
(* behaviour is one of a single component, chosen at the start; the other   *)
(* one stays as it began.                                                   *)
(***************************************************************************)
EXTENDS SnapshotCatalog

CONSTANTS       \* those of EngineRun
    Requests, Snapshots, Short, Foreign, Cap, Stall, Deadline, MaxKiBps, Codes, MaxStatus

VARIABLES
    part,
    asked, at, ctx, parent, fired, silent, left, root, helper, code, stage, shadowed, own, pipe,
    text, chunks, cut, repo, printed, verdict

Engine == INSTANCE EngineRun WITH req <- asked, pc <- at

engineVars == <<asked, at, ctx, parent, fired, silent, left, root, helper, code, stage, shadowed, own,
                pipe, text, chunks, cut, repo, printed, verdict>>

BothInit == part \in {"catalog", "engine"} /\ Init /\ Engine!Init

BothNext ==
    \/ part = "catalog" /\ Next /\ UNCHANGED <<part, engineVars>>
    \/ part = "engine" /\ Engine!Next /\ UNCHANGED <<part, vars>>

\* The fairness of SnapshotCatalog and of EngineRun, each in its own part.
BothFairness ==
    /\ WF_vars(part = "catalog" /\ Build)
    /\ \A i \in 0..MaxLost : WF_vars(part = "catalog" /\ Handle(i))
    /\ WF_engineVars(part = "engine" /\ Engine!Runner)
    /\ WF_engineVars(part = "engine" /\ Engine!Judge)
    /\ WF_engineVars(part = "engine" /\ Engine!Tick)
    /\ WF_engineVars(part = "engine" /\ Engine!Expire)
    /\ WF_engineVars(part = "engine" /\ Engine!WatchFires)

BothSpec == BothInit /\ [][BothNext]_<<part, vars, engineVars>> /\ BothFairness

-----------------------------------------------------------------------------
(* Properties: those of the engine, and BuildEnds where a catalog is built. *)

UploadEnds == part = "catalog" => BuildEnds

ResultIsEvidence == Engine!ResultIsEvidence
SummaryNotLost == Engine!SummaryNotLost
RunEnds == Engine!RunEnds
ImplementsCall == Engine!ImplementsCall

=============================================================================
