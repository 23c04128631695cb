-------------------------------- MODULE MCJobs --------------------------------
(***************************************************************************)
(* One TLC run for two instances of AgentJobs: the service loop alone with  *)
(* two attempts per slot, and a slot next to a qualification run and a      *)
(* restore of the page.  A behaviour is one of a single instance, chosen at *)
(* the start; the other one stays as it began.                              *)
(***************************************************************************)
EXTENDS MCAgentJobs

VARIABLES part, mJob, mAtt, mRepo, mOutbox, mActive, mProc, mTodo, mClean, mFaults

Mixed == INSTANCE AgentJobs WITH
    Jobs <- MixedJobs, KindOf <- MixedKind, ProcOf <- MixedProc, MaxAttempts <- 1, MaxFaults <- 1,
    job <- mJob, att <- mAtt, repo <- mRepo, outbox <- mOutbox, active <- mActive, proc <- mProc,
    todo <- mTodo, clean <- mClean, faults <- mFaults

mixedVars == <<mJob, mAtt, mRepo, mOutbox, mActive, mProc, mTodo, mClean, mFaults>>

BothInit == part \in {"loop", "mixed"} /\ Init /\ Mixed!Init

BothNext ==
    \/ part = "loop" /\ Next /\ UNCHANGED <<part, mixedVars>>
    \/ part = "mixed" /\ Mixed!Next /\ UNCHANGED <<part, vars>>

\* The fairness of AgentJobs, for the second instance.
BothSpec ==
    /\ BothInit /\ [][BothNext]_<<part, vars, mixedVars>>
    /\ \A p \in Procs : WF_mixedVars(part = "mixed" /\ Mixed!Operation(p))
    /\ WF_mixedVars(part = "mixed" /\ Mixed!Reconcile)
    /\ WF_mixedVars(part = "mixed" /\ Mixed!Skip)

MixedSettles == Mixed!AttemptsSettle

=============================================================================
