------------------------------ MODULE AgentJobs ------------------------------
(***************************************************************************)
(* The agent's application service (agent/internal/application/service.go) *)
(* over its durable journal (jobs, attempts and outbox of                  *)
(* agent/internal/adapters/journal/sqlite.go).                             *)
(*                                                                         *)
(* Three goroutines call it: the service loop, which runs a command of the *)
(* control plane and then the scheduler's tick (Reconcile, then today's    *)
(* slot); the qualification runner; and the desktop page's restores.  One  *)
(* flag keeps their operations apart, Reconcile does not take it.  Every   *)
(* journal transaction is a step, so that the others, a cancellation or a  *)
(* stop of the agent may come between two of them.                         *)
(***************************************************************************)
EXTENDS Integers

CONSTANTS
    Jobs,           \* job ids: scheduled slots, clicks, qualification runs, restores
    KindOf,         \* "slot", "click", "qual" or "restore"
    ProcOf,         \* the goroutine that runs a job
    MaxAttempts,    \* attempts a slot may use (policy.MaxAttempts)
    MaxFaults       \* bound: stops of the agent and failed journal or repository calls

Procs == {"main", "qual", "ui"}

ASSUME JobAssumption ==
    /\ MaxAttempts \in Nat \ {0}
    /\ MaxFaults \in Nat
    /\ KindOf \in [Jobs -> {"slot", "click", "qual", "restore"}]
    /\ ProcOf \in [Jobs -> Procs]
    /\ \A j \in Jobs : KindOf[j] \in {"slot", "click"} => ProcOf[j] = "main"

\* <<job, attempt_no>>; one more than the budget, so that a miscount shows.
Attempts == Jobs \X (1..(MaxAttempts + 1))

VARIABLES
    job,        \* jobs.state
    att,        \* attempts.phase
    repo,       \* attempts whose tagged snapshot is in the repository
    outbox,     \* backup.terminal events: <<attempt, outcome>>
    active,     \* Service.active
    proc,       \* the goroutines: [pc, a, res, cut]
    todo,       \* attempts the running Reconcile has still to look at
    clean,      \* history: attempts whose engine run met every condition of success
    faults

vars == <<job, att, repo, outbox, active, proc, todo, clean, faults>>

Terminal == {"SUCCEEDED", "PARTIAL", "FAILED", "CANCELLED"}
Nobody == <<>>
Idle == [pc |-> "idle", a |-> Nobody, res |-> "", cut |-> FALSE]

IsBackupWork(a) == KindOf[a[1]] # "restore"

\* Mutated form of Incomplete: an attempt that Reconcile had in hand is not listed.
Incomplete_NotReconciling == {a \in Attempts : att[a] \in {"PREPARING", "BACKING_UP"}}

\* Mutated form of Incomplete: terminal attempts are listed too.
Incomplete_All == {a \in Attempts : att[a] # "none"}

\* IncompleteAttempts: every attempt whose phase is not a terminal one.
Incomplete == {a \in Attempts : att[a] \notin Terminal \cup {"none"}}

Init ==
    /\ job = [j \in Jobs |-> "none"]
    /\ att = [a \in Attempts |-> "none"]
    /\ repo = {}
    /\ outbox = {}
    /\ active = FALSE
    /\ proc = [p \in Procs |-> Idle]
    /\ todo = {}
    /\ clean = {}
    /\ faults = 0

-----------------------------------------------------------------------------
(* Journal transactions.                                                   *)

\* BeginJob, or BeginAttempt for a slot that is tried again.
Begin(a) ==
    /\ att' = [att EXCEPT ![a] = "PREPARING"]
    /\ job' = [job EXCEPT ![a[1]] = "ACTIVE"]

\* Mutated form of Complete: the job's row is not updated.
Complete_AttemptOnly(a, r) ==
    /\ att' = [att EXCEPT ![a] = r]
    /\ UNCHANGED job

\* CompleteAttempt: the attempt and its job in one transaction, whatever
\* they were before.
Complete(a, r) ==
    /\ att' = [att EXCEPT ![a] = r]
    /\ job' = [job EXCEPT ![a[1]] = r]

-----------------------------------------------------------------------------
(* Backup and Restore.                                                     *)

\* Where a goroutine goes when its operation returns: a command is followed
\* by the tick of the same RunOnce.
After(p, j) ==
    IF p = "main" /\ KindOf[j] # "slot" THEN [Idle EXCEPT !.pc = "tick"] ELSE Idle

Tried(j) == {n \in 1..(MaxAttempts + 1) : att[<<j, n>>] # "none"}

\* Decide, but for the clock (see Scheduler): a slot that succeeded or is
\* active is left alone, one that did not is tried while budget is left.
Decide(j) ==
    \/ job[j] = "none"
    \/ job[j] \in {"FAILED", "CANCELLED", "PARTIAL"} /\ MaxAttempts \notin Tried(j)

\* What Backup and Restore demand of a job: a slot may be tried again, a
\* click, a qualification run or a restore exists once.
Startable(j) == IF KindOf[j] = "slot" THEN job[j] \notin {"SUCCEEDED", "ACTIVE"}
                                      ELSE job[j] = "none"

\* lockOp and the durable intent.
Start(p, j) ==
    LET n == CHOOSE m \in 1..(MaxAttempts + 1) :
                m \notin Tried(j) /\ 1..(m - 1) \subseteq Tried(j)
    IN  /\ ProcOf[j] = p
        /\ IF KindOf[j] = "slot" THEN proc[p].pc = "decide" /\ Decide(j)
                                 ELSE proc[p].pc = "idle"
        /\ ~active
        /\ Startable(j)
        /\ active' = TRUE
        /\ Begin(<<j, n>>)
        /\ proc' = [proc EXCEPT ![p] = [Idle EXCEPT !.pc = "prep", !.a = <<j, n>>]]
        /\ UNCHANGED <<repo, outbox, todo, clean, faults>>

\* A source root is missing, too little space is left, or the staging
\* directory is not what it was.
PrepFails(p) ==
    /\ proc[p].pc = "prep"
    /\ proc' = [proc EXCEPT ![p].pc = "finish", ![p].res = "FAILED"]
    /\ UNCHANGED <<job, att, repo, outbox, active, todo, clean, faults>>

\* UpdateAttempt writes BACKING_UP over whatever the phase is by now; on a
\* cancelled context it fails, and Backup returns without a terminal record.
Prepare(p) ==
    LET a == proc[p].a
    IN  /\ proc[p].pc = "prep"
        /\ IF IsBackupWork(a) /\ proc[p].cut
           THEN /\ proc' = [proc EXCEPT ![p] = After(p, a[1])]
                /\ active' = FALSE
                /\ UNCHANGED att
           ELSE /\ proc' = [proc EXCEPT ![p].pc = "engine"]
                /\ att' = IF IsBackupWork(a) THEN [att EXCEPT ![a] = "BACKING_UP"]
                                             ELSE att
                /\ UNCHANGED active
        /\ UNCHANGED <<job, repo, outbox, todo, clean, faults>>

\* restic writes the snapshot, tagged with the attempt.
Publish(p) ==
    LET a == proc[p].a
    IN  /\ proc[p].pc = "engine"
        /\ IsBackupWork(a) /\ a \notin repo
        /\ repo' = repo \cup {a}
        /\ UNCHANGED <<job, att, outbox, active, proc, todo, clean, faults>>

\* How a run of the engine ends: the process' exit, whether its summary
\* named the snapshot, whether that snapshot could be read back from the
\* expected repository, whether the VSS evidence the policy asks for is
\* there.  A snapshot is named only once it is published.
Ends(a) ==
    {x \in [exit : {"ok", "partial", "fatal", "unknown", "killed", "stalled"},
            seen : BOOLEAN, readback : BOOLEAN, verified : BOOLEAN] :
        /\ x.seen \/ x.exit = "ok" => a \in repo
        /\ x.readback => x.seen}

\* Mutated form of AdapterOutcome: unreadable files do not matter.
AdapterOutcome_PartialGreen(x) ==
    CASE x.exit \in {"killed", "stalled"} ->
            IF x.seen THEN "PARTIAL"
            ELSE IF x.exit = "killed" THEN "CANCELLED" ELSE "FAILED"
      [] x.exit \in {"unknown", "fatal"} -> "FAILED"
      [] OTHER -> IF ~x.readback THEN "FAILED"
                  ELSE IF ~x.verified THEN "PARTIAL" ELSE "SUCCEEDED"

\* Adapter.Backup: a run that was stopped is partial once its snapshot is
\* out; otherwise only exit codes 0 and 3 with a snapshot that was named and
\* read back are more than a failure, and only 0 with VSS evidence is green.
AdapterOutcome(x) ==
    CASE x.exit \in {"killed", "stalled"} ->
            IF x.seen THEN "PARTIAL"
            ELSE IF x.exit = "killed" THEN "CANCELLED" ELSE "FAILED"
      [] x.exit \in {"unknown", "fatal"} -> "FAILED"
      [] OTHER -> IF ~x.readback THEN "FAILED"
                  ELSE IF ~x.verified \/ x.exit = "partial" THEN "PARTIAL"
                  ELSE "SUCCEEDED"

\* evaluateBackup checks a success again.
EvaluateBackup(x, o) ==
    IF o # "CANCELLED" /\ x.exit = "unknown" THEN "FAILED"
    ELSE IF o = "SUCCEEDED" /\ ~x.readback THEN "FAILED"
    ELSE IF o = "SUCCEEDED" /\ ~x.verified THEN "PARTIAL"
    ELSE o

\* Cancellation wins until the terminal commit.
CancelWins(x, o, cut) == IF ~cut THEN o ELSE IF x.seen THEN "PARTIAL" ELSE "CANCELLED"

Result(x, cut) == CancelWins(x, EvaluateBackup(x, AdapterOutcome(x)), cut)

Green(x, cut) == x.exit = "ok" /\ x.readback /\ x.verified /\ ~cut

\* Mutated form of BackupEnds: the report is queued before the journal
\* knows the result.
BackupEnds_ReportFirst(p) ==
    LET a == proc[p].a
    IN  /\ proc[p].pc = "engine"
        /\ IsBackupWork(a)
        /\ \E x \in Ends(a) :
              /\ proc' = [proc EXCEPT ![p].pc = "finish",
                                      ![p].res = Result(x, proc[p].cut)]
              /\ clean' = IF Green(x, proc[p].cut) THEN clean \cup {a} ELSE clean
              /\ outbox' = outbox \cup {<<a, Result(x, proc[p].cut)>>}
        /\ UNCHANGED <<job, att, repo, active, todo, faults>>

BackupEnds(p) ==
    LET a == proc[p].a
    IN  /\ proc[p].pc = "engine"
        /\ IsBackupWork(a)
        /\ \E x \in Ends(a) :
              /\ proc' = [proc EXCEPT ![p].pc = "finish",
                                      ![p].res = Result(x, proc[p].cut)]
              /\ clean' = IF Green(x, proc[p].cut) THEN clean \cup {a} ELSE clean
        /\ UNCHANGED <<job, att, repo, outbox, active, todo, faults>>

\* A restore is ready when the engine verified it and its manifest is
\* written; a cancelled one is cancelled whatever the engine says.
RestoreEnds(p) ==
    /\ proc[p].pc = "engine"
    /\ ~IsBackupWork(proc[p].a)
    /\ \E r \in IF proc[p].cut THEN {"CANCELLED"} ELSE {"SUCCEEDED", "FAILED"} :
          proc' = [proc EXCEPT ![p].pc = "finish", ![p].res = r]
    /\ UNCHANGED <<job, att, repo, outbox, active, todo, clean, faults>>

\* finish and finishRestore: the terminal transaction.
Finish(p) ==
    LET a == proc[p].a
    IN  /\ proc[p].pc = "finish"
        /\ Complete(a, proc[p].res)
        /\ IF IsBackupWork(a)
           THEN proc' = [proc EXCEPT ![p].pc = "report"] /\ UNCHANGED active
           ELSE proc' = [proc EXCEPT ![p] = After(p, a[1])] /\ active' = FALSE
        /\ UNCHANGED <<repo, outbox, todo, clean, faults>>

\* AppendOutbox of the report (the catalog request that follows it is the
\* business of the snapshot catalog), and unlockOp.
Report(p) ==
    LET a == proc[p].a
    IN  /\ proc[p].pc = "report"
        /\ outbox' = outbox \cup {<<a, proc[p].res>>}
        /\ proc' = [proc EXCEPT ![p] = After(p, a[1])]
        /\ active' = FALSE
        /\ UNCHANGED <<job, att, repo, todo, clean, faults>>

\* CancelCurrent, the page's cancel, a stop of the service, or the deadline.
Cancel(p) ==
    /\ proc[p].pc \in {"prep", "engine"}
    /\ ~proc[p].cut
    /\ proc' = [proc EXCEPT ![p].cut = TRUE]
    /\ UNCHANGED <<job, att, repo, outbox, active, todo, clean, faults>>

-----------------------------------------------------------------------------
(* The tick of the service loop: Reconcile, then today's slot.             *)

ReconcileRead ==
    /\ proc["main"].pc \in {"idle", "tick"}
    /\ todo' = Incomplete
    /\ proc' = [proc EXCEPT !["main"] = [Idle EXCEPT !.pc = "rec"]]
    /\ UNCHANGED <<job, att, repo, outbox, active, clean, faults>>

\* An interrupted restore is recorded as failed.
ReconcileRestore(a) ==
    /\ proc["main"].pc = "rec"
    /\ a \in todo /\ ~IsBackupWork(a)
    /\ todo' = todo \ {a}
    /\ Complete(a, "FAILED")
    /\ UNCHANGED <<repo, outbox, active, proc, clean, faults>>

ReconcileMark(a) ==
    /\ proc["main"].pc = "rec"
    /\ a \in todo /\ IsBackupWork(a)
    /\ todo' = todo \ {a}
    /\ att' = [att EXCEPT ![a] = "RECONCILING"]
    /\ proc' = [proc EXCEPT !["main"].pc = "look", !["main"].a = a]
    /\ UNCHANGED <<job, repo, outbox, active, clean, faults>>

\* findTagged: a snapshot of the attempt is useful but not green.
Found(a) == IF a \in repo THEN "PARTIAL" ELSE "FAILED"

ReconcileLook ==
    /\ proc["main"].pc = "look"
    /\ proc' = [proc EXCEPT !["main"].pc = "settle",
                            !["main"].res = Found(proc["main"].a)]
    /\ UNCHANGED <<job, att, repo, outbox, active, todo, clean, faults>>

ReconcileSettle ==
    /\ proc["main"].pc = "settle"
    /\ Complete(proc["main"].a, proc["main"].res)
    /\ proc' = [proc EXCEPT !["main"] = [Idle EXCEPT !.pc = "rec"]]
    /\ UNCHANGED <<repo, outbox, active, todo, clean, faults>>

ReconcileDone ==
    /\ proc["main"].pc = "rec" /\ todo = {}
    /\ proc' = [proc EXCEPT !["main"].pc = "decide"]
    /\ UNCHANGED <<job, att, repo, outbox, active, todo, clean, faults>>

\* Nothing to run now: outside the window, in backoff, no lease, busy.
Skip ==
    /\ proc["main"].pc = "decide"
    /\ proc' = [proc EXCEPT !["main"] = Idle]
    /\ UNCHANGED <<job, att, repo, outbox, active, todo, clean, faults>>

-----------------------------------------------------------------------------
(* Faults: at most MaxFaults of them.                                      *)

\* The agent stops, at any step; Windows ends restic with it.
Crash ==
    /\ faults < MaxFaults
    /\ faults' = faults + 1
    /\ proc' = [p \in Procs |-> Idle]
    /\ active' = FALSE
    /\ todo' = {}
    /\ UNCHANGED <<job, att, repo, outbox, clean>>

\* A journal call of an operation fails: UpdateAttempt or AppendOutbox ends
\* the operation; a success that CompleteAttempt refused is tried again as
\* partial, and that may be refused too.
JournalError(p) ==
    LET a == proc[p].a
    IN  /\ faults < MaxFaults
        /\ proc[p].pc \in {"prep", "finish", "report"}
        /\ faults' = faults + 1
        /\ proc' = [proc EXCEPT ![p] = After(p, a[1])]
        /\ active' = FALSE
        /\ \/ /\ proc[p].pc = "finish" /\ IsBackupWork(a)
              /\ proc[p].res = "SUCCEEDED"
              /\ Complete(a, "PARTIAL")
           \/ UNCHANGED <<job, att>>
        /\ UNCHANGED <<repo, outbox, todo, clean>>

\* The journal or the repository fails Reconcile: the tick ends.
ReconcileError ==
    /\ faults < MaxFaults
    /\ proc["main"].pc \in {"rec", "look", "settle"}
    /\ faults' = faults + 1
    /\ proc' = [proc EXCEPT !["main"] = Idle]
    /\ todo' = {}
    /\ UNCHANGED <<job, att, repo, outbox, active, clean>>

-----------------------------------------------------------------------------
Operation(p) == \/ PrepFails(p) \/ Prepare(p) \/ BackupEnds(p) \/ RestoreEnds(p)
                \/ Finish(p) \/ Report(p)

Reconcile == \/ ReconcileRead \/ ReconcileLook \/ ReconcileSettle \/ ReconcileDone
             \/ \E a \in todo : ReconcileRestore(a) \/ ReconcileMark(a)

Next == \/ \E p \in Procs : Operation(p) \/ Publish(p) \/ Cancel(p) \/ JournalError(p)
        \/ \E p \in Procs, j \in Jobs : Start(p, j)
        \/ Reconcile \/ Skip \/ Crash \/ ReconcileError

Spec == Init /\ [][Next]_vars

\* The service loop ticks every minute and its steps return; every
\* operation ends, by its deadline if not before.
Fairness == /\ \A p \in Procs : WF_vars(Operation(p))
            /\ WF_vars(Reconcile)
            /\ WF_vars(Skip)

FairSpec == Spec /\ Fairness

-----------------------------------------------------------------------------
(* Properties.                                                             *)

Phases == {"none", "PREPARING", "BACKING_UP", "RECONCILING"} \cup Terminal

Steps == {"idle", "tick", "rec", "look", "settle", "decide",
          "prep", "engine", "finish", "report"}

ProcType == [pc : Steps, a : Attempts \cup {Nobody}, res : Terminal \cup {""},
             cut : BOOLEAN]

\* Every variable keeps its type.
TypeOK ==
    /\ job \in [Jobs -> {"none", "ACTIVE"} \cup Terminal]
    /\ att \in [Attempts -> Phases]
    /\ repo \subseteq Attempts
    /\ outbox \subseteq Attempts \X Terminal
    /\ active \in BOOLEAN
    /\ proc \in [Procs -> ProcType]
    /\ todo \subseteq Attempts
    /\ clean \subseteq Attempts
    /\ faults \in 0..MaxFaults

\* A backup job is green only if an attempt of it ran to a clean end: exit 0,
\* snapshot in the repository and read back, consistent, not cancelled.  No
\* crash, cancellation, failed commit or reconciliation makes it green.
GreenIsClean ==
    \A j \in Jobs : KindOf[j] # "restore" /\ job[j] = "SUCCEEDED" =>
        \E n \in Tried(j) : <<j, n>> \in clean \cap repo

\* The job of the service loop mirrors its latest attempt: unfinished
\* exactly while the job is active, and with the same result afterwards.
JobMirrorsAttempt ==
    \A j \in Jobs : ProcOf[j] = "main" /\ job[j] # "none" =>
        \E n \in Tried(j) :
            /\ \A m \in Tried(j) : m <= n
            /\ IF job[j] = "ACTIVE" THEN att[<<j, n>>] \notin Terminal
                                    ELSE job[j] = att[<<j, n>>]

\* Retries of a slot stay within its budget, interrupted attempts included.
RetriesBounded == \A j \in Jobs : \A n \in Tried(j) : n <= MaxAttempts

\* A green slot stays green: nothing runs it again or reconciles it away.
SlotStaysGreen ==
    [][\A j \in Jobs : KindOf[j] = "slot" /\ job[j] = "SUCCEEDED"
                          => job'[j] = "SUCCEEDED"]_vars

\* What the service loop reports is what its journal holds, for good.
ReportsMatchJournal ==
    \A a \in Attempts, r \in Terminal :
        ProcOf[a[1]] = "main" /\ <<a, r>> \in outbox => att[a] = r

\* Parts of the inductive invariant, used by AgentJobsProofs: a goroutine
\* works on attempts of its own that began, and reports a success only of a
\* clean run; Reconcile settles what it found as less than a success,
Working == {"prep", "engine", "finish", "report"}

InHand(p) ==
    LET a == proc[p].a
    IN  /\ proc[p].pc \in Working => a \in Attempts /\ ProcOf[a[1]] = p
        /\ proc[p].pc \in {"look", "settle"} =>
               p = "main" /\ a \in Attempts /\ IsBackupWork(a)
        /\ proc[p].pc \in Working \cup {"look", "settle"} => att[a] # "none"
        /\ proc[p].pc = "settle" => proc[p].res \in {"PARTIAL", "FAILED"}
        /\ proc[p].pc \in {"finish", "report"} =>
               /\ proc[p].res \in Terminal
               /\ IsBackupWork(a) /\ proc[p].res = "SUCCEEDED" => a \in clean \cap repo

Begun == {a \in Attempts : att[a] # "none"}

ProcShape == (\A p \in Procs : InHand(p)) /\ todo \subseteq Begun

\* attempts are numbered from 1 and stay within the budget,
TriedShape ==
    \A j \in Jobs : \E k \in 0..MaxAttempts :
        Tried(j) = 1..k /\ (job[j] = "none" <=> k = 0)

\* and the service loop, alone with its own jobs, leaves only the latest
\* attempt of a job unfinished, which is the one it has in hand.
Own(a) == ProcOf[a[1]] = "main"

OwnPast ==
    \A j \in Jobs : ProcOf[j] = "main" =>
        \A n, m \in Tried(j) : n < m => att[<<j, n>>] \in Terminal

OwnHand ==
    LET a == proc["main"].a
    IN  /\ proc["main"].pc \in {"prep", "engine", "finish"} => att[a] \notin Terminal
        /\ proc["main"].pc \in {"look", "settle"} =>
              a \notin todo /\ (Own(a) => att[a] \notin Terminal)
        /\ proc["main"].pc = "report" => att[a] = proc["main"].res
        /\ proc["main"].pc \notin {"rec", "look", "settle"} => todo = {}
        /\ \A b \in todo : Own(b) => att[b] \notin Terminal

SafeInv == TypeOK /\ ProcShape /\ TriedShape /\ GreenIsClean
OwnTable == OwnPast /\ JobMirrorsAttempt /\ ReportsMatchJournal
JobInv == SafeInv /\ OwnTable /\ OwnHand

\* An attempt that began is settled, whoever stopped it and wherever.
AttemptsSettle == \A a \in Attempts : att[a] # "none" ~> att[a] \in Terminal

\* service.go, Reconcile: "An interrupted restore/check/browse cannot be
\* reconciled from backup snapshot tags": what it records as failed was
\* interrupted, so a restore that somebody runs is not recorded as ended.
ReconcilesInterrupted ==
    \A p \in Procs : proc[p].pc = "engine" => att[proc[p].a] \notin Terminal

=============================================================================
