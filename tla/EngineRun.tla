------------------------------ MODULE EngineRun ------------------------------
(***************************************************************************)
(* One run of the backup engine: the restic adapter                        *)
(* (agent/internal/adapters/restic) over the process runner                *)
(* (agent/internal/adapters/process).  restic and its rclone helper are    *)
(* external: they print, publish, hang and exit as they like.  The runner  *)
(* reads their pipes into a bounded buffer, a watchdog looks at the        *)
(* progress numbers, the caller may cancel, a deadline may pass; what is   *)
(* left is judged from the exit code and the captured text.                *)
(***************************************************************************)
EXTENDS Integers, Sequences, FiniteSets

CONSTANTS
    Requests,       \* what a caller may ask for
    Snapshots,      \* full snapshot ids
    Short,          \* the eight characters the text printer shows
    Foreign,        \* snapshots that are in the repository beforehand
    Cap,            \* chunks the capture buffer holds (maxCapture)
    Stall,          \* ticks without progress before the watchdog fires
    Deadline,       \* ticks a run may take
    MaxKiBps,       \* MaxResticKiBps
    Codes,          \* exit codes restic may end with, documented or not
    MaxStatus       \* bound: status lines of a run

None == "none"

Ops == {"backup", "restore", "query", "check"}

Backends == {"LOCAL", "PILOT_RCLONE_LOCAL", "PILOT_RCLONE_DRIVE", "REST_GATEWAY", "S3"}

Locations == {"path", "rclone", "https", "lab http", "http", "userinfo"}

\* A repository holds finitely many snapshots; an id is told from its absence.
EngineAssumption ==
    /\ Codes \subseteq Int /\ {0, 1} \subseteq Codes
    /\ Cap \in Nat /\ Stall \in Nat /\ Deadline \in Nat /\ MaxStatus \in Nat
    /\ Requests \subseteq [op : Ops, vss : BOOLEAN, vols : SUBSET STRING,
                            backend : Backends, location : Locations,
                            broken : SUBSET STRING, kibps : Int, bound : BOOLEAN,
                            flaw : STRING]
    /\ Foreign \subseteq Snapshots /\ IsFiniteSet(Foreign)
    /\ None \notin Snapshots
    /\ Short \in [Snapshots -> STRING]
    /\ \A s \in Snapshots : Short[s] # None

VARIABLES
    req,        \* the request
    pc,         \* where the caller's goroutine is
    ctx,        \* the run's context: "live", "cancelled" or "expired"
    parent,     \* the caller's own context
    fired,      \* the watchdog fired
    silent,     \* ticks since the progress numbers last moved
    left,       \* ticks until the deadline
    root,       \* restic: "none", "alive" or "dead"
    helper,     \* a descendant is alive and holds the pipes
    code,       \* exit code of restic
    stage,      \* how far restic is: "vss", "upload", "published" or "named"
    shadowed,   \* volumes restic really took a VSS snapshot of
    own,        \* the snapshot this run published
    pipe,       \* chunks written and not read yet
    text,       \* lines in the capture buffer
    chunks,     \* chunks in it
    cut,        \* the buffer overflowed (StdoutTruncated)
    repo,       \* snapshots in the repository
    printed,    \* status lines printed
    verdict     \* what Backup or Restore returned

call == <<req, pc, ctx, parent, fired, verdict>>
clock == <<silent, left>>
engine == <<root, helper, code, stage, shadowed, own, repo, printed>>
capture == <<pipe, text, chunks, cut>>
vars == <<call, clock, engine, capture>>

-----------------------------------------------------------------------------
(* The request and its argument vector.                                    *)

\* The backends that leave the office uplink.
Wan(r) == r.backend \in {"REST_GATEWAY", "PILOT_RCLONE_DRIVE", "S3"}

\* They need a rate between 1 and the maximum, where 0 is not unlimited; the
\* others may leave it out.
RateOK(r) == IF Wan(r) THEN r.kibps \in 1..MaxKiBps ELSE r.kibps \in 0..MaxKiBps

ByRclone(r) == r.backend \in {"PILOT_RCLONE_LOCAL", "PILOT_RCLONE_DRIVE"}

\* What the descriptor, a backup and a restore ask for is checked first.
DescriptorOK(r) == r.location # "userinfo" /\ r.flaw \notin {"capability", "tls"}
BackupOK(r) == r.flaw \notin {"no root", "flag as root", "vss mode", "slot of another class"}
RestoreOK(r) == r.flaw \notin {"short id", "flag as selection", "no destination"}
WellFormed(r) == /\ DescriptorOK(r)
                 /\ r.op = "backup" => BackupOK(r)
                 /\ r.op = "restore" => RestoreOK(r)

\* Connector.Bind: each backend has its form of location; S3 and B2 have none.
Bindable(r) ==
    \/ r.backend = "LOCAL" /\ r.location = "path"
    \/ ByRclone(r) /\ r.location = "rclone" /\ r.flaw # "rclone pin"
    \/ r.backend = "REST_GATEWAY" /\ r.location \in {"https", "lab http"}

\* bind opens the password and the credentials of this backend, no others.
Credentials(r) ==
    {"repository"} \cup (IF r.backend = "REST_GATEWAY" THEN {"rest"} ELSE {})
                   \cup (IF ByRclone(r) THEN {"rclone"} ELSE {})

\* backupExtras and restoreExtras; the other commands have no extras to check.
BackupExtras(r) == RateOK(r) /\ r.flaw # "line break"
RestoreExtras(r) == RateOK(r) /\ r.flaw # "line break"
ExtrasOK(r) == /\ r.op = "backup" => BackupExtras(r)
               /\ r.op = "restore" => RestoreExtras(r)

\* buildArgs lets only the commands and options of a fixed list through.
ArgumentFlaws == {"command", "password flag", "address with user"}
OptionFlaws == {"option", "rclone program"}
VectorOK(r) == r.flaw \notin ArgumentFlaws \cup OptionFlaws

\* RestrictedEnv: the child's environment is an allowlist.
EnvironmentOK(r) == r.flaw \notin {"variable", "path element"}

\* The runner starts no shell, passes no secret on a command line and checks
\* the digest of restic and of rclone.
SpecFlaws == {"interpreter", "secret in argument"}
PinFlaws == {"relative path", "digest"}
LaunchOK(r) == r.flaw \notin SpecFlaws \cup PinFlaws

\* --json silences the VSS messages, so a backup that needs them runs without.
Json(r) == r.op # "backup" \/ ~r.vss

\* What is wrong with the request is CONFIG; what buildArgs, the environment
\* and the runner refuse comes later and is INTERNAL.
RefusedAs(r) ==
    IF ~(WellFormed(r) /\ Bindable(r) /\ Credentials(r) \cap r.broken = {} /\ ExtrasOK(r))
    THEN "CONFIG"
    ELSE IF VectorOK(r) /\ EnvironmentOK(r) /\ LaunchOK(r) THEN "" ELSE "INTERNAL"

NoRequest == [op |-> "", vss |-> FALSE, vols |-> {}, backend |-> "", location |-> "",
              broken |-> {}, kibps |-> 0, bound |-> FALSE, flaw |-> ""]

Returned(o, c, s, p) == [outcome |-> o, class |-> c, snap |-> s, notGreen |-> p]
NoVerdict == Returned("", "", None, FALSE)
Fails(c) == Returned("FAILED", c, None, FALSE)

Init ==
    /\ req = NoRequest /\ pc = "idle" /\ ctx = "live" /\ parent = "live"
    /\ fired = FALSE /\ verdict = NoVerdict
    /\ silent = 0 /\ left = Deadline
    /\ root = "none" /\ helper = FALSE /\ code = 0 /\ stage = "vss"
    /\ shadowed = {} /\ own = None /\ repo = Foreign /\ printed = 0
    /\ pipe = <<>> /\ text = {} /\ chunks = 0 /\ cut = FALSE

Refuse(r) ==
    /\ pc = "idle" /\ RefusedAs(r) # ""
    /\ req' = r /\ pc' = "done"
    /\ verdict' = Fails(RefusedAs(r))
    /\ UNCHANGED <<ctx, parent, fired, clock, engine, capture>>

\* A pipe, the job object or the process cannot be had; what was made so far
\* is given back.
LaunchFails(r) ==
    /\ pc = "idle" /\ RefusedAs(r) = ""
    /\ req' = r /\ pc' = "done"
    /\ verdict' = Fails("INTERNAL")
    /\ UNCHANGED <<ctx, parent, fired, clock, engine, capture>>

\* The child is created suspended, put in a job object and resumed; the
\* watchdog starts with it.
Start(r) ==
    /\ pc = "idle" /\ RefusedAs(r) = "" /\ parent = "live"
    /\ req' = r /\ pc' = "run"
    /\ root' = "alive" /\ helper' = ByRclone(r)
    /\ UNCHANGED <<ctx, parent, fired, verdict, clock, code, stage, shadowed,
                   own, repo, printed, capture>>

-----------------------------------------------------------------------------
(* restic and its helper (external).                                       *)

Running == pc \in {"run", "grace"} /\ root = "alive"

Write(lines) == pipe' = Append(pipe, lines)

\* A volume gets its shadow copy or is read live; the text printer says so.
Shadow ==
    /\ Running /\ stage = "vss" /\ req.op = "backup"
    /\ \E ok \in IF req.vss THEN SUBSET req.vols ELSE {{}}, denied \in {FALSE, req.vss} :
          /\ shadowed' = ok
          /\ IF Json(req) THEN UNCHANGED pipe
             ELSE Write({<<"shadowed", v>> : v \in ok}
                        \cup {<<"live", v>> : v \in req.vols \ ok}
                        \cup IF denied THEN {<<"denied", None>>} ELSE {})
    /\ stage' = "upload"
    /\ UNCHANGED <<call, clock, root, helper, code, own, repo, printed,
                   text, chunks, cut>>

\* A status line; on a dead connection its numbers do not move.
Status ==
    /\ Running /\ (stage = "upload" \/ req.op # "backup")
    /\ printed < MaxStatus
    /\ printed' = printed + 1
    /\ \E moved \in BOOLEAN : Write({<<"status", IF moved THEN "moved" ELSE "same">>})
    /\ UNCHANGED <<call, clock, root, helper, code, stage, shadowed, own, repo,
                   text, chunks, cut>>

Publish ==
    /\ Running /\ stage = "upload"
    /\ \E s \in Snapshots \ repo : own' = s /\ repo' = repo \cup {s}
    /\ stage' = "published"
    /\ UNCHANGED <<call, clock, root, helper, code, shadowed, printed, capture>>

\* The summary: the full id in JSON, the short one in text.
Name ==
    /\ Running /\ stage = "published"
    /\ Write({<<"saved", IF Json(req) THEN own ELSE Short[own]>>})
    /\ stage' = "named"
    /\ UNCHANGED <<call, clock, root, helper, code, shadowed, own, repo, printed,
                   text, chunks, cut>>

Exit ==
    /\ Running
    /\ \E c \in Codes : code' = c
    /\ root' = "dead"
    /\ UNCHANGED <<call, clock, helper, stage, shadowed, own, repo, printed, capture>>

HelperExits ==
    /\ helper /\ root # "none"
    /\ helper' = FALSE
    /\ UNCHANGED <<call, clock, root, code, stage, shadowed, own, repo, printed, capture>>

-----------------------------------------------------------------------------
(* The runner and the watchdog.                                            *)

Attended == pc \in {"run", "grace", "drain"}

\* Feed: the parser notes activity when a number changed.
Moved(lines) == <<"status", "moved">> \in lines

\* limitedBuffer: what does not fit any more is dropped and remembered.
Captured(lines) ==
    IF chunks < Cap
    THEN text' = text \cup lines /\ chunks' = chunks + 1 /\ UNCHANGED cut
    ELSE cut' = TRUE /\ UNCHANGED <<text, chunks>>

\* drainHandle: one chunk from the pipe into the buffer and to the parser.
Drain ==
    /\ Attended /\ pipe # <<>>
    /\ pipe' = Tail(pipe)
    /\ Captured(Head(pipe))
    /\ silent' = IF Moved(Head(pipe)) THEN 0 ELSE silent
    /\ UNCHANGED <<call, left, engine>>

Tick ==
    /\ Attended
    /\ silent' = IF silent <= Stall THEN silent + 1 ELSE silent
    /\ left' = IF left > 0 THEN left - 1 ELSE 0
    /\ clock' # clock
    /\ UNCHANGED <<call, engine, capture>>

End(how) == ctx' = IF ctx = "live" THEN how ELSE ctx

\* watchStall, for backups only: it may notice until stopWatch is called,
\* also while the child is being stopped for another reason.
WatchFires ==
    /\ Attended /\ req.op = "backup"
    /\ silent > Stall /\ ~fired
    /\ fired' = TRUE
    /\ End("cancelled")
    /\ UNCHANGED <<req, pc, parent, verdict, clock, engine, capture>>

Expire ==
    /\ Attended /\ left = 0 /\ ctx = "live"
    /\ End("expired")
    /\ UNCHANGED <<req, pc, parent, fired, verdict, clock, engine, capture>>

\* A stop of the service, a cancel command or the page's cancel.
Stop ==
    /\ pc \notin {"idle", "done"} /\ parent = "live"
    /\ parent' = "cancelled"
    /\ IF Attended THEN End("cancelled") ELSE UNCHANGED ctx
    /\ UNCHANGED <<req, pc, fired, verdict, clock, engine, capture>>

Goto(from, to) ==
    /\ pc = from /\ pc' = to
    /\ UNCHANGED <<req, ctx, parent, fired, verdict, clock, capture>>

\* The select of runWindows: the child's exit or the context's end.
SeeExit == root = "dead" /\ Goto("run", "close") /\ UNCHANGED engine
SeeCancel == ctx # "live" /\ Goto("run", "grace") /\ UNCHANGED engine
LeavesInTime == root = "dead" /\ Goto("grace", "close") /\ UNCHANGED engine

\* The grace period is over: TerminateJobObject.
Terminate ==
    /\ pc = "grace" /\ root = "alive"
    /\ root' = "dead" /\ helper' = FALSE /\ code' = 1
    /\ UNCHANGED <<call, clock, stage, shadowed, own, repo, printed, capture>>

\* Mutated form of CloseJob: the pipes are waited for with the job still open.
CloseJob_WaitFirst == Goto("close", "drain") /\ UNCHANGED engine

\* Closing the job's only handle kills what is left in it, so that the
\* pipes reach their end.
CloseJob ==
    /\ Goto("close", "drain")
    /\ helper' = FALSE
    /\ UNCHANGED <<root, code, stage, shadowed, own, repo, printed>>

\* Mutated form of Collect: what is still in the pipes is not waited for.
Collect_Early == ~helper /\ Goto("drain", "judge") /\ UNCHANGED engine

\* wg.Wait: both pipes at their end.  A context that ended meanwhile counts
\* as a cancellation even of a child that was through.
Collect == pipe = <<>> /\ ~helper /\ Goto("drain", "judge") /\ UNCHANGED engine

-----------------------------------------------------------------------------
(* The judgement.                                                          *)

Return(v) ==
    /\ verdict' = v /\ pc' = "done"
    /\ UNCHANGED <<req, ctx, parent, fired, clock, engine, capture>>

\* parseBackupSummary: the id that was printed and captured.
Named == {l[2] : l \in {m \in text : m[1] = "saved"}}
Saved == IF Named = {} THEN None ELSE CHOOSE s \in Named : TRUE

\* parseSnapshots: the listing of a readback names the whole repository.
Listing == repo

\* matchSnapshot: the listed snapshots with that id or prefix; ReadSnapshot
\* takes it only if there is one.
Matches(id) == {s \in Listing : id \in {s, Short[s]}}
ReadSnapshot(id) == IF Cardinality(Matches(id)) = 1 THEN Matches(id) ELSE {}

\* Mutated form of VSSVerified: a volume that was read live does not matter.
VSSVerified_AnySuccess == \E v \in req.vols : <<"shadowed", v>> \in text

\* parseVSSEvidence: every volume was shadowed, none was read live, restic
\* was not denied, and nothing of its output is missing.
VSSVerified ==
    /\ \A v \in req.vols : <<"shadowed", v>> \in text /\ <<"live", v>> \notin text
    /\ <<"denied", None>> \notin text
    /\ ~cut

\* classifyExit: the exit codes documented for restic 0.19.1.
Known == code \in {0, 1, 2, 3, 10, 11, 12, 130}

FatalClass ==
    IF <<"denied", None>> \in text /\ Known THEN "VSS"
    ELSE CASE code = 1 -> "INTERNAL" [] code = 2 -> "ENGINE_CRASH"
           [] code = 10 -> "CONFIG" [] code = 11 -> "REPOSITORY_LOCKED"
           [] code = 12 -> "AUTH" [] code = 130 -> "CANCELLED" [] OTHER -> "INTERNAL"

Interrupted == ctx # "live"

\* A run that made no progress and named no snapshot is a network failure,
\* so that the next attempt starts afresh.
JudgeStalled ==
    /\ pc = "judge" /\ req.op = "backup"
    /\ fired /\ ctx = "cancelled" /\ Saved = None
    /\ Return(Fails("NETWORK"))

\* Mutated form of JudgeCancelled: what was uploaded counts as a part.
JudgeCancelled_Partial ==
    /\ pc = "judge" /\ req.op = "backup" /\ Interrupted /\ Saved = None
    /\ Return(Returned("PARTIAL", "CANCELLED", None, TRUE))

JudgeCancelled ==
    /\ pc = "judge" /\ req.op = "backup" /\ Interrupted /\ Saved = None
    /\ ~(fired /\ ctx = "cancelled")
    /\ Return(Returned("CANCELLED", "CANCELLED", None, FALSE))

\* The snapshot of an interrupted run is looked up on a context of its own.
JudgeInterrupted ==
    /\ pc = "judge" /\ req.op = "backup" /\ Interrupted /\ Saved # None
    /\ \E found \in {Saved} \cup ReadSnapshot(Saved) :
          Return(Returned("PARTIAL", "CANCELLED", found, TRUE))

\* Exit codes other than 0 and 3 fail, whatever was printed.
JudgeFatal ==
    /\ pc = "judge" /\ req.op = "backup" /\ ~Interrupted
    /\ code \notin {0, 3}
    /\ Return(Returned("FAILED", FatalClass, Saved, Known /\ Saved # None))

JudgeNameless ==
    /\ pc = "judge" /\ req.op = "backup" /\ ~Interrupted
    /\ code \in {0, 3} /\ Saved = None
    /\ Return(Fails("INTEGRITY"))

JudgeExit ==
    /\ req.op = "backup" /\ ~Interrupted /\ code \in {0, 3} /\ Saved # None
    /\ Goto("judge", "readback") /\ UNCHANGED engine

\* Clean evidence decides between green and partial.
Verdict(s) ==
    IF req.vss /\ ~VSSVerified
    THEN Returned("PARTIAL", "CONSISTENCY_NOT_MET", s, TRUE)
    ELSE IF code = 3 THEN Returned("PARTIAL", "SOURCE_UNREADABLE", s, TRUE)
    ELSE Returned("SUCCEEDED", "", s, FALSE)

\* ReadSnapshot: the listing may fail, and fails once the caller is gone.
ReadbackFails ==
    /\ pc = "readback"
    /\ Return(Returned("FAILED", "INTEGRITY", Saved, TRUE))

Readback ==
    /\ pc = "readback" /\ parent = "live"
    /\ ~req.bound
    /\ \E s \in ReadSnapshot(Saved) : Return(Verdict(s))

\* CatConfig: the id of the repository, when the descriptor binds one.
ReadbackBound ==
    /\ pc = "readback" /\ parent = "live"
    /\ req.bound
    /\ \E s \in ReadSnapshot(Saved) :
          Return(Verdict(s)) \/ Return(Returned("FAILED", "INTEGRITY", s, FALSE))

\* Restore: a caller that is gone cancels it whatever restic did.
JudgeRestore ==
    /\ pc = "judge" /\ req.op = "restore"
    /\ Return(IF Interrupted \/ parent = "cancelled"
              THEN Returned("CANCELLED", "CANCELLED", None, FALSE)
              ELSE IF code = 0 THEN Returned("VERIFYING", "", None, FALSE)
              ELSE Fails(IF code = 3 THEN "SOURCE_UNREADABLE" ELSE FatalClass))

\* Version, Init, CatConfig, Snapshots and the listings ask for exit code 0;
\* Check also for a run that was not stopped and whose output is whole.
CheckOK == ~Interrupted /\ parent = "live" /\ ~cut

JudgeQuery ==
    /\ pc = "judge" /\ req.op \in {"query", "check"}
    /\ Return(IF code = 0 /\ (req.op = "check" => CheckOK)
              THEN Returned("OK", "", None, FALSE) ELSE Fails(""))

-----------------------------------------------------------------------------
Engine == Shadow \/ Status \/ Publish \/ Name \/ Exit \/ HelperExits
Runner == Drain \/ SeeExit \/ SeeCancel \/ LeavesInTime \/ Terminate \/ CloseJob \/ Collect
Judge == \/ JudgeStalled \/ JudgeCancelled \/ JudgeInterrupted \/ JudgeFatal
         \/ JudgeNameless \/ JudgeExit \/ ReadbackFails \/ Readback \/ ReadbackBound
         \/ JudgeRestore \/ JudgeQuery

Next == \/ \E r \in Requests : Refuse(r) \/ LaunchFails(r) \/ Start(r)
        \/ Engine \/ Runner \/ Judge
        \/ Tick \/ WatchFires \/ Expire \/ Stop

Spec == Init /\ [][Next]_vars

\* The runner's goroutines, the clock and the watchdog go on; nothing is
\* asked of restic, of its helper or of the caller.
FairSpec == Spec /\ WF_vars(Runner) /\ WF_vars(Judge) /\ WF_vars(Tick)
                 /\ WF_vars(Expire) /\ WF_vars(WatchFires)

-----------------------------------------------------------------------------
(* Properties.                                                             *)

\* The variables hold what the code can put there.
TypeOK ==
    /\ req \in Requests \cup {NoRequest}
    /\ pc \in {"idle", "run", "grace", "close", "drain", "judge", "readback", "done"}
    /\ ctx \in {"live", "cancelled", "expired"} /\ parent \in {"live", "cancelled"}
    /\ fired \in BOOLEAN /\ silent \in 0..(Stall + 1) /\ left \in 0..Deadline
    /\ root \in {"none", "alive", "dead"} /\ helper \in BOOLEAN
    /\ code \in Codes /\ stage \in {"vss", "upload", "published", "named"}
    /\ repo \subseteq Snapshots /\ own \in repo \cup {None}
    /\ chunks \in 0..Cap /\ cut \in BOOLEAN /\ printed \in 0..MaxStatus

\* Adapter.Backup and matchSnapshot: what is returned rests on evidence.  A
\* result names no snapshot of another run, even one with the same short id;
\* it is green only if restic exited with 0, was not stopped, published the
\* snapshot and took a shadow copy of every volume the policy asks for.
ResultIsEvidence ==
    /\ verdict.snap # None => own # None /\ verdict.snap \in {own, Short[own]}
    /\ verdict.outcome = "SUCCEEDED" =>
          /\ code = 0 /\ ctx = "live"
          /\ verdict.snap = own /\ own \in repo
          /\ req.vss => req.vols \subseteq shadowed

\* runWindows and Backup: a summary that restic printed is in the result,
\* whoever ended the run and however late, unless the buffer was full.
SummaryNotLost ==
    pc = "done" /\ stage = "named" /\ ~cut => verdict.snap # None

\* runWindows: whatever restic and its helper do (hang, ignore Ctrl-Break,
\* leave the helper holding the pipes), the call returns.
RunEnds == pc = "run" ~> pc = "done"

\* EngineRun keeps the promise that AgentJobs relies on.
Backing == req.op = "backup"
Abstract == INSTANCE EngineCall WITH
    call <- IF ~Backing \/ pc = "idle" THEN "idle"
            ELSE IF pc = "done" THEN "returned" ELSE "running",
    written <- own # None,
    outcome <- IF Backing THEN verdict.outcome ELSE ""

\* Adapter.Backup returns once, and nothing better than a failure for a
\* snapshot that was never published.
ImplementsCall == Abstract!Spec

=============================================================================
