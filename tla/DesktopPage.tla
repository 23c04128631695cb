----------------------------- MODULE DesktopPage -----------------------------
(***************************************************************************)
(* Self-service restores: the agent's page on the loopback address          *)
(* (cmd/stowline-agent/localrestore.go, localui.go, localcaller.go), the    *)
(* restore it starts (main.go restoreWithAdmission) and the program the     *)
(* person opens, which copies what was restored into a folder of their own  *)
(* (cmd/stowline-backups, desktop/deliver.go).  The list of restores is     *)
(* saved after every change, and nobody looks whether it was; the process   *)
(* may end between removing a staging folder and saving.  Copies run        *)
(* outside the agent and may overlap.                                       *)
(***************************************************************************)
EXTENDS Integers, FiniteSets, Sequences, SequencesExt, FiniteSetsExt

CONSTANTS
    Accounts,       \* Windows accounts of the computer
    Profile,        \* profile folder of each account
    ProfilesDir,    \* the folder profiles live in
    Public,         \* the folder in it that everyone shares
    Paths,          \* paths in a snapshot
    Selections,     \* what a request may select
    Key,            \* snapshotPathKey of each: the path that is checked
    Picks,          \* the paths restic restores for it
    MaxListed,      \* maxRestoreJobs
    MaxStarts,      \* bound: restores started
    Folders,        \* names of delivery folders in one minute
    MaxCopies,      \* bound: copies the desktop program starts
    MaxFaults,      \* bound: ends of the agent's process
    MaxUnsaved      \* bound: saves of the list that fail

Roots == {ProfilesDir} \cup {Profile[a] : a \in Accounts}
Keys == {Key[s] : s \in Selections}
Names == UNION {{p[k] : k \in DOMAIN p} : p \in Paths \cup Keys \cup Roots \cup {Public}}

\* Paths are sequences of names; a profile is not the root of a volume's paths.
PageAssumption ==
    /\ MaxStarts \in Nat /\ MaxListed \in Nat /\ MaxCopies \in Nat
    /\ MaxFaults \in Nat /\ MaxUnsaved \in Nat
    /\ Picks \in [Selections -> SUBSET Paths]
    /\ Paths \cup Keys \cup Roots \cup {Public} \subseteq Seq(Names)
    /\ <<>> \notin Roots

Ids == 1..MaxStarts
Nowhere == 0        \* no delivery folder
Staged == -1        \* the staging folder, as the place a report names

VARIABLES
    jobs,       \* restoreJobs.jobs, by id; a larger id is more recent
    saved,      \* local-restores.json
    unsaved,    \* saves that failed
    run,        \* the goroutine of a restore
    cut,        \* restores whose context was cancelled
    timers,     \* restores whose delayed report is due
    sending,    \* reports handed to a goroutine: <<id, place>>
    told,       \* reports that were sent
    staging,    \* staging folders: "none", "partial" or "full"
    copies,     \* copies by the desktop program
    files,      \* the person's folders: <<folder, name>> -> [of, whole]
    made,       \* delivery folders that exist
    up,         \* the agent runs
    starts, faults,
    lapsed      \* history: restores reported, and the process ended without their mark in the file

life == <<up, starts, faults, lapsed>>
agent == <<jobs, saved, unsaved, run, cut, timers, sending>>
person == <<copies, files, made>>
vars == <<agent, told, staging, person, life>>

-----------------------------------------------------------------------------
(* Whose files a path belongs to.                                          *)

Within(p, root) == root # <<>> /\ IsPrefix(root, p)

OtherProfiles(c) == {Profile[a] : a \in Accounts} \ {Profile[c]}

\* A folder below ProfilesDir is somebody's, also when the account is gone.
Hidden(c, p) ==
    /\ ~Within(p, Profile[c])
    /\ \/ \E o \in OtherProfiles(c) : Within(p, o)
       \/ Within(p, ProfilesDir) /\ p # ProfilesDir /\ ~Within(p, Public)

\* Mutated form of MayRestore: what lies below the path is not looked at.
MayRestore_Shallow(c, s) == Key[s] # <<>> /\ ~Hidden(c, Key[s])

\* The key of the selection is checked, not what the selection picks.
MayRestore(c, s) ==
    /\ Key[s] # <<>> /\ ~Hidden(c, Key[s])
    /\ ~Within(ProfilesDir, Key[s])
    /\ \A o \in OtherProfiles(c) : ~Within(o, Key[s])

\* What browsing and searching a snapshot show to an account.
Visible(c) == {p \in Paths : ~Hidden(c, p)}

-----------------------------------------------------------------------------
Newest(S, k) == {n \in S : Cardinality({m \in S : m > n}) < k}

Keep(S) == [i \in S |-> jobs[i]]

Init ==
    /\ jobs = [i \in {} |-> 0] /\ saved = jobs
    /\ run = [i \in Ids |-> "none"] /\ cut = {} /\ timers = {} /\ sending = {}
    /\ told = {} /\ staging = [i \in Ids |-> "none"]
    /\ copies = {} /\ files = [f \in {} |-> 0] /\ made = {}
    /\ up = TRUE /\ starts = 0 /\ faults = 0 /\ unsaved = 0 /\ lapsed = {}

Listed == DOMAIN jobs

\* saveLocked: the list is written to a temporary file and renamed; what fails
\* of it is not noticed.
Save == \/ saved' = jobs' /\ UNCHANGED unsaved
        \/ unsaved < MaxUnsaved /\ unsaved' = unsaved + 1 /\ saved' = saved

Set(i, r) == jobs' = [jobs EXCEPT ![i] = r]

\* handleRestore and StartAs: one restore at a time, the oldest leave the list.
StartAs(c, s) ==
    LET i == starts + 1
    IN  /\ up /\ starts < MaxStarts /\ MayRestore(c, s)
        /\ \A j \in Listed : jobs[j].state # "running"
        /\ starts' = i
        /\ jobs' = [j \in Newest(Listed \cup {i}, MaxListed) |->
                      IF j = i THEN [state |-> "running", owner |-> c, sel |-> s,
                                     dir |-> FALSE, to |-> Nowhere, reported |-> FALSE]
                               ELSE jobs[j]]
        /\ Save
        /\ run' = [run EXCEPT ![i] = "admit"]
        /\ UNCHANGED <<cut, timers, sending, told, staging, person, up, faults, lapsed>>

RunTo(i, from, to) ==
    /\ up /\ run[i] = from /\ run' = [run EXCEPT ![i] = to]
    /\ UNCHANGED <<jobs, saved, unsaved, cut, timers, sending, told, person, life>>

\* restoreWithAdmission: no lease, no control plane or another operation runs.
NotAdmitted(i) == RunTo(i, "admit", "failed") /\ UNCHANGED staging

Prepared(i) ==
    /\ RunTo(i, "admit", "restore")
    /\ staging' = [staging EXCEPT ![i] = "partial"]

\* The engine fails, is cancelled or passes its deadline: what it wrote stays
\* and the caller is not told where.
RestoreFails(i) == RunTo(i, "restore", "failed") /\ UNCHANGED staging

Restored(i) ==
    /\ i \notin cut
    /\ RunTo(i, "restore", "made")
    /\ staging' = [staging EXCEPT ![i] = "full"]

Granted(i) ==
    /\ \E to \in {"granted", "ungranted"} : RunTo(i, "made", to)
    /\ UNCHANGED staging

Removed(i) == [staging EXCEPT ![i] = "none"]

\* Mutated form of Outcome: a restore that came to its end is done.
Outcome_ErrorFirst(i) == IF run[i] = "granted" THEN "done"
                         ELSE IF i \in cut THEN "cancelled" ELSE "failed"

\* A cancellation counts, even if the restore came to its end.
Outcome(i) == IF i \in cut THEN "cancelled"
              ELSE IF run[i] = "granted" THEN "done" ELSE "failed"

\* The end of run: the staging folder is removed only if Run named it.
Settle(i) ==
    /\ up /\ run[i] \in {"failed", "granted", "ungranted"}
    /\ run' = [run EXCEPT ![i] = "none"]
    /\ Set(i, [jobs[i] EXCEPT !.state = Outcome(i), !.dir = (Outcome(i) = "done")])
    /\ Save
    /\ staging' = IF Outcome(i) # "done" /\ run[i] # "failed" THEN Removed(i) ELSE staging
    /\ timers' = IF Outcome(i) = "done" THEN timers \cup {i} ELSE timers
    /\ UNCHANGED <<cut, sending, told, person, life>>

\* Cancel finds a running restore whose goroutine has not settled it.
Cancel(i) ==
    /\ up /\ i \in Listed /\ jobs[i].state = "running" /\ run[i] # "none"
    /\ cut' = cut \cup {i}
    /\ UNCHANGED <<jobs, saved, unsaved, run, timers, sending, told, staging, person, life>>

-----------------------------------------------------------------------------
(* The report to the administrator.                                        *)

\* Mutated form of ReportOnce: the mark is set by the goroutine that sends.
ReportOnce_Unmarked(i, place) ==
    IF i \in Listed /\ ~jobs[i].reported
    THEN /\ sending' = sending \cup {<<i, place>>}
         /\ UNCHANGED <<jobs, saved, unsaved>>
    ELSE UNCHANGED <<jobs, saved, unsaved, sending>>

\* reportOnce: marked, and saved if that works, before it is sent.
ReportOnce(i, place) ==
    IF i \in Listed /\ ~jobs[i].reported
    THEN /\ Set(i, [jobs[i] EXCEPT !.reported = TRUE])
         /\ Save
         /\ sending' = sending \cup {<<i, place>>}
    ELSE UNCHANGED <<jobs, saved, unsaved, sending>>

\* ReportDelay is over; the place is read now.
Timer(i) ==
    /\ up /\ i \in timers /\ timers' = timers \ {i}
    /\ ReportOnce(i, IF i \in Listed /\ jobs[i].dir THEN Staged ELSE Nowhere)
    /\ UNCHANGED <<run, cut, told, staging, person, life>>

\* The report arrives, or it is given up.
Send(r) ==
    /\ up /\ sending' = sending \ {r}
    /\ told' \in {told, told \cup {r}}
    /\ UNCHANGED <<jobs, saved, unsaved, run, cut, timers, staging, person, life>>

-----------------------------------------------------------------------------
(* Delivery by the desktop program.                                        *)

World == <<agent, told, staging, life>>

\* The job is read again from the agent: it is done and its folder is there.
DeliverStart(i) ==
    /\ up /\ i \in Listed /\ jobs[i].state = "done" /\ jobs[i].dir
    /\ Cardinality(copies) < MaxCopies
    /\ copies' = copies \cup {[n |-> Cardinality(copies) + 1, of |-> i, pc |-> "look",
                               folder |-> Nowhere, name |-> 0]}
    /\ UNCHANGED <<World, files, made>>

Becomes(c, d) == copies' = (copies \ {c}) \cup {d}
Fails(c) == Becomes(c, [c EXCEPT !.pc = "failed"]) /\ UNCHANGED <<World, files, made>>

\* Deliver: the restored item is missing.
Missing(c) == c.pc = "look" /\ staging[c.of] # "full" /\ Fails(c)

\* uniquePath: the first folder name that does not exist; another copy may
\* come to the same one.
PickFolder(c) ==
    /\ c.pc = "look" /\ staging[c.of] = "full" /\ Folders \ made # {}
    /\ Becomes(c, [c EXCEPT !.pc = "make", !.folder = Min(Folders \ made)])
    /\ UNCHANGED <<World, files, made>>

\* MkdirAll does not mind a folder that exists; the item's name is one that
\* is free in it.
MakeFolder(c) ==
    /\ c.pc = "make"
    /\ made' = made \cup {c.folder}
    /\ Becomes(c, [c EXCEPT !.pc = "create",
                            !.name = Min({k \in 1..MaxCopies : <<c.folder, k>> \notin DOMAIN files})])
    /\ UNCHANGED <<World, files>>

Written(c, whole) == [t \in DOMAIN files \cup {<<c.folder, c.name>>} |->
                        IF t = <<c.folder, c.name>> THEN [of |-> c.of, whole |-> whole] ELSE files[t]]

Taken(c) == <<c.folder, c.name>> \in DOMAIN files

\* Mutated form of Create: a file of that name is truncated.
Create_Truncate(c) ==
    /\ c.pc = "create"
    /\ Becomes(c, [c EXCEPT !.pc = "copy"]) /\ files' = Written(c, FALSE)
    /\ UNCHANGED <<World, made>>

\* copyFile: O_EXCL.
Create(c) ==
    /\ c.pc = "create" /\ ~Taken(c)
    /\ Becomes(c, [c EXCEPT !.pc = "copy"]) /\ files' = Written(c, FALSE)
    /\ UNCHANGED <<World, made>>

Occupied(c) == c.pc = "create" /\ Taken(c) /\ Fails(c)

Copied(c) ==
    /\ c.pc = "copy" /\ staging[c.of] = "full"
    /\ Becomes(c, [c EXCEPT !.pc = "copied"]) /\ files' = Written(c, TRUE)
    /\ UNCHANGED <<World, made>>

CopyFails(c) == c.pc = "copy" /\ Fails(c)

\* Mutated form of Reportable: the page does not look at the error.
Reportable_Any(c) == c.pc \in {"copied", "failed"} /\ c.folder # Nowhere

\* deliver() of the page: a copy that failed is not reported.
Reportable(c) == c.pc = "copied"

\* handleDeliveredRestore: the staging folder goes, then the list is saved.
Delivered(c) ==
    LET i == c.of
    IN  /\ up /\ Reportable(c) /\ i \in Listed /\ jobs[i].state = "done"
        /\ Becomes(c, [c EXCEPT !.pc = "posted"])
        /\ Set(i, [jobs[i] EXCEPT !.to = c.folder, !.dir = FALSE])
        /\ Save
        /\ staging' = IF jobs[i].dir THEN Removed(i) ELSE staging
        /\ UNCHANGED <<run, cut, timers, sending, told, files, made, life>>

\* The same request goes on to report.
DeliveredReports(c) ==
    /\ up /\ c.pc = "posted"
    /\ Becomes(c, [c EXCEPT !.pc = "over"])
    /\ ReportOnce(c.of, c.folder)
    /\ UNCHANGED <<run, cut, timers, told, staging, files, made, life>>

-----------------------------------------------------------------------------
(* The agent's process ends and starts again.                              *)

Reports(S, i) == {r \in S : r[1] = i}

Posted(c) == IF c.pc = "posted" THEN [c EXCEPT !.pc = "over"] ELSE c

Stop ==
    /\ up /\ faults < MaxFaults
    /\ up' = FALSE /\ faults' = faults + 1
    /\ run' = [i \in Ids |-> "none"] /\ cut' = {} /\ timers' = {} /\ sending' = {}
    /\ lapsed' = lapsed \cup {i \in DOMAIN saved : ~saved[i].reported /\ Reports(told, i) # {}}
    /\ UNCHANGED <<jobs, saved, unsaved, told, files, made, starts>>

Ends == Stop /\ copies' = {Posted(c) : c \in copies} /\ UNCHANGED staging

\* The process ends after Delivered removed the folder and before it saved.
EndsDelivering(c) ==
    /\ Reportable(c) /\ c.of \in Listed /\ jobs[c.of].dir
    /\ Stop
    /\ staging' = Removed(c.of)
    /\ Becomes(c, [c EXCEPT !.pc = "over"])

\* load: a restore that was running was cut off.
Starts ==
    /\ ~up /\ up' = TRUE
    /\ jobs' = [i \in DOMAIN saved |-> IF saved[i].state = "running"
                                       THEN [saved[i] EXCEPT !.state = "failed"] ELSE saved[i]]
    /\ UNCHANGED <<saved, unsaved, run, cut, timers, sending, told, staging, person, starts, faults, lapsed>>

-----------------------------------------------------------------------------
Restore(i) == \/ NotAdmitted(i) \/ Prepared(i) \/ RestoreFails(i) \/ Restored(i)
              \/ Granted(i) \/ Settle(i)

Copy(c) == \/ Missing(c) \/ PickFolder(c) \/ MakeFolder(c) \/ Create(c) \/ Occupied(c)
           \/ Copied(c) \/ CopyFails(c)

Next == \/ \E a \in Accounts, s \in Selections : StartAs(a, s)
        \/ \E i \in Ids : Restore(i) \/ Cancel(i) \/ Timer(i) \/ DeliverStart(i)
        \/ \E r \in sending : Send(r)
        \/ \E c \in copies : Copy(c) \/ Delivered(c) \/ DeliveredReports(c) \/ EndsDelivering(c)
        \/ Ends \/ Starts

Spec == Init /\ [][Next]_vars

-----------------------------------------------------------------------------
(* Properties.                                                             *)

TypeOK ==
    /\ Listed \subseteq Ids /\ DOMAIN saved \subseteq Ids
    /\ \A i \in Listed : /\ jobs[i].state \in {"running", "done", "failed", "cancelled"}
                         /\ jobs[i].to \in Folders \cup {Nowhere}
    /\ staging \in [Ids -> {"none", "partial", "full"}]
    /\ cut \subseteq Ids /\ timers \subseteq Ids /\ up \in BOOLEAN

\* The files of others: in another's profile, or below the profiles folder
\* and neither the account's own nor public.
Foreign(c, p) ==
    /\ ~IsPrefix(Profile[c], p)
    /\ \/ \E a \in Accounts \ {c} : IsPrefix(Profile[a], p)
       \/ IsStrictPrefix(ProfilesDir, p) /\ ~IsPrefix(Public, p)

ShowsOwn == \A c \in Accounts, p \in Paths : p \in Visible(c) => ~Foreign(c, p)

\* A selection that takes what is at or below the path it names: a path as the
\* page lists it, and nothing in it that restic reads as a pattern.
Literal(s) == \A p \in Picks[s] : IsPrefix(Key[s], p)

RestoresOwn ==
    \A i \in Listed : Literal(jobs[i].sel) =>
        \A p \in Picks[jobs[i].sel] : ~Foreign(jobs[i].owner, p)

\* localcaller.go: an account is shown, and restores, no file of another:
\* neither a path in someone's profile nor a folder that has one below it.
\* Excepted is a restore by a selection that is not literal: the key is checked
\* and the selection as it was sent goes to restic, which takes it as a pattern.
OwnFilesOnly == ShowsOwn /\ RestoresOwn

\* localrestore.go, Cancel: a cancellation that was accepted is kept, also if
\* the restore came to its end at the same time.
CancelHonoured == \A i \in cut \cap Listed : jobs[i].state \in {"running", "cancelled"}

HasCopy(i) == \E t \in DOMAIN files : files[t] = [of |-> i, whole |-> TRUE]

\* localrestore.go, Delivered: the files of a restore that shows as done are
\* in its staging folder or, all of them, in a folder of the person.
NothingLost ==
    \A i \in Listed : jobs[i].state = "done" => staging[i] = "full" \/ HasCopy(i)

\* deliver.go: "Never overwrites": a whole copy stays as it is, also when two
\* deliveries of one minute come to the same folder.
CopiesKept ==
    [][\A t \in DOMAIN files : files[t].whole => t \in DOMAIN files' /\ files'[t] = files[t]]_vars

\* localrestore.go, reportOnce: a restore is reported at most once, whether
\* the timer, a delivery, another delivery or a restart comes first.  Excepted
\* is one that was reported when the process ended, and the save of its mark
\* and every later one had failed.
ReportedOnce == \A i \in Ids \ lapsed : Cardinality(Reports(told \cup sending, i)) <= 1

\* TestCancellingARestoreStopsItAndRemovesItsStaging, and the page, which
\* says "Yarım kalan dosyalar silindi": nothing is left of a cancelled restore.
CancelledLeavesNothing ==
    \A i \in Listed : jobs[i].state = "cancelled" => staging[i] = "none"

=============================================================================
