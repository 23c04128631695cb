------------------------------ MODULE AgentHost ------------------------------
(***************************************************************************)
(* The agent's service process and its automatic upgrade                   *)
(* (cmd/stowline-agent/main.go "service run", upgrade.go,                   *)
(* windows/service/service_windows.go).  A heartbeat names the pinned       *)
(* build; the tick's goroutine downloads it, swaps it in with two renames,  *)
(* writes a marker and lets the process exit when nothing runs, so that     *)
(* Windows starts the new build.  Every start counts against the marker     *)
(* until a heartbeat removes it; a build that never gets there is replaced  *)
(* by the copy that was moved aside.  The process may end, and the machine  *)
(* may lose power, between any two of these steps.                          *)
(***************************************************************************)
EXTENDS Integers, FiniteSets, FiniteSetsExt

CONSTANTS
    Builds,         \* agent builds
    First,          \* the one that was installed
    Broken,         \* builds that start and never reach a heartbeat
    Dead,           \* builds that cannot even print their version
    MaxBoots,       \* maxUnconfirmedBoots
    Keep,           \* rollback copies that are kept
    MaxNames,       \* bound: names (timestamps) of rollback copies
    MaxPins,        \* bound: times the operator pins another build
    MaxRestores,    \* bound: restores started on the desktop page
    MaxFaults       \* bound: power failures, stops, failed renames, clock changes

None == "none"

HostAssumption ==
    /\ First \in Builds /\ None \notin Builds
    /\ MaxBoots \in Nat /\ Keep \in Nat /\ MaxNames \in Nat /\ MaxPins \in Nat
    /\ MaxRestores \in Nat /\ MaxFaults \in Nat

Torn == [rb |-> 0, boots |-> -1]
NoMarker == [rb |-> 0, boots |-> 0]

VARIABLES
    live,       \* the build at the path Windows starts
    aside,      \* rollback copies, a build for each name in use
    staged,     \* the staging file
    failed,     \* the build that restoreRollback renamed aside last
    marker,     \* stowline-agent.exe.upgrade-pending
    loaded,     \* the build that runs
    at,         \* "down", "guard", "putback", "unmark", "prune", "up" or "stop"
    tick,       \* the tick's goroutine
    want,       \* the pin that the heartbeat in hand named
    pending,    \* upgradeRestartPending
    mine,       \* the name of the copy the swap in hand has moved aside
    restoring,  \* a restore of the desktop page runs
    pin,        \* the build the control plane pins
    pins,       \* times it was changed
    restores,   \* restores started on the page
    faults,
    beaten      \* the installed build has had a heartbeat of its own

disk == <<live, aside, staged, failed, marker>>
process == <<loaded, at, tick, want, pending, mine, restoring>>
outside == <<pin, pins, restores>>
vars == <<disk, process, outside, faults, beaten>>

-----------------------------------------------------------------------------
Names == DOMAIN aside

Without(n) == [m \in Names \ {n} |-> aside[m]]

\* busy: a backup of the tick or a restore of the page is in flight.
Busy == restoring \/ tick = "backup"

Init ==
    /\ live = First /\ aside = [n \in {} |-> First] /\ staged = None
    /\ failed = None /\ marker = NoMarker
    /\ loaded = None /\ want = First /\ at = "down" /\ tick = "idle" /\ pending = FALSE
    /\ mine = 0 /\ restoring = FALSE
    /\ pin = First /\ pins = 0 /\ restores = 0 /\ faults = 0
    /\ beaten = TRUE

-----------------------------------------------------------------------------
(* Starting: the boot guard.                                               *)

\* Windows starts the service with the machine, and again 5 s after every
\* exit that reported no SERVICE_STOPPED.
ScmStart ==
    /\ at = "down" /\ live # None
    /\ loaded' = live
    /\ at' = IF live \in Dead THEN "down" ELSE "guard"
    /\ tick' = "idle" /\ want' = First /\ pending' = FALSE /\ mine' = 0 /\ restoring' = FALSE
    /\ UNCHANGED <<disk, outside, faults, beaten>>

Goto(from, to) ==
    /\ at = from /\ at' = to
    /\ UNCHANGED <<loaded, tick, want, pending, mine, restoring, outside, faults>>

\* No marker, or one that cannot be read, which is removed.
GuardNothing ==
    /\ marker \in {NoMarker, Torn}
    /\ Goto("guard", "prune")
    /\ marker' = NoMarker
    /\ UNCHANGED <<live, aside, staged, failed, beaten>>

TooMany(m) == m.boots + 1 > MaxBoots

GuardCounts ==
    /\ marker \notin {NoMarker, Torn} /\ ~TooMany(marker)
    /\ Goto("guard", "prune")
    /\ marker' = [marker EXCEPT !.boots = @ + 1]
    /\ UNCHANGED <<live, aside, staged, failed, beaten>>

\* restoreRollback: the failed build is renamed aside,
GuardMovesAway ==
    /\ marker \notin {NoMarker, Torn} /\ TooMany(marker)
    /\ Goto("guard", "putback")
    /\ failed' = live /\ live' = None
    /\ UNCHANGED <<aside, staged, marker, beaten>>

\* and its predecessor back; without one the failed build returns and runs.
GuardPutsBack ==
    /\ live = None
    /\ IF marker.rb \in Names
       THEN /\ Goto("putback", "unmark")
            /\ live' = aside[marker.rb] /\ aside' = Without(marker.rb)
            /\ beaten' = TRUE
            /\ UNCHANGED failed
       ELSE /\ Goto("putback", "prune")
            /\ live' = failed /\ failed' = None
            /\ UNCHANGED <<aside, beaten>>
    /\ UNCHANGED <<staged, marker>>

GuardUnmarks ==
    /\ Goto("unmark", "down")
    /\ marker' = NoMarker
    /\ UNCHANGED <<live, aside, staged, failed, beaten>>

Newest(S, k) == {n \in S : Cardinality({m \in S : m > n}) < k}

\* Mutated form of Prune: the marker's copy is not protected.
Prune_Unprotected ==
    /\ Goto("prune", "up")
    /\ aside' = [n \in Newest(Names, Keep) |-> aside[n]]
    /\ staged' = None /\ failed' = None
    /\ UNCHANGED <<live, marker, beaten>>

\* pruneUpgradeLeftovers: the newest copies by name, and the marker's.
Prune ==
    /\ Goto("prune", "up")
    /\ aside' = [n \in Newest(Names, Keep) \cup ({marker.rb} \cap Names) |-> aside[n]]
    /\ staged' = None /\ failed' = None
    /\ UNCHANGED <<live, marker, beaten>>

-----------------------------------------------------------------------------
(* The tick: heartbeat, upgrade, commands and the slot.                    *)

Serving == at \in {"up", "stop"}

TickTo(from, to) ==
    /\ Serving /\ tick = from /\ tick' = to
    /\ UNCHANGED <<loaded, at, restoring, outside>>

Holds == UNCHANGED <<pending, mine, faults>>
Keeps == Holds /\ UNCHANGED want

\* The control plane cannot be reached, or the outbox does not drain.
NoHeartbeat ==
    /\ at = "up" /\ TickTo("idle", "work") /\ Keeps
    /\ UNCHANGED <<disk, beaten>>

\* Where a heartbeat leads: the upgrade is left to a later one while
\* something runs, a restart is due or the pinned build is installed.
AfterBeat == IF Busy \/ pending \/ live \in {None, pin} THEN "work" ELSE "fetch"

\* Mutated form of Heartbeat: nothing is confirmed while something runs.
Heartbeat_IdleOnly ==
    /\ at = "up" /\ loaded \notin Broken /\ TickTo("idle", AfterBeat) /\ Holds
    /\ want' = pin
    /\ marker' = IF Busy \/ pending THEN marker ELSE NoMarker
    /\ beaten' = (beaten \/ loaded = live)
    /\ UNCHANGED <<live, aside, staged, failed>>

\* OnAgentPin: a heartbeat confirms whatever is installed.
Heartbeat ==
    /\ at = "up" /\ loaded \notin Broken /\ TickTo("idle", AfterBeat) /\ Holds
    /\ want' = pin
    /\ marker' = NoMarker
    /\ beaten' = (beaten \/ loaded = live)
    /\ UNCHANGED <<live, aside, staged, failed>>

\* Mutated form of Verified: the hash is enough.
Verified_HashOnly(b) == TRUE

\* The staged build has the pinned hash and printed its version.
Verified(b) == b \notin Dead

Fetch ==
    /\ TickTo("fetch", "aside") /\ Keeps
    /\ want = pin /\ Verified(want)
    /\ staged' = want
    /\ UNCHANGED <<live, aside, failed, marker, beaten>>

\* No download, another hash, no space, or a build that does not run.
FetchFails ==
    /\ TickTo("fetch", "work") /\ Keeps
    /\ staged' = None
    /\ UNCHANGED <<live, aside, failed, marker, beaten>>

Fault == faults < MaxFaults /\ faults' = faults + 1

Latest == Max(Names \cup {0})

\* The copy is named after the time, which may have been set back.
MoveAside ==
    /\ TickTo("aside", "install")
    /\ \E n \in (1..Latest + 1) \ Names :
          /\ n <= MaxNames
          /\ IF n = Latest + 1 THEN UNCHANGED faults ELSE Fault
          /\ aside' = [m \in Names \cup {n} |-> IF m = n THEN live ELSE aside[m]]
          /\ mine' = n
    /\ live' = None
    /\ UNCHANGED <<staged, failed, marker, want, pending, beaten>>

Install ==
    /\ TickTo("install", "mark") /\ Keeps
    /\ live' = staged /\ staged' = None
    /\ beaten' = FALSE
    /\ UNCHANGED <<aside, failed, marker>>

\* The second rename fails, and the first one is undone.
InstallFails ==
    /\ TickTo("install", "work") /\ Fault
    /\ live' = aside[mine] /\ aside' = Without(mine)
    /\ UNCHANGED <<staged, failed, marker, want, pending, mine, beaten>>

\* The goroutine that ends the process looks at once, and then every 10 s.
AfterMark == IF Busy THEN "work" ELSE "exit"

\* Mutated form of Mark: the marker counts the swap as a boot too many.
Mark_Expired ==
    /\ TickTo("mark", AfterMark)
    /\ marker' = [rb |-> mine, boots |-> MaxBoots]
    /\ pending' = TRUE
    /\ UNCHANGED <<live, aside, staged, failed, want, mine, faults, beaten>>

Mark ==
    /\ TickTo("mark", AfterMark)
    /\ marker' = [rb |-> mine, boots |-> 0]
    /\ pending' = TRUE
    /\ UNCHANGED <<live, aside, staged, failed, want, mine, faults, beaten>>

\* Without a marker the swap is undone.
MarkFails ==
    /\ TickTo("mark", "work") /\ Fault
    /\ failed' = live /\ live' = aside[mine] /\ aside' = Without(mine)
    /\ beaten' = TRUE
    /\ UNCHANGED <<staged, marker, want, pending, mine>>

\* The rest of the tick: commands that are not counted, then perhaps a
\* backup, which is.
BackupStarts == at = "up" /\ TickTo("work", "backup") /\ Keeps /\ UNCHANGED <<disk, beaten>>
TickEnds ==
    /\ \E from \in {"work", "backup"} : TickTo(from, "idle")
    /\ Keeps /\ UNCHANGED <<disk, beaten>>

Restoring(now) ==
    /\ restoring = ~now /\ restoring' = now
    /\ UNCHANGED <<disk, loaded, at, tick, want, pending, mine, pin, pins, faults, beaten>>

PageRestoreStarts ==
    /\ at = "up" /\ restores < MaxRestores /\ restores' = restores + 1
    /\ Restoring(TRUE)

PageRestoreEnds == Serving /\ Restoring(FALSE) /\ UNCHANGED restores

-----------------------------------------------------------------------------
(* Ends of the process.                                                    *)

Down ==
    /\ at' = "down" /\ tick' = "idle" /\ restoring' = FALSE
    /\ UNCHANGED <<loaded, want, pending, mine, outside>>

\* The goroutine of the upgrade ends the process once nothing is in flight.
UpgradeExits ==
    /\ Serving /\ pending /\ (Busy => tick = "exit")
    /\ Down
    /\ UNCHANGED <<disk, faults, beaten>>

\* A broken build ends some time after the guard.
Dies ==
    /\ at = "up" /\ loaded \in Broken
    /\ Down
    /\ UNCHANGED <<disk, faults, beaten>>

\* Execute: a stop cancels what runs and waits for the goroutines, but not
\* longer than ShutdownBudget.
StopRequested ==
    /\ at = "up" /\ Fault
    /\ at' = "stop"
    /\ UNCHANGED <<disk, loaded, tick, want, pending, mine, restoring, outside, beaten>>

Stopped ==
    /\ at = "stop" /\ tick = "idle"
    /\ Down
    /\ UNCHANGED <<disk, faults, beaten>>

BudgetOver ==
    /\ at = "stop" /\ tick # "idle"
    /\ Down
    /\ UNCHANGED <<disk, faults, beaten>>

\* Power fails; a marker that is being written may be left incomplete.
PowerFails ==
    /\ at # "down" /\ Fault
    /\ Down
    /\ \/ UNCHANGED marker
       \/ /\ \/ at = "guard" /\ marker \notin {NoMarker, Torn} /\ ~TooMany(marker)
             \/ Serving /\ tick = "mark"
          /\ marker' = Torn
    /\ UNCHANGED <<live, aside, staged, failed, beaten>>

SetPin(b) ==
    /\ pins < MaxPins /\ b # pin
    /\ pin' = b /\ pins' = pins + 1
    /\ UNCHANGED <<disk, process, restores, faults, beaten>>

-----------------------------------------------------------------------------
Guard == \/ GuardNothing \/ GuardCounts \/ GuardMovesAway \/ GuardPutsBack
         \/ GuardUnmarks \/ Prune

Upgrade == FetchFails \/ MoveAside \/ Install \/ Mark

Next == \/ ScmStart \/ Guard
        \/ NoHeartbeat \/ Heartbeat \/ Fetch \/ Upgrade \/ InstallFails \/ MarkFails
        \/ BackupStarts \/ TickEnds
        \/ PageRestoreStarts \/ PageRestoreEnds
        \/ UpgradeExits \/ Dies \/ StopRequested \/ Stopped \/ BudgetOver \/ PowerFails
        \/ \E b \in Builds : SetPin(b)

Spec == Init /\ [][Next]_vars

\* The process goes on, its work has deadlines and Windows starts it again.
\* The control plane is reached again and again while nothing runs, so is its
\* download, and the upgrade's goroutine, which polls, finds nothing running.
Fairness ==
    /\ WF_vars(ScmStart) /\ WF_vars(Guard) /\ WF_vars(Upgrade) /\ WF_vars(TickEnds)
    /\ WF_vars(PageRestoreEnds) /\ WF_vars(Dies) /\ WF_vars(Stopped \/ BudgetOver)
    /\ SF_vars(Heartbeat /\ ~Busy) /\ SF_vars(Fetch) /\ SF_vars(UpgradeExits)

FairSpec == Spec /\ Fairness

-----------------------------------------------------------------------------
(* Properties.                                                             *)

Healthy == Builds \ (Broken \cup Dead)
Guarded == marker \notin {NoMarker, Torn}

TypeOK ==
    /\ {live, staged, failed, loaded, want} \subseteq Builds \cup {None} /\ pin \in Builds
    /\ Names \subseteq 1..MaxNames /\ \A n \in Names : aside[n] \in Builds
    /\ marker.rb \in 0..MaxNames /\ marker.boots \in -1..MaxBoots
    /\ at \in {"down", "guard", "putback", "unmark", "prune", "up", "stop"}
    /\ tick \in {"idle", "fetch", "aside", "install", "mark", "exit", "work", "backup"}
    /\ mine \in 0..MaxNames /\ faults \in 0..MaxFaults /\ pins \in 0..MaxPins
    /\ restores \in 0..MaxRestores

\* upgrade.go, pruneUpgradeLeftovers and stageVerifiedUpgrade: while an
\* installed build is unproven, the copy its marker names is there, whatever
\* was pruned, whichever way the clock was set and wherever power failed.
RollbackKept == Guarded /\ ~beaten => marker.rb \in Names

\* confirmUpgradeHealthy: a build that reached a heartbeat is not replaced
\* by its predecessor, also if the heartbeat came while something ran.
ConfirmedStays == [][at = "putback" /\ at' = "unmark" => ~beaten]_vars

\* guardUnconfirmedUpgrade: a broken build that was started under its marker
\* is replaced, unless a power failure left the marker incomplete.
BrokenReplaced ==
    \A b \in Broken \cup Dead :
        (loaded = b /\ live = b /\ Guarded) ~> (live # b \/ marker = Torn)

\* runAgentUpgrade: a build that works and stays pinned gets to run, unless
\* an unguarded broken one is in its way or no program is left at the path.
Stuck == at = "down" /\ (live = None \/ (live \in Broken \cup Dead /\ ~Guarded))
PinReached ==
    \A b \in Healthy : (pins = MaxPins /\ pin = b) ~> (loaded = b /\ at = "up") \/ Stuck

\* upgrade.go: a freshly installed binary may start maxUnconfirmedBoots times
\* "without ever reaching a successful heartbeat before it is presumed broken
\* and the previous binary is put back": it never runs without its marker.
RunsGuarded == at = "up" /\ loaded = live /\ ~beaten => Guarded

=============================================================================
