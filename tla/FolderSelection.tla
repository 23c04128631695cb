--------------------------- MODULE FolderSelection ---------------------------
(***************************************************************************)
(* Which folders a computer backs up: source_roots of pilot.json, written   *)
(* by the desktop page of each account (localui.go handlePostFolders) and   *)
(* by APPLY_SELECTION of the control plane (apply_selection.go), read by    *)
(* every backup (source_roots.go) and reported to the panel.  A write is    *)
(* one rename, but what it writes was read before.  Folders arrive by name, *)
(* and what is asked about a name is asked before the name is cleaned.      *)
(***************************************************************************)
EXTENDS Integers, FiniteSets

CONSTANTS
    Accounts,       \* Windows accounts
    Owner,          \* names of folders: the account in whose profile each is, by its name
    Clean,          \* what TrimSpace and filepath.Clean make of a name, Blank if nothing
    Sensitive,      \* names isSensitivePath takes for a credential or a key
    PanelSensitive, \* and those the control plane does
    Malformed,      \* names that are relative or have a control byte
    Installed,      \* the folders Setup chose
    Remote,         \* selections the administrator sends: [revision -> folders]
    MaxPosts,       \* bound: changes from the page
    MaxFaults       \* bound: reads that fail, reports lost, restarts

AllFolders == DOMAIN Owner

Blank == ""

\* A backup of no folder is refused, so Setup leaves none without one.  The
\* last element of a sensitive name has no blank or dot to lose: once such a
\* name is written, it is clean.
FolderAssumption ==
    /\ Installed # {} /\ Installed \subseteq AllFolders
    /\ Clean \in [AllFolders -> AllFolders \cup {Blank}]
    /\ \A f \in Installed \cap Sensitive : Clean[f] = f
    /\ \A f \in AllFolders : Clean[f] \in Sensitive => Clean[Clean[f]] = Clean[f]
    /\ Blank \notin Sensitive \cup AllFolders
    /\ Remote \in [DOMAIN Remote -> SUBSET AllFolders]

VARIABLES
    file,       \* pilot.json: source_roots and selection_revision_id
    startup,    \* the list loaded when the service started
    post,       \* the page's request of each account
    cmd,        \* APPLY_SELECTION of each revision
    backed,     \* the folders of the latest backup
    reports,    \* reports of the selection under way
    shown,      \* the panel's latest DeviceSelection
    consent,    \* history: sensitive folders someone agreed to
    unasked,    \* history: those written for a name nobody is asked about
    posts, faults

vars == <<file, startup, post, cmd, backed, reports, shown, consent, unasked, posts, faults>>

Hidden(c, f) == Owner[f] \in Accounts \ {c}

NoPost == [pc |-> "none", want |-> {}, others |-> {}]

Init ==
    /\ file = [roots |-> Installed, rev |-> 0] /\ startup = Installed
    /\ post = [c \in Accounts |-> NoPost] /\ cmd = [r \in DOMAIN Remote |-> "queued"]
    /\ backed = Installed /\ reports = {} /\ consent = Installed \cap Sensitive /\ unasked = {}
    /\ shown = [roots |-> {}, applied |-> TRUE]
    /\ posts = 0 /\ faults = 0

Fault == faults < MaxFaults /\ faults' = faults + 1

-----------------------------------------------------------------------------
(* pilot.json.                                                             *)

\* applySelection: each name is trimmed and cleaned, a blank one is dropped.
Cleaned(roots) == {Clean[f] : f \in roots} \ {Blank}

\* What it refuses whatever the file says.
Refused(roots) == Cleaned(roots) = {} \/ roots \cap Malformed # {}

\* atomicUpdatePilotJSON: the revision is in the same rename as the folders;
\* the page makes a new one each time (0 here), which no command has.  Those in
\* asked were tested by the name they have here.
Replace(roots, rev, asked) ==
    /\ ~Refused(roots) /\ file' = [roots |-> Cleaned(roots), rev |-> rev]
    /\ unasked' = unasked \cup (Cleaned(roots \ asked) \cap Sensitive)

\* A read of the file by the caller fails or gives what is in it.
Read(S, else) == \/ S = file.roots /\ UNCHANGED faults
                 \/ Fault /\ S = else

-----------------------------------------------------------------------------
(* The page.                                                               *)

\* isSensitivePath: each such name has to be confirmed, as it was posted.
Unconfirmed(want, yes) == (want \cap Sensitive) \ yes # {}

\* handlePostFolders: a person's own folders, and the others' as they are.
PostReads(c, want, yes) ==
    /\ post[c].pc = "none" /\ posts < MaxPosts
    /\ ~Unconfirmed(want, yes) /\ \A f \in want : ~Hidden(c, f)
    /\ \E S \in {file.roots, {}} :
          /\ Read(S, {})
          /\ post' = [post EXCEPT ![c] = [pc |-> "write", want |-> want,
                                          others |-> {f \in S : Hidden(c, f)}]]
    /\ consent' = consent \cup Cleaned(yes \cap want)
    /\ posts' = posts + 1
    /\ UNCHANGED <<file, startup, cmd, backed, reports, shown, unasked>>

PostWrites(c) ==
    LET roots == post[c].want \cup post[c].others
    IN  /\ post[c].pc = "write" /\ post' = [post EXCEPT ![c] = NoPost]
        /\ Replace(roots, 0, Sensitive)
        /\ reports' = reports \cup {[source |-> "self_service", roots |-> roots]}
        /\ UNCHANGED <<startup, cmd, backed, shown, consent, posts, faults>>

\* The list is refused, or the file cannot be read or replaced.
PostRefused(c) ==
    /\ post[c].pc = "write"
    /\ \/ Refused(post[c].want \cup post[c].others) /\ UNCHANGED faults
       \/ Fault
    /\ post' = [post EXCEPT ![c] = NoPost]
    /\ UNCHANGED <<file, startup, cmd, backed, reports, shown, consent, unasked, posts>>

-----------------------------------------------------------------------------
(* The control plane.                                                      *)

\* apply_selection of the server asks for the consents before it queues; a
\* Windows path is a single name to it if it runs on another system.
Apply(r) ==
    /\ cmd[r] = "queued" /\ cmd' = [cmd EXCEPT ![r] = "applied"]
    /\ IF file.rev = r THEN file.roots = Cleaned(Remote[r]) /\ UNCHANGED <<file, unasked>>
                      ELSE Replace(Remote[r], r, PanelSensitive)
    /\ consent' = consent \cup Cleaned(Remote[r] \cap PanelSensitive)
    /\ UNCHANGED <<startup, post, backed, reports, shown, posts, faults>>

\* Or the revision is in the file already, with other folders, or the file
\* cannot be read or replaced.
ApplyRefused(r) ==
    /\ cmd[r] = "queued"
    /\ \/ /\ Refused(Remote[r]) \/ (file.rev = r /\ file.roots # Cleaned(Remote[r]))
          /\ UNCHANGED faults
       \/ Fault
    /\ cmd' = [cmd EXCEPT ![r] = "done"]
    /\ UNCHANGED <<file, startup, post, backed, reports, shown, consent, unasked, posts>>

\* FinishCommand reaches the journal.
Finished(r) ==
    /\ cmd[r] = "applied" /\ cmd' = [cmd EXCEPT ![r] = "done"]
    /\ UNCHANGED <<file, startup, post, backed, reports, shown, consent, unasked, posts, faults>>

-----------------------------------------------------------------------------
(* Backups, reports, restarts.                                             *)

\* Mutated form of SourceRoots: a list that cannot be read is empty.
SourceRoots_Read(S) == S

\* currentSourceRoots.
SourceRoots(S) == IF S = {} THEN startup ELSE S

Backup ==
    /\ \E S \in {file.roots, {}} : Read(S, {}) /\ backed' = SourceRoots(S)
    /\ UNCHANGED <<file, startup, post, cmd, reports, shown, consent, unasked, posts>>

\* report_self_service_selection: a sync at the start does not replace a
\* selection of the administrator that was not applied.
Arrives(m) ==
    /\ reports' = reports \ {m}
    /\ shown' = IF m.roots = shown.roots \/ (m.source = "device_sync" /\ ~shown.applied)
                THEN shown ELSE [roots |-> m.roots, applied |-> TRUE]
    /\ UNCHANGED <<file, startup, post, cmd, backed, consent, unasked, posts, faults>>

Lost(m) ==
    /\ Fault /\ reports' = reports \ {m}
    /\ UNCHANGED <<file, startup, post, cmd, backed, shown, consent, unasked, posts>>

\* Setup saves a selection that the computer has yet to apply.
AdminSaves(r) ==
    /\ cmd[r] = "queued" /\ shown' = [roots |-> Remote[r], applied |-> FALSE]
    /\ UNCHANGED <<file, startup, post, cmd, backed, reports, consent, unasked, posts, faults>>

\* A command that was applied and not finished is dispatched again; the
\* folders in force are reported.
Restart ==
    /\ Fault
    /\ startup' = file.roots /\ post' = [c \in Accounts |-> NoPost]
    /\ cmd' = [r \in DOMAIN Remote |-> IF cmd[r] = "applied" THEN "queued" ELSE cmd[r]]
    /\ reports' = {[source |-> "device_sync", roots |-> file.roots]}
    /\ UNCHANGED <<file, backed, shown, consent, unasked, posts>>

-----------------------------------------------------------------------------
Next == \/ \E c \in Accounts : \/ \E want \in SUBSET AllFolders, yes \in SUBSET Sensitive : PostReads(c, want, yes)
                               \/ PostWrites(c) \/ PostRefused(c)
        \/ \E r \in DOMAIN Remote : Apply(r) \/ ApplyRefused(r) \/ Finished(r) \/ AdminSaves(r)
        \/ Backup \/ (\E m \in reports : Arrives(m) \/ Lost(m)) \/ Restart

Spec == Init /\ [][Next]_vars

-----------------------------------------------------------------------------
(* Properties.                                                             *)

\* source_roots.go: "a transient read problem can never turn into a backup
\* of nothing"; and no sensitive folder is in a backup that nobody agreed to,
\* whoever wrote the list and whichever list the backup fell back to.  Excepted
\* is one that got on a list under a name the test of its writer does not take
\* for sensitive: cleaned after it was tested, or a path of another system.
BackupHasRoots == backed # {} /\ backed \cap Sensitive \subseteq consent \cup unasked

=============================================================================
