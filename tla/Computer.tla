------------------------------- MODULE Computer -------------------------------
(***************************************************************************)
(* A computer, from three parts that are modelled apart: its installation   *)
(* (Enrollment), the page and its restores (DesktopPage) and the folders of *)
(* the backup (FolderSelection).  A behaviour is one of a single part,      *)
(* chosen at the start; the others stay as they began.                      *)
(***************************************************************************)
EXTENDS Enrollment

CONSTANTS
    Accounts,
    \* those of DesktopPage:
    Profile, ProfilesDir, Public, Paths, Selections, Key, Picks, MaxListed, MaxStarts,
    Folders, MaxCopies, MaxEnds, MaxUnsaved,
    \* those of FolderSelection:
    Owner, Clean, Sensitive, PanelSensitive, Malformed, Installed, Remote, MaxPosts, MaxMisreads

VARIABLES
    part,
    jobs, saved, unsaved, run, cut, timers, sending, told, staging,
    copies, files, made, up, starts, ends, lapsed,
    file, startup, post, cmd, backed, reports, shown, consent, unasked, posts, misreads

Page == INSTANCE DesktopPage WITH MaxFaults <- MaxEnds, faults <- ends
Selected == INSTANCE FolderSelection WITH MaxFaults <- MaxMisreads, faults <- misreads

pageVars == <<jobs, saved, unsaved, run, cut, timers, sending, told, staging,
              copies, files, made, up, starts, ends, lapsed>>
folderVars == <<file, startup, post, cmd, backed, reports, shown, consent, unasked, posts, misreads>>

PartsInit ==
    /\ part \in {"page", "folders", "install"}
    /\ Page!Init /\ Selected!Init /\ Init

PartsNext ==
    \/ part = "page" /\ Page!Next /\ UNCHANGED <<part, folderVars, vars>>
    \/ part = "folders" /\ Selected!Next /\ UNCHANGED <<part, pageVars, vars>>
    \/ part = "install" /\ Next /\ UNCHANGED <<part, pageVars, folderVars>>

PartsSpec == PartsInit /\ [][PartsNext]_<<part, pageVars, folderVars, vars>>

-----------------------------------------------------------------------------
(* Properties: each in the part it is about.                               *)

ShowsOwn == Page!ShowsOwn
OwnFilesOnly == part = "page" => ShowsOwn /\ Page!RestoresOwn
CancelHonoured == part = "page" => Page!CancelHonoured
NothingLost == part = "page" => Page!NothingLost
ReportedOnce == part = "page" => Page!ReportedOnce
CopiesKept == Page!CopiesKept
BackupHasRoots == part = "folders" => Selected!BackupHasRoots

=============================================================================
