---------------------------- MODULE MCCatalogEngine ----------------------------
(***************************************************************************)
(* CatalogEngine for TLC, with what callers ask of the engine.              *)
(***************************************************************************)
EXTENDS CatalogEngine

NewRequest(op, backend, location, kibps, flaw) ==
    [op |-> op, vss |-> op = "backup" /\ backend # "LOCAL", vols |-> {"C"},
     backend |-> backend, location |-> location, broken |-> {}, kibps |-> kibps,
     bound |-> FALSE, flaw |-> flaw]

LocalBackup == NewRequest("backup", "LOCAL", "path", 0, "none")
DriveBackup == NewRequest("backup", "PILOT_RCLONE_DRIVE", "rclone", 1, "none")
DriveRestore == NewRequest("restore", "PILOT_RCLONE_DRIVE", "rclone", 2, "none")
GatewayQuery == NewRequest("query", "REST_GATEWAY", "https", 0, "none")

\* A scheduled backup of two volumes, a qualification run on a local
\* repository, a restore, a listing and a check.
Wanted ==
    {[DriveBackup EXCEPT !.vols = {"C", "D"}], [LocalBackup EXCEPT !.bound = TRUE],
     DriveRestore, GatewayQuery, NewRequest("check", "LOCAL", "path", 0, "none")}

\* Requests that are refused: rates beyond the limits, backends and locations
\* that do not go together, credentials that cannot be opened, and flaws.
Flaws == {"no root", "flag as root", "vss mode", "slot of another class", "rclone pin",
          "capability", "tls", "line break", "variable", "path element", "command",
          "password flag", "address with user", "option", "rclone program", "interpreter",
          "secret in argument", "relative path", "digest"}
RestoreFlaws == {"short id", "flag as selection", "no destination", "line break"}
Pairs == {"LOCAL", "PILOT_RCLONE_LOCAL", "PILOT_RCLONE_DRIVE", "REST_GATEWAY", "S3"}
         \X {"path", "rclone", "https", "lab http", "http", "userinfo"}
Bound == {<<"LOCAL", "path">>, <<"PILOT_RCLONE_LOCAL", "rclone">>, <<"PILOT_RCLONE_DRIVE", "rclone">>,
          <<"REST_GATEWAY", "https">>, <<"REST_GATEWAY", "lab http">>}
Refused ==
    {NewRequest(op, "PILOT_RCLONE_DRIVE", "rclone", k, "none") : op \in {"backup", "restore"}, k \in {-1, 0, 3}}
    \cup {NewRequest("query", p[1], p[2], 0, "none") : p \in Pairs \ Bound}
    \cup {[GatewayQuery EXCEPT !.broken = {c}] : c \in {"repository", "rest"}}
    \cup {[DriveBackup EXCEPT !.flaw = f] : f \in Flaws}
    \cup {[DriveRestore EXCEPT !.flaw = f] : f \in RestoreFlaws}

AllRequests == Wanted \cup Refused

\* The new snapshot and an old one with the same first eight characters.
TwoSnapshots == {"s1", "s2", "old"}
SameShort == [s \in TwoSnapshots |-> IF s = "s2" THEN "22" ELSE "11"]
OldOnes == {"old"}
FewCodes == {0, 1, 3, 12, 99}

ASSUME EngineAssumption == Engine!EngineAssumption

=============================================================================
