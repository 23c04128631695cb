-------------------------------- MODULE MCHost --------------------------------
(***************************************************************************)
(* ReportsHost for TLC, with what it assumes of AgentHost's constants.      *)
(***************************************************************************)
EXTENDS ReportsHost

ASSUME UpgradeAssumption == Host!HostAssumption

=============================================================================
