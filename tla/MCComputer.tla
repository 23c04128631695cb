------------------------------ MODULE MCComputer ------------------------------
(***************************************************************************)
(* Computer for TLC: the values of the constants are those of MCValues.     *)
(***************************************************************************)
EXTENDS Computer, MCValues

ASSUME InstallAssumption == EnrollmentAssumption
ASSUME RestoreAssumption == Page!PageAssumption
ASSUME SelectionAssumption == Selected!FolderAssumption

=============================================================================
