----------------------------- MODULE MCAgentJobs -----------------------------
(***************************************************************************)
(* Instances of AgentJobs for TLC.                                         *)
(***************************************************************************)
EXTENDS AgentJobs

\* The service loop alone: a slot, a click and a restore from the panel.
LoopJobs == {"slot", "click", "panel"}
LoopKind == [j \in LoopJobs |-> IF j = "panel" THEN "restore" ELSE j]
LoopProc == [j \in LoopJobs |-> "main"]

\* The slot next to a qualification run and a restore of the desktop page.
MixedJobs == {"slot", "qual", "page"}
MixedKind == [j \in MixedJobs |-> IF j = "page" THEN "restore" ELSE j]
MixedProc == [j \in MixedJobs |-> CASE j = "slot" -> "main"
                                    [] j = "qual" -> "qual"
                                    [] j = "page" -> "ui"]

PageJobs == {"page"}
PageKind == [j \in PageJobs |-> "restore"]
PageProc == [j \in PageJobs |-> "ui"]

=============================================================================
