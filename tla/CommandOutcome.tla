--------------------------- MODULE CommandOutcome ---------------------------
(***************************************************************************)
(* What the command channel promises: a command gets at most one outcome   *)
(* on the device, the control plane shows that outcome or none, and a      *)
(* command the control plane withdrew never gets one.                      *)
(***************************************************************************)
CONSTANT Commands

VARIABLES decided,  \* the device's durable outcome of each command
          shown     \* the final state the control plane shows

Outcomes == {"SUCCEEDED", "FAILED"}

Init == /\ decided = [c \in Commands |-> ""]
        /\ shown = [c \in Commands |-> ""]

\* The device decides, once, and only a command nobody withdrew.
Decide(c) == /\ decided[c] = "" /\ shown[c] = ""
             /\ \E r \in Outcomes : decided' = [decided EXCEPT ![c] = r]
             /\ UNCHANGED shown

\* The control plane learns what the device decided; the outcome of a backup
\* also withdraws undecided commands that it makes obsolete.
Report(c) ==
    /\ decided[c] # "" /\ shown[c] = ""
    /\ \E W \in SUBSET (Commands \ {c}) :
          /\ \A d \in W : decided[d] = "" /\ shown[d] = ""
          /\ shown' = [d \in Commands |->
                          IF d = c THEN decided[c]
                          ELSE IF d \in W THEN "CANCELLED" ELSE shown[d]]
    /\ UNCHANGED decided

Next == \E c \in Commands : Decide(c) \/ Report(c)

Spec == Init /\ [][Next]_<<decided, shown>>

=============================================================================
