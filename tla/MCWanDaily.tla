----------------------------- MODULE MCWanDaily -----------------------------
(***************************************************************************)
(* Instances of WanDaily for TLC.                                          *)
(***************************************************************************)
EXTENDS MCWanAdmission, WanDaily

\* The pilot's schedule, in a day of eight units, and revisions the control
\* plane may send: one that is tight, one whose runs may take longer than the
\* night, tight ones with a flaw, and one that is accepted and fits no run: it
\* limits no upload and is not of a laboratory.
Pilot == [rev |-> 1, timezone |-> "known", vss |-> "required", eligible |-> 1, start |-> 2, end |-> 6,
          hard |-> 7, jitter |-> 2, catchUp |-> TRUE, attempts |-> 2, delay1 |-> 1, delay2 |-> 2,
          bootMin |-> 0, bootMax |-> 0, normalRun |-> 2, seedRun |-> 3, kibps |-> 0, lab |-> TRUE]
Tight == [Pilot EXCEPT !.rev = 2, !.eligible = -1, !.start = 3, !.hard = -1, !.jitter = 9,
                       !.catchUp = FALSE, !.attempts = 0]
Long == [Tight EXCEPT !.rev = 3, !.normalRun = 12, !.seedRun = 12]
Revisions == {Tight, Long, [Tight EXCEPT !.rev = 3, !.end = 3], [Tight EXCEPT !.rev = 3, !.start = -2],
              [Tight EXCEPT !.rev = 3, !.hard = 4], [Tight EXCEPT !.rev = 3, !.timezone = ""],
              [Tight EXCEPT !.rev = 3, !.lab = FALSE],
              [Tight EXCEPT !.rev = 3, !.kibps = 9], [Tight EXCEPT !.rev = 3, !.vss = "maybe"]}

Hashes == [k \in (1..3) \X (0..2) |-> k[1] + 3 * k[2]]
BootHashes == [d \in 0..2 |-> d]
NoDelays == <<1, 2, 1, 2>>
NoRuns == <<2, 3>>

ASSUME PilotAssumption == Daily!ScheduleAssumption

=============================================================================
