--------------------------- MODULE MCWanAdmission ---------------------------
(***************************************************************************)
(* Instances of WanAdmission for TLC, and a limit that the code states and *)
(* does not keep.                                                          *)
(***************************************************************************)
EXTENDS WanAdmission

Cfg(p, m, b, sd) == [paused |-> p, max |-> m, budget |-> b, seeds |-> sd]

\* One site with two slots, two devices; device d1 uses two attempts (its
\* scheduled backup and a restore from the desktop page).
OneSite == {"hq"}
TwoDevices == {"d1", "d2"}
ThreeAttempts == {"a1", "a2", "a3"}
TwoAttempts == {"a1", "a2"}
OneSiteOf == [d \in TwoDevices |-> "hq"]
ThreeDeviceOf == [a \in ThreeAttempts |-> IF a = "a2" THEN "d2" ELSE "d1"]
ThreeClassOf == [a \in ThreeAttempts |-> "NORMAL_BACKUP"]
TwoDeviceOf == [a \in TwoAttempts |-> IF a = "a2" THEN "d2" ELSE "d1"]
TwoSeeds == [a \in TwoAttempts |-> "INITIAL_SEED"]
SeedAndNormal == [a \in TwoAttempts |-> IF a = "a1" THEN "INITIAL_SEED"
                                        ELSE "NORMAL_BACKUP"]
OperatorConfigs == {Cfg(FALSE, 1, 10, FALSE), Cfg(FALSE, 2, 10, FALSE),
                    Cfg(TRUE, 2, 0, TRUE)}
OneSlot == {Cfg(FALSE, 1, 10, FALSE)}

\* Two sites with one device each, both running their first backup.
TwoSites == {"hq", "branch"}
TwoSiteOf == [d \in TwoDevices |-> IF d = "d1" THEN "hq" ELSE "branch"]

\* admission.py refuses a seed with "global seed admission is 1 until Stage
\* 2": while no site has allow_site_seeds, one seed lease is live at a time.
OneGlobalSeed ==
    (\A s \in Sites : ~site[s].seeds) => Cardinality(ActiveSeeds(row)) <= 1

=============================================================================
