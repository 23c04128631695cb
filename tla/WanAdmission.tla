---------------------------- MODULE WanAdmission ----------------------------
(***************************************************************************)
(* The control plane's durable WAN admission leases                        *)
(* (server/app/admission.py), the agents that ask for, renew and give back *)
(* those leases (agent/cmd/stowline-agent), and the worker that reaps the  *)
(* expired ones (server/app/worker.py).                                    *)
(*                                                                         *)
(* Every HTTP handler runs in a thread of its own with its own database    *)
(* session, so acquire is three steps here: what reap_expired_leases read, *)
(* the commit of that reap together with the reads that decide, and the    *)
(* insert that the UNIQUE columns of wan_admission_leases may refuse.      *)
(* The worker's reap is two steps, a read and a commit, for the same       *)
(* reason.  Time is a countdown: ttl is expires_at - now in ticks, and a   *)
(* lease is live while ttl > 0.                                            *)
(***************************************************************************)
EXTENDS Integers, FiniteSets

CONSTANTS
    Sites,          \* rows of the site table
    Devices,        \* enrolled devices
    Attempts,       \* attempt ids; a lease row is identified by its attempt_id
    Repeats,        \* bound: attempts whose request is delivered twice
    SiteOf,         \* device.site_id
    DeviceOf,       \* the device that uses an attempt id
    ClassOf,        \* the WAN class it asks for
    SiteConfigs,    \* settings an operator may give a site
    MaxSlot,        \* largest max_concurrent_wan_backups (SitePatchIn: le=4)
    TTL,            \* LEASE_TTL in ticks
    CircuitTicks,   \* how long trip_provider opens the circuit, in ticks
    FlakySites,     \* bound: the sites whose provider may fail
    LateDevices     \* bound: the devices that may fall behind

WanClasses == {"INITIAL_SEED", "NORMAL_BACKUP", "RESTORE", "CANARY"}

\* What site.* holds: an unmeasured site has budget 0 (KiB per second).
SiteSettings == [paused : BOOLEAN, max : 1..MaxSlot, budget : Nat,
                 seeds : BOOLEAN]

ASSUME ConstantAssumption ==
    /\ MaxSlot \in Nat \ {0}
    /\ TTL \in Nat \ {0}
    /\ CircuitTicks \in Nat \ {0}
    /\ IsFiniteSet(Attempts)
    /\ SiteOf \in [Devices -> Sites]
    /\ DeviceOf \in [Attempts -> Devices]
    /\ ClassOf \in [Attempts -> WanClasses]
    /\ SiteConfigs \subseteq SiteSettings
    /\ SiteConfigs # {}
    /\ Repeats \subseteq Attempts
    /\ FlakySites \subseteq Sites
    /\ LateDevices \subseteq Devices

VARIABLES
    row,        \* wan_admission_leases, by attempt_id
    req,        \* acquire requests in flight or being handled
    run,        \* the agent's view of each attempt
    renewMsg,   \* renewals in flight (attempt ids)
    releaseMsg, \* releases in flight (attempt ids)
    worker,     \* the worker's reap_expired_leases
    site,       \* site settings
    circuit,    \* ticks until provider_unavailable_until
    overdue,    \* devices whose last success is older than 24 h
    peak        \* history: the largest max each site ever had

vars == <<row, req, run, renewMsg, releaseMsg, worker, site, circuit,
          overdue, peak>>

Site(a) == SiteOf[DeviceOf[a]]

-----------------------------------------------------------------------------
(* Lease rows.  hold_key and device_hold_key are real keys exactly while a  *)
(* row is open: _release_row and _revive write all four columns together.   *)

Absent == [st |-> "absent", reason |-> "", slot |-> 0, share |-> 0, ttl |-> 0]

\* expires_at of a released row is never read again, so it is dropped here.
Released(r, why) == [r EXCEPT !.st = "released", !.reason = why, !.ttl = 0]

Open(rows, a) == rows[a].st = "open"
Live(rows, a) == Open(rows, a) /\ rows[a].ttl > 0

OpenAt(rows, s)   == {a \in Attempts : Site(a) = s /\ Open(rows, a)}
ActiveAt(rows, s) == {a \in Attempts : Site(a) = s /\ Live(rows, a)}

\* Rows the reaper reads: not released, and past their expiry.
Expired(rows) == {a \in Attempts : Open(rows, a) /\ rows[a].ttl = 0}

\* reap_expired_leases writes every row it read, whatever became of it since.
ReapRows(rows, stale) ==
    [a \in Attempts |-> IF a \in stale THEN Released(rows[a], "expired")
                                       ELSE rows[a]]

\* The two UNIQUE columns admit slot k of a's site to attempt a.
KeysFree(rows, a, k) ==
    \A b \in Attempts \ {a} :
        Open(rows, b) => /\ DeviceOf[b] # DeviceOf[a]
                         /\ ~(Site(b) = Site(a) /\ rows[b].slot = k)

-----------------------------------------------------------------------------
(* The decisions of acquire.                                               *)

MaxResticKiBps == 100000

\* agent_ceiling_kibps: nine tenths of the budget, split over the jobs.
AgentCeiling(budget, jobs) == (budget * 9) \div (10 * jobs)

\* compile_for_site(...)["ok"]
Compiles(s, jobs) == AgentCeiling(site[s].budget, jobs) \in 1..MaxResticKiBps

ActiveSeeds(rows) ==
    {a \in Attempts : ClassOf[a] = "INITIAL_SEED" /\ Live(rows, a)}

\* overdue_normal_waiting: an overdue device of the site that holds no lease.
OverdueWaiting(rows, s) ==
    \E d \in overdue : /\ SiteOf[d] = s
                       /\ \A a \in ActiveAt(rows, s) : DeviceOf[a] # d

SiteRefuses(s) == site[s].paused \/ circuit[s] > 0 \/ ~Compiles(s, 1)

SeedRefused(rows, a) ==
    /\ ClassOf[a] = "INITIAL_SEED"
    /\ \/ ~site[Site(a)].seeds /\ ActiveSeeds(rows) # {}
       \/ OverdueWaiting(rows, Site(a))

Jobs(rows, a) == Cardinality(ActiveAt(rows, Site(a))) + 1

NoCapacity(rows, a) ==
    \/ Cardinality(ActiveAt(rows, Site(a))) >= site[Site(a)].max
    \/ ~Compiles(Site(a), Jobs(rows, a))

\* next(i for i in range(1, max_c + 1) if i not in used)
FirstFree(rows, a, k) ==
    LET used == {rows[b].slot : b \in ActiveAt(rows, Site(a))}
    IN  k \notin used /\ 1..(k - 1) \subseteq used
-----------------------------------------------------------------------------
\* Deliveries of acquire requests.
Requests == (Attempts \X {"first"}) \cup (Repeats \X {"again"})

Quiet == [pc |-> "unsent", stale |-> {}, slot |-> 0, share |-> 0, ttl |-> 0]
Handled == [Quiet EXCEPT !.pc = "handled"]

Init ==
    /\ row = [a \in Attempts |-> Absent]
    /\ req = [q \in Requests |-> Quiet]
    /\ run = [a \in Attempts |-> "new"]
    /\ renewMsg = {}
    /\ releaseMsg = {}
    /\ worker = [pc |-> "idle", stale |-> {}]
    /\ site \in [Sites -> SiteConfigs]
    /\ circuit = [s \in Sites |-> 0]
    /\ overdue = {}
    /\ peak = [s \in Sites |-> site[s].max]

\* The answer of an acquire reaches the agent only if it still waits for it.
Answer(a, granted) ==
    run' = IF run[a] # "asked" THEN run
           ELSE [run EXCEPT ![a] = IF granted THEN "running" ELSE "done"]

-----------------------------------------------------------------------------
(* acquire                                                                 *)

\* The handler starts: reap_expired_leases reads the unreleased rows.
AcquireReap(q) ==
    /\ req[q].pc = "sent"
    /\ req' = [req EXCEPT ![q].pc = "reaped", ![q].stale = Expired(row)]
    /\ UNCHANGED <<row, run, renewMsg, releaseMsg, worker, site, circuit,
                   overdue, peak>>

\* Refused: paused, circuit open, unmeasured, attempt id consumed, seed
\* queued behind another seed or an overdue backup, or no capacity.
AcquireRefuse(q) ==
    LET a == q[1]
        rows == ReapRows(row, req[q].stale)
    IN  /\ req[q].pc = "reaped"
        /\ \/ SiteRefuses(Site(a))
           \/ rows[a].st # "absent" /\ ~Live(rows, a)
           \/ rows[a].st = "absent" /\ (SeedRefused(rows, a) \/ NoCapacity(rows, a))
        /\ row' = rows
        /\ req' = [req EXCEPT ![q] = Handled]
        /\ Answer(a, FALSE)
        /\ UNCHANGED <<renewMsg, releaseMsg, worker, site, circuit, overdue,
                       peak>>

\* The attempt already holds a live lease (a repeated request): extend it.
AcquireAgain(q) ==
    LET a == q[1]
        rows == ReapRows(row, req[q].stale)
    IN  /\ req[q].pc = "reaped"
        /\ ~SiteRefuses(Site(a))
        /\ Live(rows, a)
        /\ row' = [rows EXCEPT ![a].ttl = TTL]
        /\ req' = [req EXCEPT ![q] = Handled]
        /\ Answer(a, TRUE)
        /\ UNCHANGED <<renewMsg, releaseMsg, worker, site, circuit, overdue,
                       peak>>

\* Admitted: the slot, the bandwidth share and the expiry are fixed now, the
\* row is inserted by AcquireCommit.
AcquireChoose(q) ==
    LET a == q[1]
        rows == ReapRows(row, req[q].stale)
    IN  /\ req[q].pc = "reaped"
        /\ ~SiteRefuses(Site(a))
        /\ rows[a].st = "absent"
        /\ ~SeedRefused(rows, a)
        /\ ~NoCapacity(rows, a)
        /\ row' = rows
        /\ \E k \in 1..site[Site(a)].max :
              /\ FirstFree(rows, a, k)
              /\ req' = [req EXCEPT ![q] =
                    [pc |-> "insert", stale |-> {}, slot |-> k,
                     share |-> Jobs(rows, a), ttl |-> TTL]]
        /\ UNCHANGED <<run, renewMsg, releaseMsg, worker, site, circuit,
                       overdue, peak>>

\* db.commit of the new row, or IntegrityError: then a live row of the same
\* attempt (inserted by a repeated request) is the answer, else a refusal.
AcquireCommit(q) ==
    LET a == q[1]
        fits == row[a].st = "absent" /\ KeysFree(row, a, req[q].slot)
    IN  /\ req[q].pc = "insert"
        /\ row' = IF fits THEN [row EXCEPT ![a] =
                       [st |-> "open", reason |-> "", slot |-> req[q].slot,
                        share |-> req[q].share, ttl |-> req[q].ttl]]
                  ELSE row
        /\ Answer(a, fits \/ Live(row, a))
        /\ req' = [req EXCEPT ![q] = Handled]
        /\ UNCHANGED <<renewMsg, releaseMsg, worker, site, circuit, overdue,
                       peak>>

-----------------------------------------------------------------------------
(* renew and release                                                       *)

\* Mutated form of Revivable: whatever the reason of the release.
Revivable_AnyReason(rows, a) == KeysFree(rows, a, rows[a].slot)

\* Mutated form of Revivable: the hold keys are not taken back first.
Revivable_NoKeys(rows, a) == rows[a].reason = "expired"

\* A lease that only expired is taken back if its slot and device are free.
Revivable(rows, a) ==
    rows[a].reason = "expired" /\ KeysFree(rows, a, rows[a].slot)

Renew(a) ==
    /\ a \in renewMsg
    /\ renewMsg' = renewMsg \ {a}
    /\ row' = IF Open(row, a) \/ Revivable(row, a)
              THEN [row EXCEPT ![a].st = "open", ![a].reason = "",
                               ![a].ttl = TTL]
              ELSE row
    /\ UNCHANGED <<req, run, releaseMsg, worker, site, circuit, overdue, peak>>

Release(a) ==
    /\ a \in releaseMsg
    /\ releaseMsg' = releaseMsg \ {a}
    /\ row' = IF Open(row, a)
              THEN [row EXCEPT ![a] = Released(row[a], "complete")]
              ELSE row
    /\ UNCHANGED <<req, run, renewMsg, worker, site, circuit, overdue, peak>>

-----------------------------------------------------------------------------
(* The worker: reap_expired_leases, a read and a commit.                   *)

ReapRead ==
    /\ worker.pc = "idle"
    /\ Expired(row) # {}
    /\ worker' = [pc |-> "reap", stale |-> Expired(row)]
    /\ UNCHANGED <<row, req, run, renewMsg, releaseMsg, site, circuit,
                   overdue, peak>>

ReapCommit ==
    /\ worker.pc = "reap"
    /\ row' = ReapRows(row, worker.stale)
    /\ worker' = [pc |-> "idle", stale |-> {}]
    /\ UNCHANGED <<req, run, renewMsg, releaseMsg, site, circuit, overdue,
                   peak>>

-----------------------------------------------------------------------------
(* The agent: ctrl.Backup / restoreWithAdmission and holdLease.            *)

\* A fresh attempt id for every request; the network may deliver it again.
Ask(a) ==
    /\ run[a] = "new"
    /\ run' = [run EXCEPT ![a] = "asked"]
    /\ req' = [q \in Requests |->
                  IF q[1] = a THEN [req[q] EXCEPT !.pc = "sent"] ELSE req[q]]
    /\ UNCHANGED <<row, renewMsg, releaseMsg, worker, site, circuit, overdue,
                   peak>>

\* The HTTP call fails or times out: the backup is not started.  The server
\* may still be handling the request.
GiveUp(a) ==
    /\ run[a] = "asked"
    /\ run' = [run EXCEPT ![a] = "done"]
    /\ UNCHANGED <<row, req, renewMsg, releaseMsg, worker, site, circuit,
                   overdue, peak>>

\* Mutated form of SendRenew: the ticker outlives the run.
SendRenew_NotStopped(a) ==
    /\ run[a] \in {"running", "done"}
    /\ a \notin renewMsg
    /\ renewMsg' = renewMsg \cup {a}
    /\ UNCHANGED <<row, req, run, releaseMsg, worker, site, circuit, overdue,
                   peak>>

\* holdLease's ticker; the result of the renewal is ignored.
SendRenew(a) ==
    /\ run[a] = "running"
    /\ a \notin renewMsg
    /\ renewMsg' = renewMsg \cup {a}
    /\ UNCHANGED <<row, req, run, releaseMsg, worker, site, circuit, overdue,
                   peak>>

\* The run ends: stop() sends the release without waiting for the renewal
\* that may be in flight.  A succeeded run makes the device current again.
Finish(a) ==
    /\ run[a] = "running"
    /\ run' = [run EXCEPT ![a] = "done"]
    /\ releaseMsg' = releaseMsg \cup {a}
    /\ \/ overdue' = overdue \ {DeviceOf[a]}
       \/ UNCHANGED overdue
    /\ UNCHANGED <<row, req, renewMsg, worker, site, circuit, peak>>

\* The agent stops without releasing.
AgentCrash(a) ==
    /\ run[a] = "running"
    /\ run' = [run EXCEPT ![a] = "done"]
    /\ UNCHANGED <<row, req, renewMsg, releaseMsg, worker, site, circuit,
                   overdue, peak>>

-----------------------------------------------------------------------------
(* The network, the operator and time.                                     *)

LoseRequest(q) ==
    /\ req[q].pc = "sent"
    /\ req' = [req EXCEPT ![q] = Handled]
    /\ UNCHANGED <<row, run, renewMsg, releaseMsg, worker, site, circuit,
                   overdue, peak>>

LoseMessage(a) ==
    /\ \/ a \in renewMsg /\ renewMsg' = renewMsg \ {a} /\ UNCHANGED releaseMsg
       \/ a \in releaseMsg /\ releaseMsg' = releaseMsg \ {a} /\ UNCHANGED renewMsg
    /\ UNCHANGED <<row, req, run, worker, site, circuit, overdue, peak>>

\* admin_site_patch, admin_site_pause, admin_site_resume.
ConfigureSite(s, c) ==
    /\ c # site[s]
    /\ site' = [site EXCEPT ![s] = c]
    /\ peak' = [peak EXCEPT ![s] = IF c.max > @ THEN c.max ELSE @]
    /\ UNCHANGED <<row, req, run, renewMsg, releaseMsg, worker, circuit,
                   overdue>>

\* trip_provider, called when an attempt reports a provider error.
TripProvider(s) ==
    /\ circuit' = [circuit EXCEPT ![s] = CircuitTicks]
    /\ UNCHANGED <<row, req, run, renewMsg, releaseMsg, worker, site, overdue,
                   peak>>

\* A device's last success gets older than 24 hours.
FallBehind(d) ==
    /\ d \notin overdue
    /\ overdue' = overdue \cup {d}
    /\ UNCHANGED <<row, req, run, renewMsg, releaseMsg, worker, site, circuit,
                   peak>>

Down(n) == IF n > 0 THEN n - 1 ELSE 0

Tick ==
    /\ row' = [a \in Attempts |-> [row[a] EXCEPT !.ttl = Down(@)]]
    /\ req' = [q \in Requests |-> [req[q] EXCEPT !.ttl = Down(@)]]
    /\ circuit' = [s \in Sites |-> Down(circuit[s])]
    /\ UNCHANGED <<run, renewMsg, releaseMsg, worker, site, overdue, peak>>

-----------------------------------------------------------------------------
Handle(q) == \/ AcquireReap(q) \/ AcquireRefuse(q) \/ AcquireAgain(q)
             \/ AcquireChoose(q) \/ AcquireCommit(q)

Next ==
    \/ \E q \in Requests : Handle(q) \/ LoseRequest(q)
    \/ \E a \in Attempts : \/ Renew(a) \/ Release(a) \/ Ask(a) \/ GiveUp(a)
                           \/ SendRenew(a) \/ Finish(a) \/ AgentCrash(a)
                           \/ LoseMessage(a)
    \/ ReapRead \/ ReapCommit
    \/ \E s \in FlakySites : TripProvider(s)
    \/ \E s \in Sites, c \in SiteConfigs : ConfigureSite(s, c)
    \/ \E d \in LateDevices : FallBehind(d)
    \/ Tick

Spec == Init /\ [][Next]_vars

\* Time passes, the worker loops every 15 s whatever happens, a handler that
\* started ends, a message in flight is delivered or lost, and a run that
\* started ends (every backup and restore has a deadline).
Fairness ==
    /\ WF_vars(Tick)
    /\ WF_vars(ReapRead)
    /\ WF_vars(ReapCommit)
    /\ \A q \in Requests : WF_vars(Handle(q) \/ LoseRequest(q))
    /\ \A a \in Attempts : /\ WF_vars(Renew(a) \/ LoseMessage(a))
                           /\ WF_vars(Finish(a) \/ AgentCrash(a))

FairSpec == Spec /\ Fairness

-----------------------------------------------------------------------------
(* Properties.                                                             *)

RowType == [st : {"absent", "open", "released"},
            reason : {"", "expired", "complete"},
            slot : 0..MaxSlot, share : Nat, ttl : 0..TTL]

ReqType == [pc : {"unsent", "sent", "reaped", "insert", "handled"},
            stale : SUBSET Attempts, slot : 0..MaxSlot, share : Nat,
            ttl : 0..TTL]

\* Every variable keeps its type; in particular no countdown passes zero and
\* no slot passes the largest max_concurrent_wan_backups.
TypeOK ==
    /\ row \in [Attempts -> RowType]
    /\ req \in [Requests -> ReqType]
    /\ run \in [Attempts -> {"new", "asked", "running", "done"}]
    /\ renewMsg \subseteq Attempts
    /\ releaseMsg \subseteq Attempts
    /\ worker \in [pc : {"idle", "reap"}, stale : SUBSET Attempts]
    /\ site \in [Sites -> SiteConfigs]
    /\ circuit \in [Sites -> 0..CircuitTicks]
    /\ overdue \subseteq Devices
    /\ peak \in [Sites -> 1..MaxSlot]

\* Whatever the order of acquire, renew, revive, release and reap, no two
\* unreleased leases share a slot of a site and no device holds two of them.
HoldsExclusive ==
    \A a, b \in Attempts :
        a # b /\ Open(row, a) /\ Open(row, b) =>
            /\ DeviceOf[a] # DeviceOf[b]
            /\ Site(a) = Site(b) => row[a].slot # row[b].slot

\* A site never has more unreleased leases than the largest
\* max_concurrent_wan_backups it was ever configured with: neither the gap
\* between the count and the insert of acquire nor a revived lease adds one.
WithinPeak == \A s \in Sites : Cardinality(OpenAt(row, s)) <= peak[s]

\* The lease of slot k was given at most a k-th of the site's budget: the
\* share is fixed by the count read before the insert and is kept when the
\* lease is revived into its old slot, so the leases of a site together get
\* at most 1 + 1/2 + ... + 1/max of what a single lease gets.
ShareCoversSlot ==
    \A a \in Attempts :
        row[a].st # "absent" => row[a].slot >= 1 /\ row[a].share >= row[a].slot

\* An agent that runs has a lease row, and that row was not given back: only
\* the end of the run releases it, all that can happen to it is to expire.
RunningLease ==
    \A a \in Attempts :
        run[a] = "running" => row[a].st # "absent" /\ row[a].reason # "complete"

\* A reaper that read the row before it was given back.
InHand(a) == a \in worker.stale \/ \E q \in Requests : a \in req[q].stale

\* A lease that was given back stays so, a late renewal included, unless a
\* reaper that had read the row as expired overwrites the reason.
GivenBackForGood ==
    [][\A a \in Attempts :
          row[a].reason = "complete" /\ ~InHand(a)
              => row'[a].reason = "complete"]_vars

-----------------------------------------------------------------------------
(* The inductive invariant behind these, used by WanDailyProofs.           *)

\* A row's reason goes with its state; its slot and share were chosen under
\* a limit the site had, and never change.
RowShape ==
    \A a \in Attempts :
        /\ row[a].st # "released" => row[a].reason = ""
        /\ row[a].st # "absent" => /\ row[a].slot \in 1..peak[Site(a)]
                                  /\ row[a].share >= row[a].slot

\* The same holds of a row that waits to be inserted, and a reaper holds
\* only rows that exist.
ReqShape ==
    /\ \A q \in Requests :
          /\ req[q].pc = "insert" => /\ req[q].slot \in 1..peak[Site(q[1])]
                                     /\ req[q].share >= req[q].slot
          /\ \A a \in req[q].stale : row[a].st # "absent"
    /\ \A a \in worker.stale : row[a].st # "absent"
    /\ \A s \in Sites : site[s].max <= peak[s]

\* A run has a row as soon as it starts, and only a finished run gives back.
RunShape ==
    \A a \in Attempts :
        /\ run[a] = "running" => row[a].st # "absent"
        /\ a \in releaseMsg \/ row[a].reason = "complete" => run[a] = "done"

LeaseInv == TypeOK /\ HoldsExclusive /\ RowShape /\ ReqShape /\ RunShape

\* When a run is over, however it ended and whichever messages were lost,
\* late or repeated, its lease is eventually released and stays released.
SlotComesBack == \A a \in Attempts : run[a] = "done" ~> []~Open(row, a)

=============================================================================
