------------------------------- MODULE Schedule -------------------------------
(***************************************************************************)
(* When the agent asks for its daily backup (internal/scheduler,            *)
(* internal/domain/policy.go, internal/control/policy.go).  Time is counted *)
(* in units; a day has DayLen of them and the service ticks once in Period. *)
(* A slot is one day of one policy revision.  The backup itself is AgentJobs;*)
(* here it ends well or badly before its deadline, or is cut off at it.     *)
(***************************************************************************)
EXTENDS Integers, FiniteSets

CONSTANTS
    DayLen,         \* units of a day
    MaxNow,         \* bound: the last instant
    Period,         \* units between two ticks
    Configs,        \* policies the control plane may send
    Default,        \* DefaultPilotPolicy
    Delays,         \* what is meant by a delay of zero: 15, 60, 5, 20 minutes
    Runs,           \* and by a runtime of zero: 4 and 8 hours
    Hash,           \* the hash of a slot: [1..revisions \X days -> Nat]
    BootHash,       \* the hash of a day
    MaxKiBps,       \* MaxResticKiBps
    Wan,            \* the repository is behind a WAN
    MaxMishaps      \* bound: denied requests, failed runs, ends of the service

Unset == -1         \* "" for an HH:MM
Bad == -2           \* anything ParseHHMM refuses

VARIABLES
    now,        \* the clock
    pol,        \* Controller.Policy and its revision
    accepted,   \* the journal's latest policy
    job,        \* the journal's job of a slot: [state, no, ended]
    last,       \* LatestSucceededBackupSlot
    run,        \* the slot that is backed up, and its deadline
    next,       \* the ticker
    up, startedAt, mishaps,
    clear       \* history: since when the schedule went undisturbed

vars == <<now, pol, accepted, job, last, run, next, up, startedAt, mishaps, clear>>

-----------------------------------------------------------------------------
(* Policies.                                                               *)

Parses(t) == t \in 0..(DayLen - 1)

\* SchedulePolicy.Validate: no window crosses midnight.
ScheduleOK(s) ==
    /\ s.timezone = "known"
    /\ Parses(s.start) /\ Parses(s.end) /\ s.start < s.end
    /\ s.eligible # Unset => Parses(s.eligible) /\ s.eligible <= s.start
    /\ s.hard # Unset => Parses(s.hard) /\ s.hard >= s.end
    /\ s.jitter >= 0 /\ s.attempts >= 0

PolicyOK(p) == ScheduleOK(p) /\ p.kibps \in 0..MaxKiBps

\* A WAN needs a limit; no limit at all is for a laboratory only.
BackendOK(p) ==
    /\ PolicyOK(p)
    /\ IF Wan THEN p.kibps > 0 /\ ~p.lab ELSE p.kibps > 0 \/ p.lab

\* The configuration as it arrives; what cannot be read is zero.
PolicyFromServer(c) == c.vss \in {"required", "disabled", ""} /\ PolicyOK(c)

Given(set, default) == IF set > 0 THEN set ELSE default

MaxAttempts(p) == Given(p.attempts, 3)

RetryAfter(p, no) == CASE no = 1 -> Given(p.delay1, Delays[1])
                       [] no = 2 -> Given(p.delay2, Delays[2])
                       [] OTHER -> Delays[2]

\* No run outlasts the time until the next window opens; the code asks this of
\* no policy.
RunsFit(p) ==
    \/ p.hard # Unset
    \/ \A r \in {Given(p.normalRun, Runs[1]), Given(p.seedRun, Runs[2])} :
          p.end + r <= DayLen + p.start

-----------------------------------------------------------------------------
(* Instants and slots.                                                     *)

Day(t) == t \div DayLen
Clock(d, hhmm) == d * DayLen + hhmm

SlotKey(p, d) == <<p.rev, d>>

Jitter(h, max) == IF max <= 0 THEN 0 ELSE h % max

\* NextSlot: jitter stays inside [WindowStart, WindowEnd).
Due(p, d) ==
    LET span == p.end - p.start
        max == IF p.jitter >= span /\ span > 1 THEN span - 1 ELSE p.jitter
        at == p.start + Jitter(Hash[SlotKey(p, d)], max)
    IN  Clock(d, IF at < p.end THEN at ELSE p.end - 1)

BootDelay(p, d) ==
    LET min == Given(p.bootMin, Delays[3])
        max == IF p.bootMax > min THEN p.bootMax ELSE Delays[4]
    IN  min + Jitter(BootHash[d], max - min)

Nothing == [state |-> "", no |-> 0, ended |-> 0]
JobOf(k) == IF k \in DOMAIN job THEN job[k] ELSE Nothing
Failed(k) == JobOf(k).state = "FAILED"

\* The server's numbers are of any size and sign, DefaultPilotPolicy is in order.
ScheduleAssumption ==
    /\ DayLen \in Nat \ {0} /\ Period \in Nat \ {0} /\ MaxNow \in Nat
    /\ Delays \in [1..4 -> Nat \ {0}] /\ Runs \in [1..2 -> Nat \ {0}]
    /\ PolicyOK(Default)
    /\ \A p \in Configs \cup {Default} :
          /\ p.start \in Int /\ p.end \in Int /\ p.eligible \in Int /\ p.hard \in Int
          /\ p.jitter \in Int /\ p.attempts \in Int /\ p.delay1 \in Int /\ p.delay2 \in Int
          /\ p.bootMin \in Int /\ p.bootMax \in Int /\ p.normalRun \in Int /\ p.seedRun \in Int
          /\ \A d \in 0..Day(MaxNow) : Hash[SlotKey(p, d)] \in Nat /\ BootHash[d] \in Nat

-----------------------------------------------------------------------------
(* Decide.                                                                 *)

\* A day before yesterday is the last that succeeded under this revision.
Missed(k) == last # <<>> /\ last[1] = k[1] /\ last[2] < k[2] - 1

BackingOff(p, k) == Failed(k) /\ now - JobOf(k).ended < RetryAfter(p, JobOf(k).no)

\* Mutated form of OutOfBudget: the retries are counted, not the attempts.
OutOfBudget_First(p, k) == Failed(k) /\ JobOf(k).no >= MaxAttempts(p) - 1

OutOfBudget(p, k) == Failed(k) /\ JobOf(k).no >= MaxAttempts(p)

Closed(p, d) ==
    \/ (p.hard # Unset /\ now >= Clock(d, p.hard))
    \/ now >= Clock(d, p.end)
    \/ (p.eligible # Unset /\ now < Clock(d, p.eligible))
    \/ now < startedAt + BootDelay(p, d)

Decide(p, d) ==
    LET k == SlotKey(p, d)
    IN  /\ JobOf(k).state \notin {"SUCCEEDED", "ACTIVE"}
        /\ ~OutOfBudget(p, k) /\ ~BackingOff(p, k) /\ ~Closed(p, d)
        /\ (Missed(k) /\ p.catchUp) \/ now >= Due(p, d) \/ Failed(k)

-----------------------------------------------------------------------------
NoRun == [slot |-> <<>>, dead |-> 0]

Init ==
    /\ now = 0 /\ pol = Default /\ accepted = {} /\ job = [k \in {} |-> Nothing]
    /\ last = <<>> /\ run = NoRun /\ next = 0
    /\ up = TRUE /\ startedAt = 0 /\ mishaps = 0 /\ clear = 0

Idle == up /\ run = NoRun

Mishap == mishaps < MaxMishaps /\ mishaps' = mishaps + 1

\* deadlineFor: the class's longest run, cut at today's hard stop.
DeadlineFor(p) ==
    LET longest == now + (IF last = <<>> THEN Given(p.seedRun, Runs[2]) ELSE Given(p.normalRun, Runs[1]))
        hard == Clock(Day(now), p.hard)
    IN  IF p.hard # Unset /\ hard < longest THEN hard ELSE longest

\* A ticker drops what a busy receiver misses.
Ticked == next' = next + Period * ((now - next) \div Period + 1)

\* When a job ended is read of a failed one only.
Keep(k, state, no) ==
    LET ended == IF state = "FAILED" THEN now ELSE 0
    IN  job' = [x \in DOMAIN job \cup {k} |->
                    IF x = k THEN [state |-> state, no |-> no, ended |-> ended] ELSE job[x]]

\* A policy that does not fit the repository is refused at each run, behind a
\* WAN or not (main.go, ctrl.Backup): the slot stays as it is.
Tick ==
    /\ Idle /\ now >= next /\ Ticked
    /\ LET k == SlotKey(pol, Day(now))
       IN  IF Decide(pol, Day(now)) /\ BackendOK(pol)
           THEN \/ /\ Keep(k, "ACTIVE", JobOf(k).no + 1)
                   /\ run' = [slot |-> k, dead |-> DeadlineFor(pol)]
                   /\ UNCHANGED <<clear, mishaps>>
                \/ Mishap /\ clear' = now + 1 /\ UNCHANGED <<job, run>>     \* no lease
           ELSE UNCHANGED <<job, run, clear, mishaps>>
    /\ UNCHANGED <<now, pol, accepted, last, up, startedAt>>

Succeeds ==
    /\ up /\ run # NoRun /\ now < run.dead
    /\ Keep(run.slot, "SUCCEEDED", JobOf(run.slot).no) /\ last' = run.slot /\ run' = NoRun
    /\ UNCHANGED <<now, pol, accepted, next, up, startedAt, mishaps, clear>>

\* It fails, is partial, or is cut off at its deadline.
Fails ==
    /\ up /\ run # NoRun /\ Mishap
    /\ Keep(run.slot, "FAILED", JobOf(run.slot).no) /\ run' = NoRun
    /\ UNCHANGED <<now, pol, accepted, last, next, up, startedAt, clear>>

\* A heartbeat, between two ticks, brings a newer revision.
OnPolicy(c) ==
    /\ Idle /\ c.rev > pol.rev /\ PolicyFromServer(c)
    /\ pol' = c /\ accepted' = {c} /\ clear' = now + 1
    /\ UNCHANGED <<now, job, last, run, next, up, startedAt, mishaps>>

Stop ==
    /\ up /\ Mishap /\ up' = FALSE /\ run' = NoRun
    /\ UNCHANGED <<now, pol, accepted, job, last, next, startedAt, clear>>

\* The latest policy is taken if it fits the repository; a job that was cut
\* off is reconciled before the first decision.
Boot ==
    /\ ~up /\ up' = TRUE /\ startedAt' = now /\ next' = now /\ clear' = now
    /\ pol' = IF \E p \in accepted : BackendOK(p) \/ (~Wan /\ PolicyOK(p))
              THEN CHOOSE p \in accepted : TRUE ELSE Default
    /\ job' = [k \in DOMAIN job |-> IF job[k].state = "ACTIVE"
                                    THEN [job[k] EXCEPT !.state = "FAILED", !.ended = now] ELSE job[k]]
    /\ UNCHANGED <<now, accepted, last, run, mishaps>>

\* Time passes; a tick that is due and a deadline are not missed.
Pass ==
    /\ now < MaxNow /\ ~(Idle /\ now >= next) /\ ~(run # NoRun /\ now >= run.dead)
    /\ now' = now + 1
    /\ UNCHANGED <<pol, accepted, job, last, run, next, up, startedAt, mishaps, clear>>

Next == Tick \/ Succeeds \/ Fails \/ (\E c \in Configs : OnPolicy(c)) \/ Stop \/ Boot \/ Pass

Spec == Init /\ [][Next]_vars

-----------------------------------------------------------------------------
(* Properties.                                                             *)

\* scheduler: a day is backed up.  If the agent was up and was given its
\* leases since before the slot was due, the slot has succeeded when its
\* window closes, or has used its attempts, or failed too late to be retried.
\* The policy must not let the run of one day go on into the window of the next,
\* and must fit the repository: the heartbeat accepts one that does not, and so
\* does a start with a repository that is not behind a WAN, and no day is backed
\* up under it.
DayCovered ==
    LET d == Day(now)
        k == SlotKey(pol, d)
        end == Clock(d, pol.end)
    IN  (/\ Idle /\ now >= end
         /\ clear + BootDelay(pol, d) <= Due(pol, d) /\ Due(pol, d) + Period <= end
         /\ RunsFit(pol) /\ BackendOK(pol))
        => \/ JobOf(k).state = "SUCCEEDED"
           \/ JobOf(k).no >= MaxAttempts(pol)
           \/ (JobOf(k).no > 0 /\ JobOf(k).ended + RetryAfter(pol, JobOf(k).no) + Period > end)

=============================================================================
