-------------------------- MODULE AgentJobsProofs --------------------------
(***************************************************************************)
(* What AgentJobs keeps for every set of jobs, every budget of retries and *)
(* every number of stops and failed calls: a backup job is green only      *)
(* after a clean run, and a slot's retries stay within its budget.         *)
(***************************************************************************)
EXTENDS AgentJobs, TLAPS

AttType == [Attempts -> Phases]
JobType == [Jobs -> {"none", "ACTIVE"} \cup Terminal]

\* Goroutine p is now at c with attempt a and result s, the others are as
\* they were.
Becomes(p, c, a, s) ==
    /\ proc' \in [Procs -> ProcType]
    /\ proc'[p].pc = c /\ proc'[p].a = a /\ proc'[p].res = s
    /\ \A q \in Procs : q # p => proc'[q] = proc[q]

-----------------------------------------------------------------------------
(* What the forms of an action's assignments do.                           *)

LEMMA SetTo ==
    ASSUME TypeOK, NEW p \in Procs, NEW r \in ProcType, proc' = [proc EXCEPT ![p] = r]
    PROVE  Becomes(p, r.pc, r.a, r.res)
BY DEF TypeOK, Becomes

LEMMA IdleType ==
    /\ Idle \in ProcType /\ Idle.pc = "idle"
    /\ \A c \in Steps : [Idle EXCEPT !.pc = c] \in ProcType /\ [Idle EXCEPT !.pc = c].pc = c
BY DEF Idle, ProcType, Steps, Nobody

LEMMA AfterType ==
    ASSUME NEW p, NEW j
    PROVE  After(p, j) \in ProcType /\ After(p, j).pc \in {"idle", "tick"}
BY IdleType DEF After, Steps

LEMMA SetPc ==
    ASSUME TypeOK, NEW p \in Procs, NEW c \in Steps,
           proc' = [proc EXCEPT ![p].pc = c]
    PROVE  Becomes(p, c, proc[p].a, proc[p].res)
<1> DEFINE r == [proc[p] EXCEPT !.pc = c]
<1>1. proc[p] \in ProcType
  BY DEF TypeOK
<1>2. r \in ProcType /\ r.pc = c /\ r.a = proc[p].a /\ r.res = proc[p].res
  BY <1>1 DEF ProcType
<1>3. proc' = [proc EXCEPT ![p] = r]
  BY DEF TypeOK
<1> HIDE DEF r
<1>4. QED
  BY <1>2, <1>3, SetTo

LEMMA SetRes ==
    ASSUME TypeOK, NEW p \in Procs, NEW c \in Steps, NEW s \in Terminal,
           proc' = [proc EXCEPT ![p].pc = c, ![p].res = s]
    PROVE  Becomes(p, c, proc[p].a, s)
<1> DEFINE r == [proc[p] EXCEPT !.pc = c, !.res = s]
<1>1. proc[p] \in ProcType
  BY DEF TypeOK
<1>2. r \in ProcType /\ r.pc = c /\ r.a = proc[p].a /\ r.res = s
  BY <1>1 DEF ProcType
<1>3. proc' = [proc EXCEPT ![p] = r]
  BY DEF TypeOK
<1> HIDE DEF r
<1>4. QED
  BY <1>2, <1>3, SetTo

LEMMA SetAttempt ==
    ASSUME TypeOK, NEW p \in Procs, NEW c \in Steps, NEW b \in Attempts,
           proc' = [proc EXCEPT ![p].pc = c, ![p].a = b]
    PROVE  Becomes(p, c, b, proc[p].res)
<1> DEFINE r == [proc[p] EXCEPT !.pc = c, !.a = b]
<1>1. proc[p] \in ProcType
  BY DEF TypeOK
<1>2. r \in ProcType /\ r.pc = c /\ r.a = b /\ r.res = proc[p].res
  BY <1>1 DEF ProcType
<1>3. proc' = [proc EXCEPT ![p] = r]
  BY DEF TypeOK
<1> HIDE DEF r
<1>4. QED
  BY <1>2, <1>3, SetTo

LEMMA SetCut ==
    ASSUME TypeOK, NEW p \in Procs,
           proc' = [proc EXCEPT ![p].cut = TRUE]
    PROVE  Becomes(p, proc[p].pc, proc[p].a, proc[p].res)
<1> DEFINE r == [proc[p] EXCEPT !.cut = TRUE]
<1>1. proc[p] \in ProcType
  BY DEF TypeOK
<1>2. r \in ProcType /\ r.pc = proc[p].pc /\ r.a = proc[p].a /\ r.res = proc[p].res
  BY <1>1 DEF ProcType
<1>3. proc' = [proc EXCEPT ![p] = r]
  BY DEF TypeOK
<1> HIDE DEF r
<1>4. QED
  BY <1>2, <1>3, SetTo

LEMMA PhaseFacts ==
    ASSUME TypeOK, NEW a \in Attempts, NEW ph \in Phases, att' = [att EXCEPT ![a] = ph]
    PROVE  /\ att' \in AttType /\ att'[a] = ph
           /\ \A b \in Attempts : b # a => att'[b] = att[b]
BY DEF TypeOK, AttType

LEMMA CompleteFacts ==
    ASSUME TypeOK, NEW a \in Attempts, NEW r \in Terminal, Complete(a, r)
    PROVE  /\ att' \in AttType /\ att'[a] = r
           /\ \A b \in Attempts : b # a => att'[b] = att[b]
           /\ job' \in JobType /\ a[1] \in Jobs /\ job'[a[1]] = r
           /\ \A j \in Jobs : j # a[1] => job'[j] = job[j]
<1>1. a[1] \in Jobs /\ r \in Phases
  BY DEF Attempts, Phases
<1>2. QED
  BY <1>1 DEF TypeOK, AttType, JobType, Complete

-----------------------------------------------------------------------------
(* Green is clean.                                                         *)

\* The other goroutines keep what they have in hand: attempts that began
\* stay so, clean runs and snapshots stay.
LEMMA OthersInHand ==
    ASSUME NEW q \in Procs, TypeOK, InHand(q), proc'[q] = proc[q],
           \A b \in Attempts : att[b] # "none" => att'[b] # "none",
           clean \subseteq clean', repo \subseteq repo'
    PROVE  InHand(q)'
BY DEF InHand, Working

\* The budget, when no attempt begins.
LEMMA TriedKept ==
    ASSUME TriedShape,
           \A b \in Attempts : att'[b] = "none" <=> att[b] = "none",
           \A j \in Jobs : job'[j] = "none" <=> job[j] = "none"
    PROVE  TriedShape' /\ \A j \in Jobs : Tried(j)' = Tried(j)
<1>1. \A j \in Jobs, n \in 1..(MaxAttempts + 1) : <<j, n>> \in Attempts
  BY DEF Attempts
<1>2. \A j \in Jobs : Tried(j)' = Tried(j)
  BY <1>1 DEF Tried
<1>3. QED
  BY <1>2 DEF TriedShape

\* A step of one goroutine in which no attempt begins.
LEMMA StepSafe ==
    ASSUME SafeInv, NEW p \in Procs, NEW c, NEW a, NEW s, Becomes(p, c, a, s), InHand(p)',
           att' \in AttType, job' \in JobType, repo' \subseteq Attempts,
           outbox' \subseteq Attempts \X Terminal, active' \in BOOLEAN,
           todo' \subseteq Begun, clean' \subseteq Attempts, faults' \in 0..MaxFaults,
           clean \subseteq clean', repo \subseteq repo',
           \A b \in Attempts : att'[b] = "none" <=> att[b] = "none",
           \A j \in Jobs : job'[j] = "none" <=> job[j] = "none",
           \A j \in Jobs : KindOf[j] # "restore" /\ job'[j] = "SUCCEEDED" =>
              job[j] = "SUCCEEDED" \/ \E n \in Tried(j) : <<j, n>> \in clean' \cap repo'
    PROVE  SafeInv'
<1>1. TypeOK'
  BY DEF TypeOK, AttType, JobType, Becomes, Begun
<1>2. ProcShape'
  <2>1. todo' \subseteq Begun'
    BY DEF Begun
  <2>2. ASSUME NEW q \in Procs, q # p PROVE InHand(q)'
    <3>1. TypeOK /\ InHand(q) /\ proc'[q] = proc[q]
      BY <2>2 DEF SafeInv, ProcShape, Becomes
    <3>2. QED
      BY <3>1, OthersInHand
  <2>3. QED
    BY <2>1, <2>2 DEF ProcShape
<1>3. TriedShape' /\ \A j \in Jobs : Tried(j)' = Tried(j)
  BY TriedKept DEF SafeInv
<1>4. GreenIsClean'
  <2> SUFFICES ASSUME NEW j \in Jobs, KindOf[j] # "restore", job'[j] = "SUCCEEDED"
               PROVE  \E n \in Tried(j) : <<j, n>> \in clean' \cap repo'
    BY <1>3 DEF GreenIsClean
  <2>1. CASE job[j] = "SUCCEEDED"
    <3>1. PICK n \in Tried(j) : <<j, n>> \in clean \cap repo
      BY <2>1 DEF SafeInv, GreenIsClean
    <3>2. QED
      BY <3>1
  <2>2. QED
    BY <2>1
<1>5. QED
  BY <1>1, <1>2, <1>3, <1>4 DEF SafeInv

\* An attempt that began is one of its job's.
LEMMA Began ==
    ASSUME TypeOK, TriedShape, NEW a \in Attempts, att[a] # "none"
    PROVE  /\ a[1] \in Jobs /\ a[2] \in Tried(a[1]) /\ a = <<a[1], a[2]>>
           /\ job[a[1]] # "none"
<1>1. a[1] \in Jobs /\ a[2] \in 1..(MaxAttempts + 1) /\ a = <<a[1], a[2]>>
  BY DEF Attempts
<1>2. a[2] \in Tried(a[1])
  BY <1>1 DEF Tried
<1>3. PICK k \in 0..MaxAttempts : Tried(a[1]) = 1..k /\ (job[a[1]] = "none" <=> k = 0)
  BY <1>1 DEF TriedShape
<1>4. k # 0
  BY <1>2, <1>3
<1>5. QED
  BY <1>1, <1>2, <1>3, <1>4

\* A terminal record of an attempt that began, green only if it was clean.
LEMMA CompleteSafe ==
    ASSUME SafeInv, NEW b \in Attempts, NEW r \in Terminal, Complete(b, r), att[b] # "none",
           IsBackupWork(b) /\ r = "SUCCEEDED" => b \in clean \cap repo,
           UNCHANGED <<repo, clean>>,
           outbox' \subseteq Attempts \X Terminal, active' \in BOOLEAN,
           todo' \subseteq Begun, faults' \in 0..MaxFaults,
           NEW p \in Procs, NEW c, NEW a, NEW s, Becomes(p, c, a, s), InHand(p)'
    PROVE  SafeInv'
<1>1. TypeOK /\ TriedShape
  BY DEF SafeInv
<1>2. /\ att' \in AttType /\ att'[b] = r
      /\ \A d \in Attempts : d # b => att'[d] = att[d]
      /\ job' \in JobType /\ b[1] \in Jobs /\ job'[b[1]] = r
      /\ \A j \in Jobs : j # b[1] => job'[j] = job[j]
  BY <1>1, CompleteFacts
<1>3. b[2] \in Tried(b[1]) /\ b = <<b[1], b[2]>> /\ job[b[1]] # "none"
  BY <1>1, Began
<1>4. r # "none"
  BY DEF Terminal
<1>5. \A d \in Attempts : att'[d] = "none" <=> att[d] = "none"
  BY <1>2, <1>4
<1>6. \A j \in Jobs : job'[j] = "none" <=> job[j] = "none"
  BY <1>2, <1>3, <1>4
<1>7. ASSUME NEW j \in Jobs, KindOf[j] # "restore", job'[j] = "SUCCEEDED"
      PROVE  job[j] = "SUCCEEDED" \/ \E n \in Tried(j) : <<j, n>> \in clean' \cap repo'
  <2>1. CASE j = b[1]
    <3>1. b \in clean' \cap repo'
      BY <1>2, <1>7, <2>1 DEF IsBackupWork
    <3>2. QED
      BY <1>3, <2>1, <3>1
  <2>2. CASE j # b[1]
    BY <1>2, <1>7, <2>2
  <2>3. QED
    BY <2>1, <2>2
<1>8. repo' \subseteq Attempts /\ clean' \subseteq Attempts
      /\ clean \subseteq clean' /\ repo \subseteq repo'
  BY <1>1 DEF TypeOK
<1>9. QED
  BY <1>2, <1>5, <1>6, <1>7, <1>8, StepSafe

\* A step that leaves the journal's jobs and attempts alone.
LEMMA QuietSafe ==
    ASSUME SafeInv, UNCHANGED <<job, att, repo>>,
           outbox' \subseteq Attempts \X Terminal, active' \in BOOLEAN,
           todo' \subseteq Begun, faults' \in 0..MaxFaults,
           clean' \subseteq Attempts, clean \subseteq clean',
           NEW p \in Procs, NEW c, NEW a, NEW s, Becomes(p, c, a, s), InHand(p)'
    PROVE  SafeInv'
<1>1. /\ att' \in AttType /\ job' \in JobType /\ repo' \subseteq Attempts
      /\ repo \subseteq repo'
  BY DEF SafeInv, TypeOK, AttType, JobType
<1>2. QED
  BY <1>1, StepSafe

\* A new phase, not a terminal one, for an attempt that began.
LEMMA PhaseSafe ==
    ASSUME SafeInv, NEW b \in Attempts, NEW ph \in Phases, ph # "none", att[b] # "none",
           att' = [att EXCEPT ![b] = ph],
           UNCHANGED <<job, repo, outbox, active, clean, faults>>,
           todo' \subseteq Begun,
           NEW p \in Procs, NEW c, NEW a, NEW s, Becomes(p, c, a, s), InHand(p)'
    PROVE  SafeInv'
<1>1. TypeOK
  BY DEF SafeInv
<1>2. att' \in AttType /\ \A d \in Attempts : att'[d] = "none" <=> att[d] = "none"
  BY <1>1, PhaseFacts
<1>3. /\ job' \in JobType /\ repo' \subseteq Attempts /\ repo \subseteq repo'
      /\ outbox' \subseteq Attempts \X Terminal /\ active' \in BOOLEAN
      /\ clean' \subseteq Attempts /\ clean \subseteq clean' /\ faults' \in 0..MaxFaults
  BY <1>1 DEF TypeOK, JobType
<1>4. QED
  BY <1>2, <1>3, StepSafe

-----------------------------------------------------------------------------
(* A new attempt: the one after the last, within the budget.               *)

\* Goroutine p begins the attempt of j that follows the k it has.
Follows(p, j, k) ==
    /\ Tried(j) = 1..k /\ (job[j] = "none" <=> k = 0)
    /\ job[j] \notin {"SUCCEEDED", "ACTIVE"} /\ ProcOf[j] = p
    /\ Begin(<<j, k + 1>>) /\ <<j, k + 1>> \in Attempts
    /\ proc' = [proc EXCEPT ![p] = [Idle EXCEPT !.pc = "prep", !.a = <<j, k + 1>>]]

LEMMA StartFacts ==
    ASSUME TypeOK, TriedShape, NEW p \in Procs, NEW j \in Jobs, Start(p, j)
    PROVE  \E k \in 0..(MaxAttempts - 1) : Follows(p, j, k)
<1>1. PICK k \in 0..MaxAttempts : Tried(j) = 1..k /\ (job[j] = "none" <=> k = 0)
  BY DEF TriedShape
<1>2. job[j] \notin {"SUCCEEDED", "ACTIVE"} /\ ProcOf[j] = p
  BY DEF Start, Startable
<1>3. MaxAttempts \in Nat /\ MaxAttempts >= 1 /\ k \in Nat /\ k <= MaxAttempts
  BY JobAssumption, <1>1
<1>4. k < MaxAttempts
  <2>1. CASE job[j] = "none"
    BY <1>1, <1>3, <2>1
  <2>2. CASE job[j] # "none"
    <3>1. MaxAttempts \notin Tried(j)
      BY <2>2 DEF Start, Startable, Decide
    <3>2. QED
      BY <1>1, <1>3, <3>1
  <2>3. QED
    BY <2>1, <2>2
<1> DEFINE P(m) == m \notin Tried(j) /\ 1..(m - 1) \subseteq Tried(j)
           n == CHOOSE m \in 1..(MaxAttempts + 1) : P(m)
<1>5. k + 1 \in 1..(MaxAttempts + 1) /\ P(k + 1)
  BY <1>1, <1>3, <1>4
<1>6. \A m \in 1..(MaxAttempts + 1) : P(m) => m = k + 1
  <2> SUFFICES ASSUME NEW m \in 1..(MaxAttempts + 1), P(m) PROVE m = k + 1
    OBVIOUS
  <2>1. m \in Nat /\ m >= 1 /\ m \notin 1..k /\ 1..(m - 1) \subseteq 1..k
    BY <1>1, <1>3
  <2>2. m > k
    BY <1>3, <2>1
  <2>3. m = 1 \/ m - 1 \in 1..(m - 1)
    BY <2>1
  <2>4. QED
    BY <1>3, <2>1, <2>2, <2>3
<1>7. n = k + 1
  BY <1>5, <1>6
<1>8. /\ Begin(<<j, n>>)
      /\ proc' = [proc EXCEPT ![p] = [Idle EXCEPT !.pc = "prep", !.a = <<j, n>>]]
  BY DEF Start
<1>9. <<j, k + 1>> \in Attempts
  BY <1>5 DEF Attempts
<1> HIDE DEF n
<1>10. /\ Begin(<<j, k + 1>>)
       /\ proc' = [proc EXCEPT ![p] = [Idle EXCEPT !.pc = "prep", !.a = <<j, k + 1>>]]
  BY <1>7, <1>8
<1>11. k \in 0..(MaxAttempts - 1)
  BY <1>3, <1>4
<1>12. Follows(p, j, k)
  BY <1>1, <1>2, <1>9, <1>10 DEF Follows
<1>13. QED
  BY <1>11, <1>12

\* What the tables hold once an attempt began.
LEMMA BeginFacts ==
    ASSUME TypeOK, NEW j \in Jobs, NEW k \in 0..(MaxAttempts - 1), Tried(j) = 1..k,
           <<j, k + 1>> \in Attempts, Begin(<<j, k + 1>>)
    PROVE  /\ att' \in AttType /\ job' \in JobType
           /\ att'[<<j, k + 1>>] = "PREPARING"
           /\ att[<<j, k + 1>>] = "none"
           /\ \A b \in Attempts : b # <<j, k + 1>> => att'[b] = att[b]
           /\ job'[j] = "ACTIVE" /\ \A i \in Jobs : i # j => job'[i] = job[i]
           /\ Tried(j)' = 1..(k + 1) /\ \A i \in Jobs : i # j => Tried(i)' = Tried(i)
<1>1. MaxAttempts \in Nat /\ MaxAttempts >= 1 /\ k \in Nat /\ k < MaxAttempts
  BY JobAssumption
<1>2. /\ att' = [att EXCEPT ![<<j, k + 1>>] = "PREPARING"]
      /\ job' = [job EXCEPT ![j] = "ACTIVE"]
  BY DEF Begin
<1>3. "PREPARING" \in Phases
  BY DEF Phases
<1>4. /\ att' \in AttType /\ att'[<<j, k + 1>>] = "PREPARING"
      /\ \A b \in Attempts : b # <<j, k + 1>> => att'[b] = att[b]
  BY <1>2, <1>3, PhaseFacts
<1>5. job' \in JobType /\ job'[j] = "ACTIVE" /\ \A i \in Jobs : i # j => job'[i] = job[i]
  BY <1>2 DEF TypeOK, JobType
<1>6. k + 1 \notin Tried(j) /\ k + 1 \in 1..(MaxAttempts + 1)
  BY <1>1
<1>7. att[<<j, k + 1>>] = "none"
  BY <1>6 DEF Tried
<1>8. \A i \in Jobs, n \in 1..(MaxAttempts + 1) : <<i, n>> \in Attempts
  BY DEF Attempts
<1>9. Tried(j)' = Tried(j) \cup {k + 1}
  BY <1>4, <1>6, <1>8 DEF Tried
<1>10. Tried(j)' = 1..(k + 1)
  BY <1>1, <1>9
<1>11. \A i \in Jobs : i # j => Tried(i)' = Tried(i)
  BY <1>4, <1>8 DEF Tried
<1>12. QED
  BY <1>4, <1>5, <1>7, <1>10, <1>11

LEMMA StartSafe ==
    ASSUME SafeInv, NEW p \in Procs, NEW j \in Jobs, Start(p, j)
    PROVE  SafeInv'
<1>1. TypeOK /\ ProcShape /\ TriedShape /\ GreenIsClean
  BY DEF SafeInv
<1>k. PICK k \in 0..(MaxAttempts - 1) : Follows(p, j, k)
  BY <1>1, StartFacts
<1>2. /\ Tried(j) = 1..k /\ (job[j] = "none" <=> k = 0)
      /\ job[j] \notin {"SUCCEEDED", "ACTIVE"} /\ ProcOf[j] = p
      /\ Begin(<<j, k + 1>>) /\ <<j, k + 1>> \in Attempts
      /\ proc' = [proc EXCEPT ![p] = [Idle EXCEPT !.pc = "prep", !.a = <<j, k + 1>>]]
  BY <1>k DEF Follows
<1>3. /\ att' \in AttType /\ job' \in JobType
      /\ att'[<<j, k + 1>>] = "PREPARING"
      /\ \A b \in Attempts : b # <<j, k + 1>> => att'[b] = att[b]
      /\ job'[j] = "ACTIVE" /\ \A i \in Jobs : i # j => job'[i] = job[i]
      /\ Tried(j)' = 1..(k + 1) /\ \A i \in Jobs : i # j => Tried(i)' = Tried(i)
  BY <1>1, <1>2, BeginFacts
<1>4. /\ active' = TRUE
      /\ UNCHANGED <<repo, outbox, todo, clean, faults>>
  BY DEF Start
<1> DEFINE r == [Idle EXCEPT !.pc = "prep", !.a = <<j, k + 1>>]
<1>5. r \in ProcType /\ r.pc = "prep" /\ r.a = <<j, k + 1>>
  BY <1>2 DEF Idle, ProcType, Steps
<1>6. proc' = [proc EXCEPT ![p] = r]
  BY <1>2
<1> HIDE DEF r
<1>7. Becomes(p, "prep", <<j, k + 1>>, r.res)
  BY <1>1, <1>5, <1>6, SetTo
<1>8. TypeOK'
  BY <1>1, <1>3, <1>4, <1>7 DEF TypeOK, AttType, JobType, Becomes
<1>9. \A b \in Attempts : att[b] # "none" => att'[b] # "none"
  BY <1>3
<1>10. ProcShape'
  <2>1. InHand(p)'
    BY <1>2, <1>3, <1>7 DEF InHand, Becomes, Working
  <2>2. ASSUME NEW q \in Procs, q # p PROVE InHand(q)'
    <3>1. InHand(q) /\ proc'[q] = proc[q]
      BY <1>1, <1>7, <2>2 DEF ProcShape, Becomes
    <3>2. QED
      BY <1>1, <1>4, <1>9, <3>1, OthersInHand
  <2>3. todo' \subseteq Begun'
    BY <1>1, <1>4, <1>9 DEF ProcShape, Begun
  <2>4. QED
    BY <2>1, <2>2, <2>3 DEF ProcShape
<1>11. TriedShape'
  <2>1. k + 1 \in 0..MaxAttempts /\ k + 1 # 0
    BY <1>2, JobAssumption
  <2>2. QED
    BY <1>1, <1>3, <2>1 DEF TriedShape
<1>12. GreenIsClean'
  <2> SUFFICES ASSUME NEW i \in Jobs, KindOf[i] # "restore", job'[i] = "SUCCEEDED"
               PROVE  \E n \in Tried(i)' : <<i, n>> \in clean' \cap repo'
    BY DEF GreenIsClean
  <2>1. i # j /\ job[i] = "SUCCEEDED" /\ Tried(i)' = Tried(i)
    BY <1>3
  <2>2. QED
    BY <1>1, <1>4, <2>1 DEF GreenIsClean
<1>13. QED
  BY <1>8, <1>10, <1>11, <1>12 DEF SafeInv

-----------------------------------------------------------------------------
(* Every step.                                                             *)

LEMMA Unmoved ==
    ASSUME TypeOK, NEW p \in Procs, proc' = proc
    PROVE  Becomes(p, proc[p].pc, proc[p].a, proc[p].res)
BY DEF TypeOK, Becomes

LEMMA Started == SafeInv => \A p \in Procs : proc[p].pc \in Working =>
                    proc[p].a \in Attempts /\ att[proc[p].a] # "none"
BY DEF SafeInv, ProcShape, InHand

\* What the variables that a step leaves alone are afterwards.
LEMMA Rest ==
    ASSUME SafeInv
    PROVE  /\ TypeOK /\ ProcShape /\ TriedShape /\ todo \subseteq Begun
           /\ repo \subseteq Attempts /\ clean \subseteq Attempts /\ active \in BOOLEAN
           /\ outbox \subseteq Attempts \X Terminal /\ faults \in 0..MaxFaults
           /\ att \in AttType /\ job \in JobType
BY DEF SafeInv, TypeOK, ProcShape, AttType, JobType

\* A goroutine that has nothing in hand.
LEMMA FreeHand ==
    ASSUME NEW p \in Procs, NEW c \in {"idle", "tick", "rec", "decide"}, NEW a, NEW s,
           Becomes(p, c, a, s)
    PROVE  InHand(p)'
BY DEF InHand, Becomes, Working

\* Only a clean run with its snapshot in the repository is green.
LEMMA ResultFacts ==
    ASSUME NEW a, NEW x \in Ends(a), NEW cut \in BOOLEAN
    PROVE  /\ Result(x, cut) \in Terminal
           /\ Result(x, cut) = "SUCCEEDED" => Green(x, cut) /\ a \in repo
<1>1. AdapterOutcome(x) \in Terminal
  BY DEF AdapterOutcome, Terminal
<1>2. AdapterOutcome(x) = "SUCCEEDED" => x.exit = "ok" /\ x.readback /\ x.verified
  BY DEF AdapterOutcome, Ends
<1>3. EvaluateBackup(x, AdapterOutcome(x)) \in Terminal
  BY <1>1 DEF EvaluateBackup, Terminal
<1>4. EvaluateBackup(x, AdapterOutcome(x)) = "SUCCEEDED" =>
         AdapterOutcome(x) = "SUCCEEDED"
  BY DEF EvaluateBackup
<1>5. x.exit = "ok" => a \in repo
  BY DEF Ends
<1>6. Result(x, cut) \in Terminal
  BY <1>3 DEF Result, CancelWins, Terminal
<1>7. Result(x, cut) = "SUCCEEDED" =>
         ~cut /\ EvaluateBackup(x, AdapterOutcome(x)) = "SUCCEEDED"
  BY DEF Result, CancelWins
<1>8. QED
  BY <1>2, <1>4, <1>5, <1>6, <1>7 DEF Green

LEMMA OperationSafe ==
    ASSUME SafeInv, NEW p \in Procs, Operation(p) \/ Publish(p) \/ Cancel(p)
    PROVE  SafeInv'
<1> DEFINE a == proc[p].a
<1>1. /\ TypeOK /\ ProcShape /\ todo \subseteq Begun
      /\ repo \subseteq Attempts /\ clean \subseteq Attempts /\ active \in BOOLEAN
      /\ outbox \subseteq Attempts \X Terminal /\ faults \in 0..MaxFaults
      /\ att \in AttType /\ job \in JobType
  BY Rest
<1>2. InHand(p)
  BY <1>1 DEF ProcShape
<1>3. proc[p].pc \in Working => a \in Attempts /\ att[a] # "none" /\ ProcOf[a[1]] = p
  BY <1>2 DEF InHand
<1> HIDE DEF a
<1>4. CASE PrepFails(p)
  <2>1. Becomes(p, "finish", proc[p].a, "FAILED")
    BY <1>1, <1>4, SetRes DEF PrepFails, Steps, Terminal
  <2>2. InHand(p)'
    BY <1>2, <1>4, <2>1 DEF PrepFails, InHand, Becomes, Working, Terminal
  <2>3. QED
    BY <1>1, <1>4, <2>1, <2>2, QuietSafe DEF PrepFails
<1>5. CASE Prepare(p)
  <2>1. proc[p].pc = "prep" /\ a \in Attempts /\ att[a] # "none" /\ ProcOf[a[1]] = p
    BY <1>3, <1>5 DEF Prepare, Working
  <2>2. UNCHANGED <<job, repo, outbox, todo, clean, faults>>
    BY <1>5 DEF Prepare
  <2>3. CASE IsBackupWork(a) /\ proc[p].cut
    <3>1. /\ proc' = [proc EXCEPT ![p] = After(p, a[1])]
          /\ active' = FALSE /\ UNCHANGED att
      BY <1>5, <2>3 DEF Prepare, a
    <3>2. Becomes(p, After(p, a[1]).pc, After(p, a[1]).a, After(p, a[1]).res)
      BY <1>1, <3>1, AfterType, SetTo
    <3>3. InHand(p)'
      BY <3>2, AfterType, FreeHand
    <3>4. QED
      BY <1>1, <2>2, <3>1, <3>2, <3>3, QuietSafe
  <2>4. CASE ~(IsBackupWork(a) /\ proc[p].cut)
    <3>1. /\ proc' = [proc EXCEPT ![p].pc = "engine"] /\ UNCHANGED active
          /\ att' = IF IsBackupWork(a) THEN [att EXCEPT ![a] = "BACKING_UP"] ELSE att
      BY <1>5, <2>4 DEF Prepare, a
    <3>2. Becomes(p, "engine", proc[p].a, proc[p].res)
      BY <1>1, <3>1, SetPc DEF Steps
    <3>3. CASE IsBackupWork(a)
      <4>1. att' = [att EXCEPT ![a] = "BACKING_UP"] /\ "BACKING_UP" \in Phases
        BY <3>1, <3>3 DEF Phases
      <4>2. att'[a] = "BACKING_UP"
        BY <1>1, <2>1, <4>1, PhaseFacts
      <4>3. InHand(p)'
        BY <2>1, <3>2, <4>2 DEF InHand, Becomes, Working, a
      <4>4. QED
        BY <1>1, <2>1, <2>2, <3>1, <3>2, <4>1, <4>3, PhaseSafe
    <3>4. CASE ~IsBackupWork(a)
      <4>1. att' = att
        BY <3>1, <3>4
      <4>2. InHand(p)'
        BY <2>1, <3>2, <4>1 DEF InHand, Becomes, Working, a
      <4>3. QED
        BY <1>1, <2>2, <3>1, <3>2, <4>1, <4>2, QuietSafe
    <3>5. QED
      BY <3>3, <3>4
  <2>5. QED
    BY <2>3, <2>4
<1>6. CASE BackupEnds(p)
  <2>1. /\ proc[p].pc = "engine" /\ UNCHANGED <<job, att, repo, outbox, active, todo, faults>>
        /\ a \in Attempts /\ att[a] # "none" /\ ProcOf[a[1]] = p
    BY <1>3, <1>6 DEF BackupEnds, Working
  <2>2. PICK x \in Ends(a) :
           /\ proc' = [proc EXCEPT ![p].pc = "finish", ![p].res = Result(x, proc[p].cut)]
           /\ clean' = IF Green(x, proc[p].cut) THEN clean \cup {a} ELSE clean
    BY <1>6 DEF BackupEnds, a
  <2>3. proc[p].cut \in BOOLEAN
    BY <1>1 DEF TypeOK, ProcType
  <2> DEFINE res == Result(x, proc[p].cut)
  <2>4. res \in Terminal /\ (res = "SUCCEEDED" => Green(x, proc[p].cut) /\ a \in repo)
    BY <2>3, ResultFacts
  <2>5. proc' = [proc EXCEPT ![p].pc = "finish", ![p].res = res]
    BY <2>2
  <2>6. clean \subseteq clean' /\ clean' \subseteq Attempts
        /\ (res = "SUCCEEDED" => a \in clean' \cap repo')
    BY <1>1, <2>1, <2>2, <2>4
  <2> HIDE DEF res
  <2>7. Becomes(p, "finish", a, res)
    BY <1>1, <2>4, <2>5, SetRes DEF Steps, a
  <2>8. InHand(p)'
    BY <2>1, <2>4, <2>6, <2>7 DEF InHand, Becomes, Working
  <2>9. QED
    BY <1>1, <2>1, <2>6, <2>7, <2>8, QuietSafe
<1>7. CASE RestoreEnds(p)
  <2>1. /\ proc[p].pc = "engine" /\ ~IsBackupWork(a)
        /\ UNCHANGED <<job, att, repo, outbox, active, todo, clean, faults>>
        /\ a \in Attempts /\ att[a] # "none" /\ ProcOf[a[1]] = p
    BY <1>3, <1>7 DEF RestoreEnds, Working, a
  <2>2. PICK r \in Terminal : proc' = [proc EXCEPT ![p].pc = "finish", ![p].res = r]
    BY <1>7 DEF RestoreEnds, Terminal
  <2>3. Becomes(p, "finish", a, r)
    BY <1>1, <2>2, SetRes DEF Steps, a
  <2>4. InHand(p)'
    BY <2>1, <2>3 DEF InHand, Becomes, Working, IsBackupWork
  <2>5. QED
    BY <1>1, <2>1, <2>3, <2>4, QuietSafe
<1>8. CASE Finish(p)
  <2>1. /\ proc[p].pc = "finish" /\ Complete(a, proc[p].res)
        /\ UNCHANGED <<repo, outbox, todo, clean, faults>>
        /\ a \in Attempts /\ att[a] # "none" /\ ProcOf[a[1]] = p
    BY <1>3, <1>8 DEF Finish, Working, a
  <2>2. /\ proc[p].res \in Terminal
        /\ IsBackupWork(a) /\ proc[p].res = "SUCCEEDED" => a \in clean \cap repo
    BY <1>2, <2>1 DEF InHand, a
  <2>3. att'[a] # "none"
    BY <1>1, <2>1, <2>2, CompleteFacts DEF Terminal
  <2>4. CASE IsBackupWork(a)
    <3>1. proc' = [proc EXCEPT ![p].pc = "report"] /\ UNCHANGED active
      BY <1>8, <2>4 DEF Finish, a
    <3>2. Becomes(p, "report", a, proc[p].res)
      BY <1>1, <3>1, SetPc DEF Steps, a
    <3>3. InHand(p)'
      BY <2>1, <2>2, <2>3, <3>2 DEF InHand, Becomes, Working
    <3>4. QED
      BY <1>1, <2>1, <2>2, <3>1, <3>2, <3>3, CompleteSafe
  <2>5. CASE ~IsBackupWork(a)
    <3>1. proc' = [proc EXCEPT ![p] = After(p, a[1])] /\ active' = FALSE
      BY <1>8, <2>5 DEF Finish, a
    <3>2. Becomes(p, After(p, a[1]).pc, After(p, a[1]).a, After(p, a[1]).res)
      BY <1>1, <3>1, AfterType, SetTo
    <3>3. InHand(p)'
      BY <3>2, AfterType, FreeHand
    <3>4. QED
      BY <1>1, <2>1, <2>2, <3>1, <3>2, <3>3, CompleteSafe
  <2>6. QED
    BY <2>4, <2>5
<1>9. CASE Report(p)
  <2>1. /\ proc[p].pc = "report" /\ outbox' = outbox \cup {<<a, proc[p].res>>}
        /\ proc' = [proc EXCEPT ![p] = After(p, a[1])] /\ active' = FALSE
        /\ UNCHANGED <<job, att, repo, todo, clean, faults>> /\ a \in Attempts
    BY <1>3, <1>9 DEF Report, Working, a
  <2>2. proc[p].res \in Terminal
    BY <1>2, <2>1 DEF InHand
  <2>3. outbox' \subseteq Attempts \X Terminal
    BY <1>1, <2>1, <2>2
  <2>4. Becomes(p, After(p, a[1]).pc, After(p, a[1]).a, After(p, a[1]).res)
    BY <1>1, <2>1, AfterType, SetTo
  <2>5. InHand(p)'
    BY <2>4, AfterType, FreeHand
  <2>6. QED
    BY <1>1, <2>1, <2>3, <2>4, <2>5, QuietSafe
<1>10. CASE Publish(p)
  <2>1. /\ repo' = repo \cup {a} /\ a \in Attempts
        /\ UNCHANGED <<job, att, outbox, active, proc, todo, clean, faults>>
    BY <1>3, <1>10 DEF Publish, Working, a
  <2>2. Becomes(p, proc[p].pc, proc[p].a, proc[p].res)
    BY <1>1, <2>1, Unmoved
  <2>3. InHand(p)'
    BY <1>1, <1>2, <2>1, OthersInHand
  <2>4. repo \subseteq repo' /\ repo' \subseteq Attempts
    BY <1>1, <2>1
  <2>5. QED
    BY <1>1, <2>1, <2>2, <2>3, <2>4, StepSafe
<1>11. CASE Cancel(p)
  <2>1. /\ proc[p].pc \in {"prep", "engine"} /\ proc' = [proc EXCEPT ![p].cut = TRUE]
        /\ UNCHANGED <<job, att, repo, outbox, active, todo, clean, faults>>
    BY <1>11 DEF Cancel
  <2>2. Becomes(p, proc[p].pc, proc[p].a, proc[p].res)
    BY <1>1, <2>1, SetCut
  <2>3. InHand(p)'
    BY <1>2, <2>1, <2>2 DEF InHand, Becomes, Working
  <2>4. QED
    BY <1>1, <2>1, <2>2, <2>3, QuietSafe
<1>12. QED
  BY <1>4, <1>5, <1>6, <1>7, <1>8, <1>9, <1>10, <1>11 DEF Operation

LEMMA TickSafe ==
    ASSUME SafeInv, Reconcile \/ Skip \/ ReconcileError
    PROVE  SafeInv'
<1> DEFINE p == "main"
           a == proc["main"].a
<1>1. /\ TypeOK /\ ProcShape /\ todo \subseteq Begun
      /\ repo \subseteq Attempts /\ clean \subseteq Attempts /\ active \in BOOLEAN
      /\ outbox \subseteq Attempts \X Terminal /\ faults \in 0..MaxFaults
      /\ att \in AttType /\ job \in JobType
  BY Rest
<1>2. p \in Procs /\ InHand(p)
  BY <1>1 DEF ProcShape, Procs
<1>3. \A b \in todo : b \in Attempts /\ att[b] # "none"
  BY <1>1 DEF Begun
<1>4. CASE ReconcileRead
  <2>1. /\ todo' = Incomplete /\ proc' = [proc EXCEPT ![p] = [Idle EXCEPT !.pc = "rec"]]
        /\ UNCHANGED <<job, att, repo, outbox, active, clean, faults>>
    BY <1>4 DEF ReconcileRead
  <2>2. todo' \subseteq Begun
    BY <2>1 DEF Incomplete, Begun
  <2> DEFINE r == [Idle EXCEPT !.pc = "rec"]
  <2>3. r \in ProcType /\ r.pc = "rec" /\ proc' = [proc EXCEPT ![p] = r]
    BY <2>1, IdleType DEF Steps
  <2> HIDE DEF r
  <2>4. Becomes(p, "rec", r.a, r.res)
    BY <1>1, <1>2, <2>3, SetTo
  <2>5. InHand(p)'
    BY <1>2, <2>4, FreeHand
  <2>6. QED
    BY <1>1, <1>2, <2>1, <2>2, <2>4, <2>5, QuietSafe
<1>5. ASSUME NEW b \in todo, ReconcileRestore(b) PROVE SafeInv'
  <2>1. /\ proc[p].pc = "rec" /\ ~IsBackupWork(b) /\ todo' = todo \ {b}
        /\ Complete(b, "FAILED") /\ UNCHANGED <<repo, outbox, active, proc, clean, faults>>
        /\ b \in Attempts /\ att[b] # "none"
    BY <1>3, <1>5 DEF ReconcileRestore
  <2>2. Becomes(p, "rec", proc[p].a, proc[p].res)
    BY <1>1, <1>2, <2>1, Unmoved
  <2>3. InHand(p)'
    BY <1>2, <2>2, FreeHand
  <2>4. "FAILED" \in Terminal /\ todo' \subseteq Begun
    BY <1>1, <2>1 DEF Terminal
  <2>5. QED
    BY <1>1, <1>2, <2>1, <2>2, <2>3, <2>4, CompleteSafe
<1>6. ASSUME NEW b \in todo, ReconcileMark(b) PROVE SafeInv'
  <2>1. /\ proc[p].pc = "rec" /\ IsBackupWork(b) /\ todo' = todo \ {b}
        /\ att' = [att EXCEPT ![b] = "RECONCILING"]
        /\ proc' = [proc EXCEPT ![p].pc = "look", ![p].a = b]
        /\ UNCHANGED <<job, repo, outbox, active, clean, faults>>
        /\ b \in Attempts /\ att[b] # "none"
    BY <1>3, <1>6 DEF ReconcileMark
  <2>2. Becomes(p, "look", b, proc[p].res)
    BY <1>1, <1>2, <2>1, SetAttempt DEF Steps
  <2>3. "RECONCILING" \in Phases /\ todo' \subseteq Begun
    BY <1>1, <2>1 DEF Phases
  <2>4. att'[b] = "RECONCILING"
    BY <1>1, <2>1, <2>3, PhaseFacts
  <2>5. InHand(p)'
    BY <1>2, <2>1, <2>2, <2>4 DEF InHand, Becomes, Working
  <2>6. QED
    BY <1>2, <2>1, <2>2, <2>3, <2>5, PhaseSafe
<1>7. CASE ReconcileLook
  <2>1. /\ proc[p].pc = "look" /\ UNCHANGED <<job, att, repo, outbox, active, todo, clean, faults>>
        /\ proc' = [proc EXCEPT ![p].pc = "settle", ![p].res = Found(a)]
    BY <1>7 DEF ReconcileLook
  <2>2. Found(a) \in {"PARTIAL", "FAILED"} /\ Found(a) \in Terminal
    BY DEF Found, Terminal
  <2>3. Becomes(p, "settle", a, Found(a))
    BY <1>1, <1>2, <2>1, <2>2, SetRes DEF Steps
  <2>4. InHand(p)'
    BY <1>2, <2>1, <2>2, <2>3 DEF InHand, Becomes, Working
  <2>5. QED
    BY <1>1, <1>2, <2>1, <2>3, <2>4, QuietSafe
<1>8. CASE ReconcileSettle
  <2>1. /\ proc[p].pc = "settle" /\ Complete(a, proc[p].res)
        /\ proc' = [proc EXCEPT ![p] = [Idle EXCEPT !.pc = "rec"]]
        /\ UNCHANGED <<repo, outbox, active, todo, clean, faults>>
    BY <1>8 DEF ReconcileSettle
  <2>2. a \in Attempts /\ att[a] # "none" /\ proc[p].res \in {"PARTIAL", "FAILED"}
    BY <1>2, <2>1 DEF InHand
  <2> DEFINE r == [Idle EXCEPT !.pc = "rec"]
  <2>3. r \in ProcType /\ r.pc = "rec" /\ proc' = [proc EXCEPT ![p] = r]
    BY <2>1, IdleType DEF Steps
  <2> HIDE DEF r
  <2>4. Becomes(p, "rec", r.a, r.res)
    BY <1>1, <1>2, <2>3, SetTo
  <2>5. InHand(p)'
    BY <1>2, <2>4, FreeHand
  <2>6. proc[p].res \in Terminal /\ proc[p].res # "SUCCEEDED"
    BY <2>2 DEF Terminal
  <2>7. QED
    BY <1>1, <1>2, <2>1, <2>2, <2>4, <2>5, <2>6, CompleteSafe
<1>9. CASE ReconcileDone
  <2>1. /\ proc' = [proc EXCEPT ![p].pc = "decide"]
        /\ UNCHANGED <<job, att, repo, outbox, active, todo, clean, faults>>
    BY <1>9 DEF ReconcileDone
  <2>2. Becomes(p, "decide", proc[p].a, proc[p].res)
    BY <1>1, <1>2, <2>1, SetPc DEF Steps
  <2>3. InHand(p)'
    BY <1>2, <2>2, FreeHand
  <2>4. QED
    BY <1>1, <1>2, <2>1, <2>2, <2>3, QuietSafe
<1>10. CASE Skip \/ ReconcileError
  <2>1. /\ proc' = [proc EXCEPT ![p] = Idle] /\ (todo' = {} \/ todo' = todo)
        /\ UNCHANGED <<job, att, repo, outbox, active, clean>>
    BY <1>10 DEF Skip, ReconcileError
  <2>2. faults' \in 0..MaxFaults
    BY <1>1, <1>10, JobAssumption DEF Skip, ReconcileError
  <2>3. Becomes(p, "idle", Idle.a, Idle.res)
    BY <1>1, <1>2, <2>1, IdleType, SetTo
  <2>4. InHand(p)'
    BY <1>2, <2>3, FreeHand
  <2>5. todo' \subseteq Begun
    BY <1>1, <2>1
  <2>6. QED
    BY <1>1, <1>2, <2>1, <2>2, <2>3, <2>4, <2>5, QuietSafe
<1>11. QED
  BY <1>4, <1>5, <1>6, <1>7, <1>8, <1>9, <1>10 DEF Reconcile

\* A failed journal call of an operation, which may turn a success into a
\* partial result but never the other way.
LEMMA JournalErrorSafe ==
    ASSUME SafeInv, NEW p \in Procs, JournalError(p)
    PROVE  SafeInv'
<1> DEFINE a == proc[p].a
<1>1. /\ TypeOK /\ ProcShape /\ todo \subseteq Begun
      /\ repo \subseteq Attempts /\ clean \subseteq Attempts /\ active \in BOOLEAN
      /\ outbox \subseteq Attempts \X Terminal /\ faults \in 0..MaxFaults
      /\ att \in AttType /\ job \in JobType
  BY Rest
<1>2. /\ faults' = faults + 1 /\ faults < MaxFaults
      /\ proc' = [proc EXCEPT ![p] = After(p, a[1])] /\ active' = FALSE
      /\ UNCHANGED <<repo, outbox, todo, clean>>
      /\ proc[p].pc \in {"prep", "finish", "report"}
  BY DEF JournalError
<1>3. a \in Attempts /\ att[a] # "none"
  BY <1>2, Started DEF Working
<1>4. faults' \in 0..MaxFaults
  BY <1>1, <1>2, JobAssumption
<1>5. Becomes(p, After(p, a[1]).pc, After(p, a[1]).a, After(p, a[1]).res)
  BY <1>1, <1>2, AfterType, SetTo
<1>6. InHand(p)'
  BY <1>5, AfterType, FreeHand
<1>7. CASE Complete(a, "PARTIAL")
  <2>1. "PARTIAL" \in Terminal
    BY DEF Terminal
  <2>2. QED
    BY <1>1, <1>2, <1>3, <1>4, <1>5, <1>6, <1>7, <2>1, CompleteSafe
<1>8. CASE UNCHANGED <<job, att>>
  BY <1>1, <1>2, <1>4, <1>5, <1>6, <1>8, QuietSafe
<1>9. QED
  BY <1>7, <1>8 DEF JournalError

\* A stop of the agent: nobody has anything in hand, the journal is as it was.
LEMMA CrashSafe == SafeInv /\ Crash => SafeInv'
<1> SUFFICES ASSUME SafeInv, Crash PROVE SafeInv'
  OBVIOUS
<1>1. /\ proc' = [p \in Procs |-> Idle] /\ active' = FALSE /\ todo' = {}
      /\ faults' = faults + 1 /\ faults < MaxFaults
      /\ UNCHANGED <<job, att, repo, outbox, clean>>
  BY DEF Crash
<1>2. TypeOK'
  <2>1. proc' \in [Procs -> ProcType]
    BY <1>1, IdleType
  <2>2. faults' \in 0..MaxFaults
    BY <1>1, Rest, JobAssumption
  <2>3. UNCHANGED <<job, att, repo, outbox, clean>> /\ active' \in BOOLEAN /\ todo' = {}
    BY <1>1
  <2>4. QED
    BY <2>1, <2>2, <2>3 DEF SafeInv, TypeOK
<1>3. ProcShape'
  BY <1>1, IdleType DEF ProcShape, InHand, Working
<1>4. TriedShape' /\ GreenIsClean'
  BY <1>1 DEF SafeInv, TriedShape, GreenIsClean, Tried
<1>5. QED
  BY <1>2, <1>3, <1>4 DEF SafeInv

LEMMA InitSafe == Init => SafeInv
<1> SUFFICES ASSUME Init PROVE SafeInv
  OBVIOUS
<1>1. TypeOK
  <2>1. proc \in [Procs -> ProcType]
    BY IdleType DEF Init
  <2>2. faults \in 0..MaxFaults
    BY JobAssumption DEF Init
  <2>3. /\ job \in [Jobs -> {"none", "ACTIVE"} \cup Terminal] /\ att \in [Attempts -> Phases]
        /\ repo = {} /\ outbox = {} /\ active \in BOOLEAN /\ todo = {} /\ clean = {}
    BY DEF Init, Phases
  <2>4. QED
    BY <2>1, <2>2, <2>3 DEF TypeOK
<1>2. ProcShape
  BY IdleType DEF Init, ProcShape, InHand, Working
<1>3. \A j \in Jobs, n \in 1..(MaxAttempts + 1) : att[<<j, n>>] = "none"
  BY DEF Init, Attempts
<1>4. \A j \in Jobs : Tried(j) = {} /\ job[j] = "none"
  BY <1>3 DEF Init, Tried
<1>5. TriedShape
  <2>1. 0 \in 0..MaxAttempts /\ 1..0 = {}
    BY JobAssumption
  <2>2. QED
    BY <1>4, <2>1 DEF TriedShape
<1>6. GreenIsClean
  BY <1>4 DEF GreenIsClean
<1>7. QED
  BY <1>1, <1>2, <1>5, <1>6 DEF SafeInv

LEMMA NextSafe == SafeInv /\ [Next]_vars => SafeInv'
<1> SUFFICES ASSUME SafeInv, [Next]_vars PROVE SafeInv'
  OBVIOUS
<1>1. CASE UNCHANGED vars
  BY <1>1 DEF vars, SafeInv, TypeOK, ProcShape, InHand, Begun, TriedShape, Tried, GreenIsClean
<1>2. ASSUME NEW p \in Procs, Operation(p) \/ Publish(p) \/ Cancel(p) PROVE SafeInv'
  BY <1>2, OperationSafe
<1>3. ASSUME NEW p \in Procs, JournalError(p) PROVE SafeInv'
  BY <1>3, JournalErrorSafe
<1>4. ASSUME NEW p \in Procs, NEW j \in Jobs, Start(p, j) PROVE SafeInv'
  BY <1>4, StartSafe
<1>5. CASE Reconcile \/ Skip \/ ReconcileError
  BY <1>5, TickSafe
<1>6. CASE Crash
  BY <1>6, CrashSafe
<1>7. QED
  BY <1>1, <1>2, <1>3, <1>4, <1>5, <1>6 DEF Next

\* SafeInv is an invariant: see the lemmas of its steps.
THEOREM Safe == Spec => []SafeInv
<1>1. QED
  BY InitSafe, NextSafe, PTL DEF Spec

\* Every variable keeps its type.
THEOREM JobsTypeCorrect == Spec => []TypeOK
<1>1. SafeInv => TypeOK
  BY DEF SafeInv
<1>2. QED
  BY Safe, <1>1, PTL

\* service.go, Backup, evaluateBackup and Reconcile: whatever is interrupted,
\* cancelled, refused by the journal or found by its tag afterwards, a backup
\* job is green only if one of its attempts ran to a clean end.
THEOREM OnlyCleanIsGreen == Spec => []GreenIsClean
<1>1. SafeInv => GreenIsClean
  BY DEF SafeInv
<1>2. QED
  BY Safe, <1>1, PTL

\* scheduler.go, Decide, and BeginAttempt: no history of stops and failures
\* lets a slot be tried more often than its policy allows.
THEOREM BudgetKept == Spec => []RetriesBounded
<1>1. SafeInv => RetriesBounded
  BY JobAssumption DEF SafeInv, TriedShape, RetriesBounded
<1>2. QED
  BY Safe, <1>1, PTL

-----------------------------------------------------------------------------
(* The jobs of the service loop: a job mirrors its latest attempt.         *)

\* A green job of the service loop stays green in this step.
GreenKept ==
    \A j \in Jobs : ProcOf[j] = "main" /\ job[j] = "SUCCEEDED" => job'[j] = "SUCCEEDED"

LEMMA TriedRange ==
    ASSUME NEW j \in Jobs
    PROVE  /\ \A n \in Tried(j) : n \in Nat /\ <<j, n>> \in Attempts
           /\ \A n \in 1..(MaxAttempts + 1) : <<j, n>> \in Attempts
BY JobAssumption DEF Tried, Attempts

\* An unfinished attempt is its job's latest, and its job is active.
LEMMA UnfinishedActive ==
    ASSUME TypeOK, TriedShape, OwnTable, NEW b \in Attempts, Own(b),
           att[b] # "none", att[b] \notin Terminal
    PROVE  /\ job[b[1]] = "ACTIVE"
           /\ \A m \in Tried(b[1]) : m <= b[2]
<1>1. b[1] \in Jobs /\ b[2] \in Tried(b[1]) /\ b = <<b[1], b[2]>> /\ job[b[1]] # "none"
  BY Began
<1>2. PICK n \in Tried(b[1]) :
         /\ \A m \in Tried(b[1]) : m <= n
         /\ IF job[b[1]] = "ACTIVE" THEN att[<<b[1], n>>] \notin Terminal
                                   ELSE job[b[1]] = att[<<b[1], n>>]
  BY <1>1 DEF OwnTable, JobMirrorsAttempt, Own
<1>3. ~(b[2] < n)
  BY <1>1 DEF OwnTable, OwnPast, Own
<1>4. b[2] \in Nat /\ n \in Nat /\ b[2] <= n
  BY <1>1, <1>2, TriedRange
<1>5. b[2] = n
  BY <1>3, <1>4
<1>6. job[b[1]] \in {"none", "ACTIVE"} \cup Terminal
  BY <1>1 DEF TypeOK
<1>7. job[b[1]] = "ACTIVE"
  BY <1>1, <1>2, <1>5, <1>6
<1>8. QED
  BY <1>2, <1>5, <1>7

\* A step that leaves the service loop's rows alone.
LEMMA TableSame ==
    ASSUME OwnTable,
           \A b \in Attempts : Own(b) => att'[b] = att[b],
           \A j \in Jobs : ProcOf[j] = "main" => job'[j] = job[j],
           \A b \in Attempts, r \in Terminal :
              Own(b) /\ <<b, r>> \in outbox' => <<b, r>> \in outbox
    PROVE  OwnTable' /\ GreenKept
<1>1. ASSUME NEW j \in Jobs, ProcOf[j] = "main"
      PROVE  /\ \A n \in 1..(MaxAttempts + 1) : att'[<<j, n>>] = att[<<j, n>>]
             /\ Tried(j)' = Tried(j)
  <2>1. \A n \in 1..(MaxAttempts + 1) : <<j, n>> \in Attempts /\ Own(<<j, n>>)
    BY <1>1, TriedRange DEF Own
  <2>2. QED
    BY <2>1 DEF Tried
<1>2. \A j \in Jobs : \A n \in Tried(j) : n \in 1..(MaxAttempts + 1)
  BY DEF Tried
<1>3. OwnPast'
  BY <1>1, <1>2 DEF OwnTable, OwnPast
<1>4. JobMirrorsAttempt'
  <2> SUFFICES ASSUME NEW j \in Jobs, ProcOf[j] = "main", job'[j] # "none"
               PROVE  \E n \in Tried(j)' :
                         /\ \A m \in Tried(j)' : m <= n
                         /\ IF job'[j] = "ACTIVE" THEN att'[<<j, n>>] \notin Terminal
                                                 ELSE job'[j] = att'[<<j, n>>]
    BY DEF JobMirrorsAttempt
  <2>1. PICK n \in Tried(j) :
           /\ \A m \in Tried(j) : m <= n
           /\ IF job[j] = "ACTIVE" THEN att[<<j, n>>] \notin Terminal
                                  ELSE job[j] = att[<<j, n>>]
    BY DEF OwnTable, JobMirrorsAttempt
  <2>2. n \in Tried(j)' /\ att'[<<j, n>>] = att[<<j, n>>] /\ job'[j] = job[j]
        /\ Tried(j)' = Tried(j)
    BY <1>1, <1>2
  <2>3. QED
    BY <2>1, <2>2
<1>5. ReportsMatchJournal'
  BY DEF OwnTable, ReportsMatchJournal, Own
<1>6. QED
  BY <1>3, <1>4, <1>5 DEF OwnTable, GreenKept

\* A step that changes one unfinished attempt of the service loop, and with
\* a terminal result its job.
LEMMA TableOne ==
    ASSUME TypeOK, TriedShape, OwnTable, NEW b \in Attempts, Own(b),
           att[b] # "none", att[b] \notin Terminal,
           NEW v, v # "none", att'[b] = v,
           \A d \in Attempts : d # b => att'[d] = att[d],
           job'[b[1]] = IF v \in Terminal THEN v ELSE "ACTIVE",
           \A j \in Jobs : j # b[1] => job'[j] = job[j],
           outbox' = outbox
    PROVE  OwnTable' /\ GreenKept
<1>1. b[1] \in Jobs /\ b[2] \in Tried(b[1]) /\ b = <<b[1], b[2]>> /\ job[b[1]] = "ACTIVE"
      /\ \A m \in Tried(b[1]) : m <= b[2]
  BY Began, UnfinishedActive
<1>2. \A j \in Jobs : Tried(j)' = Tried(j)
  <2>1. \A d \in Attempts : att'[d] = "none" <=> att[d] = "none"
    OBVIOUS
  <2>2. QED
    BY <2>1, TriedRange DEF Tried
<1>3. OwnPast'
  <2> SUFFICES ASSUME NEW j \in Jobs, ProcOf[j] = "main", NEW n \in Tried(j),
                      NEW m \in Tried(j), n < m
               PROVE  att'[<<j, n>>] \in Terminal
    BY <1>2 DEF OwnPast
  <2>1. att[<<j, n>>] \in Terminal /\ <<j, n>> \in Attempts
    BY TriedRange DEF OwnTable, OwnPast
  <2>2. <<j, n>> # b
    BY <2>1
  <2>3. QED
    BY <2>1, <2>2
<1>4. JobMirrorsAttempt'
  <2> SUFFICES ASSUME NEW j \in Jobs, ProcOf[j] = "main", job'[j] # "none"
               PROVE  \E n \in Tried(j) :
                         /\ \A m \in Tried(j) : m <= n
                         /\ IF job'[j] = "ACTIVE" THEN att'[<<j, n>>] \notin Terminal
                                                 ELSE job'[j] = att'[<<j, n>>]
    BY <1>2 DEF JobMirrorsAttempt
  <2>1. CASE j = b[1]
    <3>1. "ACTIVE" \notin Terminal
      BY DEF Terminal
    <3>2. IF job'[j] = "ACTIVE" THEN att'[b] \notin Terminal ELSE job'[j] = att'[b]
      BY <2>1, <3>1
    <3>3. QED
      BY <1>1, <2>1, <3>2
  <2>2. CASE j # b[1]
    <3>1. PICK n \in Tried(j) :
             /\ \A m \in Tried(j) : m <= n
             /\ IF job[j] = "ACTIVE" THEN att[<<j, n>>] \notin Terminal
                                    ELSE job[j] = att[<<j, n>>]
      BY <2>2 DEF OwnTable, JobMirrorsAttempt
    <3>2. <<j, n>> \in Attempts /\ <<j, n>> # b
      BY <1>1, <2>2, TriedRange
    <3>3. QED
      BY <2>2, <3>1, <3>2
  <2>3. QED
    BY <2>1, <2>2
<1>5. ReportsMatchJournal'
  BY DEF OwnTable, ReportsMatchJournal
<1>6. GreenKept
  BY <1>1 DEF GreenKept
<1>7. QED
  BY <1>3, <1>4, <1>5, <1>6 DEF OwnTable

LEMMA TablePhase ==
    ASSUME TypeOK, TriedShape, OwnTable, NEW b \in Attempts, Own(b),
           att[b] # "none", att[b] \notin Terminal,
           NEW ph \in {"BACKING_UP", "RECONCILING"}, att' = [att EXCEPT ![b] = ph],
           job' = job, outbox' = outbox
    PROVE  OwnTable' /\ GreenKept
<1>1. ph \in Phases /\ ph # "none" /\ ph \notin Terminal
  BY DEF Phases, Terminal
<1>2. att'[b] = ph /\ \A d \in Attempts : d # b => att'[d] = att[d]
  BY <1>1, PhaseFacts
<1>3. job[b[1]] = "ACTIVE"
  BY UnfinishedActive
<1>4. QED
  BY <1>1, <1>2, <1>3, TableOne

LEMMA TableComplete ==
    ASSUME TypeOK, TriedShape, OwnTable, NEW b \in Attempts, Own(b),
           att[b] # "none", att[b] \notin Terminal,
           NEW r \in Terminal, Complete(b, r), outbox' = outbox
    PROVE  OwnTable' /\ GreenKept
<1>1. /\ att'[b] = r
      /\ \A d \in Attempts : d # b => att'[d] = att[d]
      /\ job'[b[1]] = r
      /\ \A j \in Jobs : j # b[1] => job'[j] = job[j]
  BY CompleteFacts
<1>2. r # "none"
  BY DEF Terminal
<1>3. QED
  BY <1>1, <1>2, TableOne

\* A new attempt of the service loop: the ones before it have ended.
LEMMA TableStart ==
    ASSUME TypeOK, TriedShape, OwnTable, NEW p \in Procs, NEW j \in Jobs, Start(p, j)
    PROVE  OwnTable' /\ GreenKept
<1>k. PICK k \in 0..(MaxAttempts - 1) : Follows(p, j, k)
  BY StartFacts
<1>1. /\ Tried(j) = 1..k /\ (job[j] = "none" <=> k = 0)
      /\ job[j] \notin {"SUCCEEDED", "ACTIVE"} /\ ProcOf[j] = p
      /\ Begin(<<j, k + 1>>) /\ <<j, k + 1>> \in Attempts
  BY <1>k DEF Follows
<1> DEFINE b == <<j, k + 1>>
<1>2. /\ att'[b] = "PREPARING" /\ att[b] = "none"
      /\ \A d \in Attempts : d # b => att'[d] = att[d]
      /\ job'[j] = "ACTIVE" /\ \A i \in Jobs : i # j => job'[i] = job[i]
      /\ Tried(j)' = 1..(k + 1) /\ \A i \in Jobs : i # j => Tried(i)' = Tried(i)
  BY <1>1, BeginFacts
<1>3. outbox' = outbox
  BY DEF Start
<1>4. k \in Nat /\ b \in Attempts
  BY <1>1, JobAssumption
<1>5. "PREPARING" \notin Terminal /\ "none" \notin Terminal
  BY DEF Terminal
<1> HIDE DEF b
<1>6. \A i \in Jobs, n \in Nat : i # j \/ n # k + 1 => <<i, n>> # b
  BY DEF b
<1>7. ProcOf[j] = "main" => \A n \in 1..k : att[<<j, n>>] \in Terminal
  <2> SUFFICES ASSUME ProcOf[j] = "main", NEW n \in 1..k PROVE att[<<j, n>>] \in Terminal
    OBVIOUS
  <2>1. job[j] # "none" /\ job[j] # "ACTIVE"
    BY <1>1, <1>4
  <2>2. PICK m \in Tried(j) : /\ \A i \in Tried(j) : i <= m
                              /\ job[j] = att[<<j, m>>]
    BY <2>1 DEF OwnTable, JobMirrorsAttempt
  <2>3. att[<<j, m>>] \in Terminal
    BY <2>1, <2>2 DEF TypeOK
  <2>4. CASE n < m
    BY <1>1, <2>2, <2>4 DEF OwnTable, OwnPast
  <2>5. CASE ~(n < m)
    <3>1. n \in Nat /\ m \in Nat /\ n <= m
      BY <1>1, <1>4, <2>2
    <3>2. n = m
      BY <2>5, <3>1
    <3>3. QED
      BY <2>3, <3>2
  <2>6. QED
    BY <2>4, <2>5
<1>8. OwnPast'
  <2> SUFFICES ASSUME NEW i \in Jobs, ProcOf[i] = "main", NEW n \in Tried(i)',
                      NEW m \in Tried(i)', n < m
               PROVE  att'[<<i, n>>] \in Terminal
    BY DEF OwnPast
  <2>1. CASE i = j
    <3>1. n \in 1..k
      BY <1>2, <1>4, <2>1
    <3>2. <<j, n>> \in Attempts /\ n # k + 1 /\ n \in Nat
      BY <1>1, <1>4, <3>1, TriedRange
    <3>3. QED
      BY <1>2, <1>6, <1>7, <2>1, <3>1, <3>2
  <2>2. CASE i # j
    <3>1. n \in Tried(i) /\ m \in Tried(i)
      BY <1>2, <2>2
    <3>2. <<i, n>> \in Attempts /\ n \in Nat
      BY <3>1, TriedRange
    <3>3. QED
      BY <1>2, <1>6, <2>2, <3>1, <3>2 DEF OwnTable, OwnPast
  <2>3. QED
    BY <2>1, <2>2
<1>9. JobMirrorsAttempt'
  <2> SUFFICES ASSUME NEW i \in Jobs, ProcOf[i] = "main", job'[i] # "none"
               PROVE  \E n \in Tried(i)' :
                         /\ \A m \in Tried(i)' : m <= n
                         /\ IF job'[i] = "ACTIVE" THEN att'[<<i, n>>] \notin Terminal
                                                 ELSE job'[i] = att'[<<i, n>>]
    BY DEF JobMirrorsAttempt
  <2>1. CASE i = j
    <3>1. k + 1 \in Tried(j)' /\ \A m \in Tried(j)' : m <= k + 1
      BY <1>2, <1>4
    <3>2. job'[j] = "ACTIVE" /\ att'[<<j, k + 1>>] \notin Terminal
      BY <1>2, <1>5 DEF b
    <3>3. QED
      BY <2>1, <3>1, <3>2
  <2>2. CASE i # j
    <3>1. PICK n \in Tried(i) :
             /\ \A m \in Tried(i) : m <= n
             /\ IF job[i] = "ACTIVE" THEN att[<<i, n>>] \notin Terminal
                                    ELSE job[i] = att[<<i, n>>]
      BY <1>2, <2>2 DEF OwnTable, JobMirrorsAttempt
    <3>2. <<i, n>> \in Attempts /\ n \in Nat
      BY TriedRange
    <3>3. att'[<<i, n>>] = att[<<i, n>>] /\ job'[i] = job[i] /\ Tried(i)' = Tried(i)
      BY <1>2, <1>6, <2>2, <3>2
    <3>4. QED
      BY <3>1, <3>3
  <2>3. QED
    BY <2>1, <2>2
<1>10. ReportsMatchJournal'
  BY <1>2, <1>3, <1>5 DEF OwnTable, ReportsMatchJournal
<1>11. GreenKept
  BY <1>1, <1>2 DEF GreenKept
<1>12. QED
  BY <1>8, <1>9, <1>10, <1>11 DEF OwnTable

-----------------------------------------------------------------------------
(* What the other goroutines leave alone.                                  *)

\* The rows, the reports and the hand of the service loop are as they were.
OwnSame ==
    /\ \A b \in Attempts : Own(b) => att'[b] = att[b]
    /\ \A j \in Jobs : ProcOf[j] = "main" => job'[j] = job[j]
    /\ \A b \in Attempts, r \in Terminal :
          Own(b) /\ <<b, r>> \in outbox' => <<b, r>> \in outbox

LEMMA HandSame ==
    ASSUME SafeInv, OwnTable, OwnHand, OwnSame, proc'["main"] = proc["main"], todo' = todo
    PROVE  OwnTable' /\ OwnHand' /\ GreenKept
<1>1. OwnTable' /\ GreenKept
  BY TableSame DEF OwnSame
<1>2. "main" \in Procs /\ todo \subseteq Attempts
  BY DEF Procs, SafeInv, TypeOK
<1>3. InHand("main")
  BY <1>2 DEF SafeInv, ProcShape
<1>4. proc["main"].pc \in Working => proc["main"].a \in Attempts /\ Own(proc["main"].a)
  BY <1>3 DEF InHand, Own
<1>5. proc["main"].pc \in {"look", "settle"} => proc["main"].a \in Attempts
  BY <1>3 DEF InHand
<1>6. OwnHand'
  <2>1. proc["main"].pc \in Working => att'[proc["main"].a] = att[proc["main"].a]
    BY <1>4 DEF OwnSame
  <2>2. \A b \in todo : Own(b) => att'[b] = att[b]
    BY <1>2 DEF OwnSame
  <2>3. proc["main"].pc \in {"look", "settle"} /\ Own(proc["main"].a) =>
           att'[proc["main"].a] = att[proc["main"].a]
    BY <1>5 DEF OwnSame
  <2>4. QED
    BY <2>1, <2>2, <2>3 DEF OwnHand, Working, Own
<1>7. QED
  BY <1>1, <1>6

LEMMA OthersLeave ==
    ASSUME SafeInv, NEW p \in Procs, p # "main",
           Operation(p) \/ Publish(p) \/ Cancel(p) \/ JournalError(p)
    PROVE  OwnSame /\ proc'["main"] = proc["main"] /\ todo' = todo
<1> DEFINE a == proc[p].a
<1>1. TypeOK /\ InHand(p)
  BY DEF SafeInv, ProcShape
<1>2. proc[p].pc \in Working => a \in Attempts /\ a[1] \in Jobs /\ ~Own(a)
  BY <1>1 DEF InHand, Own, Attempts
<1> HIDE DEF a
<1>3. proc[p].pc \in Working
  BY DEF Operation, PrepFails, Prepare, BackupEnds, RestoreEnds, Finish, Report,
         Publish, Cancel, JournalError, Working
<1>4. proc'["main"] = proc["main"]
  <2>1. proc \in [Procs -> ProcType] /\ "main" \in Procs
    BY <1>1 DEF TypeOK, Procs
  <2>2. \/ proc' = proc
        \/ \E r : proc' = [proc EXCEPT ![p] = r]
    BY DEF Operation, PrepFails, Prepare, BackupEnds, RestoreEnds, Finish, Report,
           Publish, Cancel, JournalError
  <2>3. QED
    BY <2>1, <2>2
<1>5. todo' = todo
  BY DEF Operation, PrepFails, Prepare, BackupEnds, RestoreEnds, Finish, Report,
         Publish, Cancel, JournalError
<1>6. \/ UNCHANGED <<job, att>>
      \/ job' = job /\ att' = [att EXCEPT ![a] = "BACKING_UP"]
      \/ \E r : Complete(a, r)
  BY DEF Operation, PrepFails, Prepare, BackupEnds, RestoreEnds, Finish, Report,
         Publish, Cancel, JournalError, a
<1>7. /\ \A b \in Attempts : Own(b) => att'[b] = att[b]
      /\ \A j \in Jobs : ProcOf[j] = "main" => job'[j] = job[j]
  BY <1>1, <1>2, <1>3, <1>6 DEF TypeOK, Complete, Own
<1>8. outbox' = outbox \/ outbox' = outbox \cup {<<a, proc[p].res>>}
  BY DEF Operation, PrepFails, Prepare, BackupEnds, RestoreEnds, Finish, Report,
         Publish, Cancel, JournalError, a
<1>9. QED
  BY <1>2, <1>3, <1>4, <1>5, <1>7, <1>8 DEF OwnSame

-----------------------------------------------------------------------------
(* What the service loop itself does.                                      *)

\* Outside Reconcile nothing is left to reconcile.
LEMMA HandFree ==
    ASSUME NEW c \in {"idle", "tick", "decide"}, NEW a, NEW s,
           Becomes("main", c, a, s), todo' = {}
    PROVE  OwnHand'
BY DEF OwnHand, Becomes

LEMMA OwnOperation ==
    ASSUME SafeInv, OwnTable, OwnHand,
           Operation("main") \/ Publish("main") \/ Cancel("main") \/ JournalError("main")
    PROVE  OwnTable' /\ OwnHand' /\ GreenKept
<1> DEFINE p == "main"
           a == proc["main"].a
<1>1. /\ TypeOK /\ TriedShape /\ p \in Procs
  BY DEF SafeInv, Procs
<1>2. InHand(p)
  BY <1>1 DEF SafeInv, ProcShape
<1>3. proc[p].pc \in Working
  BY DEF Operation, PrepFails, Prepare, BackupEnds, RestoreEnds, Finish, Report,
         Publish, Cancel, JournalError, Working
<1>4. a \in Attempts /\ att[a] # "none" /\ Own(a) /\ todo = {}
  BY <1>2, <1>3 DEF InHand, Own, OwnHand, Working
<1>5. todo' = {}
  BY <1>4 DEF Operation, PrepFails, Prepare, BackupEnds, RestoreEnds, Finish, Report,
              Publish, Cancel, JournalError
<1>6. proc[p].pc \in {"prep", "engine", "finish"} => att[a] \notin Terminal
  BY DEF OwnHand
<1>7. ASSUME NEW c, NEW s, Becomes(p, c, a, s), c \in {"prep", "engine", "finish"},
             att'[a] \notin Terminal
      PROVE  OwnHand'
  BY <1>5, <1>7 DEF OwnHand, Becomes
<1>8. ASSUME proc' = [proc EXCEPT ![p] = After(p, a[1])]
      PROVE  OwnHand'
  <2>1. Becomes(p, After(p, a[1]).pc, After(p, a[1]).a, After(p, a[1]).res)
    BY <1>1, <1>8, AfterType, SetTo
  <2>2. QED
    BY <1>5, <2>1, AfterType, HandFree
<1>9. ASSUME job' = job, att' = att, outbox' = outbox
      PROVE  OwnTable' /\ GreenKept
  BY <1>9, TableSame
<1> HIDE DEF a
<1>10. CASE PrepFails(p)
  <2>1. /\ proc[p].pc = "prep" /\ UNCHANGED <<job, att, outbox>>
        /\ proc' = [proc EXCEPT ![p].pc = "finish", ![p].res = "FAILED"]
    BY <1>10 DEF PrepFails
  <2>2. Becomes(p, "finish", a, "FAILED")
    BY <1>1, <2>1, SetRes DEF Steps, Terminal, a
  <2>3. QED
    BY <1>6, <1>7, <1>9, <2>1, <2>2
<1>11. CASE Prepare(p)
  <2>1. proc[p].pc = "prep" /\ UNCHANGED <<job, outbox>>
    BY <1>11 DEF Prepare
  <2>2. CASE IsBackupWork(a) /\ proc[p].cut
    <3>1. proc' = [proc EXCEPT ![p] = After(p, a[1])] /\ UNCHANGED att
      BY <1>11, <2>2 DEF Prepare, a
    <3>2. QED
      BY <1>8, <1>9, <2>1, <3>1
  <2>3. CASE ~(IsBackupWork(a) /\ proc[p].cut)
    <3>1. /\ proc' = [proc EXCEPT ![p].pc = "engine"]
          /\ att' = IF IsBackupWork(a) THEN [att EXCEPT ![a] = "BACKING_UP"] ELSE att
      BY <1>11, <2>3 DEF Prepare, a
    <3>2. Becomes(p, "engine", a, proc[p].res)
      BY <1>1, <3>1, SetPc DEF Steps, a
    <3>3. CASE IsBackupWork(a)
      <4>1. att' = [att EXCEPT ![a] = "BACKING_UP"]
        BY <3>1, <3>3
      <4>2. "BACKING_UP" \in Phases /\ "BACKING_UP" \notin Terminal
        BY DEF Phases, Terminal
      <4>3. att'[a] \notin Terminal
        BY <1>1, <1>4, <4>1, <4>2, PhaseFacts
      <4>4. OwnTable' /\ GreenKept
        BY <1>1, <1>4, <1>6, <2>1, <4>1, TablePhase
      <4>5. QED
        BY <1>7, <3>2, <4>3, <4>4
    <3>4. CASE ~IsBackupWork(a)
      BY <1>6, <1>7, <1>9, <2>1, <3>1, <3>2, <3>4
    <3>5. QED
      BY <3>3, <3>4
  <2>4. QED
    BY <2>2, <2>3
<1>12. CASE BackupEnds(p) \/ RestoreEnds(p)
  <2>1. proc[p].pc = "engine" /\ UNCHANGED <<job, att, outbox>>
    BY <1>12 DEF BackupEnds, RestoreEnds
  <2>2. PICK r \in Terminal : proc' = [proc EXCEPT ![p].pc = "finish", ![p].res = r]
    <3>1. CASE BackupEnds(p)
      <4>1. PICK x \in Ends(a) :
               proc' = [proc EXCEPT ![p].pc = "finish", ![p].res = Result(x, proc[p].cut)]
        BY <3>1 DEF BackupEnds, a
      <4>2. proc[p].cut \in BOOLEAN
        BY <1>1 DEF TypeOK, ProcType
      <4>3. QED
        BY <4>1, <4>2, ResultFacts
    <3>2. CASE RestoreEnds(p)
      BY <3>2 DEF RestoreEnds, Terminal
    <3>3. QED
      BY <1>12, <3>1, <3>2
  <2>3. Becomes(p, "finish", a, r)
    BY <1>1, <2>2, SetRes DEF Steps, a
  <2>4. QED
    BY <1>6, <1>7, <1>9, <2>1, <2>3
<1>13. CASE Finish(p)
  <2>1. proc[p].pc = "finish" /\ Complete(a, proc[p].res) /\ outbox' = outbox
    BY <1>13 DEF Finish, a
  <2>2. proc[p].res \in Terminal
    BY <1>2, <2>1 DEF InHand
  <2>3. OwnTable' /\ GreenKept
    BY <1>1, <1>4, <1>6, <2>1, <2>2, TableComplete
  <2>4. CASE IsBackupWork(a)
    <3>1. proc' = [proc EXCEPT ![p].pc = "report"]
      BY <1>13, <2>4 DEF Finish, a
    <3>2. Becomes(p, "report", a, proc[p].res)
      BY <1>1, <3>1, SetPc DEF Steps, a
    <3>3. att'[a] = proc[p].res
      BY <1>1, <1>4, <2>1, <2>2, CompleteFacts
    <3>4. OwnHand'
      BY <1>5, <3>2, <3>3 DEF OwnHand, Becomes
    <3>5. QED
      BY <2>3, <3>4
  <2>5. CASE ~IsBackupWork(a)
    <3>1. proc' = [proc EXCEPT ![p] = After(p, a[1])]
      BY <1>13, <2>5 DEF Finish, a
    <3>2. QED
      BY <1>8, <2>3, <3>1
  <2>6. QED
    BY <2>4, <2>5
<1>14. CASE Report(p)
  <2>1. /\ proc[p].pc = "report" /\ outbox' = outbox \cup {<<a, proc[p].res>>}
        /\ proc' = [proc EXCEPT ![p] = After(p, a[1])] /\ UNCHANGED <<job, att>>
    BY <1>14 DEF Report, a
  <2>2. att[a] = proc[p].res
    BY <2>1 DEF OwnHand, a
  <2>3. ReportsMatchJournal'
    BY <2>1, <2>2 DEF OwnTable, ReportsMatchJournal
  <2>4. OwnPast' /\ JobMirrorsAttempt' /\ GreenKept
    BY <2>1 DEF OwnTable, OwnPast, JobMirrorsAttempt, Tried, GreenKept
  <2>5. QED
    BY <1>8, <2>1, <2>3, <2>4 DEF OwnTable
<1>15. CASE Publish(p)
  <2>1. UNCHANGED <<job, att, outbox, proc, todo>>
    BY <1>15 DEF Publish
  <2>2. OwnHand'
    BY <2>1 DEF OwnHand
  <2>3. QED
    BY <1>9, <2>1, <2>2
<1>16. CASE Cancel(p)
  <2>1. /\ proc[p].pc \in {"prep", "engine"} /\ proc' = [proc EXCEPT ![p].cut = TRUE]
        /\ UNCHANGED <<job, att, outbox>>
    BY <1>16 DEF Cancel
  <2>2. Becomes(p, proc[p].pc, a, proc[p].res)
    BY <1>1, <2>1, SetCut DEF a
  <2>3. QED
    BY <1>6, <1>7, <1>9, <2>1, <2>2
<1>17. CASE JournalError(p)
  <2>1. proc' = [proc EXCEPT ![p] = After(p, a[1])] /\ outbox' = outbox
    BY <1>17 DEF JournalError, a
  <2>2. CASE UNCHANGED <<job, att>>
    BY <1>8, <1>9, <2>1, <2>2
  <2>3. CASE Complete(a, "PARTIAL") /\ proc[p].pc = "finish"
    <3>1. "PARTIAL" \in Terminal
      BY DEF Terminal
    <3>2. QED
      BY <1>1, <1>4, <1>6, <1>8, <2>1, <2>3, <3>1, TableComplete
  <2>4. QED
    BY <1>17, <2>2, <2>3 DEF JournalError, a
<1>18. QED
  BY <1>10, <1>11, <1>12, <1>13, <1>14, <1>15, <1>16, <1>17 DEF Operation

LEMMA OwnTick ==
    ASSUME SafeInv, OwnTable, OwnHand, Reconcile \/ Skip \/ ReconcileError
    PROVE  OwnTable' /\ OwnHand' /\ GreenKept
<1> DEFINE p == "main"
           a == proc["main"].a
<1>1. /\ TypeOK /\ TriedShape /\ p \in Procs /\ todo \subseteq Begun
  BY DEF SafeInv, ProcShape, Procs
<1>2. InHand(p)
  BY <1>1 DEF SafeInv, ProcShape
<1>3. \A b \in todo : b \in Attempts /\ att[b] # "none" /\ (Own(b) => att[b] \notin Terminal)
  BY <1>1 DEF Begun, OwnHand
<1>4. ASSUME job' = job, att' = att, outbox' = outbox
      PROVE  OwnTable' /\ GreenKept
  BY <1>4, TableSame
<1>5. ASSUME NEW b \in Attempts, att[b] # "none", Own(b) => att[b] \notin Terminal,
             NEW r \in Terminal, Complete(b, r), outbox' = outbox
      PROVE  /\ OwnTable' /\ GreenKept
             /\ \A d \in Attempts : d # b => att'[d] = att[d]
  <2>1. /\ \A d \in Attempts : d # b => att'[d] = att[d]
        /\ \A j \in Jobs : j # b[1] => job'[j] = job[j]
    BY <1>1, <1>5, CompleteFacts
  <2>2. CASE Own(b)
    BY <1>1, <1>5, <2>1, <2>2, TableComplete
  <2>3. CASE ~Own(b)
    <3>1. \A j \in Jobs : ProcOf[j] = "main" => j # b[1]
      BY <2>3 DEF Own
    <3>2. \A d \in Attempts : Own(d) => d # b
      BY <2>3
    <3>3. QED
      BY <1>5, <2>1, <3>1, <3>2, TableSame
  <2>4. QED
    BY <2>2, <2>3
<1> HIDE DEF a
<1>6. CASE ReconcileRead
  <2>1. /\ todo' = Incomplete /\ proc' = [proc EXCEPT ![p] = [Idle EXCEPT !.pc = "rec"]]
        /\ UNCHANGED <<job, att, outbox>>
    BY <1>6 DEF ReconcileRead
  <2> DEFINE r == [Idle EXCEPT !.pc = "rec"]
  <2>2. r \in ProcType /\ r.pc = "rec" /\ proc' = [proc EXCEPT ![p] = r]
    BY <2>1, IdleType DEF Steps
  <2> HIDE DEF r
  <2>3. Becomes(p, "rec", r.a, r.res)
    BY <1>1, <2>2, SetTo
  <2>4. \A b \in todo' : att'[b] \notin Terminal
    BY <2>1 DEF Incomplete
  <2>5. OwnHand'
    BY <2>3, <2>4 DEF OwnHand, Becomes
  <2>6. QED
    BY <1>4, <2>1, <2>5
<1>7. ASSUME NEW b \in todo, ReconcileRestore(b) PROVE OwnTable' /\ OwnHand' /\ GreenKept
  <2>1. /\ proc[p].pc = "rec" /\ todo' = todo \ {b} /\ Complete(b, "FAILED")
        /\ UNCHANGED <<outbox, proc>> /\ b \in Attempts /\ att[b] # "none"
    BY <1>3, <1>7 DEF ReconcileRestore
  <2>2. "FAILED" \in Terminal
    BY DEF Terminal
  <2>3. /\ OwnTable' /\ GreenKept
        /\ \A d \in Attempts : d # b => att'[d] = att[d]
    BY <1>3, <1>5, <2>1, <2>2
  <2>4. \A d \in todo' : Own(d) => att'[d] \notin Terminal
    BY <1>3, <2>1, <2>3
  <2>5. OwnHand'
    BY <2>1, <2>4 DEF OwnHand, Own
  <2>6. QED
    BY <2>3, <2>5
<1>8. ASSUME NEW b \in todo, ReconcileMark(b) PROVE OwnTable' /\ OwnHand' /\ GreenKept
  <2>1. /\ todo' = todo \ {b} /\ att' = [att EXCEPT ![b] = "RECONCILING"]
        /\ proc' = [proc EXCEPT ![p].pc = "look", ![p].a = b]
        /\ UNCHANGED <<job, outbox>> /\ b \in Attempts /\ att[b] # "none"
    BY <1>3, <1>8 DEF ReconcileMark
  <2>2. Becomes(p, "look", b, proc[p].res)
    BY <1>1, <2>1, SetAttempt DEF Steps
  <2>3. "RECONCILING" \in Phases /\ "RECONCILING" \notin Terminal
    BY DEF Phases, Terminal
  <2>4. att'[b] = "RECONCILING" /\ \A d \in Attempts : d # b => att'[d] = att[d]
    BY <1>1, <2>1, <2>3, PhaseFacts
  <2>5. OwnTable' /\ GreenKept
    <3>1. CASE Own(b)
      BY <1>1, <1>3, <2>1, <3>1, TablePhase
    <3>2. CASE ~Own(b)
      <4>1. \A d \in Attempts : Own(d) => att'[d] = att[d]
        BY <2>4, <3>2
      <4>2. QED
        BY <2>1, <4>1, TableSame
    <3>3. QED
      BY <3>1, <3>2
  <2>6. \A d \in todo' : Own(d) => att'[d] \notin Terminal
    BY <1>3, <2>1, <2>4
  <2>7. OwnHand'
    BY <2>1, <2>2, <2>3, <2>4, <2>6 DEF OwnHand, Becomes, Own
  <2>8. QED
    BY <2>5, <2>7
<1>9. CASE ReconcileLook
  <2>1. /\ proc[p].pc = "look" /\ UNCHANGED <<job, att, outbox, todo>>
        /\ proc' = [proc EXCEPT ![p].pc = "settle", ![p].res = Found(a)]
    BY <1>9 DEF ReconcileLook, a
  <2>2. Found(a) \in Terminal
    BY DEF Found, Terminal
  <2>3. Becomes(p, "settle", a, Found(a))
    BY <1>1, <2>1, <2>2, SetRes DEF Steps, a
  <2>4. OwnHand'
    BY <2>1, <2>3 DEF OwnHand, Becomes, Own, a
  <2>5. QED
    BY <1>4, <2>1, <2>4
<1>10. CASE ReconcileSettle
  <2>1. /\ proc[p].pc = "settle" /\ Complete(a, proc[p].res)
        /\ proc' = [proc EXCEPT ![p] = [Idle EXCEPT !.pc = "rec"]]
        /\ UNCHANGED <<outbox, todo>>
    BY <1>10 DEF ReconcileSettle, a
  <2>2. /\ a \in Attempts /\ att[a] # "none" /\ proc[p].res \in {"PARTIAL", "FAILED"}
        /\ a \notin todo /\ (Own(a) => att[a] \notin Terminal)
    BY <1>2, <2>1 DEF InHand, OwnHand, Own, a
  <2> DEFINE r == [Idle EXCEPT !.pc = "rec"]
  <2>3. r \in ProcType /\ r.pc = "rec" /\ proc' = [proc EXCEPT ![p] = r]
    BY <2>1, IdleType DEF Steps
  <2> HIDE DEF r
  <2>4. Becomes(p, "rec", r.a, r.res)
    BY <1>1, <2>3, SetTo
  <2>5. proc[p].res \in Terminal
    BY <2>2 DEF Terminal
  <2>6. /\ OwnTable' /\ GreenKept
        /\ \A d \in Attempts : d # a => att'[d] = att[d]
    BY <1>5, <2>1, <2>2, <2>5
  <2>7. \A d \in todo' : Own(d) => att'[d] \notin Terminal
    BY <1>3, <2>1, <2>2, <2>6
  <2>8. OwnHand'
    BY <2>4, <2>7 DEF OwnHand, Becomes, Own
  <2>9. QED
    BY <2>6, <2>8
<1>11. CASE ReconcileDone
  <2>1. /\ proc' = [proc EXCEPT ![p].pc = "decide"] /\ todo' = {}
        /\ UNCHANGED <<job, att, outbox>>
    BY <1>11 DEF ReconcileDone
  <2>2. Becomes(p, "decide", a, proc[p].res)
    BY <1>1, <2>1, SetPc DEF Steps, a
  <2>3. QED
    BY <1>4, <2>1, <2>2, HandFree
<1>12. CASE Skip \/ ReconcileError
  <2>1. proc' = [proc EXCEPT ![p] = Idle] /\ UNCHANGED <<job, att, outbox>>
    BY <1>12 DEF Skip, ReconcileError
  <2>2. todo' = {}
    BY <1>12 DEF Skip, ReconcileError, OwnHand
  <2>3. Becomes(p, "idle", Idle.a, Idle.res)
    BY <1>1, <2>1, IdleType, SetTo
  <2>4. QED
    BY <1>4, <2>1, <2>2, <2>3, HandFree
<1>13. QED
  BY <1>6, <1>7, <1>8, <1>9, <1>10, <1>11, <1>12 DEF Reconcile

LEMMA OwnStart ==
    ASSUME SafeInv, OwnTable, OwnHand, NEW p \in Procs, NEW j \in Jobs, Start(p, j)
    PROVE  OwnTable' /\ OwnHand' /\ GreenKept
<1>1. TypeOK /\ TriedShape /\ "main" \in Procs
  BY DEF SafeInv, Procs
<1>k. PICK k \in 0..(MaxAttempts - 1) : Follows(p, j, k)
  BY <1>1, StartFacts
<1>2. /\ Tried(j) = 1..k /\ (job[j] = "none" <=> k = 0)
      /\ job[j] \notin {"SUCCEEDED", "ACTIVE"} /\ ProcOf[j] = p
      /\ Begin(<<j, k + 1>>) /\ <<j, k + 1>> \in Attempts
      /\ proc' = [proc EXCEPT ![p] = [Idle EXCEPT !.pc = "prep", !.a = <<j, k + 1>>]]
  BY <1>k DEF Follows
<1>3. /\ att'[<<j, k + 1>>] = "PREPARING"
      /\ \A b \in Attempts : b # <<j, k + 1>> => att'[b] = att[b]
      /\ \A i \in Jobs : i # j => job'[i] = job[i]
  BY <1>1, <1>2, BeginFacts
<1>4. todo' = todo /\ outbox' = outbox
  BY DEF Start
<1>5. CASE p = "main"
  <2> DEFINE r == [Idle EXCEPT !.pc = "prep", !.a = <<j, k + 1>>]
  <2>1. r \in ProcType /\ r.pc = "prep" /\ r.a = <<j, k + 1>>
    BY <1>2 DEF Idle, ProcType, Steps
  <2>2. proc' = [proc EXCEPT ![p] = r]
    BY <1>2
  <2> HIDE DEF r
  <2>3. Becomes(p, "prep", <<j, k + 1>>, r.res)
    BY <1>1, <2>1, <2>2, SetTo
  <2>4. proc["main"].pc \in {"decide", "idle"}
    BY <1>5 DEF Start
  <2>5. todo' = {}
    BY <1>4, <2>4 DEF OwnHand
  <2>6. OwnHand'
    BY <1>3, <1>5, <2>3, <2>5 DEF OwnHand, Becomes, Terminal
  <2>7. QED
    BY <1>1, <2>6, TableStart
<1>6. CASE p # "main"
  <2>1. proc'["main"] = proc["main"]
    BY <1>1, <1>2, <1>6 DEF TypeOK
  <2>2. \A b \in Attempts : Own(b) => b # <<j, k + 1>>
    BY <1>2, <1>6 DEF Own
  <2>3. OwnSame
    BY <1>2, <1>3, <1>4, <1>6, <2>2 DEF OwnSame
  <2>4. QED
    BY <1>4, <2>1, <2>3, HandSame
<1>7. QED
  BY <1>5, <1>6

LEMMA OwnNext ==
    ASSUME SafeInv, OwnTable, OwnHand, [Next]_vars
    PROVE  OwnTable' /\ OwnHand' /\ GreenKept
<1>1. CASE UNCHANGED vars
  BY <1>1 DEF vars, OwnTable, OwnPast, JobMirrorsAttempt, ReportsMatchJournal, Tried,
              OwnHand, Own, GreenKept
<1>2. ASSUME NEW p \in Procs, Operation(p) \/ Publish(p) \/ Cancel(p) \/ JournalError(p)
      PROVE  OwnTable' /\ OwnHand' /\ GreenKept
  <2>1. CASE p = "main"
    BY <1>2, <2>1, OwnOperation
  <2>2. CASE p # "main"
    <3>1. OwnSame /\ proc'["main"] = proc["main"] /\ todo' = todo
      BY <1>2, <2>2, OthersLeave
    <3>2. QED
      BY <3>1, HandSame
  <2>3. QED
    BY <2>1, <2>2
<1>3. ASSUME NEW p \in Procs, NEW j \in Jobs, Start(p, j)
      PROVE  OwnTable' /\ OwnHand' /\ GreenKept
  BY <1>3, OwnStart
<1>4. CASE Reconcile \/ Skip \/ ReconcileError
  BY <1>4, OwnTick
<1>5. CASE Crash
  <2>1. /\ proc' = [p \in Procs |-> Idle] /\ todo' = {} /\ UNCHANGED <<job, att, outbox>>
    BY <1>5 DEF Crash
  <2>2. OwnTable' /\ GreenKept
    BY <2>1, TableSame
  <2>3. proc'["main"].pc = "idle"
    BY <2>1, IdleType DEF Procs
  <2>4. OwnHand'
    BY <2>1, <2>3 DEF OwnHand
  <2>5. QED
    BY <2>2, <2>4
<1>6. QED
  BY <1>1, <1>2, <1>3, <1>4, <1>5 DEF Next

LEMMA OwnInit == Init => OwnTable /\ OwnHand
<1> SUFFICES ASSUME Init PROVE OwnTable /\ OwnHand
  OBVIOUS
<1>1. \A j \in Jobs : Tried(j) = {} /\ job[j] = "none"
  <2>1. \A j \in Jobs, n \in 1..(MaxAttempts + 1) : att[<<j, n>>] = "none"
    BY DEF Init, Attempts
  <2>2. QED
    BY <2>1 DEF Init, Tried
<1>2. proc["main"].pc = "idle" /\ todo = {} /\ outbox = {}
  BY IdleType DEF Init, Procs
<1>3. QED
  BY <1>1, <1>2 DEF OwnTable, OwnPast, JobMirrorsAttempt, ReportsMatchJournal, OwnHand

\* JobInv is an invariant: see the lemmas of its steps.
THEOREM JobsKept == Spec => []JobInv
<1>1. Init => JobInv
  BY InitSafe, OwnInit DEF JobInv
<1>2. JobInv /\ [Next]_vars => JobInv'
  BY NextSafe, OwnNext DEF JobInv
<1>3. QED
  BY <1>1, <1>2, PTL DEF Spec

\* sqlite.go, CompleteAttempt, and service.go, Reconcile: the row of a job of
\* the service loop and the row of its latest attempt never disagree, through
\* retries, failed commits, stops and what Reconcile makes of them.
THEOREM MirrorKept == Spec => []JobMirrorsAttempt
<1>1. JobInv => JobMirrorsAttempt
  BY DEF JobInv, OwnTable
<1>2. QED
  BY JobsKept, <1>1, PTL

\* service.go, finish: a report that left the service loop is never
\* contradicted by what the journal holds later.
THEOREM ReportsKept == Spec => []ReportsMatchJournal
<1>1. JobInv => ReportsMatchJournal
  BY DEF JobInv, OwnTable
<1>2. QED
  BY JobsKept, <1>1, PTL

\* scheduler.go and service.go: once a slot is green nothing runs it again or
\* reconciles it away.
THEOREM GreenSlotKept == Spec => SlotStaysGreen
<1>1. JobInv /\ [Next]_vars =>
         [\A j \in Jobs : KindOf[j] = "slot" /\ job[j] = "SUCCEEDED"
                              => job'[j] = "SUCCEEDED"]_vars
  <2> SUFFICES ASSUME JobInv, [Next]_vars, NEW j \in Jobs,
                      KindOf[j] = "slot", job[j] = "SUCCEEDED"
               PROVE  job'[j] = "SUCCEEDED"
    OBVIOUS
  <2>1. GreenKept
    BY OwnNext DEF JobInv
  <2>2. ProcOf[j] = "main"
    BY JobAssumption
  <2>3. QED
    BY <2>1, <2>2 DEF GreenKept
<1>2. QED
  BY JobsKept, <1>1, PTL DEF Spec, SlotStaysGreen

=============================================================================
