------------------------- MODULE WanDailyProofs -------------------------
(***************************************************************************)
(* What WanAdmission keeps for every set of sites, devices and attempts,   *)
(* every limit and every lease time: the exclusivity of holds, the bound   *)
(* on leases per site, the bandwidth share of a slot, and the finality of  *)
(* a release.  And what Schedule keeps for every policy: each day that was  *)
(* not disturbed is backed up.                                             *)
(***************************************************************************)
EXTENDS WanDaily, FiniteSetTheorems, TLAPS

-----------------------------------------------------------------------------
(* Facts about the operators the actions are built from.                   *)

\* What a reap does to one row: it keeps the slot, the share and the
\* existence of the row, and opens nothing.
LEMMA ReapRowsFacts ==
    ASSUME TypeOK, NEW S \in SUBSET Attempts, \A a \in S : row[a].st # "absent",
           NEW a \in Attempts
    PROVE  LET rows == ReapRows(row, S)
           IN  /\ rows \in [Attempts -> RowType]
               /\ rows[a].slot = row[a].slot
               /\ rows[a].share = row[a].share
               /\ rows[a].st = "absent" <=> row[a].st = "absent"
               /\ Open(rows, a) => Open(row, a) /\ rows[a] = row[a]
               /\ rows[a].reason = "complete" => row[a].reason = "complete"
               /\ rows[a] # row[a] => a \in S
               /\ a \in S => rows[a].st = "released"
               /\ a \notin S => rows[a] = row[a]
<1> DEFINE rows == ReapRows(row, S)
<1>1. \A b \in Attempts : row[b] \in RowType /\ Released(row[b], "expired") \in RowType
  <2> SUFFICES ASSUME NEW b \in Attempts
               PROVE  row[b] \in RowType /\ Released(row[b], "expired") \in RowType
    OBVIOUS
  <2>1. row[b] \in RowType
    BY DEF TypeOK
  <2>2. 0 \in 0..TTL
    BY ConstantAssumption
  <2>3. QED
    BY <2>1, <2>2 DEF RowType, Released
<1>2. rows \in [Attempts -> RowType]
  BY <1>1 DEF ReapRows
<1>3. rows[a] = IF a \in S THEN Released(row[a], "expired") ELSE row[a]
  BY DEF ReapRows
<1>4. row[a] \in RowType
  BY <1>1
<1>5. QED
  BY <1>2, <1>3, <1>4 DEF Released, RowType, Open

\* The site's settings are a record whose limit is a slot number.
LEMMA SiteFacts ==
    ASSUME TypeOK, NEW a \in Attempts
    PROVE  /\ Site(a) \in Sites
           /\ site[Site(a)].max \in 1..MaxSlot
           /\ peak[Site(a)] \in 1..MaxSlot
<1>1. DeviceOf[a] \in Devices /\ Site(a) \in Sites
  BY ConstantAssumption DEF Site
<1>2. site[Site(a)] \in SiteSettings
  BY <1>1, ConstantAssumption DEF TypeOK
<1>3. QED
  BY <1>1, <1>2 DEF TypeOK, SiteSettings

\* The first free slot is at most one more than the number of live leases:
\* the slots below it are all taken, each by a lease of its own.
LEMMA FirstFreeBound ==
    ASSUME NEW rows, NEW a \in Attempts, NEW k \in Nat \ {0},
           FirstFree(rows, a, k)
    PROVE  /\ Jobs(rows, a) \in Nat
           /\ k <= Jobs(rows, a)
<1> DEFINE A == ActiveAt(rows, Site(a))
           f == [i \in 1..(k - 1) |-> CHOOSE b \in A : rows[b].slot = i]
<1>1. IsFiniteSet(A) /\ Cardinality(A) \in Nat
  <2>1. A \in SUBSET Attempts
    BY DEF ActiveAt
  <2>2. QED
    BY <2>1, ConstantAssumption, FS_Subset, FS_CardinalityType
<1>2. \A i \in 1..(k - 1) : f[i] \in A /\ rows[f[i]].slot = i
  BY DEF FirstFree
<1>3. f \in [1..(k - 1) -> A]
  BY <1>2
<1>4. IsFiniteSet(1..(k - 1)) /\ Cardinality(1..(k - 1)) = k - 1
  BY FS_Interval
<1>5. ~(Cardinality(A) < Cardinality(1..(k - 1)))
  <2>1. SUFFICES ASSUME Cardinality(A) < Cardinality(1..(k - 1))
                 PROVE  FALSE
    OBVIOUS
  <2> HIDE DEF f, A
  <2>2. \E x, y \in 1..(k - 1) : x # y /\ f[x] = f[y]
    BY <1>1, <1>3, <1>4, <2>1, FS_PigeonHole
  <2>3. QED
    BY <1>2, <2>2
<1>6. QED
  BY <1>1, <1>4, <1>5 DEF Jobs

-----------------------------------------------------------------------------
(* The inductive invariant.                                                *)

LEMMA InitInv == Init => LeaseInv
<1> SUFFICES ASSUME Init PROVE LeaseInv
  OBVIOUS
<1>1. \A s \in Sites : site[s] \in SiteSettings /\ peak[s] = site[s].max
  BY ConstantAssumption DEF Init
<1>2. TypeOK
  <2>1. 0 \in 0..TTL /\ 0 \in 0..MaxSlot /\ 0 \in 0..CircuitTicks
    BY ConstantAssumption
  <2>2. Absent \in RowType /\ Quiet \in ReqType
    BY <2>1 DEF Absent, Quiet, RowType, ReqType
  <2>3. site \in [Sites -> SiteConfigs] /\ peak \in [Sites -> 1..MaxSlot]
    BY <1>1 DEF Init, SiteSettings
  <2>4. row \in [Attempts -> RowType] /\ req \in [Requests -> ReqType]
    BY <2>2 DEF Init
  <2>5. QED
    BY <2>1, <2>3, <2>4 DEF Init, TypeOK
<1>3. HoldsExclusive /\ RowShape /\ RunShape
  BY DEF Init, HoldsExclusive, RowShape, RunShape, Absent, Open
<1>4. ReqShape
  BY <1>1 DEF Init, ReqShape, Quiet, SiteSettings
<1>5. QED
  BY <1>2, <1>3, <1>4 DEF LeaseInv

\* The constants as the steps below need them.
LEMMA Zeros ==
    /\ 0 \in 0..TTL /\ TTL \in 0..TTL /\ 0 \in 0..MaxSlot
    /\ 0 \in 0..CircuitTicks /\ CircuitTicks \in 0..CircuitTicks
    /\ Handled \in ReqType /\ Handled.pc = "handled" /\ Handled.stale = {}
<1>1. /\ 0 \in 0..TTL /\ TTL \in 0..TTL /\ 0 \in 0..MaxSlot
      /\ 0 \in 0..CircuitTicks /\ CircuitTicks \in 0..CircuitTicks
  BY ConstantAssumption
<1>2. QED
  BY <1>1 DEF Handled, Quiet, ReqType

\* q[1] of a request is its attempt.
LEMMA RequestFacts == \A q \in Requests : q[1] \in Attempts
  BY ConstantAssumption DEF Requests

\* A step that opens no row, and keeps the slot, the share and the existence
\* of every row: a reap, a release, an extension, the passing of time.
RowsShrink ==
    /\ row' \in [Attempts -> RowType]
    /\ \A b \in Attempts :
          /\ row'[b].slot = row[b].slot
          /\ row'[b].share = row[b].share
          /\ row'[b].st = "absent" <=> row[b].st = "absent"
          /\ row'[b].st = "open" => row[b].st = "open"
          /\ row'[b].st # "released" => row'[b].reason = ""

\* Such a step keeps the exclusivity of holds and the shape of the rows.
LEMMA ShrinkKeeps ==
    ASSUME LeaseInv, RowsShrink, UNCHANGED peak
    PROVE  HoldsExclusive' /\ RowShape'
<1>1. HoldsExclusive'
  <2> SUFFICES ASSUME NEW a \in Attempts, NEW b \in Attempts, a # b,
                      row'[a].st = "open", row'[b].st = "open"
               PROVE  /\ DeviceOf[a] # DeviceOf[b]
                      /\ Site(a) = Site(b) => row'[a].slot # row'[b].slot
    BY DEF HoldsExclusive, Open
  <2>1. row[a].st = "open" /\ row[b].st = "open"
    BY DEF RowsShrink
  <2>2. /\ DeviceOf[a] # DeviceOf[b]
        /\ Site(a) = Site(b) => row[a].slot # row[b].slot
    BY <2>1 DEF LeaseInv, HoldsExclusive, Open
  <2>3. QED
    BY <2>2 DEF RowsShrink
<1>2. RowShape'
  BY DEF LeaseInv, RowsShrink, RowShape
<1>3. QED
  BY <1>1, <1>2

\* What the handler's reap commits is a shrinking step that gives back
\* nothing: a row with reason "complete" had it before.
LEMMA ReapShrinks ==
    ASSUME LeaseInv, NEW S \in SUBSET Attempts,
           \A b \in S : row[b].st # "absent", row' = ReapRows(row, S)
    PROVE  /\ RowsShrink
           /\ \A b \in Attempts : row'[b].reason = "complete"
                                     => row[b].reason = "complete"
<1>1. TypeOK /\ RowShape
  BY DEF LeaseInv
<1>2. row' \in [Attempts -> RowType]
  <2>1. CASE Attempts = {}
    BY <2>1 DEF ReapRows
  <2>2. CASE Attempts # {}
    <3>1. PICK b \in Attempts : TRUE
      BY <2>2
    <3>2. QED
      BY <1>1, <3>1, ReapRowsFacts
  <2>3. QED
    BY <2>1, <2>2
<1>3. ASSUME NEW b \in Attempts
      PROVE  /\ row'[b].slot = row[b].slot
             /\ row'[b].share = row[b].share
             /\ row'[b].st = "absent" <=> row[b].st = "absent"
             /\ row'[b].st = "open" => row[b].st = "open" /\ row'[b] = row[b]
             /\ row'[b].reason = "complete" => row[b].reason = "complete"
             /\ b \in S => row'[b].st = "released"
             /\ b \notin S => row'[b] = row[b]
  BY <1>1, ReapRowsFacts DEF Open
<1>4. ASSUME NEW b \in Attempts, row'[b].st # "released"
      PROVE  row'[b].reason = ""
  <2>1. row'[b] = row[b]
    BY <1>3, <1>4
  <2>2. row[b].st # "released" => row[b].reason = ""
    BY <1>1 DEF RowShape
  <2>3. QED
    BY <1>4, <2>1, <2>2
<1>5. QED
  BY <1>2, <1>3, <1>4 DEF RowsShrink

\* Replacing one request by one that is handled keeps the requests in shape.
LEMMA HandledKeeps ==
    ASSUME LeaseInv, NEW q \in Requests, req' = [req EXCEPT ![q] = Handled],
           \A b \in Attempts : row[b].st # "absent" => row'[b].st # "absent",
           UNCHANGED <<worker, site, peak>>
    PROVE  req' \in [Requests -> ReqType] /\ ReqShape'
<1>1. req' \in [Requests -> ReqType]
  BY Zeros DEF LeaseInv, TypeOK
<1>2. \A r \in Requests : req[r].stale \subseteq Attempts
  BY DEF LeaseInv, TypeOK, ReqType
<1>3. worker.stale \subseteq Attempts
  BY DEF LeaseInv, TypeOK
<1>4. ASSUME NEW r \in Requests
      PROVE  /\ req'[r].pc = "insert" => /\ req'[r].slot \in 1..peak'[Site(r[1])]
                                         /\ req'[r].share >= req'[r].slot
             /\ \A a \in req'[r].stale : row'[a].st # "absent"
  <2>1. CASE r = q
    BY <2>1, Zeros DEF LeaseInv, TypeOK
  <2>2. CASE r # q
    <3>1. req'[r] = req[r]
      BY <2>2 DEF LeaseInv, TypeOK
    <3>2. QED
      BY <3>1, <1>2 DEF LeaseInv, ReqShape
  <2>3. QED
    BY <2>1, <2>2
<1>5. QED
  BY <1>1, <1>3, <1>4 DEF LeaseInv, ReqShape

\* The answer of an acquire moves one waiting agent, and to "running" only
\* when granted.
LEMMA AnswerFacts ==
    ASSUME TypeOK, NEW a \in Attempts, NEW g \in BOOLEAN, Answer(a, g)
    PROVE  /\ run' \in [Attempts -> {"new", "asked", "running", "done"}]
           /\ \A b \in Attempts : run[b] = "done" => run'[b] = "done"
           /\ \A b \in Attempts : run'[b] = "running" =>
                 run[b] = "running" \/ (b = a /\ g)
  BY DEF TypeOK, Answer

-----------------------------------------------------------------------------
(* The inductive step, one lemma per action that changes the rows.         *)

LEMMA RefuseKeeps ==
    ASSUME LeaseInv, NEW q \in Requests, AcquireRefuse(q) PROVE LeaseInv'
<1>1. q[1] \in Attempts /\ req[q].stale \in SUBSET Attempts
      /\ \A b \in req[q].stale : row[b].st # "absent"
  BY RequestFacts DEF LeaseInv, TypeOK, ReqType, ReqShape
<1>2. row' = ReapRows(row, req[q].stale) /\ req' = [req EXCEPT ![q] = Handled]
      /\ Answer(q[1], FALSE)
      /\ UNCHANGED <<renewMsg, releaseMsg, worker, site, circuit, overdue, peak>>
  BY DEF AcquireRefuse
<1>3. RowsShrink /\ \A b \in Attempts : row'[b].reason = "complete"
                                           => row[b].reason = "complete"
  BY <1>1, <1>2, ReapShrinks
<1>4. req' \in [Requests -> ReqType] /\ ReqShape'
  BY <1>2, <1>3, HandledKeeps DEF RowsShrink
<1>5. /\ run' \in [Attempts -> {"new", "asked", "running", "done"}]
      /\ \A b \in Attempts : run[b] = "done" => run'[b] = "done"
      /\ \A b \in Attempts : run'[b] = "running" => run[b] = "running"
  BY <1>1, <1>2, AnswerFacts DEF LeaseInv
<1>6. TypeOK'
  BY <1>2, <1>3, <1>4, <1>5 DEF LeaseInv, TypeOK, RowsShrink
<1>7. HoldsExclusive' /\ RowShape'
  BY <1>2, <1>3, ShrinkKeeps
<1>8. RunShape'
  BY <1>2, <1>3, <1>5 DEF LeaseInv, RunShape, RowsShrink
<1>9. QED
  BY <1>4, <1>6, <1>7, <1>8 DEF LeaseInv

LEMMA ReapCommitKeeps ==
    ASSUME LeaseInv, ReapCommit PROVE LeaseInv'
<1>1. worker.stale \in SUBSET Attempts
      /\ \A b \in worker.stale : row[b].st # "absent"
  BY DEF LeaseInv, TypeOK, ReqShape
<1>2. row' = ReapRows(row, worker.stale) /\ worker' = [pc |-> "idle", stale |-> {}]
      /\ UNCHANGED <<req, run, renewMsg, releaseMsg, site, circuit, overdue, peak>>
  BY DEF ReapCommit
<1>3. RowsShrink /\ \A b \in Attempts : row'[b].reason = "complete"
                                           => row[b].reason = "complete"
  BY <1>1, <1>2, ReapShrinks
<1>4. TypeOK'
  BY <1>2, <1>3 DEF LeaseInv, TypeOK, RowsShrink
<1>5. HoldsExclusive' /\ RowShape'
  BY <1>2, <1>3, ShrinkKeeps
<1>6. ReqShape'
  <2>1. \A q \in Requests : req[q].stale \subseteq Attempts
    BY DEF LeaseInv, TypeOK, ReqType
  <2>2. QED
    BY <1>2, <1>3, <2>1 DEF LeaseInv, ReqShape, RowsShrink
<1>7. RunShape'
  BY <1>2, <1>3 DEF LeaseInv, RunShape, RowsShrink
<1>8. QED
  BY <1>4, <1>5, <1>6, <1>7 DEF LeaseInv

\* The repeated request: the extended row is open before and after.
LEMMA AgainKeeps ==
    ASSUME LeaseInv, NEW q \in Requests, AcquireAgain(q) PROVE LeaseInv'
<1> DEFINE a == q[1]
           rows == ReapRows(row, req[q].stale)
<1>1. a \in Attempts /\ req[q].stale \in SUBSET Attempts
      /\ \A b \in req[q].stale : row[b].st # "absent"
  BY RequestFacts DEF LeaseInv, TypeOK, ReqType, ReqShape
<1>2. row' = [rows EXCEPT ![a].ttl = TTL] /\ req' = [req EXCEPT ![q] = Handled]
      /\ Answer(a, TRUE) /\ Open(rows, a)
      /\ UNCHANGED <<renewMsg, releaseMsg, worker, site, circuit, overdue, peak>>
  BY DEF AcquireAgain, Live
<1> HIDE DEF rows, a
<1>3. TypeOK
  BY DEF LeaseInv
<1>4. /\ rows \in [Attempts -> RowType]
      /\ \A b \in Attempts :
            /\ rows[b].slot = row[b].slot /\ rows[b].share = row[b].share
            /\ rows[b].st = "absent" <=> row[b].st = "absent"
            /\ rows[b].st = "open" => row[b].st = "open" /\ rows[b] = row[b]
            /\ rows[b].reason = "complete" => row[b].reason = "complete"
            /\ b \in req[q].stale => rows[b].st = "released"
            /\ b \notin req[q].stale => rows[b] = row[b]
  BY <1>1, <1>3, ReapRowsFacts DEF rows, Open
<1>5. row' \in [Attempts -> RowType]
  <2>1. rows[a] \in RowType
    BY <1>1, <1>4
  <2>2. [rows[a] EXCEPT !.ttl = TTL] \in RowType
    BY <2>1, Zeros DEF RowType
  <2>3. QED
    BY <1>1, <1>2, <1>4, <2>2
<1>6. ASSUME NEW b \in Attempts
      PROVE  /\ row'[b].slot = row[b].slot /\ row'[b].share = row[b].share
             /\ row'[b].st = rows[b].st /\ row'[b].reason = rows[b].reason
  <2>1. rows[b] \in RowType /\ rows[b].slot = row[b].slot /\ rows[b].share = row[b].share
    BY <1>4
  <2>2. row'[b] = IF b = a THEN [rows[b] EXCEPT !.ttl = TTL] ELSE rows[b]
    BY <1>1, <1>2, <1>4
  <2>3. LET r == [rows[b] EXCEPT !.ttl = TTL]
        IN  /\ r.slot = rows[b].slot /\ r.share = rows[b].share
            /\ r.st = rows[b].st /\ r.reason = rows[b].reason
    BY <2>1 DEF RowType
  <2>4. QED
    BY <2>1, <2>2, <2>3
<1>7. ASSUME NEW b \in Attempts, rows[b].st # "released"
      PROVE  rows[b].reason = ""
  <2>1. rows[b] = row[b]
    BY <1>4, <1>7
  <2>2. QED
    BY <2>1, <1>7 DEF LeaseInv, RowShape
<1>8. RowsShrink /\ \A b \in Attempts : row'[b].reason = "complete"
                                           => row[b].reason = "complete"
  <2> SUFFICES ASSUME NEW b \in Attempts
               PROVE  /\ row'[b].slot = row[b].slot
                      /\ row'[b].share = row[b].share
                      /\ row'[b].st = "absent" <=> row[b].st = "absent"
                      /\ row'[b].st = "open" => row[b].st = "open"
                      /\ row'[b].st # "released" => row'[b].reason = ""
                      /\ row'[b].reason = "complete" => row[b].reason = "complete"
    BY <1>5 DEF RowsShrink
  <2>1. /\ row'[b].slot = row[b].slot /\ row'[b].share = row[b].share
        /\ row'[b].st = rows[b].st /\ row'[b].reason = rows[b].reason
    BY <1>6
  <2>2. /\ rows[b].st = "absent" <=> row[b].st = "absent"
        /\ rows[b].st = "open" => row[b].st = "open"
        /\ rows[b].reason = "complete" => row[b].reason = "complete"
    BY <1>4
  <2>3. rows[b].st # "released" => rows[b].reason = ""
    BY <1>7
  <2>4. QED
    BY <2>1, <2>2, <2>3
<1>9. req' \in [Requests -> ReqType] /\ ReqShape'
  BY <1>2, <1>8, HandledKeeps DEF RowsShrink
<1>10. /\ run' \in [Attempts -> {"new", "asked", "running", "done"}]
       /\ \A b \in Attempts : run[b] = "done" => run'[b] = "done"
       /\ \A b \in Attempts : run'[b] = "running" => run[b] = "running" \/ b = a
  BY <1>1, <1>2, <1>3, AnswerFacts
<1>11. TypeOK'
  BY <1>2, <1>5, <1>9, <1>10 DEF LeaseInv, TypeOK
<1>12. HoldsExclusive' /\ RowShape'
  BY <1>2, <1>8, ShrinkKeeps
<1>13. row'[a].st # "absent"
  BY <1>1, <1>2, <1>6 DEF Open
<1>14. RunShape'
  BY <1>2, <1>8, <1>10, <1>13 DEF LeaseInv, RunShape, RowsShrink
<1>15. QED
  BY <1>9, <1>11, <1>12, <1>14 DEF LeaseInv

\* The admitted request: its slot is within the limit and covered by its
\* share, by FirstFreeBound.
LEMMA ChooseKeeps ==
    ASSUME LeaseInv, NEW q \in Requests, AcquireChoose(q) PROVE LeaseInv'
<1> DEFINE a == q[1]
           rows == ReapRows(row, req[q].stale)
<1>1. a \in Attempts /\ req[q].stale \in SUBSET Attempts
      /\ \A b \in req[q].stale : row[b].st # "absent"
  BY RequestFacts DEF LeaseInv, TypeOK, ReqType, ReqShape
<1>2. row' = rows
      /\ UNCHANGED <<run, renewMsg, releaseMsg, worker, site, circuit, overdue, peak>>
  BY DEF AcquireChoose
<1>3. PICK k \in 1..site[Site(a)].max :
         /\ FirstFree(rows, a, k)
         /\ req' = [req EXCEPT ![q] = [pc |-> "insert", stale |-> {}, slot |-> k,
                                       share |-> Jobs(rows, a), ttl |-> TTL]]
  BY DEF AcquireChoose
<1>4. RowsShrink /\ \A b \in Attempts : row'[b].reason = "complete"
                                           => row[b].reason = "complete"
  BY <1>1, <1>2, ReapShrinks
<1> HIDE DEF rows, a
<1>5. Site(a) \in Sites /\ site[Site(a)].max \in 1..MaxSlot
      /\ peak[Site(a)] \in 1..MaxSlot /\ site[Site(a)].max <= peak[Site(a)]
  BY <1>1, SiteFacts DEF LeaseInv, ReqShape
<1>6. k \in Nat \ {0} /\ k \in 1..peak[Site(a)] /\ k \in 0..MaxSlot
  BY <1>3, <1>5, ConstantAssumption
<1>7. Jobs(rows, a) \in Nat /\ k <= Jobs(rows, a)
  BY <1>1, <1>3, <1>6, FirstFreeBound
<1> DEFINE new == [pc |-> "insert", stale |-> {}, slot |-> k,
                   share |-> Jobs(rows, a), ttl |-> TTL]
<1>8. /\ new \in ReqType /\ new.slot \in 1..peak[Site(a)]
      /\ new.share >= new.slot /\ new.stale = {}
  BY <1>6, <1>7, Zeros DEF ReqType
<1> HIDE DEF new
<1>9. req' = [req EXCEPT ![q] = new] /\ req' \in [Requests -> ReqType]
  BY <1>3, <1>8 DEF LeaseInv, TypeOK, new
<1>10. ReqShape'
  <2>1. \A r \in Requests : req[r].stale \subseteq Attempts
    BY DEF LeaseInv, TypeOK, ReqType
  <2>2. worker.stale \subseteq Attempts
    BY DEF LeaseInv, TypeOK
  <2>3. ASSUME NEW r \in Requests
        PROVE  /\ req'[r].pc = "insert" => /\ req'[r].slot \in 1..peak'[Site(r[1])]
                                           /\ req'[r].share >= req'[r].slot
               /\ \A b \in req'[r].stale : row'[b].st # "absent"
    <3>1. CASE r = q
      BY <3>1, <1>2, <1>8, <1>9, SMTT(30) DEF LeaseInv, TypeOK, a
    <3>2. CASE r # q
      <4>1. req'[r] = req[r]
        BY <1>9, <3>2 DEF LeaseInv, TypeOK
      <4>2. QED
        BY <4>1, <2>1, <1>2, <1>4, ZenonT(40) DEF LeaseInv, ReqShape, RowsShrink
    <3>3. QED
      BY <3>1, <3>2
  <2>4. QED
    BY <1>2, <1>4, <2>2, <2>3 DEF LeaseInv, ReqShape, RowsShrink
<1>11. TypeOK'
  BY <1>2, <1>4, <1>9 DEF LeaseInv, TypeOK, RowsShrink
<1>12. HoldsExclusive' /\ RowShape'
  BY <1>2, <1>4, ShrinkKeeps
<1>13. RunShape'
  BY <1>2, <1>4 DEF LeaseInv, RunShape, RowsShrink
<1>14. QED
  BY <1>10, <1>11, <1>12, <1>13 DEF LeaseInv

\* The insert, guarded by the UNIQUE columns, or a refused insert.
LEMMA CommitKeeps ==
    ASSUME LeaseInv, NEW q \in Requests, AcquireCommit(q) PROVE LeaseInv'
<1> DEFINE a == q[1]
           fits == row[a].st = "absent" /\ KeysFree(row, a, req[q].slot)
           new == [st |-> "open", reason |-> "", slot |-> req[q].slot,
                   share |-> req[q].share, ttl |-> req[q].ttl]
<1>1. a \in Attempts /\ req[q] \in ReqType
      /\ req[q].slot \in 1..peak[Site(a)] /\ req[q].share >= req[q].slot
  BY RequestFacts DEF LeaseInv, TypeOK, ReqShape, AcquireCommit
<1>2. /\ row' = IF fits THEN [row EXCEPT ![a] = new] ELSE row
      /\ Answer(a, fits \/ Live(row, a)) /\ req' = [req EXCEPT ![q] = Handled]
      /\ UNCHANGED <<renewMsg, releaseMsg, worker, site, circuit, overdue, peak>>
  BY DEF AcquireCommit
<1>3. new \in RowType /\ new.st = "open" /\ new.reason = ""
      /\ new.slot = req[q].slot /\ new.share = req[q].share
  BY <1>1 DEF ReqType, RowType
<1>4. fits => /\ row[a].st = "absent"
              /\ \A b \in Attempts \ {a} : row[b].st = "open" =>
                    /\ DeviceOf[b] # DeviceOf[a]
                    /\ ~(Site(b) = Site(a) /\ row[b].slot = req[q].slot)
  BY DEF KeysFree, Open
<1>5. fits \in BOOLEAN /\ (fits \/ Live(row, a)) \in BOOLEAN
      /\ (Live(row, a) => row[a].st # "absent")
  BY DEF Live, Open
<1> HIDE DEF a, fits, new
<1>6. /\ row' \in [Attempts -> RowType]
      /\ \A b \in Attempts : b # a => row'[b] = row[b]
      /\ (fits => row'[a] = new) /\ (~fits => row' = row)
      /\ \A b \in Attempts : row'[b] = row[b] \/ (b = a /\ fits /\ row'[b] = new)
  BY <1>1, <1>2, <1>3 DEF LeaseInv, TypeOK
<1>7. ASSUME NEW b \in Attempts, row[b].st # "absent" PROVE row'[b].st # "absent"
  <2>1. CASE row'[b] = row[b]
    BY <1>7, <2>1
  <2>2. CASE row'[b] = new
    BY <1>3, <2>2
  <2>3. QED
    BY <1>6, <2>1, <2>2
<1>8. req' \in [Requests -> ReqType] /\ ReqShape'
  BY <1>2, <1>7, HandledKeeps
<1>9. /\ run' \in [Attempts -> {"new", "asked", "running", "done"}]
      /\ \A b \in Attempts : run[b] = "done" => run'[b] = "done"
      /\ \A b \in Attempts : run'[b] = "running" =>
            run[b] = "running" \/ (b = a /\ (fits \/ Live(row, a)))
  BY <1>1, <1>2, <1>5, AnswerFacts DEF LeaseInv
<1>10. TypeOK'
  BY <1>2, <1>6, <1>8, <1>9 DEF LeaseInv, TypeOK
<1>11. HoldsExclusive'
  <2> SUFFICES ASSUME NEW x \in Attempts, NEW y \in Attempts, x # y,
                      row'[x].st = "open", row'[y].st = "open"
               PROVE  /\ DeviceOf[x] # DeviceOf[y]
                      /\ Site(x) = Site(y) => row'[x].slot # row'[y].slot
    BY DEF HoldsExclusive, Open
  <2>1. CASE x # a /\ y # a
    BY <1>6, <2>1 DEF LeaseInv, HoldsExclusive, Open
  <2>2. CASE ~fits
    BY <1>6, <2>2 DEF LeaseInv, HoldsExclusive, Open
  <2>3. CASE fits /\ x = a
    BY <1>3, <1>4, <1>6, <2>3
  <2>4. CASE fits /\ y = a
    BY <1>3, <1>4, <1>6, <2>4
  <2>5. QED
    BY <2>1, <2>2, <2>3, <2>4
<1>12. RowShape'
  <2> SUFFICES ASSUME NEW b \in Attempts
               PROVE  /\ row'[b].st # "released" => row'[b].reason = ""
                      /\ row'[b].st # "absent" =>
                            /\ row'[b].slot \in 1..peak[Site(b)]
                            /\ row'[b].share >= row'[b].slot
    BY <1>2 DEF RowShape
  <2>1. CASE row'[b] = row[b]
    BY <2>1 DEF LeaseInv, RowShape
  <2>2. CASE b = a /\ row'[b] = new
    BY <1>1, <1>3, <2>2
  <2>3. QED
    BY <1>6, <2>1, <2>2
<1>13. RunShape'
  <2> SUFFICES ASSUME NEW b \in Attempts
               PROVE  /\ run'[b] = "running" => row'[b].st # "absent"
                      /\ b \in releaseMsg \/ row'[b].reason = "complete"
                            => run'[b] = "done"
    BY <1>2 DEF RunShape
  <2>1. ASSUME run'[b] = "running" PROVE row'[b].st # "absent"
    <3>1. CASE run[b] = "running"
      BY <3>1, <1>7 DEF LeaseInv, RunShape
    <3>2. CASE b = a /\ fits
      BY <3>2, <1>3, <1>6
    <3>3. CASE b = a /\ Live(row, a)
      BY <3>3, <1>5, <1>7
    <3>4. QED
      BY <2>1, <1>9, <3>1, <3>2, <3>3
  <2>2. ASSUME row'[b].reason = "complete" PROVE row[b].reason = "complete"
    <3>1. row'[b] # new
      BY <1>3, <2>2
    <3>2. QED
      BY <1>6, <2>2, <3>1
  <2>3. QED
    BY <2>1, <2>2, <1>9 DEF LeaseInv, RunShape
<1>14. QED
  BY <1>8, <1>10, <1>11, <1>12, <1>13 DEF LeaseInv

\* A renewal extends the lease or takes an expired one back, keys first.
LEMMA RenewKeeps ==
    ASSUME LeaseInv, NEW a \in Attempts, Renew(a) PROVE LeaseInv'
<1> DEFINE ok == Open(row, a) \/ Revivable(row, a)
           new == [row[a] EXCEPT !.st = "open", !.reason = "", !.ttl = TTL]
<1>1. row[a] \in RowType
  BY DEF LeaseInv, TypeOK
<1>2. new \in RowType /\ new.st = "open" /\ new.reason = ""
      /\ new.slot = row[a].slot /\ new.share = row[a].share
  BY <1>1, Zeros DEF RowType
<1>3. /\ renewMsg' = renewMsg \ {a}
      /\ UNCHANGED <<req, run, releaseMsg, worker, site, circuit, overdue, peak>>
  BY DEF Renew
<1>4. row' = IF ok THEN [row EXCEPT ![a] = new] ELSE row
  BY DEF Renew, LeaseInv, TypeOK
<1>5. ok => /\ row[a].st # "absent"
            /\ \A b \in Attempts \ {a} : row[b].st = "open" =>
                  /\ DeviceOf[b] # DeviceOf[a]
                  /\ ~(Site(b) = Site(a) /\ row[b].slot = row[a].slot)
  <2>1. CASE Open(row, a)
    BY <2>1 DEF LeaseInv, HoldsExclusive, Open
  <2>2. CASE Revivable(row, a)
    <3>1. row[a].reason = "expired" /\ KeysFree(row, a, row[a].slot)
      BY <2>2 DEF Revivable
    <3>2. row[a].st # "absent"
      BY <3>1 DEF LeaseInv, RowShape
    <3>3. QED
      BY <3>1, <3>2 DEF KeysFree, Open
  <2>3. QED
    BY <2>1, <2>2
<1> HIDE DEF ok, new
<1>6. /\ row' \in [Attempts -> RowType]
      /\ \A b \in Attempts : b # a => row'[b] = row[b]
      /\ (ok => row'[a] = new) /\ (~ok => row' = row)
      /\ \A b \in Attempts : row'[b] = row[b] \/ (b = a /\ ok /\ row'[b] = new)
  BY <1>2, <1>4 DEF LeaseInv, TypeOK
<1>7. ASSUME NEW b \in Attempts, row[b].st # "absent" PROVE row'[b].st # "absent"
  <2>1. CASE row'[b] = row[b]
    BY <1>7, <2>1
  <2>2. CASE row'[b] = new
    BY <1>2, <2>2
  <2>3. QED
    BY <1>6, <2>1, <2>2
<1>8. TypeOK'
  BY <1>3, <1>6 DEF LeaseInv, TypeOK
<1>9. HoldsExclusive'
  <2> SUFFICES ASSUME NEW x \in Attempts, NEW y \in Attempts, x # y,
                      row'[x].st = "open", row'[y].st = "open"
               PROVE  /\ DeviceOf[x] # DeviceOf[y]
                      /\ Site(x) = Site(y) => row'[x].slot # row'[y].slot
    BY DEF HoldsExclusive, Open
  <2>1. CASE x # a /\ y # a
    BY <1>6, <2>1 DEF LeaseInv, HoldsExclusive, Open
  <2>2. CASE ~ok
    BY <1>6, <2>2 DEF LeaseInv, HoldsExclusive, Open
  <2>3. CASE ok /\ x = a
    BY <1>2, <1>5, <1>6, <2>3
  <2>4. CASE ok /\ y = a
    BY <1>2, <1>5, <1>6, <2>4
  <2>5. QED
    BY <2>1, <2>2, <2>3, <2>4
<1>10. RowShape'
  <2> SUFFICES ASSUME NEW b \in Attempts
               PROVE  /\ row'[b].st # "released" => row'[b].reason = ""
                      /\ row'[b].st # "absent" =>
                            /\ row'[b].slot \in 1..peak[Site(b)]
                            /\ row'[b].share >= row'[b].slot
    BY <1>3 DEF RowShape
  <2>1. CASE row'[b] = row[b]
    BY <2>1 DEF LeaseInv, RowShape
  <2>2. CASE b = a /\ ok /\ row'[b] = new
    BY <1>2, <1>5, <2>2 DEF LeaseInv, RowShape
  <2>3. QED
    BY <1>6, <2>1, <2>2
<1>11. ReqShape'
  <2>1. \A q \in Requests : req[q].stale \subseteq Attempts
    BY DEF LeaseInv, TypeOK, ReqType
  <2>2. worker.stale \subseteq Attempts
    BY DEF LeaseInv, TypeOK
  <2>3. QED
    BY <1>3, <1>7, <2>1, <2>2 DEF LeaseInv, ReqShape
<1>12. RunShape'
  <2>1. ASSUME NEW b \in Attempts, row'[b].reason = "complete"
        PROVE  row[b].reason = "complete"
    <3>1. row'[b] # new
      BY <1>2, <2>1
    <3>2. QED
      BY <1>6, <2>1, <3>1
  <2>2. QED
    BY <1>3, <1>7, <2>1 DEF LeaseInv, RunShape
<1>13. QED
  BY <1>8, <1>9, <1>10, <1>11, <1>12 DEF LeaseInv

LEMMA ReleaseKeeps ==
    ASSUME LeaseInv, NEW a \in Attempts, Release(a) PROVE LeaseInv'
<1> DEFINE new == Released(row[a], "complete")
<1>1. row[a] \in RowType
  BY DEF LeaseInv, TypeOK
<1>2. new \in RowType /\ new.st = "released"
      /\ new.slot = row[a].slot /\ new.share = row[a].share
  BY <1>1, Zeros DEF RowType, Released
<1>3. /\ releaseMsg' = releaseMsg \ {a} /\ run[a] = "done"
      /\ UNCHANGED <<req, run, renewMsg, worker, site, circuit, overdue, peak>>
  BY DEF Release, LeaseInv, RunShape
<1>4. row' = IF Open(row, a) THEN [row EXCEPT ![a] = new] ELSE row
  BY DEF Release
<1> HIDE DEF new
<1>5. /\ row' \in [Attempts -> RowType]
      /\ \A b \in Attempts : \/ row'[b] = row[b]
                             \/ b = a /\ row[b].st = "open" /\ row'[b] = new
  BY <1>2, <1>4 DEF LeaseInv, TypeOK, Open
<1>6. RowsShrink
  <2> SUFFICES ASSUME NEW b \in Attempts
               PROVE  /\ row'[b].slot = row[b].slot
                      /\ row'[b].share = row[b].share
                      /\ row'[b].st = "absent" <=> row[b].st = "absent"
                      /\ row'[b].st = "open" => row[b].st = "open"
                      /\ row'[b].st # "released" => row'[b].reason = ""
    BY <1>5 DEF RowsShrink
  <2>1. CASE row'[b] = row[b]
    BY <2>1 DEF LeaseInv, RowShape
  <2>2. CASE b = a /\ row[b].st = "open" /\ row'[b] = new
    BY <1>2, <2>2
  <2>3. QED
    BY <1>5, <2>1, <2>2
<1>7. TypeOK'
  BY <1>3, <1>5 DEF LeaseInv, TypeOK
<1>8. HoldsExclusive' /\ RowShape'
  BY <1>3, <1>6, ShrinkKeeps
<1>9. ReqShape'
  <2>1. \A q \in Requests : req[q].stale \subseteq Attempts
    BY DEF LeaseInv, TypeOK, ReqType
  <2>2. worker.stale \subseteq Attempts
    BY DEF LeaseInv, TypeOK
  <2>3. QED
    BY <1>3, <1>6, <2>1, <2>2 DEF LeaseInv, ReqShape, RowsShrink
<1>10. RunShape'
  <2>1. \A b \in Attempts : b # a => row'[b] = row[b]
    BY <1>5
  <2>2. QED
    BY <1>3, <1>6, <2>1 DEF LeaseInv, RunShape, RowsShrink
<1>11. QED
  BY <1>7, <1>8, <1>9, <1>10 DEF LeaseInv

LEMMA TickKeeps ==
    ASSUME LeaseInv, Tick PROVE LeaseInv'
<1>1. \A n \in 0..TTL : Down(n) \in 0..TTL
  BY ConstantAssumption DEF Down
<1>2. \A n \in 0..CircuitTicks : Down(n) \in 0..CircuitTicks
  BY ConstantAssumption DEF Down
<1>3. UNCHANGED <<run, renewMsg, releaseMsg, worker, site, overdue, peak>>
      /\ row' = [a \in Attempts |-> [row[a] EXCEPT !.ttl = Down(row[a].ttl)]]
      /\ req' = [q \in Requests |-> [req[q] EXCEPT !.ttl = Down(req[q].ttl)]]
      /\ circuit' = [s \in Sites |-> Down(circuit[s])]
  BY DEF Tick
<1>4. ASSUME NEW b \in Attempts
      PROVE  /\ row'[b] \in RowType
             /\ row'[b].slot = row[b].slot /\ row'[b].share = row[b].share
             /\ row'[b].st = row[b].st /\ row'[b].reason = row[b].reason
  <2>1. row[b] \in RowType /\ row'[b] = [row[b] EXCEPT !.ttl = Down(row[b].ttl)]
    BY <1>3 DEF LeaseInv, TypeOK
  <2>2. Down(row[b].ttl) \in 0..TTL
    BY <2>1, <1>1 DEF RowType
  <2>3. QED
    BY <2>1, <2>2 DEF RowType
<1>5. ASSUME NEW q \in Requests
      PROVE  /\ req'[q] \in ReqType
             /\ req'[q].slot = req[q].slot /\ req'[q].share = req[q].share
             /\ req'[q].pc = req[q].pc /\ req'[q].stale = req[q].stale
  <2>1. req[q] \in ReqType /\ req'[q] = [req[q] EXCEPT !.ttl = Down(req[q].ttl)]
    BY <1>3 DEF LeaseInv, TypeOK
  <2>2. Down(req[q].ttl) \in 0..TTL
    BY <2>1, <1>1 DEF ReqType
  <2>3. QED
    BY <2>1, <2>2 DEF ReqType
<1>6. row' \in [Attempts -> RowType]
  BY <1>3, <1>4
<1>7. req' \in [Requests -> ReqType]
  BY <1>3, <1>5
<1>8. RowsShrink
  BY <1>4, <1>6 DEF LeaseInv, RowShape, RowsShrink
<1>9. TypeOK'
  BY <1>2, <1>3, <1>6, <1>7 DEF LeaseInv, TypeOK
<1>10. HoldsExclusive' /\ RowShape'
  BY <1>3, <1>8, ShrinkKeeps
<1>11. ReqShape'
  <2>1. \A q \in Requests : req[q].stale \subseteq Attempts
    BY DEF LeaseInv, TypeOK, ReqType
  <2>2. worker.stale \subseteq Attempts
    BY DEF LeaseInv, TypeOK
  <2>3. QED
    BY <1>3, <1>4, <1>5, <2>1, <2>2 DEF LeaseInv, ReqShape
<1>12. RunShape'
  BY <1>3, <1>4 DEF LeaseInv, RunShape
<1>13. QED
  BY <1>9, <1>10, <1>11, <1>12 DEF LeaseInv

\* A step that leaves the rows, the worker and the sites alone, and moves no
\* request to "insert", keeps everything but the facts about run.
LEMMA QuietKeeps ==
    ASSUME LeaseInv, UNCHANGED <<row, worker, site, peak>>,
           req' \in [Requests -> ReqType],
           \A q \in Requests :
              /\ req'[q].pc = "insert" => req'[q] = req[q]
              /\ \A b \in req'[q].stale : row[b].st # "absent"
    PROVE  HoldsExclusive' /\ RowShape' /\ ReqShape'
<1>1. HoldsExclusive'
  BY DEF LeaseInv, HoldsExclusive, Open
<1>2. RowShape'
  BY DEF LeaseInv, RowShape
<1>3. ReqShape'
  BY DEF LeaseInv, ReqShape
<1>4. QED
  BY <1>1, <1>2, <1>3

\* The expired rows exist.
LEMMA ExpiredFacts == Expired(row) \in SUBSET Attempts
                      /\ \A b \in Expired(row) : row[b].st # "absent"
  BY DEF Expired, Open

\* The steps of a request that touch no row: its arrival, its loss.
LEMMA RequestKeeps ==
    ASSUME LeaseInv, NEW q \in Requests, AcquireReap(q) \/ LoseRequest(q)
    PROVE  LeaseInv'
<1> DEFINE new == IF req[q].pc = "sent" /\ AcquireReap(q)
                  THEN [req[q] EXCEPT !.pc = "reaped", !.stale = Expired(row)]
                  ELSE Handled
<1>1. req[q] \in ReqType
  BY DEF LeaseInv, TypeOK
<1>2. [req[q] EXCEPT !.pc = "reaped", !.stale = Expired(row)] \in ReqType
  BY <1>1, ExpiredFacts DEF ReqType
<1>3. new \in ReqType /\ new.pc # "insert"
      /\ \A b \in new.stale : row[b].st # "absent"
  BY <1>1, <1>2, ExpiredFacts, Zeros DEF ReqType
<1>4. req' = [req EXCEPT ![q] = new]
      /\ UNCHANGED <<row, run, renewMsg, releaseMsg, worker, site, circuit,
                     overdue, peak>>
  BY DEF AcquireReap, LoseRequest, LeaseInv, TypeOK
<1> HIDE DEF new
<1>5. req' \in [Requests -> ReqType]
  BY <1>3, <1>4 DEF LeaseInv, TypeOK
<1>6. ASSUME NEW r \in Requests
      PROVE  /\ req'[r].pc = "insert" => req'[r] = req[r]
             /\ \A b \in req'[r].stale : row[b].st # "absent"
  <2>1. CASE r = q
    BY <2>1, <1>3, <1>4 DEF LeaseInv, TypeOK
  <2>2. CASE r # q
    BY <2>2, <1>4 DEF LeaseInv, TypeOK, ReqShape
  <2>3. QED
    BY <2>1, <2>2
<1>7. HoldsExclusive' /\ RowShape' /\ ReqShape'
  BY <1>4, <1>5, <1>6, QuietKeeps
<1>8. TypeOK' /\ RunShape'
  BY <1>4, <1>5 DEF LeaseInv, TypeOK, RunShape
<1>9. QED
  BY <1>7, <1>8 DEF LeaseInv

\* The agent and the network.
LEMMA AgentKeeps ==
    ASSUME LeaseInv, NEW a \in Attempts,
           \/ Ask(a) \/ GiveUp(a) \/ SendRenew(a) \/ Finish(a) \/ AgentCrash(a)
           \/ LoseMessage(a)
    PROVE  LeaseInv'
<1>1. UNCHANGED <<row, worker, site, circuit, peak>>
  BY DEF Ask, GiveUp, SendRenew, Finish, AgentCrash, LoseMessage
<1>2. /\ run' \in [Attempts -> {"new", "asked", "running", "done"}]
      /\ renewMsg' \subseteq Attempts /\ releaseMsg' \subseteq Attempts
      /\ overdue' \subseteq Devices
  BY DEF LeaseInv, TypeOK, Ask, GiveUp, SendRenew, Finish, AgentCrash, LoseMessage
<1>3. ASSUME NEW q \in Requests
      PROVE  /\ req'[q] \in ReqType
             /\ req'[q].pc = "insert" => req'[q] = req[q]
             /\ req'[q].stale = req[q].stale
  <2>1. req[q] \in ReqType
    BY DEF LeaseInv, TypeOK
  <2>2. [req[q] EXCEPT !.pc = "sent"] \in ReqType
        /\ [req[q] EXCEPT !.pc = "sent"].pc = "sent"
        /\ [req[q] EXCEPT !.pc = "sent"].stale = req[q].stale
    BY <2>1 DEF ReqType
  <2>3. req'[q] = req[q] \/ req'[q] = [req[q] EXCEPT !.pc = "sent"]
    BY DEF Ask, GiveUp, SendRenew, Finish, AgentCrash, LoseMessage
  <2>4. QED
    BY <2>1, <2>2, <2>3
<1>4. req' \in [Requests -> ReqType]
  <2>1. req' = req \/ req' = [q \in Requests |->
             IF q[1] = a THEN [req[q] EXCEPT !.pc = "sent"] ELSE req[q]]
    BY DEF Ask, GiveUp, SendRenew, Finish, AgentCrash, LoseMessage
  <2>2. CASE req' = req
    BY <2>2 DEF LeaseInv, TypeOK
  <2>3. CASE req' = [q \in Requests |->
             IF q[1] = a THEN [req[q] EXCEPT !.pc = "sent"] ELSE req[q]]
    BY <2>3, <1>3
  <2>4. QED
    BY <2>1, <2>2, <2>3
<1>5. HoldsExclusive' /\ RowShape' /\ ReqShape'
  <2>1. \A q \in Requests : \A b \in req'[q].stale : row[b].st # "absent"
    BY <1>3 DEF LeaseInv, ReqShape
  <2>2. QED
    BY <1>1, <1>3, <1>4, <2>1, QuietKeeps
<1>6. TypeOK'
  BY <1>1, <1>2, <1>4 DEF LeaseInv, TypeOK
<1>7. RunShape'
  <2>1. \A b \in Attempts : run'[b] = "running" => run[b] = "running"
    BY DEF LeaseInv, TypeOK, Ask, GiveUp, SendRenew, Finish, AgentCrash,
           LoseMessage
  <2>2. \A b \in Attempts : run[b] = "done" => run'[b] = "done"
    BY DEF LeaseInv, TypeOK, Ask, GiveUp, SendRenew, Finish, AgentCrash,
           LoseMessage
  <2>3. \A b \in Attempts : b \in releaseMsg' => b \in releaseMsg \/ run'[b] = "done"
    BY DEF LeaseInv, TypeOK, Ask, GiveUp, SendRenew, Finish, AgentCrash,
           LoseMessage
  <2>4. QED
    BY <1>1, <2>1, <2>2, <2>3 DEF LeaseInv, RunShape
<1>8. QED
  BY <1>5, <1>6, <1>7 DEF LeaseInv

\* The worker's read, the operator, the provider and the clock of a device.
LEMMA OthersKeep ==
    ASSUME LeaseInv,
           \/ ReapRead
           \/ \E s \in Sites, c \in SiteConfigs : ConfigureSite(s, c)
           \/ \E s \in FlakySites : TripProvider(s)
           \/ \E d \in LateDevices : FallBehind(d)
           \/ UNCHANGED vars
    PROVE  LeaseInv'
<1>1. UNCHANGED <<row, req, run, renewMsg, releaseMsg>>
  BY DEF ReapRead, ConfigureSite, TripProvider, FallBehind, vars
<1>2. HoldsExclusive' /\ RunShape'
  BY <1>1 DEF LeaseInv, HoldsExclusive, Open, RunShape
<1>3. \A c \in SiteConfigs : c.max \in 1..MaxSlot
  BY ConstantAssumption DEF SiteSettings
<1>4. /\ site' \in [Sites -> SiteConfigs]
      /\ peak' \in [Sites -> 1..MaxSlot]
      /\ \A s \in Sites : peak[s] <= peak'[s] /\ site'[s].max <= peak'[s]
  <2>1. \A s \in Sites : peak[s] \in 1..MaxSlot /\ site[s] \in SiteConfigs
                         /\ site[s].max <= peak[s]
    BY DEF LeaseInv, TypeOK, ReqShape
  <2>2. CASE UNCHANGED <<site, peak>>
    BY <2>1, <2>2 DEF LeaseInv, TypeOK
  <2>3. ASSUME NEW s \in Sites, NEW c \in SiteConfigs, ConfigureSite(s, c)
        PROVE  <1>4!1 /\ <1>4!2 /\ <1>4!3
    <3>1. site' = [site EXCEPT ![s] = c]
          /\ peak' = [peak EXCEPT ![s] = IF c.max > peak[s] THEN c.max ELSE peak[s]]
      BY <2>3 DEF ConfigureSite
    <3>2. (IF c.max > peak[s] THEN c.max ELSE peak[s]) \in 1..MaxSlot
      BY <2>1, <1>3
    <3>3. QED
      BY <2>1, <3>1, <3>2, <1>3 DEF LeaseInv, TypeOK
  <2>4. QED
    BY <2>2, <2>3 DEF ReapRead, TripProvider, FallBehind, vars
<1>5. worker' \in [pc : {"idle", "reap"}, stale : SUBSET Attempts]
      /\ \A b \in worker'.stale : row[b].st # "absent"
  BY ExpiredFacts DEF LeaseInv, TypeOK, ReqShape, ReapRead, ConfigureSite,
     TripProvider, FallBehind, vars
<1>6. circuit' \in [Sites -> 0..CircuitTicks] /\ overdue' \subseteq Devices
  BY Zeros, ConstantAssumption DEF LeaseInv, TypeOK, ReapRead, ConfigureSite,
     TripProvider, FallBehind, vars
<1>7. TypeOK'
  BY <1>1, <1>4, <1>5, <1>6 DEF LeaseInv, TypeOK
<1>8. \A a \in Attempts : Site(a) \in Sites
  BY ConstantAssumption DEF Site
<1>9. \A a \in Attempts : \A k \in 1..peak[Site(a)] : k \in 1..peak'[Site(a)]
  BY <1>4, <1>8 DEF LeaseInv, TypeOK
<1>10. RowShape'
  BY <1>1, <1>9 DEF LeaseInv, RowShape
<1>11. ReqShape'
  BY <1>1, <1>4, <1>5, <1>9, RequestFacts DEF LeaseInv, ReqShape
<1>12. QED
  BY <1>2, <1>7, <1>10, <1>11 DEF LeaseInv

LEMMA NextInv == LeaseInv /\ [Next]_vars => LeaseInv'
<1> SUFFICES ASSUME LeaseInv, [Next]_vars PROVE LeaseInv'
  OBVIOUS
<1>1. ASSUME NEW q \in Requests, Handle(q) \/ LoseRequest(q) PROVE LeaseInv'
  BY <1>1, RequestKeeps, RefuseKeeps, AgainKeeps, ChooseKeeps, CommitKeeps
  DEF Handle
<1>2. ASSUME NEW a \in Attempts, Renew(a) \/ Release(a) PROVE LeaseInv'
  BY <1>2, RenewKeeps, ReleaseKeeps
<1>3. ASSUME NEW a \in Attempts,
             \/ Ask(a) \/ GiveUp(a) \/ SendRenew(a) \/ Finish(a)
             \/ AgentCrash(a) \/ LoseMessage(a)
      PROVE LeaseInv'
  BY <1>3, AgentKeeps
<1>4. CASE ReapCommit
  BY <1>4, ReapCommitKeeps
<1>5. CASE Tick
  BY <1>5, TickKeeps
<1>6. CASE \/ ReapRead
           \/ \E s \in Sites, c \in SiteConfigs : ConfigureSite(s, c)
           \/ \E s \in FlakySites : TripProvider(s)
           \/ \E d \in LateDevices : FallBehind(d)
           \/ UNCHANGED vars
  BY <1>6, OthersKeep
<1>7. QED
  BY <1>1, <1>2, <1>3, <1>4, <1>5, <1>6 DEF Next

-----------------------------------------------------------------------------
(* The theorems.                                                           *)

\* Every reachable state of the lease table satisfies the invariant.
THEOREM LeaseInvariant == Spec => []LeaseInv
<1>1. Init => LeaseInv
  BY InitInv
<1>2. LeaseInv /\ [Next]_vars => LeaseInv'
  BY NextInv
<1>3. QED
  BY <1>1, <1>2, PTL DEF Spec

\* The variables keep their types (admission.py and its callers).
THEOREM TypeCorrect == Spec => []TypeOK
<1>1. LeaseInv => TypeOK
  BY DEF LeaseInv
<1>2. QED
  BY <1>1, LeaseInvariant, PTL

\* acquire, renew (with _revive), release and the reapers never let two
\* unreleased leases share a slot or a device.
THEOREM HoldsAreExclusive == Spec => []HoldsExclusive
<1>1. LeaseInv => HoldsExclusive
  BY DEF LeaseInv
<1>2. QED
  BY <1>1, LeaseInvariant, PTL

\* A site's unreleased leases never outnumber the largest limit it has had:
\* they have different slots, all within that limit.
THEOREM LeasesWithinPeak == Spec => []WithinPeak
<1>1. LeaseInv => WithinPeak
  <2> SUFFICES ASSUME LeaseInv, NEW s \in Sites
               PROVE  Cardinality(OpenAt(row, s)) <= peak[s]
    BY DEF WithinPeak
  <2> DEFINE f == [a \in OpenAt(row, s) |-> row[a].slot]
  <2>1. peak[s] \in Nat /\ peak[s] >= 1
    BY ConstantAssumption DEF LeaseInv, TypeOK
  <2>2. \A a \in OpenAt(row, s) : row[a].slot \in 1..peak[s]
    BY DEF LeaseInv, RowShape, OpenAt, Open
  <2>3. \A a, b \in OpenAt(row, s) : row[a].slot = row[b].slot => a = b
    BY DEF LeaseInv, HoldsExclusive, OpenAt, Open
  <2>4. f \in Injection(OpenAt(row, s), 1..peak[s])
    BY <2>2, <2>3, SMTT(30) DEF Injection, IsInjective
  <2>5. IsFiniteSet(1..peak[s]) /\ Cardinality(1..peak[s]) = peak[s]
    BY <2>1, FS_Interval, SMTT(40)
  <2> HIDE DEF f
  <2>6. Cardinality(OpenAt(row, s)) <= Cardinality(1..peak[s])
    BY <2>4, <2>5, FS_Injection
  <2>7. QED
    BY <2>5, <2>6
<1>2. QED
  BY <1>1, LeaseInvariant, PTL

\* The lease of slot k was given at most a k-th of the site's budget.
THEOREM SharesCoverSlots == Spec => []ShareCoversSlot
<1>1. LeaseInv => ShareCoversSlot
  <2> SUFFICES ASSUME LeaseInv, NEW a \in Attempts, row[a].st # "absent"
               PROVE  row[a].slot >= 1 /\ row[a].share >= row[a].slot
    BY DEF ShareCoversSlot
  <2>1. row[a].slot \in 1..peak[Site(a)] /\ row[a].share >= row[a].slot
    BY DEF LeaseInv, RowShape
  <2>2. peak[Site(a)] \in 1..MaxSlot
    BY SiteFacts DEF LeaseInv
  <2>3. QED
    BY <2>1, <2>2
<1>2. QED
  BY <1>1, LeaseInvariant, PTL

\* A running agent's lease exists and was never given back.
THEOREM RunningHasLease == Spec => []RunningLease
<1>1. LeaseInv => RunningLease
  BY DEF LeaseInv, RunShape, RunningLease
<1>2. QED
  BY <1>1, LeaseInvariant, PTL

\* A lease that was given back stays given back: a late renewal is denied, and
\* only a reaper that had already read the row can overwrite the reason.
THEOREM GivenBackStays == Spec => GivenBackForGood
<1> DEFINE Kept == \A a \in Attempts : row[a].reason = "complete" /\ ~InHand(a)
                                         => row'[a].reason = "complete"
<1>1. LeaseInv /\ [Next]_vars => Kept
  <2> SUFFICES ASSUME LeaseInv, [Next]_vars, NEW a \in Attempts,
                      row[a].reason = "complete", ~InHand(a)
               PROVE  row'[a].reason = "complete"
    OBVIOUS
  <2>1. /\ row \in [Attempts -> RowType] /\ row[a] \in RowType
        /\ row[a].st = "released"
    BY DEF LeaseInv, TypeOK, RowShape, RowType
  <2>2. ASSUME NEW S, a \notin S PROVE ReapRows(row, S)[a] = row[a]
    BY <2>2 DEF ReapRows
  <2>3. a \notin worker.stale /\ \A q \in Requests : a \notin req[q].stale
    BY DEF InHand
  <2>4. ASSUME NEW q \in Requests, Handle(q) \/ LoseRequest(q)
        PROVE  row'[a].reason = "complete"
    <3> DEFINE rows == ReapRows(row, req[q].stale)
    <3>1. rows[a] = row[a] /\ q[1] \in Attempts
      BY <2>2, <2>3, RequestFacts
    <3>2. CASE row' = row \/ row' = rows
      BY <3>1, <3>2
    <3>3. CASE AcquireAgain(q)
      <4>1. row' = [rows EXCEPT ![q[1]].ttl = TTL] /\ Live(rows, q[1])
        BY <3>3 DEF AcquireAgain
      <4>2. a # q[1]
        BY <3>1, <4>1, <2>1 DEF Live, Open
      <4>3. QED
        BY <3>1, <4>1, <4>2 DEF ReapRows
    <3>4. CASE AcquireCommit(q)
      <4>1. row' = row \/ (row[q[1]].st = "absent" /\ row' = [row EXCEPT ![q[1]] =
               [st |-> "open", reason |-> "", slot |-> req[q].slot,
                share |-> req[q].share, ttl |-> req[q].ttl]])
        BY <3>4 DEF AcquireCommit
      <4>2. QED
        BY <4>1, <2>1
    <3>5. QED
      BY <2>4, <3>2, <3>3, <3>4
      DEF Handle, AcquireReap, AcquireRefuse, AcquireChoose, LoseRequest
  <2>5. ASSUME NEW b \in Attempts, Renew(b)
        PROVE  row'[a].reason = "complete"
    <3>1. b = a => ~Open(row, b) /\ ~Revivable(row, b)
      BY <2>1 DEF Open, Revivable
    <3>2. row' = row \/ (b # a /\ row'[a] = row[a])
      BY <2>1, <2>5, <3>1 DEF Renew
    <3>3. QED
      BY <3>2
  <2>6. ASSUME NEW b \in Attempts, Release(b)
        PROVE  row'[a].reason = "complete"
    <3>1. b = a => ~Open(row, b)
      BY <2>1 DEF Open
    <3>2. row' = row \/ (b # a /\ row'[a] = row[a])
      BY <2>1, <2>6, <3>1 DEF Release
    <3>3. QED
      BY <3>2
  <2>7. CASE ReapCommit
    BY <2>2, <2>3, <2>7 DEF ReapCommit
  <2>8. CASE Tick
    <3>1. row'[a] = [row[a] EXCEPT !.ttl = Down(row[a].ttl)]
      BY <2>8 DEF Tick
    <3>2. QED
      BY <2>1, <3>1 DEF RowType
  <2>9. CASE UNCHANGED row
    BY <2>9
  <2>10. QED
    BY <2>4, <2>5, <2>6, <2>7, <2>8, <2>9
    DEF Next, Ask, GiveUp, SendRenew, Finish, AgentCrash, LoseMessage, ReapRead,
        ConfigureSite, TripProvider, FallBehind, vars
<1>2. QED
  BY <1>1, LeaseInvariant, PTL DEF Spec, GivenBackForGood

-----------------------------------------------------------------------------
(* The schedule.  The invariant is about the ticker: the agent decides only *)
(* when it ticks, so a slot is missed when no tick falls between the moment *)
(* it is wanted and the end of its window.                                  *)

\* The policies an agent may have: the built-in one, or what a server sends.
Policies == Configs \cup {Default}
Midnight(d) == d * DayLen

\* What the values are, and that the ticker is at most a period ahead.
Shapes ==
    /\ now \in 0..MaxNow /\ next \in Int /\ startedAt \in Int /\ clear \in Int
    /\ next <= now + Period /\ startedAt <= now /\ startedAt <= clear
    /\ pol \in Policies /\ Daily!PolicyOK(pol)
    /\ accepted \subseteq Configs /\ \A p \in accepted : Daily!PolicyOK(p)

\* A job that is under way is the run of a service that is up.
JobsOK ==
    \A k \in DOMAIN job :
        /\ job[k] \in [state : {"ACTIVE", "FAILED", "SUCCEEDED"}, no : Nat \ {0}, ended : Int]
        /\ job[k].state = "ACTIVE" /\ on => going # Daily!NoRun /\ going.slot = k

\* A run is of a slot of this policy, of today or an earlier day; under a
\* policy whose runs fit it is over before the next window opens, and the
\* ticker has not passed that night.
RunOK ==
    going # Daily!NoRun =>
        /\ on /\ going.slot \in DOMAIN job /\ going.dead \in Int /\ now <= going.dead
        /\ \E d \in 0..Daily!Day(now) :
              /\ going.slot = Daily!SlotKey(pol, d)
              /\ next < Midnight(d + 1) + Period
              /\ Daily!RunsFit(pol) => going.dead <= Midnight(d + 1) + pol.start

\* Today's slot, when it is due and when its window closes.
Key == Daily!SlotKey(pol, Daily!Day(now))
DueToday == Daily!Due(pol, Daily!Day(now))
Closing == Daily!Clock(Daily!Day(now), pol.end)

\* Nothing was in the way of today's slot since before it was due.
Undisturbed ==
    /\ clear + Daily!BootDelay(pol, Daily!Day(now)) <= DueToday
    /\ Daily!RunsFit(pol) /\ Daily!BackendOK(pol)

\* It has neither succeeded nor used its attempts.
Pending == Daily!JobOf(Key).state # "SUCCEEDED" /\ ~Daily!OutOfBudget(pol, Key)

\* When it is to be tried: once due, or again some time after it failed.
Wanted ==
    LET again == Daily!JobOf(Key).ended + Daily!RetryAfter(pol, Daily!JobOf(Key).no)
    IN  IF Daily!Failed(Key) /\ again > DueToday THEN again ELSE DueToday

\* The heart of it: once an agent that is idle should try the slot, the
\* ticker is not a period behind; it either has yet to tick, or ticks now.
Attended ==
    Daily!Idle /\ Undisturbed /\ Pending /\ Wanted <= now /\ Wanted + Period <= Closing
        => next < Wanted + Period /\ (now = Wanted \/ now <= next)

\* The inductive invariant.
DayInv == Shapes /\ JobsOK /\ RunOK /\ Attended

-----------------------------------------------------------------------------
(* Time.                                                                   *)

\* Division and remainder of natural numbers, as the prover needs them.
LEMMA Division ==
    ASSUME NEW n \in Nat, NEW m \in Nat \ {0}
    PROVE  n \div m \in Nat /\ (n \div m) * m <= n /\ n < (n \div m) * m + m
OBVIOUS

LEMMA Modulo ==
    ASSUME NEW n \in Nat, NEW m \in Nat \ {0}
    PROVE  n % m \in 0..(m - 1)
OBVIOUS

\* Days follow each other.
LEMMA Midnights ==
    ASSUME Daily!ScheduleAssumption, NEW d \in Nat, NEW e \in Nat
    PROVE  /\ Midnight(d) \in Nat /\ Midnight(d + 1) = Midnight(d) + DayLen
           /\ d < e => Midnight(d + 1) <= Midnight(e)
<1>1. DayLen \in Nat \ {0}
  BY DEF Daily!ScheduleAssumption
<1>2. Midnight(d) \in Nat /\ Midnight(d + 1) = Midnight(d) + DayLen
  BY <1>1 DEF Midnight
<1>3. ASSUME d < e
      PROVE  Midnight(d + 1) <= Midnight(e)
  <2>1. PICK f \in Nat : e = d + 1 + f
    BY <1>3
  <2>2. f * DayLen \in Nat
    BY <1>1
  <2>3. Midnight(e) = Midnight(d + 1) + f * DayLen
    BY <1>1, <2>1 DEF Midnight
  <2>4. QED
    BY <1>1, <1>2, <2>2, <2>3
<1>4. QED
  BY <1>2, <1>3

\* The day of an instant is the one it lies in.
LEMMA DayOf ==
    ASSUME Daily!ScheduleAssumption, NEW t \in Nat
    PROVE  /\ Daily!Day(t) \in Nat /\ Midnight(Daily!Day(t)) \in Nat
           /\ Midnight(Daily!Day(t)) <= t /\ t < Midnight(Daily!Day(t)) + DayLen
<1>1. DayLen \in Nat \ {0}
  BY DEF Daily!ScheduleAssumption
<1>2. QED
  BY <1>1, Division DEF Daily!Day, Midnight

\* A later instant is of no earlier day (Scheduler.Decide).
LEMMA DaysGrow ==
    ASSUME Daily!ScheduleAssumption, NEW t \in Nat, NEW u \in Nat, t <= u
    PROVE  Daily!Day(t) <= Daily!Day(u)
<1>1. SUFFICES ASSUME Daily!Day(u) < Daily!Day(t)
               PROVE  FALSE
  BY DayOf
<1>2. Midnight(Daily!Day(u)) + DayLen <= Midnight(Daily!Day(t))
  BY <1>1, DayOf, Midnights
<1>3. QED
  BY <1>2, DayOf DEF Daily!ScheduleAssumption

\* Another day begins at midnight.
LEMMA NewDay ==
    ASSUME Daily!ScheduleAssumption, NEW t \in Nat, Daily!Day(t + 1) # Daily!Day(t)
    PROVE  Daily!Day(t) < Daily!Day(t + 1) /\ t + 1 = Midnight(Daily!Day(t + 1))
<1>1. Daily!Day(t) < Daily!Day(t + 1)
  BY DaysGrow, DayOf
<1>2. Midnight(Daily!Day(t)) + DayLen <= Midnight(Daily!Day(t + 1))
  BY <1>1, DayOf, Midnights
<1>3. t + 1 \in Nat /\ Midnight(Daily!Day(t + 1)) \in Nat /\ Midnight(Daily!Day(t + 1)) <= t + 1
      /\ t < Midnight(Daily!Day(t)) + DayLen /\ Midnight(Daily!Day(t)) \in Nat /\ DayLen \in Nat
  BY DayOf DEF Daily!ScheduleAssumption
<1>4. QED
  BY <1>1, <1>2, <1>3

\* SchedulePolicy.Validate: a policy's hours are those of one day, in order.
LEMMA PolicyTimes ==
    ASSUME Daily!ScheduleAssumption, NEW p \in Policies, Daily!PolicyOK(p)
    PROVE  /\ p.start \in Nat /\ p.end \in Nat /\ p.start < p.end /\ p.end < DayLen
           /\ p.hard # Daily!Unset => p.hard \in Nat /\ p.end <= p.hard /\ p.hard < DayLen
           /\ p.eligible # Daily!Unset => p.eligible \in Nat /\ p.eligible <= p.start
           /\ p.jitter \in Nat
BY DEF Daily!ScheduleAssumption, Policies, Daily!PolicyOK, Daily!ScheduleOK, Daily!Parses

\* NextSlot stays in the window, and an attempt is due some time after boot.
LEMMA DueInWindow ==
    ASSUME Daily!ScheduleAssumption, NEW p \in Policies, Daily!PolicyOK(p),
           NEW d \in 0..Daily!Day(MaxNow)
    PROVE  /\ Daily!Due(p, d) \in Int
           /\ Midnight(d) + p.start <= Daily!Due(p, d) /\ Daily!Due(p, d) < Midnight(d) + p.end
<1>1. Hash[Daily!SlotKey(p, d)] \in Nat
  BY DEF Daily!ScheduleAssumption, Policies
<1>2. \A max \in Int : Daily!Jitter(Hash[Daily!SlotKey(p, d)], max) \in Nat
  BY <1>1, Modulo DEF Daily!Jitter
<1> DEFINE max == IF p.jitter >= p.end - p.start /\ p.end - p.start > 1
                  THEN p.end - p.start - 1 ELSE p.jitter
           at == p.start + Daily!Jitter(Hash[Daily!SlotKey(p, d)], max)
<1>3. at \in Nat /\ p.start <= at
  BY <1>2, PolicyTimes
<1>4. Daily!Due(p, d) = Daily!Clock(d, IF at < p.end THEN at ELSE p.end - 1)
  BY DEF Daily!Due
<1>5. d \in Nat
  BY DayOf DEF Daily!ScheduleAssumption
<1> HIDE DEF at
<1>6. QED
  BY <1>3, <1>4, <1>5, PolicyTimes, Midnights DEF Daily!Clock, Midnight

\* After a start of the service Decide waits for some time.
LEMMA BootDelays ==
    ASSUME Daily!ScheduleAssumption, NEW p \in Policies, NEW d \in 0..Daily!Day(MaxNow)
    PROVE  Daily!BootDelay(p, d) \in Nat
<1>1. BootHash[d] \in Nat /\ p.bootMin \in Int /\ p.bootMax \in Int
  BY DEF Daily!ScheduleAssumption, Policies
<1>2. Delays[3] \in Nat /\ Delays[4] \in Nat
  BY DEF Daily!ScheduleAssumption
<1>3. Daily!Given(p.bootMin, Delays[3]) \in Nat
  BY <1>1, <1>2 DEF Daily!Given
<1>4. \A max \in Int : Daily!Jitter(BootHash[d], max) \in Nat
  BY <1>1, Modulo DEF Daily!Jitter
<1>5. QED
  BY <1>1, <1>2, <1>3, <1>4 DEF Daily!BootDelay

\* Decide waits for some time after an attempt that failed.
LEMMA Retries ==
    ASSUME Daily!ScheduleAssumption, NEW p \in Policies, NEW no
    PROVE  Daily!RetryAfter(p, no) \in Nat \ {0}
<1>1. p.delay1 \in Int /\ p.delay2 \in Int
  BY DEF Daily!ScheduleAssumption, Policies
<1>2. Delays[1] \in Nat \ {0} /\ Delays[2] \in Nat \ {0}
  BY DEF Daily!ScheduleAssumption
<1>3. QED
  BY <1>1, <1>2 DEF Daily!RetryAfter, Daily!Given

\* A ticker ticks once a period, and next after now.
LEMMA NextTick ==
    ASSUME Daily!ScheduleAssumption, Shapes, now >= next, Daily!Ticked
    PROVE  next' \in Int /\ now < next' /\ next' <= now + Period
<1>1. now - next \in Nat /\ Period \in Nat \ {0}
  BY DEF Daily!ScheduleAssumption, Shapes
<1> DEFINE q == (now - next) \div Period
<1>2. q \in Nat /\ q * Period <= now - next /\ now - next < q * Period + Period
  BY <1>1, Division
<1>3. next' = next + Period * (q + 1)
  BY DEF Daily!Ticked
<1> HIDE DEF q
<1>4. Period * (q + 1) = q * Period + Period /\ q * Period \in Nat
  BY <1>1, <1>2
<1>5. QED
  BY <1>1, <1>2, <1>3, <1>4 DEF Shapes

-----------------------------------------------------------------------------
(* Today's slot.                                                           *)

\* The day of the clock is one of those with a hash.
LEMMA Today ==
    ASSUME Daily!ScheduleAssumption, Shapes
    PROVE  /\ now \in Nat /\ Daily!Day(now) \in 0..Daily!Day(MaxNow) /\ Daily!Day(now) \in Nat
           /\ Midnight(Daily!Day(now)) \in Nat
           /\ Midnight(Daily!Day(now) + 1) = Midnight(Daily!Day(now)) + DayLen
           /\ Midnight(Daily!Day(now)) <= now /\ now < Midnight(Daily!Day(now)) + DayLen
<1>1. now \in Nat /\ MaxNow \in Nat /\ now <= MaxNow
  BY DEF Shapes, Daily!ScheduleAssumption
<1>2. QED
  BY <1>1, DayOf, DaysGrow, Midnights

\* When today's slot is wanted: once due, or again some time after it failed.
LEMMA WantedToday ==
    ASSUME Daily!ScheduleAssumption, Shapes, JobsOK
    PROVE  /\ Wanted \in Int /\ DueToday \in Int /\ DueToday <= Wanted
           /\ Midnight(Daily!Day(now)) + pol.start <= DueToday
<1>1. pol \in Policies /\ Daily!PolicyOK(pol)
  BY DEF Shapes
<1>2. DueToday \in Int /\ Midnight(Daily!Day(now)) + pol.start <= DueToday
  BY <1>1, Today, DueInWindow DEF DueToday
<1>3. \A k : Daily!JobOf(k).ended \in Int
  BY DEF JobsOK, Daily!JobOf, Daily!Nothing
<1>4. \A no : Daily!RetryAfter(pol, no) \in Int
  BY <1>1, Retries
<1>5. QED
  BY <1>2, <1>3, <1>4 DEF Wanted

\* Nobody is late if it is not yet time, or just, and the ticker has not run
\* ahead.
LEMMA NotLate ==
    ASSUME Daily!ScheduleAssumption, Shapes, JobsOK,
           ~Daily!Idle \/ now < Wanted \/ (now = Wanted /\ next < now + Period)
    PROVE  Attended
BY WantedToday, Today DEF Attended

\* After what disturbed the schedule the slot is not due before it settled.
LEMMA AfterTrouble ==
    ASSUME Daily!ScheduleAssumption, Shapes, JobsOK,
           now < clear \/ (now = clear /\ next < now + Period)
    PROVE  Attended
<1>1. Daily!BootDelay(pol, Daily!Day(now)) \in Nat /\ clear \in Int /\ now \in Nat
  BY Today, BootDelays DEF Shapes
<1>2. CASE Undisturbed
  <2>1. clear <= Wanted
    BY <1>1, <1>2, WantedToday DEF Undisturbed
  <2>2. QED
    BY <1>1, <2>1, WantedToday, NotLate
<1>3. CASE ~Undisturbed
  BY <1>3 DEF Attended
<1>4. QED
  BY <1>2, <1>3

\* The same of the state a step leads to.
LEMMA Later ==
    ASSUME Daily!ScheduleAssumption
    PROVE  /\ (Shapes /\ JobsOK =>
                  /\ Wanted \in Int /\ DueToday \in Int /\ DueToday <= Wanted
                  /\ Midnight(Daily!Day(now)) + pol.start <= DueToday)'
           /\ (Shapes /\ JobsOK
                  /\ (~Daily!Idle \/ now < Wanted \/ (now = Wanted /\ next < now + Period))
                  => Attended)'
           /\ (Shapes /\ JobsOK /\ (now < clear \/ (now = clear /\ next < now + Period)) => Attended)'
<1>1. Shapes /\ JobsOK =>
         /\ Wanted \in Int /\ DueToday \in Int /\ DueToday <= Wanted
         /\ Midnight(Daily!Day(now)) + pol.start <= DueToday
  BY WantedToday
<1>2. Shapes /\ JobsOK /\ (~Daily!Idle \/ now < Wanted \/ (now = Wanted /\ next < now + Period))
         => Attended
  BY NotLate
<1>3. Shapes /\ JobsOK /\ (now < clear \/ (now = clear /\ next < now + Period)) => Attended
  BY AfterTrouble
<1>4. QED
  BY <1>1, <1>2, <1>3, PTL

-----------------------------------------------------------------------------
(* Each step keeps what is known of the clock, the jobs and the run.        *)

\* The service starts with a ticker that ticks at once.
LEMMA BeginsWell ==
    ASSUME Daily!ScheduleAssumption, Daily!Init
    PROVE  DayInv
<1>1. Shapes
  BY DEF Daily!Init, Daily!ScheduleAssumption, Shapes, Policies
<1>2. JobsOK /\ RunOK
  BY DEF Daily!Init, JobsOK, RunOK
<1>3. Attended
  <2>1. now = clear /\ next < now + Period
    BY DEF Daily!Init, Daily!ScheduleAssumption
  <2>2. QED
    BY <1>1, <1>2, <2>1, AfterTrouble
<1>4. QED
  BY <1>1, <1>2, <1>3 DEF DayInv

\* Time passes.
LEMMA PassKept ==
    ASSUME Daily!ScheduleAssumption, DayInv, Daily!Pass
    PROVE  DayInv'
<1>1. /\ now' = now + 1 /\ now < MaxNow /\ ~(Daily!Idle /\ now >= next)
      /\ ~(going # Daily!NoRun /\ now >= going.dead)
      /\ UNCHANGED <<pol, accepted, job, last, going, next, on, startedAt, clear>>
  BY DEF Daily!Pass
<1>2. Shapes'
  BY <1>1 DEF DayInv, Shapes, Daily!ScheduleAssumption
<1>3. JobsOK'
  BY <1>1 DEF DayInv, JobsOK
<1>4. /\ now \in Nat /\ Daily!Day(now) <= Daily!Day(now')
      /\ Daily!Day(now) \in Nat /\ Daily!Day(now') \in Nat
      /\ next \in Int /\ next <= now + Period
  BY <1>1, Today, DaysGrow, DayOf DEF DayInv, Shapes
<1>5. RunOK'
  <2>1. SUFFICES ASSUME going # Daily!NoRun
                 PROVE  RunOK'
    BY <1>1 DEF RunOK
  <2>2. now' <= going.dead
    BY <1>1, <1>4, <2>1 DEF DayInv, RunOK
  <2>3. 0..Daily!Day(now) \subseteq 0..Daily!Day(now')
    BY <1>4
  <2>4. QED
    BY <1>1, <2>1, <2>2, <2>3 DEF DayInv, RunOK
<1>6. /\ (Wanted \in Int /\ DueToday \in Int /\ DueToday <= Wanted)'
      /\ (Midnight(Daily!Day(now)) + pol.start <= DueToday)'
  BY <1>2, <1>3, Later
<1>7. Attended'
  <2>1. CASE Daily!Day(now') # Daily!Day(now)
    <3>1. now' = Midnight(Daily!Day(now')) /\ pol'.start \in Nat
      BY <1>1, <1>4, <2>1, NewDay, PolicyTimes DEF DayInv, Shapes
    <3>2. now' < Wanted' \/ (now' = Wanted' /\ next' < now' + Period)
      BY <1>1, <1>4, <1>6, <3>1 DEF Daily!ScheduleAssumption
    <3>3. QED
      BY <1>2, <1>3, <3>2, Later
  <2>2. CASE Daily!Day(now') = Daily!Day(now) /\ now < Wanted
    <3>1. Wanted' = Wanted
      BY <1>1, <2>2 DEF Wanted, DueToday, Key, Daily!JobOf, Daily!Failed
    <3>2. now' < Wanted' \/ (now' = Wanted' /\ next' < now' + Period)
      BY <1>1, <1>4, <1>6, <2>2, <3>1 DEF Daily!ScheduleAssumption
    <3>3. QED
      BY <1>2, <1>3, <3>2, Later
  <2>3. CASE Daily!Day(now') = Daily!Day(now) /\ Wanted <= now
    <3>1. UNCHANGED <<Wanted, Daily!Idle, Undisturbed, Pending, Closing>>
      BY <1>1, <2>3 DEF Wanted, DueToday, Key, Daily!JobOf, Daily!Failed, Daily!Idle, Undisturbed,
                        Pending, Daily!OutOfBudget, Closing
    <3>2. QED
      BY <1>1, <1>4, <1>6, <2>3, <3>1 DEF DayInv, Attended
  <2>4. QED
    BY <1>4, <1>6, <2>1, <2>2, <2>3, WantedToday DEF DayInv
<1>8. QED
  BY <1>2, <1>3, <1>5, <1>7 DEF DayInv

\* What ends a run, or the service, leaves the ticker and the clock alone.
LEMMA Typed ==
    ASSUME Daily!ScheduleAssumption, DayInv, NEW k \in DOMAIN job,
           NEW state \in {"FAILED", "SUCCEEDED"},
           going # Daily!NoRun, going.slot = k, on, Daily!Keep(k, state, Daily!JobOf(k).no)
    PROVE  /\ DOMAIN job' = DOMAIN job
           /\ \A x \in DOMAIN job : x # k => job'[x] = job[x]
           /\ job'[k].state = state /\ (state = "FAILED" => job'[k].ended = now)
           /\ \A x \in DOMAIN job' :
               job'[x] \in [state : {"FAILED", "SUCCEEDED"}, no : Nat \ {0}, ended : Int]
<1>1. now \in Int /\ Daily!JobOf(k) = job[k]
  BY DEF DayInv, Shapes, Daily!JobOf
<1>2. job' = [x \in DOMAIN job |-> IF x = k THEN [state |-> state, no |-> job[k].no,
                                                  ended |-> IF state = "FAILED" THEN now ELSE 0]
                                   ELSE job[x]]
  BY <1>1 DEF Daily!Keep
<1>3. \A x \in DOMAIN job :
          /\ job[x] \in [state : {"ACTIVE", "FAILED", "SUCCEEDED"}, no : Nat \ {0}, ended : Int]
          /\ job[x].state = "ACTIVE" => x = k
  BY DEF DayInv, JobsOK
<1>4. QED
  BY <1>1, <1>2, <1>3

\* A run that ends was today's, or yesterday's and is over before today's slot
\* is due.
LEMMA RunEndsKept ==
    ASSUME Daily!ScheduleAssumption, DayInv, Daily!Succeeds \/ Daily!Fails
    PROVE  DayInv'
<1> DEFINE k == going.slot
<1>1. /\ on /\ going # Daily!NoRun /\ going' = Daily!NoRun
      /\ UNCHANGED <<now, pol, accepted, next, on, startedAt, clear>>
  BY DEF Daily!Succeeds, Daily!Fails
<1>2. PICK state \in {"FAILED", "SUCCEEDED"} : Daily!Keep(k, state, Daily!JobOf(k).no)
  BY DEF Daily!Succeeds, Daily!Fails
<1>3. PICK d \in 0..Daily!Day(now) :
          /\ k = Daily!SlotKey(pol, d) /\ k \in DOMAIN job /\ going.dead \in Int /\ now <= going.dead
          /\ next < Midnight(d + 1) + Period
          /\ Daily!RunsFit(pol) => going.dead <= Midnight(d + 1) + pol.start
  BY <1>1 DEF DayInv, RunOK
<1>4. /\ DOMAIN job' = DOMAIN job
      /\ job'[k].state = state /\ (state = "FAILED" => job'[k].ended = now)
      /\ \A x \in DOMAIN job' :
               job'[x] \in [state : {"FAILED", "SUCCEEDED"}, no : Nat \ {0}, ended : Int]
  BY <1>1, <1>2, <1>3, Typed
<1>5. Shapes'
  BY <1>1 DEF DayInv, Shapes
<1>6. JobsOK' /\ RunOK'
  BY <1>1, <1>4 DEF JobsOK, RunOK
<1>7. /\ Wanted' \in Int /\ DueToday' = DueToday /\ DueToday' <= Wanted' /\ DueToday \in Int
      /\ Midnight(Daily!Day(now)) + pol.start <= DueToday /\ Key' = Key
      /\ now \in Nat /\ next \in Int /\ Period \in Nat \ {0}
  <2>1. DueToday' = DueToday /\ Key' = Key
    BY <1>1 DEF DueToday, Key
  <2>2. QED
    BY <1>5, <1>6, <2>1, Later, WantedToday, Today DEF DayInv, Shapes, Daily!ScheduleAssumption
<1>8. ASSUME d = Daily!Day(now)
      PROVE  Attended'
  <2>1. Key = k /\ Daily!JobOf(Key)' = job'[k]
    BY <1>3, <1>4, <1>7, <1>8 DEF Key, Daily!JobOf
  <2>2. CASE state = "SUCCEEDED"
    <3>1. ~Pending'
      BY <1>4, <1>7, <2>1, <2>2 DEF Pending
    <3>2. QED
      BY <3>1 DEF Attended
  <2>3. CASE state = "FAILED"
    <3>1. \A no : Daily!RetryAfter(pol, no) \in Nat \ {0}
      BY Retries DEF DayInv, Shapes
    <3>2. now < job'[k].ended + Daily!RetryAfter(pol, job'[k].no)
      BY <1>4, <1>7, <2>3, <3>1
    <3>3. Wanted' = IF job'[k].ended + Daily!RetryAfter(pol, job'[k].no) > DueToday
                    THEN job'[k].ended + Daily!RetryAfter(pol, job'[k].no) ELSE DueToday
      BY <1>1, <1>4, <1>7, <2>1, <2>3 DEF Wanted, Daily!Failed
    <3>4. now' < Wanted'
      BY <1>1, <1>4, <1>7, <2>3, <3>1, <3>2, <3>3
    <3>5. QED
      BY <1>5, <1>6, <3>4, Later
  <2>4. QED
    BY <2>2, <2>3
<1>9. ASSUME d < Daily!Day(now)
      PROVE  Attended'
  <2>1. CASE Daily!RunsFit(pol)
    <3>1. Midnight(d + 1) <= Midnight(Daily!Day(now)) /\ Midnight(d + 1) \in Nat /\
          Midnight(Daily!Day(now)) \in Nat
      BY <1>3, <1>9, Today, Midnights DEF DayInv
    <3>2. pol.start \in Nat
      BY PolicyTimes DEF DayInv, Shapes
    <3>3. now <= DueToday /\ next < DueToday + Period
      BY <1>3, <1>7, <2>1, <3>1, <3>2
    <3>4. now' < Wanted' \/ (now' = Wanted' /\ next' < now' + Period)
      BY <1>1, <1>7, <3>3
    <3>5. QED
      BY <1>5, <1>6, <3>4, Later
  <2>2. CASE ~Daily!RunsFit(pol)
    BY <1>1, <2>2 DEF Attended, Undisturbed
  <2>3. QED
    BY <2>1, <2>2
<1>10. Attended'
  BY <1>3, <1>8, <1>9, Today DEF DayInv
<1>11. QED
  BY <1>5, <1>6, <1>10 DEF DayInv

\* The run that a tick begins ends at its deadline: before the next window
\* opens, if the policy sees to that.
LEMMA StartKept ==
    ASSUME Daily!ScheduleAssumption, DayInv, Shapes', Daily!Idle,
           UNCHANGED <<now, pol, accepted, on, startedAt, clear>>, next' <= now + Period,
           Daily!Decide(pol, Daily!Day(now)), Daily!Keep(Key, "ACTIVE", Daily!JobOf(Key).no + 1),
           going' = [slot |-> Key, dead |-> Daily!DeadlineFor(pol)]
    PROVE  DayInv'
<1>1. /\ now \in Nat /\ Midnight(Daily!Day(now)) \in Nat
      /\ Midnight(Daily!Day(now) + 1) = Midnight(Daily!Day(now)) + DayLen
      /\ now < Midnight(Daily!Day(now)) + DayLen /\ Daily!Day(now) \in Nat /\ DayLen \in Nat
      /\ pol \in Policies /\ Daily!PolicyOK(pol)
  BY Today DEF DayInv, Shapes, Daily!ScheduleAssumption
<1>2. Daily!JobOf(Key).no \in Nat /\ \A x \in DOMAIN job : job[x].state # "ACTIVE"
  BY DEF DayInv, JobsOK, Daily!JobOf, Daily!Nothing, Daily!Idle
<1>3. /\ Key \in DOMAIN job' /\ job'[Key] \in [state : {"ACTIVE"}, no : Nat \ {0}, ended : Int]
      /\ \A x \in DOMAIN job' : x # Key => x \in DOMAIN job /\ job'[x] = job[x]
  BY <1>2 DEF Daily!Keep
<1>4. going' # Daily!NoRun /\ going'.slot = Key /\ going'.dead = Daily!DeadlineFor(pol)
  BY DEF Daily!NoRun, Key, Daily!SlotKey
<1>5. JobsOK'
  BY <1>2, <1>3, <1>4 DEF DayInv, JobsOK
<1>6. /\ now < Midnight(Daily!Day(now)) + pol.end
      /\ pol.hard # Daily!Unset => now < Midnight(Daily!Day(now)) + pol.hard
  BY <1>1, PolicyTimes DEF Daily!Decide, Daily!Closed, Daily!Clock, Midnight
<1>7. /\ Daily!DeadlineFor(pol) \in Int /\ now <= Daily!DeadlineFor(pol)
      /\ Daily!RunsFit(pol) => Daily!DeadlineFor(pol) <= Midnight(Daily!Day(now) + 1) + pol.start
  <2> DEFINE r == IF last = <<>> THEN Daily!Given(pol.seedRun, Runs[2])
                     ELSE Daily!Given(pol.normalRun, Runs[1])
  <2>1. /\ Daily!Given(pol.seedRun, Runs[2]) \in Nat \ {0}
        /\ Daily!Given(pol.normalRun, Runs[1]) \in Nat \ {0}
    BY <1>1 DEF Daily!Given, Daily!ScheduleAssumption, Policies
  <2>2. r \in Nat \ {0} /\ (Daily!RunsFit(pol) /\
                                     pol.hard = Daily!Unset => pol.end + r <= DayLen + pol.start)
    BY <2>1 DEF Daily!RunsFit
  <2>3. Daily!DeadlineFor(pol) = IF pol.hard # Daily!Unset
                                   /\ Midnight(Daily!Day(now)) + pol.hard < now + r
                           THEN Midnight(Daily!Day(now)) + pol.hard ELSE now + r
    BY DEF Daily!DeadlineFor, Daily!Clock, Midnight
  <2> HIDE DEF r
  <2>4. QED
    BY <1>1, <1>6, <2>2, <2>3, PolicyTimes
<1>8. RunOK'
  <2>1. next' < Midnight(Daily!Day(now) + 1) + Period /\ next' \in Int
    BY <1>1 DEF Shapes, Daily!ScheduleAssumption
  <2>2. Key = Daily!SlotKey(pol, Daily!Day(now)) /\ Daily!Day(now) \in 0..Daily!Day(now)
    BY <1>1 DEF Key
  <2>3. QED
    <3>1. /\ on' /\ going'.slot \in DOMAIN job' /\ going'.dead \in Int /\ now' <= going'.dead
          /\ Daily!RunsFit(pol') => going'.dead <= Midnight(Daily!Day(now) + 1) + pol'.start
      BY <1>3, <1>4, <1>7 DEF Daily!Idle
    <3>2. now' = now /\ pol' = pol
      OBVIOUS
    <3>3. QED
      BY <1>4, <2>1, <2>2, <3>1, <3>2 DEF RunOK
<1>9. Attended'
  BY <1>4, <1>5, Later DEF Daily!Idle
<1>10. QED
  BY <1>5, <1>8, <1>9 DEF DayInv

\* A tick that starts nothing when the slot is wanted would be one that could.
LEMMA TickKept ==
    ASSUME Daily!ScheduleAssumption, DayInv, Daily!Tick
    PROVE  DayInv'
<1>1. /\ Daily!Idle /\ now >= next /\ Daily!Ticked
      /\ UNCHANGED <<now, pol, accepted, last, on, startedAt>>
  BY DEF Daily!Tick
<1>2. next' \in Int /\ now < next' /\ next' <= now + Period
  BY <1>1, NextTick DEF DayInv
<1>3. CASE /\ Daily!Decide(pol, Daily!Day(now)) /\ Daily!Keep(Key, "ACTIVE", Daily!JobOf(Key).no + 1)
           /\ going' = [slot |-> Key, dead |-> Daily!DeadlineFor(pol)] /\ UNCHANGED clear
  <2>1. Shapes'
    BY <1>1, <1>2, <1>3 DEF DayInv, Shapes
  <2>2. QED
    BY <1>1, <1>2, <1>3, <2>1, StartKept
<1>4. CASE clear' = now + 1 /\ UNCHANGED <<job, going>>
  <2>1. Shapes'
    BY <1>1, <1>2, <1>4 DEF DayInv, Shapes
  <2>2. JobsOK' /\ RunOK'
    BY <1>1, <1>4 DEF DayInv, JobsOK, RunOK, Daily!Idle
  <2>3. Attended'
    BY <1>1, <1>4, <2>1, <2>2, Today, Later DEF DayInv
  <2>4. QED
    BY <2>1, <2>2, <2>3 DEF DayInv
<1>5. CASE ~(Daily!Decide(pol, Daily!Day(now)) /\ Daily!BackendOK(pol))
           /\ UNCHANGED <<job, going, clear>>
  <2>1. Shapes'
    BY <1>1, <1>2, <1>5 DEF DayInv, Shapes
  <2>2. JobsOK' /\ RunOK'
    BY <1>1, <1>5 DEF DayInv, JobsOK, RunOK, Daily!Idle
  <2>3. UNCHANGED <<Wanted, Daily!Idle, Undisturbed, Pending, Closing>>
    BY <1>1, <1>5 DEF Wanted, DueToday, Key, Daily!JobOf, Daily!Failed, Daily!Idle, Undisturbed,
                      Pending, Daily!OutOfBudget, Closing
  <2>4. ASSUME Undisturbed, Pending, Wanted + Period <= Closing, Wanted <= now
        PROVE  FALSE
    <3>0. /\ Period \in Nat \ {0} /\ Closing \in Int /\ pol.start \in Int /\ next \in Int
      BY Today, PolicyTimes DEF DayInv, Shapes, Daily!ScheduleAssumption, Closing, Daily!Clock, Midnight
    <3>1. /\ now < Closing /\ DueToday <= now /\ now \in Int /\ Midnight(Daily!Day(now)) \in Int
          /\ Midnight(Daily!Day(now)) + pol.start <= now /\ DueToday \in Int /\ Wanted \in Int
      BY <1>1, <2>4, <3>0, WantedToday, Today DEF DayInv, Attended
    <3>2. Daily!BootDelay(pol, Daily!Day(now)) \in Int
          /\ startedAt + Daily!BootDelay(pol, Daily!Day(now)) <= now
      BY <2>4, <3>1, Today, BootDelays DEF DayInv, Shapes, Undisturbed
    <3>3. ~Daily!Closed(pol, Daily!Day(now))
      BY <3>1, <3>2, PolicyTimes DEF DayInv, Shapes, Daily!Closed, Daily!Clock, Midnight, Closing
    <3>4. Daily!JobOf(Key).state \notin {"SUCCEEDED", "ACTIVE"}
      BY <1>1, <2>4 DEF DayInv, JobsOK, Daily!JobOf, Daily!Nothing, Daily!Idle, Pending
    <3>5. ~Daily!BackingOff(pol, Key)
      <4>1. Daily!RetryAfter(pol, Daily!JobOf(Key).no) \in Int /\ Daily!JobOf(Key).ended \in Int
        BY Retries DEF DayInv, Shapes, JobsOK, Daily!JobOf, Daily!Nothing
      <4>2. QED
        BY <2>4, <3>1, <4>1 DEF Daily!BackingOff, Wanted
    <3>6. Daily!Decide(pol, Daily!Day(now))
      BY <2>4, <3>1, <3>3, <3>4, <3>5 DEF Daily!Decide, Pending, Key, DueToday
    <3>7. QED
      BY <1>5, <2>4, <3>6 DEF Undisturbed
  <2>5. Attended'
    BY <1>1, <2>3, <2>4 DEF Attended
  <2>6. QED
    BY <2>1, <2>2, <2>5 DEF DayInv
<1>6. QED
  BY <1>1, <1>3, <1>4, <1>5 DEF Daily!Tick, Key

\* A new policy, or a start of the service, and the slot is not due before.
LEMMA PolicyKept ==
    ASSUME Daily!ScheduleAssumption, DayInv, NEW c \in Configs, Daily!OnPolicy(c)
    PROVE  DayInv'
<1>1. /\ Daily!Idle /\ Daily!PolicyOK(c) /\ pol' = c /\ accepted' = {c} /\ clear' = now + 1
      /\ UNCHANGED <<now, job, last, going, next, on, startedAt>>
  BY DEF Daily!OnPolicy, Daily!PolicyFromServer
<1>2. Shapes'
  BY <1>1 DEF DayInv, Shapes, Policies
<1>3. JobsOK' /\ RunOK'
  BY <1>1 DEF DayInv, JobsOK, RunOK, Daily!Idle
<1>4. Attended'
  BY <1>1, <1>2, <1>3, Today, Later DEF DayInv
<1>5. QED
  BY <1>2, <1>3, <1>4 DEF DayInv

\* The service ends.
LEMMA StopKept ==
    ASSUME Daily!ScheduleAssumption, DayInv, Daily!Stop
    PROVE  DayInv'
<1>1. /\ on' = FALSE /\ going' = Daily!NoRun
      /\ UNCHANGED <<now, pol, accepted, job, last, next, startedAt, clear>>
  BY DEF Daily!Stop
<1>2. Shapes'
  BY <1>1 DEF DayInv, Shapes
<1>3. JobsOK' /\ RunOK'
  BY <1>1 DEF DayInv, JobsOK, RunOK
<1>4. Attended'
  BY <1>1 DEF Attended, Daily!Idle
<1>5. QED
  BY <1>2, <1>3, <1>4 DEF DayInv

\* A job that was cut off is one that failed now (Boot reconciles it).
LEMMA CutOff ==
    ASSUME NEW r \in [state : {"ACTIVE", "FAILED", "SUCCEEDED"}, no : Nat \ {0}, ended : Int],
           NEW t \in Int
    PROVE  [r EXCEPT !.state = "FAILED", !.ended = t]
               \in [state : {"FAILED", "SUCCEEDED"}, no : Nat \ {0}, ended : Int]
OBVIOUS

\* The service starts again: with its ticker, its policy and no active job.
LEMMA BootKept ==
    ASSUME Daily!ScheduleAssumption, DayInv, Daily!Boot
    PROVE  DayInv'
<1>1. /\ startedAt' = now /\ next' = now /\ clear' = now /\ now' = now
      /\ accepted' = accepted /\ going' = going /\ ~on
  BY DEF Daily!Boot
<1>2. pol' \in accepted \cup {Default}
  BY DEF Daily!Boot
<1>3. now \in 0..MaxNow /\ MaxNow \in Nat /\ Period \in Nat \ {0} /\ going = Daily!NoRun
  BY <1>1 DEF DayInv, Shapes, Daily!ScheduleAssumption, RunOK
<1>4. pol' \in Policies /\ Daily!PolicyOK(pol')
  BY <1>2 DEF DayInv, Shapes, Policies, Daily!ScheduleAssumption
<1>5. Shapes'
  BY <1>1, <1>3, <1>4 DEF DayInv, Shapes
<1>6. JobsOK'
  <2>1. /\ DOMAIN job' = DOMAIN job
        /\ \A k \in DOMAIN job : job[k].state # "ACTIVE" => job'[k] = job[k]
    BY DEF Daily!Boot
  <2>2. \A k \in DOMAIN job : job[k].state = "ACTIVE" =>
            job'[k] = [job[k] EXCEPT !.state = "FAILED", !.ended = now]
    BY DEF Daily!Boot
  <2>3. ASSUME NEW k \in DOMAIN job
        PROVE  job'[k] \in [state : {"FAILED", "SUCCEEDED"}, no : Nat \ {0}, ended : Int]
    <3>1. job[k] \in [state : {"ACTIVE", "FAILED", "SUCCEEDED"}, no : Nat \ {0}, ended : Int]
      BY DEF DayInv, JobsOK
    <3>2. CASE job[k].state = "ACTIVE"
      <4>1. now \in Int
        BY <1>3
      <4>2. QED
        BY <2>2, <3>1, <3>2, <4>1, CutOff
    <3>3. CASE job[k].state # "ACTIVE"
      BY <2>1, <3>1, <3>3
    <3>4. QED
      BY <3>2, <3>3
  <2>4. QED
    BY <2>1, <2>3 DEF JobsOK
<1>7. RunOK'
  BY <1>1, <1>3 DEF RunOK
<1>8. Attended'
  BY <1>1, <1>3, <1>5, <1>6, Later
<1>9. QED
  BY <1>5, <1>6, <1>7, <1>8 DEF DayInv

\* Nothing happens.
LEMMA NothingKept ==
    ASSUME DayInv, UNCHANGED Daily!vars
    PROVE  DayInv'
BY DEF Daily!vars, DayInv, Shapes, JobsOK, RunOK, Attended, Wanted, DueToday, Key, Daily!JobOf,
       Daily!Failed, Daily!Idle,
       Undisturbed, Pending, Daily!OutOfBudget, Closing

\* What the invariant says of an idle agent when a window closes.
LEMMA DayInvImplies ==
    ASSUME Daily!ScheduleAssumption, DayInv
    PROVE  Daily!DayCovered
<1>1. SUFFICES ASSUME Daily!Idle, now >= Closing, DueToday + Period <= Closing, Undisturbed,
                      Daily!JobOf(Key).state # "SUCCEEDED",
                      ~(Daily!JobOf(Key).no >= Daily!MaxAttempts(pol)),
                      ~(Daily!JobOf(Key).no > 0
                        /\ Daily!JobOf(Key).ended + Daily!RetryAfter(pol, Daily!JobOf(Key).no)
                             + Period > Closing)
               PROVE  FALSE
  BY DEF Daily!DayCovered, Closing, DueToday, Key, Undisturbed
<1>2. Pending
  BY <1>1 DEF Pending, Daily!OutOfBudget
<1>3. /\ Wanted \in Int /\ now \in Int /\ DueToday \in Int /\ Period \in Nat \ {0}
      /\ next \in Int /\ Closing \in Int
  BY WantedToday, Today, PolicyTimes
     DEF DayInv, Shapes, Daily!ScheduleAssumption, Closing, Daily!Clock, Midnight
<1>4. Wanted + Period <= Closing
  <2>1. Daily!Failed(Key) => Daily!JobOf(Key).no > 0
    BY DEF DayInv, JobsOK, Daily!Failed, Daily!JobOf, Daily!Nothing
  <2>2. Daily!RetryAfter(pol, Daily!JobOf(Key).no) \in Int /\ Daily!JobOf(Key).ended \in Int
    BY Retries DEF DayInv, Shapes, JobsOK, Daily!JobOf, Daily!Nothing
  <2>3. QED
    BY <1>1, <1>3, <2>1, <2>2 DEF Wanted
<1>5. QED
  BY <1>1, <1>2, <1>3, <1>4 DEF DayInv, Attended

\* Every step of the agent keeps the invariant.
LEMMA DayKept ==
    ASSUME Daily!ScheduleAssumption, DayInv, [Daily!Next]_(Daily!vars)
    PROVE  DayInv'
BY PassKept, RunEndsKept, TickKept, PolicyKept, StopKept, BootKept, NothingKept DEF Daily!Next

\* A behaviour of the schedule keeps the invariant.
THEOREM DayInvariant ==
    ASSUME Daily!ScheduleAssumption
    PROVE  Daily!Spec => []DayInv
<1>1. Daily!Init => DayInv
  BY BeginsWell
<1>2. DayInv /\ [Daily!Next]_(Daily!vars) => DayInv'
  BY DayKept
<1>3. QED
  BY <1>1, <1>2, PTL DEF Daily!Spec

\* An agent that waits for leases as well keeps its schedule as Schedule
\* says, and the leases are those of WanAdmission: what the theorems above
\* say of Spec holds of the two together.
THEOREM DailyImplementsParts ==
    PartsSpec => Daily!Spec /\ Spec
<1>1. PartsInit => Daily!Init /\ Init
  BY DEF PartsInit
<1>2. [PartsNext]_<<part, vars, scheduleVars>> =>
          [Daily!Next]_(Daily!vars) /\ [Next]_vars
  BY DEF PartsNext, vars, scheduleVars, Daily!vars
<1>3. QED
  BY <1>1, <1>2, PTL DEF PartsSpec, Daily!Spec, Spec

\* scheduler.Decide, the ticker and deadlineFor together back up every day:
\* for any policy, hash of a slot, period of the ticker and length of a day.
THEOREM DaysCovered ==
    ASSUME Daily!ScheduleAssumption
    PROVE  PartsSpec => []DayCovered
<1>1. DayInv => DayCovered
  BY DayInvImplies DEF DayCovered
<1>2. QED
  BY <1>1, DayInvariant, DailyImplementsParts, PTL

=============================================================================
