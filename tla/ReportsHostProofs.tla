-------------------------- MODULE ReportsHostProofs --------------------------
(***************************************************************************)
(* What AttemptReports keeps for every set of attempts and every number of *)
(* lost answers: no report is lost, whatever the clock does; and, for a    *)
(* clock that was not set back, the last success on record is the newest, *)
(* never moves back, and every catalog request finds its snapshot.  And    *)
(* what AgentHost keeps for every set of builds and every bound: the copy  *)
(* an unproven build would be replaced by, and a proven build itself.      *)
(***************************************************************************)
EXTENDS ReportsHost, TLAPS

-----------------------------------------------------------------------------
(* Types.                                                                  *)

LEMMA InitTypeOK == Init => TypeOK
BY ReportAssumption
DEF Init, TypeOK, Rows, RequestType, NoRequest, NoRow, NoSuccess, Outcomes, Nothing

LEMMA AppendType ==
    ASSUME TypeOK, NEW a \in Attempts, NEW type \in Types, Append(a, type)
    PROVE  clock' \in 1..(MaxClock + 1) /\ outbox' \subseteq Rows /\ clock \in 1..MaxClock
<1>1. clock \in 1..MaxClock /\ clock' = clock + 1
  BY ReportAssumption DEF TypeOK, Append
<1>2. [a |-> a, type |-> type, at |-> clock] \in Rows
  BY <1>1 DEF Rows
<1>3. QED
  BY <1>1, <1>2, ReportAssumption DEF TypeOK, Append

\* Every step keeps the types, one case per action.
LEMMA NextTypeOK ==
    ASSUME TypeOK, [Next]_vars
    PROVE  TypeOK'
<1> USE ReportAssumption
<1>1. ASSUME NEW a \in Attempts, NEW o \in Outcomes, BackupEnds(a, o)
      PROVE  TypeOK'
  <2>1. "terminal" \in Types /\ Append(a, "terminal")
    BY <1>1 DEF Types, BackupEnds
  <2>2. clock' \in 1..(MaxClock + 1) /\ outbox' \subseteq Rows /\ clock \in 1..MaxClock
    BY <2>1, AppendType
  <2>3. result' \in [Attempts -> Outcomes \cup {"none"}] /\ stamp' \in [Attempts -> 0..MaxClock]
    BY <1>1, <2>2 DEF TypeOK, BackupEnds
  <2>4. owed' \subseteq Attempts
    BY <1>1 DEF TypeOK, BackupEnds
  <2>5. QED
    BY <1>1, <2>2, <2>3, <2>4 DEF TypeOK, BackupEnds, serverVars
<1>2. ASSUME NEW a \in Attempts, QueueCatalog(a)
      PROVE  TypeOK'
  <2>1. "catalog" \in Types /\ Append(a, "catalog")
    BY <1>2 DEF Types, QueueCatalog
  <2>2. clock' \in 1..(MaxClock + 1) /\ outbox' \subseteq Rows
    BY <2>1, AppendType
  <2>3. QED
    BY <1>2, <2>2 DEF TypeOK, QueueCatalog, serverVars
<1>3. ASSUME NEW a \in Attempts, SkipCatalog(a)
      PROVE  TypeOK'
  BY <1>3 DEF TypeOK, SkipCatalog, flushVars, serverVars
<1>4. CASE SetClockBack
  BY <1>4 DEF TypeOK, SetClockBack, flushVars, serverVars
<1>5. CASE ReadOutbox
  BY <1>5 DEF TypeOK, ReadOutbox, agentVars, serverVars
<1>6. CASE SendReport
  <2>1. PICK e \in Oldest(rows) :
          cur' = e /\ req' = [req EXCEPT ![lost] = [phase |-> "sent", a |-> e.a, seen |-> 0]]
    BY <1>6 DEF SendReport
  <2>2. e \in Rows /\ e.a \in Attempts
    BY <2>1 DEF TypeOK, Oldest, Rows
  <2>3. [phase |-> "sent", a |-> e.a, seen |-> 0] \in RequestType
    BY <2>2 DEF RequestType
  <2>4. QED
    BY <1>6, <2>1, <2>2, <2>3 DEF TypeOK, SendReport, agentVars, serverVars
<1>7. CASE Answered
  <2>1. NoRequest \in RequestType
    BY DEF RequestType
  <2>2. QED
    BY <1>7, <2>1 DEF TypeOK, Answered, agentVars, serverVars
<1>8. CASE GiveUp
  <2>1. NoRequest \in RequestType
    BY DEF RequestType
  <2>2. QED
    BY <1>8, <2>1 DEF TypeOK, GiveUp, agentVars, serverVars
<1>9. CASE FlushCatalog
  <2>1. PICK e \in Oldest(rows) :
          /\ e.a \in snaps
          /\ outbox' = outbox \ {e} /\ rows' = rows \ {e}
          /\ ready' \in {ready, ready \cup ({e.a} \ TooLong)}
    BY <1>9 DEF FlushCatalog
  <2>2. QED
    BY <1>9, <2>1 DEF TypeOK, FlushCatalog, agentVars, serverVars
<1>10. CASE RefuseCatalog
  BY <1>10 DEF TypeOK, RefuseCatalog, agentVars, serverVars
<1>11. CASE LoseCatalog
  BY <1>11 DEF TypeOK, LoseCatalog, agentVars, serverVars
<1>12. CASE FlushEnds
  BY <1>12 DEF TypeOK, FlushEnds, agentVars, serverVars
<1>13. ASSUME NEW i \in 0..MaxLost, Load(i)
       PROVE  TypeOK'
  <2>1. req[i] \in [phase : {"sent", "loaded", "ok", "error"}, a : Attempts, seen : 0..MaxClock]
    BY <1>13 DEF TypeOK, RequestType, NoRequest, Load
  <2>2. success.at \in 0..MaxClock
    BY DEF TypeOK
  <2>3. /\ [req[i] EXCEPT !.phase = "ok"] \in RequestType
        /\ [req[i] EXCEPT !.phase = "loaded", !.seen = success.at] \in RequestType
    BY <2>1, <2>2 DEF RequestType
  <2>4. \/ req' = [req EXCEPT ![i] = [req[i] EXCEPT !.phase = "ok"]]
        \/ req' = [req EXCEPT ![i] = [req[i] EXCEPT !.phase = "loaded", !.seen = success.at]]
    BY <1>13, <2>1 DEF TypeOK, Load
  <2>5. QED
    BY <1>13, <2>3, <2>4 DEF TypeOK, Load, agentVars, flushVars, serverVars
<1>14. ASSUME NEW i \in 0..MaxLost, Commit(i)
       PROVE  TypeOK'
  <2>1. req[i] \in [phase : {"sent", "loaded", "ok", "error"}, a : Attempts, seen : 0..MaxClock]
    BY <1>14 DEF TypeOK, RequestType, NoRequest, Commit
  <2>2. /\ [req[i] EXCEPT !.phase = "ok"] \in RequestType
        /\ [req[i] EXCEPT !.phase = "error"] \in RequestType
    BY <2>1 DEF RequestType
  <2>3. \/ req' = [req EXCEPT ![i] = [req[i] EXCEPT !.phase = "ok"]]
        \/ req' = [req EXCEPT ![i] = [req[i] EXCEPT !.phase = "error"]]
    BY <1>14, <2>1 DEF TypeOK, Commit
  <2>4. req' \in [0..MaxLost -> RequestType]
    BY <2>2, <2>3 DEF TypeOK
  <2>5. req[i].a \in Attempts /\ stamp[req[i].a] \in 0..MaxClock
    BY <2>1 DEF TypeOK
  <2>6. QED
    BY <1>14, <2>4, <2>5, SMTT(30) DEF TypeOK, Commit, agentVars, flushVars
<1>15. CASE UNCHANGED vars
  BY <1>15 DEF TypeOK, vars, agentVars, flushVars, serverVars
<1>16. QED
  BY <1>1, <1>2, <1>3, <1>4, <1>5, <1>6, <1>7, <1>8, <1>9, <1>10, <1>11, <1>12, <1>13,
     <1>14, <1>15 DEF Next, Flush, Ingest

\* Type correctness: no step takes a variable out of its type.
THEOREM ReportsTypeCorrect == Spec => []TypeOK
BY InitTypeOK, NextTypeOK, PTL DEF Spec

-----------------------------------------------------------------------------
(* No report is lost.  FlushShape is what makes it inductive: the row that *)
(* an answer acknowledges is the row of the attempt the answer is about.   *)

\* A commit answers its request and records its attempt unless it is there.
LEMMA CommitFacts ==
    ASSUME TypeOK, NEW i \in 0..MaxLost, Commit(i)
    PROVE  /\ req[i].a \in Attempts /\ req[i].seen \in 0..MaxClock
           /\ req'[i].a = req[i].a
           /\ req'[i].phase \in {"ok", "error"}
           /\ req'[i].phase = "ok" => req[i].a \in known'
           /\ \A j \in 0..MaxLost : j # i => req'[j] = req[j]
<1>1. req[i] \in [phase : {"sent", "loaded", "ok", "error"}, a : Attempts, seen : 0..MaxClock]
  BY DEF TypeOK, RequestType, NoRequest, Commit
<1>2. CASE req[i].a \in known
  <2>1. req' = [req EXCEPT ![i] = [req[i] EXCEPT !.phase = "error"]]
    BY <1>1, <1>2 DEF TypeOK, Commit
  <2>2. QED
    BY <1>1, <2>1 DEF TypeOK
<1>3. CASE req[i].a \notin known
  <2>1. req' = [req EXCEPT ![i] = [req[i] EXCEPT !.phase = "ok"]] /\ req[i].a \in known'
    BY <1>1, <1>3 DEF TypeOK, Commit
  <2>2. QED
    BY <1>1, <2>1 DEF TypeOK
<1>4. QED
  BY <1>2, <1>3

LEMMA KeptInvHolds == Spec => []KeptInv
<1>1. Init => KeptInv
  BY InitTypeOK
  DEF Init, KeptInv, FlushShape, ReportsKept, Ended, NoRequest
<1>2. KeptInv /\ [Next]_vars => KeptInv'
  <2> SUFFICES ASSUME KeptInv, [Next]_vars
               PROVE  KeptInv'
    OBVIOUS
  <2> USE DEF KeptInv
  <2>1. TypeOK'
    BY NextTypeOK
  <2>2. ASSUME NEW a \in Attempts, NEW o \in Outcomes, BackupEnds(a, o)
        PROVE  FlushShape' /\ ReportsKept'
    <3>1. FlushShape'
      BY <2>2 DEF FlushShape, BackupEnds, Append, serverVars
    <3>2. Terminal(a)' \in outbox'
      BY <2>2 DEF BackupEnds, Append, Terminal, TypeOK
    <3>3. ASSUME NEW b \in Attempts, b # a, Ended(b)'
          PROVE  b \in known' \/ Terminal(b)' \in outbox'
      <4>1. Ended(b) /\ Terminal(b)' = Terminal(b)
        BY <2>2, <3>3 DEF BackupEnds, Terminal, Ended, TypeOK
      <4>2. QED
        BY <2>2, <4>1 DEF ReportsKept, BackupEnds, Append, serverVars
    <3>4. QED
      BY <3>1, <3>2, <3>3 DEF ReportsKept
  <2>3. ASSUME NEW a \in Attempts, QueueCatalog(a)
        PROVE  FlushShape' /\ ReportsKept'
    BY <2>3 DEF FlushShape, ReportsKept, Ended, Terminal, QueueCatalog, Append, serverVars
  <2>4. CASE \/ \E a \in Attempts : SkipCatalog(a)
             \/ SetClockBack
             \/ UNCHANGED vars
    BY <2>1, <2>4 DEF FlushShape, ReportsKept, Ended, Terminal, SkipCatalog, SetClockBack, vars,
                agentVars, flushVars, serverVars
  <2>5. CASE ReadOutbox \/ RefuseCatalog \/ FlushEnds
    BY <2>1, <2>5 DEF FlushShape, ReportsKept, Ended, Terminal, ReadOutbox, RefuseCatalog,
                FlushEnds, agentVars, serverVars
  <2>6. CASE SendReport
    <3>1. PICK e \in rows :
            /\ e.type = "terminal" /\ cur' = e
            /\ req' = [req EXCEPT ![lost] = [phase |-> "sent", a |-> e.a, seen |-> 0]]
      BY <2>6 DEF SendReport, Oldest
    <3>2. req'[lost] = [phase |-> "sent", a |-> e.a, seen |-> 0]
      BY <3>1 DEF TypeOK
    <3>3. \A i \in 0..MaxLost : i # lost => req'[i] = req[i]
      BY <3>1 DEF TypeOK
    <3>4. FlushShape'
      BY <2>6, <3>1, <3>2, <3>3 DEF FlushShape, SendReport, agentVars, serverVars
    <3>5. QED
      BY <2>1, <2>6, <3>4 DEF ReportsKept, Ended, Terminal, SendReport, agentVars, serverVars
  <2>7. CASE Answered
    <3>1. \A i \in 0..MaxLost : req'[i] = IF i = lost THEN NoRequest ELSE req[i]
      BY <2>7 DEF Answered, TypeOK
    <3>2. FlushShape'
      BY <2>7, <3>1 DEF FlushShape, Answered, NoRequest, agentVars, serverVars
    <3>3. req[lost].phase = "ok" => cur.a \in known
      BY <2>7 DEF Answered, FlushShape, TypeOK
    <3>4. \A a \in Attempts : Terminal(a) = cur => a = cur.a
      BY DEF Terminal
    <3>5. QED
      BY <2>1, <2>7, <3>2, <3>3, <3>4
      DEF ReportsKept, Ended, Terminal, Answered, agentVars, serverVars
  <2>8. CASE GiveUp
    <3>1. \A i \in 0..MaxLost : req'[i] \in {NoRequest, req[i]}
      BY <2>8 DEF GiveUp, TypeOK
    <3>2. QED
      BY <2>1, <2>8, <3>1
      DEF FlushShape, ReportsKept, Ended, Terminal, GiveUp, NoRequest, agentVars, serverVars
  <2>9. CASE FlushCatalog
    <3>1. PICK e \in rows : /\ e.type = "catalog"
                            /\ outbox' = outbox \ {e} /\ rows' = rows \ {e}
      BY <2>9 DEF FlushCatalog, Oldest
    <3>2. \A a \in Attempts : Terminal(a) # e
      BY <3>1 DEF Terminal
    <3>3. QED
      BY <2>1, <2>9, <3>1, <3>2
      DEF FlushShape, ReportsKept, Ended, Terminal, FlushCatalog, agentVars, serverVars
  <2>10. CASE LoseCatalog
    BY <2>1, <2>10 DEF FlushShape, ReportsKept, Ended, Terminal, LoseCatalog, agentVars, serverVars
  <2>11. ASSUME NEW i \in 0..MaxLost, Load(i)
         PROVE  FlushShape' /\ ReportsKept'
    <3>1. \A j \in 0..MaxLost : j # i => req'[j] = req[j]
      BY <2>11 DEF Load, TypeOK
    <3>2. /\ req'[i].a = req[i].a
          /\ req'[i].phase \in {"ok", "loaded"}
          /\ req'[i].phase = "ok" => req[i].a \in known
      BY <2>11 DEF Load, TypeOK, RequestType, NoRequest
    <3>3. QED
      BY <2>11, <3>1, <3>2
      DEF FlushShape, ReportsKept, Ended, Terminal, Load, agentVars, flushVars, serverVars,
          TypeOK
  <2>12. ASSUME NEW i \in 0..MaxLost, Commit(i)
         PROVE  FlushShape' /\ ReportsKept'
    <3>1. \A j \in 0..MaxLost : j # i => req'[j] = req[j]
      BY <2>12 DEF Commit, TypeOK
    <3>2. /\ req'[i].a = req[i].a
          /\ req'[i].phase \in {"ok", "error"}
          /\ req'[i].phase = "ok" => req[i].a \in known'
      BY <2>12, CommitFacts
    <3>3. known \subseteq known'
      BY <2>12 DEF Commit
    <3>4. UNCHANGED <<agentVars, flushVars, lost>>
      BY <2>12 DEF Commit
    <3>5. \A j \in 0..MaxLost : /\ req'[j].a = req[j].a
                                /\ req[j].phase # "none" => req'[j].phase # "none"
                                /\ req'[j].phase = "ok" => req'[j].a \in known'
      BY <3>1, <3>2, <3>3 DEF FlushShape
    <3>6. FlushShape'
      BY <3>4, <3>5 DEF FlushShape, flushVars, TypeOK
    <3>7. QED
      BY <3>3, <3>4, <3>6 DEF ReportsKept, Ended, Terminal, agentVars, flushVars
  <2>13. QED
    BY <2>1, <2>2, <2>3, <2>4, <2>5, <2>6, <2>7, <2>8, <2>9, <2>10, <2>11, <2>12
    DEF Next, Flush, Ingest
<1>3. QED
  BY <1>1, <1>2, PTL DEF Spec

\* No report is lost (flushOutbox acknowledges a row only once ingest_attempt
\* has recorded its attempt), however often the clock is set back.
THEOREM ReportsAreKept == Spec => []ReportsKept
BY KeptInvHolds, PTL DEF KeptInv

-----------------------------------------------------------------------------
(* A clock that was not set back.  The rows of the outbox are then older  *)
(* the sooner they were appended, and what was ever sent is not newer than *)
(* anything still queued: this is what keeps a request that commits late   *)
(* from moving the last success back.                                      *)

\* Where an attempt the server does not know has been sent, no known one
\* ended later, and what its request read is not later either.
LEMMA SentInOrder ==
    ASSUME OrderInv, NEW i \in 0..MaxLost, req[i].phase = "loaded", req[i].a \notin known
    PROVE  /\ req[i].a \in Attempts /\ Terminal(req[i].a) \in outbox
           /\ stamp[req[i].a] \in Nat
           /\ success.at <= stamp[req[i].a]
           /\ \A b \in known : stamp[b] <= stamp[req[i].a]
           /\ ~Stale(req[i])
<1> USE DEF OrderInv, KeptInv
<1>1. req[i].a \in Attempts /\ Ended(req[i].a)
  BY DEF OrderShape
<1>2. Terminal(req[i].a) \in outbox
  BY <1>1 DEF ReportsKept
<1>3. Terminal(req[i].a).at = stamp[req[i].a] /\ stamp[req[i].a] \in Nat
  BY <1>1, ReportAssumption DEF Terminal, TypeOK
<1>4. \A b \in known : stamp[b] <= stamp[req[i].a]
  BY <1>2, <1>3 DEF OrderShape
<1>5. success.at <= stamp[req[i].a]
  BY <1>3, <1>4 DEF SuccessShape, NoSuccess
<1>6. req[i].seen <= success.at /\ req[i].seen \in Nat /\ success.at \in Nat
  BY ReportAssumption DEF OrderShape, TypeOK, RequestType, NoRequest
<1>7. QED
  BY <1>1, <1>2, <1>3, <1>4, <1>5, <1>6 DEF Stale

\* A commit that is not refused records its attempt as the newest.
LEMMA CommitInOrder ==
    ASSUME OrderInv, NEW i \in 0..MaxLost, Commit(i)
    PROVE  \/ /\ req[i].a \in known
              /\ UNCHANGED <<known, success, snaps>>
           \/ /\ req[i].a \notin known
              /\ known' = known \cup {req[i].a}
              /\ IF result[req[i].a] = "SUCCEEDED"
                 THEN /\ success' = [a |-> req[i].a, at |-> stamp[req[i].a]]
                      /\ snaps' = snaps \cup {req[i].a}
                 ELSE UNCHANGED <<success, snaps>>
<1>1. CASE req[i].a \in known
  BY <1>1 DEF Commit
<1>2. CASE req[i].a \notin known
  <2>1. ~Stale(req[i])
    BY <1>2, SentInOrder DEF Commit
  <2>2. QED
    BY <1>2, <2>1 DEF Commit
<1>3. QED
  BY <1>1, <1>2

\* Every step keeps the order, one case per action.
LEMMA NextInOrder ==
    ASSUME backs' = 0, OrderInv, KeptInv', [Next]_vars
    PROVE  EventShape' /\ OrderShape' /\ SuccessShape'
<1> USE DEF OrderInv, KeptInv
<1> DEFINE Kept == EventShape' /\ OrderShape' /\ SuccessShape'
<1>1. ASSUME NEW a \in Attempts, NEW type \in Types, Append(a, type), Ended(a)'
      PROVE  /\ \A e \in outbox, f \in outbox' \ outbox : e.at < f.at
             /\ \A b \in Attempts, f \in outbox' \ outbox : Ended(b) => stamp[b] < f.at
             /\ clock \in Nat /\ clock' = clock + 1
             /\ outbox' \ outbox \subseteq {[a |-> a, type |-> type, at |-> clock]}
  BY <1>1, ReportAssumption, SMTT(30) DEF Append, EventShape, TypeOK, Rows
<1>2. ASSUME NEW a \in Attempts, NEW o \in Outcomes, BackupEnds(a, o)
      PROVE  Kept
  <2>1. /\ Append(a, "terminal") /\ "terminal" \in Types /\ ~Ended(a)
        /\ result' = [result EXCEPT ![a] = o] /\ stamp' = [stamp EXCEPT ![a] = clock]
        /\ owed' \subseteq owed \cup {a} /\ (a \in owed' => o = "SUCCEEDED" \/ a \in owed)
        /\ UNCHANGED <<rows, req, known, success, snaps>>
    BY <1>2 DEF BackupEnds, Ended, Types, serverVars
  <2>2. /\ \A b \in Attempts : b # a => result'[b] = result[b] /\ stamp'[b] = stamp[b]
        /\ result'[a] = o /\ stamp'[a] = clock /\ Ended(a)'
    BY <2>1 DEF TypeOK, Ended, Outcomes
  <2>3. /\ \A e \in outbox, f \in outbox' \ outbox : e.at < f.at
        /\ \A b \in Attempts, f \in outbox' \ outbox : Ended(b) => stamp[b] < f.at
        /\ clock \in Nat /\ clock' = clock + 1
        /\ outbox' \ outbox \subseteq {[a |-> a, type |-> "terminal", at |-> clock]}
    BY <1>1, <2>1, <2>2
  <2>4. \A e \in outbox : e.a \in Attempts /\ e.a # a /\ e.at \in Nat
    BY <2>1, ReportAssumption DEF EventShape, TypeOK, Rows
  <2>5. a \notin known /\ a \notin owed /\ \A b \in known : b \in Attempts
    BY <2>1 DEF OrderShape, EventShape, Ended, TypeOK
  <2>6. EventShape'
    <3>1. \A e \in outbox' :
             /\ e.at < clock' /\ Ended(e.a)'
             /\ e.type = "terminal" => e.at = stamp'[e.a]
             /\ e.type = "catalog" => result'[e.a] = "SUCCEEDED" /\ stamp'[e.a] < e.at
      BY <2>2, <2>3, <2>4 DEF EventShape, Ended
    <3>2. \A b \in Attempts : Ended(b)' => stamp'[b] \in 1..(clock' - 1)
      BY <2>2, <2>3, SMTT(30) DEF EventShape, Ended, TypeOK
    <3>3. \A b \in owed' : result'[b] = "SUCCEEDED"
      BY <2>1, <2>2, <2>5 DEF EventShape, TypeOK
    <3>4. \A e \in rows', f \in outbox' \ rows' : e.at <= f.at
      BY <2>1, <2>3, <2>4 DEF EventShape, FlushShape, TypeOK, Rows
    <3>5. QED
      BY <3>1, <3>2, <3>3, <3>4 DEF EventShape
  <2>7. OrderShape'
    <3>1. \A i \in 0..MaxLost : req[i].phase # "none" => req[i].a \in Attempts /\ req[i].a # a
      BY <2>1 DEF OrderShape
    <3>2. \A b \in Attempts : stamp[b] \in Nat
      BY ReportAssumption DEF TypeOK
    <3>3. QED
      BY <2>1, <2>2, <2>3, <2>5, <3>1, <3>2 DEF OrderShape, Ended
  <2>8. SuccessShape'
    BY <2>1, <2>2, <2>5 DEF SuccessShape
  <2>9. QED
    BY <2>6, <2>7, <2>8
<1>3. ASSUME NEW a \in Attempts, QueueCatalog(a)
      PROVE  Kept
  <2>1. /\ Append(a, "catalog") /\ "catalog" \in Types /\ a \in owed
        /\ owed' = owed \ {a}
        /\ UNCHANGED <<result, stamp, rows, req, known, success, snaps>>
    BY <1>3 DEF QueueCatalog, Types, serverVars
  <2>2. result[a] = "SUCCEEDED" /\ Ended(a)' /\ Ended(a)
    BY <2>1 DEF EventShape, Ended
  <2>3. /\ \A e \in outbox, f \in outbox' \ outbox : e.at < f.at
        /\ \A b \in Attempts, f \in outbox' \ outbox : Ended(b) => stamp[b] < f.at
        /\ clock \in Nat /\ clock' = clock + 1
        /\ outbox' \ outbox \subseteq {[a |-> a, type |-> "catalog", at |-> clock]}
    BY <1>1, <2>1, <2>2, SMTT(30)
  <2>4. \A e \in outbox : e.a \in Attempts /\ e.at \in Nat
    BY ReportAssumption, SMTT(30) DEF TypeOK, Rows
  <2>5. \A b \in Attempts : stamp[b] \in Nat
    BY ReportAssumption DEF TypeOK
  <2>6. EventShape'
    <3>1. \A e \in outbox' :
             /\ e.at < clock' /\ Ended(e.a)'
             /\ e.type = "terminal" => e.at = stamp'[e.a]
             /\ e.type = "catalog" => result'[e.a] = "SUCCEEDED" /\ stamp'[e.a] < e.at
      BY <2>1, <2>2, <2>3, <2>4 DEF EventShape, Ended
    <3>2. \A b \in Attempts : Ended(b)' => stamp'[b] \in 1..(clock' - 1)
      BY <2>1, <2>3, <2>5 DEF EventShape, Ended
    <3>3. \A e \in rows', f \in outbox' \ rows' : e.at <= f.at
      BY <2>1, <2>3, <2>4 DEF EventShape, FlushShape
    <3>4. QED
      BY <2>1, <3>1, <3>2, <3>3 DEF EventShape
  <2>7. OrderShape'
    <3>1. /\ \A b \in Attempts : Ended(b)' <=> Ended(b)
          /\ stamp' = stamp /\ req' = req /\ known' = known /\ success' = success
      BY <2>1 DEF Ended
    <3>2. \A b \in Attempts : Ended(b) /\ (\A f \in outbox : stamp[b] <= f.at)
                              => \A f \in outbox' : stamp[b] <= f.at
      BY <2>3, <2>5 DEF Rows
    <3>3. known \subseteq Attempts
      BY DEF TypeOK
    <3>4. QED
      BY <3>1, <3>2, <3>3 DEF OrderShape
  <2>8. SuccessShape'
    BY <2>1 DEF SuccessShape
  <2>9. QED
    BY <2>6, <2>7, <2>8
<1>4. ASSUME NEW a \in Attempts, SkipCatalog(a)
      PROVE  Kept
  BY <1>4 DEF SkipCatalog, EventShape, OrderShape, SuccessShape, Ended, flushVars, serverVars
<1>5. ~SetClockBack
  <2>1. backs \in Nat
    BY ReportAssumption DEF TypeOK
  <2>2. QED
    BY <2>1 DEF SetClockBack
<1>6. CASE ReadOutbox
  BY <1>6 DEF ReadOutbox, EventShape, OrderShape, SuccessShape, Ended, agentVars, serverVars
<1>7. CASE SendReport
  <2>1. PICK e \in Oldest(rows) :
          /\ e.type = "terminal"
          /\ req' = [req EXCEPT ![lost] = [phase |-> "sent", a |-> e.a, seen |-> 0]]
    BY <1>7 DEF SendReport
  <2>2. \A i \in 0..MaxLost :
           req'[i] = IF i = lost THEN [phase |-> "sent", a |-> e.a, seen |-> 0] ELSE req[i]
    BY <2>1 DEF TypeOK
  <2>3. e \in outbox /\ \A f \in outbox : e.at <= f.at
    BY DEF Oldest, FlushShape, EventShape
  <2>4. e.a \in Attempts /\ Ended(e.a) /\ e.at = stamp[e.a]
    BY <2>1, <2>3 DEF EventShape, TypeOK, Rows
  <2>5. UNCHANGED <<agentVars, outbox, rows, serverVars>>
    BY <1>7 DEF SendReport
  <2>6. QED
    BY <2>2, <2>3, <2>4, <2>5
    DEF EventShape, OrderShape, SuccessShape, Ended, agentVars, serverVars
<1>8. CASE Answered
  <2>1. \A i \in 0..MaxLost : req'[i] = IF i = lost THEN NoRequest ELSE req[i]
    BY <1>8 DEF Answered, TypeOK
  <2>2. /\ outbox' \subseteq outbox
        /\ rows' = {} \/ (rows' = rows \ {cur} /\ outbox' = outbox \ {cur} /\ cur \in rows)
        /\ UNCHANGED <<agentVars, serverVars>>
    BY <1>8 DEF Answered, FlushShape
  <2>3. QED
    BY <2>1, <2>2
    DEF EventShape, OrderShape, SuccessShape, NoRequest, Ended, agentVars, serverVars
<1>9. CASE GiveUp
  <2>1. \A i \in 0..MaxLost : req'[i] \in {NoRequest, req[i]}
    BY <1>9 DEF GiveUp, TypeOK
  <2>2. rows' = {} /\ UNCHANGED <<agentVars, outbox, serverVars>>
    BY <1>9 DEF GiveUp
  <2>3. QED
    BY <2>1, <2>2
    DEF EventShape, OrderShape, SuccessShape, NoRequest, Ended, agentVars, serverVars
<1>10. CASE FlushCatalog
  <2>1. PICK e \in rows : outbox' = outbox \ {e} /\ rows' = rows \ {e}
    BY <1>10 DEF FlushCatalog, Oldest
  <2>2. UNCHANGED <<agentVars, req, serverVars>>
    BY <1>10 DEF FlushCatalog
  <2>3. QED
    BY <2>1, <2>2 DEF EventShape, OrderShape, SuccessShape, Ended, agentVars, serverVars
<1>11. CASE RefuseCatalog \/ LoseCatalog \/ FlushEnds
  <2>1. rows' = {} /\ UNCHANGED <<agentVars, outbox, req, serverVars>>
    BY <1>11 DEF RefuseCatalog, LoseCatalog, FlushEnds
  <2>2. QED
    BY <2>1 DEF EventShape, OrderShape, SuccessShape, Ended, agentVars, serverVars
<1>12. ASSUME NEW i \in 0..MaxLost, Load(i)
       PROVE  Kept
  <2>1. \A j \in 0..MaxLost : j # i => req'[j] = req[j]
    BY <1>12 DEF Load, TypeOK
  <2>2. /\ req'[i].a = req[i].a /\ req[i].phase # "none"
        /\ req'[i].phase = "loaded" => req'[i].seen = success.at
    BY <1>12 DEF Load, TypeOK, RequestType, NoRequest
  <2>3. UNCHANGED <<agentVars, flushVars, serverVars>> /\ success.at \in Int
    BY <1>12 DEF Load, TypeOK
  <2>4. QED
    BY <2>1, <2>2, <2>3
    DEF EventShape, OrderShape, SuccessShape, Ended, agentVars, flushVars, serverVars
<1>13. ASSUME NEW i \in 0..MaxLost, Commit(i)
       PROVE  Kept
  <2>1. UNCHANGED <<agentVars, flushVars>> /\ req[i].phase = "loaded"
    BY <1>13 DEF Commit
  <2>2. /\ req[i].a \in Attempts /\ req'[i].a = req[i].a
        /\ req'[i].phase \in {"ok", "error"}
        /\ \A j \in 0..MaxLost : j # i => req'[j] = req[j]
    BY <1>13, CommitFacts
  <2>3. EventShape'
    BY <2>1 DEF EventShape, Ended, agentVars, flushVars
  <2>4. CASE req[i].a \in known
    <3>1. UNCHANGED <<known, success, snaps>>
      BY <1>13, <2>4, CommitInOrder
    <3>2. QED
      BY <2>1, <2>2, <2>3, <3>1
      DEF OrderShape, SuccessShape, Ended, agentVars, flushVars
  <2>5. CASE req[i].a \notin known
    <3>1. /\ known' = known \cup {req[i].a}
          /\ IF result[req[i].a] = "SUCCEEDED"
             THEN /\ success' = [a |-> req[i].a, at |-> stamp[req[i].a]]
                  /\ snaps' = snaps \cup {req[i].a}
             ELSE UNCHANGED <<success, snaps>>
      BY <1>13, <2>5, CommitInOrder
    <3>2. /\ success.at <= stamp[req[i].a] /\ stamp[req[i].a] \in Nat
          /\ \A b \in known : stamp[b] <= stamp[req[i].a]
      BY <2>1, <2>5, SentInOrder
    <3>3. /\ success.at <= success'.at /\ success.at \in Int /\ success'.at \in Int
          /\ \A j \in 0..MaxLost : req[j].phase = "loaded" => req[j].seen \in Int
      BY <3>1, <3>2, ReportAssumption DEF TypeOK, RequestType, NoRequest
    <3>4. OrderShape'
      BY <2>1, <2>2, <3>1, <3>3 DEF OrderShape, Ended, agentVars, flushVars
    <3>5. SuccessShape'
      BY <2>1, <2>2, <3>1, <3>2, <3>3 DEF SuccessShape, agentVars, flushVars, TypeOK
    <3>6. QED
      BY <2>3, <3>4, <3>5
  <2>6. QED
    BY <2>4, <2>5
<1>14. CASE UNCHANGED vars
  BY <1>14
  DEF vars, agentVars, flushVars, serverVars, EventShape, OrderShape, SuccessShape, Ended
<1>15. QED
  BY <1>2, <1>3, <1>4, <1>5, <1>6, <1>7, <1>8, <1>9, <1>10, <1>11, <1>12, <1>13, <1>14
  DEF Next, Flush, Ingest

\* The count of the times the clock was set back only grows.
LEMMA BacksGrow == ASSUME TypeOK, [Next]_vars, backs' = 0 PROVE backs = 0
<1>1. backs \in Nat
  BY ReportAssumption DEF TypeOK
<1>2. CASE SetClockBack
  BY <1>1, <1>2 DEF SetClockBack
<1>3. CASE ~SetClockBack
  BY <1>3
  DEF Next, Flush, Ingest, BackupEnds, QueueCatalog, SkipCatalog, ReadOutbox,
      SendReport, Answered, GiveUp, FlushCatalog, RefuseCatalog, LoseCatalog, FlushEnds,
      Load, Commit, vars, agentVars
<1>4. QED
  BY <1>2, <1>3

LEMMA ClockInvHolds == Spec => []ClockInv
<1>1. Init => EventShape /\ OrderShape /\ SuccessShape
  BY DEF Init, EventShape, OrderShape, SuccessShape, Ended, NoRequest
<1>2. Init /\ KeptInv => ClockInv
  BY <1>1 DEF ClockInv, OrderInv
<1>3. ClockInv /\ KeptInv /\ KeptInv' /\ [Next]_vars => ClockInv'
  <2> SUFFICES ASSUME ClockInv, KeptInv, KeptInv', [Next]_vars, backs' = 0
               PROVE  OrderInv'
    BY DEF ClockInv
  <2>1. OrderInv
    BY BacksGrow DEF ClockInv, KeptInv
  <2>2. QED
    BY <2>1, NextInOrder DEF OrderInv
<1>4. QED
  BY <1>2, <1>3, KeptInvHolds, PTL DEF Spec

\* While the clock was not set back, the last success on record
\* (ingest_attempt) is the newest of the successes reported.
THEOREM NewestIsShown ==
    Spec => []NewestShown
<1>1. ClockInv => NewestShown
  <2> SUFFICES ASSUME ClockInv, backs = 0, NEW a \in known, result[a] = "SUCCEEDED"
               PROVE  /\ success.a \in known
                      /\ stamp[a] <= stamp[success.a]
                      /\ success.at = stamp[success.a]
    BY DEF NewestShown
  <2>0. OrderInv
    BY DEF ClockInv
  <2>1. stamp[a] <= success.at /\ stamp[a] \in Nat /\ stamp[a] # 0
    BY <2>0, ReportAssumption
    DEF OrderInv, KeptInv, TypeOK, SuccessShape, OrderShape, EventShape
  <2>2. success # NoSuccess
    BY <2>1 DEF NoSuccess
  <2>3. QED
    BY <2>0, <2>1, <2>2 DEF OrderInv, SuccessShape
<1>2. QED
  BY <1>1, ClockInvHolds, PTL

\* While the clock was not set back, flushCatalogEvent only ever asks for
\* the catalog of a snapshot that ingest_attempt has put on record.
THEOREM CatalogIsServable ==
    Spec => []CatalogServable
<1>1. ClockInv => CatalogServable
  <2> SUFFICES ASSUME ClockInv, backs = 0, NEW e \in outbox, e.type = "catalog", e \in Oldest(outbox)
               PROVE  e.a \in snaps
    BY DEF CatalogServable
  <2> USE DEF ClockInv, OrderInv, KeptInv
  <2>1. e.a \in Attempts /\ e.at \in Nat /\ stamp[e.a] \in Nat
    BY ReportAssumption DEF TypeOK, Rows
  <2>2. result[e.a] = "SUCCEEDED" /\ Ended(e.a) /\ stamp[e.a] < e.at
    BY DEF EventShape
  <2>3. Terminal(e.a) \notin outbox
    BY <2>1, <2>2 DEF Terminal, Oldest
  <2>4. e.a \in known
    BY <2>1, <2>2, <2>3 DEF ReportsKept
  <2>5. QED
    BY <2>2, <2>4 DEF SuccessShape
<1>2. QED
  BY <1>1, ClockInvHolds, PTL

\* While the clock was not set back, no report moves a device's last
\* success back, not even one whose request commits long after its agent
\* gave it up.
THEOREM SuccessMovesForward ==
    Spec => SuccessForward
<1>1. ClockInv /\ [Next]_vars => [backs = 0 => success'.at >= success.at]_vars
  <2> SUFFICES ASSUME OrderInv, [Next]_vars
               PROVE  success'.at >= success.at \/ UNCHANGED vars
    BY DEF ClockInv
  <2>1. success.at \in Nat
    BY ReportAssumption DEF OrderInv, KeptInv, TypeOK
  <2>2. ASSUME NEW i \in 0..MaxLost, Commit(i)
        PROVE  success'.at >= success.at
    <3>1. req[i].phase = "loaded"
      BY <2>2 DEF Commit
    <3>2. QED
      BY <2>1, <2>2, <3>1, SentInOrder, CommitInOrder
  <2>3. CASE UNCHANGED success
    BY <2>1, <2>3
  <2>4. QED
    BY <2>2, <2>3
    DEF Next, Flush, Ingest, BackupEnds, QueueCatalog, SkipCatalog, SetClockBack, ReadOutbox,
        SendReport, Answered, GiveUp, FlushCatalog, RefuseCatalog, LoseCatalog, FlushEnds,
        Load, vars, serverVars
<1>2. QED
  BY <1>1, ClockInvHolds, PTL DEF Spec, SuccessForward

-----------------------------------------------------------------------------
(* The service's process and its upgrade (AgentHost).                      *)

MarkerType == [rb : 0..MaxNames, boots : -1..MaxBoots]

\* A swap starts only after a heartbeat, which removes the marker, so one
\* marker is in force at a time; the copy of its name is there exactly as long
\* as the build it guards has neither been confirmed nor been replaced.
SwapInv ==
    /\ tick \in {"fetch", "aside"} => live # Host!None
    /\ tick \in {"fetch", "aside", "install", "mark"} => marker = Host!NoMarker
    /\ tick \in {"install", "mark"} => mine \in DOMAIN aside
    /\ tick = "mark" => ~beaten

HostInv ==
    /\ Host!TypeOK
    /\ marker \in MarkerType /\ beaten \in BOOLEAN
    /\ ~Host!Serving => tick = "idle"
    /\ at = "putback" => Host!Guarded
    /\ Host!Guarded => (marker.rb \in DOMAIN aside <=> ~beaten)
    /\ SwapInv

LEMMA MarkerTypes ==
    ASSUME Host!HostAssumption
    PROVE  /\ Host!NoMarker \in MarkerType /\ Host!Torn \in MarkerType
           /\ \A n \in 1..MaxNames : /\ [rb |-> n, boots |-> 0] \in MarkerType
                                     /\ [rb |-> n, boots |-> 0].rb = n
BY DEF Host!HostAssumption, Host!NoMarker, Host!Torn, MarkerType

LEMMA HostBegins ==
    ASSUME Host!HostAssumption, Host!Init
    PROVE  HostInv
<1>1. DOMAIN aside = {}
  BY DEF Host!Init
<1>2. marker \in MarkerType /\ ~Host!Guarded
  BY MarkerTypes DEF Host!Init, Host!Guarded
<1>3. marker.rb \in 0..MaxNames /\ marker.boots \in -1..MaxBoots
  BY <1>2 DEF MarkerType
<1>4. Host!TypeOK
  BY <1>1, <1>3 DEF Host!TypeOK, Host!Init, Host!HostAssumption, Host!Names, Host!None
<1>5. QED
  BY <1>1, <1>2, <1>4 DEF Host!Init, HostInv, SwapInv

\* Steps that leave the disk as it is.
LEMMA SameDisk ==
    ASSUME Host!TypeOK, UNCHANGED Host!disk
    PROVE  /\ DOMAIN aside' = DOMAIN aside /\ Host!Guarded' = Host!Guarded /\ live' = live
           /\ aside' = aside /\ marker' = marker /\ staged' = staged /\ failed' = failed
BY DEF Host!disk, Host!Guarded

LEMMA ScmStartKept ==
    ASSUME Host!HostAssumption, HostInv, Host!ScmStart
    PROVE  HostInv'
<1>1. Host!TypeOK /\ UNCHANGED Host!disk
  BY DEF HostInv, Host!ScmStart
<1>2. Host!TypeOK'
  BY <1>1, SameDisk DEF Host!TypeOK, Host!ScmStart, Host!HostAssumption, Host!Names, Host!outside
<1>3. QED
  BY <1>1, <1>2, SameDisk DEF HostInv, SwapInv, Host!ScmStart, Host!Serving, Host!Guarded

LEMMA FaultType ==
    ASSUME Host!HostAssumption, Host!TypeOK, Host!Fault \/ UNCHANGED faults
    PROVE  faults' \in 0..MaxFaults
BY DEF Host!HostAssumption, Host!TypeOK, Host!Fault

\* The boot guard.
LEMMA GuardKept ==
    ASSUME Host!HostAssumption, HostInv, Host!Guard
    PROVE  HostInv'
<1> USE DEF Host!HostAssumption
<1> SUFFICES Host!TypeOK' /\ marker' \in MarkerType /\ beaten' \in BOOLEAN
             /\ (at' = "putback" => Host!Guarded')
             /\ (Host!Guarded' => (marker'.rb \in DOMAIN aside' <=> ~beaten'))
  <2>1. at \notin {"up", "stop"} /\ tick = "idle" /\ tick' = tick
    BY DEF HostInv, Host!Guard, Host!GuardNothing, Host!GuardCounts, Host!GuardMovesAway,
           Host!GuardPutsBack, Host!GuardUnmarks, Host!Prune, Host!Goto, Host!Serving
  <2>2. QED
    BY <2>1 DEF HostInv, SwapInv
<1> USE DEF HostInv, Host!Goto, Host!outside
<1>1. CASE Host!GuardNothing
  <2>1. marker' = Host!NoMarker /\ marker' \in MarkerType /\ ~Host!Guarded'
    BY <1>1, MarkerTypes DEF Host!GuardNothing, Host!Guarded
  <2>2. marker'.rb \in 0..MaxNames /\ marker'.boots \in -1..MaxBoots
    BY <2>1 DEF MarkerType
  <2>3. QED
    BY <1>1, <2>1, <2>2 DEF Host!GuardNothing, Host!TypeOK, Host!Names
<1>2. CASE Host!GuardCounts
  <2>1. marker' = [marker EXCEPT !.boots = @ + 1] /\ marker.boots + 1 <= MaxBoots
    BY <1>2 DEF Host!GuardCounts, Host!TooMany, MarkerType
  <2>2. marker' \in MarkerType /\ marker'.rb = marker.rb
    BY <2>1 DEF MarkerType
  <2>3. marker'.rb \in 0..MaxNames /\ marker'.boots \in -1..MaxBoots
    BY <2>2 DEF MarkerType
  <2>4. Host!Guarded
    BY <1>2 DEF Host!GuardCounts, Host!Guarded
  <2>5. QED
    BY <1>2, <2>2, <2>3, <2>4 DEF Host!GuardCounts, Host!TypeOK, Host!Names
<1>3. CASE Host!GuardMovesAway
  <2>1. Host!Guarded /\ Host!Guarded'
    BY <1>3 DEF Host!GuardMovesAway, Host!Guarded
  <2>2. QED
    BY <1>3, <2>1 DEF Host!GuardMovesAway, Host!TypeOK, Host!Names
<1>4. CASE Host!GuardPutsBack
  <2>1. Host!Guarded /\ Host!Guarded'
    BY <1>4 DEF Host!GuardPutsBack, Host!Guarded
  <2>2. CASE marker.rb \in Host!Names
    <3>1. aside' = [m \in Host!Names \ {marker.rb} |-> aside[m]] /\ live' = aside[marker.rb] /\ beaten'
      BY <1>4, <2>2 DEF Host!GuardPutsBack, Host!Without
    <3>2. DOMAIN aside' = DOMAIN aside \ {marker.rb}
      BY <3>1 DEF Host!Names
    <3>3. live' \in Builds /\ \A n \in DOMAIN aside' : aside'[n] \in Builds
      BY <2>2, <3>1, <3>2 DEF Host!TypeOK, Host!Names
    <3>4. at' = "unmark"
      BY <1>4, <2>2 DEF Host!GuardPutsBack
    <3>5. Host!TypeOK'
      BY <1>4, <2>2, <3>2, <3>3, <3>4 DEF Host!GuardPutsBack, Host!TypeOK, Host!Names
    <3>6. QED
      BY <1>4, <2>1, <3>1, <3>2, <3>4, <3>5 DEF Host!GuardPutsBack
  <2>3. CASE marker.rb \notin Host!Names
    BY <1>4, <2>1, <2>3 DEF Host!GuardPutsBack, Host!TypeOK, Host!Names
  <2>4. QED
    BY <2>2, <2>3
<1>5. CASE Host!GuardUnmarks
  <2>1. marker' = Host!NoMarker /\ marker' \in MarkerType /\ ~Host!Guarded'
    BY <1>5, MarkerTypes DEF Host!GuardUnmarks, Host!Guarded
  <2>2. marker'.rb \in 0..MaxNames /\ marker'.boots \in -1..MaxBoots
    BY <2>1 DEF MarkerType
  <2>3. QED
    BY <1>5, <2>1, <2>2 DEF Host!GuardUnmarks, Host!TypeOK, Host!Names
<1>6. CASE Host!Prune
  <2> DEFINE kept == Host!Newest(Host!Names, Keep) \cup ({marker.rb} \cap Host!Names)
  <2>1. aside' = [n \in kept |-> aside[n]] /\ kept \subseteq DOMAIN aside
        /\ (marker.rb \in kept <=> marker.rb \in DOMAIN aside)
    BY <1>6 DEF Host!Prune, Host!Newest, Host!Names
  <2> HIDE DEF kept
  <2>2. DOMAIN aside' = kept /\ \A n \in kept : aside'[n] = aside[n]
    BY <2>1
  <2>3. Host!TypeOK'
    BY <1>6, <2>1, <2>2 DEF Host!Prune, Host!TypeOK, Host!Names
  <2>4. Host!Guarded' <=> Host!Guarded
    BY <1>6 DEF Host!Prune, Host!Guarded
  <2>5. QED
    BY <1>6, <2>1, <2>2, <2>3, <2>4 DEF Host!Prune
<1>7. QED
  BY <1>1, <1>2, <1>3, <1>4, <1>5, <1>6 DEF Host!Guard

\* A heartbeat removes the marker, before anything else of its tick.
LEMMA HeartbeatKept ==
    ASSUME Host!HostAssumption, HostInv, Host!Heartbeat
    PROVE  HostInv'
<1> USE DEF Host!HostAssumption, HostInv, Host!outside
<1>1. marker' = Host!NoMarker /\ marker' \in MarkerType /\ ~Host!Guarded'
  BY MarkerTypes DEF Host!Heartbeat, Host!Guarded
<1>2. marker'.rb \in 0..MaxNames /\ marker'.boots \in -1..MaxBoots
  BY <1>1 DEF MarkerType
<1>3. tick' \in {"work", "fetch"} /\ (tick' = "fetch" => live' # Host!None) /\ at' = "up"
  BY DEF Host!Heartbeat, Host!TickTo, Host!AfterBeat
<1>4. beaten' \in BOOLEAN
  BY DEF Host!Heartbeat
<1>5. want' \in Builds \cup {Host!None}
  BY DEF Host!Heartbeat, Host!TypeOK
<1>6. Host!TypeOK'
  BY <1>2, <1>3, <1>5 DEF Host!Heartbeat, Host!TickTo, Host!Holds, Host!TypeOK, Host!Names
<1>7. QED
  BY <1>1, <1>3, <1>4, <1>6 DEF Host!Serving, SwapInv

LEMMA FetchKept ==
    ASSUME Host!HostAssumption, HostInv, Host!Fetch \/ Host!FetchFails
    PROVE  HostInv'
<1> USE DEF Host!HostAssumption, HostInv, Host!outside
<1>1. staged' \in {want, Host!None} /\ UNCHANGED <<live, aside, failed, marker, beaten, want, at>>
      /\ tick' \in {"aside", "work"} /\ tick = "fetch" /\ Host!Serving
  BY DEF Host!Fetch, Host!FetchFails, Host!Keeps, Host!Holds, Host!TickTo
<1>2. Host!TypeOK'
  BY <1>1 DEF Host!Fetch, Host!FetchFails, Host!Keeps, Host!Holds, Host!TickTo, Host!TypeOK, Host!Names
<1>3. QED
  BY <1>1, <1>2 DEF Host!Serving, Host!Guarded, SwapInv

\* The copy has a name of its own, so no other copy is replaced.
LEMMA MoveAsideKept ==
    ASSUME Host!HostAssumption, HostInv, Host!MoveAside
    PROVE  HostInv'
<1> USE DEF Host!HostAssumption, HostInv, Host!outside
<1>1. PICK n \in (1..Host!Latest + 1) \ Host!Names :
          /\ n <= MaxNames /\ mine' = n
          /\ aside' = [m \in Host!Names \cup {n} |-> IF m = n THEN live ELSE aside[m]]
          /\ IF n = Host!Latest + 1 THEN UNCHANGED faults ELSE Host!Fault
  BY DEF Host!MoveAside
<1>2. n \in 1..MaxNames
  <2> DEFINE top == Host!Latest + 1
  <2>1. n \in 1..top
    BY <1>1
  <2>2. n \in Int /\ 1 <= n
    <3> HIDE DEF top
    <3>1. QED
      BY <2>1
  <2>3. QED
    BY <1>1, <2>2
<1>3. faults' \in 0..MaxFaults
  BY <1>1, FaultType
<1>4. live \in Builds /\ Host!Serving /\ tick = "aside" /\ tick' = "install" /\ at' = at
      /\ marker' = Host!NoMarker /\ marker' = marker
  BY DEF Host!MoveAside, Host!TickTo, Host!TypeOK, SwapInv
<1>5. DOMAIN aside' = DOMAIN aside \cup {n} /\ \A m \in DOMAIN aside' : aside'[m] \in Builds
  BY <1>1, <1>4 DEF Host!Names, Host!TypeOK
<1>6. Host!TypeOK'
  BY <1>1, <1>2, <1>3, <1>4, <1>5 DEF Host!MoveAside, Host!TickTo, Host!TypeOK, Host!Names
<1>7. ~Host!Guarded'
  BY <1>4 DEF Host!Guarded
<1>8. QED
  BY <1>1, <1>4, <1>5, <1>6, <1>7 DEF Host!MoveAside, Host!Serving, SwapInv

LEMMA InstallKept ==
    ASSUME Host!HostAssumption, HostInv, Host!Install
    PROVE  HostInv'
<1> USE DEF Host!HostAssumption, HostInv, Host!outside
<1>1. /\ tick = "install" /\ tick' = "mark" /\ Host!Serving /\ at' = at /\ beaten' = FALSE
      /\ marker' = Host!NoMarker /\ UNCHANGED <<aside, mine, marker>> /\ live' = staged
  BY DEF Host!Install, Host!TickTo, Host!Keeps, Host!Holds, SwapInv
<1>2. Host!TypeOK'
  BY <1>1 DEF Host!Install, Host!TickTo, Host!Keeps, Host!Holds, Host!TypeOK, Host!Names
<1>3. ~Host!Guarded'
  BY <1>1 DEF Host!Guarded
<1>4. QED
  BY <1>1, <1>2, <1>3 DEF Host!Serving, SwapInv

\* A swap that is undone takes its own copy back, which no marker names.
LEMMA UndoKept ==
    ASSUME Host!HostAssumption, HostInv, Host!InstallFails \/ Host!MarkFails
    PROVE  HostInv'
<1> USE DEF Host!HostAssumption, HostInv, Host!outside
<1>1. /\ tick \in {"install", "mark"} /\ tick' = "work" /\ Host!Serving /\ at' = at
      /\ marker' = Host!NoMarker /\ marker' = marker /\ mine \in DOMAIN aside
      /\ live' = aside[mine] /\ aside' = [m \in DOMAIN aside \ {mine} |-> aside[m]]
      /\ failed' \in {live, failed} /\ beaten' \in BOOLEAN /\ Host!Fault
  BY DEF Host!InstallFails, Host!MarkFails, Host!TickTo, Host!Without, Host!Names, SwapInv
<1>2. faults' \in 0..MaxFaults
  BY <1>1, FaultType
<1>3. live' \in Builds /\ DOMAIN aside' = DOMAIN aside \ {mine}
      /\ \A m \in DOMAIN aside' : aside'[m] \in Builds
  BY <1>1 DEF Host!TypeOK, Host!Names
<1>4. Host!TypeOK'
  BY <1>1, <1>2, <1>3 DEF Host!InstallFails, Host!MarkFails, Host!TickTo, Host!TypeOK, Host!Names
<1>5. ~Host!Guarded'
  BY <1>1 DEF Host!Guarded
<1>6. QED
  BY <1>1, <1>4, <1>5 DEF Host!Serving, SwapInv

\* The marker names the copy the swap has moved aside.
LEMMA MarkKept ==
    ASSUME Host!HostAssumption, HostInv, Host!Mark
    PROVE  HostInv'
<1> USE DEF Host!HostAssumption, HostInv, Host!outside
<1>1. /\ tick = "mark" /\ tick' \in {"work", "exit"} /\ Host!Serving /\ at' = at
      /\ marker' = [rb |-> mine, boots |-> 0] /\ UNCHANGED <<aside, beaten>>
      /\ mine \in DOMAIN aside /\ ~beaten
  BY DEF Host!Mark, Host!TickTo, Host!AfterMark, SwapInv
<1>2. mine \in 1..MaxNames
  BY <1>1 DEF Host!TypeOK, Host!Names
<1>3. marker' \in MarkerType /\ marker'.rb = mine
  BY <1>1, <1>2, MarkerTypes
<1>4. marker'.rb \in 0..MaxNames /\ marker'.boots \in -1..MaxBoots
  BY <1>3 DEF MarkerType
<1>5. Host!TypeOK'
  BY <1>1, <1>4 DEF Host!Mark, Host!TickTo, Host!TypeOK, Host!Names
<1>6. QED
  BY <1>1, <1>3, <1>5 DEF Host!Serving, SwapInv

\* What the process does beside an upgrade leaves the disk alone.
LEMMA WorkKept ==
    ASSUME Host!HostAssumption, HostInv,
           \/ Host!NoHeartbeat \/ Host!BackupStarts \/ Host!TickEnds
           \/ Host!PageRestoreStarts \/ Host!PageRestoreEnds
           \/ Host!UpgradeExits \/ Host!Dies \/ Host!StopRequested \/ Host!Stopped \/ Host!BudgetOver
           \/ \E b \in Builds : Host!SetPin(b)
    PROVE  HostInv'
<1> USE DEF Host!HostAssumption, Host!outside
<1>1. Host!TypeOK /\ UNCHANGED <<Host!disk, beaten>>
  BY DEF HostInv, Host!NoHeartbeat, Host!BackupStarts, Host!TickEnds, Host!PageRestoreStarts,
         Host!PageRestoreEnds, Host!Restoring, Host!UpgradeExits, Host!Dies, Host!StopRequested,
         Host!Stopped, Host!BudgetOver, Host!SetPin
<1>2. CASE Host!NoHeartbeat \/ Host!BackupStarts \/ Host!TickEnds
  <2>1. Host!Serving /\ at' = at /\ tick' \in {"work", "backup", "idle"} /\ UNCHANGED <<loaded, want, mine, faults, Host!outside>>
    BY <1>2 DEF Host!NoHeartbeat, Host!BackupStarts, Host!TickEnds, Host!TickTo, Host!Keeps, Host!Holds
  <2>2. Host!TypeOK'
    BY <1>1, <2>1, SameDisk DEF Host!TypeOK, Host!Names
  <2>3. QED
    BY <1>1, <2>1, <2>2, SameDisk DEF HostInv, SwapInv, Host!Serving
<1>3. CASE Host!PageRestoreStarts \/ Host!PageRestoreEnds \/ \E b \in Builds : Host!SetPin(b)
  <2>1. /\ UNCHANGED <<at, tick, loaded, want, mine, faults>>
        /\ restores' \in 0..MaxRestores /\ pins' \in 0..MaxPins /\ pin' \in Builds
    BY <1>1, <1>3 DEF Host!PageRestoreStarts, Host!PageRestoreEnds, Host!Restoring, Host!SetPin, Host!process,
           Host!TypeOK
  <2>2. Host!TypeOK'
    BY <1>1, <2>1, SameDisk DEF Host!TypeOK, Host!Names
  <2>3. QED
    BY <1>1, <2>1, <2>2, SameDisk DEF HostInv, SwapInv, Host!Serving
<1>4. CASE Host!UpgradeExits \/ Host!Dies \/ Host!Stopped \/ Host!BudgetOver
  <2>1. at' = "down" /\ tick' = "idle" /\ UNCHANGED <<loaded, want, mine, faults, Host!outside>>
    BY <1>4 DEF Host!UpgradeExits, Host!Dies, Host!Stopped, Host!BudgetOver, Host!Down
  <2>2. Host!TypeOK'
    BY <1>1, <2>1, SameDisk DEF Host!TypeOK, Host!Names
  <2>3. QED
    BY <1>1, <2>1, <2>2, SameDisk DEF HostInv, SwapInv, Host!Serving
<1>5. CASE Host!StopRequested
  <2>1. at = "up" /\ at' = "stop" /\ UNCHANGED <<tick, loaded, want, mine, Host!outside>> /\ Host!Fault
    BY <1>5 DEF Host!StopRequested
  <2>2. Host!TypeOK'
    BY <1>1, <2>1, SameDisk, FaultType DEF Host!TypeOK, Host!Names
  <2>3. QED
    BY <1>1, <2>1, <2>2, SameDisk DEF HostInv, SwapInv, Host!Serving
<1>6. QED
  BY <1>2, <1>3, <1>4, <1>5

\* Power fails: at worst the marker is lost, never named wrong.
LEMMA PowerFailsKept ==
    ASSUME Host!HostAssumption, HostInv, Host!PowerFails
    PROVE  HostInv'
<1> USE DEF Host!HostAssumption, HostInv, Host!outside
<1>1. /\ at' = "down" /\ tick' = "idle" /\ Host!Fault
      /\ UNCHANGED <<live, aside, staged, failed, beaten, loaded, want, mine, pin, pins, restores>>
      /\ (marker' = marker \/ marker' = Host!Torn)
  BY DEF Host!PowerFails, Host!Down
<1>2. marker' \in MarkerType
  BY <1>1, MarkerTypes
<1>3. marker'.rb \in 0..MaxNames /\ marker'.boots \in -1..MaxBoots
  BY <1>2 DEF MarkerType
<1>4. Host!TypeOK'
  BY <1>1, <1>3, FaultType DEF Host!TypeOK, Host!Names
<1>5. Host!Guarded' => Host!Guarded /\ marker' = marker
  BY <1>1 DEF Host!Guarded
<1>6. QED
  BY <1>1, <1>2, <1>4, <1>5 DEF SwapInv, Host!Serving

LEMMA HostKept ==
    ASSUME Host!HostAssumption, HostInv, [Host!Next]_(Host!vars)
    PROVE  HostInv'
<1>1. CASE UNCHANGED Host!vars
  <2>1. Host!TypeOK /\ UNCHANGED Host!disk
    BY <1>1 DEF HostInv, Host!vars
  <2>2. Host!TypeOK'
    BY <1>1, <2>1, SameDisk DEF Host!TypeOK, Host!Names, Host!vars, Host!process, Host!outside
  <2>3. QED
    BY <1>1, <2>1, <2>2, SameDisk DEF HostInv, SwapInv, Host!Serving, Host!vars, Host!process
<1>2. CASE Host!Upgrade
  BY <1>2, FetchKept, MoveAsideKept, InstallKept, MarkKept DEF Host!Upgrade
<1>3. QED
  BY <1>1, <1>2, ScmStartKept, GuardKept, HeartbeatKept, FetchKept, UndoKept, WorkKept, PowerFailsKept
     DEF Host!Next

\* What the service's process does is what AgentHost says it does, and its
\* reports are those of AttemptReports.
THEOREM ServiceImplementsBoth ==
    BothSpec => Host!Spec /\ Spec
<1>1. BothInit => Host!Init /\ Init
  BY DEF BothInit
<1>2. [BothNext]_<<part, vars, hostVars>> =>
          [Host!Next]_(Host!vars) /\ [Next]_vars
  BY DEF BothNext, vars, hostVars, Host!vars, Host!disk, Host!process, Host!outside
<1>3. QED
  BY <1>1, <1>2, PTL DEF BothSpec, Host!Spec, Spec

LEMMA HostInvariant ==
    ASSUME Host!HostAssumption
    PROVE  BothSpec => []HostInv
<1>1. Host!Init => HostInv
  BY HostBegins
<1>2. HostInv /\ [Host!Next]_(Host!vars) => HostInv'
  BY HostKept
<1>3. QED
  BY <1>1, <1>2, ServiceImplementsBoth, PTL DEF Host!Spec

\* While an installed build is unproven the copy it would be replaced by is
\* there, whatever is pruned, however the clock is set and wherever power
\* fails (upgrade.go pruneUpgradeLeftovers, stageVerifiedUpgrade).
THEOREM RollbackCopyKept ==
    ASSUME Host!HostAssumption
    PROVE  BothSpec => []RollbackKept
<1>1. HostInv => RollbackKept
  BY DEF HostInv, RollbackKept, Host!RollbackKept, Host!Names
<1>2. QED
  BY <1>1, HostInvariant, PTL

\* A build that had a heartbeat is not replaced by its predecessor
\* (upgrade.go confirmUpgradeHealthy, restoreRollback).
THEOREM ConfirmedBuildStays ==
    ASSUME Host!HostAssumption
    PROVE  BothSpec => ConfirmedStays
<1>1. HostInv /\ [Host!Next]_(Host!vars) =>
          [at = "putback" /\ at' = "unmark" => ~beaten]_(Host!vars)
  <2> SUFFICES ASSUME HostInv, Host!Next, at = "putback", at' = "unmark"
               PROVE  ~beaten
    OBVIOUS
  <2>1. Host!GuardPutsBack
    BY DEF Host!Next, Host!ScmStart, Host!Guard, Host!GuardNothing, Host!GuardCounts, Host!GuardMovesAway,
           Host!GuardUnmarks, Host!Prune, Host!Goto, Host!NoHeartbeat, Host!Heartbeat, Host!Fetch, Host!Upgrade,
           Host!FetchFails, Host!MoveAside, Host!Install, Host!Mark, Host!InstallFails, Host!MarkFails,
           Host!BackupStarts, Host!TickEnds, Host!TickTo, Host!PageRestoreStarts, Host!PageRestoreEnds,
           Host!Restoring, Host!UpgradeExits, Host!Dies, Host!StopRequested, Host!Stopped, Host!BudgetOver,
           Host!PowerFails, Host!Down, Host!SetPin, Host!process
  <2>2. marker.rb \in DOMAIN aside
    BY <2>1 DEF Host!GuardPutsBack, Host!Goto, Host!Names
  <2>3. QED
    BY <2>2 DEF HostInv
<1>2. QED
  BY <1>1, HostInvariant, ServiceImplementsBoth, PTL DEF Host!Spec, ConfirmedStays, Host!ConfirmedStays

=============================================================================
