--------------------------- MODULE AttemptReports ---------------------------
(***************************************************************************)
(* How the end of a backup reaches the control plane.  The agent appends a *)
(* backup.terminal event, and for a success a catalog.build event, to the  *)
(* outbox of its journal; flushOutbox (agent/internal/control/execute.go), *)
(* the first step of every Poll, delivers the unacknowledged rows oldest   *)
(* first and stops at the first one that fails.  ingest_attempt            *)
(* (server/app/services.py) records the attempt once and moves the         *)
(* device's last success forward.                                          *)
(*                                                                         *)
(* A request the agent no longer waits for may still be executed: it reads *)
(* (Load) and commits (Commit) whenever it gets to, between the steps of   *)
(* its own repetition and of later reports.  The agent's clock, which      *)
(* stamps and orders the events, may be set back MaxBack times.            *)
(***************************************************************************)
EXTENDS Integers, FiniteSets

CONSTANTS
    Attempts,   \* backup attempts of one device
    TooLong,    \* those with a path longer than a catalog entry may be (1024)
    Batch,      \* rows a flush reads (32 in the code)
    MaxClock,   \* bound: instants of the agent's clock
    MaxBack,    \* bound: times the clock is set back
    MaxLost     \* bound: answers the agent does not get

ASSUME ReportAssumption ==
    /\ TooLong \subseteq Attempts
    /\ Batch \in Nat \ {0}
    /\ MaxClock \in Nat \ {0} /\ MaxBack \in Nat /\ MaxLost \in Nat

Outcomes == {"SUCCEEDED", "PARTIAL", "FAILED"}
Types == {"terminal", "catalog"}
Nothing == "nothing"

VARIABLES
    clock,      \* the agent's clock
    backs,      \* times it was set back
    result,     \* outcome of every attempt, "none" while it has not ended
    stamp,      \* created_at of its terminal event
    owed,       \* successes whose catalog event is still to be appended
    outbox,     \* rows without acked_at: [a, type, at]
    rows,       \* what is left of the rows the running flush has read
    pc,         \* the flush: "idle", "flush" or "wait" for an answer
    cur,        \* the row being delivered
    req,        \* report requests; the agent waits for req[lost] only
    lost,       \* answers the agent gave up on
    known,      \* attempts in BackupAttempt
    success,    \* last_success_snapshot and last_success_attempt_ended_at: [a, at]
    snaps,      \* attempts whose snapshot has a Snapshot row
    ready       \* attempts whose catalog was built

agentVars == <<clock, backs, result, stamp, owed>>
flushVars == <<outbox, rows, pc, cur>>
serverVars == <<known, success, snaps>>
vars == <<agentVars, flushVars, req, lost, serverVars, ready>>

NoRequest == [phase |-> "none", a |-> Nothing, seen |-> 0]
NoSuccess == [a |-> Nothing, at |-> 0]
NoRow == [a |-> Nothing, type |-> "terminal", at |-> 0]

Init ==
    /\ clock = 2 /\ backs = 0       \* instant 1: the clock may be set back before the first event
    /\ result = [a \in Attempts |-> "none"]
    /\ stamp = [a \in Attempts |-> 0]
    /\ owed = {}
    /\ outbox = {} /\ rows = {} /\ pc = "idle" /\ cur = NoRow
    /\ req = [i \in 0..MaxLost |-> NoRequest] /\ lost = 0
    /\ known = {} /\ success = NoSuccess /\ snaps = {} /\ ready = {}

-----------------------------------------------------------------------------
(* The end of a backup (finish in agent/internal/application/service.go).  *)

\* AppendOutbox: every row gets an instant of its own.
Append(a, type) ==
    /\ clock < MaxClock
    /\ clock' = clock + 1
    /\ outbox' = outbox \cup {[a |-> a, type |-> type, at |-> clock]}

BackupEnds(a, o) ==
    /\ result[a] = "none"
    /\ Append(a, "terminal")
    /\ result' = [result EXCEPT ![a] = o]
    /\ stamp' = [stamp EXCEPT ![a] = clock]
    /\ owed' = IF o = "SUCCEEDED" THEN owed \cup {a} ELSE owed
    /\ UNCHANGED <<backs, rows, pc, cur, req, lost, serverVars, ready>>

QueueCatalog(a) ==
    /\ a \in owed
    /\ Append(a, "catalog")
    /\ owed' = owed \ {a}
    /\ UNCHANGED <<backs, result, stamp, rows, pc, cur, req, lost, serverVars, ready>>

\* The second insert fails, or the agent stops before it.
SkipCatalog(a) ==
    /\ a \in owed
    /\ owed' = owed \ {a}
    /\ UNCHANGED <<clock, backs, result, stamp, flushVars, req, lost, serverVars, ready>>

SetClockBack ==
    /\ backs < MaxBack
    /\ backs' = backs + 1
    /\ clock' \in 1..(clock - 1)
    /\ UNCHANGED <<result, stamp, owed, flushVars, req, lost, serverVars, ready>>

-----------------------------------------------------------------------------
(* flushOutbox.                                                            *)

Oldest(S) == {e \in S : \A f \in S : e.at <= f.at}

\* Mutated form of ReadOutbox: the rows are not ordered.
ReadOutbox_Unordered ==
    /\ pc = "idle" /\ outbox # {}
    /\ \E s \in SUBSET outbox :
          /\ Cardinality(s) = (IF Cardinality(outbox) < Batch THEN Cardinality(outbox)
                                                              ELSE Batch)
          /\ rows' = s
    /\ pc' = "flush"
    /\ UNCHANGED <<agentVars, outbox, cur, req, lost, serverVars, ready>>

\* UnackedOutbox: the Batch oldest rows.
ReadOutbox ==
    /\ pc = "idle" /\ outbox # {}
    /\ \E s \in SUBSET outbox :
          /\ Cardinality(s) = (IF Cardinality(outbox) < Batch THEN Cardinality(outbox)
                                                              ELSE Batch)
          /\ \A e \in s, f \in outbox \ s : e.at <= f.at
          /\ rows' = s
    /\ pc' = "flush"
    /\ UNCHANGED <<agentVars, outbox, cur, req, lost, serverVars, ready>>

\* ReportAttempt with outboxToAttempt's body.
SendReport ==
    /\ pc = "flush"
    /\ \E e \in Oldest(rows) :
          /\ e.type = "terminal"
          /\ cur' = e
          /\ req' = [req EXCEPT ![lost] = [phase |-> "sent", a |-> e.a, seen |-> 0]]
    /\ pc' = "wait"
    /\ UNCHANGED <<agentVars, outbox, rows, lost, serverVars, ready>>

\* The answer arrives: AckOutbox, or the flush ends with the error.
Answered ==
    /\ pc = "wait" /\ req[lost].phase \in {"ok", "error"}
    /\ IF req[lost].phase = "ok"
       THEN outbox' = outbox \ {cur} /\ rows' = rows \ {cur} /\ pc' = "flush"
       ELSE outbox' = outbox /\ rows' = {} /\ pc' = "idle"
    /\ cur' = NoRow
    /\ req' = [req EXCEPT ![lost] = NoRequest]
    /\ UNCHANGED <<agentVars, lost, serverVars, ready>>

\* Mutated form of GiveUp: the row is acknowledged without an answer.
GiveUp_Acks ==
    /\ pc = "wait" /\ lost < MaxLost
    /\ lost' = lost + 1
    /\ outbox' = outbox \ {cur}
    /\ rows' = {} /\ pc' = "idle" /\ cur' = NoRow
    /\ \/ req' = req
       \/ req[lost].phase = "sent" /\ req' = [req EXCEPT ![lost] = NoRequest]
    /\ UNCHANGED <<agentVars, serverVars, ready>>

\* The client's timeout, a stop of the agent, or a failed AckOutbox.  The
\* request may still be on its way, or never arrive.
GiveUp ==
    /\ pc = "wait" /\ lost < MaxLost
    /\ lost' = lost + 1
    /\ rows' = {} /\ pc' = "idle" /\ cur' = NoRow
    /\ \/ req' = req
       \/ req[lost].phase = "sent" /\ req' = [req EXCEPT ![lost] = NoRequest]
    /\ UNCHANGED <<agentVars, outbox, serverVars, ready>>

\* Mutated form of FlushCatalog: a failed enumeration is an error like any other.
FlushCatalog_Propagates ==
    /\ pc = "flush"
    /\ \E e \in Oldest(rows) :
          /\ e.type = "catalog" /\ e.a \in snaps
          /\ \/ /\ outbox' = outbox \ {e} /\ rows' = rows \ {e}
                /\ ready' = ready \cup {e.a}
                /\ UNCHANGED pc
             \/ rows' = {} /\ pc' = "idle" /\ UNCHANGED <<outbox, ready>>
    /\ UNCHANGED <<agentVars, cur, req, lost, serverVars>>

\* flushCatalogEvent for a snapshot the server knows: the catalog is built,
\* or restic cannot list the snapshot, which is reported and not repeated.
FlushCatalog ==
    /\ pc = "flush"
    /\ \E e \in Oldest(rows) :
          /\ e.type = "catalog" /\ e.a \in snaps
          /\ outbox' = outbox \ {e} /\ rows' = rows \ {e}
          /\ ready' \in {ready, ready \cup ({e.a} \ TooLong)}
    /\ UNCHANGED <<agentVars, pc, cur, req, lost, serverVars>>

\* CreateCatalog answers 422 "snapshot not bound to device", or the database
\* refuses an entry and UploadCatalogEntries gets an error: the flush ends.
RefuseCatalog ==
    /\ pc = "flush"
    /\ \E e \in Oldest(rows) : e.type = "catalog" /\ (e.a \notin snaps \/ e.a \in TooLong)
    /\ rows' = {} /\ pc' = "idle"
    /\ UNCHANGED <<agentVars, outbox, cur, req, lost, serverVars, ready>>

\* A request of the catalog build is lost, or the agent stops.
LoseCatalog ==
    /\ pc = "flush" /\ lost < MaxLost
    /\ \E e \in Oldest(rows) : e.type = "catalog"
    /\ lost' = lost + 1
    /\ rows' = {} /\ pc' = "idle"
    /\ UNCHANGED <<agentVars, outbox, cur, req, serverVars, ready>>

FlushEnds ==
    /\ pc = "flush" /\ rows = {}
    /\ pc' = "idle"
    /\ UNCHANGED <<agentVars, outbox, rows, cur, req, lost, serverVars, ready>>

-----------------------------------------------------------------------------
(* ingest_attempt.                                                         *)

\* The request finds its attempt, and answers at once, or reads the device.
Load(i) ==
    /\ req[i].phase = "sent"
    /\ req' = IF req[i].a \in known
              THEN [req EXCEPT ![i].phase = "ok"]
              ELSE [req EXCEPT ![i].phase = "loaded", ![i].seen = success.at]
    /\ UNCHANGED <<agentVars, flushVars, lost, serverVars, ready>>

\* Mutated form of Stale: reports in order are taken for late ones.
Stale_AtMost(r) == r.seen # 0 /\ stamp[r.a] > r.seen

Stale(r) == r.seen # 0 /\ stamp[r.a] < r.seen

\* The commit: refused when the attempt's row is there by now; a success
\* that is not older than the one read becomes the last success and gets
\* its Snapshot row.
Commit(i) ==
    LET r == req[i]
    IN  /\ r.phase = "loaded"
        /\ IF r.a \in known
           THEN /\ req' = [req EXCEPT ![i].phase = "error"]
                /\ UNCHANGED <<known, success, snaps>>
           ELSE /\ req' = [req EXCEPT ![i].phase = "ok"]
                /\ known' = known \cup {r.a}
                /\ IF result[r.a] = "SUCCEEDED" /\ ~Stale(r)
                   THEN /\ success' = [a |-> r.a, at |-> stamp[r.a]]
                        /\ snaps' = snaps \cup {r.a}
                   ELSE UNCHANGED <<success, snaps>>
        /\ UNCHANGED <<agentVars, flushVars, lost, ready>>

-----------------------------------------------------------------------------
Flush == ReadOutbox \/ SendReport \/ Answered \/ FlushCatalog \/ RefuseCatalog \/ FlushEnds
Ingest(i) == Load(i) \/ Commit(i)

Next ==
    \/ \E a \in Attempts, o \in Outcomes : BackupEnds(a, o)
    \/ \E a \in Attempts : QueueCatalog(a) \/ SkipCatalog(a)
    \/ SetClockBack \/ Flush \/ GiveUp \/ LoseCatalog
    \/ \E i \in 0..MaxLost : Ingest(i)

Spec == Init /\ [][Next]_vars

\* Poll runs every minute and the server answers requests.
Fairness == WF_vars(Flush) /\ \A i \in 0..MaxLost : WF_vars(Ingest(i))

FairSpec == Spec /\ Fairness

-----------------------------------------------------------------------------
(* Properties.                                                             *)

Rows == [a : Attempts, type : Types, at : 1..MaxClock]

RequestType == [phase : {"sent", "loaded", "ok", "error"}, a : Attempts,
                seen : 0..MaxClock] \cup {NoRequest}

\* Every variable keeps its type.
TypeOK ==
    /\ clock \in 1..(MaxClock + 1)
    /\ backs \in 0..MaxBack
    /\ result \in [Attempts -> Outcomes \cup {"none"}]
    /\ stamp \in [Attempts -> 0..MaxClock]
    /\ owed \subseteq Attempts
    /\ outbox \subseteq Rows
    /\ rows \subseteq Rows
    /\ pc \in {"idle", "flush", "wait"}
    /\ cur \in Rows \cup {NoRow}
    /\ req \in [0..MaxLost -> RequestType]
    /\ lost \in 0..MaxLost
    /\ known \subseteq Attempts
    /\ success \in [a : Attempts \cup {Nothing}, at : 0..MaxClock]
    /\ snaps \subseteq Attempts
    /\ ready \subseteq Attempts

Ended(a) == result[a] # "none"
Terminal(a) == [a |-> a, type |-> "terminal", at |-> stamp[a]]

\* No report is lost: an attempt that ended is known to the server or still
\* has its row, whatever answers are lost and requests are repeated.
ReportsKept == \A a \in Attempts : Ended(a) => a \in known \/ Terminal(a) \in outbox

\* While the clock was not set back, the last success on record is the
\* newest one reported, in spite of requests that commit late.
NewestShown ==
    backs = 0 => \A a \in known : result[a] = "SUCCEEDED" =>
        /\ success.a \in known
        /\ stamp[a] <= stamp[success.a]
        /\ success.at = stamp[success.a]

\* While the clock was not set back, a device's last success never moves
\* back (services.py, ingest_attempt).
SuccessForward == [][backs = 0 => success'.at >= success.at]_vars

\* While the clock was not set back, the catalog request a flush comes
\* to is one the server can serve: its snapshot is on record.
CatalogServable ==
    backs = 0 => \A e \in outbox : e.type = "catalog" /\ e \in Oldest(outbox) => e.a \in snaps

\* Part of the invariant of any behaviour: the flush, its request and what
\* the server knows belong together.
FlushShape ==
    /\ rows \subseteq outbox
    /\ pc = "wait" => /\ cur \in rows /\ cur.type = "terminal"
                      /\ req[lost].phase # "none" /\ req[lost].a = cur.a
    /\ \A i \in 0..MaxLost : req[i].phase = "ok" => req[i].a \in known

KeptInv == TypeOK /\ FlushShape /\ ReportsKept

\* Parts of the invariant of a clock that was not set back: rows are
\* stamped in the order in which they are appended,
EventShape ==
    /\ \A e \in outbox :
          /\ e.at < clock /\ Ended(e.a)
          /\ e.type = "terminal" => e.at = stamp[e.a]
          /\ e.type = "catalog" => result[e.a] = "SUCCEEDED" /\ stamp[e.a] < e.at
    /\ \A a \in Attempts : Ended(a) => stamp[a] \in 1..(clock - 1)
    /\ \A a \in owed : result[a] = "SUCCEEDED"
    /\ \A e \in rows, f \in outbox \ rows : e.at <= f.at

\* and what was sent or is known is never newer than what is still queued.
OrderShape ==
    /\ \A i \in 0..MaxLost : req[i].phase # "none" =>
          /\ req[i].a \in Attempts /\ Ended(req[i].a)
          /\ \A f \in outbox : stamp[req[i].a] <= f.at
    /\ \A i \in 0..MaxLost : req[i].phase = "loaded" => req[i].seen <= success.at
    /\ \A a \in known : Ended(a) /\ \A f \in outbox : stamp[a] <= f.at

SuccessShape ==
    /\ \/ success = NoSuccess
       \/ success.a \in known /\ success.at = stamp[success.a]
    /\ \A a \in known : result[a] = "SUCCEEDED" => stamp[a] <= success.at /\ a \in snaps

OrderInv == KeptInv /\ EventShape /\ OrderShape /\ SuccessShape

ClockInv == backs = 0 => OrderInv

\* While the clock was not set back, only the catalog of a snapshot the
\* entries table cannot hold can do so: else every report is delivered,
\* lost answers, failed enumerations and late commits notwithstanding.
OnlyLongPathsBlock ==
    \A a \in Attempts :
        Ended(a) ~> \/ a \in known \/ backs > 0
                   \/ \E e \in Oldest(outbox) : e.type = "catalog" /\ e.a \in TooLong

=============================================================================
