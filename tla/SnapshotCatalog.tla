--------------------------- MODULE SnapshotCatalog ---------------------------
(***************************************************************************)
(* The file catalog of one snapshot: buildCatalogFunc                      *)
(* (agent/cmd/stowline-agent/catalog.go) lists the snapshot with restic    *)
(* and uploads the listing in batches; create, append, finalize and fail   *)
(* of server/app/services.py keep it and decide when it is READY.          *)
(*                                                                         *)
(* A build is started by the outbox after a successful backup, and again   *)
(* by the operator's command.  Every handler loads the catalog, may read   *)
(* its entries, and commits; a request the agent no longer waits for is    *)
(* still handled, between the steps of the next build.                     *)
(***************************************************************************)
EXTENDS Integers, FiniteSets

CONSTANTS
    Nodes,      \* files and directories of the snapshot
    Batch,      \* entries of an upload (catalogUploadBatchSize)
    Capture,    \* entries whose listing fits in maxCapture (8 MiB of restic's output)
    MaxAsks,    \* bound: commands of the operator
    MaxLost     \* bound: requests the agent gives up, and its stops

ASSUME CatalogAssumption ==
    /\ Nodes \in Nat /\ Batch \in Nat \ {0} /\ Capture \in Nat
    /\ MaxAsks \in Nat /\ MaxLost \in Nat

Entries == 1..Nodes     \* in the order in which restic lists them

VARIABLES
    state,      \* SnapshotCatalog.state, "none" without a row
    entries,    \* its SnapshotCatalogEntry rows
    owed,       \* who waits for the build: "outbox", "command" or "no"
    pc,         \* the agent: "idle", "list", or the operation it waits for
    nodes,      \* the listing of the running build
    sent,       \* batches of it that were uploaded
    req,        \* requests; the agent waits for req[lost] only
    lost,       \* requests it gave up
    asks

vars == <<state, entries, owed, pc, nodes, sent, req, lost, asks>>

Ops == {"create", "append", "finalize", "fail"}
NoRequest == [phase |-> "none", op |-> "create", items |-> {}, seen |-> "none",
              missing |-> {}, full |-> FALSE]

\* A success appends the catalog.build event; the snapshot is on record.
Init ==
    /\ state = "none" /\ entries = {}
    /\ owed = "outbox" /\ asks = 0
    /\ pc = "idle" /\ nodes = {} /\ sent = 0
    /\ req = [i \in 0..MaxLost |-> NoRequest] /\ lost = 0

serverVars == <<state, entries>>

-----------------------------------------------------------------------------
(* The agent: buildCatalogFunc, flushCatalogEvent and dispatch.            *)

\* Mutated form of Listed: one line more is lost where the output is cut.
Listed_CutLine == {e \in Entries : e <= Capture /\ e < Nodes}

\* ListSnapshotFull: the lines of restic's output that were captured whole.
\* Whether the output was cut is not looked at.
Listed == {e \in Entries : e <= Capture}

Send(op, items) ==
    /\ pc' = op
    /\ req' = [req EXCEPT ![lost] = [NoRequest EXCEPT !.phase = "sent", !.op = op,
                                                      !.items = items]]

Start ==
    /\ pc = "idle" /\ owed # "no"
    /\ Send("create", {})
    /\ nodes' = {} /\ sent' = 0
    /\ UNCHANGED <<serverVars, owed, lost, asks>>

\* The next batch, or the totals when all of them are up.
SendNext(k, listing) ==
    IF \E e \in listing : e > k * Batch
    THEN /\ Send("append", {e \in listing : k * Batch < e /\ e <= (k + 1) * Batch})
         /\ sent' = k + 1
    ELSE Send("finalize", listing) /\ sent' = k

List ==
    /\ pc = "list"
    /\ nodes' = Listed
    /\ SendNext(0, Listed)
    /\ UNCHANGED <<serverVars, owed, lost, asks>>

\* restic cannot list the snapshot: FailCatalog.
ListFails ==
    /\ pc = "list"
    /\ Send("fail", {})
    /\ UNCHANGED <<serverVars, owed, nodes, sent, lost, asks>>

\* The build returns.  A failed enumeration is final; any other error leaves
\* the outbox row for the next Poll, and fails the operator's command.
Return(settled) ==
    /\ pc' = "idle" /\ nodes' = {} /\ sent' = 0
    /\ owed' = IF settled \/ owed = "command" THEN "no" ELSE owed

\* The answer of the request the agent waits for.
Answered ==
    LET r == req[lost]
    IN  /\ pc \in Ops /\ r.phase \in {"ok", "error"}
        /\ CASE r.phase = "ok" /\ r.op = "create" /\ r.seen # "READY" ->
                   pc' = "list" /\ UNCHANGED <<owed, nodes, sent, req>>
             [] r.phase = "ok" /\ r.op = "append" ->
                   SendNext(sent, nodes) /\ UNCHANGED <<owed, nodes>>
             [] OTHER -> Return(r.phase = "ok" \/ r.op = "fail") /\ UNCHANGED req
        /\ UNCHANGED <<serverVars, lost, asks>>

\* A timeout, or a stop of the agent (the command is then delivered again).
\* The request may be handled later, or never.
GiveUp ==
    /\ pc # "idle" /\ lost < MaxLost
    /\ lost' = lost + 1
    /\ \/ Return(pc = "fail")
       \/ pc' = "idle" /\ nodes' = {} /\ sent' = 0 /\ UNCHANGED owed
    /\ \/ UNCHANGED req
       \/ req[lost].phase = "sent" /\ req' = [req EXCEPT ![lost] = NoRequest]
    /\ UNCHANGED <<serverVars, asks>>

\* The operator's BUILD_SNAPSHOT_CATALOG.
Request ==
    /\ owed = "no" /\ asks < MaxAsks
    /\ owed' = "command" /\ asks' = asks + 1
    /\ UNCHANGED <<serverVars, pc, nodes, sent, req, lost>>

-----------------------------------------------------------------------------
(* The handlers.                                                           *)

Reply(i, answer) == req' = [req EXCEPT ![i].phase = answer]

\* Mutated form of Load: a failure is recorded whatever the catalog's state.
Load_FailAlways(i) ==
    LET r == req[i]
    IN  /\ r.phase = "sent"
        /\ req' = [req EXCEPT ![i].seen = state,
              ![i].phase =
                 CASE r.op = "create" /\ state # "none" -> "ok"
                   [] r.op = "append" /\ state = "READY" -> "error"
                   [] r.op = "finalize" /\ state = "READY"
                        /\ Cardinality(r.items) = Cardinality(entries) -> "ok"
                   [] OTHER -> "loaded"]
        /\ UNCHANGED <<serverVars, owed, pc, nodes, sent, lost, asks>>

\* The catalog is loaded: create finds it, append refuses a READY one, and
\* finalize and fail have nothing left to do with it.
Load(i) ==
    LET r == req[i]
    IN  /\ r.phase = "sent"
        /\ req' = [req EXCEPT ![i].seen = state,
              ![i].phase =
                 CASE r.op = "create" /\ state # "none" -> "ok"
                   [] r.op = "append" /\ state = "READY" -> "error"
                   [] r.op = "finalize" /\ state = "READY"
                        /\ Cardinality(r.items) = Cardinality(entries) -> "ok"
                   [] r.op = "fail" /\ state = "READY" -> "ok"
                   [] OTHER -> "loaded"]
        /\ UNCHANGED <<serverVars, owed, pc, nodes, sent, lost, asks>>

\* append looks up every path, finalize counts and sums the rows.
Read(i) ==
    /\ req[i].phase = "loaded" /\ req[i].op \in {"append", "finalize"}
    /\ req' = [req EXCEPT ![i].phase = "read",
                          ![i].missing = req[i].items \ entries,
                          ![i].full = (entries = req[i].items)]
    /\ UNCHANGED <<serverVars, owed, pc, nodes, sent, lost, asks>>

\* The UNIQUE snapshot_id admits one row.
CommitCreate(i) ==
    /\ req[i].op = "create" /\ req[i].phase = "loaded"
    /\ IF state = "none" THEN state' = "PENDING" /\ Reply(i, "ok")
                         ELSE UNCHANGED state /\ Reply(i, "error")
    /\ UNCHANGED <<entries, owed, pc, nodes, sent, lost, asks>>

\* Mutated form of CommitAppend: rows that exist are inserted again.
CommitAppend_NoUpsert(i) ==
    LET r == req[i]
    IN  /\ r.op = "append" /\ r.phase = "read"
        /\ IF r.items \cap entries # {}
           THEN Reply(i, "error") /\ UNCHANGED serverVars
           ELSE /\ Reply(i, "ok")
                /\ entries' = entries \cup r.items
                /\ state' = IF r.seen = "PENDING" THEN "UPLOADING" ELSE state
        /\ UNCHANGED <<owed, pc, nodes, sent, lost, asks>>

\* The missing rows are inserted, all or (if one is there by now) none; the
\* state is written only by a handler that saw PENDING.
CommitAppend(i) ==
    LET r == req[i]
    IN  /\ r.op = "append" /\ r.phase = "read"
        /\ IF r.missing \cap entries # {}
           THEN Reply(i, "error") /\ UNCHANGED serverVars
           ELSE /\ Reply(i, "ok")
                /\ entries' = entries \cup r.missing
                /\ state' = IF r.seen = "PENDING" THEN "UPLOADING" ELSE state
        /\ UNCHANGED <<owed, pc, nodes, sent, lost, asks>>

\* READY when the totals and the checksum agree; written by a handler that
\* did not see it.
CommitFinalize(i) ==
    LET r == req[i]
    IN  /\ r.op = "finalize" /\ r.phase = "read"
        /\ Reply(i, IF r.full THEN "ok" ELSE "error")
        /\ state' = IF r.full /\ r.seen # "READY" THEN "READY" ELSE state
        /\ UNCHANGED <<entries, owed, pc, nodes, sent, lost, asks>>

\* A handler that did not load FAILED writes it.
CommitFail(i) ==
    LET r == req[i]
    IN  /\ r.op = "fail" /\ r.phase = "loaded"
        /\ Reply(i, "ok")
        /\ state' = IF r.seen = "FAILED" THEN state ELSE "FAILED"
        /\ UNCHANGED <<entries, owed, pc, nodes, sent, lost, asks>>

-----------------------------------------------------------------------------
Build == Start \/ List \/ ListFails \/ Answered

Handle(i) == \/ Load(i) \/ Read(i) \/ CommitCreate(i) \/ CommitAppend(i)
             \/ CommitFinalize(i) \/ CommitFail(i)

Next == Build \/ GiveUp \/ Request \/ \E i \in 0..MaxLost : Handle(i)

Spec == Init /\ [][Next]_vars

\* Poll runs every minute, restic's listing has a deadline, and the server
\* ends what it began to handle.
Fairness == WF_vars(Build) /\ \A i \in 0..MaxLost : WF_vars(Handle(i))

FairSpec == Spec /\ Fairness

-----------------------------------------------------------------------------
(* Properties.                                                             *)

States == {"none", "PENDING", "UPLOADING", "READY", "FAILED"}

RequestType == [phase : {"none", "sent", "loaded", "read", "ok", "error"},
                op : Ops, items : SUBSET Entries, seen : States,
                missing : SUBSET Entries, full : BOOLEAN]

\* Every variable keeps its type.
TypeOK ==
    /\ state \in States
    /\ entries \subseteq Entries
    /\ owed \in {"outbox", "command", "no"}
    /\ pc \in Ops \cup {"idle", "list"}
    /\ nodes \subseteq Entries
    /\ sent \in Nat
    /\ req \in [0..MaxLost -> RequestType]
    /\ lost \in 0..MaxLost
    /\ asks \in 0..MaxAsks

\* What the panel shows is complete (db.py: "A complete, permanent,
\* agent-built listing of one restic snapshot's files"): a READY catalog has
\* every entry, whatever was lost, repeated or handled late.
ReadyComplete == state = "READY" => entries = Entries

\* Parts of the inductive invariant, used by CatalogEngineProofs: the agent
\* waits for the request it sent and holds the whole listing while it uploads,
BuildShape ==
    /\ pc \in Ops => req[lost].phase # "none" /\ req[lost].op = pc
    /\ pc = "append" => nodes = Listed

\* and whatever is on its way or in the table comes from that listing, which
\* a finalize that will succeed has found complete.
ListingShape ==
    /\ entries \subseteq Listed
    /\ state = "READY" => entries = Listed
    /\ \A i \in 0..MaxLost :
          /\ req[i].items \subseteq Listed /\ req[i].missing \subseteq Listed
          /\ req[i].op = "finalize" => req[i].items = Listed
          /\ req[i].op = "finalize" /\ req[i].phase = "read" /\ req[i].full
                => entries = Listed

CatalogInv == TypeOK /\ BuildShape /\ ListingShape

\* A failure is only written by a handler that did not load READY.
FailShape ==
    \A i \in 0..MaxLost :
        req[i].op = "fail" /\ req[i].phase = "loaded" => req[i].seen # "READY"

\* A handler that saw the catalog before it became READY and will write.
InHand(i) == \/ req[i].op = "fail" /\ req[i].phase = "loaded"
                  /\ req[i].seen \notin {"READY", "FAILED"}
             \/ req[i].op = "append" /\ req[i].phase \in {"loaded", "read"}
                  /\ req[i].seen = "PENDING"

\* A READY catalog stays so (services.py, fail_snapshot_catalog: "READY never
\* regresses"), but for a handler that had loaded it before.
ReadyStays ==
    [][state = "READY" /\ (\A i \in 0..MaxLost : ~InHand(i)) => state' = "READY"]_vars

\* The build does not block the outbox (execute.go, flushCatalogEvent): it
\* ends, although repeated batches and late requests get in its way.
BuildEnds == owed = "outbox" ~> owed # "outbox"

=============================================================================
