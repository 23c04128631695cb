------------------------- MODULE CatalogEngineProofs -------------------------
(***************************************************************************)
(* What SnapshotCatalog keeps for every number of entries, batches, lost   *)
(* requests and commands: everything uploaded comes from one listing, a    *)
(* READY catalog is the whole of it, and so complete when the listing fits *)
(* in what is captured.  And what EngineRun keeps for every set of         *)
(* requests, snapshots and exit codes: a result rests on what restic did,  *)
(* names its snapshot, and is one that EngineCall promises.                *)
(***************************************************************************)
EXTENDS CatalogEngine, Sequences, FiniteSetTheorems, TLAPS

\* A request as it is sent.
Sent(op, items) == [NoRequest EXCEPT !.phase = "sent", !.op = op, !.items = items]

\* What is captured is part of the snapshot.
LEMMA ListedEntries == Listed \subseteq Entries
BY DEF Listed

\* The first requests of the table are no requests at all.
LEMMA NoRequestType == NoRequest \in RequestType
BY DEF NoRequest, RequestType, Ops, States

\* Sending a request changes no other one.
LEMMA SendFacts ==
    ASSUME TypeOK, NEW op \in Ops, NEW items \in SUBSET Listed, Send(op, items)
    PROVE  /\ req' \in [0..MaxLost -> RequestType]
           /\ pc' = op
           /\ req'[lost] = Sent(op, items)
           /\ \A i \in 0..MaxLost : i # lost => req'[i] = req[i]
<1>1. Sent(op, items) \in RequestType
  BY ListedEntries DEF Sent, NoRequest, RequestType, States
<1>2. req' = [req EXCEPT ![lost] = Sent(op, items)]
  BY DEF Send, Sent
<1>3. QED
  BY <1>1, <1>2 DEF TypeOK, Send

\* The next request of a build carries entries of its listing, all of them
\* when it is the finalize.
LEMMA SendNextFacts ==
    ASSUME TypeOK, NEW k \in Nat, SendNext(k, Listed)
    PROVE  \E op \in {"append", "finalize"}, items \in SUBSET Listed :
              /\ Send(op, items)
              /\ op = "finalize" => items = Listed
              /\ sent' \in Nat
BY DEF SendNext

\* Replying changes the phase of one request.
LEMMA ReplyFacts ==
    ASSUME TypeOK, NEW i \in 0..MaxLost, NEW a \in {"ok", "error"}, Reply(i, a)
    PROVE  /\ req' \in [0..MaxLost -> RequestType]
           /\ req'[i] = [req[i] EXCEPT !.phase = a]
           /\ \A j \in 0..MaxLost : j # i => req'[j] = req[j]
<1>1. req[i] \in RequestType
  BY DEF TypeOK
<1>2. [req[i] EXCEPT !.phase = a] \in RequestType
  BY <1>1 DEF RequestType
<1>3. req' = [req EXCEPT ![i] = [req[i] EXCEPT !.phase = a]]
  BY DEF Reply
<1>4. QED
  BY <1>2, <1>3 DEF TypeOK

\* Loading writes what was seen of the catalog, and a phase.
LEMMA LoadFacts ==
    ASSUME TypeOK, NEW i \in 0..MaxLost, Load(i)
    PROVE  /\ req' \in [0..MaxLost -> RequestType]
           /\ req'[i].phase \in {"ok", "error", "loaded"}
           /\ req'[i].op = req[i].op /\ req'[i].items = req[i].items
           /\ req'[i].missing = req[i].missing
           /\ \A j \in 0..MaxLost : j # i => req'[j] = req[j]
<1>1. req[i] \in RequestType /\ state \in States
  BY DEF TypeOK
<1>2. PICK p \in {"ok", "error", "loaded"} :
         req' = [req EXCEPT ![i] = [req[i] EXCEPT !.seen = state, !.phase = p]]
  BY <1>1 DEF Load, TypeOK
<1>3. [req[i] EXCEPT !.seen = state, !.phase = p] \in RequestType
  BY <1>1 DEF RequestType
<1>4. /\ req'[i] = [req[i] EXCEPT !.seen = state, !.phase = p]
      /\ \A j \in 0..MaxLost : j # i => req'[j] = req[j]
      /\ req' \in [0..MaxLost -> RequestType]
  BY <1>2, <1>3 DEF TypeOK
<1>5. QED
  BY <1>1, <1>4 DEF RequestType

\* Reading writes which entries are missing, and whether none is.
LEMMA ReadFacts ==
    ASSUME TypeOK, NEW i \in 0..MaxLost, Read(i)
    PROVE  /\ req' \in [0..MaxLost -> RequestType]
           /\ req'[i].phase = "read" /\ req'[i].op = req[i].op
           /\ req'[i].items = req[i].items /\ req'[i].missing \subseteq req[i].items
           /\ req'[i].full => entries = req[i].items
           /\ \A j \in 0..MaxLost : j # i => req'[j] = req[j]
<1>1. req[i] \in RequestType
  BY DEF TypeOK
<1> DEFINE r == [req[i] EXCEPT !.phase = "read", !.missing = req[i].items \ entries,
                               !.full = (entries = req[i].items)]
<1>2. req[i].items \ entries \in SUBSET Entries
  BY <1>1 DEF RequestType
<1>3. (entries = req[i].items) \in BOOLEAN
  OBVIOUS
<1>4. r \in RequestType
  BY <1>1, <1>2, <1>3 DEF RequestType
<1>5. req' = [req EXCEPT ![i] = r]
  BY DEF Read
<1>6. /\ req'[i] = r
      /\ \A j \in 0..MaxLost : j # i => req'[j] = req[j]
      /\ req' \in [0..MaxLost -> RequestType]
  BY <1>4, <1>5 DEF TypeOK
<1>7. r.full = (entries = req[i].items)
  BY <1>1 DEF RequestType
<1>8. QED
  BY <1>1, <1>6, <1>7, ZenonT(40) DEF RequestType

-----------------------------------------------------------------------------
(* Types, and the two shapes that make completeness inductive.             *)

LEMMA InitInv == Init => CatalogInv
<1>1. Init => TypeOK
  BY CatalogAssumption, NoRequestType DEF Init, TypeOK, Ops, States
<1>2. QED
  BY <1>1, CatalogAssumption
  DEF Init, CatalogInv, BuildShape, ListingShape, NoRequest, Ops

\* A build's own steps: the table of requests grows by what it sends, the
\* catalog is left alone.
LEMMA SentInv ==
    ASSUME CatalogInv, NEW op \in Ops, NEW items \in SUBSET Listed, Send(op, items),
           op = "finalize" => items = Listed,
           nodes' \subseteq Entries, op = "append" => nodes' = Listed,
           sent' \in Nat, UNCHANGED <<serverVars, owed, lost, asks>>
    PROVE  CatalogInv'
<1> USE DEF CatalogInv
<1>1. /\ req' \in [0..MaxLost -> RequestType]
      /\ pc' = op
      /\ req'[lost] = Sent(op, items)
      /\ \A i \in 0..MaxLost : i # lost => req'[i] = req[i]
  BY SendFacts
<1>2. /\ Sent(op, items).phase = "sent" /\ Sent(op, items).op = op
      /\ Sent(op, items).items = items /\ Sent(op, items).missing = {}
  BY DEF Sent, NoRequest
<1>3. TypeOK'
  BY <1>1 DEF TypeOK, serverVars
<1>4. BuildShape'
  BY <1>1, <1>2 DEF BuildShape
<1>5. ListingShape'
  BY <1>1, <1>2 DEF ListingShape, serverVars, TypeOK
<1>6. QED
  BY <1>3, <1>4, <1>5

\* A handler's steps: one request moves on, the build waits.
LEMMA HandledInv ==
    ASSUME CatalogInv, NEW i \in 0..MaxLost,
           req' \in [0..MaxLost -> RequestType],
           \A j \in 0..MaxLost : j # i => req'[j] = req[j],
           req'[i].phase # "none", req'[i].op = req[i].op, req'[i].items = req[i].items,
           req'[i].missing \subseteq Listed,
           req'[i].op = "finalize" /\ req'[i].phase = "read" /\ req'[i].full
              => entries' = Listed,
           state' \in States, entries \subseteq entries', entries' \subseteq Listed,
           state' = "READY" => entries' = Listed,
           UNCHANGED <<owed, pc, nodes, sent, lost, asks>>
    PROVE  CatalogInv'
<1> USE DEF CatalogInv
<1>1. TypeOK'
  BY ListedEntries DEF TypeOK
<1>2. BuildShape'
  BY DEF BuildShape, TypeOK
<1>3. ASSUME NEW j \in 0..MaxLost
      PROVE  /\ req'[j].items \subseteq Listed /\ req'[j].missing \subseteq Listed
             /\ req'[j].op = "finalize" => req'[j].items = Listed
             /\ req'[j].op = "finalize" /\ req'[j].phase = "read" /\ req'[j].full
                   => entries' = Listed
  <2>1. CASE j = i
    BY <2>1 DEF ListingShape
  <2>2. CASE j # i
    BY <2>2 DEF ListingShape
  <2>3. QED
    BY <2>1, <2>2
<1>4. ListingShape'
  BY <1>3 DEF ListingShape
<1>5. QED
  BY <1>1, <1>2, <1>4

\* Every step keeps the invariant, one case per action.
LEMMA NextInv == ASSUME CatalogInv, [Next]_vars PROVE CatalogInv'
<1> USE DEF CatalogInv
<1>0. Listed \subseteq Entries
  BY ListedEntries
<1>1. CASE Start
  BY <1>1, SentInv DEF Start, Ops
<1>2. CASE List
  <2>1. SendNext(0, Listed)
    BY <1>2 DEF List
  <2>2. PICK op \in {"append", "finalize"}, items \in SUBSET Listed :
           Send(op, items) /\ (op = "finalize" => items = Listed) /\ sent' \in Nat
    BY <2>1, SendNextFacts
  <2>3. QED
    BY <1>0, <1>2, <2>2, SentInv DEF List, Ops
<1>3. CASE ListFails
  <2>1. Send("fail", {}) /\ nodes' \subseteq Entries /\ sent' \in Nat
    BY <1>3 DEF ListFails, TypeOK
  <2>2. QED
    BY <1>3, <2>1, SentInv DEF ListFails, Ops
<1>4. CASE Answered
  <2> DEFINE r == req[lost]
  <2>1. pc \in Ops /\ r.op = pc /\ lost \in 0..MaxLost
    BY <1>4 DEF Answered, BuildShape, TypeOK
  <2>2. CASE r.phase = "ok" /\ r.op = "append"
    <3>1. nodes = Listed /\ nodes' = nodes /\ SendNext(sent, nodes)
      BY <1>4, <2>1, <2>2 DEF Answered, BuildShape
    <3>2. PICK op \in {"append", "finalize"}, items \in SUBSET Listed :
             Send(op, items) /\ (op = "finalize" => items = Listed) /\ sent' \in Nat
      BY <3>1, SendNextFacts DEF TypeOK
    <3>3. UNCHANGED <<serverVars, owed, lost, asks>>
      BY <1>4, <2>2 DEF Answered
    <3>4. QED
      BY <1>0, <3>1, <3>2, <3>3, SentInv DEF Ops
  <2>3. CASE ~(r.phase = "ok" /\ r.op = "append")
    <3>1. /\ UNCHANGED <<serverVars, lost, asks, req>>
          /\ pc' \in {"list", "idle"} /\ nodes' \in {nodes, {}} /\ sent' \in {sent, 0}
          /\ owed' \in {owed, "no"}
      BY <1>4, <2>1, <2>3 DEF Answered, Return
    <3>2. QED
      BY <3>1 DEF TypeOK, BuildShape, ListingShape, Ops, serverVars
  <2>4. QED
    BY <2>2, <2>3
<1>5. CASE GiveUp
  <2>1. /\ UNCHANGED <<serverVars, asks>>
        /\ lost' = lost + 1 /\ lost' \in 0..MaxLost
        /\ pc' = "idle" /\ nodes' = {} /\ sent' = 0 /\ owed' \in {owed, "no"}
        /\ \/ req' = req
           \/ req' = [req EXCEPT ![lost] = NoRequest]
    BY <1>5, CatalogAssumption DEF GiveUp, Return, TypeOK
  <2>2. /\ req' \in [0..MaxLost -> RequestType]
        /\ \A i \in 0..MaxLost : req'[i] \in {NoRequest, req[i]}
    BY <2>1, NoRequestType DEF TypeOK
  <2>3. TypeOK' /\ BuildShape'
    BY <2>1, <2>2 DEF TypeOK, BuildShape, serverVars, Ops
  <2>4. NoRequest.items = {} /\ NoRequest.missing = {} /\ NoRequest.op = "create"
    BY DEF NoRequest
  <2>5. ListingShape'
    BY <2>1, <2>2, <2>4 DEF ListingShape, serverVars
  <2>6. QED
    BY <2>3, <2>5
<1>6. CASE Request
  <2>1. asks' \in 0..MaxAsks
    BY <1>6, CatalogAssumption DEF Request, TypeOK
  <2>2. QED
    BY <1>6, <2>1 DEF Request, TypeOK, BuildShape, ListingShape, serverVars
<1>7. ASSUME NEW i \in 0..MaxLost, Handle(i)
      PROVE  CatalogInv'
  <2>1. /\ state \in States /\ req[i] \in RequestType
        /\ entries \subseteq Listed /\ (state = "READY" => entries = Listed)
        /\ req[i].items \subseteq Listed /\ req[i].missing \subseteq Listed
        /\ req[i].op = "finalize" => req[i].items = Listed
        /\ req[i].op = "finalize" /\ req[i].phase = "read" /\ req[i].full
              => entries = Listed
    BY DEF TypeOK, ListingShape
  <2>2. CASE Load(i)
    <3>1. UNCHANGED <<state, entries, owed, pc, nodes, sent, lost, asks>>
      BY <2>2 DEF Load, serverVars
    <3>2. QED
      BY <2>1, <2>2, <3>1, LoadFacts, HandledInv
  <2>3. CASE Read(i)
    <3>1. UNCHANGED <<state, entries, owed, pc, nodes, sent, lost, asks>>
      BY <2>3 DEF Read, serverVars
    <3>2. /\ req' \in [0..MaxLost -> RequestType]
          /\ req'[i].phase = "read" /\ req'[i].op = req[i].op
          /\ req'[i].items = req[i].items /\ req'[i].missing \subseteq req[i].items
          /\ req'[i].full => entries = req[i].items
          /\ \A j \in 0..MaxLost : j # i => req'[j] = req[j]
      BY <2>3, ReadFacts
    <3>3. QED
      BY <2>1, <3>1, <3>2, HandledInv
  <2>4. ASSUME NEW a \in {"ok", "error"}, Reply(i, a),
               state' \in States, entries \subseteq entries', entries' \subseteq Listed,
               state' = "READY" => entries' = Listed,
               UNCHANGED <<owed, pc, nodes, sent, lost, asks>>
        PROVE  CatalogInv'
    <3>1. /\ req' \in [0..MaxLost -> RequestType]
          /\ req'[i] = [req[i] EXCEPT !.phase = a]
          /\ \A j \in 0..MaxLost : j # i => req'[j] = req[j]
      BY <2>4, ReplyFacts
    <3>2. /\ req'[i].phase = a /\ req'[i].op = req[i].op /\ req'[i].items = req[i].items
          /\ req'[i].missing = req[i].missing
      BY <2>1, <3>1 DEF RequestType
    <3>3. QED
      BY <2>1, <2>4, <3>1, <3>2, HandledInv
  <2>5. CASE CommitCreate(i)
    BY <2>1, <2>4, <2>5 DEF CommitCreate, States
  <2>6. CASE CommitAppend(i)
    BY <2>1, <2>4, <2>6 DEF CommitAppend, serverVars, States
  <2>7. CASE CommitFinalize(i)
    <3>1. PICK a \in {"ok", "error"} : Reply(i, a)
      BY <2>7 DEF CommitFinalize
    <3>2. /\ entries' = entries /\ UNCHANGED <<owed, pc, nodes, sent, lost, asks>>
          /\ state' \in States /\ (state' = "READY" => entries = Listed)
      BY <2>1, <2>7 DEF CommitFinalize, States
    <3>3. QED
      BY <2>1, <2>4, <3>1, <3>2
  <2>8. CASE CommitFail(i)
    BY <2>1, <2>4, <2>8 DEF CommitFail, States
  <2>9. QED
    BY <1>7, <2>2, <2>3, <2>5, <2>6, <2>7, <2>8 DEF Handle
<1>8. CASE UNCHANGED vars
  BY <1>8 DEF vars, serverVars, TypeOK, BuildShape, ListingShape
<1>9. QED
  BY <1>1, <1>2, <1>3, <1>4, <1>5, <1>6, <1>7, <1>8 DEF Next, Build

LEMMA CatalogInvHolds == Spec => []CatalogInv
BY InitInv, NextInv, PTL DEF Spec

\* Type correctness: no step of a build or of a handler leaves the types.
THEOREM CatalogTypeCorrect == Spec => []TypeOK
<1>1. CatalogInv => TypeOK
  BY DEF CatalogInv
<1>2. QED
  BY <1>1, CatalogInvHolds, PTL

\* A READY catalog is complete, for every number of entries, batches and
\* requests given up or handled late, when the listing fits in what is
\* captured (maxCapture); the run catalog_capture shows that it must.
THEOREM ReadyIsComplete ==
    ASSUME Capture >= Nodes
    PROVE  Spec => []ReadyComplete
<1>1. Listed = Entries
  BY CatalogAssumption DEF Listed, Entries
<1>2. CatalogInv => ReadyComplete
  BY <1>1 DEF CatalogInv, ListingShape, ReadyComplete
<1>3. QED
  BY <1>2, CatalogInvHolds, PTL

-----------------------------------------------------------------------------
(* READY is left only by a handler that had loaded the catalog before.     *)

LEMMA FailShapeHolds == Spec => []FailShape
<1>1. Init => FailShape
  BY DEF Init, FailShape, NoRequest
<1>2. TypeOK /\ FailShape /\ [Next]_vars => FailShape'
  <2> SUFFICES ASSUME TypeOK, FailShape, [Next]_vars
               PROVE  FailShape'
    OBVIOUS
  <2>1. ASSUME NEW op \in Ops, NEW items, Send(op, items)
        PROVE  FailShape'
    <3>1. req' = [req EXCEPT ![lost] = Sent(op, items)]
      BY <2>1 DEF Send, Sent
    <3>2. Sent(op, items).phase = "sent"
      BY DEF Sent, NoRequest
    <3>3. \A i \in 0..MaxLost : req'[i] = IF i = lost THEN Sent(op, items) ELSE req[i]
      BY <3>1 DEF TypeOK
    <3>4. QED
      BY <3>2, <3>3 DEF FailShape
  <2>2. CASE Start \/ List \/ ListFails
    BY <2>1, <2>2 DEF Start, List, ListFails, SendNext, Ops
  <2>3. CASE Answered
    <3>1. CASE UNCHANGED req
      BY <3>1 DEF FailShape
    <3>2. CASE SendNext(sent, nodes)
      BY <2>1, <3>2 DEF SendNext, Ops
    <3>3. QED
      BY <2>3, <3>1, <3>2 DEF Answered
  <2>4. CASE GiveUp
    <3>1. \A i \in 0..MaxLost : req'[i] \in {NoRequest, req[i]}
      BY <2>4 DEF GiveUp, TypeOK
    <3>2. QED
      BY <3>1 DEF FailShape, NoRequest
  <2>5. ASSUME NEW i \in 0..MaxLost, Load(i)
        PROVE  FailShape'
    <3>1. req[i] \in RequestType
      BY DEF TypeOK
    <3>2. PICK p \in {"ok", "error", "loaded"} :
             /\ req' = [req EXCEPT ![i] = [req[i] EXCEPT !.seen = state, !.phase = p]]
             /\ p = "loaded" => ~(req[i].op = "fail" /\ state = "READY")
      BY <2>5, <3>1 DEF Load, TypeOK
    <3>3. req'[i] = [req[i] EXCEPT !.seen = state, !.phase = p]
      BY <3>2 DEF TypeOK
    <3>4. req'[i].seen = state /\ req'[i].phase = p /\ req'[i].op = req[i].op
      BY <3>1, <3>3 DEF RequestType
    <3>5. \A j \in 0..MaxLost : j # i => req'[j] = req[j]
      BY <3>2 DEF TypeOK
    <3>6. QED
      BY <3>2, <3>4, <3>5 DEF FailShape
  <2>6. ASSUME NEW i \in 0..MaxLost, Read(i)
        PROVE  FailShape'
    BY <2>6, ReadFacts DEF FailShape
  <2>7. ASSUME NEW i \in 0..MaxLost, NEW a \in {"ok", "error"}, Reply(i, a)
        PROVE  FailShape'
    <3>1. /\ req'[i] = [req[i] EXCEPT !.phase = a]
          /\ \A j \in 0..MaxLost : j # i => req'[j] = req[j]
      BY <2>7, ReplyFacts
    <3>2. req'[i].phase = a
      BY <3>1 DEF TypeOK, RequestType
    <3>3. QED
      BY <3>1, <3>2 DEF FailShape
  <2>8. ASSUME NEW i \in 0..MaxLost,
               CommitCreate(i) \/ CommitAppend(i) \/ CommitFinalize(i) \/ CommitFail(i)
        PROVE  FailShape'
    BY <2>7, <2>8 DEF CommitCreate, CommitAppend, CommitFinalize, CommitFail
  <2>9. CASE Request \/ UNCHANGED vars
    BY <2>9 DEF Request, vars, FailShape
  <2>10. QED
    BY <2>2, <2>3, <2>4, <2>5, <2>6, <2>8, <2>9 DEF Next, Build, Handle
<1>3. QED
  BY <1>1, <1>2, CatalogTypeCorrect, PTL DEF Spec

LEMMA StepKeepsReady ==
    ASSUME FailShape, [Next]_vars, state = "READY", \A i \in 0..MaxLost : ~InHand(i)
    PROVE  state' = "READY"
<1>1. CASE Build \/ GiveUp \/ Request
  BY <1>1 DEF Build, Start, List, ListFails, Answered, GiveUp, Request, serverVars
<1>2. ASSUME NEW i \in 0..MaxLost, Handle(i)
      PROVE  state' = "READY"
  <2>1. ~InHand(i)
    OBVIOUS
  <2>2. CASE Load(i) \/ Read(i) \/ CommitCreate(i) \/ CommitFinalize(i)
    BY <2>2 DEF Load, Read, CommitCreate, CommitFinalize, serverVars
  <2>3. CASE CommitAppend(i)
    BY <2>1, <2>3 DEF CommitAppend, InHand, serverVars
  <2>4. CASE CommitFail(i)
    <3>1. req[i].seen = "FAILED"
      BY <2>1, <2>4 DEF CommitFail, InHand, FailShape
    <3>2. QED
      BY <2>4, <3>1 DEF CommitFail
  <2>5. QED
    BY <1>2, <2>2, <2>3, <2>4 DEF Handle
<1>3. CASE UNCHANGED vars
  BY <1>3 DEF vars
<1>4. QED
  BY <1>1, <1>2, <1>3 DEF Next

\* READY does not regress, but for a handler that had the catalog in hand.
THEOREM ReadyIsKept == Spec => ReadyStays
<1>1. FailShape /\ [Next]_vars
        => [state = "READY" /\ (\A i \in 0..MaxLost : ~InHand(i)) => state' = "READY"]_vars
  BY StepKeepsReady
<1>2. QED
  BY <1>1, FailShapeHolds, PTL DEF Spec, ReadyStays

-----------------------------------------------------------------------------
(* One run of the engine (EngineRun): what restic printed and where it is. *)

\* A line of restic's: what happened, and the volume, snapshot or word it names.
Events == {"shadowed", "live", "denied", "status", "saved"}
Words == {Engine!None, "moved", "same"}
Subjects == Words \cup Snapshots \cup {Short[s] : s \in Snapshots} \cup UNION {r.vols : r \in Requests}
Line == Events \X Subjects

\* In the buffer, or still in the pipe.
Says(l) == l \in text \/ \E i \in DOMAIN pipe : l \in pipe[i]

\* The id that the summary of this run shows.
OwnId == IF Engine!Json(asked) THEN own ELSE Short[own]

CaptureType == pipe \in Seq(SUBSET Line) /\ text \in SUBSET Line /\ cut \in BOOLEAN

RunType ==
    /\ asked \in Requests \cup {Engine!NoRequest}
    /\ own \in Snapshots \cup {Engine!None} /\ stage \in {"vss", "upload", "published", "named"}
    /\ IsFiniteSet(repo)

\* Every line restic wrote says what it did, and the line that names its
\* snapshot is lost only if the buffer was full.
Evidence ==
    /\ \A l \in Line :
          Says(l) => /\ l[1] = "saved" => stage = "named" /\ l[2] = OwnId
                     /\ l[1] = "shadowed" => l[2] \in shadowed
    /\ stage = "named" /\ ~cut => Says(<<"saved", OwnId>>)

Progress ==
    /\ own # Engine!None <=> stage \in {"published", "named"}
    /\ own # Engine!None => own \in repo
    /\ stage # "vss" => asked.op = "backup"
    /\ at = "idle" => stage = "vss"
    /\ stage = "vss" => shadowed = {}
    /\ at \notin {"run", "grace", "close", "drain"} => pipe = <<>>
    /\ at = "readback" => /\ asked.op = "backup" /\ code \in {0, 3} /\ ctx = "live"
                          /\ Engine!Saved # Engine!None
    /\ at # "done" => verdict = Engine!NoVerdict

EngineInv == CaptureType /\ RunType /\ Evidence /\ Progress
             /\ Engine!ResultIsEvidence /\ Engine!SummaryNotLost

\* What restic writes is added to what it says.
LEMMA WriteSays ==
    ASSUME CaptureType, NEW lines \in SUBSET Line, pipe' = Append(pipe, lines), UNCHANGED <<text, cut>>
    PROVE  CaptureType' /\ \A l : Says(l)' <=> Says(l) \/ l \in lines
<1>1. CaptureType'
  BY DEF CaptureType
<1>2. /\ DOMAIN pipe = 1..Len(pipe) /\ DOMAIN pipe' = 1..(Len(pipe) + 1) /\ Len(pipe) \in Nat
      /\ \A i \in 1..Len(pipe) : pipe'[i] = pipe[i]
      /\ pipe'[Len(pipe) + 1] = lines
  BY DEF CaptureType
<1>3. ASSUME NEW l
      PROVE  Says(l)' <=> Says(l) \/ l \in lines
  <2>1. (\E i \in DOMAIN pipe' : l \in pipe'[i]) <=> (\E i \in DOMAIN pipe : l \in pipe[i]) \/ l \in lines
    BY <1>2
  <2>2. QED
    BY <2>1 DEF Says
<1>4. QED
  BY <1>1, <1>3

\* What the runner reads it captures, or remembers that it did not.
LEMMA DrainSays ==
    ASSUME CaptureType, Engine!Drain
    PROVE  /\ CaptureType' /\ (cut => cut')
           /\ \A l : Says(l)' => Says(l)
           /\ ~cut' => \A l : Says(l) => Says(l)'
<1>1. pipe # <<>> /\ pipe' = Tail(pipe) /\ Engine!Captured(Head(pipe))
  BY DEF Engine!Drain
<1>2. /\ DOMAIN pipe = 1..Len(pipe) /\ Len(pipe) \in Nat /\ Len(pipe) > 0 /\ Head(pipe) = pipe[1]
      /\ DOMAIN pipe' = 1..(Len(pipe) - 1) /\ Head(pipe) \in SUBSET Line
      /\ \A i \in 1..(Len(pipe) - 1) : pipe'[i] = pipe[i + 1]
      /\ pipe' \in Seq(SUBSET Line)
  BY <1>1 DEF CaptureType
<1>3. \/ text' = text \cup Head(pipe) /\ cut' = cut
      \/ text' = text /\ cut' = TRUE
  BY <1>1 DEF Engine!Captured
<1>4. CaptureType' /\ (cut => cut')
  BY <1>2, <1>3 DEF CaptureType
<1>5. ASSUME NEW l
      PROVE  (Says(l)' => Says(l)) /\ (~cut' => (Says(l) => Says(l)'))
  <2>1. (\E i \in DOMAIN pipe' : l \in pipe'[i]) => (\E i \in DOMAIN pipe : l \in pipe[i])
    BY <1>2
  <2>2. (\E i \in DOMAIN pipe : l \in pipe[i]) => l \in Head(pipe) \/ (\E i \in DOMAIN pipe' : l \in pipe'[i])
    <3>1. SUFFICES ASSUME NEW i \in DOMAIN pipe, l \in pipe[i], i # 1
                   PROVE  \E j \in DOMAIN pipe' : l \in pipe'[j]
      BY <1>2
    <3>2. i - 1 \in DOMAIN pipe' /\ pipe'[i - 1] = pipe[i]
      BY <1>2, <3>1
    <3>3. QED
      BY <3>1, <3>2
  <2>3. l \in Head(pipe) => \E i \in DOMAIN pipe : l \in pipe[i]
    BY <1>2
  <2>4. QED
    BY <1>3, <2>1, <2>2, <2>3 DEF Says
<1>6. QED
  BY <1>4, <1>5

\* The summary that was captured names this run's snapshot.
LEMMA SavedIsOwn ==
    ASSUME Engine!EngineAssumption, EngineInv
    PROVE  /\ Engine!Saved # Engine!None =>
                 /\ stage = "named" /\ Engine!Saved = OwnId /\ own \in Snapshots /\ own \in repo
                 /\ Engine!Saved \in {own, Short[own]} /\ own # Engine!None
           /\ stage = "named" /\ ~cut /\ pipe = <<>> => Engine!Saved # Engine!None
<1> USE DEF EngineInv
<1>1. \A id \in Engine!Named : stage = "named" /\ id = OwnId
  <2> SUFFICES ASSUME NEW l \in text, l[1] = "saved"
               PROVE  stage = "named" /\ l[2] = OwnId
    BY DEF Engine!Named
  <2>1. l \in Line /\ Says(l)
    BY DEF CaptureType, Says
  <2>2. QED
    BY <2>1 DEF Evidence
<1>2. stage = "named" => own \in Snapshots /\ own \in repo /\ own # Engine!None
  BY DEF Progress, RunType
<1>3. Engine!Saved # Engine!None => Engine!Named # {} /\ Engine!Saved \in Engine!Named
  BY DEF Engine!Saved
<1>4. OwnId \in {own, Short[own]}
  BY DEF OwnId
<1>5. ASSUME stage = "named", ~cut, pipe = <<>>
      PROVE  Engine!Saved # Engine!None
  <2>1. <<"saved", OwnId>> \in text
    BY <1>5 DEF Evidence, Says
  <2>2. OwnId \in Engine!Named
    BY <2>1 DEF Engine!Named
  <2>3. Engine!Saved \in Engine!Named
    BY <2>2 DEF Engine!Saved
  <2>4. OwnId # Engine!None
    BY <1>2, <1>4, <1>5 DEF Engine!EngineAssumption
  <2>5. QED
    BY <1>1, <2>3, <2>4
<1>6. QED
  BY <1>1, <1>2, <1>3, <1>4, <1>5

\* The one snapshot a readback finds under it is this run's.
LEMMA ReadbackIsOwn ==
    ASSUME Engine!EngineAssumption, EngineInv, Engine!Saved # Engine!None,
           NEW s \in Engine!ReadSnapshot(Engine!Saved)
    PROVE  s = own
<1> DEFINE M == Engine!Matches(Engine!Saved)
<1>1. own \in M
  BY SavedIsOwn DEF Engine!Matches, Engine!Listing
<1>2. M \subseteq repo /\ IsFiniteSet(M)
  <2>1. M \subseteq repo /\ IsFiniteSet(repo)
    BY DEF Engine!Matches, Engine!Listing, EngineInv, RunType
  <2> HIDE DEF M
  <2>2. QED
    BY <2>1, FS_Subset
<1>3. s \in M /\ Engine!Cardinality(M) = 1
  BY DEF Engine!ReadSnapshot
<1>4. Cardinality(M) = 1
  BY Zenon, <1>3 DEF Engine!Cardinality, Cardinality
<1> HIDE DEF M
<1>5. \E x : M = {x}
  BY <1>2, <1>4, FS_Singleton
<1>6. QED
  BY <1>1, <1>3, <1>5

\* What a verdict says of the outcome and of the snapshot.
LEMMA ReturnedFields ==
    ASSUME NEW o, NEW c, NEW s, NEW p
    PROVE  Engine!Returned(o, c, s, p).outcome = o /\ Engine!Returned(o, c, s, p).snap = s
BY DEF Engine!Returned

LEMMA FailsFields ==
    /\ \A c : Engine!Fails(c).outcome = "FAILED" /\ Engine!Fails(c).snap = Engine!None
    /\ Engine!NoVerdict.outcome = "" /\ Engine!NoVerdict.snap = Engine!None
<1>1. \A c : Engine!Fails(c).outcome = "FAILED" /\ Engine!Fails(c).snap = Engine!None
  BY Zenon DEF Engine!Fails, Engine!Returned
<1>2. Engine!NoVerdict.outcome = ""
  BY Zenon DEF Engine!NoVerdict, Engine!Returned
<1>3. Engine!NoVerdict.snap = Engine!None
  BY Zenon DEF Engine!NoVerdict, Engine!Returned
<1>4. QED
  BY <1>1, <1>2, <1>3

LEMMA EngineBegins ==
    ASSUME Engine!EngineAssumption, Engine!Init
    PROVE  EngineInv
<1> USE DEF Engine!Init
<1>1. CaptureType
  <2>1. pipe = <<>> /\ text = {} /\ cut = FALSE
    OBVIOUS
  <2> HIDE DEF Engine!Init
  <2>2. pipe \in Seq(SUBSET Line)
    BY <2>1
  <2>3. text \in SUBSET Line /\ cut \in BOOLEAN
    BY Zenon, <2>1
  <2>4. QED
    BY <2>2, <2>3 DEF CaptureType
<1>2. \A l : ~Says(l)
  <2>1. DOMAIN pipe = {}
    OBVIOUS
  <2>2. QED
    BY <2>1 DEF Says
<1>3. RunType
  <2>1. asked = Engine!NoRequest /\ own = Engine!None /\ stage = "vss" /\ repo = Foreign
    OBVIOUS
  <2>2. IsFiniteSet(Foreign)
    BY DEF Engine!EngineAssumption, Engine!IsFiniteSet, IsFiniteSet
  <2> HIDE DEF Engine!Init
  <2>3. QED
    BY <2>1, <2>2 DEF RunType
<1>4. Evidence /\ Progress
  BY <1>2 DEF Evidence, Progress
<1>5. verdict.snap = Engine!None /\ verdict.outcome = ""
  BY FailsFields
<1>6. QED
  BY <1>1, <1>3, <1>4, <1>5 DEF EngineInv, Engine!ResultIsEvidence, Engine!SummaryNotLost

\* Nothing is said twice: where the lines stay, so does what they say.
LEMMA SameEvidence ==
    ASSUME EngineInv, UNCHANGED <<asked, pipe, text, cut, stage, own, repo, shadowed>>
    PROVE  CaptureType' /\ RunType' /\ Evidence' /\ (Engine!Saved)' = Engine!Saved
<1>1. \A l : Says(l)' <=> Says(l)
  BY DEF Says
<1>2. OwnId' = OwnId
  BY DEF OwnId, Engine!Json
<1>3. Evidence'
  BY <1>1, <1>2 DEF Evidence, EngineInv
<1>4. QED
  BY <1>3 DEF EngineInv, CaptureType, RunType, Engine!Saved, Engine!Named

Pumping == {"run", "grace", "close", "drain"}

\* Steps of the runner, the clock, the caller and restic's end.
LEMMA QuietKept ==
    ASSUME EngineInv, UNCHANGED <<asked, pipe, text, cut, stage, own, repo, shadowed, verdict>>,
           \/ at' = at
           \/ at \in Pumping /\ at' \in Pumping
           \/ at = "drain" /\ at' = "judge" /\ pipe = <<>>,
           at \in {"readback", "done"} => UNCHANGED <<code, ctx>>
    PROVE  EngineInv'
<1>1. Progress'
  BY SameEvidence DEF EngineInv, Progress, Pumping
<1>2. at' = "done" <=> at = "done"
  BY DEF Pumping
<1>3. at # "done" => verdict.snap = Engine!None /\ verdict.outcome = ""
  BY FailsFields DEF EngineInv, Progress
<1>4. (Engine!ResultIsEvidence)'
  BY <1>3 DEF EngineInv, Engine!ResultIsEvidence
<1>5. (Engine!SummaryNotLost)'
  BY <1>2 DEF EngineInv, Engine!SummaryNotLost
<1>6. QED
  BY SameEvidence, <1>1, <1>4, <1>5 DEF EngineInv

\* A result that rests on evidence is returned.
LEMMA ReturnKept ==
    ASSUME EngineInv, at \in {"judge", "readback"}, NEW v, Engine!Return(v),
           v.snap # Engine!None => own # Engine!None /\ v.snap \in {own, Short[own]},
           v.outcome = "SUCCEEDED" => /\ code = 0 /\ ctx = "live" /\ v.snap = own /\ own \in repo
                                      /\ asked.vss => asked.vols \subseteq shadowed,
           stage = "named" /\ ~cut => v.snap # Engine!None
    PROVE  EngineInv'
<1>1. /\ UNCHANGED <<asked, pipe, text, cut, stage, own, repo, shadowed, code, ctx>>
      /\ verdict' = v /\ at' = "done"
  BY DEF Engine!Return, Engine!engine, Engine!capture
<1>2. Progress'
  BY <1>1, SameEvidence DEF EngineInv, Progress
<1>3. (Engine!ResultIsEvidence)' /\ (Engine!SummaryNotLost)'
  BY <1>1 DEF Engine!ResultIsEvidence, Engine!SummaryNotLost
<1>4. QED
  BY <1>1, <1>2, <1>3, SameEvidence DEF EngineInv

LEMMA RunnerKept ==
    ASSUME EngineInv,
           \/ Engine!Exit \/ Engine!HelperExits \/ Engine!Tick \/ Engine!WatchFires \/ Engine!Expire
           \/ Engine!Stop \/ Engine!SeeExit \/ Engine!SeeCancel \/ Engine!LeavesInTime
           \/ Engine!Terminate \/ Engine!CloseJob \/ Engine!Collect
    PROVE  EngineInv'
<1>1. UNCHANGED <<asked, pipe, text, cut, stage, own, repo, shadowed, verdict>>
  BY DEF Engine!Exit, Engine!HelperExits, Engine!Tick, Engine!WatchFires, Engine!Expire, Engine!Stop,
         Engine!SeeExit, Engine!SeeCancel, Engine!LeavesInTime, Engine!Terminate, Engine!CloseJob,
         Engine!Collect, Engine!Goto, Engine!call, Engine!engine, Engine!capture
<1>2. \/ at' = at
      \/ at \in Pumping /\ at' \in Pumping
      \/ at = "drain" /\ at' = "judge" /\ pipe = <<>>
  BY DEF Engine!Exit, Engine!HelperExits, Engine!Tick, Engine!WatchFires, Engine!Expire, Engine!Stop,
         Engine!SeeExit, Engine!SeeCancel, Engine!LeavesInTime, Engine!Terminate, Engine!CloseJob,
         Engine!Collect, Engine!Goto, Engine!call, Pumping
<1>3. at \in {"readback", "done"} => UNCHANGED <<code, ctx>>
  BY DEF Engine!Exit, Engine!HelperExits, Engine!Tick, Engine!WatchFires, Engine!Expire, Engine!Stop,
         Engine!SeeExit, Engine!SeeCancel, Engine!LeavesInTime, Engine!Terminate, Engine!CloseJob,
         Engine!Collect, Engine!Goto, Engine!call, Engine!engine, Engine!Running, Engine!Attended
<1>4. QED
  BY <1>1, <1>2, <1>3, QuietKept

\* A request is refused, cannot be launched, or starts restic.
LEMMA BeginKept ==
    ASSUME EngineInv, NEW r \in Requests, Engine!Refuse(r) \/ Engine!LaunchFails(r) \/ Engine!Start(r)
    PROVE  EngineInv'
<1> USE DEF EngineInv
<1>1. /\ at = "idle" /\ asked' = r /\ stage = "vss"
      /\ UNCHANGED <<pipe, text, cut, stage, own, repo, shadowed, code, ctx>>
      /\ \/ at' = "run" /\ verdict' = Engine!NoVerdict
         \/ at' = "done" /\ \E c : verdict' = Engine!Fails(c)
  BY DEF Engine!Refuse, Engine!LaunchFails, Engine!Start, Engine!engine, Engine!capture, Progress
<1>2. verdict'.snap = Engine!None /\ verdict'.outcome # "SUCCEEDED"
  BY <1>1, FailsFields
<1>3. CaptureType' /\ RunType'
  BY <1>1 DEF CaptureType, RunType
<1>4. Evidence'
  <2>1. \A l : Says(l)' <=> Says(l)
    BY <1>1 DEF Says
  <2>2. QED
    BY <1>1, <2>1 DEF Evidence
<1>5. Progress'
  BY <1>1 DEF Progress
<1>6. QED
  BY <1>1, <1>2, <1>3, <1>4, <1>5 DEF Engine!ResultIsEvidence, Engine!SummaryNotLost

LEMMA LineOf ==
    ASSUME NEW a \in Events, NEW b \in Subjects
    PROVE  <<a, b>> \in Line
BY DEF Line

LEMMA WordSubjects == Engine!None \in Subjects /\ "moved" \in Subjects /\ "same" \in Subjects
<1>1. Engine!None \in Words /\ "moved" \in Words /\ "same" \in Words
  BY DEF Words
<1>2. Words \subseteq Subjects
  BY Zenon DEF Subjects
<1>3. QED
  BY <1>1, <1>2

\* Before the end there is no result that would need evidence.
LEMMA NoResultYet ==
    ASSUME EngineInv, at \in Pumping, at' = at, verdict' = verdict
    PROVE  (Engine!ResultIsEvidence)' /\ (Engine!SummaryNotLost)'
<1>1. verdict'.snap = Engine!None /\ verdict'.outcome = ""
  BY FailsFields DEF EngineInv, Progress, Pumping
<1>2. QED
  BY <1>1 DEF Pumping, Engine!ResultIsEvidence, Engine!SummaryNotLost

\* restic takes its shadow copies, and says of which volumes.
LEMMA ShadowKept ==
    ASSUME Engine!EngineAssumption, EngineInv, Engine!Shadow
    PROVE  EngineInv'
<1> USE DEF EngineInv
<1>1. /\ at \in {"run", "grace"} /\ stage = "vss" /\ stage' = "upload" /\ asked.op = "backup"
      /\ UNCHANGED <<asked, at, ctx, verdict, code, own, repo, text, cut>>
  BY DEF Engine!Shadow, Engine!Running, Engine!call
<1>2. asked.vols \subseteq Subjects
  <2>0. Engine!NoRequest.op = ""
    BY Zenon DEF Engine!NoRequest
  <2>1. asked # Engine!NoRequest
    BY <1>1, <2>0
  <2>2. QED
    BY <2>1 DEF RunType, Subjects
<1>3. PICK ok \in SUBSET asked.vols, denied \in BOOLEAN :
          /\ shadowed' = ok
          /\ IF Engine!Json(asked) THEN UNCHANGED pipe
             ELSE pipe' = Append(pipe, {<<"shadowed", v>> : v \in ok}
                                       \cup {<<"live", v>> : v \in asked.vols \ ok}
                                       \cup IF denied THEN {<<"denied", Engine!None>>} ELSE {})
  BY <1>1 DEF Engine!Shadow, Engine!Write
<1> DEFINE lines == {<<"shadowed", v>> : v \in ok} \cup {<<"live", v>> : v \in asked.vols \ ok}
                    \cup IF denied THEN {<<"denied", Engine!None>>} ELSE {}
<1>4. lines \in SUBSET Line
  <2>1. \A v \in asked.vols : <<"shadowed", v>> \in Line /\ <<"live", v>> \in Line
    BY <1>2, LineOf DEF Events
  <2>2. "denied" \in Events /\ Engine!None \in Subjects
    BY WordSubjects DEF Events
  <2>3. QED
    BY <2>1, <2>2, LineOf
<1>5. \A l \in lines : l[1] # "saved" /\ (l[1] = "shadowed" => l[2] \in ok)
  OBVIOUS
<1> HIDE DEF lines
<1>6. CaptureType' /\ \A l : Says(l)' => Says(l) \/ l \in lines
  <2>1. CASE Engine!Json(asked)
    BY <1>1, <1>3, <2>1 DEF CaptureType, Says
  <2>2. CASE ~Engine!Json(asked)
    <3>1. pipe' = Append(pipe, lines)
      BY <1>3, <2>2 DEF lines
    <3>2. QED
      BY <1>1, <1>4, <3>1, WriteSays
  <2>3. QED
    BY <2>1, <2>2
<1>7. Evidence'
  <2>1. \A l \in Line : Says(l) => l[1] # "saved" /\ l[1] # "shadowed"
    BY <1>1 DEF Evidence, Progress
  <2>2. \A l \in Line : Says(l)' => l[1] # "saved" /\ (l[1] = "shadowed" => l[2] \in shadowed')
    BY <1>3, <1>5, <1>6, <2>1
  <2>3. QED
    BY <1>1, <2>2 DEF Evidence
<1>8. RunType' /\ Progress'
  BY <1>1 DEF RunType, Progress
<1>9. QED
  BY <1>1, <1>6, <1>7, <1>8, NoResultYet DEF Pumping

\* Status lines name no snapshot and no volume.
LEMMA StatusKept ==
    ASSUME EngineInv, Engine!Status
    PROVE  EngineInv'
<1> USE DEF EngineInv
<1>1. /\ at \in {"run", "grace"}
      /\ UNCHANGED <<asked, at, ctx, verdict, code, stage, shadowed, own, repo, text, cut>>
  BY DEF Engine!Status, Engine!Running, Engine!call
<1>2. PICK word \in {"moved", "same"} : pipe' = Append(pipe, {<<"status", word>>})
  <2>1. PICK moved \in BOOLEAN : pipe' = Append(pipe, {<<"status", IF moved THEN "moved" ELSE "same">>})
    BY DEF Engine!Status, Engine!Write
  <2>2. QED
    BY <2>1
<1>3. {<<"status", word>>} \in SUBSET Line
  <2>1. "status" \in Events /\ word \in Subjects
    BY WordSubjects DEF Events
  <2>2. QED
    BY <2>1, LineOf
<1>4. CaptureType' /\ \A l : Says(l)' <=> Says(l) \/ l = <<"status", word>>
  BY <1>1, <1>2, <1>3, WriteSays
<1>5. OwnId' = OwnId
  BY <1>1 DEF OwnId, Engine!Json
<1>6. Evidence'
  BY <1>1, <1>4, <1>5 DEF Evidence
<1>7. RunType' /\ Progress'
  BY <1>1 DEF RunType, Progress
<1>8. QED
  BY <1>1, <1>4, <1>6, <1>7, NoResultYet DEF Pumping

\* The snapshot is there before restic names it.
LEMMA PublishKept ==
    ASSUME Engine!EngineAssumption, EngineInv, Engine!Publish
    PROVE  EngineInv'
<1> USE DEF EngineInv
<1>1. /\ at \in {"run", "grace"} /\ stage = "upload" /\ stage' = "published"
      /\ UNCHANGED <<asked, at, ctx, verdict, code, shadowed, pipe, text, cut>>
      /\ own' \in Snapshots /\ repo' = repo \cup {own'}
  BY DEF Engine!Publish, Engine!Running, Engine!call, Engine!capture
<1>2. own' # Engine!None
  BY <1>1 DEF Engine!EngineAssumption
<1>3. IsFiniteSet(repo')
  BY <1>1, FS_AddElement DEF RunType
<1>4. CaptureType' /\ \A l : Says(l)' <=> Says(l)
  BY <1>1 DEF CaptureType, Says
<1>5. Evidence'
  BY <1>1, <1>4 DEF Evidence
<1>6. RunType' /\ Progress'
  BY <1>1, <1>2, <1>3 DEF RunType, Progress
<1>7. QED
  BY <1>1, <1>4, <1>5, <1>6, NoResultYet DEF Pumping

LEMMA NameKept ==
    ASSUME Engine!EngineAssumption, EngineInv, Engine!Name
    PROVE  EngineInv'
<1> USE DEF EngineInv
<1>1. /\ at \in {"run", "grace"} /\ stage = "published" /\ stage' = "named"
      /\ UNCHANGED <<asked, at, ctx, verdict, code, shadowed, own, repo, text, cut>>
      /\ pipe' = Append(pipe, {<<"saved", OwnId>>})
  BY DEF Engine!Name, Engine!Running, Engine!call, Engine!Write, OwnId
<1>2. OwnId \in Subjects
  BY <1>1 DEF OwnId, RunType, Progress, Subjects
<1>3. {<<"saved", OwnId>>} \in SUBSET Line
  BY <1>2, LineOf DEF Events
<1>4. CaptureType' /\ \A l : Says(l)' <=> Says(l) \/ l = <<"saved", OwnId>>
  BY <1>1, <1>3, WriteSays
<1>5. OwnId' = OwnId
  BY <1>1 DEF OwnId, Engine!Json
<1>6. Evidence'
  <2>1. \A l \in Line : Says(l) => l[1] # "saved" /\ (l[1] = "shadowed" => l[2] \in shadowed)
    BY <1>1 DEF Evidence
  <2>2. \A l \in Line : Says(l)' => (l[1] = "saved" => l[2] = OwnId') /\ (l[1] = "shadowed" => l[2] \in shadowed')
    BY <1>1, <1>4, <1>5, <2>1
  <2>3. Says(<<"saved", OwnId>>)'
    BY <1>4, <1>5 DEF Says
  <2>4. QED
    BY <1>1, <2>2, <2>3 DEF Evidence
<1>7. RunType' /\ Progress'
  BY <1>1 DEF RunType, Progress
<1>8. QED
  BY <1>1, <1>4, <1>6, <1>7, NoResultYet DEF Pumping

LEMMA DrainKept ==
    ASSUME EngineInv, Engine!Drain
    PROVE  EngineInv'
<1> USE DEF EngineInv
<1>1. /\ at \in Pumping
      /\ UNCHANGED <<asked, at, ctx, verdict, code, stage, shadowed, own, repo>>
  BY DEF Engine!Drain, Engine!Attended, Engine!call, Engine!engine, Pumping
<1>2. OwnId' = OwnId
  BY <1>1 DEF OwnId, Engine!Json
<1>3. Evidence'
  BY <1>1, <1>2, DrainSays DEF Evidence
<1>4. RunType' /\ Progress'
  BY <1>1 DEF RunType, Progress, Pumping
<1>5. QED
  BY <1>1, <1>3, <1>4, NoResultYet, DrainSays

LEMMA JudgeExitKept ==
    ASSUME EngineInv, Engine!JudgeExit
    PROVE  EngineInv'
<1> USE DEF EngineInv
<1>1. /\ at = "judge" /\ at' = "readback" /\ asked.op = "backup" /\ ctx = "live" /\ code \in {0, 3}
      /\ Engine!Saved # Engine!None
      /\ UNCHANGED <<asked, pipe, text, cut, stage, own, repo, shadowed, verdict, code, ctx>>
  BY DEF Engine!JudgeExit, Engine!Goto, Engine!Interrupted, Engine!engine, Engine!capture
<1>2. Progress'
  BY <1>1, SameEvidence DEF Progress
<1>3. (Engine!ResultIsEvidence)' /\ (Engine!SummaryNotLost)'
  BY <1>1 DEF Engine!ResultIsEvidence, Engine!SummaryNotLost
<1>4. QED
  BY <1>1, <1>2, <1>3, SameEvidence

\* A backup that ended badly or was stopped: its snapshot is named if restic
\* named it.
LEMMA JudgeEndKept ==
    ASSUME Engine!EngineAssumption, EngineInv,
           \/ Engine!JudgeStalled \/ Engine!JudgeCancelled \/ Engine!JudgeInterrupted
           \/ Engine!JudgeFatal \/ Engine!JudgeNameless \/ Engine!ReadbackFails
    PROVE  EngineInv'
<1>1. at \in {"judge", "readback"} /\ pipe = <<>>
  BY DEF EngineInv, Progress, Engine!JudgeStalled, Engine!JudgeCancelled, Engine!JudgeInterrupted,
         Engine!JudgeFatal, Engine!JudgeNameless, Engine!ReadbackFails
<1>2. CASE Engine!JudgeStalled \/ Engine!JudgeNameless
  <2>1. Engine!Saved = Engine!None /\ \E c : Engine!Return(Engine!Fails(c))
    BY <1>2 DEF Engine!JudgeStalled, Engine!JudgeNameless
  <2>2. QED
    BY <1>1, <2>1, FailsFields, SavedIsOwn, ReturnKept
<1>3. CASE Engine!JudgeCancelled
  <2> DEFINE v == Engine!Returned("CANCELLED", "CANCELLED", Engine!None, FALSE)
  <2>1. Engine!Saved = Engine!None /\ Engine!Return(v)
    BY <1>3 DEF Engine!JudgeCancelled
  <2>2. v.outcome = "CANCELLED" /\ v.snap = Engine!None
    BY Zenon DEF Engine!Returned
  <2> HIDE DEF v
  <2>3. QED
    BY <1>1, <2>1, <2>2, SavedIsOwn, ReturnKept
<1>4. CASE Engine!JudgeInterrupted
  <2>1. PICK found \in {Engine!Saved} \cup Engine!ReadSnapshot(Engine!Saved) :
            Engine!Return(Engine!Returned("PARTIAL", "CANCELLED", found, TRUE))
    BY <1>4 DEF Engine!JudgeInterrupted
  <2>2. Engine!Saved # Engine!None
    BY <1>4 DEF Engine!JudgeInterrupted
  <2>3. found \in {own, Short[own]} /\ own # Engine!None /\ found # Engine!None
    BY <2>1, <2>2, SavedIsOwn, ReadbackIsOwn
  <2> DEFINE v == Engine!Returned("PARTIAL", "CANCELLED", found, TRUE)
  <2>4. v.outcome = "PARTIAL" /\ v.snap = found
    BY Zenon DEF Engine!Returned
  <2>5. Engine!Return(v)
    BY <2>1
  <2> HIDE DEF v
  <2>6. QED
    BY <1>1, <2>3, <2>4, <2>5, ReturnKept
<1>5. CASE Engine!JudgeFatal \/ Engine!ReadbackFails
  <2>1. \E c, p : Engine!Return(Engine!Returned("FAILED", c, Engine!Saved, p))
    BY Zenon, <1>5 DEF Engine!JudgeFatal, Engine!ReadbackFails
  <2>2. PICK c, p : Engine!Return(Engine!Returned("FAILED", c, Engine!Saved, p))
    BY <2>1
  <2> DEFINE v == Engine!Returned("FAILED", c, Engine!Saved, p)
  <2>3. v.outcome = "FAILED" /\ v.snap = Engine!Saved /\ Engine!Return(v)
    BY <2>2, ReturnedFields
  <2> HIDE DEF v
  <2>4. QED
    BY <1>1, <2>3, SavedIsOwn, ReturnKept
<1>6. QED
  BY <1>2, <1>3, <1>4, <1>5

\* A result that is green: restic exited with 0, was not stopped, and what it
\* printed shows a shadow copy of every volume.
LEMMA VerdictIsEvidence ==
    ASSUME EngineInv, NEW s
    PROVE  /\ Engine!Verdict(s).snap = s
           /\ Engine!Verdict(s).outcome \in {"PARTIAL", "SUCCEEDED"}
           /\ Engine!Verdict(s).outcome = "SUCCEEDED" =>
                 code # 3 /\ (asked.vss => asked.vols \subseteq shadowed)
<1>1. CASE asked.vss /\ ~Engine!VSSVerified
  <2>1. Engine!Verdict(s) = Engine!Returned("PARTIAL", "CONSISTENCY_NOT_MET", s, TRUE)
    BY Zenon, <1>1 DEF Engine!Verdict
  <2>0. /\ Engine!Returned("PARTIAL", "CONSISTENCY_NOT_MET", s, TRUE).snap = s
        /\ Engine!Returned("PARTIAL", "CONSISTENCY_NOT_MET", s, TRUE).outcome = "PARTIAL"
    BY Zenon DEF Engine!Returned
  <2>2. Engine!Verdict(s).snap = s /\ Engine!Verdict(s).outcome = "PARTIAL"
    BY Zenon, <2>0, <2>1
  <2>3. QED
    BY <2>2
<1>2. CASE ~(asked.vss /\ ~Engine!VSSVerified) /\ code = 3
  <2>1. Engine!Verdict(s) = Engine!Returned("PARTIAL", "SOURCE_UNREADABLE", s, TRUE)
    BY Zenon, <1>2 DEF Engine!Verdict
  <2>0. /\ Engine!Returned("PARTIAL", "SOURCE_UNREADABLE", s, TRUE).snap = s
        /\ Engine!Returned("PARTIAL", "SOURCE_UNREADABLE", s, TRUE).outcome = "PARTIAL"
    BY Zenon DEF Engine!Returned
  <2>2. Engine!Verdict(s).snap = s /\ Engine!Verdict(s).outcome = "PARTIAL"
    BY Zenon, <2>0, <2>1
  <2>3. QED
    BY <2>2
<1>3. CASE ~(asked.vss /\ ~Engine!VSSVerified) /\ code # 3
  <2>1. Engine!Verdict(s) = Engine!Returned("SUCCEEDED", "", s, FALSE)
    BY Zenon, <1>3 DEF Engine!Verdict
  <2>0. /\ Engine!Returned("SUCCEEDED", "", s, FALSE).snap = s
        /\ Engine!Returned("SUCCEEDED", "", s, FALSE).outcome = "SUCCEEDED"
    BY Zenon DEF Engine!Returned
  <2>2. Engine!Verdict(s).snap = s /\ Engine!Verdict(s).outcome = "SUCCEEDED"
    BY Zenon, <2>0, <2>1
  <2>3. ASSUME asked.vss, NEW w \in asked.vols
        PROVE  w \in shadowed
    <3>1. <<"shadowed", w>> \in text
      BY <1>3, <2>3 DEF Engine!VSSVerified
    <3>2. <<"shadowed", w>> \in Line /\ Says(<<"shadowed", w>>)
      BY <3>1 DEF EngineInv, CaptureType, Says
    <3>3. QED
      BY <3>2 DEF EngineInv, Evidence
  <2>4. QED
    BY <1>3, <2>2, <2>3
<1>4. QED
  BY <1>1, <1>2, <1>3

\* After the readback: the one snapshot it found is this run's.
LEMMA ReadbackKept ==
    ASSUME Engine!EngineAssumption, EngineInv, Engine!Readback \/ Engine!ReadbackBound
    PROVE  EngineInv'
<1>1. /\ at = "readback" /\ code \in {0, 3} /\ ctx = "live" /\ Engine!Saved # Engine!None
  BY DEF EngineInv, Progress, Engine!Readback, Engine!ReadbackBound
<1>2. own # Engine!None /\ own \in repo
  BY <1>1, SavedIsOwn
<1>3. PICK s \in Engine!ReadSnapshot(Engine!Saved) :
          \/ Engine!Return(Engine!Verdict(s))
          \/ Engine!Return(Engine!Returned("FAILED", "INTEGRITY", s, FALSE))
  BY DEF Engine!Readback, Engine!ReadbackBound
<1>4. s = own
  BY <1>1, <1>3, ReadbackIsOwn
<1>5. CASE Engine!Return(Engine!Verdict(s))
  BY <1>1, <1>2, <1>4, <1>5, VerdictIsEvidence, ReturnKept
<1>6. CASE Engine!Return(Engine!Returned("FAILED", "INTEGRITY", s, FALSE))
  <2> DEFINE v == Engine!Returned("FAILED", "INTEGRITY", s, FALSE)
  <2>1. v.outcome = "FAILED" /\ v.snap = s
    BY Zenon DEF Engine!Returned
  <2>2. Engine!Return(v)
    BY <1>6
  <2> HIDE DEF v
  <2>3. QED
    BY <1>1, <1>2, <1>4, <2>1, <2>2, ReturnKept
<1>7. QED
  BY <1>3, <1>5, <1>6

\* A restore, a listing or a check names no snapshot of its own.
LEMMA JudgeOthersKept ==
    ASSUME EngineInv, Engine!JudgeRestore \/ Engine!JudgeQuery
    PROVE  EngineInv'
<1>1. at = "judge" /\ stage = "vss"
  BY DEF EngineInv, Progress, RunType, Engine!JudgeRestore, Engine!JudgeQuery
<1>2. \E o \in {"CANCELLED", "VERIFYING", "OK", "FAILED"} : \E c, p :
          Engine!Return(Engine!Returned(o, c, Engine!None, p))
  BY Zenon DEF Engine!JudgeRestore, Engine!JudgeQuery, Engine!Fails
<1>3. PICK o \in {"CANCELLED", "VERIFYING", "OK", "FAILED"} :
          \E c, p : Engine!Return(Engine!Returned(o, c, Engine!None, p))
  BY <1>2
<1>31. PICK c, p : Engine!Return(Engine!Returned(o, c, Engine!None, p))
  BY <1>3
<1> DEFINE v == Engine!Returned(o, c, Engine!None, p)
<1>4. v.outcome = o /\ v.snap = Engine!None /\ Engine!Return(v)
  BY <1>31, ReturnedFields
<1> HIDE DEF v
<1>5. QED
  BY <1>1, <1>3, <1>4, ReturnKept

LEMMA EngineKept ==
    ASSUME Engine!EngineAssumption, EngineInv, [Engine!Next]_(Engine!vars)
    PROVE  EngineInv'
<1>1. CASE UNCHANGED Engine!vars
  BY <1>1, QuietKept DEF Engine!vars, Engine!call, Engine!engine, Engine!capture
<1>2. CASE Engine!Engine
  BY <1>2, ShadowKept, StatusKept, PublishKept, NameKept, RunnerKept DEF Engine!Engine
<1>3. CASE Engine!Runner
  BY <1>3, DrainKept, RunnerKept DEF Engine!Runner
<1>4. CASE Engine!Judge
  BY <1>4, JudgeEndKept, JudgeExitKept, ReadbackKept, JudgeOthersKept DEF Engine!Judge
<1>5. QED
  BY <1>1, <1>2, <1>3, <1>4, BeginKept, RunnerKept DEF Engine!Next

\* What the run of restic does is what EngineRun says it does, and the upload
\* is that of SnapshotCatalog.
THEOREM RunImplementsBoth ==
    BothSpec => Engine!Spec /\ Spec
<1>1. BothInit => Engine!Init /\ Init
  BY DEF BothInit
<1>2. [BothNext]_<<part, vars, engineVars>> =>
          [Engine!Next]_(Engine!vars) /\ [Next]_vars
  BY DEF BothNext, vars, engineVars, Engine!vars, Engine!call, Engine!clock, Engine!engine, Engine!capture
<1>3. QED
  BY <1>1, <1>2, PTL DEF BothSpec, Engine!Spec, Spec

LEMMA EngineInvariant ==
    ASSUME Engine!EngineAssumption
    PROVE  BothSpec => []EngineInv
<1>1. Engine!Init => EngineInv
  BY EngineBegins
<1>2. EngineInv /\ [Engine!Next]_(Engine!vars) => EngineInv'
  BY EngineKept
<1>3. QED
  BY <1>1, <1>2, RunImplementsBoth, PTL DEF Engine!Spec

\* A result names no snapshot of another run, and is green only for a clean
\* exit, a published snapshot and all the shadow copies the policy asks for
\* (restic Adapter.Backup, matchSnapshot, parseVSSEvidence).
THEOREM ResultRestsOnEvidence ==
    ASSUME Engine!EngineAssumption
    PROVE  BothSpec => []ResultIsEvidence
<1>1. EngineInv => ResultIsEvidence
  BY DEF EngineInv, ResultIsEvidence
<1>2. QED
  BY <1>1, EngineInvariant, PTL

\* A summary that restic printed is in the result, whoever ended the run and
\* however late, unless the capture was full (process runWindows, restic
\* parseBackupSummary).
THEOREM PrintedSummaryReturned ==
    ASSUME Engine!EngineAssumption
    PROVE  BothSpec => []SummaryNotLost
<1>1. EngineInv => SummaryNotLost
  BY DEF EngineInv, SummaryNotLost
<1>2. QED
  BY <1>1, EngineInvariant, PTL

-----------------------------------------------------------------------------
(* The run keeps the promise of EngineCall.                                *)

LEMMA BegunCall ==
    ASSUME Engine!EngineAssumption, Engine!Init
    PROVE  Engine!Abstract!Init
<1>1. asked.op = "" /\ own = Engine!None
  BY Zenon DEF Engine!Init, Engine!NoRequest
<1>2. QED
  BY <1>1 DEF Engine!Abstract!Init, Engine!Backing

\* The call is as it was: not asked for, not yet begun, going on or over.
LEMMA CallStays ==
    ASSUME asked' = asked, own' = own, verdict' = verdict,
           at' = at \/ {at, at'} \cap {"idle", "done"} = {}
    PROVE  UNCHANGED Engine!Abstract!vars
BY DEF Engine!Abstract!vars, Engine!Backing

\* It returns once, and nothing better than a failure for no snapshot.
LEMMA CallReturns ==
    ASSUME at \in {"judge", "readback"}, NEW v, Engine!Return(v),
           \/ v.outcome \in {"FAILED", "CANCELLED"}
           \/ v.outcome \in {"PARTIAL", "SUCCEEDED"} /\ own # Engine!None
    PROVE  [Engine!Abstract!Next]_(Engine!Abstract!vars)
<1>1. UNCHANGED <<asked, own>> /\ verdict' = v /\ at' = "done"
  BY DEF Engine!Return, Engine!engine
<1>2. CASE asked.op = "backup"
  <2>1. Engine!Abstract!Return
    BY <1>1, <1>2 DEF Engine!Abstract!Return, Engine!Backing
  <2>2. QED
    BY <2>1 DEF Engine!Abstract!Next
<1>3. CASE asked.op # "backup"
  BY <1>1, <1>3 DEF Engine!Abstract!vars, Engine!Backing
<1>4. QED
  BY <1>2, <1>3

LEMMA BeginIsCall ==
    ASSUME EngineInv, NEW r \in Requests, Engine!Refuse(r) \/ Engine!LaunchFails(r) \/ Engine!Start(r)
    PROVE  [Engine!Abstract!Next]_(Engine!Abstract!vars)
<1>1. /\ at = "idle" /\ asked' = r /\ own' = own /\ own = Engine!None
      /\ \/ at' = "run" /\ verdict' = verdict
         \/ at' = "done" /\ \E c : verdict' = Engine!Fails(c)
  BY DEF EngineInv, Engine!Refuse, Engine!LaunchFails, Engine!Start, Engine!engine, Engine!capture, Progress
<1>2. verdict.outcome = ""
  BY <1>1, FailsFields DEF EngineInv, Progress
<1>3. CASE r.op # "backup"
  BY <1>1, <1>2, <1>3 DEF Engine!Abstract!vars, Engine!Backing
<1>4. CASE r.op = "backup" /\ at' = "run"
  <2>1. Engine!Abstract!Begin
    BY <1>1, <1>2, <1>4 DEF Engine!Abstract!Begin, Engine!Backing
  <2>2. QED
    BY <2>1 DEF Engine!Abstract!Next
<1>5. CASE r.op = "backup" /\ at' = "done"
  <2>1. verdict'.outcome = "FAILED"
    BY <1>1, <1>5, FailsFields
  <2>2. Engine!Abstract!Return
    BY <1>1, <1>5, <2>1 DEF Engine!Abstract!Return, Engine!Backing
  <2>3. QED
    BY <2>2 DEF Engine!Abstract!Next
<1>6. QED
  BY <1>1, <1>3, <1>4, <1>5

LEMMA PublishIsCall ==
    ASSUME Engine!EngineAssumption, EngineInv, Engine!Publish
    PROVE  Engine!Abstract!Publish
<1>1. /\ at \in {"run", "grace"} /\ asked.op = "backup" /\ own = Engine!None
      /\ UNCHANGED <<asked, at, verdict>> /\ own' \in Snapshots
  BY DEF EngineInv, Progress, Engine!Publish, Engine!Running, Engine!call
<1>2. own' # Engine!None
  BY <1>1 DEF Engine!EngineAssumption
<1>3. QED
  BY <1>1, <1>2 DEF Engine!Abstract!Publish, Engine!Backing

LEMMA JudgeIsCall ==
    ASSUME Engine!EngineAssumption, EngineInv, Engine!Judge
    PROVE  [Engine!Abstract!Next]_(Engine!Abstract!vars)
<1>1. CASE Engine!JudgeStalled \/ Engine!JudgeNameless
  <2>1. at = "judge" /\ \E c : Engine!Return(Engine!Fails(c))
    BY <1>1 DEF Engine!JudgeStalled, Engine!JudgeNameless
  <2>2. QED
    BY <2>1, FailsFields, CallReturns
<1>2. CASE Engine!JudgeCancelled
  <2> DEFINE v == Engine!Returned("CANCELLED", "CANCELLED", Engine!None, FALSE)
  <2>1. at = "judge" /\ Engine!Return(v)
    BY <1>2 DEF Engine!JudgeCancelled
  <2>2. v.outcome = "CANCELLED"
    BY Zenon DEF Engine!Returned
  <2> HIDE DEF v
  <2>3. QED
    BY <2>1, <2>2, CallReturns
<1>3. CASE Engine!JudgeInterrupted
  <2>1. PICK found : Engine!Return(Engine!Returned("PARTIAL", "CANCELLED", found, TRUE))
    BY <1>3 DEF Engine!JudgeInterrupted
  <2>2. at = "judge" /\ own # Engine!None
    BY <1>3, SavedIsOwn DEF Engine!JudgeInterrupted
  <2> DEFINE v == Engine!Returned("PARTIAL", "CANCELLED", found, TRUE)
  <2>3. v.outcome = "PARTIAL" /\ Engine!Return(v)
    BY Zenon, <2>1 DEF Engine!Returned
  <2> HIDE DEF v
  <2>4. QED
    BY <2>2, <2>3, CallReturns
<1>4. CASE Engine!JudgeFatal \/ Engine!ReadbackFails
  <2>1. \E c, p : Engine!Return(Engine!Returned("FAILED", c, Engine!Saved, p))
    BY Zenon, <1>4 DEF Engine!JudgeFatal, Engine!ReadbackFails
  <2>2. PICK c, p : Engine!Return(Engine!Returned("FAILED", c, Engine!Saved, p))
    BY <2>1
  <2> DEFINE v == Engine!Returned("FAILED", c, Engine!Saved, p)
  <2>3. v.outcome = "FAILED" /\ Engine!Return(v)
    BY <2>2, ReturnedFields
  <2>4. at \in {"judge", "readback"}
    BY <1>4 DEF Engine!JudgeFatal, Engine!ReadbackFails
  <2> HIDE DEF v
  <2>5. QED
    BY <2>3, <2>4, CallReturns
<1>5. CASE Engine!JudgeExit
  BY <1>5, CallStays DEF Engine!JudgeExit, Engine!Goto, Engine!engine
<1>6. CASE Engine!Readback \/ Engine!ReadbackBound
  <2>1. at = "readback" /\ own # Engine!None
    BY <1>6, SavedIsOwn DEF EngineInv, Progress, Engine!Readback, Engine!ReadbackBound
  <2>2. PICK s : \/ Engine!Return(Engine!Verdict(s))
                 \/ Engine!Return(Engine!Returned("FAILED", "INTEGRITY", s, FALSE))
    BY <1>6 DEF Engine!Readback, Engine!ReadbackBound
  <2> DEFINE v == Engine!Returned("FAILED", "INTEGRITY", s, FALSE)
  <2>3. v.outcome = "FAILED"
    BY Zenon DEF Engine!Returned
  <2>4. CASE Engine!Return(Engine!Verdict(s))
    BY <2>1, <2>4, VerdictIsEvidence, CallReturns
  <2>5. CASE Engine!Return(v)
    <3> HIDE DEF v
    <3>1. QED
      BY <2>1, <2>3, <2>5, CallReturns
  <2>6. QED
    BY <2>2, <2>4, <2>5
<1>7. CASE Engine!JudgeRestore \/ Engine!JudgeQuery
  <2>1. at = "judge" /\ asked.op # "backup"
    BY <1>7 DEF Engine!JudgeRestore, Engine!JudgeQuery
  <2>2. UNCHANGED <<asked, own>>
    BY <1>7 DEF Engine!JudgeRestore, Engine!JudgeQuery, Engine!Return, Engine!engine
  <2>3. UNCHANGED Engine!Abstract!vars
    BY <2>1, <2>2 DEF Engine!Abstract!vars, Engine!Backing
  <2>4. QED
    BY <2>3
<1>8. QED
  BY <1>1, <1>2, <1>3, <1>4, <1>5, <1>6, <1>7 DEF Engine!Judge

LEMMA StepIsCall ==
    ASSUME Engine!EngineAssumption, EngineInv, [Engine!Next]_(Engine!vars)
    PROVE  [Engine!Abstract!Next]_(Engine!Abstract!vars)
<1>1. CASE UNCHANGED Engine!vars
  BY <1>1, CallStays DEF Engine!vars, Engine!call, Engine!engine
<1>2. CASE Engine!Publish
  BY <1>2, PublishIsCall DEF Engine!Abstract!Next
<1>3. CASE Engine!Shadow \/ Engine!Status \/ Engine!Name \/ Engine!Exit \/ Engine!HelperExits
  BY <1>3, CallStays DEF Engine!Shadow, Engine!Status, Engine!Name, Engine!Exit, Engine!HelperExits,
                         Engine!call
<1>4. CASE Engine!Runner
  BY <1>4, CallStays DEF Engine!Runner, Engine!Drain, Engine!SeeExit, Engine!SeeCancel,
                         Engine!LeavesInTime, Engine!Terminate, Engine!CloseJob, Engine!Collect,
                         Engine!Goto, Engine!call, Engine!engine
<1>5. CASE Engine!Tick \/ Engine!WatchFires \/ Engine!Expire \/ Engine!Stop
  BY <1>5, CallStays DEF Engine!Tick, Engine!WatchFires, Engine!Expire, Engine!Stop, Engine!call,
                         Engine!engine
<1>6. QED
  BY <1>1, <1>2, <1>3, <1>4, <1>5, BeginIsCall, JudgeIsCall DEF Engine!Next, Engine!Engine

\* Adapter.Backup returns once, and nothing better than a failure for a
\* snapshot that was never published: EngineRun implements EngineCall, the
\* promise AgentJobs is written against.
THEOREM RunKeepsPromise ==
    ASSUME Engine!EngineAssumption
    PROVE  BothSpec => ImplementsCall
<1>1. Engine!Init => Engine!Abstract!Init
  BY BegunCall
<1>2. EngineInv /\ [Engine!Next]_(Engine!vars) => [Engine!Abstract!Next]_(Engine!Abstract!vars)
  BY StepIsCall
<1>3. QED
  BY <1>1, <1>2, EngineInvariant, RunImplementsBoth, PTL
     DEF Engine!Spec, Engine!Abstract!Spec, ImplementsCall, Engine!ImplementsCall

=============================================================================
