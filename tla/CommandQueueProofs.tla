------------------------ MODULE CommandQueueProofs --------------------------
(***************************************************************************)
(* QueueInv is an inductive invariant of CommandQueue, for every number of *)
(* commands, every set of kinds and every bound on the faults; the safety  *)
(* properties and the refinement of CommandOutcome follow from it.         *)
(***************************************************************************)
EXTENDS CommandQueue, TLAPS

USE DEF Results

-----------------------------------------------------------------------------
(* What the operators of the table return.                                 *)

\* The states of a row after Settled: nothing else of it than its clocks and
\* its state changes.
LEMMA SettledFacts ==
    ASSUME NEW r \in CmdType,
           NEW st \in {"EXPIRED", "CANCELLED"} \cup Results
    PROVE  /\ Settled(r, st) \in CmdType
           /\ Settled(r, st).state = st
           /\ Settled(r, st).kind = r.kind
           /\ Settled(r, st).sent = r.sent
           /\ Settled(r, st).window = FALSE
  BY DEF Settled, CmdType

\* The UPDATE of claim_command delivers a command that was unfinished, and
\* touches no other one.
LEMMA DeliverFacts ==
    ASSUME TypeOK, NEW c \in Commands, Deliver(c)
    PROVE  /\ cmd' \in [Commands -> CmdType]
           /\ \A d \in Commands : d # c => cmd'[d] = cmd[d]
           /\ ~Claimable(c) => cmd' = cmd
           /\ Claimable(c) => /\ Pending(c)
                              /\ cmd'[c].state = "DELIVERED"
                              /\ cmd'[c].sent = TRUE
                              /\ cmd'[c].kind = cmd[c].kind
                              /\ cmd'[c].window = cmd[c].window
  <1>1. cmd[c] \in CmdType
    BY DEF TypeOK
  <1>2. CASE Claimable(c)
    <2>1. cmd' = [cmd EXCEPT ![c] = [cmd[c] EXCEPT !.state = "DELIVERED",
                                     !.sent = TRUE, !.lease = TRUE]]
      BY <1>2 DEF Deliver, TypeOK
    <2>2. [cmd[c] EXCEPT !.state = "DELIVERED", !.sent = TRUE,
                         !.lease = TRUE] \in CmdType
      BY <1>1 DEF CmdType
    <2>3. Pending(c)
      BY <1>2 DEF Claimable, Pending
    <2> QED
      BY <1>1, <1>2, <2>1, <2>2, <2>3 DEF TypeOK, CmdType
  <1>3. CASE ~Claimable(c)
    BY <1>3 DEF Deliver, TypeOK
  <1> QED
    BY <1>2, <1>3

-----------------------------------------------------------------------------
(* QueueInv is inductive.                                                  *)

LEMMA QueueInit ==
    ASSUME Init
    PROVE  QueueInv
  <1> USE QueueAssumption
  <1>1. TypeOK
    <2>1. NoCommand \in CmdType
      BY DEF NoCommand, CmdType
    <2>2. Idle \in AgentType
      BY DEF Idle, AgentType
    <2> QED
      BY <2>1, <2>2 DEF Init, TypeOK
  <1>2. AgentShape
    BY DEF Init, AgentShape, Idle
  <1>3. LedgerShape
    BY DEF Init, LedgerShape, NoCommand
  <1>4. OneLiveBackup
    BY DEF Init, OneLiveBackup, NoCommand, Pending
  <1> QED
    BY <1>1, <1>2, <1>3, <1>4 DEF QueueInv

LEMMA EnqueueInv ==
    ASSUME QueueInv, NEW c \in Commands, NEW k \in Kinds, Enqueue(c, k)
    PROVE  QueueInv'
  <1> DEFINE new == [kind |-> k, state |-> "QUEUED", sent |-> FALSE,
                     lease |-> FALSE, window |-> TRUE]
  <1>1. /\ new \in CmdType
        /\ new.kind = k /\ new.state = "QUEUED" /\ new.sent = FALSE
    BY DEF CmdType
  <1>2. /\ cmd' = [cmd EXCEPT ![c] = new]
        /\ UNCHANGED <<orphans, journal, agent, acks, faults>>
    BY DEF Enqueue
  <1> HIDE DEF new
  <1>3. /\ cmd' \in [Commands -> CmdType]
        /\ cmd'[c] = new
        /\ \A d \in Commands : d # c => cmd'[d] = cmd[d]
    BY <1>1, <1>2 DEF QueueInv, TypeOK
  <1>4. cmd[c].state = "none" /\ ~cmd[c].sent /\ journal[c] = "none"
    BY DEF Enqueue, Exists, QueueInv, LedgerShape, TypeOK, CmdType
  <1>5. TypeOK'
    BY <1>2, <1>3 DEF QueueInv, TypeOK
  <1>6. AgentShape'
    BY <1>2, <1>3, <1>4 DEF QueueInv, AgentShape, TypeOK, AgentType
  <1>7. LedgerShape'
    BY <1>1, <1>2, <1>3, <1>4 DEF QueueInv, LedgerShape
  <1>8. OneLiveBackup'
    <2> SUFFICES ASSUME NEW d \in Commands, NEW e \in Commands, d # e,
                        \A x \in {d, e} : /\ cmd'[x].kind = "RUN_BACKUP"
                                          /\ Pending(x)'
                                          /\ cmd'[x].window
                 PROVE  FALSE
      BY DEF OneLiveBackup
    <2>1. CASE d # c /\ e # c
      BY <1>3, <2>1 DEF QueueInv, OneLiveBackup, Pending
    <2>2. ASSUME NEW x \in Commands, x # c, k = "RUN_BACKUP",
                 cmd'[x].kind = "RUN_BACKUP", Pending(x)', cmd'[x].window
          PROVE  FALSE
      <3>1. cmd[x].kind = k /\ Pending(x) /\ cmd[x].window
        BY <1>3, <2>2 DEF Pending
      <3>2. x \in Duplicates(k)
        BY <3>1 DEF Duplicates
      <3>3. Duplicates(k) = {}
        BY <2>2 DEF Enqueue, Deduplicated
      <3> QED
        BY <3>2, <3>3
    <2>3. CASE d = c
      BY <1>1, <1>3, <2>2, <2>3
    <2>4. CASE e = c
      BY <1>1, <1>3, <2>2, <2>4
    <2> QED
      BY <2>1, <2>3, <2>4
  <1> QED
    BY <1>5, <1>6, <1>7, <1>8 DEF QueueInv

\* An UPDATE of claim_command keeps what QueueInv says of the tables.
LEMMA DeliverInv ==
    ASSUME QueueInv, NEW c \in Commands, Deliver(c), UNCHANGED <<journal, acks>>
    PROVE  /\ LedgerShape'
           /\ OneLiveBackup'
           /\ \A d \in Commands : cmd[d].sent => cmd'[d].sent
           /\ Claimable(c) => cmd'[c].sent
  <1>1. TypeOK
    BY DEF QueueInv
  <1>2. CASE ~Claimable(c)
    <2>1. cmd' = cmd
      BY <1>1, <1>2, DeliverFacts
    <2> QED
      BY <1>2, <2>1 DEF QueueInv, LedgerShape, OneLiveBackup, Pending
  <1>3. CASE Claimable(c)
    <2>1. /\ \A d \in Commands : d # c => cmd'[d] = cmd[d]
          /\ Pending(c)
          /\ cmd'[c].state = "DELIVERED"
          /\ cmd'[c].sent = TRUE
          /\ cmd'[c].kind = cmd[c].kind
          /\ cmd'[c].window = cmd[c].window
      BY <1>1, <1>3, DeliverFacts
    <2>2. LedgerShape'
      BY <2>1 DEF QueueInv, LedgerShape, Pending
    <2>3. \A d \in Commands : /\ cmd'[d].kind = cmd[d].kind
                              /\ cmd'[d].window = cmd[d].window
                              /\ Pending(d)' => Pending(d)
      BY <2>1 DEF Pending
    <2>4. OneLiveBackup'
      BY <2>3 DEF QueueInv, OneLiveBackup
    <2> QED
      BY <2>1, <2>2, <2>4
  <1> QED
    BY <1>2, <1>3

\* The two actions that deliver.
LEMMA ClaimUpdateInv ==
    ASSUME QueueInv, ClaimUpdate
    PROVE  QueueInv'
  <1> DEFINE c == agent.cur
  <1>1. /\ c \in Commands
        /\ agent.pc = "claim"
        /\ agent \in AgentType
    BY DEF ClaimUpdate, QueueInv, AgentShape, TypeOK
  <1>2. /\ Deliver(c)
        /\ agent' = IF Claimable(c) THEN [agent EXCEPT !.pc = "consume"] ELSE Idle
        /\ UNCHANGED <<orphans, journal, acks, faults>>
    BY DEF ClaimUpdate
  <1>3. /\ LedgerShape'
        /\ OneLiveBackup'
        /\ Claimable(c) => cmd'[c].sent
    BY <1>1, <1>2, DeliverInv
  <1>4. cmd' \in [Commands -> CmdType]
    BY <1>1, <1>2, DeliverFacts DEF QueueInv
  <1>5. agent' \in AgentType
    BY <1>1, <1>2 DEF AgentType, Idle
  <1>6. TypeOK'
    BY <1>2, <1>4, <1>5 DEF QueueInv, TypeOK
  <1>7. AgentShape'
    BY <1>1, <1>2, <1>3 DEF AgentShape, AgentType, Idle
  <1> QED
    BY <1>3, <1>6, <1>7 DEF QueueInv

LEMMA OrphanUpdateInv ==
    ASSUME QueueInv, NEW c \in Commands, OrphanUpdate(c)
    PROVE  QueueInv'
  <1>1. /\ Deliver(c)
        /\ orphans' = orphans \ {c}
        /\ UNCHANGED <<journal, agent, acks, faults>>
    BY DEF OrphanUpdate
  <1>2. /\ LedgerShape'
        /\ OneLiveBackup'
        /\ \A d \in Commands : cmd[d].sent => cmd'[d].sent
    BY <1>1, DeliverInv
  <1>3. cmd' \in [Commands -> CmdType]
    BY <1>1, DeliverFacts DEF QueueInv
  <1>4. TypeOK'
    BY <1>1, <1>3 DEF QueueInv, TypeOK
  <1>5. AgentShape'
    BY <1>1, <1>2 DEF QueueInv, AgentShape
  <1> QED
    BY <1>2, <1>4, <1>5 DEF QueueInv

\* What an accepted result does to the table: the command gets it, and of the
\* other ones only queued backups are touched.
LEMMA AckFacts ==
    ASSUME TypeOK, NEW c \in Commands, NEW r \in Results, AckCommand(c, r),
           Acceptable(c)
    PROVE  /\ cmd' \in [Commands -> CmdType]
           /\ cmd'[c].state = r
           /\ \A d \in Commands : cmd'[d].sent = cmd[d].sent
           /\ \A d \in Commands :
                 \/ cmd'[d] = cmd[d]
                 \/ d = c /\ cmd'[d].state = r
                 \/ /\ d \in Obsolete(c)
                    /\ cmd[d].state = "QUEUED"
                    /\ cmd'[d].state = "CANCELLED"
  <1>1. cmd' = [d \in Commands |->
                  IF d = c THEN Settled(cmd[d], r)
                  ELSE IF d \in Obsolete(c) THEN Settled(cmd[d], "CANCELLED")
                       ELSE cmd[d]]
    BY DEF AckCommand
  <1>2. \A d \in Commands : cmd[d] \in CmdType
    BY DEF TypeOK
  <1>3. \A d \in Commands : \A st \in {"EXPIRED", "CANCELLED"} \cup Results :
           /\ Settled(cmd[d], st) \in CmdType
           /\ Settled(cmd[d], st).state = st
           /\ Settled(cmd[d], st).sent = cmd[d].sent
    BY <1>2, SettledFacts
  <1>4. \A d \in Obsolete(c) : d # c /\ cmd[d].state = "QUEUED"
    BY DEF Obsolete
  <1>5. \A d \in Commands :
           \/ cmd'[d] = cmd[d]
           \/ d = c /\ cmd'[d] = Settled(cmd[d], r)
           \/ d \in Obsolete(c) /\ cmd'[d] = Settled(cmd[d], "CANCELLED")
    BY <1>1
  <1>6. cmd' \in [Commands -> CmdType]
    BY <1>1, <1>2, <1>3
  <1>7. cmd'[c].state = r
    BY <1>1, <1>3
  <1> QED
    BY <1>3, <1>4, <1>5, <1>6, <1>7

LEMMA AckCommandInv ==
    ASSUME QueueInv, NEW c \in Commands, NEW r \in Results, AckCommand(c, r)
    PROVE  QueueInv'
  <1>1. /\ <<c, r>> \in acks
        /\ acks' = acks \ {<<c, r>>}
        /\ UNCHANGED <<orphans, journal, agent, faults>>
    BY DEF AckCommand
  <1>2. journal[c] = r
    BY <1>1 DEF QueueInv, LedgerShape
  <1>3. CASE ~Acceptable(c)
    <2>1. cmd' = cmd
      BY <1>3 DEF AckCommand
    <2> QED
      BY <1>1, <2>1 DEF QueueInv, TypeOK, AgentShape, LedgerShape,
                        OneLiveBackup, Pending
  <1>4. CASE Acceptable(c)
    <2>1. /\ cmd' \in [Commands -> CmdType]
          /\ \A d \in Commands : cmd'[d].sent = cmd[d].sent
          /\ \A d \in Commands :
                \/ cmd'[d] = cmd[d]
                \/ d = c /\ cmd'[d].state = r
                \/ /\ cmd[d].state = "QUEUED"
                   /\ cmd'[d].state = "CANCELLED"
      BY <1>4, AckFacts DEF QueueInv
    <2>2. TypeOK'
      BY <1>1, <2>1 DEF QueueInv, TypeOK
    <2>3. AgentShape'
      BY <1>1, <2>1 DEF QueueInv, AgentShape
    <2>4. cmd[c].sent
      BY <1>4 DEF Acceptable, QueueInv, LedgerShape
    <2>5. LedgerShape'
      BY <1>1, <1>2, <2>1, <2>4 DEF QueueInv, LedgerShape
    <2>6. \A d \in Commands : Pending(d)' => cmd'[d] = cmd[d]
      BY <2>1 DEF Pending
    <2>7. OneLiveBackup'
      BY <2>6 DEF QueueInv, OneLiveBackup, Pending
    <2> QED
      BY <2>2, <2>3, <2>5, <2>7 DEF QueueInv
  <1> QED
    BY <1>3, <1>4

LEMMA ExpireCommandsInv ==
    ASSUME QueueInv, ExpireCommands
    PROVE  QueueInv'
  <1>1. UNCHANGED <<orphans, journal, agent, acks, faults>>
    BY DEF ExpireCommands
  <1>2. \A d \in Commands : cmd[d] \in CmdType
    BY DEF QueueInv, TypeOK
  <1>3. \A d \in Commands : /\ Settled(cmd[d], "EXPIRED") \in CmdType
                            /\ Settled(cmd[d], "EXPIRED").state = "EXPIRED"
                            /\ Settled(cmd[d], "EXPIRED").sent = cmd[d].sent
    BY <1>2, SettledFacts
  <1>4. cmd' = [d \in Commands |-> IF d \in Lapsed
                                   THEN Settled(cmd[d], "EXPIRED") ELSE cmd[d]]
    BY DEF ExpireCommands
  <1>5. /\ cmd' \in [Commands -> CmdType]
        /\ \A d \in Commands : cmd'[d].sent = cmd[d].sent
        /\ \A d \in Commands : cmd'[d] = cmd[d] \/ cmd'[d].state = "EXPIRED"
    BY <1>2, <1>3, <1>4
  <1>6. TypeOK'
    BY <1>1, <1>5 DEF QueueInv, TypeOK
  <1>7. AgentShape'
    BY <1>1, <1>5 DEF QueueInv, AgentShape
  <1>8. LedgerShape'
    BY <1>1, <1>5 DEF QueueInv, LedgerShape
  <1>9. \A d \in Commands : Pending(d)' => cmd'[d] = cmd[d]
    BY <1>5 DEF Pending
  <1>10. OneLiveBackup'
    BY <1>9 DEF QueueInv, OneLiveBackup, Pending
  <1> QED
    BY <1>6, <1>7, <1>8, <1>10 DEF QueueInv

\* A clock that runs out changes one flag.
LEMMA ClockFacts ==
    ASSUME TypeOK, NEW c \in Commands, WindowCloses(c) \/ LeaseLapses(c)
    PROVE  /\ cmd' \in [Commands -> CmdType]
           /\ \A d \in Commands : /\ cmd'[d].kind = cmd[d].kind
                                  /\ cmd'[d].state = cmd[d].state
                                  /\ cmd'[d].sent = cmd[d].sent
                                  /\ cmd'[d].window => cmd[d].window
  <1>1. cmd[c] \in CmdType
    BY DEF TypeOK
  <1>2. \/ cmd' = [cmd EXCEPT ![c] = [cmd[c] EXCEPT !.window = FALSE]]
        \/ cmd' = [cmd EXCEPT ![c] = [cmd[c] EXCEPT !.lease = FALSE]]
    BY DEF WindowCloses, LeaseLapses, TypeOK
  <1>3. PICK r \in CmdType : /\ cmd' = [cmd EXCEPT ![c] = r]
                             /\ r.kind = cmd[c].kind
                             /\ r.state = cmd[c].state
                             /\ r.sent = cmd[c].sent
                             /\ r.window => cmd[c].window
    <2>1. ASSUME NEW r, \/ r = [cmd[c] EXCEPT !.window = FALSE]
                        \/ r = [cmd[c] EXCEPT !.lease = FALSE]
          PROVE  /\ r \in CmdType
                 /\ r.kind = cmd[c].kind
                 /\ r.state = cmd[c].state
                 /\ r.sent = cmd[c].sent
                 /\ r.window => cmd[c].window
      BY <1>1, <2>1 DEF CmdType
    <2> QED
      BY <1>2, <2>1
  <1> QED
    BY <1>3 DEF TypeOK

LEMMA ClockInv ==
    ASSUME QueueInv, NEW c \in Commands, WindowCloses(c) \/ LeaseLapses(c)
    PROVE  QueueInv'
  <1>1. UNCHANGED <<orphans, journal, agent, acks, faults>>
    BY DEF WindowCloses, LeaseLapses
  <1>2. /\ cmd' \in [Commands -> CmdType]
        /\ \A d \in Commands : /\ cmd'[d].kind = cmd[d].kind
                               /\ cmd'[d].state = cmd[d].state
                               /\ cmd'[d].sent = cmd[d].sent
                               /\ cmd'[d].window => cmd[d].window
    BY ClockFacts DEF QueueInv
  <1>3. TypeOK'
    BY <1>1, <1>2 DEF QueueInv, TypeOK
  <1>4. AgentShape'
    BY <1>1, <1>2 DEF QueueInv, AgentShape
  <1>5. LedgerShape'
    BY <1>1, <1>2 DEF QueueInv, LedgerShape
  <1>6. OneLiveBackup'
    BY <1>2 DEF QueueInv, OneLiveBackup, Pending
  <1> QED
    BY <1>3, <1>4, <1>5, <1>6 DEF QueueInv

\* The steps of the agent and the faults leave the table alone; each keeps
\* what AgentShape and LedgerShape say of the journal.
LEMMA AgentInv ==
    ASSUME QueueInv,
           \/ \E c \in Commands : ClaimSelect(c)
           \/ Consume \/ Begin
           \/ \E r \in Results : RunEnds(r)
           \/ FinishCommand \/ SendAck \/ AgentFault
           \/ \E m \in acks : LoseAck(m)
    PROVE  QueueInv'
  <1>1. /\ agent \in AgentType
        /\ agent.pc # "idle" => agent.cur \in Commands
        /\ agent = [pc |-> agent.pc, cur |-> agent.cur, result |-> agent.result]
    BY DEF QueueInv, TypeOK, AgentShape, AgentType
  <1>2. cmd' = cmd
    BY DEF ClaimSelect, Consume, Begin, RunEnds, FinishCommand, SendAck,
           AgentFault, LoseAck
  <1>3. OneLiveBackup'
    BY <1>2 DEF QueueInv, OneLiveBackup, Pending
  <1>4. Idle \in AgentType /\ Idle.pc = "idle"
    BY DEF Idle, AgentType
  <1>5. ASSUME NEW c \in Commands, ClaimSelect(c)
        PROVE  TypeOK' /\ AgentShape' /\ LedgerShape'
    <2>1. /\ agent' = [agent EXCEPT !.pc = "claim", !.cur = c]
          /\ UNCHANGED <<orphans, journal, acks, faults>>
      BY <1>5 DEF ClaimSelect
    <2>2. agent' \in AgentType /\ agent'.pc = "claim" /\ agent'.cur = c
      BY <1>1, <2>1 DEF AgentType
    <2> QED
      BY <1>2, <2>1, <2>2 DEF QueueInv, TypeOK, AgentShape, LedgerShape
  <1>6. ASSUME Consume
        PROVE  TypeOK' /\ AgentShape' /\ LedgerShape'
    <2> DEFINE c == agent.cur
    <2>1. /\ agent.pc = "consume"
          /\ c \in Commands
          /\ cmd[c].sent
          /\ journal \in [Commands -> {"none", "open"} \cup Results]
      BY <1>1, <1>6 DEF Consume, QueueInv, AgentShape, TypeOK
    <2>2. /\ journal' = IF journal[c] = "none" THEN [journal EXCEPT ![c] = "open"]
                                               ELSE journal
          /\ agent' = IF journal[c] \in Results
                      THEN [agent EXCEPT !.pc = "ack", !.result = journal[c]]
                      ELSE [agent EXCEPT !.pc = "dispatch"]
          /\ UNCHANGED <<orphans, acks, faults>>
      BY <1>6 DEF Consume
    <2>3. /\ journal' \in [Commands -> {"none", "open"} \cup Results]
          /\ \A d \in Commands :
                \/ journal'[d] = journal[d]
                \/ d = c /\ journal[d] = "none" /\ journal'[d] = "open"
          /\ journal'[c] # "none"
          /\ journal[c] \notin Results => journal'[c] = "open"
          /\ journal[c] \in Results => journal'[c] = journal[c]
      BY <2>1, <2>2
    <2>4. /\ agent' \in AgentType
          /\ agent'.cur = c
          /\ journal[c] \in Results => agent'.pc = "ack" /\ agent'.result = journal[c]
          /\ journal[c] \notin Results => agent'.pc = "dispatch"
      BY <1>1, <2>1, <2>2 DEF AgentType
    <2>5. TypeOK'
      BY <1>2, <2>2, <2>3, <2>4 DEF QueueInv, TypeOK
    <2>6. AgentShape'
      BY <1>2, <2>1, <2>3, <2>4 DEF AgentShape
    <2>7. LedgerShape'
      BY <1>2, <2>1, <2>2, <2>3 DEF QueueInv, LedgerShape
    <2> QED
      BY <2>5, <2>6, <2>7
  <1>7. ASSUME Begin
        PROVE  TypeOK' /\ AgentShape' /\ LedgerShape'
    <2>1. /\ agent.pc = "dispatch"
          /\ agent' = [agent EXCEPT !.pc = "run"]
          /\ UNCHANGED <<orphans, journal, acks, faults>>
      BY <1>7 DEF Begin
    <2>2. /\ agent' \in AgentType
          /\ agent'.pc = "run" /\ agent'.cur = agent.cur
      BY <1>1, <2>1 DEF AgentType
    <2> QED
      BY <1>2, <2>1, <2>2 DEF QueueInv, TypeOK, AgentShape, LedgerShape
  <1>8. ASSUME NEW r \in Results, RunEnds(r)
        PROVE  TypeOK' /\ AgentShape' /\ LedgerShape'
    <2>1. /\ agent.pc = "run"
          /\ agent' = [agent EXCEPT !.pc = "finish", !.result = r]
          /\ UNCHANGED <<orphans, journal, acks, faults>>
      BY <1>8 DEF RunEnds
    <2>2. /\ agent' \in AgentType
          /\ agent'.pc = "finish" /\ agent'.cur = agent.cur /\ agent'.result = r
      BY <1>1, <2>1 DEF AgentType
    <2> QED
      BY <1>2, <2>1, <2>2 DEF QueueInv, TypeOK, AgentShape, LedgerShape
  <1>9. ASSUME FinishCommand
        PROVE  TypeOK' /\ AgentShape' /\ LedgerShape'
    <2>1. /\ agent.pc = "finish"
          /\ agent.cur \in Commands
          /\ journal' = [journal EXCEPT ![agent.cur] = agent.result]
          /\ agent' = [agent EXCEPT !.pc = "ack"]
          /\ UNCHANGED <<orphans, acks, faults>>
      BY <1>1, <1>9 DEF FinishCommand
    <2>2. /\ agent' \in AgentType
          /\ agent'.pc = "ack" /\ agent'.cur = agent.cur
          /\ agent'.result = agent.result
      BY <1>1, <2>1 DEF AgentType
    <2>3. /\ agent.result \in Results
          /\ journal[agent.cur] = "open"
          /\ cmd[agent.cur].sent
          /\ journal \in [Commands -> {"none", "open"} \cup Results]
      BY <2>1 DEF QueueInv, AgentShape, TypeOK
    <2>4. /\ journal' \in [Commands -> {"none", "open"} \cup Results]
          /\ journal'[agent.cur] = agent.result
          /\ \A d \in Commands : d # agent.cur => journal'[d] = journal[d]
      BY <2>1, <2>3
    <2>5. TypeOK'
      BY <1>2, <2>1, <2>2, <2>4 DEF QueueInv, TypeOK
    <2>6. AgentShape'
      BY <1>2, <2>1, <2>2, <2>3, <2>4 DEF AgentShape
    <2>7. LedgerShape'
      BY <1>2, <2>1, <2>3, <2>4 DEF QueueInv, LedgerShape
    <2> QED
      BY <2>5, <2>6, <2>7
  <1>10. ASSUME SendAck
         PROVE  TypeOK' /\ AgentShape' /\ LedgerShape'
    <2>1. /\ agent.pc = "ack"
          /\ acks' = acks \cup {<<agent.cur, agent.result>>}
          /\ agent' = Idle
          /\ UNCHANGED <<orphans, journal, faults>>
      BY <1>10 DEF SendAck
    <2>2. /\ agent.cur \in Commands
          /\ agent.result \in Results
          /\ journal[agent.cur] = agent.result
      BY <2>1 DEF QueueInv, AgentShape
    <2> QED
      BY <1>2, <1>4, <2>1, <2>2 DEF QueueInv, TypeOK, AgentShape, LedgerShape
  <1>11. ASSUME AgentFault
         PROVE  TypeOK' /\ AgentShape' /\ LedgerShape'
    <2>1. /\ agent' = Idle
          /\ orphans' \subseteq orphans \cup {agent.cur}
          /\ agent.cur \in Commands
          /\ faults < MaxFaults
          /\ faults' = faults + 1
          /\ UNCHANGED <<journal, acks>>
      BY <1>1, <1>11 DEF AgentFault
    <2>2. faults' \in 0..MaxFaults
      BY <2>1, QueueAssumption DEF QueueInv, TypeOK
    <2> QED
      BY <1>2, <1>4, <2>1, <2>2 DEF QueueInv, TypeOK, AgentShape, LedgerShape
  <1>12. ASSUME NEW m \in acks, LoseAck(m)
         PROVE  TypeOK' /\ AgentShape' /\ LedgerShape'
    <2>1. /\ acks' = acks \ {m}
          /\ faults < MaxFaults
          /\ faults' = faults + 1
          /\ UNCHANGED <<orphans, journal, agent>>
      BY <1>12 DEF LoseAck
    <2>2. faults' \in 0..MaxFaults
      BY <2>1, QueueAssumption DEF QueueInv, TypeOK
    <2> QED
      BY <1>2, <2>1, <2>2 DEF QueueInv, TypeOK, AgentShape, LedgerShape
  <1> QED
    BY <1>3, <1>5, <1>6, <1>7, <1>8, <1>9, <1>10, <1>11, <1>12 DEF QueueInv

LEMMA QueueStep ==
    ASSUME QueueInv, [Next]_vars
    PROVE  QueueInv'
  <1>1. CASE Next
    BY <1>1, EnqueueInv, ClaimUpdateInv, OrphanUpdateInv, AckCommandInv,
       ExpireCommandsInv, ClockInv, AgentInv
       DEF Next, Server, Agent, Clock
  <1>2. CASE UNCHANGED vars
    BY <1>2 DEF vars, QueueInv, TypeOK, AgentShape, LedgerShape,
                OneLiveBackup, Pending
  <1> QED
    BY <1>1, <1>2

\* QueueInv holds in every reachable state.
THEOREM QueueInvariant == Spec => []QueueInv
  <1>1. Init => QueueInv
    BY QueueInit
  <1>2. QueueInv /\ [Next]_vars => QueueInv'
    BY QueueStep
  <1> QED
    BY <1>1, <1>2, PTL DEF Spec

\* Every variable of the queue keeps its type.
THEOREM QueueTypeCorrect == Spec => []TypeOK
  <1>1. QueueInv => TypeOK
    BY DEF QueueInv
  <1> QED
    BY <1>1, QueueInvariant, PTL

\* Clicks, redeliveries and expiry never leave two backup commands of a
\* device unfinished inside their windows.
THEOREM BackupsDoNotPileUp == Spec => []OneLiveBackup
  <1>1. QueueInv => OneLiveBackup
    BY DEF QueueInv
  <1> QED
    BY <1>1, QueueInvariant, PTL

\* What Executor.Poll runs was delivered to it, has no durable result yet and
\* was neither finished nor cancelled.
THEOREM OnlyOpenCommandsRun == Spec => []RunsOnlyOpen
  <1>1. QueueInv => RunsOnlyOpen
    <2> SUFFICES ASSUME QueueInv, agent.pc = "run"
                 PROVE  /\ journal[agent.cur] = "open"
                        /\ cmd[agent.cur].state \in {"DELIVERED", "EXPIRED"}
                        /\ cmd[agent.cur].sent
      BY DEF RunsOnlyOpen
    <2>1. /\ agent.cur \in Commands
          /\ journal[agent.cur] = "open"
          /\ cmd[agent.cur].sent
      BY DEF QueueInv, AgentShape
    <2>2. cmd[agent.cur] \in CmdType
      BY <2>1 DEF QueueInv, TypeOK
    <2>3. cmd[agent.cur].state \notin {"none", "QUEUED", "CANCELLED"} \cup Results
      BY <2>1 DEF QueueInv, LedgerShape
    <2> QED
      BY <2>1, <2>2, <2>3 DEF CmdType
  <1> QED
    BY <1>1, QueueInvariant, PTL

-----------------------------------------------------------------------------
(* The queue implements CommandOutcome.                                    *)

\* A step that keeps the results of the journal and of the table is a stutter
\* of the abstract specification.
LEMMA Stutters ==
    ASSUME \A c \in Commands : \/ journal'[c] = journal[c]
                               \/ {journal'[c], journal[c]} \cap Results = {},
           \A c \in Commands :
               \/ cmd'[c].state = cmd[c].state
               \/ {cmd'[c].state, cmd[c].state}
                     \cap (Results \cup {"CANCELLED"}) = {}
    PROVE  UNCHANGED <<Decided, Shown>>
  <1>1. Decided' = Decided
    BY DEF Decided
  <1>2. Shown' = Shown
    BY DEF Shown
  <1> QED
    BY <1>1, <1>2

\* FinishCommand decides the command in hand, which nobody withdrew.
LEMMA FinishDecides ==
    ASSUME QueueInv, FinishCommand
    PROVE  Outcome!Next
  <1> DEFINE c == agent.cur
  <1>1. /\ c \in Commands
        /\ journal[c] = "open"
        /\ agent.result \in Results
        /\ cmd[c].sent
    BY DEF QueueInv, AgentShape, FinishCommand
  <1>2. /\ journal' = [journal EXCEPT ![c] = agent.result]
        /\ cmd' = cmd
        /\ journal \in [Commands -> {"none", "open"} \cup Results]
    BY DEF FinishCommand, QueueInv, TypeOK
  <1>3. cmd[c].state \notin {"CANCELLED"} \cup Results
    BY <1>1 DEF QueueInv, LedgerShape
  <1>4. Decided[c] = "" /\ Shown[c] = ""
    BY <1>1, <1>3 DEF Decided, Shown
  <1>5. Decided' = [Decided EXCEPT ![c] = agent.result]
    BY <1>1, <1>2 DEF Decided
  <1>6. Shown' = Shown
    BY <1>2 DEF Shown
  <1>7. Outcome!Decide(c)
    BY <1>1, <1>4, <1>5, <1>6 DEF Outcome!Decide, Outcome!Outcomes
  <1> QED
    BY <1>1, <1>7 DEF Outcome!Next

\* An accepted acknowledgement reports a decided command for the first time,
\* or repeats what is shown; what it cancels is undecided.
LEMMA AckReports ==
    ASSUME QueueInv, NEW c \in Commands, NEW r \in Results, AckCommand(c, r)
    PROVE  Outcome!Next \/ UNCHANGED <<Decided, Shown>>
  <1>1. /\ journal[c] = r
        /\ journal' = journal
    BY DEF AckCommand, QueueInv, LedgerShape
  <1>2. CASE ~Acceptable(c)
    <2>1. cmd' = cmd
      BY <1>2 DEF AckCommand
    <2> QED
      BY <1>1, <2>1, Stutters
  <1>3. CASE Acceptable(c)
    <2>1. /\ cmd'[c].state = r
          /\ \A d \in Commands :
                \/ cmd'[d] = cmd[d]
                \/ d = c /\ cmd'[d].state = r
                \/ /\ d \in Obsolete(c)
                   /\ cmd[d].state = "QUEUED"
                   /\ cmd'[d].state = "CANCELLED"
      BY <1>3, AckFacts DEF QueueInv
    <2> DEFINE W == {d \in Commands \ {c} : /\ cmd[d].state = "QUEUED"
                                            /\ cmd'[d].state = "CANCELLED"}
    <2>2. \A d \in W : Decided[d] = "" /\ Shown[d] = ""
      <3> SUFFICES ASSUME NEW d \in W
                   PROVE  Decided[d] = "" /\ Shown[d] = ""
        OBVIOUS
      <3>1. d \in Commands /\ cmd[d].state = "QUEUED"
        OBVIOUS
      <3>2. journal[d] = "none"
        BY <3>1 DEF QueueInv, LedgerShape
      <3> QED
        BY <3>1, <3>2 DEF Decided, Shown
    <2>3. Decided[c] = r /\ Shown[c] = "" /\ Decided' = Decided
      BY <1>1, <1>3 DEF Decided, Shown, Acceptable
    <2>4. Shown' = [d \in Commands |-> IF d = c THEN r
                                       ELSE IF d \in W THEN "CANCELLED"
                                       ELSE Shown[d]]
      BY <2>1 DEF Shown
    <2>5. W \in SUBSET (Commands \ {c})
      OBVIOUS
    <2> HIDE DEF W
    <2>6. Outcome!Report(c)
      BY <2>2, <2>3, <2>4, <2>5 DEF Outcome!Report
    <2> QED
      BY <2>6 DEF Outcome!Next
  <1> QED
    BY <1>2, <1>3

\* A claim, delivered to its caller or not, decides and shows nothing.
LEMMA DeliverStutters ==
    ASSUME QueueInv, NEW c \in Commands, Deliver(c), journal' = journal
    PROVE  UNCHANGED <<Decided, Shown>>
  <1>1. /\ \A d \in Commands : d # c => cmd'[d] = cmd[d]
        /\ ~Claimable(c) => cmd' = cmd
        /\ Claimable(c) => Pending(c) /\ cmd'[c].state = "DELIVERED"
    BY DeliverFacts DEF QueueInv
  <1>2. \A d \in Commands :
           \/ cmd'[d].state = cmd[d].state
           \/ {cmd'[d].state, cmd[d].state}
                 \cap (Results \cup {"CANCELLED"}) = {}
    BY <1>1 DEF Pending
  <1> QED
    BY <1>2, Stutters

LEMMA OutcomeStep ==
    ASSUME QueueInv, [Next]_vars
    PROVE  [Outcome!Next]_<<Decided, Shown>>
  <1>1. ASSUME NEW c \in Commands, NEW k \in Kinds, Enqueue(c, k)
        PROVE  UNCHANGED <<Decided, Shown>>
    <2>1. /\ cmd[c].state = "none"
          /\ cmd'[c].state = "QUEUED"
          /\ \A d \in Commands : d # c => cmd'[d] = cmd[d]
          /\ journal' = journal
      BY <1>1 DEF Enqueue, Exists, QueueInv, TypeOK
    <2> QED
      BY <2>1, Stutters
  <1>2. ASSUME ClaimUpdate
        PROVE  UNCHANGED <<Decided, Shown>>
    <2>1. agent.cur \in Commands /\ Deliver(agent.cur) /\ journal' = journal
      BY <1>2 DEF ClaimUpdate, QueueInv, AgentShape
    <2> QED
      BY <2>1, DeliverStutters
  <1>3. ASSUME NEW c \in Commands, OrphanUpdate(c)
        PROVE  UNCHANGED <<Decided, Shown>>
    BY <1>3, DeliverStutters DEF OrphanUpdate
  <1>4. ASSUME ExpireCommands
        PROVE  UNCHANGED <<Decided, Shown>>
    <2>1. \A d \in Commands : Settled(cmd[d], "EXPIRED").state = "EXPIRED"
      <3>1. \A d \in Commands : cmd[d] \in CmdType
        BY DEF QueueInv, TypeOK
      <3> QED
        BY <3>1, SettledFacts
    <2>2. /\ \A d \in Commands :
                \/ cmd'[d].state = cmd[d].state
                \/ Pending(d) /\ cmd'[d].state = "EXPIRED"
          /\ journal' = journal
      BY <1>4, <2>1 DEF ExpireCommands, Lapsed
    <2>3. \A d \in Commands :
             \/ cmd'[d].state = cmd[d].state
             \/ {cmd'[d].state, cmd[d].state}
                   \cap (Results \cup {"CANCELLED"}) = {}
      BY <2>2 DEF Pending
    <2> QED
      BY <2>2, <2>3, Stutters
  <1>5. ASSUME NEW c \in Commands, WindowCloses(c) \/ LeaseLapses(c)
        PROVE  UNCHANGED <<Decided, Shown>>
    <2>1. /\ \A d \in Commands : cmd'[d].state = cmd[d].state
          /\ journal' = journal
      BY <1>5, ClockFacts DEF WindowCloses, LeaseLapses, QueueInv
    <2> QED
      BY <2>1, Stutters
  <1>6. ASSUME Consume
        PROVE  UNCHANGED <<Decided, Shown>>
    <2>1. /\ cmd' = cmd
          /\ \A d \in Commands :
                \/ journal'[d] = journal[d]
                \/ journal[d] = "none" /\ journal'[d] = "open"
      BY <1>6 DEF Consume, QueueInv, TypeOK, AgentShape
    <2> QED
      BY <2>1, Stutters
  <1>7. ASSUME \/ \E c \in Commands : ClaimSelect(c)
               \/ Begin
               \/ \E r \in Results : RunEnds(r)
               \/ SendAck \/ AgentFault
               \/ \E m \in acks : LoseAck(m)
               \/ UNCHANGED vars
        PROVE  UNCHANGED <<Decided, Shown>>
    <2>1. cmd' = cmd /\ journal' = journal
      BY <1>7 DEF ClaimSelect, Begin, RunEnds, SendAck, AgentFault, LoseAck, vars
    <2> QED
      BY <2>1, Stutters
  <1> QED
    BY <1>1, <1>2, <1>3, <1>4, <1>5, <1>6, <1>7, FinishDecides, AckReports
       DEF Next, Server, Agent, Clock

\* The queue implements CommandOutcome: the control plane shows for every
\* command what the device's journal decided, once and for good, and decides
\* nothing that it withdrew.
THEOREM QueueImplementsOutcome == Spec => OneOutcome
  <1>1. Init => Outcome!Init
    <2> SUFFICES ASSUME Init PROVE Outcome!Init
      OBVIOUS
    <2>1. NoCommand.state = "none"
      BY DEF NoCommand
    <2>2. Decided = [c \in Commands |-> ""]
      BY DEF Init, Decided
    <2>3. Shown = [c \in Commands |-> ""]
      BY <2>1 DEF Init, Shown
    <2> QED
      BY <2>2, <2>3 DEF Outcome!Init
  <1>2. QueueInv /\ [Next]_vars => [Outcome!Next]_<<Decided, Shown>>
    BY OutcomeStep
  <1> QED
    BY <1>1, <1>2, QueueInvariant, PTL DEF Spec, OneOutcome, Outcome!Spec

=============================================================================
