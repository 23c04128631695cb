---------------------------- MODULE CommandQueue ----------------------------
(***************************************************************************)
(* Remote commands of one device: the command table of the control plane   *)
(* (enqueue_command, claim_command, ack_command, expire_commands in        *)
(* server/app/services.py) and the agent's executor with its durable       *)
(* journal (Executor.Poll in agent/internal/control/execute.go,            *)
(* ConsumeCommand / CommandResult / FinishCommand in                       *)
(* agent/internal/adapters/journal/sqlite.go).                             *)
(*                                                                         *)
(* The agent polls, runs one command at a time, may crash at any step, and *)
(* its calls may be lost or time out while the server still handles them.  *)
(* A claim is two statements, a SELECT and a conditional UPDATE.  The two  *)
(* clocks of a command are flags: window is expires_at > now, and lease is *)
(* delivered_at within the last REDELIVERY_LEASE_SECONDS.                  *)
(***************************************************************************)
EXTENDS Integers

CONSTANTS
    MaxCommands,    \* bound: commands ever enqueued
    Kinds,          \* command kinds in use
    MaxFaults       \* bound: crashes, lost calls and journal errors

ASSUME QueueAssumption ==
    /\ MaxCommands \in Nat \ {0}
    /\ "RUN_BACKUP" \in Kinds
    /\ MaxFaults \in Nat

Commands == 1..MaxCommands      \* in the order of created_at

VARIABLES
    cmd,        \* the command table
    orphans,    \* claims being handled whose caller is gone
    journal,    \* consumed_commands: "none", "open", or the durable result
    agent,      \* Executor.Poll: [pc, cur, result]
    acks,       \* acknowledgements in flight: <<command, result>>
    faults      \* crashes, lost calls and journal errors so far

vars == <<cmd, orphans, journal, agent, acks, faults>>

Results == {"SUCCEEDED", "FAILED"}
Idle == [pc |-> "idle", cur |-> 0, result |-> ""]
NoCommand == [kind |-> "", state |-> "none", sent |-> FALSE, lease |-> FALSE,
              window |-> FALSE]

\* Kinds enqueue_command does not count: a repeated request is the same one.
\* (A browse or catalog request is a kind of its own for every payload.)
Deduplicated == {"RUN_BACKUP", "BROWSE_SNAPSHOT", "BROWSE_LOCAL_DIR",
                 "BUILD_SNAPSHOT_CATALOG"}

Exists(c) == cmd[c].state # "none"
Pending(c) == cmd[c].state \in {"QUEUED", "DELIVERED"}

\* A settled command's clocks are never read again, so they are dropped.
Settled(r, st) == [r EXCEPT !.state = st, !.lease = FALSE, !.window = FALSE]

Init ==
    /\ cmd = [c \in Commands |-> NoCommand]
    /\ orphans = {}
    /\ journal = [c \in Commands |-> "none"]
    /\ agent = Idle
    /\ acks = {}
    /\ faults = 0

-----------------------------------------------------------------------------
(* The control plane.                                                      *)

\* Mutated form of Duplicates: a delivered command is no longer looked up.
Duplicates_QueuedOnly(k) ==
    {c \in Commands : cmd[c].kind = k /\ cmd[c].state = "QUEUED" /\ cmd[c].window}

\* The lookup of enqueue_command for kinds that are not counted: a command of
\* the same kind (and payload) that is unfinished and inside its window.
Duplicates(k) == {c \in Commands : cmd[c].kind = k /\ Pending(c) /\ cmd[c].window}

\* enqueue_command inserts; a request with a duplicate is answered with that
\* one, and changes nothing.
Enqueue(c, k) ==
    /\ ~Exists(c) /\ \A d \in 1..(c - 1) : Exists(d)
    /\ k \in Deduplicated => Duplicates(k) = {}
    /\ cmd' = [cmd EXCEPT ![c] = [kind |-> k, state |-> "QUEUED",
                                  sent |-> FALSE, lease |-> FALSE,
                                  window |-> TRUE]]
    /\ UNCHANGED <<orphans, journal, agent, acks, faults>>

\* Mutated form of Claimable: a delivered command is never offered again.
Claimable_Once(c) == cmd[c].state = "QUEUED"

\* QUEUED, or delivered, not acknowledged and past the redelivery lease.
Claimable(c) == \/ cmd[c].state = "QUEUED"
                \/ cmd[c].state = "DELIVERED" /\ ~cmd[c].lease

\* The SELECT of claim_command: the oldest claimable command in its window.
ClaimSelect(c) ==
    /\ agent.pc = "idle"
    /\ Claimable(c) /\ cmd[c].window
    /\ \A d \in 1..(c - 1) : ~(Claimable(d) /\ cmd[d].window)
    /\ agent' = [agent EXCEPT !.pc = "claim", !.cur = c]
    /\ UNCHANGED <<cmd, orphans, journal, acks, faults>>

\* Its UPDATE repeats the condition on the state, not the one on the window.
Deliver(c) == cmd' = IF Claimable(c)
                     THEN [cmd EXCEPT ![c].state = "DELIVERED", ![c].sent = TRUE,
                                      ![c].lease = TRUE]
                     ELSE cmd

ClaimUpdate ==
    /\ agent.pc = "claim"
    /\ Deliver(agent.cur)
    /\ agent' = IF Claimable(agent.cur) THEN [agent EXCEPT !.pc = "consume"]
                                        ELSE Idle
    /\ UNCHANGED <<orphans, journal, acks, faults>>

\* The same UPDATE when the agent no longer waits for the answer.
OrphanUpdate(c) ==
    /\ c \in orphans
    /\ orphans' = orphans \ {c}
    /\ Deliver(c)
    /\ UNCHANGED <<journal, agent, acks, faults>>

\* ack_command takes a result for a delivered command, or for one that was
\* delivered and expired since; the end of a backup cancels queued backups.
Acceptable(c) == \/ cmd[c].state = "DELIVERED"
                 \/ cmd[c].state = "EXPIRED" /\ cmd[c].sent

\* Mutated form of Obsolete: every unfinished copy, delivered ones too.
Obsolete_Pending(c) ==
    {d \in Commands \ {c} : /\ cmd[c].kind = "RUN_BACKUP"
                            /\ cmd[d].kind = "RUN_BACKUP" /\ Pending(d)}

Obsolete(c) ==
    {d \in Commands \ {c} : /\ cmd[c].kind = "RUN_BACKUP"
                            /\ cmd[d].kind = "RUN_BACKUP"
                            /\ cmd[d].state = "QUEUED"}

AckCommand(c, r) ==
    /\ <<c, r>> \in acks
    /\ acks' = acks \ {<<c, r>>}
    /\ cmd' = IF ~Acceptable(c) THEN cmd
              ELSE [d \in Commands |->
                      IF d = c THEN Settled(cmd[d], r)
                      ELSE IF d \in Obsolete(c)
                           THEN Settled(cmd[d], "CANCELLED")
                           ELSE cmd[d]]
    /\ UNCHANGED <<orphans, journal, agent, faults>>

\* Mutated form of Lapsed: only commands that never left are swept.
Lapsed_Queued == {c \in Commands : cmd[c].state = "QUEUED" /\ ~cmd[c].window}

Lapsed == {c \in Commands : Pending(c) /\ ~cmd[c].window}

\* The worker's expire_commands, one UPDATE.
ExpireCommands ==
    /\ Lapsed # {}
    /\ cmd' = [c \in Commands |-> IF c \in Lapsed
                                  THEN Settled(cmd[c], "EXPIRED")
                                  ELSE cmd[c]]
    /\ UNCHANGED <<orphans, journal, agent, acks, faults>>

\* Fifteen minutes after created_at, twenty seconds after delivered_at.
WindowCloses(c) ==
    /\ Pending(c) /\ cmd[c].window
    /\ cmd' = [cmd EXCEPT ![c].window = FALSE]
    /\ UNCHANGED <<orphans, journal, agent, acks, faults>>

LeaseLapses(c) ==
    /\ cmd[c].state = "DELIVERED" /\ cmd[c].lease
    /\ cmd' = [cmd EXCEPT ![c].lease = FALSE]
    /\ UNCHANGED <<orphans, journal, agent, acks, faults>>

-----------------------------------------------------------------------------
(* The agent.                                                              *)

\* ConsumeCommand, and CommandResult for a command seen before: a durable
\* result is replayed, anything else is (re-)dispatched.
Consume ==
    LET c == agent.cur
    IN  /\ agent.pc = "consume"
        /\ journal' = IF journal[c] = "none" THEN [journal EXCEPT ![c] = "open"]
                                             ELSE journal
        /\ agent' = IF journal[c] \in Results
                    THEN [agent EXCEPT !.pc = "ack", !.result = journal[c]]
                    ELSE [agent EXCEPT !.pc = "dispatch"]
        /\ UNCHANGED <<cmd, orphans, acks, faults>>

\* dispatch: the handler of the command begins ...
Begin ==
    /\ agent.pc = "dispatch"
    /\ agent' = [agent EXCEPT !.pc = "run"]
    /\ UNCHANGED <<cmd, orphans, journal, acks, faults>>

\* Mutated form of RunEnds: the result is sent before it is durable.
RunEnds_AckFirst(r) ==
    /\ agent.pc = "run"
    /\ acks' = acks \cup {<<agent.cur, r>>}
    /\ agent' = [agent EXCEPT !.pc = "finish", !.result = r]
    /\ UNCHANGED <<cmd, orphans, journal, faults>>

\* ... and returns, with or without an error.
RunEnds(r) ==
    /\ agent.pc = "run"
    /\ agent' = [agent EXCEPT !.pc = "finish", !.result = r]
    /\ UNCHANGED <<cmd, orphans, journal, acks, faults>>

\* FinishCommand makes the result durable before anything is sent.
FinishCommand ==
    /\ agent.pc = "finish"
    /\ journal' = [journal EXCEPT ![agent.cur] = agent.result]
    /\ agent' = [agent EXCEPT !.pc = "ack"]
    /\ UNCHANGED <<cmd, orphans, acks, faults>>

\* AckResult: the agent goes on whatever becomes of the call.
SendAck ==
    /\ agent.pc = "ack"
    /\ acks' = acks \cup {<<agent.cur, agent.result>>}
    /\ agent' = Idle
    /\ UNCHANGED <<cmd, orphans, journal, faults>>

-----------------------------------------------------------------------------
(* Faults: at most MaxFaults of them.                                      *)

\* The process stops, or Poll returns early: a claim whose answer is lost, a
\* journal error in ConsumeCommand or FinishCommand, a failed AckResult.
AgentFault ==
    /\ faults < MaxFaults
    /\ agent.pc # "idle"
    /\ agent' = Idle
    /\ orphans' = IF agent.pc = "claim" THEN orphans \cup {agent.cur} ELSE orphans
    /\ faults' = faults + 1
    /\ UNCHANGED <<cmd, journal, acks>>

LoseAck(m) ==
    /\ faults < MaxFaults
    /\ m \in acks
    /\ acks' = acks \ {m}
    /\ faults' = faults + 1
    /\ UNCHANGED <<cmd, orphans, journal, agent>>

-----------------------------------------------------------------------------
Server == \/ ClaimUpdate \/ \E c \in Commands : OrphanUpdate(c)
          \/ \E c \in Commands, r \in Results : AckCommand(c, r)

Agent == \/ \E c \in Commands : ClaimSelect(c)
         \/ Consume \/ Begin \/ (\E r \in Results : RunEnds(r))
         \/ FinishCommand \/ SendAck

Clock == \E c \in Commands : WindowCloses(c) \/ LeaseLapses(c)

Next == \/ \E c \in Commands, k \in Kinds : Enqueue(c, k)
        \/ Server \/ Agent \/ Clock \/ ExpireCommands
        \/ AgentFault \/ \E m \in acks : LoseAck(m)

Spec == Init /\ [][Next]_vars

\* A handler that started ends, the agent keeps polling and its handlers
\* return (every run has a deadline), redelivery leases lapse, the worker loops.
Fairness ==
    /\ \A c \in Commands : /\ WF_vars(OrphanUpdate(c))
                           /\ WF_vars(LeaseLapses(c))
                           /\ \A r \in Results : WF_vars(AckCommand(c, r))
    /\ WF_vars(ClaimUpdate)
    /\ WF_vars(Agent)
    /\ WF_vars(ExpireCommands)

FairSpec == Spec /\ Fairness

-----------------------------------------------------------------------------
(* Properties.                                                             *)

CmdType == [kind : Kinds \cup {""},
            state : {"none", "QUEUED", "DELIVERED", "EXPIRED", "CANCELLED"}
                       \cup Results,
            sent : BOOLEAN, lease : BOOLEAN, window : BOOLEAN]

AgentType == [pc : {"idle", "claim", "consume", "dispatch", "run", "finish", "ack"},
              cur : Commands \cup {0}, result : Results \cup {""}]

\* Every variable keeps its type.
TypeOK ==
    /\ cmd \in [Commands -> CmdType]
    /\ orphans \subseteq Commands
    /\ journal \in [Commands -> {"none", "open"} \cup Results]
    /\ agent \in AgentType
    /\ acks \subseteq Commands \X Results
    /\ faults \in 0..MaxFaults

\* At most one backup command of the device is unfinished inside its window:
\* clicks, redeliveries and expiry never build a train of backups.
OneLiveBackup ==
    \A c, d \in Commands :
        (\A x \in {c, d} : cmd[x].kind = "RUN_BACKUP" /\ Pending(x) /\ cmd[x].window)
            => c = d

\* What the agent runs was delivered to it, has no durable result yet, and is
\* neither finished nor cancelled for the control plane: a claim that races
\* the coalescing cancel, expiry or a late acknowledgement never starts it.
RunsOnlyOpen ==
    agent.pc = "run" => /\ journal[agent.cur] = "open"
                        /\ cmd[agent.cur].state \in {"DELIVERED", "EXPIRED"}
                        /\ cmd[agent.cur].sent

Decided == [c \in Commands |-> IF journal[c] \in Results THEN journal[c] ELSE ""]
Shown == [c \in Commands |-> IF cmd[c].state \in Results \cup {"CANCELLED"}
                             THEN cmd[c].state ELSE ""]
Outcome == INSTANCE CommandOutcome WITH decided <- Decided, shown <- Shown

\* The queue implements CommandOutcome: the journal decides each command
\* once, the control plane shows that result, and shows it for good; a
\* coalesced command is never decided.
OneOutcome == Outcome!Spec

-----------------------------------------------------------------------------
(* The inductive invariant behind these, used by CommandQueueProofs.       *)

\* Where the agent is says what its journal holds for the command in hand.
AgentShape ==
    /\ agent.pc # "idle" => agent.cur \in Commands
    /\ agent.pc \in {"dispatch", "run", "finish"} => journal[agent.cur] = "open"
    /\ agent.pc \in {"finish", "ack"} => agent.result \in Results
    /\ agent.pc = "ack" => journal[agent.cur] = agent.result
    /\ agent.pc \in {"consume", "dispatch", "run", "finish", "ack"}
          => cmd[agent.cur].sent

\* The journal knows only delivered commands, the table and the network only
\* results the journal holds, and a cancelled command was never delivered.
LedgerShape ==
    /\ \A c \in Commands :
          /\ journal[c] # "none" => cmd[c].sent
          /\ cmd[c].sent => cmd[c].state \notin {"none", "QUEUED", "CANCELLED"}
          /\ cmd[c].state = "DELIVERED" => cmd[c].sent
          /\ cmd[c].state \in Results => journal[c] = cmd[c].state
    /\ \A c \in Commands, r \in Results : <<c, r>> \in acks => journal[c] = r

QueueInv == TypeOK /\ AgentShape /\ LedgerShape /\ OneLiveBackup

\* A durable result reaches the control plane unless the delivery window
\* closes first: a lost acknowledgement is repaired by redelivery and replay.
ResultsArrive ==
    \A c \in Commands :
        journal[c] \in Results ~> (cmd[c].state = journal[c] \/ ~cmd[c].window)

\* As windows close in the end, nothing stays queued or delivered for ever.
CommandsSettle ==
    (\A c \in Commands : WF_vars(WindowCloses(c)))
        => \A c \in Commands : Pending(c) ~> ~Pending(c)

=============================================================================
