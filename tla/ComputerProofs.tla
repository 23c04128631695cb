---------------------------- MODULE ComputerProofs ----------------------------
(***************************************************************************)
(* What a computer keeps for every set of accounts, folders, computers and  *)
(* codes and every bound: a token makes one device, an installation that    *)
(* reports success can work, what was revoked stays refused, the folders of *)
(* a backup were agreed to, and what DesktopPageProofs shows of the page.   *)
(***************************************************************************)
EXTENDS Computer, TLAPS

-----------------------------------------------------------------------------
(* Types of the updates the actions are made of.                           *)

LEMMA Names ==
    ASSUME EnrollmentAssumption
    PROVE  /\ {"idle", "login", "signed", "run", "asking", "control", "gateway", "persist", "abort",
               "aborting"} \subseteq Steps
           /\ {"sent", "read", "refused", "telling", "ok", "failed"} \subseteq ReqSteps
           /\ {"sent", "refused", "telling", "ok", "failed"} \subseteq RevSteps
           /\ {"none", "sent", "lost", "done"} \subseteq Notes
           /\ {"ACTIVE", "ARCHIVED", "QUARANTINED"} \subseteq Lives
           /\ 0 \in Nat /\ (\A n \in Tokens \cup (1..MaxRevokes) : n \in Nat) /\ 0 \notin Devices
BY DEF Steps, Waiting, ReqSteps, RevSteps, Notes, Lives, Devices, Tokens, EnrollmentAssumption

\* An installation moves to its next step, begins, or ends.
LEMMA CompUpdates ==
    ASSUME EnrollmentAssumption, TypeOK, NEW c \in Computers
    PROVE  /\ \A s \in Steps : [comp EXCEPT ![c].pc = s] \in [Computers -> CompType]
           /\ \A s \in Steps, n \in Nat :
                 [comp EXCEPT ![c].pc = s, ![c].tok = n] \in [Computers -> CompType]
           /\ \A s \in Steps, n \in Nat, d \in Devices :
                 [comp EXCEPT ![c].pc = s, ![c].tok = n, ![c].dev = d] \in [Computers -> CompType]
           /\ \A v \in CompType : [comp EXCEPT ![c] = v] \in [Computers -> CompType]
           /\ NoInstall \in CompType /\ Enrolled \in CompType
<1>1. comp \in [Computers -> CompType] /\ comp[c] \in CompType
  BY DEF TypeOK
<1>2. NoInstall \in CompType /\ Enrolled \in CompType
  BY DEF CompType, NoInstall, Enrolled, Steps, Actors
<1>3. QED
  BY <1>1, <1>2 DEF CompType

\* The files of a computer.
LEMMA DiskUpdates ==
    ASSUME EnrollmentAssumption, TypeOK, NEW c \in Computers
    PROVE  /\ \A f \in {0, Torn} \cup Devices : [disk EXCEPT ![c].cfg = f] \in [Computers -> DiskType]
           /\ \A d \in {0} \cup Devices : [disk EXCEPT ![c].control = d] \in [Computers -> DiskType]
           /\ \A d \in {0} \cup Devices : [disk EXCEPT ![c].gateway = d] \in [Computers -> DiskType]
           /\ [disk EXCEPT ![c] = Scrubbed(disk[c])] \in [Computers -> DiskType]
           /\ \A f \in {0, Torn} \cup Devices :
                 [disk EXCEPT ![c] = [Scrubbed(disk[c]) EXCEPT !.cfg = f]] \in [Computers -> DiskType]
<1>1. disk \in [Computers -> DiskType] /\ disk[c] \in DiskType
  BY DEF TypeOK
<1>2. QED
  BY <1>1 DEF DiskType, Scrubbed

\* A request and its call to the gateway.
LEMMA ReqUpdates ==
    ASSUME EnrollmentAssumption, TypeOK, NEW h \in Devices
    PROVE  /\ \A s \in ReqSteps : [req EXCEPT ![h].pc = s] \in [Devices -> ReqType]
           /\ \A n \in Notes : [req EXCEPT ![h].note = n] \in [Devices -> ReqType]
           /\ \A s \in ReqSteps, n \in Notes :
                 [req EXCEPT ![h].pc = s, ![h].note = n] \in [Devices -> ReqType]
<1>1. req \in [Devices -> ReqType] /\ req[h] \in ReqType
  BY DEF TypeOK
<1>2. QED
  BY <1>1 DEF ReqType

\* A revocation and its call to the gateway.
LEMMA RevUpdates ==
    ASSUME EnrollmentAssumption, TypeOK, NEW k \in 1..MaxRevokes
    PROVE  /\ \A s \in RevSteps : [rev EXCEPT ![k].pc = s] \in [1..MaxRevokes -> RevType]
           /\ \A n \in Notes : [rev EXCEPT ![k].note = n] \in [1..MaxRevokes -> RevType]
           /\ \A s \in RevSteps, n \in Notes :
                 [rev EXCEPT ![k].pc = s, ![k].note = n] \in [1..MaxRevokes -> RevType]
<1>1. rev \in [1..MaxRevokes -> RevType] /\ rev[k] \in RevType
  BY DEF TypeOK
<1>2. QED
  BY <1>1 DEF RevType

\* A device.
LEMMA DevUpdates ==
    ASSUME EnrollmentAssumption, TypeOK, NEW d \in Devices
    PROVE  /\ \A v \in DevType : [dev EXCEPT ![d] = v] \in [Devices -> DevType]
           /\ \A x \in {"none", "ACTIVE", "ARCHIVED"} : [dev EXCEPT ![d].edit = x] \in [Devices -> DevType]
           /\ \A l \in Lives : [dev EXCEPT ![d].life = l, ![d].edit = "none"] \in [Devices -> DevType]
           /\ \A l \in Lives : [dev EXCEPT ![d].life = l, ![d].keys = FALSE] \in [Devices -> DevType]
<1>1. dev \in [Devices -> DevType] /\ dev[d] \in DevType
  BY DEF TypeOK
<1>2. QED
  BY <1>1 DEF DevType

-----------------------------------------------------------------------------
(* Type correctness: one step per action.                                   *)

\* What RevokeCode does to the installations of its sessions.
LEMMA RevokedSessions ==
    ASSUME EnrollmentAssumption, TypeOK, NEW a \in Codes,
           comp' = [c \in Computers |-> IF comp[c].by = a THEN [comp[c] EXCEPT !.live = FALSE] ELSE comp[c]]
    PROVE  /\ comp' \in [Computers -> CompType]
           /\ \A c \in Computers : /\ comp'[c].pc = comp[c].pc /\ comp'[c].tok = comp[c].tok
                                   /\ comp'[c].dev = comp[c].dev /\ comp'[c].done = comp[c].done
<1>1. \A c \in Computers : comp[c] \in CompType /\ [comp[c] EXCEPT !.live = FALSE] \in CompType
  BY DEF TypeOK, CompType
<1>2. QED
  BY <1>1 DEF CompType

LEMMA TypesKept ==
    ASSUME EnrollmentAssumption, TypeOK, ReqShape, CompShape, Next
    PROVE  TypeOK'
<1> USE EnrollmentAssumption
<1>1. ASSUME NEW c \in Computers, NEW a \in Actors, StartInstall(c, a)
      PROVE  TypeOK'
  <2>1. [NoInstall EXCEPT !.by = a, !.live = a = "admin", !.pc = IF a = "admin" THEN "signed" ELSE "login"]
          \in CompType
    BY <1>1 DEF NoInstall, CompType, Steps, Actors
  <2>2. comp' \in [Computers -> CompType]
    BY <1>1, <2>1, CompUpdates, Names DEF StartInstall
  <2>3. code' \in [Codes -> CodeType]
    <3>1. CASE a = "admin"
      BY <1>1, <3>1 DEF StartInstall, TypeOK
    <3>2. CASE a # "admin"
      <4>1. a \in Codes /\ code[a] \in CodeType
        BY <3>2 DEF Actors, TypeOK
      <4>2. [code[a] EXCEPT !.reading = @ + 1] \in CodeType
        BY <4>1 DEF CodeType
      <4>3. QED
        BY <1>1, <3>2, <4>1, <4>2 DEF StartInstall, TypeOK
    <3>3. QED
      BY <3>1, <3>2
  <2>4. QED
    BY <1>1, <2>2, <2>3 DEF StartInstall, TypeOK
<1>2. ASSUME NEW c \in Computers, Reuse(c)
      PROVE  TypeOK'
  <2>1. [comp[c] EXCEPT !.pc = "idle"] \in CompType
    BY DEF TypeOK, CompType, Steps
  <2>2. comp' \in [Computers -> CompType]
    BY <1>2, CompUpdates, Names DEF Reuse
  <2>3. QED
    BY <1>2, <2>2 DEF Reuse, TypeOK
<1>3. ASSUME NEW c \in Computers, MintToken(c)
      PROVE  TypeOK'
  <2>1. PICK t \in Tokens :
            IF comp[c].live
            THEN /\ tok' = [tok EXCEPT ![t].by = comp[c].by]
                 /\ comp' = [comp EXCEPT ![c].pc = "run", ![c].tok = t]
            ELSE comp' = [comp EXCEPT ![c] = NoInstall] /\ UNCHANGED tok
    BY <1>3 DEF MintToken, First
  <2>2. comp' \in [Computers -> CompType]
    <3>1. CASE comp' = [comp EXCEPT ![c].pc = "run", ![c].tok = t]
      BY <3>1, CompUpdates, Names
    <3>2. CASE comp' = [comp EXCEPT ![c] = NoInstall]
      BY <3>2, CompUpdates
    <3>3. QED
      BY <2>1, <3>1, <3>2
  <2>3. tok[t] \in TokenType /\ comp[c].by \in Actors
    BY DEF TypeOK, CompType
  <2>4. [tok[t] EXCEPT !.by = comp[c].by] \in TokenType
    BY <2>3 DEF TokenType
  <2>5. tok' \in [Tokens -> TokenType]
    BY <2>1, <2>4 DEF TypeOK
  <2>6. faults' \in Nat
    BY <1>3 DEF MintToken, Fault, TypeOK
  <2>7. QED
    BY <1>3, <2>2, <2>5, <2>6 DEF MintToken, TypeOK
<1>4. ASSUME NEW c \in Computers, NEW t \in Tokens, EnrollByHand(c, t)
      PROVE  TypeOK'
  <2>1. [NoInstall EXCEPT !.pc = "run", !.tok = t] \in CompType
    BY CompUpdates, Names DEF CompType
  <2>2. comp' \in [Computers -> CompType]
    BY <1>4, <2>1, CompUpdates, Names DEF EnrollByHand
  <2>3. QED
    BY <1>4, <2>2 DEF EnrollByHand, TypeOK
<1>5. ASSUME NEW c \in Computers, Ask(c)
      PROVE  TypeOK'
  <2>1. PICK h \in Devices :
            /\ req' = [req EXCEPT ![h] = [NoRequest EXCEPT !.pc = "sent", !.tok = comp[c].tok, !.comp = c]]
            /\ comp' = [comp EXCEPT ![c].pc = "asking", ![c].tok = 0, ![c].dev = h]
    BY <1>5 DEF Ask, First
  <2>2. comp' \in [Computers -> CompType]
    BY <2>1, CompUpdates, Names
  <2>3. comp[c].tok \in Tokens
    BY <1>5 DEF Ask, CompShape, CompRow
  <2>4. [NoRequest EXCEPT !.pc = "sent", !.tok = comp[c].tok, !.comp = c] \in ReqType
    BY <2>3 DEF NoRequest, ReqType, ReqSteps, Notes
  <2>5. req' \in [Devices -> ReqType]
    BY <2>1, <2>4 DEF TypeOK
  <2>6. QED
    BY <1>5, <2>2, <2>5 DEF Ask, TypeOK
<1>6. ASSUME NEW c \in Computers, Answered(c)
      PROVE  TypeOK'
  <2>1. comp' \in [Computers -> CompType]
    <3>1. CASE comp' = [comp EXCEPT ![c].pc = "control"]
      BY <3>1, CompUpdates, Names
    <3>2. CASE comp' = [comp EXCEPT ![c] = NoInstall]
      BY <3>2, CompUpdates
    <3>3. QED
      BY <1>6, <3>1, <3>2 DEF Answered
  <2>2. QED
    BY <1>6, <2>1 DEF Answered, TypeOK
<1>7. ASSUME NEW c \in Computers, Seal(c)
      PROVE  TypeOK'
  <2>1. comp' \in [Computers -> CompType]
    <3>1. CASE comp' = [comp EXCEPT ![c].pc = "gateway"]
      BY <3>1, CompUpdates, Names
    <3>2. CASE comp' = [comp EXCEPT ![c].pc = "persist"]
      BY <3>2, CompUpdates, Names
    <3>3. QED
      BY <1>7, <3>1, <3>2 DEF Seal
  <2>2. comp[c].dev \in {0} \cup Devices
    BY DEF TypeOK, CompType
  <2>3. disk' \in [Computers -> DiskType]
    BY <1>7, <2>2, DiskUpdates, Names DEF Seal
  <2>4. QED
    BY <1>7, <2>1, <2>3 DEF Seal, TypeOK
<1>8. ASSUME NEW c \in Computers, SealFails(c)
      PROVE  TypeOK'
  <2>1. comp' \in [Computers -> CompType]
    BY <1>8, CompUpdates, Names DEF SealFails
  <2>2. disk' \in [Computers -> DiskType]
    BY <1>8, DiskUpdates, Names DEF SealFails
  <2>3. QED
    BY <1>8, <2>1, <2>2 DEF SealFails, Fault, TypeOK
<1>9. ASSUME NEW c \in Computers, Persist(c)
      PROVE  TypeOK'
  <2>1. comp' \in [Computers -> CompType]
    BY <1>9, CompUpdates, Names DEF Persist
  <2>2. comp[c].dev \in {0} \cup Devices
    BY DEF TypeOK, CompType
  <2>3. disk' \in [Computers -> DiskType]
    BY <1>9, <2>2, DiskUpdates, Names DEF Persist
  <2>4. QED
    BY <1>9, <2>1, <2>3 DEF Persist, TypeOK
<1>10. ASSUME NEW c \in Computers, PersistFails(c)
       PROVE  TypeOK'
  <2>1. comp' \in [Computers -> CompType]
    BY <1>10, CompUpdates, Names DEF PersistFails
  <2>2. /\ comp[c].dev \in {0, Torn} \cup Devices
        /\ disk[c].cfg \in {0, Torn} \cup Devices
        /\ (IF disk[c].cfg = Torn THEN 0 ELSE disk[c].cfg) \in {0, Torn} \cup Devices
        /\ Torn \in {0, Torn} \cup Devices
    BY DEF TypeOK, CompType, DiskType
  <2>3. disk' \in [Computers -> DiskType]
    BY <1>10, <2>2, DiskUpdates, Names DEF PersistFails
  <2>4. faults' \in Nat
    BY <1>10 DEF PersistFails, Fault, TypeOK
  <2>5. QED
    BY <1>10, <2>1, <2>3, <2>4 DEF PersistFails, TypeOK
<1>11. ASSUME NEW c \in Computers, Abort(c)
       PROVE  TypeOK'
  <2>1. PICK k \in 1..MaxRevokes :
            /\ rev' = [rev EXCEPT ![k] = [NoRevoke EXCEPT !.pc = "sent", !.dev = comp[c].dev, !.by = c]]
            /\ comp' = [comp EXCEPT ![c].pc = "aborting", ![c].tok = k]
    BY <1>11 DEF Abort, First
  <2>2. comp' \in [Computers -> CompType]
    BY <2>1, CompUpdates, Names
  <2>3. comp[c].dev \in {0} \cup Devices
    BY DEF TypeOK, CompType
  <2>4. [NoRevoke EXCEPT !.pc = "sent", !.dev = comp[c].dev, !.by = c] \in RevType
    BY <2>3 DEF NoRevoke, RevType, RevSteps, Notes
  <2>5. rev' \in [1..MaxRevokes -> RevType]
    BY <2>1, <2>4 DEF TypeOK
  <2>6. QED
    BY <1>11, <2>2, <2>5 DEF Abort, TypeOK
<1>12. ASSUME NEW c \in Computers, Aborted(c)
       PROVE  TypeOK'
  <2>1. comp' \in [Computers -> CompType]
    BY <1>12, CompUpdates, Names DEF Aborted
  <2>2. comp[c].dev \in Devices
    BY <1>12 DEF Aborted, CompShape, CompRow
  <2>3. strays' \in SUBSET Devices
    BY <1>12, <2>2 DEF Aborted, TypeOK
  <2>4. QED
    BY <1>12, <2>1, <2>3 DEF Aborted, TypeOK
<1>13. ASSUME NEW c \in Computers, Stop(c)
       PROVE  TypeOK'
  <2>1. comp' \in [Computers -> CompType]
    BY <1>13, CompUpdates, Names DEF Stop
  <2>2. PICK torn \in BOOLEAN :
            disk' = IF ~torn THEN disk
                    ELSE CASE comp[c].pc = "control" -> [disk EXCEPT ![c].control = 0]
                           [] comp[c].pc = "gateway" -> [disk EXCEPT ![c].gateway = 0]
                           [] comp[c].pc = "persist" -> [disk EXCEPT ![c].cfg = Torn]
                           [] OTHER -> disk
    BY <1>13 DEF Stop
  <2>3. \/ disk' = disk
        \/ disk' = [disk EXCEPT ![c].control = 0]
        \/ disk' = [disk EXCEPT ![c].gateway = 0]
        \/ disk' = [disk EXCEPT ![c].cfg = Torn]
    BY <2>2
  <2>4. disk' \in [Computers -> DiskType]
    <3>1. CASE disk' = disk
      BY <3>1 DEF TypeOK
    <3>2. CASE disk' = [disk EXCEPT ![c].control = 0]
      BY <3>2, DiskUpdates
    <3>3. CASE disk' = [disk EXCEPT ![c].gateway = 0]
      BY <3>3, DiskUpdates
    <3>4. CASE disk' = [disk EXCEPT ![c].cfg = Torn]
      BY <3>4, DiskUpdates
    <3>5. QED
      BY <2>3, <3>1, <3>2, <3>3, <3>4
  <2>5. strays' \in SUBSET Devices
    <3>1. comp[c].pc \in {"abort", "aborting"} => comp[c].dev \in Devices
      BY DEF CompShape, CompRow, Waiting
    <3>2. QED
      BY <1>13, <3>1 DEF Stop, TypeOK
  <2>6. faults' \in Nat
    BY <1>13 DEF Stop, Fault, TypeOK
  <2>7. QED
    BY <1>13, <2>1, <2>4, <2>5, <2>6 DEF Stop, TypeOK
<1>14. ASSUME NEW c \in Computers, WriteConfig(c)
       PROVE  TypeOK'
  BY <1>14, DiskUpdates, Names DEF WriteConfig, TypeOK
<1>15. ASSUME NEW a \in Codes, SetupCodeLogin(a)
       PROVE  TypeOK'
  <2>1. code[a] \in CodeType
    BY DEF TypeOK
  <2>2. [code[a] EXCEPT !.reading = @ - 1, !.uses = IF UseLeft(a) THEN @ + 1 ELSE @,
                        !.opened = IF UseLeft(a) THEN @ + 1 ELSE @] \in CodeType
    <3>0. code[a].reading > 0
      BY <1>15 DEF SetupCodeLogin
    <3>1. code[a].reading - 1 \in Nat /\ code[a].uses \in Nat /\ code[a].opened \in Nat
      BY <2>1, <3>0 DEF CodeType
    <3>2. /\ (IF UseLeft(a) THEN code[a].uses + 1 ELSE code[a].uses) \in Nat
          /\ (IF UseLeft(a) THEN code[a].opened + 1 ELSE code[a].opened) \in Nat
      BY <3>1
    <3>3. QED
      BY <2>1, <3>1, <3>2 DEF CodeType
  <2>3. code' \in [Codes -> CodeType]
    BY <1>15, <2>2 DEF SetupCodeLogin, TypeOK
  <2>4. comp' \in [Computers -> CompType]
    <3>1. \/ UNCHANGED comp
          \/ \E c \in Computers :
                comp' = [comp EXCEPT ![c] = IF UseLeft(a) THEN [@ EXCEPT !.pc = "signed", !.live = TRUE]
                                            ELSE NoInstall]
      BY <1>15 DEF SetupCodeLogin
    <3>2. \A c \in Computers : (IF UseLeft(a) THEN [comp[c] EXCEPT !.pc = "signed", !.live = TRUE]
                                 ELSE NoInstall) \in CompType
      BY DEF TypeOK, CompType, NoInstall, Steps, Actors
    <3>3. QED
      BY <3>1, <3>2 DEF TypeOK
  <2>5. QED
    BY <1>15, <2>3, <2>4 DEF SetupCodeLogin, TypeOK
<1>16. ASSUME NEW a \in Codes, RevokeCode(a)
       PROVE  TypeOK'
  <2>1. code' \in [Codes -> CodeType]
    BY <1>16 DEF RevokeCode, TypeOK, CodeType
  <2>2. QED
    BY <1>16, <2>1, RevokedSessions DEF RevokeCode, TypeOK
<1>17. ASSUME NEW h \in Devices, EnrollReads(h)
       PROVE  TypeOK'
  <2>1. req' \in [Devices -> ReqType]
    <3>1. CASE req' = [req EXCEPT ![h].pc = "read"]
      BY <3>1, ReqUpdates, Names
    <3>2. CASE req' = [req EXCEPT ![h].pc = "refused"]
      BY <3>2, ReqUpdates, Names
    <3>3. QED
      BY <1>17, <3>1, <3>2 DEF EnrollReads
  <2>2. faults' \in Nat
    BY <1>17 DEF EnrollReads, Fault, TypeOK
  <2>3. QED
    BY <1>17, <2>1, <2>2 DEF EnrollReads, TypeOK
<1>18. ASSUME NEW h \in Devices, EnrollCommits(h)
       PROVE  TypeOK'
  <2>1. CASE Unused(req[h].tok)
    <3>0. /\ req' = [req EXCEPT ![h].pc = "telling", ![h].note = "sent"]
          /\ dev' = [dev EXCEPT ![h] = [life |-> "ACTIVE", keys |-> TRUE, edit |-> "none"]]
          /\ tok' = [tok EXCEPT ![req[h].tok].used = TRUE]
      BY <1>18, <2>1 DEF EnrollCommits
    <3>1. req' \in [Devices -> ReqType]
      BY <3>0, ReqUpdates, Names
    <3>2. [life |-> "ACTIVE", keys |-> TRUE, edit |-> "none"] \in DevType
      BY DEF DevType, Lives
    <3>3. dev' \in [Devices -> DevType]
      BY <3>0, <3>2, DevUpdates
    <3>4. tok' \in [Tokens -> TokenType]
      BY <3>0 DEF TypeOK, TokenType
    <3>5. QED
      BY <1>18, <3>1, <3>3, <3>4 DEF EnrollCommits, TypeOK
  <2>2. CASE ~Unused(req[h].tok)
    <3>0. req' = [req EXCEPT ![h].pc = "refused"]
      BY <1>18, <2>2 DEF EnrollCommits
    <3>1. req' \in [Devices -> ReqType]
      BY <3>0, ReqUpdates, Names
    <3>2. QED
      BY <1>18, <2>2, <3>1 DEF EnrollCommits, TypeOK
  <2>3. QED
    BY <2>1, <2>2
<1>19. ASSUME NEW d \in Devices, AdminRevokes(d)
       PROVE  TypeOK'
  <2>1. PICK k \in 1..MaxRevokes :
            rev' = [rev EXCEPT ![k] = [NoRevoke EXCEPT !.pc = "sent", !.dev = d, !.by = "admin",
                                                       !.settled = req[d].pc = "ok"]]
    BY <1>19 DEF AdminRevokes, First
  <2>2. [NoRevoke EXCEPT !.pc = "sent", !.dev = d, !.by = "admin", !.settled = req[d].pc = "ok"] \in RevType
    BY DEF NoRevoke, RevType, RevSteps, Notes
  <2>3. rev' \in [1..MaxRevokes -> RevType]
    BY <2>1, <2>2 DEF TypeOK
  <2>4. QED
    BY <1>19, <2>3 DEF AdminRevokes, TypeOK
<1>20. ASSUME NEW k \in 1..MaxRevokes, RevokeCommits(k)
       PROVE  TypeOK'
  <2>1. rev' \in [1..MaxRevokes -> RevType]
    <3>1. CASE rev' = [rev EXCEPT ![k].pc = "telling", ![k].note = "sent"]
      BY <3>1, RevUpdates, Names
    <3>2. CASE rev' = [rev EXCEPT ![k].pc = "refused"]
      BY <3>2, RevUpdates, Names
    <3>3. QED
      BY <1>20, <3>1, <3>2 DEF RevokeCommits
  <2>2. dev' \in [Devices -> DevType]
    <3>1. rev[k].dev \in Devices \/ rev[k].dev = 0
      BY DEF TypeOK, RevType
    <3>2. CASE rev[k].dev \in Devices
      <4>1. CASE dev' = [dev EXCEPT ![rev[k].dev].life = "QUARANTINED", ![rev[k].dev].keys = FALSE]
        BY <3>2, <4>1, DevUpdates, Names
      <4>2. CASE dev' = dev
        BY <4>2 DEF TypeOK
      <4>3. QED
        BY <1>20, <4>1, <4>2 DEF RevokeCommits
    <3>3. CASE rev[k].dev = 0
      <4>1. 0 \notin Devices
        BY DEF Devices
      <4>2. dev' = dev
        BY <1>20, <3>3, <4>1 DEF RevokeCommits, TypeOK
      <4>3. QED
        BY <4>2 DEF TypeOK
    <3>4. QED
      BY <3>1, <3>2, <3>3
  <2>3. QED
    BY <1>20, <2>1, <2>2 DEF RevokeCommits, TypeOK
<1>21. ASSUME NEW d \in Devices, EditLoads(d)
       PROVE  TypeOK'
  BY <1>21, DevUpdates, Names DEF EditLoads, TypeOK
<1>22. ASSUME NEW d \in Devices, EditCommits(d)
       PROVE  TypeOK'
  <2>1. dev[d].edit \in Lives
    BY DEF TypeOK, DevType, Lives
  <2>2. dev' \in [Devices -> DevType]
    BY <1>22, <2>1, DevUpdates, Names DEF EditCommits
  <2>3. QED
    BY <1>22, <2>2 DEF EditCommits, TypeOK
<1>23. ASSUME NotifyFails
       PROVE  TypeOK'
  <2>1. NotifyResult \in {"ok", "failed"}
    BY DEF NotifyResult
  <2>2. \A h \in Devices, lost \in BOOLEAN :
           (IF lost /\ req[h].note = "sent" THEN "lost" ELSE req[h].note) \in Notes
    BY DEF TypeOK, ReqType, Notes
  <2>3. \A k \in 1..MaxRevokes, lost \in BOOLEAN :
           (IF lost /\ rev[k].note = "sent" THEN "lost" ELSE rev[k].note) \in Notes
    BY DEF TypeOK, RevType, Notes
  <2>4. req' \in [Devices -> ReqType]
    <3>1. ASSUME NEW h \in Devices, NEW lost \in BOOLEAN,
                 req' = [req EXCEPT ![h].pc = NotifyResult,
                                    ![h].note = IF lost /\ @ = "sent" THEN "lost" ELSE @]
          PROVE  req' \in [Devices -> ReqType]
      BY <2>1, <2>2, <3>1, ReqUpdates, Names
    <3>2. CASE req' = req
      BY <3>2 DEF TypeOK
    <3>3. QED
      BY <1>23, <3>1, <3>2 DEF NotifyFails
  <2>5. rev' \in [1..MaxRevokes -> RevType]
    <3>1. ASSUME NEW k \in 1..MaxRevokes, NEW lost \in BOOLEAN,
                 rev' = [rev EXCEPT ![k].pc = NotifyResult,
                                    ![k].note = IF lost /\ @ = "sent" THEN "lost" ELSE @]
          PROVE  rev' \in [1..MaxRevokes -> RevType]
      BY <2>1, <2>3, <3>1, RevUpdates, Names
    <3>2. CASE rev' = rev
      BY <3>2 DEF TypeOK
    <3>3. QED
      BY <1>23, <3>1, <3>2 DEF NotifyFails
  <2>6. QED
    BY <1>23, <2>4, <2>5 DEF NotifyFails, Fault, TypeOK
<1>24. ASSUME NotifyOk
       PROVE  TypeOK'
  <2>1. req' \in [Devices -> ReqType]
    <3>1. ASSUME NEW h \in Devices, req' = [req EXCEPT ![h].pc = "ok"]
          PROVE  req' \in [Devices -> ReqType]
      BY <3>1, ReqUpdates, Names
    <3>2. CASE req' = req
      BY <3>2 DEF TypeOK
    <3>3. QED
      BY <1>24, <3>1, <3>2 DEF NotifyOk
  <2>2. rev' \in [1..MaxRevokes -> RevType]
    <3>1. ASSUME NEW k \in 1..MaxRevokes, rev' = [rev EXCEPT ![k].pc = "ok"]
          PROVE  rev' \in [1..MaxRevokes -> RevType]
      BY <3>1, RevUpdates, Names
    <3>2. CASE rev' = rev
      BY <3>2 DEF TypeOK
    <3>3. QED
      BY <1>24, <3>1, <3>2 DEF NotifyOk
  <2>3. QED
    BY <1>24, <2>1, <2>2 DEF NotifyOk, TypeOK
<1>25. ASSUME PutRecord
       PROVE  TypeOK'
  <2>1. req' \in [Devices -> ReqType]
    <3>1. ASSUME NEW h \in Devices, req' = [req EXCEPT ![h].note = "done"]
          PROVE  req' \in [Devices -> ReqType]
      BY <3>1, ReqUpdates, Names
    <3>2. CASE req' = req
      BY <3>2 DEF TypeOK
    <3>3. QED
      BY <1>25, <3>1, <3>2 DEF PutRecord
  <2>2. rev' \in [1..MaxRevokes -> RevType]
    <3>1. ASSUME NEW k \in 1..MaxRevokes, rev' = [rev EXCEPT ![k].note = "done"]
          PROVE  rev' \in [1..MaxRevokes -> RevType]
      BY <3>1, RevUpdates, Names
    <3>2. CASE rev' = rev
      BY <3>2 DEF TypeOK
    <3>3. QED
      BY <1>25, <3>1, <3>2 DEF PutRecord
  <2>3. gate' \in [Devices -> {"none", "open", "revoked"}]
    BY <1>25 DEF PutRecord, TypeOK
  <2>4. QED
    BY <1>25, <2>1, <2>2, <2>3 DEF PutRecord, TypeOK
<1>26. QED
  BY <1>1, <1>2, <1>3, <1>4, <1>5, <1>6, <1>7, <1>8, <1>9, <1>10, <1>11, <1>12, <1>13, <1>14,
     <1>15, <1>16, <1>17, <1>18, <1>19, <1>20, <1>21, <1>22, <1>23, <1>24, <1>25 DEF Next

-----------------------------------------------------------------------------
(* The shapes: what each action does to the rows it touches.                *)

LEMMA CodeShapeKept ==
    ASSUME EnrollmentAssumption, TypeOK, CodeShape, Next
    PROVE  CodeShape'
<1> USE EnrollmentAssumption
<1>1. ASSUME NEW c \in Computers, NEW a \in Actors, StartInstall(c, a)
      PROVE  CodeShape'
  <2>1. CASE a = "admin"
    BY <1>1, <2>1 DEF StartInstall, CodeShape
  <2>2. CASE a # "admin"
    <3>1. a \in Codes /\ code' = [code EXCEPT ![a].reading = @ + 1]
      BY <1>1, <2>2 DEF StartInstall, Actors
    <3>2. \A b \in Codes : code'[b].uses = code[b].uses /\ code'[b].opened = code[b].opened
      BY <3>1 DEF TypeOK, CodeType
    <3>3. QED
      BY <3>2 DEF CodeShape
  <2>3. QED
    BY <2>1, <2>2
<1>2. ASSUME NEW a \in Codes, SetupCodeLogin(a)
      PROVE  CodeShape'
  <2>1. code' = [code EXCEPT ![a].reading = @ - 1, ![a].uses = IF UseLeft(a) THEN @ + 1 ELSE @,
                             ![a].opened = IF UseLeft(a) THEN @ + 1 ELSE @]
    BY <1>2 DEF SetupCodeLogin
  <2>2. /\ code'[a].uses = IF UseLeft(a) THEN code[a].uses + 1 ELSE code[a].uses
        /\ code'[a].opened = IF UseLeft(a) THEN code[a].opened + 1 ELSE code[a].opened
        /\ \A b \in Codes \ {a} : code'[b] = code[b]
    BY <2>1 DEF TypeOK, CodeType
  <2>3. code[a].uses \in Nat /\ code[a].opened = code[a].uses /\ code[a].uses <= MaxUses /\ MaxUses \in Nat
    BY DEF TypeOK, CodeType, CodeShape, EnrollmentAssumption
  <2>4. code'[a].opened = code'[a].uses /\ code'[a].uses <= MaxUses
    BY <2>2, <2>3 DEF UseLeft
  <2>5. QED
    BY <2>2, <2>4 DEF CodeShape
<1>3. ASSUME NEW a \in Codes, RevokeCode(a)
      PROVE  CodeShape'
  <2>1. \A b \in Codes : code'[b].uses = code[b].uses /\ code'[b].opened = code[b].opened
    BY <1>3 DEF RevokeCode, TypeOK, CodeType
  <2>2. QED
    BY <2>1 DEF CodeShape
<1>4. CASE UNCHANGED code
  BY <1>4 DEF CodeShape
<1>5. QED
  BY <1>1, <1>2, <1>3, <1>4
     DEF Next, Reuse, MintToken, EnrollByHand, Ask, Answered, Seal, SealFails, Persist,
     PersistFails, Abort, Aborted, Stop, WriteConfig, EnrollReads, EnrollCommits, AdminRevokes, RevokeCommits,
     EditLoads, EditCommits, NotifyFails, NotifyOk, PutRecord

\* What a step may do to a request: it is sent once, with a token, and moves on.
LEMMA ReqMoves ==
    ASSUME EnrollmentAssumption, TypeOK, CompShape, Next, NEW h \in Devices
    PROVE  \/ req'[h] = req[h]
           \/ /\ req[h].pc = "none" /\ req'[h].pc = "sent" /\ req'[h].tok \in Tokens
              /\ req'[h].note = "none" /\ UNCHANGED <<tok, dev, rev, gate>>
           \/ /\ req[h].pc = "sent" /\ req'[h].pc \in {"read", "refused"} /\ req'[h].tok = req[h].tok
              /\ req'[h].note = req[h].note /\ UNCHANGED <<tok, dev, rev, gate>>
           \/ EnrollCommits(h)
           \/ /\ req[h].pc = "telling" /\ req'[h].pc \in {"ok", "failed"} /\ req'[h].tok = req[h].tok
              /\ req'[h].pc = "ok" => LabMode \/ req[h].note = "done"
              /\ req'[h].note = req[h].note \/ (req[h].note = "sent" /\ req'[h].note = "lost")
              /\ UNCHANGED <<tok, dev, rev, gate>>
           \/ /\ req[h].note = "sent" /\ req'[h].note = "done" /\ req'[h].pc = req[h].pc
              /\ req'[h].tok = req[h].tok
              /\ gate' = [gate EXCEPT ![h] = "open"] /\ UNCHANGED <<tok, dev, rev>>
<1> USE EnrollmentAssumption
<1>1. ASSUME NEW c \in Computers, Ask(c)
      PROVE  \/ req'[h] = req[h]
             \/ /\ req[h].pc = "none" /\ req'[h].pc = "sent" /\ req'[h].tok \in Tokens
                /\ req'[h].note = "none" /\ UNCHANGED <<tok, dev, rev, gate>>
  <2>1. PICK i \in Devices :
            /\ req[i].pc = "none"
            /\ req' = [req EXCEPT ![i] = [NoRequest EXCEPT !.pc = "sent", !.tok = comp[c].tok, !.comp = c]]
    BY <1>1 DEF Ask, First
  <2>2. comp[c].tok \in Tokens
    BY <1>1 DEF Ask, CompShape, CompRow
  <2>3. QED
    BY <1>1, <2>1, <2>2 DEF Ask, TypeOK, NoRequest
<1>2. ASSUME NEW i \in Devices, EnrollReads(i)
      PROVE  \/ req'[h] = req[h]
             \/ /\ req[h].pc = "sent" /\ req'[h].pc \in {"read", "refused"} /\ req'[h].tok = req[h].tok
                /\ req'[h].note = req[h].note /\ UNCHANGED <<tok, dev, rev, gate>>
  <2>1. PICK s \in {"read", "refused"} : req' = [req EXCEPT ![i].pc = s]
    BY <1>2 DEF EnrollReads
  <2>2. QED
    BY <1>2, <2>1 DEF EnrollReads, TypeOK, ReqType
<1>3. ASSUME NEW i \in Devices, EnrollCommits(i)
      PROVE  req'[h] = req[h] \/ EnrollCommits(h)
  BY <1>3 DEF EnrollCommits, TypeOK
<1>4. ASSUME NotifyFails
      PROVE  \/ req'[h] = req[h]
             \/ /\ req[h].pc = "telling" /\ req'[h].pc \in {"ok", "failed"} /\ req'[h].tok = req[h].tok
                /\ req'[h].pc = "ok" => LabMode \/ req[h].note = "done"
                /\ req'[h].note = req[h].note \/ (req[h].note = "sent" /\ req'[h].note = "lost")
                /\ UNCHANGED <<tok, dev, rev, gate>>
  <2>1. CASE UNCHANGED req
    BY <2>1
  <2>2. ASSUME NEW i \in Devices, NEW lost \in BOOLEAN, req[i].pc = "telling", UNCHANGED rev,
               req' = [req EXCEPT ![i].pc = NotifyResult, ![i].note = IF lost /\ @ = "sent" THEN "lost" ELSE @]
        PROVE  \/ req'[h] = req[h]
               \/ /\ req[h].pc = "telling" /\ req'[h].pc \in {"ok", "failed"} /\ req'[h].tok = req[h].tok
                  /\ req'[h].pc = "ok" => LabMode \/ req[h].note = "done"
                  /\ req'[h].note = req[h].note \/ (req[h].note = "sent" /\ req'[h].note = "lost")
                  /\ UNCHANGED <<tok, dev, rev, gate>>
    <3>1. NotifyResult \in {"ok", "failed"} /\ (NotifyResult = "ok" => LabMode)
      BY DEF NotifyResult
    <3>2. CASE i = h
      <4>1. /\ req'[h].pc = NotifyResult /\ req'[h].tok = req[h].tok
            /\ req'[h].note = IF lost /\ req[h].note = "sent" THEN "lost" ELSE req[h].note
        BY <2>2, <3>2 DEF TypeOK, ReqType
      <4>2. UNCHANGED <<tok, dev, rev, gate>>
        BY <1>4, <2>2 DEF NotifyFails
      <4>3. QED
        BY <2>2, <3>1, <3>2, <4>1, <4>2
    <3>3. CASE i # h
      BY <2>2, <3>3 DEF TypeOK
    <3>4. QED
      BY <3>2, <3>3
  <2>3. QED
    BY <1>4, <2>1, <2>2 DEF NotifyFails
<1>5. ASSUME NotifyOk
      PROVE  \/ req'[h] = req[h]
             \/ /\ req[h].pc = "telling" /\ req'[h].pc = "ok" /\ req'[h].tok = req[h].tok
                /\ req[h].note = "done" /\ req'[h].note = req[h].note /\ UNCHANGED <<tok, dev, rev, gate>>
  <2>1. CASE UNCHANGED req
    BY <2>1
  <2>2. ASSUME NEW i \in Devices, req[i].pc = "telling", req[i].note = "done", UNCHANGED rev,
               req' = [req EXCEPT ![i].pc = "ok"]
        PROVE  \/ req'[h] = req[h]
               \/ /\ req[h].pc = "telling" /\ req'[h].pc = "ok" /\ req'[h].tok = req[h].tok
                  /\ req[h].note = "done" /\ req'[h].note = req[h].note /\ UNCHANGED <<tok, dev, rev, gate>>
    BY <1>5, <2>2 DEF NotifyOk, TypeOK, ReqType
  <2>3. QED
    BY <1>5, <2>1, <2>2 DEF NotifyOk
<1>6. ASSUME PutRecord
      PROVE  \/ req'[h] = req[h]
             \/ /\ req[h].note = "sent" /\ req'[h].note = "done" /\ req'[h].pc = req[h].pc
                /\ req'[h].tok = req[h].tok
                /\ gate' = [gate EXCEPT ![h] = "open"] /\ UNCHANGED <<tok, dev, rev>>
  <2>1. CASE UNCHANGED req
    BY <2>1
  <2>2. ASSUME NEW i \in Devices, req[i].note = "sent", UNCHANGED rev,
               req' = [req EXCEPT ![i].note = "done"], gate' = [gate EXCEPT ![i] = "open"]
        PROVE  \/ req'[h] = req[h]
               \/ /\ req[h].note = "sent" /\ req'[h].note = "done" /\ req'[h].pc = req[h].pc
                  /\ req'[h].tok = req[h].tok
                  /\ gate' = [gate EXCEPT ![h] = "open"] /\ UNCHANGED <<tok, dev, rev>>
    <3>1. UNCHANGED <<tok, dev>>
      BY <1>6 DEF PutRecord
    <3>2. req' = [req EXCEPT ![i] = [req[i] EXCEPT !.note = "done"]] /\ req[i] \in ReqType
      BY <2>2 DEF TypeOK
    <3>3. CASE i = h
      BY <2>2, <3>1, <3>2, <3>3 DEF TypeOK, ReqType
    <3>4. CASE i # h
      BY <3>2, <3>4 DEF TypeOK
    <3>5. QED
      BY <3>3, <3>4
  <2>3. QED
    BY <1>6, <2>1, <2>2 DEF PutRecord
<1>7. CASE UNCHANGED req
  BY <1>7
<1>8. QED
  <2>1. \/ UNCHANGED req
        \/ \E c \in Computers : Ask(c)
        \/ \E i \in Devices : EnrollReads(i) \/ EnrollCommits(i)
        \/ NotifyFails \/ NotifyOk \/ PutRecord
    BY DEF Next, StartInstall, SetupCodeLogin, RevokeCode, Reuse, MintToken, EnrollByHand, Answered,
           Seal, SealFails,
       Persist, PersistFails, Abort, Aborted, Stop, WriteConfig, AdminRevokes, RevokeCommits, EditLoads, EditCommits
  <2>2. QED
    BY <1>1, <1>2, <1>3, <1>4, <1>5, <1>6, <2>1

\* What a step may do to a device.
LEMMA DevMoves ==
    ASSUME EnrollmentAssumption, TypeOK, Next, NEW d \in Devices
    PROVE  \/ dev'[d] = dev[d]
           \/ EnrollCommits(d)
           \/ /\ dev'[d].life = "QUARANTINED" /\ ~dev'[d].keys /\ dev'[d].edit = dev[d].edit
              /\ \E k \in 1..MaxRevokes : RevokeCommits(k) /\ MayRevoke(k) /\ rev[k].dev = d
           \/ /\ dev[d].life \in {"ACTIVE", "ARCHIVED"} /\ dev'[d].life = dev[d].life
              /\ dev'[d].keys = dev[d].keys
           \/ /\ dev[d].edit # "none" /\ dev'[d].life = dev[d].edit /\ dev'[d].edit = "none"
              /\ dev'[d].keys = dev[d].keys /\ (dev[d].keys \/ d \in strays')
<1> USE EnrollmentAssumption
<1>1. ASSUME NEW i \in Devices, EnrollCommits(i)
      PROVE  dev'[d] = dev[d] \/ EnrollCommits(d)
  BY <1>1 DEF EnrollCommits, TypeOK
<1>2. ASSUME NEW k \in 1..MaxRevokes, RevokeCommits(k)
      PROVE  \/ dev'[d] = dev[d]
             \/ /\ dev'[d].life = "QUARANTINED" /\ ~dev'[d].keys /\ dev'[d].edit = dev[d].edit
                /\ MayRevoke(k) /\ rev[k].dev = d
  <2>1. CASE ~MayRevoke(k)
    BY <1>2, <2>1 DEF RevokeCommits
  <2>2. CASE MayRevoke(k)
    <3>1. dev' = [dev EXCEPT ![rev[k].dev].life = "QUARANTINED", ![rev[k].dev].keys = FALSE]
      BY <1>2, <2>2 DEF RevokeCommits
    <3>2. QED
      BY <2>2, <3>1 DEF TypeOK, DevType
  <2>3. QED
    BY <2>1, <2>2
<1>3. ASSUME NEW i \in Devices, EditLoads(i)
      PROVE  \/ dev'[d] = dev[d]
             \/ /\ dev[d].life \in {"ACTIVE", "ARCHIVED"} /\ dev'[d].life = dev[d].life
                /\ dev'[d].keys = dev[d].keys
  BY <1>3 DEF EditLoads, TypeOK, DevType
<1>4. ASSUME NEW i \in Devices, EditCommits(i)
      PROVE  \/ dev'[d] = dev[d]
             \/ /\ dev[d].edit # "none" /\ dev'[d].life = dev[d].edit /\ dev'[d].edit = "none"
                /\ dev'[d].keys = dev[d].keys /\ (dev[d].keys \/ d \in strays')
  BY <1>4 DEF EditCommits, TypeOK, DevType
<1>5. CASE UNCHANGED dev
  BY <1>5
<1>6. QED
  <2>1. \/ UNCHANGED dev
        \/ \E i \in Devices : EnrollCommits(i) \/ EditLoads(i) \/ EditCommits(i)
        \/ \E k \in 1..MaxRevokes : RevokeCommits(k)
    BY DEF Next, StartInstall, SetupCodeLogin, RevokeCode, Reuse, MintToken, EnrollByHand, Ask,
           Answered, Seal,
       SealFails, Persist, PersistFails, Abort, Aborted, Stop, WriteConfig, EnrollReads, AdminRevokes, NotifyFails,
       NotifyOk, PutRecord
  <2>2. QED
    BY <1>1, <1>2, <1>3, <1>4, <1>5, <2>1

\* What a step may do to a revocation.
LEMMA RevMoves ==
    ASSUME EnrollmentAssumption, TypeOK, Next, NEW k \in 1..MaxRevokes
    PROVE  \/ rev'[k] = rev[k]
           \/ /\ rev[k].pc = "none" /\ rev'[k].pc = "sent" /\ rev'[k].note = "none"
              /\ \/ \E c \in Computers : /\ comp[c].pc = "abort" /\ rev'[k].dev = comp[c].dev
                                         /\ rev'[k].by = c
                 \/ /\ rev'[k].dev \in Devices /\ dev[rev'[k].dev].life # "none" /\ rev'[k].by = "admin"
                    /\ rev'[k].settled => req[rev'[k].dev].pc = "ok"
              /\ UNCHANGED <<req, dev, gate>>
           \/ /\ RevokeCommits(k) /\ ~MayRevoke(k) /\ rev'[k] = [rev[k] EXCEPT !.pc = "refused"]
           \/ /\ RevokeCommits(k) /\ MayRevoke(k)
              /\ rev'[k] = [rev[k] EXCEPT !.pc = "telling", !.note = "sent"]
           \/ /\ rev[k].pc = "telling" /\ rev'[k].pc \in {"ok", "failed"}
              /\ rev'[k].pc = "ok" => LabMode \/ rev[k].note = "done"
              /\ rev'[k].note = rev[k].note \/ (rev[k].note = "sent" /\ rev'[k].note = "lost")
              /\ rev'[k].dev = rev[k].dev /\ rev'[k].by = rev[k].by /\ rev'[k].settled = rev[k].settled
              /\ UNCHANGED <<req, dev, gate>>
           \/ /\ rev[k].note = "sent" /\ rev'[k] = [rev[k] EXCEPT !.note = "done"]
              /\ gate' = [gate EXCEPT ![rev[k].dev] = "revoked"] /\ UNCHANGED <<req, dev>>
<1> USE EnrollmentAssumption
<1> DEFINE Sent == /\ rev[k].pc = "none" /\ rev'[k].pc = "sent" /\ rev'[k].note = "none"
                   /\ \/ \E c \in Computers : /\ comp[c].pc = "abort" /\ rev'[k].dev = comp[c].dev
                                              /\ rev'[k].by = c
                      \/ /\ rev'[k].dev \in Devices /\ dev[rev'[k].dev].life # "none" /\ rev'[k].by = "admin"
                         /\ rev'[k].settled => req[rev'[k].dev].pc = "ok"
                   /\ UNCHANGED <<req, dev, gate>>
           Told == /\ rev[k].pc = "telling" /\ rev'[k].pc \in {"ok", "failed"}
                   /\ rev'[k].pc = "ok" => LabMode \/ rev[k].note = "done"
                   /\ rev'[k].note = rev[k].note \/ (rev[k].note = "sent" /\ rev'[k].note = "lost")
                   /\ rev'[k].dev = rev[k].dev /\ rev'[k].by = rev[k].by /\ rev'[k].settled = rev[k].settled
                   /\ UNCHANGED <<req, dev, gate>>
<1>1. ASSUME NEW c \in Computers, Abort(c)
      PROVE  rev'[k] = rev[k] \/ Sent
  <2>1. PICK j \in 1..MaxRevokes :
            /\ rev[j].pc = "none"
            /\ rev' = [rev EXCEPT ![j] = [NoRevoke EXCEPT !.pc = "sent", !.dev = comp[c].dev, !.by = c]]
    BY <1>1 DEF Abort, First
  <2>2. comp[c].pc = "abort" /\ UNCHANGED <<req, dev, gate>>
    BY <1>1 DEF Abort
  <2>3. CASE j = k
    <3>1. rev'[k] = [NoRevoke EXCEPT !.pc = "sent", !.dev = comp[c].dev, !.by = c]
      BY <2>1, <2>3 DEF TypeOK
    <3>2. QED
      BY <2>1, <2>2, <2>3, <3>1 DEF NoRevoke
  <2>4. CASE j # k
    BY <2>1, <2>4 DEF TypeOK
  <2>5. QED
    BY <2>3, <2>4
<1>2. ASSUME NEW d \in Devices, AdminRevokes(d)
      PROVE  rev'[k] = rev[k] \/ Sent
  <2>1. PICK j \in 1..MaxRevokes :
            /\ rev[j].pc = "none"
            /\ rev' = [rev EXCEPT ![j] = [NoRevoke EXCEPT !.pc = "sent", !.dev = d, !.by = "admin",
                                                          !.settled = req[d].pc = "ok"]]
    BY <1>2 DEF AdminRevokes, First
  <2>2. dev[d].life # "none" /\ UNCHANGED <<req, dev, gate>>
    BY <1>2 DEF AdminRevokes
  <2>3. CASE j = k
    <3>1. rev'[k] = [NoRevoke EXCEPT !.pc = "sent", !.dev = d, !.by = "admin", !.settled = req[d].pc = "ok"]
      BY <2>1, <2>3 DEF TypeOK
    <3>2. /\ rev'[k].pc = "sent" /\ rev'[k].dev = d /\ rev'[k].by = "admin" /\ rev'[k].note = "none"
          /\ rev'[k].settled => req[d].pc = "ok"
      BY <3>1, Zenon DEF NoRevoke
    <3>3. QED
      BY <2>1, <2>2, <2>3, <3>2
  <2>4. CASE j # k
    BY <2>1, <2>4 DEF TypeOK
  <2>5. QED
    BY <2>3, <2>4
<1>3. ASSUME NEW j \in 1..MaxRevokes, RevokeCommits(j)
      PROVE  \/ rev'[k] = rev[k]
             \/ RevokeCommits(k) /\ ~MayRevoke(k) /\ rev'[k] = [rev[k] EXCEPT !.pc = "refused"]
             \/ RevokeCommits(k) /\ MayRevoke(k) /\ rev'[k] = [rev[k] EXCEPT !.pc = "telling", !.note = "sent"]
  BY <1>3 DEF RevokeCommits, TypeOK
<1>4. ASSUME NotifyFails
      PROVE  rev'[k] = rev[k] \/ Told
  <2>1. ASSUME NEW j \in 1..MaxRevokes, NEW lost \in BOOLEAN, rev[j].pc = "telling", UNCHANGED req,
               rev' = [rev EXCEPT ![j].pc = NotifyResult, ![j].note = IF lost /\ @ = "sent" THEN "lost" ELSE @]
        PROVE  rev'[k] = rev[k] \/ Told
    <3>1. NotifyResult \in {"ok", "failed"} /\ (NotifyResult = "ok" => LabMode)
      BY DEF NotifyResult
    <3>2. UNCHANGED <<req, dev, gate>>
      BY <1>4, <2>1 DEF NotifyFails
    <3>3. CASE j = k
      <4>1. /\ rev'[k].pc = NotifyResult /\ rev'[k].dev = rev[k].dev /\ rev'[k].by = rev[k].by
            /\ rev'[k].settled = rev[k].settled
            /\ rev'[k].note = IF lost /\ rev[k].note = "sent" THEN "lost" ELSE rev[k].note
        BY <2>1, <3>3 DEF TypeOK, RevType
      <4>2. QED
        BY <2>1, <3>1, <3>2, <3>3, <4>1
    <3>4. CASE j # k
      BY <2>1, <3>4 DEF TypeOK
    <3>5. QED
      BY <3>3, <3>4
  <2>2. QED
    BY <1>4, <2>1 DEF NotifyFails
<1>5. ASSUME NotifyOk
      PROVE  rev'[k] = rev[k] \/ Told
  <2>1. ASSUME NEW j \in 1..MaxRevokes, rev[j].pc = "telling", rev[j].note = "done", UNCHANGED req,
               rev' = [rev EXCEPT ![j].pc = "ok"]
        PROVE  rev'[k] = rev[k] \/ Told
    <3>1. UNCHANGED <<req, dev, gate>>
      BY <1>5, <2>1 DEF NotifyOk
    <3>2. CASE j = k
      <4>1. /\ rev'[k].pc = "ok" /\ rev'[k].dev = rev[k].dev /\ rev'[k].by = rev[k].by
            /\ rev'[k].settled = rev[k].settled /\ rev'[k].note = rev[k].note
        BY <2>1, <3>2 DEF TypeOK, RevType
      <4>2. QED
        BY <2>1, <3>1, <3>2, <4>1
    <3>3. CASE j # k
      BY <2>1, <3>3 DEF TypeOK
    <3>4. QED
      BY <3>2, <3>3
  <2>2. QED
    BY <1>5, <2>1 DEF NotifyOk
<1>6. ASSUME PutRecord
      PROVE  \/ rev'[k] = rev[k]
             \/ /\ rev[k].note = "sent" /\ rev'[k] = [rev[k] EXCEPT !.note = "done"]
                /\ gate' = [gate EXCEPT ![rev[k].dev] = "revoked"] /\ UNCHANGED <<req, dev>>
  BY <1>6 DEF PutRecord, TypeOK
<1>7. CASE UNCHANGED rev
  BY <1>7
<1>8. QED
  <2>1. \/ UNCHANGED rev
        \/ \E c \in Computers : Abort(c)
        \/ \E d \in Devices : AdminRevokes(d)
        \/ \E j \in 1..MaxRevokes : RevokeCommits(j)
        \/ NotifyFails \/ NotifyOk \/ PutRecord
    BY DEF Next, StartInstall, SetupCodeLogin, RevokeCode, Reuse, MintToken, EnrollByHand, Ask,
           Answered, Seal,
       SealFails, Persist, PersistFails, Aborted, Stop, WriteConfig, EnrollReads, EnrollCommits, EditLoads,
       EditCommits
  <2>2. QED
    BY <1>1, <1>2, <1>3, <1>4, <1>5, <1>6, <1>7, <2>1

\* The gateway writes what the call says.
LEMMA GateMoves ==
    ASSUME EnrollmentAssumption, TypeOK, Next, NEW d \in Devices
    PROVE  \/ gate'[d] = gate[d]
           \/ gate'[d] = "open" /\ req[d].note = "sent"
           \/ gate'[d] = "revoked"
<1>1. CASE UNCHANGED gate
  BY <1>1
<1>2. CASE PutRecord
  BY <1>2 DEF PutRecord, TypeOK
<1>3. QED
  BY <1>1, <1>2 DEF Next, StartInstall, SetupCodeLogin, RevokeCode, Reuse, MintToken, EnrollByHand,
                    Ask, Answered,
     Seal, SealFails, Persist, PersistFails, Abort, Aborted, Stop, WriteConfig, EnrollReads, EnrollCommits,
     AdminRevokes, RevokeCommits, EditLoads, EditCommits, NotifyFails, NotifyOk

\* A token that was used stays so.
LEMMA TokenStaysUsed ==
    ASSUME EnrollmentAssumption, TypeOK, Next, NEW t \in Tokens, tok[t].used
    PROVE  tok'[t].used
<1>1. CASE UNCHANGED tok
  BY <1>1
<1>2. ASSUME NEW c \in Computers, MintToken(c)
      PROVE  tok'[t].used
  <2>1. UNCHANGED tok \/ \E i \in Tokens : tok' = [tok EXCEPT ![i].by = comp[c].by]
    BY <1>2 DEF MintToken, First
  <2>2. QED
    BY <2>1 DEF TypeOK, TokenType
<1>3. ASSUME NEW h \in Devices, EnrollCommits(h)
      PROVE  tok'[t].used
  BY <1>3 DEF EnrollCommits, TypeOK, TokenType
<1>4. QED
  BY <1>1, <1>2, <1>3
     DEF Next, StartInstall, SetupCodeLogin, RevokeCode, Reuse, EnrollByHand, Ask, Answered, Seal,
     SealFails, Persist, PersistFails, Abort, Aborted, Stop, WriteConfig, EnrollReads, AdminRevokes, RevokeCommits,
     EditLoads, EditCommits, NotifyFails, NotifyOk, PutRecord

LEMMA ReqShapeKept ==
    ASSUME EnrollmentAssumption, TypeOK, ReqShape, DevShape, CompShape, RevShape, Next
    PROVE  ReqShape'
<1> USE EnrollmentAssumption
<1> SUFFICES ASSUME NEW h \in Devices
             PROVE  /\ req'[h].pc # "none" => req'[h].tok \in Tokens
                    /\ dev'[h].life = "none" <=> req'[h].pc \in {"none", "sent", "read", "refused"}
                    /\ dev'[h].life # "none" => tok'[req'[h].tok].used
                    /\ req'[h].pc = "ok" => LabMode \/ req'[h].note = "done"
                    /\ req'[h].note = "done" => gate'[h] # "none"
  BY DEF ReqShape
<1>1. /\ req[h].pc # "none" => req[h].tok \in Tokens
      /\ dev[h].life = "none" <=> req[h].pc \in {"none", "sent", "read", "refused"}
      /\ dev[h].life # "none" => tok[req[h].tok].used
      /\ req[h].pc = "ok" => LabMode \/ req[h].note = "done"
      /\ req[h].note = "done" => gate[h] # "none"
      /\ req[h].note \in Notes /\ gate[h] \in {"none", "open", "revoked"}
  BY DEF ReqShape, TypeOK, ReqType
\* Whether the device exists is only changed by its own enrollment.
<1>2. (dev'[h].life = "none" <=> dev[h].life = "none") \/ EnrollCommits(h)
  <2>1. ASSUME NEW k \in 1..MaxRevokes, RevokeCommits(k), MayRevoke(k), rev[k].dev = h
        PROVE  dev[h].life # "none"
    BY <2>1 DEF RevShape, RevokeCommits
  <2>2. dev[h].edit # "none" => dev[h].life # "none"
    BY DEF DevShape
  <2>3. dev[h].edit \in {"none", "ACTIVE", "ARCHIVED"}
    BY DEF TypeOK, DevType
  <2>4. QED
    BY <2>1, <2>2, <2>3, DevMoves
<1>3. CASE EnrollCommits(h)
  <2>1. CASE Unused(req[h].tok)
    <3>1. /\ req' = [req EXCEPT ![h].pc = "telling", ![h].note = "sent"]
          /\ dev' = [dev EXCEPT ![h] = [life |-> "ACTIVE", keys |-> TRUE, edit |-> "none"]]
          /\ tok' = [tok EXCEPT ![req[h].tok].used = TRUE]
          /\ req[h].pc = "read"
      BY <1>3, <2>1 DEF EnrollCommits
    <3>2. req'[h].pc = "telling" /\ req'[h].note = "sent" /\ req'[h].tok = req[h].tok
      BY <3>1 DEF TypeOK, ReqType
    <3>3. dev'[h].life = "ACTIVE"
      BY <3>1 DEF TypeOK
    <3>4. tok'[req[h].tok].used
      BY <1>1, <3>1 DEF TypeOK, TokenType
    <3>5. QED
      BY <1>1, <3>1, <3>2, <3>3, <3>4
  <2>2. CASE ~Unused(req[h].tok)
    <3>1. req' = [req EXCEPT ![h].pc = "refused"] /\ req[h].pc = "read" /\ UNCHANGED <<dev, tok, gate>>
      BY <1>3, <2>2 DEF EnrollCommits
    <3>2. req'[h].pc = "refused" /\ req'[h].note = req[h].note /\ req'[h].tok = req[h].tok
      BY <3>1 DEF TypeOK, ReqType
    <3>3. QED
      BY <1>1, <3>1, <3>2
  <2>3. QED
    BY <2>1, <2>2
<1>4. CASE ~EnrollCommits(h)
  <2>1. gate[h] # "none" => gate'[h] # "none"
    BY GateMoves
  <2>2. \A t \in Tokens : tok[t].used => tok'[t].used
    BY TokenStaysUsed
  <2>3. CASE req'[h] = req[h]
    <3>1. dev[h].life # "none" => req[h].tok \in Tokens
      BY <1>1
    <3>2. QED
      BY <1>1, <1>2, <1>4, <2>1, <2>2, <2>3, <3>1
  <2>4. CASE /\ req[h].pc = "none" /\ req'[h].pc = "sent" /\ req'[h].tok \in Tokens
             /\ req'[h].note = "none" /\ UNCHANGED <<tok, dev, rev, gate>>
    BY <1>1, <2>4
  <2>5. CASE /\ req[h].pc = "sent" /\ req'[h].pc \in {"read", "refused"} /\ req'[h].tok = req[h].tok
             /\ req'[h].note = req[h].note /\ UNCHANGED <<tok, dev, rev, gate>>
    BY <1>1, <2>5
  <2>6. CASE /\ req[h].pc = "telling" /\ req'[h].pc \in {"ok", "failed"} /\ req'[h].tok = req[h].tok
             /\ req'[h].pc = "ok" => LabMode \/ req[h].note = "done"
             /\ req'[h].note = req[h].note \/ (req[h].note = "sent" /\ req'[h].note = "lost")
             /\ UNCHANGED <<tok, dev, rev, gate>>
    BY <1>1, <2>6
  <2>7. CASE /\ req[h].note = "sent" /\ req'[h].note = "done" /\ req'[h].pc = req[h].pc
             /\ req'[h].tok = req[h].tok
             /\ gate' = [gate EXCEPT ![h] = "open"] /\ UNCHANGED <<tok, dev, rev>>
    <3>1. gate'[h] = "open"
      BY <2>7 DEF TypeOK
    <3>2. QED
      BY <1>1, <2>7, <3>1
  <2>8. QED
    BY <1>4, <2>3, <2>4, <2>5, <2>6, <2>7, ReqMoves
<1>5. QED
  BY <1>3, <1>4

LEMMA DevShapeKept ==
    ASSUME EnrollmentAssumption, TypeOK, ReqShape, DevShape, RevShape, Next
    PROVE  DevShape'
<1> USE EnrollmentAssumption
<1> SUFFICES ASSUME NEW d \in Devices
             PROVE  /\ dev'[d].life = "none" => dev'[d].edit = "none"
                    /\ dev'[d].life \in {"ACTIVE", "ARCHIVED"} => dev'[d].keys \/ d \in strays'
  BY DEF DevShape
<1>1. /\ dev[d].life = "none" => dev[d].edit = "none"
      /\ dev[d].life \in {"ACTIVE", "ARCHIVED"} => dev[d].keys \/ d \in strays
      /\ dev[d].edit \in {"none", "ACTIVE", "ARCHIVED"}
  BY DEF DevShape, TypeOK, DevType
<1>2. strays \subseteq strays'
  BY DEF Next, StartInstall, SetupCodeLogin, RevokeCode, Reuse, MintToken, EnrollByHand, Ask, Answered,
         Seal,
     SealFails, Persist, PersistFails, Abort, Aborted, Stop, WriteConfig, EnrollReads, EnrollCommits, AdminRevokes,
     RevokeCommits, EditLoads, EditCommits, NotifyFails, NotifyOk, PutRecord
<1>3. CASE EnrollCommits(d)
  <2>1. dev' = dev \/ dev'[d] = [life |-> "ACTIVE", keys |-> TRUE, edit |-> "none"]
    BY <1>3 DEF EnrollCommits, TypeOK
  <2>2. QED
    BY <1>1, <1>2, <2>1
<1>4. CASE ~EnrollCommits(d)
  BY <1>1, <1>2, <1>4, DevMoves
<1>5. QED
  BY <1>3, <1>4

LEMMA SingleUseKept ==
    ASSUME EnrollmentAssumption, TypeOK, ReqShape, DevShape, CompShape, RevShape, CodeShape', ReqShape', SingleUse, Next
    PROVE  SingleUse'
<1> USE EnrollmentAssumption
<1>1. \A a \in Codes : code'[a].opened <= MaxUses
  BY DEF CodeShape
\* The devices that exist are those of before and, at most, the one of an
\* enrollment that commits with a token that was unused.
<1>2. ASSUME NEW d \in Devices, dev'[d].life # "none", ~EnrollCommits(d)
      PROVE  dev[d].life # "none" /\ req'[d].tok = req[d].tok
  <2>1. ASSUME NEW k \in 1..MaxRevokes, RevokeCommits(k), MayRevoke(k), rev[k].dev = d
        PROVE  dev[d].life # "none"
    BY <2>1 DEF RevShape, RevokeCommits
  <2>2. dev[d].edit # "none" => dev[d].life # "none"
    BY DEF DevShape
  <2>3. dev[d].life # "none"
    BY <1>2, <2>1, <2>2, DevMoves
  <2>4. req[d].pc # "none"
    BY <2>3 DEF ReqShape
  <2>5. QED
    BY <1>2, <2>3, <2>4, ReqMoves
<1>3. ASSUME NEW d \in Devices, NEW e \in Devices, d # e, EnrollCommits(d),
             dev'[d].life # "none", dev'[e].life # "none"
      PROVE  req'[d].tok # req'[e].tok
  <2>1. ~EnrollCommits(e)
    <3>1. req'[e] = req[e]
      BY <1>3 DEF EnrollCommits, TypeOK
    <3>2. ASSUME EnrollCommits(e)
          PROVE  FALSE
      <4>1. req[e].pc = "read" /\ req'[e].pc \in {"telling", "refused"}
        BY <3>2 DEF EnrollCommits, TypeOK, ReqType
      <4>2. QED
        BY <3>1, <4>1
    <3>3. QED
      BY <3>2
  <2>2. dev[e].life # "none" /\ req'[e].tok = req[e].tok
    BY <1>2, <1>3, <2>1
  <2>3. tok[req[e].tok].used
    BY <2>2 DEF ReqShape
  <2>4. req'[d].tok = req[d].tok
    BY <1>3 DEF EnrollCommits, TypeOK, ReqType
  <2>5. req[d].pc = "read" /\ dev[d].life = "none"
    BY <1>3 DEF EnrollCommits, ReqShape
  <2>6. Unused(req[d].tok)
    BY <1>3, <2>5 DEF EnrollCommits
  <2>7. QED
    BY <2>2, <2>3, <2>4, <2>6 DEF Unused
<1>4. ASSUME NEW d \in Devices, NEW e \in Devices, dev'[d].life # "none", dev'[e].life # "none",
             req'[d].tok = req'[e].tok, d # e
      PROVE  FALSE
  <2>1. CASE EnrollCommits(d) \/ EnrollCommits(e)
    BY <1>3, <1>4, <2>1
  <2>2. CASE ~EnrollCommits(d) /\ ~EnrollCommits(e)
    BY <1>2, <1>4, <2>2 DEF SingleUse
  <2>3. QED
    BY <2>1, <2>2
<1>5. QED
  BY <1>1, <1>4 DEF SingleUse

\* What exists, what was revoked, what was answered and what the gateway was
\* told stays so.
LEMMA StaysSo ==
    ASSUME EnrollmentAssumption, TypeOK, ReqShape, DevShape, CompShape, RevShape, Next, NEW d \in Devices
    PROVE  /\ dev[d].life # "none" => dev'[d].life # "none" /\ (~dev[d].keys => ~dev'[d].keys)
           /\ req[d].pc # "none" => req'[d].pc # "none"
           /\ req[d].pc = "ok" => req'[d].pc = "ok"
           /\ gate[d] # "none" => gate'[d] # "none"
           /\ req[d].pc = "ok" /\ gate[d] = "revoked" => LabMode \/ gate'[d] = "revoked"
           /\ d \in strays => d \in strays'
<1> USE EnrollmentAssumption
<1>1. EnrollCommits(d) => req[d].pc = "read" /\ dev[d].life = "none" /\ req'[d].pc \in {"telling", "refused"}
  BY DEF EnrollCommits, ReqShape, TypeOK, ReqType
<1>2. dev[d].edit \in {"none", "ACTIVE", "ARCHIVED"}
  BY DEF TypeOK, DevType
<1>3. dev[d].life # "none" => dev'[d].life # "none" /\ (~dev[d].keys => ~dev'[d].keys)
  BY <1>1, <1>2, DevMoves
<1>4. /\ req[d].pc # "none" => req'[d].pc # "none"
      /\ req[d].pc = "ok" => req'[d].pc = "ok"
  BY <1>1, ReqMoves
<1>5. req[d].pc = "ok" => LabMode \/ req[d].note = "done"
  BY DEF ReqShape
<1>6. /\ gate[d] # "none" => gate'[d] # "none"
      /\ req[d].pc = "ok" /\ gate[d] = "revoked" => LabMode \/ gate'[d] = "revoked"
  BY <1>5, GateMoves
<1>7. d \in strays => d \in strays'
  BY DEF Next, StartInstall, SetupCodeLogin, RevokeCode, Reuse, MintToken, EnrollByHand, Ask, Answered,
         Seal,
     SealFails, Persist, PersistFails, Abort, Aborted, Stop, WriteConfig, EnrollReads, EnrollCommits, AdminRevokes,
     RevokeCommits, EditLoads, EditCommits, NotifyFails, NotifyOk, PutRecord
<1>8. QED
  BY <1>3, <1>4, <1>6, <1>7

LEMMA RevShapeKept ==
    ASSUME EnrollmentAssumption, TypeOK, ReqShape, DevShape, CompShape, RevShape, Next
    PROVE  RevShape'
<1> USE EnrollmentAssumption
<1> DEFINE Row(pc, d, by, note, settled, life, keys, answered, said) ==
             /\ pc # "none" => d \in Devices /\ life # "none"
             /\ pc # "none" /\ (settled \/ by \in Computers) => answered = "ok"
             /\ pc \in {"telling", "ok", "failed"} => ~keys
             /\ note # "none" => pc # "none"
             /\ pc = "ok" => LabMode \/ note = "done"
             /\ note = "done" /\ (settled \/ by \in Computers) => LabMode \/ said = "revoked"
<1> SUFFICES ASSUME NEW k \in 1..MaxRevokes
             PROVE  Row(rev'[k].pc, rev'[k].dev, rev'[k].by, rev'[k].note, rev'[k].settled,
                        dev'[rev'[k].dev].life, dev'[rev'[k].dev].keys, req'[rev'[k].dev].pc,
                        gate'[rev'[k].dev])
  BY DEF RevShape, Final
<1> DEFINE d == rev[k].dev
<1>1. Row(rev[k].pc, d, rev[k].by, rev[k].note, rev[k].settled, dev[d].life, dev[d].keys, req[d].pc, gate[d])
  BY DEF RevShape, Final
<1>2. rev[k].pc # "none" =>
        /\ d \in Devices /\ dev'[d].life # "none" /\ (~dev[d].keys => ~dev'[d].keys)
        /\ req[d].pc = "ok" => req'[d].pc = "ok"
        /\ req[d].pc = "ok" /\ gate[d] = "revoked" => LabMode \/ gate'[d] = "revoked"
  BY <1>1, StaysSo
<1>3. rev[k] \in RevType
  BY DEF TypeOK
<1>4. CASE rev'[k] = rev[k]
  BY <1>1, <1>2, <1>4
<1>5. CASE /\ rev[k].pc = "none" /\ rev'[k].pc = "sent" /\ rev'[k].note = "none"
           /\ \/ \E c \in Computers : /\ comp[c].pc = "abort" /\ rev'[k].dev = comp[c].dev
                                      /\ rev'[k].by = c
              \/ /\ rev'[k].dev \in Devices /\ dev[rev'[k].dev].life # "none" /\ rev'[k].by = "admin"
                 /\ rev'[k].settled => req[rev'[k].dev].pc = "ok"
           /\ UNCHANGED <<req, dev, gate>>
  <2>1. ASSUME NEW c \in Computers, comp[c].pc = "abort"
        PROVE  comp[c].dev \in Devices /\ req[comp[c].dev].pc = "ok" /\ dev[comp[c].dev].life # "none"
    BY <2>1 DEF CompShape, CompRow, Waiting, ReqShape
  <2>2. "admin" \notin Computers
    BY DEF EnrollmentAssumption
  <2>3. QED
    BY <1>5, <2>1, <2>2
<1>6. CASE RevokeCommits(k) /\ ~MayRevoke(k) /\ rev'[k] = [rev[k] EXCEPT !.pc = "refused"]
  <2>1. rev[k].pc = "sent" /\ UNCHANGED <<dev, req, gate>>
    BY <1>6 DEF RevokeCommits
  <2>2. /\ rev'[k].pc = "refused" /\ rev'[k].dev = d /\ rev'[k].by = rev[k].by /\ rev'[k].note = rev[k].note
        /\ rev'[k].settled = rev[k].settled
    BY <1>3, <1>6 DEF RevType
  <2>3. QED
    BY <1>1, <2>1, <2>2
<1>7. CASE RevokeCommits(k) /\ MayRevoke(k) /\ rev'[k] = [rev[k] EXCEPT !.pc = "telling", !.note = "sent"]
  <2>1. rev[k].pc = "sent" /\ UNCHANGED <<req, gate>>
    BY <1>7 DEF RevokeCommits
  <2>2. /\ rev'[k].pc = "telling" /\ rev'[k].dev = d /\ rev'[k].by = rev[k].by /\ rev'[k].note = "sent"
        /\ rev'[k].settled = rev[k].settled
    BY <1>3, <1>7 DEF RevType
  <2>3. ~dev'[d].keys
    <3>1. dev' = [dev EXCEPT ![d].life = "QUARANTINED", ![d].keys = FALSE]
      BY <1>7 DEF RevokeCommits
    <3>2. d \in Devices
      BY <1>1, <2>1
    <3>3. QED
      BY <3>1, <3>2 DEF TypeOK, DevType
  <2>4. QED
    BY <1>1, <1>2, <2>1, <2>2, <2>3
<1>8. CASE /\ rev[k].pc = "telling" /\ rev'[k].pc \in {"ok", "failed"}
           /\ rev'[k].pc = "ok" => LabMode \/ rev[k].note = "done"
           /\ rev'[k].note = rev[k].note \/ (rev[k].note = "sent" /\ rev'[k].note = "lost")
           /\ rev'[k].dev = rev[k].dev /\ rev'[k].by = rev[k].by /\ rev'[k].settled = rev[k].settled
           /\ UNCHANGED <<req, dev, gate>>
  BY <1>1, <1>8
<1>9. CASE /\ rev[k].note = "sent" /\ rev'[k] = [rev[k] EXCEPT !.note = "done"]
           /\ gate' = [gate EXCEPT ![rev[k].dev] = "revoked"] /\ UNCHANGED <<req, dev>>
  <2>1. /\ rev'[k].pc = rev[k].pc /\ rev'[k].dev = d /\ rev'[k].by = rev[k].by /\ rev'[k].note = "done"
        /\ rev'[k].settled = rev[k].settled
    BY <1>3, <1>9 DEF RevType
  <2>2. gate'[d] = "revoked"
    BY <1>1, <1>9 DEF TypeOK
  <2>3. QED
    BY <1>1, <1>9, <2>1, <2>2
<1>10. QED
  BY <1>4, <1>5, <1>6, <1>7, <1>8, <1>9, RevMoves


-----------------------------------------------------------------------------
(* The computers.                                                          *)

ActsOn(c) ==
    \/ \E a \in Actors : StartInstall(c, a)
    \/ Reuse(c) \/ MintToken(c)
    \/ \E t \in Tokens : EnrollByHand(c, t)
    \/ Ask(c) \/ Answered(c) \/ Seal(c) \/ SealFails(c) \/ Persist(c) \/ PersistFails(c)
    \/ Abort(c) \/ Aborted(c) \/ Stop(c) \/ WriteConfig(c)

Stays(c) ==
    /\ comp'[c].pc = comp[c].pc /\ comp'[c].tok = comp[c].tok
    /\ comp'[c].dev = comp[c].dev /\ comp'[c].done = comp[c].done
    /\ disk'[c] = disk[c]

SignInEnds(c) ==
    /\ comp[c].pc = "login" /\ comp'[c].pc \in {"signed", "idle"}
    /\ comp'[c].done => comp[c].done
    /\ UNCHANGED disk

\* A step is of one installation, or of none.
LEMMA OneActs ==
    ASSUME EnrollmentAssumption, TypeOK, Next, NEW c \in Computers
    PROVE  ActsOn(c) \/ SignInEnds(c) \/ Stays(c)
<1> USE EnrollmentAssumption
<1>1. ASSUME NEW b \in Computers, b # c, ActsOn(b)
      PROVE  comp'[c] = comp[c] /\ disk'[c] = disk[c]
  <2>0. comp \in [Computers -> CompType] /\ disk \in [Computers -> DiskType]
    BY DEF TypeOK
  <2>1. CASE \E a \in Actors : StartInstall(b, a)
    BY <1>1, <2>0, <2>1 DEF StartInstall
  <2>2. CASE Reuse(b) \/ (\E t \in Tokens : EnrollByHand(b, t)) \/ Abort(b) \/ Aborted(b) \/ WriteConfig(b)
    BY <1>1, <2>0, <2>2 DEF Reuse, EnrollByHand, Abort, Aborted, WriteConfig
  <2>3. CASE MintToken(b)
    BY <1>1, <2>0, <2>3 DEF MintToken
  <2>4. CASE Ask(b)
    BY <1>1, <2>0, <2>4 DEF Ask
  <2>5. CASE Answered(b)
    BY <1>1, <2>0, <2>5 DEF Answered
  <2>6. CASE Seal(b)
    BY <1>1, <2>0, <2>6 DEF Seal
  <2>7. CASE SealFails(b) \/ Persist(b)
    BY <1>1, <2>0, <2>7 DEF SealFails, Persist
  <2>8. CASE PersistFails(b)
    BY <1>1, <2>0, <2>8 DEF PersistFails
  <2>9. CASE Stop(b)
    <3>1. comp' = [comp EXCEPT ![b] = NoInstall]
      BY <2>9 DEF Stop
    <3>2. disk'[c] = disk[c]
      BY <1>1, <2>0, <2>9 DEF Stop
    <3>3. QED
      BY <1>1, <2>0, <3>1, <3>2
  <2>10. QED
    BY <1>1, <2>1, <2>2, <2>3, <2>4, <2>5, <2>6, <2>7, <2>8, <2>9 DEF ActsOn
<1>2. ASSUME NEW a \in Codes, SetupCodeLogin(a)
      PROVE  SignInEnds(c) \/ Stays(c)
  <2>0. comp \in [Computers -> CompType]
    BY DEF TypeOK
  <2>1. CASE UNCHANGED comp
    BY <1>2, <2>1 DEF SetupCodeLogin, Stays
  <2>2. ASSUME NEW b \in Computers, comp[b].pc = "login",
               comp' = [comp EXCEPT ![b] = IF UseLeft(a) THEN [@ EXCEPT !.pc = "signed", !.live = TRUE]
                                           ELSE NoInstall]
        PROVE  SignInEnds(c) \/ Stays(c)
    <3>1. UNCHANGED disk
      BY <1>2 DEF SetupCodeLogin
    <3>2. CASE b = c
      BY <2>0, <2>2, <3>1, <3>2 DEF SignInEnds, NoInstall, CompType
    <3>3. CASE b # c
      BY <2>0, <2>2, <3>1, <3>3 DEF Stays
    <3>4. QED
      BY <3>2, <3>3
  <2>3. QED
    BY <1>2, <2>1, <2>2 DEF SetupCodeLogin
<1>3. ASSUME NEW a \in Codes, RevokeCode(a)
      PROVE  Stays(c)
  BY <1>3, RevokedSessions DEF RevokeCode, Stays
<1>4. CASE UNCHANGED <<comp, disk>>
  BY <1>4 DEF Stays
<1>5. QED
  <2>1. \/ \E b \in Computers : ActsOn(b)
        \/ \E a \in Codes : SetupCodeLogin(a) \/ RevokeCode(a)
        \/ UNCHANGED <<comp, disk>>
    BY DEF Next, ActsOn, EnrollReads, EnrollCommits, AdminRevokes, RevokeCommits, EditLoads,
           EditCommits,
       NotifyFails, NotifyOk, PutRecord
  <2>2. ASSUME NEW b \in Computers, ActsOn(b)
        PROVE  ActsOn(c) \/ Stays(c)
    BY <1>1, <2>2 DEF Stays
  <2>3. QED
    BY <1>2, <1>3, <1>4, <2>1, <2>2

\* A revocation that was sent stays, and stays of its device.
LEMMA RevStays ==
    ASSUME EnrollmentAssumption, TypeOK, CompShape, Next, NEW k \in 1..MaxRevokes, rev[k].pc # "none"
    PROVE  rev'[k].pc # "none" /\ rev'[k].dev = rev[k].dev
<1>1. rev[k] \in RevType
  BY DEF TypeOK
<1>2. QED
  BY <1>1, RevMoves DEF RevType

LEMMA CompShapeKept ==
    ASSUME EnrollmentAssumption, TypeOK, TypeOK', ReqShape, DevShape, CompShape, RevShape, DiskShape, Next
    PROVE  CompShape'
<1> USE EnrollmentAssumption
<1> SUFFICES ASSUME NEW c \in Computers
             PROVE  CompRow(c)'
  BY DEF CompShape
<1>1. CompRow(c) /\ comp[c] \in CompType /\ comp \in [Computers -> CompType]
  BY DEF CompShape, TypeOK
\* What a row says of its device and its abort stays true.
<1>2. /\ comp[c].dev \in Devices /\ req[comp[c].dev].pc # "none" => req'[comp[c].dev].pc # "none"
      /\ comp[c].dev \in Devices /\ req[comp[c].dev].pc = "ok" => req'[comp[c].dev].pc = "ok"
  BY StaysSo
<1>3. CASE Stays(c)
  BY <1>1, <1>2, <1>3, RevStays DEF Stays, CompRow
<1>4. CASE SignInEnds(c)
  BY <1>4 DEF SignInEnds, CompRow, Waiting
<1>5. CASE comp'[c].pc \in {"idle", "login", "signed"}
  BY <1>5 DEF CompRow, Waiting
<1>6. ASSUME ActsOn(c), comp'[c].pc \notin {"idle", "login", "signed"}, ~Stays(c)
      PROVE  CompRow(c)'
  <2>1. ASSUME NEW t \in Tokens, comp'[c].pc = "run", comp'[c].tok = t
        PROVE  CompRow(c)'
    BY <2>1 DEF CompRow, Waiting
  <2>2. CASE MintToken(c)
    <3>1. PICK t \in Tokens :
              \/ comp' = [comp EXCEPT ![c].pc = "run", ![c].tok = t]
              \/ comp' = [comp EXCEPT ![c] = NoInstall]
      BY <2>2 DEF MintToken, First
    <3>2. CASE comp' = [comp EXCEPT ![c].pc = "run", ![c].tok = t]
      BY <1>1, <2>1, <3>2 DEF CompType
    <3>3. CASE comp' = [comp EXCEPT ![c] = NoInstall]
      BY <1>1, <1>6, <3>3 DEF NoInstall
    <3>4. QED
      BY <3>1, <3>2, <3>3
  <2>3. CASE \E t \in Tokens : EnrollByHand(c, t)
    BY <1>1, <2>1, <2>3 DEF EnrollByHand, NoInstall
  <2>4. CASE Ask(c)
    <3>1. PICK h \in Devices :
              /\ req' = [req EXCEPT ![h] = [NoRequest EXCEPT !.pc = "sent", !.tok = comp[c].tok, !.comp = c]]
              /\ comp' = [comp EXCEPT ![c].pc = "asking", ![c].tok = 0, ![c].dev = h]
      BY <2>4 DEF Ask, First
    <3>2. comp'[c].pc = "asking" /\ comp'[c].dev = h
      BY <1>1, <3>1 DEF CompType
    <3>3. req'[h].pc = "sent"
      BY <3>1 DEF TypeOK, NoRequest
    <3>4. QED
      BY <3>2, <3>3 DEF CompRow, Waiting
  \* The steps between the answer and the abort keep the device.
  <2>5. ASSUME comp[c].dev \in Devices, req[comp[c].dev].pc = "ok", comp'[c].dev = comp[c].dev,
               comp'[c].pc \in Waiting
        PROVE  CompRow(c)'
    BY <1>2, <2>5 DEF CompRow, Waiting
  <2>6. CASE Answered(c)
    <3>1. CASE req[comp[c].dev].pc = "ok" /\ comp' = [comp EXCEPT ![c].pc = "control"]
      BY <1>1, <2>5, <2>6, <3>1 DEF Answered, CompRow, CompType, Waiting
    <3>2. CASE comp' = [comp EXCEPT ![c] = NoInstall]
      BY <1>1, <1>6, <3>2 DEF NoInstall
    <3>3. QED
      BY <2>6, <3>1, <3>2 DEF Answered
  <2>7. CASE Seal(c) \/ SealFails(c) \/ PersistFails(c)
    <3>1. PICK s \in {"gateway", "persist", "abort"} : comp' = [comp EXCEPT ![c].pc = s]
      BY <2>7 DEF Seal, SealFails, PersistFails
    <3>2. comp[c].pc \in Waiting
      BY <2>7 DEF Seal, SealFails, PersistFails, Waiting
    <3>3. comp'[c].pc = s /\ comp'[c].dev = comp[c].dev
      BY <1>1, <3>1 DEF CompType
    <3>4. comp[c].dev \in Devices /\ req[comp[c].dev].pc = "ok"
      BY <1>1, <3>2 DEF CompRow
    <3>5. s \in Waiting
      BY DEF Waiting
    <3>6. QED
      BY <2>5, <3>3, <3>4, <3>5
  <2>8. CASE Abort(c)
    <3>1. PICK k \in 1..MaxRevokes :
              /\ rev' = [rev EXCEPT ![k] = [NoRevoke EXCEPT !.pc = "sent", !.dev = comp[c].dev, !.by = c]]
              /\ comp' = [comp EXCEPT ![c].pc = "aborting", ![c].tok = k]
      BY <2>8 DEF Abort, First
    <3>2. comp'[c].pc = "aborting" /\ comp'[c].tok = k /\ comp'[c].dev = comp[c].dev
      BY <1>1, <3>1 DEF CompType
    <3>3. rev'[k].pc = "sent" /\ rev'[k].dev = comp[c].dev
      BY <3>1 DEF TypeOK, NoRevoke
    <3>4. comp[c].dev \in Devices /\ req[comp[c].dev].pc = "ok"
      BY <1>1, <2>8 DEF Abort, CompRow, Waiting
    <3>5. QED
      BY <1>2, <3>2, <3>3, <3>4 DEF CompRow, Waiting
  <2>9. CASE (\E a \in Actors : StartInstall(c, a)) \/ Reuse(c) \/ Persist(c) \/ Aborted(c) \/ Stop(c)
    <3>1. CASE \E a \in Actors : StartInstall(c, a)
      BY <1>1, <1>6, <3>1 DEF StartInstall, NoInstall
    <3>2. CASE comp' = [comp EXCEPT ![c] = NoInstall] \/ comp' = [comp EXCEPT ![c] = Enrolled]
      BY <1>1, <1>6, <3>2 DEF NoInstall, Enrolled
    <3>3. QED
      BY <2>9, <3>1, <3>2 DEF Reuse, Persist, Aborted, Stop
  <2>10. CASE WriteConfig(c)
    BY <1>6, <2>10 DEF WriteConfig
  <2>11. QED
    BY <1>6, <2>2, <2>3, <2>4, <2>6, <2>7, <2>8, <2>9, <2>10 DEF ActsOn
<1>7. QED
  BY <1>3, <1>4, <1>5, <1>6, OneActs

LEMMA DiskShapeKept ==
    ASSUME EnrollmentAssumption, TypeOK, TypeOK', ReqShape, DevShape, CompShape, RevShape, DiskShape, Next
    PROVE  DiskShape'
<1> USE EnrollmentAssumption
<1> SUFFICES ASSUME NEW c \in Computers
             PROVE  DiskRow(c)'
  BY DEF DiskShape
<1> DEFINE d == disk[c].cfg
<1>1. /\ DiskRow(c) /\ CompRow(c) /\ comp[c] \in CompType /\ comp \in [Computers -> CompType]
      /\ disk[c] \in DiskType /\ disk \in [Computers -> DiskType] /\ disk'[c] \in DiskType
  BY DEF DiskShape, CompShape, TypeOK
<1>2. Torn \notin Devices /\ 0 \notin Devices
  BY DEF Torn, Devices, EnrollmentAssumption
\* What the row says of its devices stays true.
<1>3. ASSUME NEW e \in Devices
      PROVE  /\ dev[e].life # "none" => dev'[e].life # "none" /\ (~dev[e].keys => ~dev'[e].keys)
             /\ gate[e] # "none" => gate'[e] # "none"
             /\ e \in strays => e \in strays'
  BY StaysSo
<1>4. /\ d \in Devices => dev'[d].life # "none" /\ (d \in strays => d \in strays')
      /\ d \in Devices /\ ~dev[d].keys => ~dev'[d].keys
  BY <1>1, <1>3 DEF DiskRow
<1>5. ASSUME disk'[c] = disk[c], d \in Devices, Whole(c)
      PROVE  Whole(c)'
  BY <1>3, <1>5 DEF Whole
\* An installation that ends or begins, and leaves the files alone.
<1>6. ASSUME disk'[c] = disk[c], ~comp'[c].done, comp'[c].pc \in {"idle", "login", "signed", "run"},
             comp'[c].pc \in {"login", "signed"} => d # Torn,
             comp[c].pc \in {"abort", "aborting"} /\ d = comp[c].dev /\ d \in Devices => d \in strays' \/ ~dev'[d].keys
      PROVE  DiskRow(c)'
  <2>1. d \in Devices /\ d \notin strays' => Whole(c)' \/ ~dev'[d].keys
    BY <1>1, <1>4, <1>5, <1>6 DEF DiskRow
  <2>2. QED
    BY <1>4, <1>6, <2>1 DEF DiskRow
\* An installation that is past the configuration it found.
<1>7. ASSUME disk'[c].cfg \notin Devices \/ (disk'[c].cfg = d /\ d \in strays'), ~comp'[c].done,
             comp'[c].pc \notin {"login", "signed"},
             comp'[c].pc \in {"gateway", "persist"} => disk'[c].control = comp'[c].dev,
             comp'[c].pc = "persist" => disk'[c].gateway = comp'[c].dev
      PROVE  DiskRow(c)'
  BY <1>4, <1>7 DEF DiskRow
<1>8. CASE Stays(c)
  <2>1. d \in Devices /\ d \notin strays' => Whole(c)' \/ ~dev'[d].keys
                                             \/ (comp'[c].pc \in {"abort", "aborting"} /\ comp'[c].dev = d)
    BY <1>1, <1>4, <1>5, <1>8 DEF DiskRow, Stays
  <2>2. comp'[c].done => comp'[c].pc = "idle" /\ d \in Devices /\ (d \in strays' \/ Whole(c)')
    BY <1>1, <1>4, <1>5, <1>8 DEF DiskRow, Stays
  <2>3. QED
    BY <1>1, <1>4, <1>8, <2>1, <2>2 DEF DiskRow, Stays
<1>9. CASE SignInEnds(c)
  <2>1. ~comp'[c].done /\ d # Torn /\ disk'[c] = disk[c] /\ comp[c].pc = "login"
    BY <1>1, <1>9 DEF SignInEnds, DiskRow
  <2>2. QED
    BY <1>6, <1>9, <2>1 DEF SignInEnds
<1>10. CASE \E a \in Actors : StartInstall(c, a)
  <2>1. comp[c].pc = "idle" /\ d # Torn /\ disk' = disk
    BY <1>10 DEF StartInstall
  <2>2. ~comp'[c].done /\ comp'[c].pc \in {"login", "signed"}
    BY <1>1, <1>10 DEF StartInstall, NoInstall
  <2>3. QED
    BY <1>6, <2>1, <2>2
<1>11. CASE Reuse(c)
  <2>1. d \in Devices /\ dev[d].life = "ACTIVE" /\ disk' = disk /\ comp[c].pc = "signed" /\ UNCHANGED <<dev, strays>>
    BY <1>1, <1>11 DEF Reuse, StillValid, DiskRow, DiskType
  <2>2. dev[d].keys \/ d \in strays
    BY <2>1 DEF DevShape
  <2>3. d \in strays \/ Whole(c)
    BY <1>1, <2>1, <2>2 DEF DiskRow
  <2>4. comp'[c].pc = "idle"
    BY <1>1, <1>11 DEF Reuse, Enrolled, NoInstall
  <2>5. d \in strays' \/ Whole(c)'
    BY <1>5, <2>1, <2>3
  <2>6. QED
    BY <1>4, <2>1, <2>4, <2>5 DEF DiskRow
<1>12. CASE MintToken(c)
  <2>1. comp[c].pc = "signed" /\ disk' = disk /\ ~comp[c].done
    BY <1>1, <1>12 DEF MintToken, DiskRow
  <2>2. (\E t \in Tokens : comp' = [comp EXCEPT ![c].pc = "run", ![c].tok = t]) \/ comp' = [comp EXCEPT ![c] = NoInstall]
    BY <1>12 DEF MintToken, First
  <2>3. ~comp'[c].done /\ comp'[c].pc \in {"run", "idle"}
    BY <1>1, <2>1, <2>2 DEF NoInstall, CompType
  <2>4. QED
    BY <1>6, <2>1, <2>3
<1>13. CASE \E t \in Tokens : EnrollByHand(c, t)
  <2>1. comp[c].pc = "idle" /\ disk' = disk
    BY <1>13 DEF EnrollByHand
  <2>2. ~comp'[c].done /\ comp'[c].pc = "run"
    BY <1>1, <1>13 DEF EnrollByHand, NoInstall
  <2>3. QED
    BY <1>6, <2>1, <2>2
<1>14. CASE Ask(c)
  <2>1. PICK h \in Devices : comp' = [comp EXCEPT ![c].pc = "asking", ![c].tok = 0, ![c].dev = h]
    BY <1>14 DEF Ask, First
  <2>2. comp[c].pc = "run" /\ disk' = disk /\ (d \in Devices => d \in strays')
    BY <1>14 DEF Ask
  <2>3. comp'[c].pc = "asking" /\ comp'[c].done = comp[c].done
    BY <1>1, <2>1 DEF CompType
  <2>4. ~comp[c].done
    BY <1>1, <2>2 DEF DiskRow
  <2>5. QED
    BY <1>7, <2>2, <2>3, <2>4
\* The steps from the answer to the configuration.
<1>15. ASSUME comp[c].pc \in {"asking", "control", "gateway", "persist"}
       PROVE  ~comp[c].done /\ (d \notin Devices \/ d \in strays')
  BY <1>1, <1>4, <1>15 DEF DiskRow
<1>16. CASE Answered(c)
  <2>1. comp[c].pc = "asking" /\ disk' = disk
    BY <1>16 DEF Answered
  <2>2. CASE comp' = [comp EXCEPT ![c].pc = "control"]
    <3>1. comp'[c].pc = "control" /\ comp'[c].done = comp[c].done
      BY <1>1, <2>2 DEF CompType
    <3>2. QED
      BY <1>7, <1>15, <2>1, <3>1
  <2>3. CASE comp' = [comp EXCEPT ![c] = NoInstall]
    <3>1. comp'[c].pc = "idle" /\ ~comp'[c].done
      BY <1>1, <2>3 DEF NoInstall
    <3>2. QED
      BY <1>6, <2>1, <3>1
  <2>4. QED
    BY <1>16, <2>2, <2>3 DEF Answered
<1>17. CASE Seal(c)
  <2>1. CASE /\ comp[c].pc = "control" /\ disk' = [disk EXCEPT ![c].control = comp[c].dev]
             /\ comp' = [comp EXCEPT ![c].pc = "gateway"]
    <3>1. comp'[c].pc = "gateway" /\ comp'[c].done = comp[c].done /\ comp'[c].dev = comp[c].dev
      BY <1>1, <2>1 DEF CompType
    <3>2. disk'[c].cfg = d /\ disk'[c].control = comp[c].dev
      BY <1>1, <2>1 DEF DiskType
    <3>3. QED
      BY <1>7, <1>15, <2>1, <3>1, <3>2
  <2>2. CASE /\ comp[c].pc = "gateway" /\ disk' = [disk EXCEPT ![c].gateway = comp[c].dev]
             /\ comp' = [comp EXCEPT ![c].pc = "persist"]
    <3>1. comp'[c].pc = "persist" /\ comp'[c].done = comp[c].done /\ comp'[c].dev = comp[c].dev
      BY <1>1, <2>2 DEF CompType
    <3>2. disk'[c].cfg = d /\ disk'[c].gateway = comp[c].dev /\ disk'[c].control = comp[c].dev
      BY <1>1, <2>2 DEF DiskType, DiskRow
    <3>3. QED
      BY <1>7, <1>15, <2>2, <3>1, <3>2
  <2>3. QED
    BY <1>17, <2>1, <2>2 DEF Seal
<1>18. CASE SealFails(c)
  <2>1. /\ comp[c].pc \in {"control", "gateway", "persist"} /\ disk' = [disk EXCEPT ![c] = Scrubbed(disk[c])]
        /\ comp' = [comp EXCEPT ![c].pc = "abort"]
    BY <1>18 DEF SealFails
  <2>2. comp'[c].pc = "abort" /\ comp'[c].done = comp[c].done
    BY <1>1, <2>1 DEF CompType
  <2>3. disk'[c].cfg = d
    BY <1>1, <2>1 DEF DiskType, Scrubbed
  <2>4. QED
    BY <1>7, <1>15, <2>1, <2>2, <2>3
\* The device of an answered enrollment.
<1>19. ASSUME comp[c].pc \in Waiting
       PROVE  /\ comp[c].dev \in Devices /\ dev[comp[c].dev].life # "none"
              /\ LabMode \/ gate[comp[c].dev] # "none"
  <2>1. comp[c].dev \in Devices /\ req[comp[c].dev].pc = "ok"
    BY <1>1, <1>19 DEF CompRow
  <2>2. QED
    BY <2>1 DEF ReqShape
<1>20. CASE Persist(c)
  <2>1. /\ comp[c].pc = "persist" /\ disk' = [disk EXCEPT ![c].cfg = comp[c].dev]
        /\ comp' = [comp EXCEPT ![c] = Enrolled] /\ UNCHANGED <<dev, gate>>
    BY <1>20 DEF Persist
  <2>2. comp'[c].pc = "idle"
    BY <1>1, <2>1 DEF Enrolled, NoInstall
  <2>3. disk'[c].cfg = comp[c].dev /\ disk'[c].control = comp[c].dev /\ disk'[c].gateway = comp[c].dev
    BY <1>1, <2>1 DEF DiskType, DiskRow
  <2>4. comp[c].dev \in Devices /\ dev'[comp[c].dev].life # "none" /\ (LabMode \/ gate'[comp[c].dev] # "none")
    BY <1>19, <2>1 DEF Waiting
  <2>5. Whole(c)'
    BY <2>3, <2>4 DEF Whole
  <2>6. QED
    BY <2>2, <2>3, <2>4, <2>5 DEF DiskRow
<1>21. CASE PersistFails(c)
  <2>1. /\ comp[c].pc = "persist" /\ comp' = [comp EXCEPT ![c].pc = "abort"] /\ UNCHANGED dev
        /\ \E f \in {0, d, Torn, comp[c].dev} :
              disk' = [disk EXCEPT ![c] = [Scrubbed(disk[c]) EXCEPT !.cfg = f]]
    BY <1>21 DEF PersistFails
  <2>2. comp'[c].pc = "abort" /\ comp'[c].done = comp[c].done /\ comp'[c].dev = comp[c].dev
    BY <1>1, <2>1 DEF CompType
  <2>3. disk'[c].cfg \in {0, d, Torn, comp[c].dev}
    BY <1>1, <2>1 DEF DiskType, Scrubbed
  <2>4. CASE disk'[c].cfg = comp[c].dev
    <3>1. comp[c].dev \in Devices /\ dev'[comp[c].dev].life # "none"
      BY <1>19, <2>1 DEF Waiting
    <3>2. ~comp[c].done
      BY <1>15, <2>1
    <3>3. QED
      BY <2>2, <2>4, <3>1, <3>2 DEF DiskRow
  <2>5. CASE disk'[c].cfg \in {0, d, Torn}
    BY <1>2, <1>7, <1>15, <2>1, <2>2, <2>5
  <2>6. QED
    BY <2>3, <2>4, <2>5
<1>22. CASE Abort(c)
  <2>1. /\ comp[c].pc = "abort" /\ UNCHANGED <<disk, dev, gate, strays>>
        /\ \E k \in 1..MaxRevokes : comp' = [comp EXCEPT ![c].pc = "aborting", ![c].tok = k]
    BY <1>22 DEF Abort, First
  <2>2. comp'[c].pc = "aborting" /\ comp'[c].done = comp[c].done /\ comp'[c].dev = comp[c].dev
    BY <1>1, <2>1 DEF CompType
  <2>3. QED
    BY <1>1, <2>1, <2>2 DEF DiskRow, Whole
<1>23. CASE Aborted(c)
  <2>1. /\ comp[c].pc = "aborting" /\ comp' = [comp EXCEPT ![c] = NoInstall] /\ UNCHANGED <<disk, dev>>
        /\ rev[comp[c].tok].pc = "ok" \/ comp[c].dev \in strays'
    BY <1>23 DEF Aborted
  <2>2. comp'[c].pc = "idle" /\ ~comp'[c].done
    BY <1>1, <2>1 DEF NoInstall
  <2>3. rev[comp[c].tok].pc = "ok" => ~dev'[comp[c].dev].keys
    BY <1>1, <2>1 DEF CompRow, RevShape
  <2>4. QED
    BY <1>6, <2>1, <2>2, <2>3
<1>24. CASE Stop(c)
  <2>1. comp' = [comp EXCEPT ![c] = NoInstall] /\ comp[c].pc # "idle"
    BY <1>24 DEF Stop
  <2>2. comp'[c].pc = "idle" /\ ~comp'[c].done
    BY <1>1, <2>1 DEF NoInstall
  <2>3. comp[c].pc \in {"abort", "aborting"} => comp[c].dev \in strays'
    BY <1>24 DEF Stop
  <2>4. CASE disk' = disk
    BY <1>6, <2>2, <2>3, <2>4
  <2>5. CASE /\ comp[c].pc \in {"control", "gateway", "persist"}
             /\ \/ disk' = [disk EXCEPT ![c].control = 0]
                \/ disk' = [disk EXCEPT ![c].gateway = 0]
                \/ disk' = [disk EXCEPT ![c].cfg = Torn]
    <3>1. disk'[c].cfg \in {d, Torn}
      BY <1>1, <2>5 DEF DiskType
    <3>2. QED
      BY <1>2, <1>7, <1>15, <2>2, <2>5, <3>1
  <2>6. QED
    BY <1>24, <2>4, <2>5 DEF Stop
<1>25. CASE WriteConfig(c)
  <2>1. comp[c].pc = "idle" /\ comp' = comp /\ d = Torn /\ disk' = [disk EXCEPT ![c].cfg = 0]
    BY <1>25 DEF WriteConfig
  <2>2. disk'[c].cfg = 0
    BY <1>1, <2>1 DEF DiskType
  <2>3. ~comp[c].done
    BY <1>1, <1>2, <2>1 DEF DiskRow
  <2>4. QED
    BY <1>2, <1>7, <2>1, <2>2, <2>3
<1>26. QED
  BY <1>8, <1>9, <1>10, <1>11, <1>12, <1>13, <1>14, <1>16, <1>17, <1>18, <1>20, <1>21, <1>22, <1>23,
     <1>24, <1>25,
     OneActs DEF ActsOn

-----------------------------------------------------------------------------
(* The invariant, and what it says.                                        *)

LEMMA InitHolds ==
    ASSUME EnrollmentAssumption, Init
    PROVE  EnrollInv
<1> USE EnrollmentAssumption
<1>1. TypeOK
  <2>1. NoInstall \in CompType
    BY DEF NoInstall, CompType, Steps, Actors
  <2>2. NoRequest \in ReqType
    BY DEF NoRequest, ReqType, ReqSteps, Notes
  <2>3. NoRevoke \in RevType
    BY DEF NoRevoke, RevType, RevSteps, Notes
  <2>4. /\ [uses |-> 0, opened |-> 0, reading |-> 0, revoked |-> FALSE] \in CodeType
        /\ [cfg |-> 0, control |-> 0, gateway |-> 0] \in DiskType
        /\ [by |-> "none", used |-> FALSE] \in TokenType
        /\ [life |-> "none", keys |-> FALSE, edit |-> "none"] \in DevType
    BY DEF CodeType, DiskType, TokenType, DevType, Lives
  <2>5. QED
    BY <2>1, <2>2, <2>3, <2>4 DEF Init, TypeOK
<1>2. CodeShape /\ SingleUse
  BY DEF Init, CodeShape, SingleUse, EnrollmentAssumption
<1>3. ReqShape /\ DevShape
  BY DEF Init, ReqShape, DevShape, NoRequest
<1>4. RevShape
  BY DEF Init, RevShape, NoRevoke
<1>5. CompShape
  BY DEF Init, CompShape, CompRow, NoInstall, Waiting
<1>6. DiskShape
  <2>1. 0 # Torn /\ 0 \notin Devices
    BY DEF Torn, Devices, EnrollmentAssumption
  <2>2. QED
    BY <2>1 DEF Init, DiskShape, DiskRow, NoInstall
<1>7. QED
  BY <1>1, <1>2, <1>3, <1>4, <1>5, <1>6 DEF EnrollInv

LEMMA InvKept ==
    ASSUME EnrollmentAssumption, EnrollInv, [Next]_vars
    PROVE  EnrollInv'
<1> USE EnrollmentAssumption
<1>1. CASE Next
  <2>1. TypeOK /\ CodeShape /\ ReqShape /\ DevShape /\ RevShape /\ CompShape /\ DiskShape /\ SingleUse
    BY DEF EnrollInv
  <2>2. TypeOK'
    BY <1>1, <2>1, TypesKept
  <2>3. CodeShape' /\ ReqShape' /\ DevShape' /\ RevShape'
    BY <1>1, <2>1, CodeShapeKept, ReqShapeKept, DevShapeKept, RevShapeKept
  <2>4. CompShape' /\ DiskShape'
    BY <1>1, <2>1, <2>2, CompShapeKept, DiskShapeKept
  <2>5. SingleUse'
    BY <1>1, <2>1, <2>3, SingleUseKept
  <2>6. QED
    BY <2>2, <2>3, <2>4, <2>5 DEF EnrollInv
<1>2. CASE UNCHANGED vars
  BY <1>2 DEF vars, EnrollInv, TypeOK, CodeShape, ReqShape, DevShape, Final, RevShape, CompRow,
              CompShape, Whole,
     DiskRow, DiskShape, SingleUse
<1>3. QED
  BY <1>1, <1>2

\* The invariant holds for every set of computers and codes, every number of
\* uses, and with the gateway's failures ignored or not: what the handlers of
\* services.py, the wizard and enroll.go keep in every order of their steps.
THEOREM EnrollInvariant ==
    ASSUME EnrollmentAssumption
    PROVE  Spec => []EnrollInv
<1>1. Init => EnrollInv
  BY InitHolds
<1>2. EnrollInv /\ [Next]_vars => EnrollInv'
  BY InvKept
<1>3. QED
  BY <1>1, <1>2, PTL DEF Spec

\* A token makes one device, and a setup code no more installations than it is
\* good for (the conditional UPDATEs of enroll_agent and setup_code_login).
THEOREM TokensAreSingleUse ==
    ASSUME EnrollmentAssumption
    PROVE  Spec => []SingleUse
<1>1. EnrollInv => SingleUse
  BY DEF EnrollInv
<1>2. QED
  BY <1>1, EnrollInvariant, PTL

\* What an installation reports as enrolled is whole: one device in the
\* configuration and both envelopes, which the gateway was told of (wizard.py
\* do_install, enroll.go persistLocal).
THEOREM InstallationsWork ==
    ASSUME EnrollmentAssumption
    PROVE  Spec => []InstalledWorks
<1>1. EnrollInv => InstalledWorks
  BY DEF EnrollInv, DiskShape, DiskRow, Whole, InstalledWorks
<1>2. QED
  BY <1>1, EnrollInvariant, PTL

\* What was aborted, or revoked after its enrollment was answered, is refused
\* from then on by the control plane and the gateway (revoke_device).
THEOREM RevokedStayRefused ==
    ASSUME EnrollmentAssumption
    PROVE  Spec => []RefusedForGood
<1>1. EnrollInv => RefusedForGood
  BY DEF EnrollInv, RevShape, Final, RefusedForGood
<1>2. QED
  BY <1>1, EnrollInvariant, PTL

-----------------------------------------------------------------------------
(* The folders of the backup (FolderSelection).                            *)

Agreed(roots) == roots # {} /\ roots \cap Sensitive \subseteq consent \cup unasked

\* A list that was written: its sensitive names stay as they are.
InForm(roots) ==
    /\ roots \subseteq Selected!AllFolders
    /\ \A f \in roots \cap Sensitive : Clean[f] = f

\* Each list a backup may be made from: the file, the list of the service's
\* start and what a request of the page read and will write.
FolderInv ==
    /\ Agreed(file.roots) /\ Agreed(startup) /\ Agreed(backed) /\ InForm(file.roots)
    /\ post = [c \in Accounts |-> post[c]]
    /\ \A c \in Accounts :
          post[c].pc = "write" =>
             /\ post[c].want \subseteq Selected!AllFolders /\ InForm(post[c].others)
             /\ Selected!Cleaned(post[c].want \cap Sensitive) \subseteq consent
             /\ post[c].others \cap Sensitive \subseteq consent \cup unasked

LEMMA FoldersBegin ==
    ASSUME Selected!FolderAssumption, Selected!Init
    PROVE  FolderInv
<1>1. /\ file.roots = Installed /\ startup = Installed /\ backed = Installed
      /\ consent = Installed \cap Sensitive /\ post = [c \in Accounts |-> Selected!NoPost]
      /\ Selected!NoPost.pc = "none"
  BY DEF Selected!Init, Selected!NoPost
<1>2. QED
  BY <1>1 DEF Selected!FolderAssumption, FolderInv, Agreed, InForm

\* What is written is in form: a name that is sensitive when cleaned is clean.
LEMMA CleanedInForm ==
    ASSUME Selected!FolderAssumption, NEW roots \in SUBSET Selected!AllFolders
    PROVE  InForm(Selected!Cleaned(roots))
BY DEF Selected!FolderAssumption, Selected!Cleaned, Selected!Blank, InForm

\* A list was asked about name by name; the rest of it is in the history.
LEMMA AskedOrNot ==
    ASSUME NEW roots, NEW asked, NEW agreed,
           Selected!Cleaned(roots \cap asked) \cap Sensitive \subseteq agreed,
           Selected!Cleaned(roots \ asked) \cap Sensitive \subseteq agreed
    PROVE  Selected!Cleaned(roots) \cap Sensitive \subseteq agreed
BY DEF Selected!Cleaned

LEMMA PostReadsKept ==
    ASSUME FolderInv, NEW c \in Accounts, NEW chosen \in SUBSET Selected!AllFolders, NEW yes,
           Selected!PostReads(c, chosen, yes)
    PROVE  FolderInv'
<1>1. PICK S \in {file.roots, {}} :
          post' = [post EXCEPT ![c] = [pc |-> "write", want |-> chosen,
                                       others |-> {f \in S : Selected!Hidden(c, f)}]]
  BY DEF Selected!PostReads
<1> DEFINE others == {f \in S : Selected!Hidden(c, f)}
<1>2. consent \subseteq consent' /\ unasked' = unasked
  BY DEF Selected!PostReads
<1>3. Selected!Cleaned(chosen \cap Sensitive) \subseteq consent'
  <2>1. chosen \cap Sensitive \subseteq yes \cap chosen
    BY DEF Selected!PostReads, Selected!Unconfirmed
  <2>2. QED
    BY <2>1 DEF Selected!PostReads, Selected!Cleaned
<1>4. InForm(others) /\ others \cap Sensitive \subseteq consent' \cup unasked'
  BY <1>2 DEF FolderInv, Agreed, InForm
<1>5. \A a \in Accounts : post'[a].pc = "write" =>
          /\ post'[a].want \subseteq Selected!AllFolders /\ InForm(post'[a].others)
          /\ Selected!Cleaned(post'[a].want \cap Sensitive) \subseteq consent'
          /\ post'[a].others \cap Sensitive \subseteq consent' \cup unasked'
  <2> SUFFICES ASSUME NEW a \in Accounts, post'[a].pc = "write"
               PROVE  /\ post'[a].want \subseteq Selected!AllFolders /\ InForm(post'[a].others)
                      /\ Selected!Cleaned(post'[a].want \cap Sensitive) \subseteq consent'
                      /\ post'[a].others \cap Sensitive \subseteq consent' \cup unasked'
    OBVIOUS
  <2>1. CASE a = c
    <3>1. post'[c] = [pc |-> "write", want |-> chosen, others |-> others]
      BY <1>1 DEF FolderInv
    <3>2. post'[c].want = chosen /\ post'[c].others = others
      BY <3>1
    <3>3. QED
      BY <1>3, <1>4, <2>1, <3>2
  <2>2. CASE a # c
    <3>1. post'[a] = post[a]
      BY <1>1, <2>2 DEF FolderInv
    <3>2. QED
      BY <1>2, <3>1 DEF FolderInv
  <2>3. QED
    BY <2>1, <2>2
<1>6. post' = [a \in Accounts |-> post'[a]]
  BY <1>1 DEF FolderInv
<1>7. Agreed(file.roots)' /\ Agreed(startup)' /\ Agreed(backed)' /\ InForm(file.roots)'
  BY <1>2 DEF Selected!PostReads, FolderInv, Agreed, InForm
<1>8. QED
  BY <1>5, <1>6, <1>7 DEF FolderInv, InForm, Selected!AllFolders, Selected!Cleaned

\* What stays when a list is replaced: requests that were read before.
LEMMA PostsStay ==
    ASSUME FolderInv, consent \subseteq consent', unasked \subseteq unasked',
           NEW c \in Accounts, post' \in {post, [post EXCEPT ![c] = Selected!NoPost]},
           Agreed(file.roots)', InForm(file.roots)', UNCHANGED <<startup, backed>>
    PROVE  FolderInv'
<1>1. Selected!NoPost.pc = "none"
  BY DEF Selected!NoPost
<1>2. \A a \in Accounts : post'[a].pc = "write" => post'[a] = post[a]
  BY <1>1 DEF FolderInv
<1>3. post' = [a \in Accounts |-> post'[a]]
  BY DEF FolderInv
<1>4. \A a \in Accounts : post'[a].pc = "write" =>
          /\ post'[a].want \subseteq Selected!AllFolders /\ InForm(post'[a].others)
          /\ Selected!Cleaned(post'[a].want \cap Sensitive) \subseteq consent'
          /\ post'[a].others \cap Sensitive \subseteq consent' \cup unasked'
  BY <1>2 DEF FolderInv
<1>5. Agreed(startup)' /\ Agreed(backed)'
  BY DEF FolderInv, Agreed
<1>6. QED
  BY <1>3, <1>4, <1>5 DEF FolderInv, InForm, Selected!AllFolders, Selected!Cleaned

\* The file is replaced by a list that is not empty and was agreed to.
LEMMA PostWritesKept ==
    ASSUME Selected!FolderAssumption, FolderInv, NEW c \in Accounts, Selected!PostWrites(c)
    PROVE  FolderInv'
<1> DEFINE roots == post[c].want \cup post[c].others
<1>1. /\ file' = [roots |-> Selected!Cleaned(roots), rev |-> 0] /\ Selected!Cleaned(roots) # {}
      /\ post[c].pc = "write" /\ consent' = consent /\ UNCHANGED <<startup, backed>>
      /\ unasked' = unasked \cup (Selected!Cleaned(roots \ Sensitive) \cap Sensitive)
  BY DEF Selected!PostWrites, Selected!Replace, Selected!Refused
<1>2. file'.roots = Selected!Cleaned(roots)
  BY <1>1
<1>3. Selected!Cleaned(roots \cap Sensitive) \cap Sensitive \subseteq consent' \cup unasked'
  <2>1. /\ Selected!Cleaned(post[c].want \cap Sensitive) \subseteq consent
        /\ post[c].others \cap Sensitive \subseteq consent \cup unasked
        /\ \A f \in post[c].others \cap Sensitive : Clean[f] = f
    BY <1>1 DEF FolderInv, InForm
  <2>2. QED
    BY <1>1, <2>1 DEF Selected!Cleaned
<1>4. Selected!Cleaned(roots) \cap Sensitive \subseteq consent' \cup unasked'
  BY <1>1, <1>3, AskedOrNot
<1>5. roots \in SUBSET Selected!AllFolders
  BY <1>1 DEF FolderInv, InForm
<1>6. InForm(file.roots)'
  BY <1>2, <1>5, CleanedInForm DEF InForm, Selected!AllFolders
<1>7. Agreed(file.roots)'
  BY <1>1, <1>2, <1>4 DEF Agreed
<1>8. post' = [post EXCEPT ![c] = Selected!NoPost]
  BY DEF Selected!PostWrites
<1>9. QED
  BY <1>1, <1>6, <1>7, <1>8, PostsStay

LEMMA ApplyKept ==
    ASSUME Selected!FolderAssumption, FolderInv, NEW r \in DOMAIN Remote, Selected!Apply(r)
    PROVE  FolderInv'
<1>1. /\ consent' = consent \cup Selected!Cleaned(Remote[r] \cap PanelSensitive)
      /\ UNCHANGED <<startup, backed, post>>
  BY DEF Selected!Apply
<1>2. Remote[r] \in SUBSET Selected!AllFolders
  BY DEF Selected!FolderAssumption
<1>3. /\ unasked \subseteq unasked' /\ Agreed(file.roots)' /\ InForm(file.roots)'
  <2>1. CASE file.rev = r
    BY <1>1, <2>1 DEF Selected!Apply, FolderInv, Agreed, InForm, Selected!AllFolders
  <2>2. CASE file.rev # r
    <3>1. /\ file' = [roots |-> Selected!Cleaned(Remote[r]), rev |-> r]
          /\ Selected!Cleaned(Remote[r]) # {}
          /\ unasked' = unasked \cup (Selected!Cleaned(Remote[r] \ PanelSensitive) \cap Sensitive)
      BY <2>2 DEF Selected!Apply, Selected!Replace, Selected!Refused
    <3>2. file'.roots = Selected!Cleaned(Remote[r])
      BY <3>1
    <3>3. Selected!Cleaned(Remote[r]) \cap Sensitive \subseteq consent' \cup unasked'
      BY <1>1, <3>1, AskedOrNot
    <3>4. InForm(file.roots)'
      BY <1>2, <3>2, CleanedInForm DEF InForm, Selected!AllFolders
    <3>5. QED
      BY <3>1, <3>2, <3>3, <3>4 DEF Agreed
  <2>3. QED
    BY <2>1, <2>2
<1>4. QED
  <2>1. CASE Accounts = {}
    BY <1>1, <1>3, <2>1 DEF FolderInv, Agreed
  <2>2. CASE Accounts # {}
    BY <1>1, <1>3, <2>2, PostsStay
  <2>3. QED
    BY <2>1, <2>2

\* A read that fails gives no folder: the backup uses the list of the start.
LEMMA BackupKept ==
    ASSUME FolderInv, Selected!Backup
    PROVE  FolderInv'
<1>1. PICK S \in {file.roots, {}} : backed' = Selected!SourceRoots(S)
  BY DEF Selected!Backup
<1>2. Agreed(backed')
  BY <1>1 DEF Selected!SourceRoots, FolderInv
<1>3. QED
  BY <1>2 DEF Selected!Backup, FolderInv, Agreed, InForm,
     Selected!AllFolders, Selected!Cleaned

LEMMA FolderRestartKept ==
    ASSUME FolderInv, Selected!Restart
    PROVE  FolderInv'
<1>1. post' = [c \in Accounts |-> Selected!NoPost] /\ Selected!NoPost.pc = "none"
  BY DEF Selected!Restart, Selected!NoPost
<1>2. QED
  BY <1>1 DEF Selected!Restart, FolderInv, Agreed, InForm, Selected!AllFolders

LEMMA FoldersKept ==
    ASSUME Selected!FolderAssumption, FolderInv, [Selected!Next]_(Selected!vars)
    PROVE  FolderInv'
<1>1. ASSUME NEW c \in Accounts, Selected!PostRefused(c)
      PROVE  FolderInv'
  <2>1. post' = [post EXCEPT ![c] = Selected!NoPost] /\ Selected!NoPost.pc = "none"
    BY <1>1 DEF Selected!PostRefused, Selected!NoPost
  <2>2. QED
    BY <1>1, <2>1 DEF Selected!PostRefused, FolderInv, Agreed, InForm,
     Selected!AllFolders, Selected!Cleaned
<1>2. ASSUME NEW r \in DOMAIN Remote,
             Selected!ApplyRefused(r) \/ Selected!Finished(r) \/ Selected!AdminSaves(r)
      PROVE  FolderInv'
  BY <1>2 DEF Selected!ApplyRefused, Selected!Finished, Selected!AdminSaves, FolderInv, Agreed, InForm,
     Selected!AllFolders, Selected!Cleaned
<1>3. ASSUME NEW m \in reports, Selected!Arrives(m) \/ Selected!Lost(m)
      PROVE  FolderInv'
  BY <1>3 DEF Selected!Arrives, Selected!Lost, FolderInv, Agreed, InForm,
     Selected!AllFolders, Selected!Cleaned
<1>4. CASE UNCHANGED Selected!vars
  BY <1>4 DEF Selected!vars, FolderInv, Agreed, InForm,
     Selected!AllFolders, Selected!Cleaned
<1>5. QED
  BY <1>1, <1>2, <1>3, <1>4, PostReadsKept, PostWritesKept, ApplyKept, BackupKept, FolderRestartKept
     DEF Selected!Next

-----------------------------------------------------------------------------
(* The computer: each part behaves as it does alone.                       *)

LEMMA PartsAreTheirs ==
    ASSUME [PartsNext]_<<part, pageVars, folderVars, vars>>
    PROVE  /\ [Page!Next]_(Page!vars)
           /\ [Selected!Next]_(Selected!vars)
           /\ [Next]_vars
BY DEF PartsNext, pageVars, folderVars, vars, Page!vars, Page!agent, Page!person, Page!life, Selected!vars

\* What an installation, the page and the folders do on one computer is what
\* Enrollment, DesktopPage and FolderSelection say they do.
THEOREM ComputerImplementsParts ==
    PartsSpec => Page!Spec /\ Selected!Spec /\ Spec
<1>1. PartsInit => Page!Init /\ Selected!Init /\ Init
  BY DEF PartsInit
<1>2. [PartsNext]_<<part, pageVars, folderVars, vars>> =>
          [Page!Next]_(Page!vars) /\ [Selected!Next]_(Selected!vars) /\ [Next]_vars
  BY PartsAreTheirs
<1>3. QED
  BY <1>1, <1>2, PTL DEF PartsSpec, Page!Spec, Selected!Spec, Spec

\* Each backup has folders, and no sensitive one without a consent but those
\* listed under a name nobody is asked about, whatever the page, the
\* administrator, failing reads and restarts do in between (source_roots.go
\* currentSourceRoots, localui.go, apply_selection.go).
THEOREM BackupsHaveAgreedRoots ==
    ASSUME Selected!FolderAssumption
    PROVE  PartsSpec => []BackupHasRoots
<1>1. Selected!Init => FolderInv
  BY FoldersBegin
<1>2. FolderInv /\ [Selected!Next]_(Selected!vars) => FolderInv'
  BY FoldersKept
<1>3. FolderInv => BackupHasRoots
  BY DEF FolderInv, Agreed, BackupHasRoots, Selected!BackupHasRoots
<1>4. QED
  BY <1>1, <1>2, <1>3, ComputerImplementsParts, PTL DEF Selected!Spec

-----------------------------------------------------------------------------
(* The page of the computer.  What DesktopPageProofs shows of DesktopPage   *)
(* holds of this instance of it: both are the same formulas, given here by  *)
(* the expansion of their definitions.                                      *)

PageProof == INSTANCE DesktopPageProofs WITH MaxFaults <- MaxEnds, faults <- ends

LEMMA SamePageAssumption ==
    ASSUME Page!PageAssumption
    PROVE  PageProof!PageAssumption
BY DEF Page!PageAssumption, PageProof!PageAssumption, Page!Roots, PageProof!Roots, Page!Names,
       PageProof!Names, Page!Keys, PageProof!Keys

LEMMA SamePageSpec ==
    Page!Spec => PageProof!Spec
<1>1. Page!Init => PageProof!Init
  BY DEF Page!Init, PageProof!Init, Page!Ids, PageProof!Ids
<1>2. Page!Next => PageProof!Next
  BY Zenon
     DEF
       Page!Ids, Page!Nowhere, Page!Staged, Page!life, PageProof!life, Page!Reports,
       PageProof!Reports, Page!agent, Page!person, Page!vars, Page!Within, Page!OtherProfiles,
       Page!Hidden, Page!MayRestore, Page!Newest, Page!Keep, Page!Init, Page!Listed, Page!Save,
       Page!Set, Page!StartAs, Page!RunTo, Page!NotAdmitted, Page!Prepared, Page!RestoreFails,
       Page!Restored, Page!Granted, Page!Removed, Page!Outcome, Page!Settle, Page!Cancel,
       Page!ReportOnce, Page!Timer, Page!Send, Page!World, Page!DeliverStart, Page!Becomes,
       Page!Fails, Page!Missing, Page!PickFolder, Page!MakeFolder, Page!Written, Page!Taken,
       Page!Create, Page!Occupied, Page!Copied, Page!CopyFails, Page!Reportable, Page!Delivered,
       Page!DeliveredReports, Page!Posted, Page!Stop, Page!Ends, Page!EndsDelivering, Page!Starts,
       Page!Restore, Page!Copy, Page!Next, Page!Cardinality, Page!Min, Page!IsPrefix, PageProof!Ids,
       PageProof!Nowhere, PageProof!Staged, PageProof!agent, PageProof!person, PageProof!vars,
       PageProof!Within, PageProof!OtherProfiles, PageProof!Hidden, PageProof!MayRestore,
       PageProof!Newest, PageProof!Keep, PageProof!Init, PageProof!Listed, PageProof!Save,
       PageProof!Set, PageProof!StartAs, PageProof!RunTo, PageProof!NotAdmitted, PageProof!Prepared,
       PageProof!RestoreFails, PageProof!Restored, PageProof!Granted, PageProof!Removed,
       PageProof!Outcome, PageProof!Settle, PageProof!Cancel, PageProof!ReportOnce, PageProof!Timer,
       PageProof!Send, PageProof!World, PageProof!DeliverStart, PageProof!Becomes, PageProof!Fails,
       PageProof!Missing, PageProof!PickFolder, PageProof!MakeFolder, PageProof!Written,
       PageProof!Taken, PageProof!Create, PageProof!Occupied, PageProof!Copied, PageProof!CopyFails,
       PageProof!Reportable, PageProof!Delivered, PageProof!DeliveredReports, PageProof!Posted,
       PageProof!Stop, PageProof!Ends, PageProof!EndsDelivering, PageProof!Starts,
       PageProof!Restore, PageProof!Copy, PageProof!Next, PageProof!Cardinality, PageProof!Min,
       PageProof!IsPrefix
<1>3. UNCHANGED Page!vars => UNCHANGED PageProof!vars
  BY DEF Page!vars, Page!agent, Page!person, Page!life, PageProof!vars, PageProof!agent,
         PageProof!person,
         PageProof!life
<1>4. QED
  BY <1>1, <1>2, <1>3, PTL DEF Page!Spec, PageProof!Spec

\* The page shows only files of the account that asks, and a restore by a
\* selection that takes what is at or below the path it names fetches no others
\* (localcaller.go mayRestore, restorebrowse.go).
THEOREM ComputerShowsOwnFiles ==
    ASSUME Page!PageAssumption
    PROVE  PartsSpec => []OwnFilesOnly
<1>1. PageProof!Spec => []PageProof!OwnFilesOnly
  BY SamePageAssumption, PageProof!RestoresOwnFiles
<1>2. PageProof!OwnFilesOnly => OwnFilesOnly
  BY Zenon DEF OwnFilesOnly, ShowsOwn, PageProof!OwnFilesOnly, PageProof!RestoresOwn, Page!RestoresOwn,
     PageProof!Literal, Page!Literal, PageProof!ShowsOwn, Page!ShowsOwn,
     PageProof!Foreign, Page!Foreign, PageProof!Visible, Page!Visible, PageProof!Hidden, Page!Hidden,
     PageProof!Within, Page!Within, PageProof!OtherProfiles, Page!OtherProfiles, PageProof!Listed, Page!Listed,
     PageProof!IsPrefix, Page!IsPrefix, PageProof!IsStrictPrefix, Page!IsStrictPrefix
<1>3. QED
  BY <1>1, <1>2, ComputerImplementsParts, SamePageSpec, PTL

\* A cancellation that was accepted counts on every computer
\* (localrestore.go Cancel and the end of run).
THEOREM ComputerHonoursCancel ==
    ASSUME Page!PageAssumption
    PROVE  PartsSpec => []CancelHonoured
<1>1. PageProof!Spec => []PageProof!CancelHonoured
  BY SamePageAssumption, PageProof!CancellationsCount
<1>2. PageProof!CancelHonoured => CancelHonoured
  BY DEF CancelHonoured, PageProof!CancelHonoured, Page!CancelHonoured, PageProof!Listed, Page!Listed
<1>3. QED
  BY <1>1, <1>2, ComputerImplementsParts, SamePageSpec, PTL

\* The files of a restore that shows as done are staged or with the person
\* (localrestore.go Delivered, deliver.go).
THEOREM ComputerLosesNothing ==
    ASSUME Page!PageAssumption
    PROVE  PartsSpec => []NothingLost
<1>1. PageProof!Spec => []PageProof!NothingLost
  BY SamePageAssumption, PageProof!RestoredFilesStay
<1>2. PageProof!NothingLost => NothingLost
  BY DEF NothingLost, PageProof!NothingLost, Page!NothingLost, PageProof!Listed, Page!Listed,
     PageProof!HasCopy, Page!HasCopy
<1>3. QED
  BY <1>1, <1>2, ComputerImplementsParts, SamePageSpec, PTL

\* A restore is reported once at most, unless the process ended after the report
\* and its mark was in no save that worked (localrestore.go reportOnce, saveLocked).
THEOREM ComputerReportsOnce ==
    ASSUME Page!PageAssumption
    PROVE  PartsSpec => []ReportedOnce
<1>1. PageProof!Spec => []PageProof!ReportedOnce
  BY SamePageAssumption, PageProof!RestoresReportedOnce
<1>2. PageProof!ReportedOnce => ReportedOnce
  BY Zenon DEF ReportedOnce, PageProof!ReportedOnce, Page!ReportedOnce, PageProof!Reports,
               Page!Reports, PageProof!Ids, Page!Ids,
     PageProof!Cardinality, Page!Cardinality
<1>3. QED
  BY <1>1, <1>2, ComputerImplementsParts, SamePageSpec, PTL

\* No delivery replaces a whole copy (deliver.go copyFile).
THEOREM ComputerKeepsCopies ==
    ASSUME Page!PageAssumption
    PROVE  PartsSpec => CopiesKept
<1>1. PageProof!Spec => PageProof!CopiesKept
  BY SamePageAssumption, PageProof!DeliveriesNeverOverwrite
<1>2. UNCHANGED PageProof!vars => UNCHANGED Page!vars
  BY DEF Page!vars, Page!agent, Page!person, Page!life, PageProof!vars, PageProof!agent,
         PageProof!person,
         PageProof!life
<1>3. QED
  BY <1>1, <1>2, ComputerImplementsParts, SamePageSpec, PTL
     DEF CopiesKept, Page!CopiesKept, PageProof!CopiesKept
=============================================================================
