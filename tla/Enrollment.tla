------------------------------ MODULE Enrollment ------------------------------
(***************************************************************************)
(* How a computer becomes a device: the setup wizard signs in with a setup  *)
(* code, mints a token and starts `control enroll` (wizard.py do_install,   *)
(* enroll.go Run); the control plane turns the token into a device and its  *)
(* credentials and tells the gateway after the commit (services.py          *)
(* enroll_agent, revoke_device); the gateway keeps its own registry.        *)
(* A handler goes on when its caller has left, and a call to the gateway    *)
(* may still be executed when the control plane has given it up.  One       *)
(* installation runs at a time on a computer.                               *)
(***************************************************************************)
EXTENDS Integers, FiniteSets

CONSTANTS
    Computers,
    Codes,          \* setup codes
    MaxUses,        \* installations a code is good for
    LabMode,        \* settings.lab_mode: failures of the gateway are ignored
    MaxTokens,      \* bound: tokens minted
    MaxRequests,    \* bound: enrollment requests, which are also the device ids
    MaxRevokes,     \* bound: revocations and aborts
    MaxEdits,       \* bound: archived and unarchived devices
    MaxFaults       \* bound: stops, lost answers, failed writes

EnrollmentAssumption ==
    /\ MaxUses \in Nat /\ MaxTokens \in Nat /\ MaxRequests \in Nat /\ MaxRevokes \in Nat
    /\ MaxEdits \in Nat /\ MaxFaults \in Nat /\ LabMode \in BOOLEAN
    /\ \A who \in {"admin", "none"} : who \notin Codes /\ who \notin Computers

Actors == Codes \cup {"admin"}
Tokens == 1..MaxTokens
Devices == 1..MaxRequests
Torn == MaxRequests + 1     \* a file whose write was cut off

VARIABLES
    code,       \* setup_codes; opened: its sessions, reading: sign-ins under way
    comp,       \* the installation on each computer
    disk,       \* the device pilot.json and the two envelopes are of; 0: none
    tok,        \* enrollment_tokens: who minted it, and whether it was used
    req,        \* enrollment requests, and their call to the gateway
    dev,        \* devices: lifecycle, valid credentials; edit: an archive handler
    rev,        \* revocations by the operator (by = "admin") and aborts
    gate,       \* the gateway's registry
    strays,     \* history: devices an installation went past or could not abort,
                \* and revoked ones that were archived all the same
    faults

vars == <<code, comp, disk, tok, req, dev, rev, gate, strays, faults>>

NoInstall == [pc |-> "idle", by |-> "admin", live |-> FALSE, tok |-> 0, dev |-> 0, done |-> FALSE]
Enrolled == [NoInstall EXCEPT !.done = TRUE]
NoRequest == [pc |-> "none", tok |-> 0, comp |-> "none", note |-> "none"]
NoRevoke == [pc |-> "none", dev |-> 0, by |-> "none", note |-> "none", settled |-> FALSE]

Init ==
    /\ code = [a \in Codes |-> [uses |-> 0, opened |-> 0, reading |-> 0, revoked |-> FALSE]]
    /\ comp = [c \in Computers |-> NoInstall]
    /\ disk = [c \in Computers |-> [cfg |-> 0, control |-> 0, gateway |-> 0]]
    /\ tok = [t \in Tokens |-> [by |-> "none", used |-> FALSE]]
    /\ req = [h \in Devices |-> NoRequest]
    /\ dev = [d \in Devices |-> [life |-> "none", keys |-> FALSE, edit |-> "none"]]
    /\ rev = [k \in 1..MaxRevokes |-> NoRevoke]
    /\ gate = [d \in Devices |-> "none"]
    /\ strays = {} /\ faults = 0

Fault == faults < MaxFaults /\ faults' = faults + 1

\* Rows are used in their order.
First(S) == {i \in S : \A j \in S : i <= j}

-----------------------------------------------------------------------------
(* Setup codes and sessions.                                               *)

\* _live_setup_code.
LiveCode(a) == ~code[a].revoked /\ code[a].uses < MaxUses

\* do_install: a pilot.json that cannot be parsed ends it before it begins.
\* The handler of the sign-in reads the code and finds it live.
StartInstall(c, a) ==
    /\ comp[c].pc = "idle" /\ disk[c].cfg # Torn /\ \E t \in Tokens : tok[t].by = "none"
    /\ IF a = "admin" THEN UNCHANGED code
       ELSE LiveCode(a) /\ code' = [code EXCEPT ![a].reading = @ + 1]
    /\ comp' = [comp EXCEPT ![c] = [NoInstall EXCEPT !.by = a, !.live = a = "admin",
                                    !.pc = IF a = "admin" THEN "signed" ELSE "login"]]
    /\ UNCHANGED <<disk, tok, req, dev, rev, gate, strays, faults>>

\* setup_code_login: the UPDATE checks again what was read, but for the
\* revocation.
UseLeft(a) == code[a].uses < MaxUses

\* The answer goes to an installation that waits, or to one that has left.
SetupCodeLogin(a) ==
    LET waiting == {c \in Computers : comp[c].pc = "login" /\ comp[c].by = a} IN
    /\ code[a].reading > 0
    /\ code' = [code EXCEPT ![a].reading = @ - 1, ![a].uses = IF UseLeft(a) THEN @ + 1 ELSE @,
                            ![a].opened = IF UseLeft(a) THEN @ + 1 ELSE @]
    /\ \/ \E c \in waiting :
             comp' = [comp EXCEPT ![c] = IF UseLeft(a) THEN [@ EXCEPT !.pc = "signed", !.live = TRUE]
                                         ELSE NoInstall]
       \/ code[a].reading > Cardinality(waiting) /\ UNCHANGED comp
    /\ UNCHANGED <<disk, tok, req, dev, rev, gate, strays, faults>>

\* revoke_setup_code: the sessions it has opened end with it.
RevokeCode(a) ==
    /\ ~code[a].revoked
    /\ code' = [code EXCEPT ![a].revoked = TRUE]
    /\ comp' = [c \in Computers |-> IF comp[c].by = a THEN [comp[c] EXCEPT !.live = FALSE] ELSE comp[c]]
    /\ UNCHANGED <<disk, tok, req, dev, rev, gate, strays, faults>>

-----------------------------------------------------------------------------
(* The wizard.                                                             *)

\* installer_may_touch: a session of a setup code sees only what was enrolled
\* with tokens minted under that code.
MayTouch(a, d) == a = "admin" \/ tok[req[d].tok].by = a

\* Mutated form of StillValid: a revoked device is taken for valid.
StillValid_Named(c) ==
    LET d == disk[c].cfg IN d # 0 /\ comp[c].live /\ MayTouch(comp[c].by, d)

\* _enrollment_still_valid.
StillValid(c) ==
    LET d == disk[c].cfg IN
    d # 0 /\ comp[c].live /\ MayTouch(comp[c].by, d) /\ dev[d].life = "ACTIVE"

Reuse(c) ==
    /\ comp[c].pc = "signed" /\ StillValid(c)
    /\ comp' = [comp EXCEPT ![c] = Enrolled]
    /\ UNCHANGED <<code, disk, tok, req, dev, rev, gate, strays, faults>>

\* mint_enrollment_token for a device that is not found valid, or whose page
\* could not be read.
MintToken(c) ==
    /\ comp[c].pc = "signed" /\ ((~StillValid(c) /\ UNCHANGED faults) \/ (StillValid(c) /\ Fault))
    /\ \E t \in First({i \in Tokens : tok[i].by = "none"}) :
          IF comp[c].live
          THEN /\ tok' = [tok EXCEPT ![t].by = comp[c].by]
               /\ comp' = [comp EXCEPT ![c].pc = "run", ![c].tok = t]
          ELSE comp' = [comp EXCEPT ![c] = NoInstall] /\ UNCHANGED tok
    /\ UNCHANGED <<code, disk, req, dev, rev, gate, strays>>

\* `control enroll` by hand, with a token that the panel has shown an operator.
EnrollByHand(c, t) ==
    /\ comp[c].pc = "idle" /\ tok[t].by = "admin"
    /\ comp' = [comp EXCEPT ![c] = [NoInstall EXCEPT !.pc = "run", !.tok = t]]
    /\ UNCHANGED <<code, disk, tok, req, dev, rev, gate, strays, faults>>

-----------------------------------------------------------------------------
(* enroll.go.                                                              *)

\* Preflight passed; Client.Enroll.
Ask(c) ==
    /\ comp[c].pc = "run"
    /\ \E h \in First({i \in Devices : req[i].pc = "none"}) :
          /\ req' = [req EXCEPT ![h] = [NoRequest EXCEPT !.pc = "sent", !.tok = comp[c].tok, !.comp = c]]
          /\ comp' = [comp EXCEPT ![c].pc = "asking", ![c].tok = 0, ![c].dev = h]
    /\ strays' = strays \cup ({disk[c].cfg} \cap Devices)
    /\ UNCHANGED <<code, disk, tok, dev, rev, gate, faults>>

Answered(c) ==
    /\ comp[c].pc = "asking"
    /\ \/ /\ req[comp[c].dev].pc = "ok"
          /\ comp' = [comp EXCEPT ![c].pc = "control"]
       \/ /\ req[comp[c].dev].pc \in {"refused", "failed"}
          /\ comp' = [comp EXCEPT ![c] = NoInstall]
    /\ UNCHANGED <<code, disk, tok, req, dev, rev, gate, strays, faults>>

\* writeEnvelopes: the control envelope, then the gateway's.
Seal(c) ==
    LET d == comp[c].dev IN
    /\ \/ /\ comp[c].pc = "control" /\ disk' = [disk EXCEPT ![c].control = d]
          /\ comp' = [comp EXCEPT ![c].pc = "gateway"]
       \/ /\ comp[c].pc = "gateway" /\ disk' = [disk EXCEPT ![c].gateway = d]
          /\ comp' = [comp EXCEPT ![c].pc = "persist"]
    /\ UNCHANGED <<code, tok, req, dev, rev, gate, strays, faults>>

\* scrubEnrollmentFiles.
Scrubbed(f) == [f EXCEPT !.control = 0, !.gateway = 0]

\* An envelope or its ACL fails.
SealFails(c) ==
    /\ comp[c].pc \in {"control", "gateway", "persist"} /\ Fault
    /\ disk' = [disk EXCEPT ![c] = Scrubbed(@)]
    /\ comp' = [comp EXCEPT ![c].pc = "abort"]
    /\ UNCHANGED <<code, tok, req, dev, rev, gate, strays>>

\* persistConfig; Run returns the device.
Persist(c) ==
    /\ comp[c].pc = "persist"
    /\ disk' = [disk EXCEPT ![c].cfg = comp[c].dev]
    /\ comp' = [comp EXCEPT ![c] = Enrolled]
    /\ UNCHANGED <<code, tok, req, dev, rev, gate, strays, faults>>

\* os.WriteFile fails: the old configuration is written back, which may fail
\* too and leave the new one, a part of it or the old one.
PersistFails(c) ==
    LET old == IF disk[c].cfg = Torn THEN 0 ELSE disk[c].cfg IN
    /\ comp[c].pc = "persist"
    /\ \/ Fault /\ disk' = [disk EXCEPT ![c] = [Scrubbed(@) EXCEPT !.cfg = old]]
       \/ /\ faults + 2 <= MaxFaults /\ faults' = faults + 2
          /\ \E left \in {disk[c].cfg, Torn, comp[c].dev} :
                disk' = [disk EXCEPT ![c] = [Scrubbed(@) EXCEPT !.cfg = left]]
    /\ comp' = [comp EXCEPT ![c].pc = "abort"]
    /\ UNCHANGED <<code, tok, req, dev, rev, gate, strays>>

\* AbortEnrollment: the last thing Run does, whatever comes of it.
Abort(c) ==
    /\ comp[c].pc = "abort"
    /\ \E k \in First({i \in 1..MaxRevokes : rev[i].pc = "none"}) :
          /\ rev' = [rev EXCEPT ![k] = [NoRevoke EXCEPT !.pc = "sent", !.dev = comp[c].dev, !.by = c]]
          /\ comp' = [comp EXCEPT ![c].pc = "aborting", ![c].tok = k]
    /\ UNCHANGED <<code, disk, tok, req, dev, gate, strays, faults>>

Aborted(c) ==
    LET r == rev[comp[c].tok] IN
    /\ comp[c].pc = "aborting" /\ r.pc \in {"ok", "refused", "failed"}
    /\ strays' = IF r.pc = "ok" THEN strays ELSE strays \cup {comp[c].dev}
    /\ comp' = [comp EXCEPT ![c] = NoInstall]
    /\ UNCHANGED <<code, disk, tok, req, dev, rev, gate, faults>>

\* The call times out, the program is ended or power fails; a file that was
\* being written may be cut off.
Stop(c) ==
    /\ comp[c].pc # "idle" /\ Fault
    /\ \E cut \in BOOLEAN :
          disk' = IF ~cut THEN disk
                  ELSE CASE comp[c].pc = "control" -> [disk EXCEPT ![c].control = 0]
                         [] comp[c].pc = "gateway" -> [disk EXCEPT ![c].gateway = 0]
                         [] comp[c].pc = "persist" -> [disk EXCEPT ![c].cfg = Torn]
                         [] OTHER -> disk
    /\ strays' = IF comp[c].pc \in {"abort", "aborting"} THEN strays \cup {comp[c].dev} ELSE strays
    /\ comp' = [comp EXCEPT ![c] = NoInstall]
    /\ UNCHANGED <<code, tok, req, dev, rev, gate>>

\* `config write` in the place of a file that cannot be parsed.
WriteConfig(c) ==
    /\ comp[c].pc = "idle" /\ disk[c].cfg = Torn
    /\ disk' = [disk EXCEPT ![c].cfg = 0]
    /\ UNCHANGED <<code, comp, tok, req, dev, rev, gate, strays, faults>>

-----------------------------------------------------------------------------
(* The control plane.                                                      *)

\* Mutated form of Unused: the UPDATE has no condition.
Unused_Read(t) == TRUE

\* The condition of the UPDATE that consumes a token.
Unused(t) == ~tok[t].used

\* enroll_agent reads the token, which may also have expired.
EnrollReads(h) ==
    /\ req[h].pc = "sent"
    /\ \/ /\ ~tok[req[h].tok].used /\ UNCHANGED faults
          /\ req' = [req EXCEPT ![h].pc = "read"]
       \/ /\ ((tok[req[h].tok].used /\ UNCHANGED faults) \/ Fault)
          /\ req' = [req EXCEPT ![h].pc = "refused"]
    /\ UNCHANGED <<code, comp, disk, tok, dev, rev, gate, strays>>

\* The UPDATE that consumes the token, the device and its credentials are one
\* commit; the call to the gateway is sent after it.
EnrollCommits(h) ==
    LET t == req[h].tok IN
    /\ req[h].pc = "read"
    /\ IF Unused(t)
       THEN /\ tok' = [tok EXCEPT ![t].used = TRUE]
            /\ dev' = [dev EXCEPT ![h] = [life |-> "ACTIVE", keys |-> TRUE, edit |-> "none"]]
            /\ req' = [req EXCEPT ![h].pc = "telling", ![h].note = "sent"]
       ELSE req' = [req EXCEPT ![h].pc = "refused"] /\ UNCHANGED <<tok, dev>>
    /\ UNCHANGED <<code, comp, disk, rev, gate, strays, faults>>

\* device_from_control_secret, for an abort; an operator needs no more than
\* the device.
MayRevoke(k) == LET d == rev[k].dev IN rev[k].by = "admin" \/ (dev[d].keys /\ dev[d].life = "ACTIVE")

\* admin_revoke of a device in the panel.
AdminRevokes(d) ==
    /\ dev[d].life # "none"
    /\ \E k \in First({i \in 1..MaxRevokes : rev[i].pc = "none"}) :
          rev' = [rev EXCEPT ![k] = [NoRevoke EXCEPT !.pc = "sent", !.dev = d, !.by = "admin",
                                     !.settled = req[d].pc = "ok"]]
    /\ UNCHANGED <<code, comp, disk, tok, req, dev, gate, strays, faults>>

\* revoke_device: the commit, then the call to the gateway.
RevokeCommits(k) ==
    /\ rev[k].pc = "sent"
    /\ IF MayRevoke(k)
       THEN /\ dev' = [dev EXCEPT ![rev[k].dev].life = "QUARANTINED", ![rev[k].dev].keys = FALSE]
            /\ rev' = [rev EXCEPT ![k].pc = "telling", ![k].note = "sent"]
       ELSE rev' = [rev EXCEPT ![k].pc = "refused"] /\ UNCHANGED dev
    /\ UNCHANGED <<code, comp, disk, tok, req, gate, strays, faults>>

\* archive_device and unarchive_device: the lifecycle is checked when the row
\* is loaded and written whatever it has become.
EditLoads(d) ==
    /\ dev[d].edit = "none" /\ Cardinality({e \in Devices : dev[e].edit # "none"}) < MaxEdits
    /\ dev[d].life \in {"ACTIVE", "ARCHIVED"}
    /\ dev' = [dev EXCEPT ![d].edit = IF dev[d].life = "ACTIVE" THEN "ARCHIVED" ELSE "ACTIVE"]
    /\ UNCHANGED <<code, comp, disk, tok, req, rev, gate, strays, faults>>

EditCommits(d) ==
    /\ dev[d].edit # "none"
    /\ dev' = [dev EXCEPT ![d].life = dev[d].edit, ![d].edit = "none"]
    /\ strays' = IF dev[d].keys THEN strays ELSE strays \cup {d}
    /\ UNCHANGED <<code, comp, disk, tok, req, rev, gate, faults>>

\* Mutated form of NotifyResult: a failure is ignored everywhere.
NotifyResult_Ignored == "ok"

\* notify_gateway: what a failed call becomes.
NotifyResult == IF LabMode THEN "ok" ELSE "failed"

\* The call fails: it was lost, or is still to be executed, or was executed.
NotifyFails ==
    /\ Fault
    /\ \E lost \in BOOLEAN :
          \/ \E h \in Devices :
                /\ req[h].pc = "telling"
                /\ req' = [req EXCEPT ![h].pc = NotifyResult,
                                      ![h].note = IF lost /\ @ = "sent" THEN "lost" ELSE @]
                /\ UNCHANGED rev
          \/ \E k \in 1..MaxRevokes :
                /\ rev[k].pc = "telling"
                /\ rev' = [rev EXCEPT ![k].pc = NotifyResult,
                                      ![k].note = IF lost /\ @ = "sent" THEN "lost" ELSE @]
                /\ UNCHANGED req
    /\ UNCHANGED <<code, comp, disk, tok, dev, gate, strays>>

NotifyOk ==
    /\ \/ \E h \in Devices :
             /\ req[h].pc = "telling" /\ req[h].note = "done"
             /\ req' = [req EXCEPT ![h].pc = "ok"]
             /\ UNCHANGED rev
       \/ \E k \in 1..MaxRevokes :
             /\ rev[k].pc = "telling" /\ rev[k].note = "done"
             /\ rev' = [rev EXCEPT ![k].pc = "ok"]
             /\ UNCHANGED req
    /\ UNCHANGED <<code, comp, disk, tok, dev, gate, strays, faults>>

-----------------------------------------------------------------------------
(* The gateway: put_record, one request at a time.                         *)

PutRecord ==
    /\ \/ \E h \in Devices :
             /\ req[h].note = "sent"
             /\ req' = [req EXCEPT ![h].note = "done"]
             /\ gate' = [gate EXCEPT ![h] = "open"]
             /\ UNCHANGED rev
       \/ \E k \in 1..MaxRevokes :
             /\ rev[k].note = "sent"
             /\ rev' = [rev EXCEPT ![k].note = "done"]
             /\ gate' = [gate EXCEPT ![rev[k].dev] = "revoked"]
             /\ UNCHANGED req
    /\ UNCHANGED <<code, comp, disk, tok, dev, strays, faults>>

-----------------------------------------------------------------------------
Next ==
    \/ \E c \in Computers :
          \/ \E a \in Actors : StartInstall(c, a)
          \/ Reuse(c) \/ MintToken(c)
          \/ \E t \in Tokens : EnrollByHand(c, t)
          \/ Ask(c) \/ Answered(c) \/ Seal(c) \/ SealFails(c) \/ Persist(c) \/ PersistFails(c)
          \/ Abort(c) \/ Aborted(c) \/ Stop(c) \/ WriteConfig(c)
    \/ \E a \in Codes : SetupCodeLogin(a) \/ RevokeCode(a)
    \/ \E d \in Devices : EnrollReads(d) \/ EnrollCommits(d) \/ AdminRevokes(d) \/ EditLoads(d) \/ EditCommits(d)
    \/ \E k \in 1..MaxRevokes : RevokeCommits(k)
    \/ NotifyFails \/ NotifyOk \/ PutRecord

Spec == Init /\ [][Next]_vars

-----------------------------------------------------------------------------
(* Properties.                                                             *)

\* A token makes one device and a setup code opens no more installations than
\* it is good for (services.py, the conditional UPDATEs of enroll_agent and
\* setup_code_login), whoever else has read them in the meantime.
SingleUse ==
    /\ \A d, e \in Devices : dev[d].life # "none" /\ dev[e].life # "none" /\ req[d].tok = req[e].tok => d = e
    /\ \A a \in Codes : code[a].opened <= MaxUses

\* When an installation reports the computer as enrolled, the agent can work:
\* the configuration and both envelopes are of one device and the gateway has
\* been told of it (wizard.py do_install, enroll.go persistLocal).  Excepted
\* is a device that an earlier installation went past or could not abort, or
\* that came back from the archive without its credentials.
InstalledWorks ==
    \A c \in Computers :
        LET d == disk[c].cfg IN
        comp[c].done /\ d \notin strays =>
            /\ d \in Devices /\ disk[c].control = d /\ disk[c].gateway = d
            /\ LabMode \/ gate[d] # "none"

\* A device that was aborted or revoked with an answer is refused by the
\* control plane and by the gateway from then on, although its registration is
\* a call of another handler (services.py enroll_agent, revoke_device).  The
\* operator's revocation counts when the enrollment had been answered.
RefusedForGood ==
    LabMode \/ \A k \in 1..MaxRevokes :
        rev[k].pc = "ok" /\ (rev[k].settled \/ rev[k].by \in Computers) =>
            ~dev[rev[k].dev].keys /\ gate[rev[k].dev] = "revoked"

-----------------------------------------------------------------------------
(* The inductive invariant behind the three.                               *)

Waiting == {"control", "gateway", "persist", "abort"}

CodeType == [uses : Nat, opened : Nat, reading : Nat, revoked : BOOLEAN]
Steps == {"idle", "login", "signed", "run", "asking", "aborting"} \cup Waiting
CompType == [pc : Steps, by : Actors, live : BOOLEAN, tok : Nat,
             dev : {0} \cup Devices, done : BOOLEAN]
DiskType == [cfg : {0, Torn} \cup Devices, control : {0} \cup Devices, gateway : {0} \cup Devices]
TokenType == [by : Actors \cup {"none"}, used : BOOLEAN]
Notes == {"none", "sent", "lost", "done"}
ReqSteps == {"none", "sent", "read", "refused", "telling", "ok", "failed"}
ReqType == [pc : ReqSteps, tok : {0} \cup Tokens, comp : Computers \cup {"none"}, note : Notes]
Lives == {"none", "ACTIVE", "ARCHIVED", "QUARANTINED"}
DevType == [life : Lives, keys : BOOLEAN, edit : {"none", "ACTIVE", "ARCHIVED"}]
RevSteps == {"none", "sent", "refused", "telling", "ok", "failed"}
RevType == [pc : RevSteps, dev : {0} \cup Devices,
            by : Computers \cup {"admin", "none"}, note : Notes, settled : BOOLEAN]

TypeOK ==
    /\ code \in [Codes -> CodeType]
    /\ comp \in [Computers -> CompType]
    /\ disk \in [Computers -> DiskType]
    /\ tok \in [Tokens -> TokenType]
    /\ req \in [Devices -> ReqType]
    /\ dev \in [Devices -> DevType]
    /\ rev \in [1..MaxRevokes -> RevType]
    /\ gate \in [Devices -> {"none", "open", "revoked"}]
    /\ strays \in SUBSET Devices /\ faults \in Nat

\* Every session a code has opened was counted as a use of it.
CodeShape == \A a \in Codes : code[a].opened = code[a].uses /\ code[a].uses <= MaxUses

\* A device exists when its request has committed, and its token is used.
ReqShape ==
    \A h \in Devices :
        /\ req[h].pc # "none" => req[h].tok \in Tokens
        /\ dev[h].life = "none" <=> req[h].pc \in {"none", "sent", "read", "refused"}
        /\ dev[h].life # "none" => tok[req[h].tok].used
        /\ req[h].pc = "ok" => LabMode \/ req[h].note = "done"
        /\ req[h].note = "done" => gate[h] # "none"

\* Only a device that lost its credentials to a revocation and was archived
\* over it is anything but quarantined.
DevShape ==
    \A d \in Devices :
        /\ dev[d].life = "none" => dev[d].edit = "none"
        /\ dev[d].life \in {"ACTIVE", "ARCHIVED"} => dev[d].keys \/ d \in strays

Final(k) == rev[k].settled \/ rev[k].by \in Computers

RevShape ==
    \A k \in 1..MaxRevokes :
        /\ rev[k].pc # "none" => rev[k].dev \in Devices /\ dev[rev[k].dev].life # "none"
        /\ rev[k].pc # "none" /\ Final(k) => req[rev[k].dev].pc = "ok"
        /\ rev[k].pc \in {"telling", "ok", "failed"} => ~dev[rev[k].dev].keys
        /\ rev[k].note # "none" => rev[k].pc # "none"
        /\ rev[k].pc = "ok" => LabMode \/ rev[k].note = "done"
        /\ rev[k].note = "done" /\ Final(k) => LabMode \/ gate[rev[k].dev] = "revoked"

CompRow(c) ==
    /\ comp[c].pc = "run" => comp[c].tok \in Tokens
    /\ comp[c].pc = "asking" => comp[c].dev \in Devices /\ req[comp[c].dev].pc # "none"
    /\ comp[c].pc \in Waiting \cup {"aborting"} => comp[c].dev \in Devices /\ req[comp[c].dev].pc = "ok"
    /\ comp[c].pc = "aborting" =>
          comp[c].tok \in 1..MaxRevokes /\ rev[comp[c].tok].pc # "none" /\ rev[comp[c].tok].dev = comp[c].dev

CompShape == \A c \in Computers : CompRow(c)

\* The configuration and both envelopes are of one device the gateway knows.
Whole(c) ==
    /\ disk[c].control = disk[c].cfg /\ disk[c].gateway = disk[c].cfg
    /\ LabMode \/ gate[disk[c].cfg] # "none"

\* A configuration that is no stray's is whole, or its device is being
\* aborted, or has been.
DiskRow(c) ==
    LET d == disk[c].cfg IN
    /\ d \in Devices => dev[d].life # "none"
    /\ comp[c].pc \in {"login", "signed"} => d # Torn
    /\ comp[c].pc \in {"asking", "control", "gateway", "persist"} => d \notin Devices \/ d \in strays
    /\ comp[c].pc \in {"gateway", "persist"} => disk[c].control = comp[c].dev
    /\ comp[c].pc = "persist" => disk[c].gateway = comp[c].dev
    /\ d \in Devices /\ d \notin strays =>
          \/ Whole(c) \/ ~dev[d].keys
          \/ comp[c].pc \in {"abort", "aborting"} /\ comp[c].dev = d
    /\ comp[c].done => comp[c].pc = "idle" /\ d \in Devices /\ (d \in strays \/ Whole(c))

DiskShape == \A c \in Computers : DiskRow(c)

EnrollInv == TypeOK /\ CodeShape /\ ReqShape /\ DevShape /\ RevShape /\ CompShape /\ DiskShape /\ SingleUse

=============================================================================
