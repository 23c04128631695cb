-------------------------- MODULE DesktopPageProofs --------------------------
(***************************************************************************)
(* What DesktopPage keeps for any accounts, profiles, paths, numbers of     *)
(* restores and of copies, and however often the agent ends: whose files a  *)
(* restore takes, that a cancellation counts, that nothing restored is lost *)
(* or overwritten, and when a restore is reported once; also if saves of    *)
(* the list fail.                                                           *)
(***************************************************************************)
EXTENDS DesktopPage, FiniteSetTheorems, TLAPS

-----------------------------------------------------------------------------
(* Prefixes of paths.                                                      *)

LEMMA PrefixPointwise ==
    ASSUME NEW S, NEW s \in Seq(S), NEW t \in Seq(S)
    PROVE  IsPrefix(s, t) <=> Len(s) <= Len(t) /\ \A k \in 1..Len(s) : s[k] = t[k]
<1>1. CASE Len(s) <= Len(t)
  <2>1. Len(s) \in Nat /\ Len(t) \in Nat
    OBVIOUS
  <2>2. SubSeq(s, 1, Len(s)) = [k \in 1..Len(s) |-> s[k]]
    BY <2>1
  <2>3. SubSeq(t, 1, Len(s)) = [k \in 1..Len(s) |-> t[k]]
    BY <1>1, <2>1
  <2>4. QED
    BY <1>1, <2>2, <2>3 DEF IsPrefix
<1>2. CASE ~(Len(s) <= Len(t))
  BY <1>2 DEF IsPrefix
<1>3. QED
  BY <1>1, <1>2

LEMMA PrefixTransitive ==
    ASSUME NEW S, NEW s \in Seq(S), NEW t \in Seq(S), NEW u \in Seq(S),
           IsPrefix(s, t), IsPrefix(t, u)
    PROVE  IsPrefix(s, u)
BY PrefixPointwise

\* Two prefixes of one path are prefixes of each other, one way or the other.
LEMMA PrefixesCompare ==
    ASSUME NEW S, NEW s \in Seq(S), NEW t \in Seq(S), NEW u \in Seq(S),
           IsPrefix(s, u), IsPrefix(t, u)
    PROVE  IsPrefix(s, t) \/ IsPrefix(t, s)
<1>1. /\ Len(s) <= Len(u) /\ \A k \in 1..Len(s) : s[k] = u[k]
      /\ Len(t) <= Len(u) /\ \A k \in 1..Len(t) : t[k] = u[k]
  BY PrefixPointwise
<1>2. CASE Len(s) <= Len(t)
  BY <1>1, <1>2, PrefixPointwise
<1>3. CASE Len(t) <= Len(s)
  BY <1>1, <1>3, PrefixPointwise
<1>4. QED
  BY <1>2, <1>3

LEMMA PrefixSelf ==
    ASSUME NEW S, NEW s \in Seq(S)
    PROVE  IsPrefix(s, s)
BY PrefixPointwise

LEMMA PathTypes ==
    ASSUME PageAssumption
    PROVE  /\ ProfilesDir \in Seq(Names) /\ Public \in Seq(Names) /\ ProfilesDir # <<>>
           /\ \A a \in Accounts : Profile[a] \in Seq(Names) /\ Profile[a] # <<>>
           /\ \A p \in Paths : p \in Seq(Names)
           /\ \A s \in Selections : Key[s] \in Seq(Names) /\ Picks[s] \subseteq Paths
BY DEF PageAssumption, Roots, Keys

\* What is not hidden is not somebody else's.
LEMMA ShownIsOwn ==
    ASSUME PageAssumption, NEW c \in Accounts, NEW p \in Paths, ~Hidden(c, p)
    PROVE  ~Foreign(c, p)
<1>1. SUFFICES ASSUME ~IsPrefix(Profile[c], p),
                      \/ \E a \in Accounts \ {c} : IsPrefix(Profile[a], p)
                      \/ IsStrictPrefix(ProfilesDir, p) /\ ~IsPrefix(Public, p)
               PROVE  FALSE
  BY DEF Foreign
<1>2. ~Within(p, Profile[c])
  BY <1>1 DEF Within
<1>3. CASE \E a \in Accounts \ {c} : IsPrefix(Profile[a], p)
  <2>1. PICK a \in Accounts \ {c} : IsPrefix(Profile[a], p)
    BY <1>3
  <2>2. Profile[a] \in OtherProfiles(c) /\ Within(p, Profile[a])
    BY <1>1, <2>1, PathTypes DEF OtherProfiles, Within
  <2>3. QED
    BY <1>2, <2>2 DEF Hidden
<1>4. CASE IsStrictPrefix(ProfilesDir, p) /\ ~IsPrefix(Public, p)
  BY <1>2, <1>4, PathTypes DEF IsStrictPrefix, Within, Hidden
<1>5. QED
  BY <1>1, <1>3, <1>4

\* Neither is anything below the path of a selection an account may make.
LEMMA RestoredIsOwn ==
    ASSUME PageAssumption, NEW c \in Accounts, NEW s \in Selections, MayRestore(c, s),
           NEW q \in Paths, IsPrefix(Key[s], q)
    PROVE  ~Foreign(c, q)
<1> DEFINE p == Key[s]
<1>1. SUFFICES ASSUME ~IsPrefix(Profile[c], q),
                      \/ \E a \in Accounts \ {c} : IsPrefix(Profile[a], q)
                      \/ IsStrictPrefix(ProfilesDir, q) /\ ~IsPrefix(Public, q)
               PROVE  FALSE
  BY DEF Foreign
<1>2. /\ p # <<>> /\ ~Hidden(c, p) /\ ~Within(ProfilesDir, p)
      /\ \A o \in OtherProfiles(c) : ~Within(o, p)
  BY DEF MayRestore
<1> p \in Seq(Names)
  BY PathTypes
<1> IsPrefix(p, q)
  OBVIOUS
<1> HIDE DEF p
<1>3. ~Within(p, Profile[c])
  BY <1>1, PathTypes, PrefixTransitive DEF Within
<1>4. CASE \E a \in Accounts \ {c} : IsPrefix(Profile[a], q)
  <2>1. PICK a \in Accounts \ {c} : IsPrefix(Profile[a], q)
    BY <1>4
  <2>2. Profile[a] \in OtherProfiles(c)
    BY <1>1, <2>1 DEF OtherProfiles
  <2>3. ~IsPrefix(p, Profile[a])
    BY <1>2, <2>2 DEF Within
  <2>4. IsPrefix(Profile[a], p)
    BY <2>1, <2>3, PathTypes, PrefixesCompare
  <2>5. QED
    BY <1>2, <1>3, <2>1, <2>2, <2>4, PathTypes DEF Hidden, Within
<1>5. CASE IsStrictPrefix(ProfilesDir, q) /\ ~IsPrefix(Public, q)
  <2>1. ~IsPrefix(p, ProfilesDir)
    BY <1>2 DEF Within
  <2>2. IsPrefix(ProfilesDir, p)
    BY <1>5, <2>1, PathTypes, PrefixesCompare DEF IsStrictPrefix
  <2>3. p # ProfilesDir
    BY <2>1, PathTypes, PrefixSelf
  <2>4. ~IsPrefix(Public, p)
    BY <1>5, PathTypes, PrefixTransitive
  <2>5. QED
    BY <1>2, <1>3, <2>2, <2>3, <2>4, PathTypes DEF Hidden, Within
<1>6. QED
  BY <1>1, <1>4, <1>5

-----------------------------------------------------------------------------
(* The inductive invariant.                                                *)

States == {"running", "done", "failed", "cancelled"}
RunSteps == {"none", "admit", "restore", "made", "granted", "ungranted", "failed"}
JobFields == {"state", "owner", "sel", "dir", "to", "reported"}
CopyFields == {"n", "of", "pc", "folder", "name"}

IsJob(j) == /\ DOMAIN j = JobFields /\ j.state \in States
            /\ j.owner \in Accounts /\ j.sel \in Selections /\ j.reported \in BOOLEAN

Shape ==
    /\ starts \in 0..MaxStarts /\ Listed \subseteq 1..starts /\ Listed \subseteq Ids
    /\ \A i \in Listed : IsJob(jobs[i])
    /\ run \in [Ids -> RunSteps] /\ staging \in [Ids -> {"none", "partial", "full"}]
    /\ up \in BOOLEAN

\* A restore that has a goroutine is running; what it made is in its folder.
RunShape ==
    /\ \A i \in Ids :
          /\ run[i] # "none" => up /\ i <= starts /\ (i \in Listed => jobs[i].state = "running")
          /\ run[i] \in {"made", "granted", "ungranted"} => staging[i] = "full"
    /\ ~up => cut = {}

\* A restore with a report is marked: in the list, and while the agent is down
\* in the file, or its mark was not saved.
Sent == told \cup sending
ReportShape ==
    /\ \A r \in Sent : r[1] \in 1..starts /\ (r[1] \in Listed \ lapsed => jobs[r[1]].reported)
    /\ \A r, s \in Sent : r[1] = s[1] /\ r[1] \notin lapsed => r = s
    /\ ~up => sending = {} /\ \A r \in told : r[1] \in DOMAIN saved \ lapsed => saved[r[1]].reported

Owns == \A i \in Listed : MayRestore(jobs[i].owner, jobs[i].sel)

\* A copy under way has a file of its own, one that ended well a whole one.
Place(c) == <<c.folder, c.name>>
HasFile(c, whole) == Place(c) \in DOMAIN files /\ files[Place(c)] = [of |-> c.of, whole |-> whole]
CopyRow(c) ==
    /\ DOMAIN c = CopyFields /\ c.of \in Ids
    /\ c.pc = "copy" => HasFile(c, FALSE)
    /\ c.pc = "copied" => HasFile(c, TRUE)
CopyShape ==
    /\ \A c \in copies : CopyRow(c)
    /\ \A c, d \in copies : c.pc = "copy" /\ d.pc = "copy" /\ Place(c) = Place(d) => c = d

AgentInv == Shape /\ RunShape /\ ReportShape /\ Owns /\ CancelHonoured

\* The file may be older than the list, and is a list the agent can go on from.
SavedRow(i) ==
    /\ IsJob(saved[i]) /\ MayRestore(saved[i].owner, saved[i].sel)
    /\ run[i] # "none" => saved[i].state = "running"
    /\ saved[i].state = "done" => staging[i] = "full" \/ HasCopy(i)
SavedInv == /\ DOMAIN saved \subseteq 1..starts /\ DOMAIN saved \subseteq Ids
            /\ \A i \in DOMAIN saved : SavedRow(i)

PageInv == AgentInv /\ NothingLost /\ SavedInv /\ CopyShape

LEMMA InitHolds ==
    ASSUME PageAssumption, Init
    PROVE  PageInv
<1>1. AgentInv
  BY DEF PageAssumption, Init, AgentInv, Shape, RunShape, ReportShape, Sent, Owns,
         CancelHonoured, Listed, Ids, RunSteps
<1>2. NothingLost /\ SavedInv /\ CopyShape
  BY DEF Init, NothingLost, SavedInv, CopyShape, Listed
<1>3. QED
  BY <1>1, <1>2 DEF PageInv

-----------------------------------------------------------------------------
(* Steps of the desktop program.                                           *)

\* What is whole stays so, and is still the copy it was.
FilesGrow == \A t \in DOMAIN files : files[t].whole => t \in DOMAIN files' /\ files'[t] = files[t]

LEMMA CopiesStay ==
    ASSUME FilesGrow, NEW i, HasCopy(i)
    PROVE  HasCopy(i)'
BY DEF FilesGrow, HasCopy

\* A file that is not written stays a good one.
LEMMA SavedStays ==
    ASSUME SavedInv, saved' = saved, starts \in Nat, starts' \in Nat, starts <= starts', FilesGrow,
           \A i \in DOMAIN saved :
              /\ run'[i] # "none" => run[i] # "none"
              /\ saved[i].state = "done" => staging'[i] = staging[i] \/ HasCopy(i)'
    PROVE  SavedInv'
<1>1. ASSUME NEW i \in DOMAIN saved
      PROVE  SavedRow(i)'
  <2>1. SavedRow(i)
    BY DEF SavedInv
  <2>2. HasCopy(i) => HasCopy(i)'
    BY CopiesStay
  <2>3. QED
    BY <2>1, <2>2 DEF SavedRow
<1>2. DOMAIN saved' \subseteq 1..starts' /\ DOMAIN saved' \subseteq Ids
  BY DEF SavedInv
<1>3. QED
  BY <1>1, <1>2 DEF SavedInv

\* A save writes the list, or leaves the file as it is.
LEMMA SaveKept ==
    ASSUME AgentInv', NothingLost', Save, saved' = saved => SavedInv'
    PROVE  SavedInv'
<1>1. CASE saved' = jobs'
  BY <1>1 DEF AgentInv, Shape, RunShape, Owns, NothingLost, Listed, SavedInv, SavedRow
<1>2. QED
  BY <1>1 DEF Save

\* Such a step leaves the agent as it is.
LEMMA WorldSame ==
    ASSUME AgentInv, NothingLost, SavedInv, UNCHANGED World, FilesGrow
    PROVE  AgentInv' /\ NothingLost' /\ SavedInv'
<1>1. AgentInv'
  BY DEF World, life, agent, AgentInv, Shape, RunShape, ReportShape, Sent, Owns, CancelHonoured, Listed
<1>2. NothingLost'
  BY CopiesStay DEF World, life, agent, NothingLost, Listed
<1>3. SavedInv'
  BY SavedStays DEF World, life, agent, AgentInv, Shape
<1>4. QED
  BY <1>1, <1>2, <1>3

\* A copy moves on to where it has no file to look after.
LEMMA CopyMoves ==
    ASSUME CopyShape, NEW c \in copies, NEW d, Becomes(c, d), UNCHANGED files,
           DOMAIN d = CopyFields, d.of \in Ids, d.pc \notin {"copy", "copied"}
    PROVE  CopyShape'
<1>1. \A e \in copies' : e \in copies \/ e = d
  BY DEF Becomes
<1>2. QED
  BY <1>1 DEF CopyShape, CopyRow, HasFile, Place

LEMMA CopyFieldsOf ==
    ASSUME CopyShape, NEW c \in copies, NEW s
    PROVE  /\ DOMAIN [c EXCEPT !.pc = s] = CopyFields /\ [c EXCEPT !.pc = s].of = c.of
           /\ [c EXCEPT !.pc = s].pc = s
           /\ Place([c EXCEPT !.pc = s]) = Place(c)
           /\ c.of \in Ids
BY DEF CopyShape, CopyRow, CopyFields, Place

LEMMA FailsKept ==
    ASSUME PageInv, NEW c \in copies, Fails(c)
    PROVE  PageInv' /\ FilesGrow
<1>1. CopyShape'
  BY CopyMoves, CopyFieldsOf DEF PageInv, Fails
<1>2. UNCHANGED World /\ FilesGrow
  BY DEF Fails, FilesGrow
<1>3. QED
  BY <1>1, <1>2, WorldSame DEF PageInv

LEMMA PickFolderKept ==
    ASSUME PageInv, NEW c \in copies, PickFolder(c)
    PROVE  PageInv' /\ FilesGrow
<1>1. PICK f : Becomes(c, [c EXCEPT !.pc = "make", !.folder = f])
  BY DEF PickFolder
<1>2. UNCHANGED <<World, files>> /\ FilesGrow
  BY DEF PickFolder, FilesGrow
<1>3. PICK d : Becomes(c, d) /\ DOMAIN d = CopyFields /\ d.of = c.of /\ d.pc = "make"
  <2>1. DEFINE d == [c EXCEPT !.pc = "make", !.folder = f]
  <2>2. Becomes(c, d)
    BY <1>1
  <2>3. CopyShape
    BY DEF PageInv
  <2>4. DOMAIN d = CopyFields /\ d.of = c.of /\ d.pc = "make"
    BY <2>3 DEF CopyShape, CopyRow, CopyFields
  <2>5. HIDE DEF d
  <2>6. QED
    BY <2>2, <2>4
<1>4. c.of \in Ids
  BY DEF PageInv, CopyShape, CopyRow
<1>5. CopyShape'
  BY <1>2, <1>3, <1>4, CopyMoves DEF PageInv
<1>6. QED
  BY <1>2, <1>5, WorldSame DEF PageInv

LEMMA MakeFolderKept ==
    ASSUME PageInv, NEW c \in copies, MakeFolder(c)
    PROVE  PageInv' /\ FilesGrow
<1>1. PICK k : Becomes(c, [c EXCEPT !.pc = "create", !.name = k])
  BY DEF MakeFolder
<1>2. UNCHANGED <<World, files>> /\ FilesGrow
  BY DEF MakeFolder, FilesGrow
<1>3. PICK d : Becomes(c, d) /\ DOMAIN d = CopyFields /\ d.of = c.of /\ d.pc = "create"
  <2>1. DEFINE d == [c EXCEPT !.pc = "create", !.name = k]
  <2>2. Becomes(c, d)
    BY <1>1
  <2>3. CopyShape
    BY DEF PageInv
  <2>4. DOMAIN d = CopyFields /\ d.of = c.of /\ d.pc = "create"
    BY <2>3 DEF CopyShape, CopyRow, CopyFields
  <2>5. HIDE DEF d
  <2>6. QED
    BY <2>2, <2>4
<1>4. c.of \in Ids
  BY DEF PageInv, CopyShape, CopyRow
<1>5. CopyShape'
  BY <1>2, <1>3, <1>4, CopyMoves DEF PageInv
<1>6. QED
  BY <1>2, <1>5, WorldSame DEF PageInv

\* The new file was nobody's: every file of a copy under way is there.
LEMMA CreateKept ==
    ASSUME PageInv, NEW c \in copies, Create(c)
    PROVE  PageInv' /\ FilesGrow
<1> DEFINE d == [c EXCEPT !.pc = "copy"]
<1>1. /\ copies' = (copies \ {c}) \cup {d} /\ UNCHANGED World
      /\ Place(c) \notin DOMAIN files
  BY DEF Create, Becomes, Taken, Place
<1>2. /\ DOMAIN files' = DOMAIN files \cup {Place(c)}
      /\ files'[Place(c)] = [of |-> c.of, whole |-> FALSE]
      /\ \A t \in DOMAIN files : files'[t] = files[t]
  BY <1>1 DEF Create, Written, Place
<1>3. DOMAIN d = CopyFields /\ d.of = c.of /\ d.of \in Ids /\ d.pc = "copy" /\ Place(d) = Place(c)
  BY CopyFieldsOf DEF PageInv
<1>4. FilesGrow
  BY <1>2 DEF FilesGrow
<1>5. CopyShape'
  <2>1. \A e \in copies' : (e \in copies /\ e # c) \/ e = d
    BY <1>1
  <2>2. ASSUME NEW e \in copies'
        PROVE  CopyRow(e)'
    <3>1. CASE e = d
      BY <1>2, <1>3, <3>1 DEF CopyRow, HasFile, Place
    <3>2. CASE e \in copies /\ e # c
      BY <1>2, <3>2 DEF PageInv, CopyShape, CopyRow, HasFile, Place
    <3>3. QED
      BY <2>1, <3>1, <3>2
  <2>3. ASSUME NEW e \in copies', NEW g \in copies', e.pc = "copy", g.pc = "copy", Place(e) = Place(g)
        PROVE  e = g
    <3>1. \A h \in copies : h.pc = "copy" => Place(h) # Place(c)
      BY <1>1 DEF PageInv, CopyShape, CopyRow, HasFile
    <3>2. QED
      BY <1>3, <2>1, <2>3, <3>1 DEF PageInv, CopyShape
  <2>4. QED
    BY <2>2, <2>3 DEF CopyShape, CopyRow, HasFile, Place
<1>6. QED
  BY <1>1, <1>4, <1>5, WorldSame DEF PageInv

\* Only its own file, which was not whole, is replaced.
LEMMA CopiedKept ==
    ASSUME PageInv, NEW c \in copies, Copied(c)
    PROVE  PageInv' /\ FilesGrow
<1> DEFINE d == [c EXCEPT !.pc = "copied"]
<1>1. copies' = (copies \ {c}) \cup {d} /\ UNCHANGED World /\ c.pc = "copy"
  BY DEF Copied, Becomes
<1>2. Place(c) \in DOMAIN files /\ files[Place(c)] = [of |-> c.of, whole |-> FALSE]
  BY <1>1 DEF PageInv, CopyShape, CopyRow, HasFile
<1>3. /\ DOMAIN files' = DOMAIN files
      /\ files'[Place(c)] = [of |-> c.of, whole |-> TRUE]
      /\ \A t \in DOMAIN files : t # Place(c) => files'[t] = files[t]
  BY <1>2 DEF Copied, Written, Place
<1>4. DOMAIN d = CopyFields /\ d.of = c.of /\ d.of \in Ids /\ d.pc = "copied" /\ Place(d) = Place(c)
  BY CopyFieldsOf DEF PageInv
<1>5. FilesGrow
  BY <1>2, <1>3 DEF FilesGrow
<1>6. CopyShape'
  <2>1. \A e \in copies' : (e \in copies /\ e # c) \/ e = d
    BY <1>1
  <2>2. ASSUME NEW e \in copies'
        PROVE  CopyRow(e)'
    <3>1. CASE e = d
      BY <1>2, <1>3, <1>4, <3>1 DEF CopyRow, HasFile, Place
    <3>2. CASE e \in copies /\ e # c
      <4>1. CopyRow(e)
        BY <3>2 DEF PageInv, CopyShape
      <4>2. e.pc \in {"copy", "copied"} => Place(e) # Place(c)
        BY <1>1, <1>2, <3>2, <4>1 DEF PageInv, CopyShape, CopyRow, HasFile
      <4>3. QED
        BY <1>3, <4>1, <4>2 DEF CopyRow, HasFile, Place
    <3>3. QED
      BY <2>1, <3>1, <3>2
  <2>3. ASSUME NEW e \in copies', NEW g \in copies', e.pc = "copy", g.pc = "copy", Place(e) = Place(g)
        PROVE  e = g
    BY <1>4, <2>1, <2>3 DEF PageInv, CopyShape
  <2>4. QED
    BY <2>2, <2>3 DEF CopyShape, CopyRow, HasFile, Place
<1>7. QED
  BY <1>1, <1>5, <1>6, WorldSame DEF PageInv

LEMMA DeliverStartKept ==
    ASSUME PageInv, NEW i \in Ids, DeliverStart(i)
    PROVE  PageInv' /\ FilesGrow
<1>1. PICK k : copies' = copies \cup {[n |-> k, of |-> i, pc |-> "look", folder |-> Nowhere, name |-> 0]}
  BY DEF DeliverStart
<1>2. UNCHANGED <<World, files>> /\ FilesGrow
  BY DEF DeliverStart, FilesGrow
<1>3. CopyShape'
  BY <1>1, <1>2 DEF PageInv, CopyShape, CopyRow, HasFile, Place, CopyFields
<1>4. QED
  BY <1>2, <1>3, WorldSame DEF PageInv

-----------------------------------------------------------------------------
(* Steps of the agent.                                                     *)

LEMMA CopiesSame ==
    ASSUME CopyShape, UNCHANGED <<copies, files>>
    PROVE  CopyShape' /\ FilesGrow
BY DEF CopyShape, CopyRow, HasFile, Place, FilesGrow

\* A restore that starts is new, and takes only what its account may have.
LEMMA StartAsKept ==
    ASSUME PageAssumption, PageInv, NEW a \in Accounts, NEW p \in Selections, StartAs(a, p)
    PROVE  PageInv' /\ FilesGrow
<1> DEFINE i == starts + 1
<1>1. /\ up /\ MayRestore(a, p) /\ starts' = i /\ i \in Ids /\ starts \in Nat
      /\ Save /\ run' = [run EXCEPT ![i] = "admit"]
      /\ UNCHANGED <<cut, sending, told, staging, copies, files, up, lapsed>>
  BY DEF StartAs, person, life, PageInv, AgentInv, Shape, Ids, PageAssumption
<1>2. /\ Listed' \subseteq Listed \cup {i}
      /\ \A j \in Listed' : /\ j # i => jobs'[j] = jobs[j]
                            /\ j = i => jobs'[j] = [state |-> "running", owner |-> a, sel |-> p,
                                                    dir |-> FALSE, to |-> Nowhere, reported |-> FALSE]
  BY DEF StartAs, Newest, Listed
<1>3. Listed \subseteq 1..starts /\ i \notin Listed
  BY <1>1 DEF PageInv, AgentInv, Shape
<1>4. \A j \in Listed' : IsJob(jobs'[j])
  <2>1. IsJob([state |-> "running", owner |-> a, sel |-> p, dir |-> FALSE, to |-> Nowhere, reported |-> FALSE])
    BY DEF IsJob, JobFields, States
  <2>2. \A j \in Listed : IsJob(jobs[j])
    BY DEF PageInv, AgentInv, Shape
  <2>3. QED
    BY <1>2, <2>1, <2>2
<1>5. Shape'
  BY <1>1, <1>2, <1>3, <1>4 DEF PageInv, AgentInv, Shape, Ids, RunSteps, Listed
<1>7. RunShape'
  <2>1. ASSUME NEW j \in Ids
        PROVE  /\ run'[j] # "none" => up' /\ j <= starts' /\ (j \in Listed' => jobs'[j].state = "running")
               /\ run'[j] \in {"made", "granted", "ungranted"} => staging'[j] = "full"
    <3>1. CASE j = i
      BY <1>1, <1>2, <3>1 DEF PageInv, AgentInv, Shape
    <3>2. CASE j # i
      BY <1>1, <1>2, <3>2 DEF PageInv, AgentInv, Shape, RunShape, Ids
    <3>3. QED
      BY <3>1, <3>2
  <2>2. QED
    BY <1>1, <2>1 DEF PageInv, AgentInv, RunShape
<1>8. ReportShape'
  BY <1>1, <1>2, <1>3 DEF PageInv, AgentInv, ReportShape, Sent
<1>9. Owns'
  BY <1>1, <1>2 DEF PageInv, AgentInv, Owns
<1>10. CancelHonoured'
  BY <1>1, <1>2 DEF PageInv, AgentInv, CancelHonoured
<1>11. NothingLost'
  BY <1>1, <1>2 DEF PageInv, NothingLost, HasCopy
<1>12. AgentInv' /\ FilesGrow
  BY <1>1, <1>5, <1>7, <1>8, <1>9, <1>10, CopiesSame DEF PageInv, AgentInv
<1>13. SavedInv'
  <2>1. ASSUME saved' = saved
        PROVE  SavedInv'
    <3>1. i \notin DOMAIN saved /\ starts' \in Nat /\ starts <= starts' /\ SavedInv
      BY <1>1 DEF PageInv, SavedInv
    <3>2. \A j \in DOMAIN saved : run'[j] # "none" => run[j] # "none"
      BY <1>1, <3>1 DEF PageInv, AgentInv, Shape
    <3>3. QED
      BY <1>1, <1>12, <2>1, <3>1, <3>2, SavedStays
  <2>2. QED
    BY <1>1, <1>11, <1>12, <2>1, SaveKept
<1>14. QED
  BY <1>1, <1>11, <1>12, <1>13, CopiesSame DEF PageInv

\* The goroutine of a restore goes on; its folder is not one of a restore that is done.
LEMMA RunKept ==
    ASSUME PageInv, NEW i \in Ids, NEW s \in RunSteps \ {"none"}, run[i] # "none",
           run' = [run EXCEPT ![i] = s],
           UNCHANGED <<jobs, saved, cut, sending, told, copies, files, up, starts, lapsed>>,
           staging' \in [Ids -> {"none", "partial", "full"}],
           \A j \in Ids : j # i => staging'[j] = staging[j],
           s \in {"made", "granted", "ungranted"} => staging'[i] = "full"
    PROVE  PageInv' /\ FilesGrow
<1>1. Shape' /\ ReportShape' /\ Owns' /\ CancelHonoured'
  BY DEF PageInv, AgentInv, Shape, ReportShape, Sent, Owns, CancelHonoured, Listed
<1>2. RunShape'
  <2>1. ASSUME NEW j \in Ids
        PROVE  /\ run'[j] # "none" => up' /\ j <= starts' /\ (j \in Listed' => jobs'[j].state = "running")
               /\ run'[j] \in {"made", "granted", "ungranted"} => staging'[j] = "full"
    <3>1. CASE j = i
      BY <3>1 DEF PageInv, AgentInv, Shape, RunShape, Listed
    <3>2. CASE j # i
      BY <3>2 DEF PageInv, AgentInv, Shape, RunShape, Listed
    <3>3. QED
      BY <3>1, <3>2
  <2>2. QED
    BY <2>1 DEF PageInv, AgentInv, RunShape
<1>3. NothingLost'
  <2>1. ASSUME NEW j \in Listed, jobs[j].state = "done"
        PROVE  staging'[j] = "full" \/ HasCopy(j)'
    <3>1. j \in Ids
      BY DEF PageInv, AgentInv, Shape, Ids
    <3>2. j # i
      BY <2>1 DEF PageInv, AgentInv, RunShape
    <3>3. QED
      BY <2>1, <3>1, <3>2 DEF PageInv, NothingLost, HasCopy
  <2>2. QED
    BY <2>1 DEF NothingLost, Listed
<1>4. SavedInv'
  <2>1. \A j \in DOMAIN saved : j \in Ids /\ (j = i => saved[j].state = "running")
    BY DEF PageInv, AgentInv, Shape, SavedInv, SavedRow, Ids
  <2>2. \A j \in DOMAIN saved : run'[j] # "none" => run[j] # "none"
    BY <2>1 DEF PageInv, AgentInv, Shape
  <2>3. \A j \in DOMAIN saved : saved[j].state = "done" => staging'[j] = staging[j]
    BY <2>1
  <2>4. QED
    BY <2>2, <2>3, SavedStays, CopiesSame DEF PageInv, AgentInv, Shape
<1>5. QED
  BY <1>1, <1>2, <1>3, <1>4, CopiesSame DEF PageInv, AgentInv

LEMMA RestoreRunKept ==
    ASSUME PageInv, NEW i \in Ids,
           NotAdmitted(i) \/ Prepared(i) \/ RestoreFails(i) \/ Restored(i) \/ Granted(i)
    PROVE  PageInv' /\ FilesGrow
<1>1. staging \in [Ids -> {"none", "partial", "full"}] /\ (run[i] = "made" => staging[i] = "full")
  BY DEF PageInv, AgentInv, Shape, RunShape
<1>2. CASE NotAdmitted(i)
  BY <1>1, <1>2, RunKept DEF NotAdmitted, RunTo, person, life, RunSteps
<1>3. CASE Prepared(i)
  BY <1>1, <1>3, RunKept DEF Prepared, RunTo, person, life, RunSteps
<1>4. CASE RestoreFails(i)
  BY <1>1, <1>4, RunKept DEF RestoreFails, RunTo, person, life, RunSteps
<1>5. CASE Restored(i)
  BY <1>1, <1>5, RunKept DEF Restored, RunTo, person, life, RunSteps
<1>6. CASE Granted(i)
  BY <1>1, <1>6, RunKept DEF Granted, RunTo, person, life, RunSteps
<1>7. QED
  BY <1>2, <1>3, <1>4, <1>5, <1>6

\* A restore that ends as done has its files; a cancelled one does not end so.
LEMMA SettleKept ==
    ASSUME PageInv, NEW i \in Ids, Settle(i)
    PROVE  PageInv' /\ FilesGrow
<1> DEFINE out == Outcome(i)
<1>1. /\ up /\ run[i] \in {"failed", "granted", "ungranted"} /\ run' = [run EXCEPT ![i] = "none"]
      /\ jobs' = [jobs EXCEPT ![i] = [jobs[i] EXCEPT !.state = out, !.dir = (out = "done")]]
      /\ Save
      /\ staging' = IF out # "done" /\ run[i] # "failed" THEN Removed(i) ELSE staging
      /\ UNCHANGED <<cut, sending, told, copies, files, up, starts, lapsed>>
  BY DEF Settle, Set, person, life
<1>2. /\ out \in {"done", "failed", "cancelled"}
      /\ i \in cut => out = "cancelled"
      /\ out = "done" => run[i] = "granted"
  <2>1. CASE i \in cut
    BY <2>1 DEF Outcome
  <2>2. CASE i \notin cut /\ run[i] = "granted"
    BY <2>2 DEF Outcome
  <2>3. CASE i \notin cut /\ run[i] # "granted"
    BY <2>3 DEF Outcome
  <2>4. QED
    BY <2>1, <2>2, <2>3
<1>3. /\ Listed' = Listed
      /\ \A j \in Listed : j # i => jobs'[j] = jobs[j]
  BY <1>1 DEF Listed
<1>4. i \in Listed => /\ IsJob(jobs'[i]) /\ jobs'[i].state = out
                      /\ jobs'[i].owner = jobs[i].owner /\ jobs'[i].sel = jobs[i].sel
                      /\ jobs'[i].reported = jobs[i].reported
  BY <1>1, <1>2 DEF PageInv, AgentInv, Shape, IsJob, JobFields, States, Listed
<1> HIDE DEF out
<1>5. staging' \in [Ids -> {"none", "partial", "full"}] /\ \A j \in Ids : j # i => staging'[j] = staging[j]
  BY <1>1 DEF PageInv, AgentInv, Shape, Removed
<1>6. \A j \in Listed' : IsJob(jobs'[j])
  BY <1>3, <1>4 DEF PageInv, AgentInv, Shape
<1>7. run' \in [Ids -> RunSteps]
  BY <1>1 DEF PageInv, AgentInv, Shape, RunSteps
<1>8. Shape'
  BY <1>1, <1>3, <1>5, <1>6, <1>7 DEF PageInv, AgentInv, Shape, Listed
<1>10. RunShape'
  BY <1>1, <1>3, <1>5 DEF PageInv, AgentInv, Shape, RunShape
<1>11. ReportShape'
  BY <1>1, <1>3, <1>4 DEF PageInv, AgentInv, ReportShape, Sent
<1>12. Owns'
  BY <1>3, <1>4 DEF PageInv, AgentInv, Owns
<1>13. CancelHonoured'
  BY <1>1, <1>2, <1>3, <1>4 DEF PageInv, AgentInv, CancelHonoured
<1>14. NothingLost'
  <2>1. ASSUME NEW j \in Listed, jobs'[j].state = "done"
        PROVE  staging'[j] = "full" \/ HasCopy(j)'
    <3>1. CASE j = i
      <4>1. out = "done" /\ run[i] = "granted"
        BY <1>2, <1>4, <2>1, <3>1
      <4>2. staging[i] = "full" /\ staging' = staging
        BY <1>1, <4>1 DEF PageInv, AgentInv, RunShape
      <4>3. QED
        BY <3>1, <4>2
    <3>2. CASE j # i
      <4>1. j \in Ids
        BY DEF PageInv, AgentInv, Shape, Ids
      <4>2. QED
        BY <1>1, <1>3, <1>5, <2>1, <3>2, <4>1 DEF PageInv, NothingLost, HasCopy
    <3>3. QED
      BY <3>1, <3>2
  <2>2. QED
    BY <1>3, <2>1 DEF NothingLost
<1>15. AgentInv'
  BY <1>8, <1>10, <1>11, <1>12, <1>13 DEF AgentInv
<1>16. SavedInv'
  <2>1. ASSUME saved' = saved
        PROVE  SavedInv'
    <3>1. \A j \in DOMAIN saved : j \in Ids /\ (j = i => saved[j].state = "running")
      BY <1>1 DEF PageInv, AgentInv, Shape, SavedInv, SavedRow, Ids
    <3>2. \A j \in DOMAIN saved : run'[j] # "none" => run[j] # "none"
      BY <1>1, <3>1 DEF PageInv, AgentInv, Shape
    <3>3. QED
      BY <1>1, <1>5, <2>1, <3>1, <3>2, SavedStays, CopiesSame DEF PageInv, AgentInv, Shape
  <2>2. QED
    BY <1>1, <1>14, <1>15, <2>1, SaveKept
<1>17. QED
  BY <1>1, <1>14, <1>15, <1>16, CopiesSame DEF PageInv

LEMMA CancelKept ==
    ASSUME PageInv, NEW i \in Ids, Cancel(i)
    PROVE  PageInv' /\ FilesGrow
<1>1. /\ up /\ i \in Listed /\ jobs[i].state = "running" /\ cut' = cut \cup {i}
      /\ UNCHANGED <<jobs, saved, run, sending, told, staging, copies, files, up, starts, lapsed>>
  BY DEF Cancel, person, life
<1>2. Shape' /\ ReportShape' /\ Owns'
  BY <1>1 DEF PageInv, AgentInv, Shape, ReportShape, Sent, Owns, Listed
<1>3. RunShape' /\ CancelHonoured'
  BY <1>1 DEF PageInv, AgentInv, RunShape, CancelHonoured, Listed
<1>4. NothingLost'
  BY <1>1 DEF PageInv, NothingLost, HasCopy, Listed
<1>5. SavedInv'
  BY <1>1, SavedStays, CopiesSame DEF PageInv, AgentInv, Shape
<1>6. QED
  BY <1>1, <1>2, <1>3, <1>4, <1>5, CopiesSame DEF PageInv, AgentInv

\* A report begins only for a restore that has none, and marks it.
LEMMA ReportOnceKept ==
    ASSUME AgentInv, NothingLost, SavedInv, NEW i \in Ids, NEW place, ReportOnce(i, place),
           UNCHANGED <<run, cut, told, staging, files, up, starts, lapsed>>, up
    PROVE  AgentInv' /\ NothingLost' /\ SavedInv'
<1>1. CASE i \in Listed /\ ~jobs[i].reported
  <2>1. /\ jobs' = [jobs EXCEPT ![i] = [jobs[i] EXCEPT !.reported = TRUE]]
        /\ Save /\ sending' = sending \cup {<<i, place>>}
    BY <1>1 DEF ReportOnce, Set
  <2>2. /\ Listed' = Listed
        /\ \A j \in Listed : j # i => jobs'[j] = jobs[j]
    BY <2>1 DEF Listed
  <2>3. /\ IsJob(jobs'[i]) /\ jobs'[i].state = jobs[i].state
        /\ jobs'[i].owner = jobs[i].owner /\ jobs'[i].sel = jobs[i].sel
        /\ jobs'[i].reported = TRUE
    BY <1>1, <2>1 DEF AgentInv, Shape, IsJob, JobFields, Listed
  <2>4. Shape'
    BY <2>1, <2>2, <2>3 DEF AgentInv, Shape, Listed
  <2>6. RunShape'
    BY <2>2, <2>3 DEF AgentInv, RunShape
  <2>7. Owns' /\ CancelHonoured'
    BY <2>2, <2>3 DEF AgentInv, Owns, CancelHonoured
  <2>8. i \in 1..starts
    BY <1>1 DEF AgentInv, Shape
  <2>9. i \notin lapsed => \A r \in Sent : r[1] # i
    BY <1>1 DEF AgentInv, ReportShape
  <2>10. \A r \in Sent' : r \in Sent \/ r = <<i, place>>
    BY <2>1 DEF Sent
  <2>11. ReportShape'
    <3>1. ASSUME NEW r \in Sent'
          PROVE  r[1] \in 1..starts /\ (r[1] \in Listed \ lapsed => jobs'[r[1]].reported)
      BY <2>2, <2>3, <2>8, <2>9, <2>10 DEF AgentInv, ReportShape
    <3>2. ASSUME NEW r \in Sent', NEW s \in Sent', r[1] = s[1], r[1] \notin lapsed
          PROVE  r = s
      BY <2>9, <2>10, <3>2 DEF AgentInv, ReportShape
    <3>3. QED
      BY <2>2, <3>1, <3>2 DEF ReportShape
  <2>12. NothingLost'
    BY <2>2, <2>3 DEF NothingLost, HasCopy
  <2>13. AgentInv'
    BY <2>4, <2>6, <2>7, <2>11 DEF AgentInv
  <2>14. SavedInv'
    <3>1. saved' = saved => SavedInv'
      BY SavedStays DEF AgentInv, Shape, FilesGrow
    <3>2. QED
      BY <2>1, <2>12, <2>13, <3>1, SaveKept
  <2>15. QED
    BY <2>12, <2>13, <2>14
<1>2. CASE ~(i \in Listed /\ ~jobs[i].reported)
  <2>1. UNCHANGED <<jobs, saved, unsaved, sending>>
    BY <1>2 DEF ReportOnce
  <2>2. AgentInv'
    BY <2>1 DEF AgentInv, Shape, RunShape, ReportShape, Sent, Owns, CancelHonoured, Listed
  <2>3. NothingLost'
    BY <2>1 DEF NothingLost, HasCopy, Listed
  <2>4. SavedInv'
    BY <2>1, SavedStays DEF AgentInv, Shape, FilesGrow
  <2>5. QED
    BY <2>2, <2>3, <2>4
<1>3. QED
  BY <1>1, <1>2

LEMMA TimerKept ==
    ASSUME PageInv, NEW i \in Ids, Timer(i)
    PROVE  PageInv' /\ FilesGrow
<1>1. /\ up /\ \E place : ReportOnce(i, place)
      /\ UNCHANGED <<run, cut, told, staging, copies, files, up, starts, lapsed>>
  BY DEF Timer, person, life
<1>2. QED
  BY <1>1, ReportOnceKept, CopiesSame DEF PageInv

LEMMA SendKept ==
    ASSUME PageInv, NEW r \in sending, Send(r)
    PROVE  PageInv' /\ FilesGrow
<1>1. /\ up /\ Sent' \subseteq Sent
      /\ UNCHANGED <<jobs, saved, run, cut, staging, copies, files, up, starts, lapsed>>
  BY DEF Send, person, life, Sent
<1>2. ReportShape'
  BY <1>1 DEF PageInv, AgentInv, ReportShape, Listed
<1>3. Shape' /\ RunShape' /\ Owns' /\ CancelHonoured'
  BY <1>1 DEF PageInv, AgentInv, Shape, RunShape, Owns, CancelHonoured, Listed
<1>4. NothingLost'
  BY <1>1 DEF PageInv, NothingLost, HasCopy, Listed
<1>5. SavedInv'
  BY <1>1, SavedStays, CopiesSame DEF PageInv, AgentInv, Shape
<1>6. QED
  BY <1>1, <1>2, <1>3, <1>4, <1>5, CopiesSame DEF PageInv, AgentInv

-----------------------------------------------------------------------------
(* Deliveries that are posted, ends and starts of the agent.               *)

\* The staging folder goes when the person has the whole copy.
LEMMA DeliveredKept ==
    ASSUME PageInv, NEW c \in copies, Delivered(c)
    PROVE  PageInv' /\ FilesGrow
<1> DEFINE i == c.of
<1>1. /\ up /\ c.pc = "copied" /\ i \in Listed /\ jobs[i].state = "done"
      /\ Becomes(c, [c EXCEPT !.pc = "posted"])
      /\ jobs' = [jobs EXCEPT ![i] = [jobs[i] EXCEPT !.to = c.folder, !.dir = FALSE]]
      /\ Save /\ (staging' = staging \/ staging' = Removed(i))
      /\ UNCHANGED <<run, cut, sending, told, files, up, starts, lapsed>>
  BY DEF Delivered, Reportable, Set, life
<1>2. CopyShape' /\ FilesGrow
  BY <1>1, CopyMoves, CopyFieldsOf DEF PageInv, FilesGrow
<1>3. HasCopy(i)
  BY <1>1 DEF PageInv, CopyShape, CopyRow, HasFile, HasCopy
<1>4. /\ Listed' = Listed
      /\ \A j \in Listed : j # i => jobs'[j] = jobs[j]
  BY <1>1 DEF Listed
<1>5. /\ IsJob(jobs'[i]) /\ jobs'[i].state = "done"
      /\ jobs'[i].owner = jobs[i].owner /\ jobs'[i].sel = jobs[i].sel
      /\ jobs'[i].reported = jobs[i].reported
  BY <1>1 DEF PageInv, AgentInv, Shape, IsJob, JobFields, Listed
<1>6. staging' \in [Ids -> {"none", "partial", "full"}] /\ \A j \in Ids : j # i => staging'[j] = staging[j]
  BY <1>1 DEF PageInv, AgentInv, Shape, Removed
<1>7. i \in Ids /\ run[i] = "none"
  BY <1>1 DEF PageInv, AgentInv, Shape, RunShape
<1>8. Shape'
  BY <1>1, <1>4, <1>5, <1>6 DEF PageInv, AgentInv, Shape, Listed
<1>10. RunShape'
  BY <1>1, <1>4, <1>6, <1>7 DEF PageInv, AgentInv, RunShape
<1>11. ReportShape'
  BY <1>1, <1>4, <1>5 DEF PageInv, AgentInv, ReportShape, Sent
<1>12. Owns' /\ CancelHonoured'
  BY <1>1, <1>4, <1>5 DEF PageInv, AgentInv, Owns, CancelHonoured
<1>13. NothingLost'
  <2>1. ASSUME NEW j \in Listed, jobs'[j].state = "done"
        PROVE  staging'[j] = "full" \/ HasCopy(j)'
    <3>1. CASE j = i
      BY <1>2, <1>3, <3>1, CopiesStay
    <3>2. CASE j # i
      <4>1. j \in Ids /\ jobs[j].state = "done"
        BY <1>4, <2>1, <3>2 DEF PageInv, AgentInv, Shape
      <4>2. QED
        BY <1>1, <1>6, <3>2, <4>1 DEF PageInv, NothingLost, HasCopy
    <3>3. QED
      BY <3>1, <3>2
  <2>2. QED
    BY <1>4, <2>1 DEF NothingLost
<1>14. AgentInv'
  BY <1>8, <1>10, <1>11, <1>12 DEF AgentInv
<1>15. SavedInv'
  <2>1. ASSUME saved' = saved
        PROVE  SavedInv'
    <3>1. \A j \in DOMAIN saved : j \in Ids /\ (j = i => HasCopy(j)')
      BY <1>2, <1>3, CopiesStay DEF PageInv, AgentInv, Shape, SavedInv, Ids
    <3>2. QED
      BY <1>1, <1>2, <1>6, <2>1, <3>1, SavedStays DEF PageInv, AgentInv, Shape
  <2>2. QED
    BY <1>1, <1>13, <1>14, <2>1, SaveKept
<1>16. QED
  BY <1>2, <1>13, <1>14, <1>15 DEF PageInv

LEMMA DeliveredReportsKept ==
    ASSUME PageInv, NEW c \in copies, DeliveredReports(c)
    PROVE  PageInv' /\ FilesGrow
<1>1. /\ up /\ Becomes(c, [c EXCEPT !.pc = "over"]) /\ ReportOnce(c.of, c.folder)
      /\ UNCHANGED <<run, cut, told, staging, files, up, starts, lapsed>>
  BY DEF DeliveredReports, life
<1>2. CopyShape' /\ FilesGrow /\ c.of \in Ids
  BY <1>1, CopyMoves, CopyFieldsOf DEF PageInv, FilesGrow
<1>3. QED
  BY <1>1, <1>2, ReportOnceKept DEF PageInv

\* No goroutine is left; what was being sent may not have arrived.
LEMMA StopKeeps ==
    ASSUME PageInv, Stop, staging' \in [Ids -> {"none", "partial", "full"}]
    PROVE  AgentInv'
<1>1. /\ up' = FALSE /\ run' = [i \in Ids |-> "none"] /\ cut' = {} /\ sending' = {}
      /\ lapsed' = lapsed \cup {i \in DOMAIN saved : ~saved[i].reported /\ Reports(told, i) # {}}
      /\ UNCHANGED <<jobs, saved, told, starts>>
  BY DEF Stop
<1>2. Shape' /\ Owns'
  BY <1>1 DEF PageInv, AgentInv, Shape, Owns, Listed, RunSteps
<1>3. RunShape' /\ CancelHonoured'
  BY <1>1 DEF RunShape, CancelHonoured
<1>4. ReportShape'
  <2>1. Sent' \subseteq Sent /\ lapsed \subseteq lapsed'
    BY <1>1 DEF Sent
  <2>2. \A r \in told : r[1] \in DOMAIN saved \ lapsed' => saved[r[1]].reported
    BY <1>1 DEF Reports
  <2>3. QED
    BY <1>1, <2>1, <2>2 DEF PageInv, AgentInv, ReportShape, Listed
<1>5. QED
  BY <1>2, <1>3, <1>4 DEF AgentInv

LEMMA EndsKept ==
    ASSUME PageInv, Ends
    PROVE  PageInv' /\ FilesGrow
<1>1. /\ Stop /\ copies' = {Posted(c) : c \in copies}
      /\ UNCHANGED <<staging, jobs, files, saved, starts>>
      /\ run' = [i \in Ids |-> "none"]
  BY DEF Ends, Stop
<1>2. AgentInv'
  BY <1>1, StopKeeps DEF PageInv, AgentInv, Shape
<1>3. NothingLost'
  BY <1>1 DEF PageInv, NothingLost, HasCopy, Listed
<1>4. CopyShape'
  <2>1. \A c \in copies : /\ CopyRow(Posted(c))
                          /\ Posted(c).pc = "copy" => Posted(c) = c
    <3>1. TAKE c \in copies
    <3>2. CASE c.pc = "posted"
      <4>1. Posted(c) = [c EXCEPT !.pc = "over"]
        BY <3>2 DEF Posted
      <4>2. QED
        BY <4>1, CopyFieldsOf DEF PageInv, CopyRow
    <3>3. CASE c.pc # "posted"
      BY <3>3 DEF Posted, PageInv, CopyShape
    <3>4. QED
      BY <3>2, <3>3
  <2>2. \A c \in copies' : CopyRow(c) /\ (c.pc = "copy" => c \in copies)
    BY <1>1, <2>1
  <2>3. \A c \in copies' : CopyRow(c)'
    BY <1>1, <2>2 DEF CopyRow, HasFile, Place
  <2>4. QED
    BY <2>2, <2>3 DEF PageInv, CopyShape, Place
<1>5. SavedInv'
  <2>1. \A j \in DOMAIN saved : run'[j] = "none"
    BY <1>1 DEF PageInv, AgentInv, Shape, SavedInv, Ids
  <2>2. FilesGrow /\ \A j \in DOMAIN saved : run'[j] # "none" => run[j] # "none"
    BY <1>1, <2>1 DEF FilesGrow
  <2>3. starts \in Nat /\ SavedInv
    BY DEF PageInv, AgentInv, Shape
  <2>4. QED
    BY <1>1, <2>2, <2>3, SavedStays
<1>6. QED
  BY <1>1, <1>2, <1>3, <1>4, <1>5 DEF PageInv, FilesGrow

\* The list still shows a folder that is gone; the person has the copy.
LEMMA EndsDeliveringKept ==
    ASSUME PageInv, NEW c \in copies, EndsDelivering(c)
    PROVE  PageInv' /\ FilesGrow
<1>1. /\ c.pc = "copied" /\ Stop /\ staging' = Removed(c.of) /\ Becomes(c, [c EXCEPT !.pc = "over"])
      /\ UNCHANGED <<jobs, files, saved, starts>> /\ run' = [i \in Ids |-> "none"]
  BY DEF EndsDelivering, Reportable, Stop
<1>2. CopyShape' /\ FilesGrow
  BY <1>1, CopyMoves, CopyFieldsOf DEF PageInv, FilesGrow
<1>3. HasCopy(c.of)
  BY <1>1 DEF PageInv, CopyShape, CopyRow, HasFile, HasCopy
<1>4. staging' \in [Ids -> {"none", "partial", "full"}] /\ \A j \in Ids : j # c.of => staging'[j] = staging[j]
  BY <1>1 DEF PageInv, AgentInv, Shape, Removed
<1>5. AgentInv'
  BY <1>1, <1>4, StopKeeps
<1>6. NothingLost'
  <2>1. ASSUME NEW j \in Listed, jobs[j].state = "done"
        PROVE  staging'[j] = "full" \/ HasCopy(j)'
    <3>1. j \in Ids
      BY DEF PageInv, AgentInv, Shape
    <3>2. QED
      BY <1>1, <1>3, <1>4, <2>1, <3>1 DEF PageInv, NothingLost, HasCopy
  <2>2. QED
    BY <1>1, <2>1 DEF NothingLost, Listed
<1>7. SavedInv'
  <2>1. \A j \in DOMAIN saved : j \in Ids /\ run'[j] = "none" /\ (j = c.of => HasCopy(j)')
    BY <1>1, <1>2, <1>3, CopiesStay DEF PageInv, AgentInv, Shape, SavedInv, Ids
  <2>2. QED
    BY <1>1, <1>2, <1>4, <2>1, SavedStays DEF PageInv, AgentInv, Shape
<1>8. QED
  BY <1>2, <1>5, <1>6, <1>7 DEF PageInv

\* load: what was saved, with the restores that were cut off as failed.
LEMMA StartsKept ==
    ASSUME PageInv, Starts
    PROVE  PageInv' /\ FilesGrow
<1>1. /\ ~up /\ up' = TRUE
      /\ UNCHANGED <<saved, run, cut, sending, told, staging, copies, files, starts, lapsed>>
  BY DEF Starts, person
<1>2. Listed' = DOMAIN saved /\ DOMAIN saved \subseteq 1..starts /\ DOMAIN saved \subseteq Ids
  BY DEF Starts, Listed, PageInv, AgentInv, Shape, SavedInv, Ids
<1>3. \A i \in DOMAIN saved :
         jobs'[i] = IF saved[i].state = "running" THEN [saved[i] EXCEPT !.state = "failed"] ELSE saved[i]
  BY DEF Starts
<1>4. ASSUME NEW i \in DOMAIN saved
      PROVE  /\ IsJob(jobs'[i])
             /\ jobs'[i].owner = saved[i].owner /\ jobs'[i].sel = saved[i].sel
             /\ jobs'[i].reported = saved[i].reported
             /\ jobs'[i].state = saved[i].state \/ (saved[i].state = "running" /\ jobs'[i].state = "failed")
  <2>1. IsJob(saved[i])
    BY DEF PageInv, SavedInv, SavedRow
  <2>2. CASE saved[i].state = "running"
    BY <1>3, <2>1, <2>2 DEF IsJob, JobFields, States
  <2>3. CASE saved[i].state # "running"
    BY <1>3, <2>1, <2>3
  <2>4. QED
    BY <2>2, <2>3
<1>5. Shape'
  BY <1>1, <1>2, <1>4 DEF PageInv, AgentInv, Shape
<1>6. RunShape' /\ CancelHonoured'
  BY <1>1 DEF PageInv, AgentInv, RunShape, CancelHonoured
<1>7. ReportShape'
  BY <1>1, <1>2, <1>4 DEF PageInv, AgentInv, ReportShape, Sent
<1>8. Owns'
  BY <1>2, <1>4 DEF PageInv, SavedInv, SavedRow, Owns
<1>9. NothingLost'
  BY <1>1, <1>2, <1>4 DEF PageInv, SavedInv, SavedRow, NothingLost, HasCopy
<1>10. SavedInv'
  BY <1>1, SavedStays DEF PageInv, AgentInv, Shape, FilesGrow
<1>11. QED
  BY <1>1, <1>5, <1>6, <1>7, <1>8, <1>9, <1>10, CopiesSame DEF PageInv, AgentInv

LEMMA StutterKept ==
    ASSUME PageInv, UNCHANGED vars
    PROVE  PageInv' /\ FilesGrow
<1>1. UNCHANGED <<World, copies, files>>
  BY DEF vars, World, person, life
<1>2. CopyShape' /\ FilesGrow
  BY <1>1, CopiesSame DEF PageInv
<1>3. QED
  BY <1>1, <1>2, WorldSame DEF PageInv

LEMMA StepKept ==
    ASSUME PageAssumption, PageInv, [Next]_vars
    PROVE  PageInv' /\ FilesGrow
<1>1. CASE \E a \in Accounts, s \in Selections : StartAs(a, s)
  BY <1>1, StartAsKept
<1>2. CASE \E i \in Ids : Restore(i)
  BY <1>2, RestoreRunKept, SettleKept DEF Restore
<1>3. CASE \E i \in Ids : Cancel(i) \/ Timer(i) \/ DeliverStart(i)
  BY <1>3, CancelKept, TimerKept, DeliverStartKept
<1>4. CASE \E r \in sending : Send(r)
  BY <1>4, SendKept
<1>5. CASE \E c \in copies : Copy(c)
  BY <1>5, FailsKept, PickFolderKept, MakeFolderKept, CreateKept, CopiedKept
     DEF Copy, Missing, Occupied, CopyFails
<1>6. CASE \E c \in copies : Delivered(c) \/ DeliveredReports(c) \/ EndsDelivering(c)
  BY <1>6, DeliveredKept, DeliveredReportsKept, EndsDeliveringKept
<1>7. CASE Ends \/ Starts
  BY <1>7, EndsKept, StartsKept
<1>8. CASE UNCHANGED vars
  BY <1>8, StutterKept
<1>9. QED
  BY <1>1, <1>2, <1>3, <1>4, <1>5, <1>6, <1>7, <1>8 DEF Next

-----------------------------------------------------------------------------
(* The results.                                                            *)

\* Who is doing what, which file is whose and what a saved list that is older
\* may say are kept by every step of the page, the agent and the desktop
\* program, whichever saves fail.
THEOREM PageInvariant ==
    ASSUME PageAssumption
    PROVE  Spec => []PageInv
<1>1. Init => PageInv
  BY InitHolds
<1>2. PageInv /\ [Next]_vars => PageInv'
  BY StepKept
<1>3. QED
  BY <1>1, <1>2, PTL DEF Spec

\* An account is shown no file of another and restores none by a selection that
\* takes what is at or below the path it names, whatever the profiles and paths
\* are (localcaller.go mayRestore, the filter of the browsing pages).
THEOREM RestoresOwnFiles ==
    ASSUME PageAssumption
    PROVE  Spec => []OwnFilesOnly
<1>1. PageInv => OwnFilesOnly
  <2>1. ShowsOwn
    BY ShownIsOwn DEF ShowsOwn, Visible
  <2>2. ASSUME PageInv, NEW i \in Listed, Literal(jobs[i].sel), NEW p \in Picks[jobs[i].sel]
        PROVE  ~Foreign(jobs[i].owner, p)
    <3>1. /\ jobs[i].owner \in Accounts /\ jobs[i].sel \in Selections
          /\ MayRestore(jobs[i].owner, jobs[i].sel)
      BY <2>2 DEF PageInv, AgentInv, Shape, IsJob, Owns
    <3>2. p \in Paths /\ IsPrefix(Key[jobs[i].sel], p)
      BY <2>2, <3>1, PathTypes DEF Literal
    <3>3. QED
      BY <3>1, <3>2, RestoredIsOwn
  <2>3. QED
    BY <2>1, <2>2 DEF OwnFilesOnly, RestoresOwn
<1>2. QED
  BY <1>1, PageInvariant, PTL

\* A cancellation that was accepted counts, also against a restore that came to
\* its end meanwhile (localrestore.go Cancel and the end of run).
THEOREM CancellationsCount ==
    ASSUME PageAssumption
    PROVE  Spec => []CancelHonoured
<1>1. PageInv => CancelHonoured
  BY DEF PageInv, AgentInv
<1>2. QED
  BY <1>1, PageInvariant, PTL

\* The files of a restore that shows as done are staged or with the person,
\* wherever the agent ends (localrestore.go Delivered, deliver.go).
THEOREM RestoredFilesStay ==
    ASSUME PageAssumption
    PROVE  Spec => []NothingLost
<1>1. PageInv => NothingLost
  BY DEF PageInv
<1>2. QED
  BY <1>1, PageInvariant, PTL

\* However many deliveries come to one folder, none replaces a whole copy
\* (deliver.go copyFile).
THEOREM DeliveriesNeverOverwrite ==
    ASSUME PageAssumption
    PROVE  Spec => CopiesKept
<1>1. PageInv /\ [Next]_vars => FilesGrow
  BY StepKept
<1>2. QED
  BY <1>1, PageInvariant, PTL DEF Spec, CopiesKept, FilesGrow

\* A restore is reported once at most: the timer, deliveries and starts of the
\* agent all find the mark, unless it was in no save that worked when the agent
\* ended (localrestore.go reportOnce, saveLocked).
THEOREM RestoresReportedOnce ==
    ASSUME PageAssumption
    PROVE  Spec => []ReportedOnce
<1>1. PageInv => ReportedOnce
  <2>1. SUFFICES ASSUME PageInv, NEW i \in Ids \ lapsed
                 PROVE  Cardinality(Reports(told \cup sending, i)) <= 1
    BY DEF ReportedOnce
  <2> DEFINE S == Reports(told \cup sending, i)
  <2>2. \A r, s \in S : r = s
    BY <2>1 DEF PageInv, AgentInv, ReportShape, Sent, Reports
  <2>3. S = {} \/ \E r : S = {r}
    BY <2>2
  <2>4. Cardinality(S) = 0 \/ Cardinality(S) = 1
    <3>1. HIDE DEF S
    <3>2. CASE S = {}
      BY <3>2, FS_EmptySet
    <3>3. CASE \E r : S = {r}
      BY <3>3, FS_Singleton
    <3>4. QED
      BY <2>3, <3>2, <3>3
  <2>5. QED
    BY <2>4
<1>2. QED
  BY <1>1, PageInvariant, PTL
=============================================================================
