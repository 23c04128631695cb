-------------------------- MODULE WanGatewayProofs --------------------------
(***************************************************************************)
(* What the gateway's ObjectStore keeps for any number of names, contents,  *)
(* requests and mishaps, in both kinds of store: an object a client was     *)
(* told is stored stays as it was.                                         *)
(***************************************************************************)
EXTENDS WanGateway, TLAPS

Texts == {"nothing", "part"} \cup UNION {Contents[n] : n \in Names}
PostSteps == {"none", "look", "compare", "create", "fill", "sync", "remove", "put", "ok", "refused"}
Object == [by : 0..MaxPosts, text : Texts]
Request == [pc : PostSteps, name : Names \cup {"none"}, body : Texts \cup {"none"}]

Shapes == store \in [Names -> Object] /\ post \in [Objects!Posts -> Request]

\* Only the exclusive open of a LocalStore gets to the steps that follow it.
OwnKind ==
    \A r \in Objects!Posts :
        /\ post[r].pc \in {"create", "fill", "sync", "remove"} => kind = "local"
        /\ post[r].pc = "put" => kind = "rclone"

\* While r writes its file nobody answers for it, and once it is written it
\* holds what r posted, as long as it has not been taken away.
Writing(r) ==
    post[r].name \in Locks \cup undone
      \/ store[post[r].name] = [by |-> r, text |-> IF post[r].pc = "fill" THEN "part" ELSE post[r].body]

OwnFile == \A r \in Objects!Posts : post[r].pc \in {"fill", "sync"} => Writing(r)

StoreInv == Objects!TypeOK /\ Shapes /\ OwnKind /\ OwnFile /\ Objects!ObjectsKept

-----------------------------------------------------------------------------
\* A request moves on; its name and what it carries do not change.
LEMMA Moves ==
    ASSUME StoreInv, NEW r \in Objects!Posts, NEW pc \in PostSteps, Objects!To(r, pc)
    PROVE  /\ post' \in [Objects!Posts -> Request]
           /\ post'[r].pc = pc
           /\ \A i \in Objects!Posts : /\ post'[i].name = post[i].name /\ post'[i].body = post[i].body
                                       /\ i # r => post'[i].pc = post[i].pc
BY DEF StoreInv, Shapes, Request, Objects!To

\* What an active request carries.
LEMMA Carries ==
    ASSUME StoreInv, NEW r \in Objects!Posts, post[r].pc # "none"
    PROVE  post[r].name \in Names /\ post[r].body \in Contents[post[r].name] /\ post[r].body \in Texts
BY DEF StoreInv, Objects!TypeOK, Texts

LEMMA InitHolds ==
    ASSUME Objects!ObjectAssumption, Objects!Init
    PROVE  StoreInv
<1>1. Objects!TypeOK
  BY DEF Objects!ObjectAssumption, Objects!Init, Objects!TypeOK, Objects!Posts, Objects!Nothing,
         Objects!NoPost
<1>2. Shapes
  BY DEF Objects!ObjectAssumption, Objects!Init, Shapes, Object, Request, Texts, PostSteps,
         Objects!Posts, Objects!Nothing, Objects!NoPost
<1>3. OwnKind /\ OwnFile /\ Objects!ObjectsKept
  BY DEF Objects!Init, OwnKind, OwnFile, Objects!ObjectsKept, Objects!NoPost
<1>4. QED
  BY <1>1, <1>2, <1>3 DEF StoreInv

\* The types after a step of a request, given those of what it wrote.
LEMMA Typed ==
    ASSUME StoreInv, NEW r \in Objects!Posts, post[r].pc # "none",
           NEW pc \in PostSteps \ {"none"}, Objects!To(r, pc), UNCHANGED kind,
           store' \in [Names -> Object],
           \A n \in Names : store'[n].text \in {"nothing", "part"} \cup Contents[n],
           answered' \subseteq answered \cup {<<post[r].name, post[r].body>>},
           undone' \subseteq undone \cup {post[r].name},
           mishaps' \in 0..MaxStoreFaults
    PROVE  Objects!TypeOK' /\ Shapes'
<1>1. /\ post' \in [Objects!Posts -> Request]
      /\ post'[r].pc = pc
      /\ \A i \in Objects!Posts : /\ post'[i].name = post[i].name /\ post'[i].body = post[i].body
                                  /\ i # r => post'[i].pc = post[i].pc
  BY Moves
<1>2. post[r].name \in Names /\ post[r].body \in Contents[post[r].name]
  BY Carries
<1>3. \A i \in Objects!Posts : /\ post'[i].pc \in PostSteps
                               /\ post'[i].pc # "none" => post'[i].name \in Names /\ post'[i].body \in Contents[post'[i].name]
  <2>1. TAKE i \in Objects!Posts
  <2>2. post'[i].pc \in PostSteps
    BY <1>1 DEF Request
  <2>3. CASE i = r
    BY <1>1, <1>2, <2>2, <2>3
  <2>4. CASE i # r
    BY <1>1, <2>2, <2>4 DEF StoreInv, Objects!TypeOK
  <2>5. QED
    BY <2>3, <2>4
<1>4. \A t \in answered' : t[1] \in Names /\ t[2] \in Contents[t[1]]
  BY <1>2 DEF StoreInv, Objects!TypeOK
<1>5. undone' \in SUBSET Names
  BY <1>2 DEF StoreInv, Objects!TypeOK
<1>6. \A n \in Names : store'[n].by \in 0..MaxPosts
  BY DEF Object
<1>7. kind' \in {"local", "rclone"}
  BY DEF StoreInv, Objects!TypeOK
<1>8. QED
  BY <1>1, <1>3, <1>4, <1>5, <1>6, <1>7 DEF Objects!TypeOK, Shapes, PostSteps

\* What a step of r does to an object that is there: nothing, unless it may be
\* deleted, or is half a file of its own, or rclone copies over it.
Careful(r) ==
    /\ UNCHANGED kind /\ undone \subseteq undone'
    /\ \A n \in Names :
          \/ n \in Locks \cup undone'
          \/ store'[n] = store[n]
          \/ store[n] = Objects!Nothing
          \/ store[n] = [by |-> r, text |-> "part"]
          \/ kind = "rclone" /\ store'[n].text \in Contents[n]

Kept(t) ==
    \/ store[t[1]].text = t[2]
    \/ t[1] \in Locks \cup undone
    \/ kind = "rclone" /\ \E a, b \in Contents[t[1]] : a # b

\* A careful step disturbs neither the files of the others nor what was answered.
LEMMA CarefulKeeps ==
    ASSUME Objects!ObjectAssumption, StoreInv, NEW r \in Objects!Posts, post[r].pc # "none",
           NEW pc \in PostSteps, Objects!To(r, pc), Careful(r),
           pc \in {"create", "fill", "sync", "remove"} => kind = "local",
           pc = "put" => kind = "rclone",
           pc \in {"fill", "sync"} => Writing(r)',
           \A t \in answered' : t \in answered \/ Kept(t)'
    PROVE  OwnKind' /\ OwnFile' /\ Objects!ObjectsKept'
<1>1. /\ post' \in [Objects!Posts -> Request]
      /\ post'[r].pc = pc
      /\ \A i \in Objects!Posts : /\ post'[i].name = post[i].name /\ post'[i].body = post[i].body
                                  /\ i # r => post'[i].pc = post[i].pc
  BY Moves
<1>2. OwnKind'
  BY <1>1 DEF StoreInv, OwnKind, Careful
<1>3. OwnFile'
  <2>1. SUFFICES ASSUME NEW i \in Objects!Posts, post'[i].pc \in {"fill", "sync"}
                 PROVE  Writing(i)'
    BY DEF OwnFile
  <2>2. CASE i = r
    BY <1>1, <2>1, <2>2
  <2>3. CASE i # r
    <3>1. /\ post[i].pc \in {"fill", "sync"} /\ post'[i].pc = post[i].pc
          /\ post'[i].name = post[i].name /\ post'[i].body = post[i].body
      BY <1>1, <2>1, <2>3
    <3>2. Writing(i) /\ kind = "local" /\ post[i].name \in Names
      BY <3>1 DEF StoreInv, OwnFile, OwnKind, Objects!TypeOK
    <3>3. CASE post[i].name \in Locks \cup undone
      BY <3>1, <3>3 DEF Writing, Careful
    <3>4. CASE post[i].name \notin Locks \cup undone
      <4>1. store[post[i].name] = [by |-> i, text |-> IF post[i].pc = "fill" THEN "part" ELSE post[i].body]
        BY <3>2, <3>4 DEF Writing
      <4>2. store[post[i].name].by = i /\ i # 0
        BY <4>1, <2>3 DEF Objects!Posts
      <4>3. store[post[i].name] # Objects!Nothing /\ store[post[i].name] # [by |-> r, text |-> "part"]
        BY <4>2, <2>3 DEF Objects!Nothing
      <4>4. post[i].name \in Locks \cup undone' \/ store'[post[i].name] = store[post[i].name]
        BY <3>2, <4>3 DEF Careful
      <4>5. QED
        BY <3>1, <4>1, <4>4 DEF Writing
    <3>5. QED
      BY <3>3, <3>4
  <2>4. QED
    BY <2>2, <2>3
<1>4. Objects!ObjectsKept'
  <2>1. SUFFICES ASSUME NEW t \in answered'
                 PROVE  Kept(t)'
    BY DEF Objects!ObjectsKept, Kept
  <2>2. CASE t \in answered
    <3>1. Kept(t) /\ t[1] \in Names /\ t[2] \in Contents[t[1]]
      BY <2>2 DEF StoreInv, Objects!ObjectsKept, Kept, Objects!TypeOK
    <3>2. CASE store[t[1]].text = t[2]
      <4>1. store[t[1]].text \notin {"nothing", "part"}
        BY <3>1, <3>2 DEF Objects!ObjectAssumption
      <4>2. store[t[1]] # Objects!Nothing /\ store[t[1]] # [by |-> r, text |-> "part"]
        BY <4>1 DEF Objects!Nothing
      <4>3. \/ t[1] \in Locks \cup undone'
            \/ store'[t[1]] = store[t[1]]
            \/ kind = "rclone" /\ store'[t[1]].text \in Contents[t[1]]
        BY <3>1, <4>2 DEF Careful
      <4>4. QED
        BY <3>1, <3>2, <4>3 DEF Kept, Careful
    <3>3. CASE store[t[1]].text # t[2]
      BY <3>1, <3>3 DEF Kept, Careful
    <3>4. QED
      BY <3>2, <3>3
  <2>3. CASE t \notin answered
    BY <2>3
  <2>4. QED
    BY <2>2, <2>3
<1>5. QED
  BY <1>2, <1>3, <1>4

LEMMA LookKept ==
    ASSUME Objects!ObjectAssumption, StoreInv, NEW r \in Objects!Posts, Objects!Look(r)
    PROVE  StoreInv'
<1>1. post[r].pc # "none"
  BY DEF Objects!Look
<1>2. post[r].name \in Names /\ post[r].body \in Contents[post[r].name] /\ post[r].body \in Texts
  BY <1>1, Carries
<1>3. PICK pc \in {"compare", "create", "put"} : Objects!To(r, pc)
  BY DEF Objects!Look, Objects!Succeeds, Objects!Refused
<1>4. store' \in [Names -> Object] /\ \A n \in Names : store'[n].text \in {"nothing", "part"} \cup Contents[n]
  BY <1>2 DEF Objects!Look, StoreInv, Objects!TypeOK, Shapes
<1>5. /\ answered' \subseteq answered \cup {<<post[r].name, post[r].body>>}
      /\ undone' \subseteq undone \cup {post[r].name}
      /\ mishaps' \in 0..MaxStoreFaults
  BY <1>2 DEF Objects!Look, StoreInv, Objects!TypeOK, Objects!Succeeds, Objects!Refused, Objects!Fault,
              Objects!ObjectAssumption
<1>6. Objects!TypeOK' /\ Shapes'
  BY <1>1, <1>3, <1>4, <1>5, Typed DEF Objects!Look, PostSteps
<1>7. Careful(r)
  BY <1>2 DEF Objects!Look, Careful, StoreInv, Shapes
<1>8. /\ pc \in {"create", "fill", "sync", "remove"} => kind = "local"
      /\ pc = "put" => kind = "rclone"
  BY <1>1, <1>3, Moves
     DEF Objects!Look, StoreInv, Objects!TypeOK, OwnKind, PostSteps, Objects!Succeeds, Objects!Refused
<1>9. pc \in {"fill", "sync"} => Writing(r)'
  BY <1>2, <1>3, Moves DEF Objects!Look, PostSteps
<1>10. \A t \in answered' : t \in answered \/ Kept(t)'
  BY <1>2 DEF Objects!Look, Kept, Objects!Succeeds, Objects!Refused
<1>11. QED
  BY <1>1, <1>3, <1>6, <1>7, <1>8, <1>9, <1>10, CarefulKeeps DEF StoreInv, PostSteps

\* The answer is true of the store.
LEMMA CompareKept ==
    ASSUME Objects!ObjectAssumption, StoreInv, NEW r \in Objects!Posts, Objects!Compare(r)
    PROVE  StoreInv'
<1>1. post[r].pc # "none"
  BY DEF Objects!Compare
<1>2. post[r].name \in Names /\ post[r].body \in Contents[post[r].name] /\ post[r].body \in Texts
  BY <1>1, Carries
<1>3. PICK pc \in {"ok", "refused"} : Objects!To(r, pc)
  BY DEF Objects!Compare, Objects!Succeeds, Objects!Refused
<1>4. store' \in [Names -> Object] /\ \A n \in Names : store'[n].text \in {"nothing", "part"} \cup Contents[n]
  BY <1>2 DEF Objects!Compare, StoreInv, Objects!TypeOK, Shapes
<1>5. /\ answered' \subseteq answered \cup {<<post[r].name, post[r].body>>}
      /\ undone' \subseteq undone \cup {post[r].name}
      /\ mishaps' \in 0..MaxStoreFaults
  BY <1>2 DEF Objects!Compare, StoreInv, Objects!TypeOK, Objects!Succeeds, Objects!Refused,
              Objects!Fault, Objects!ObjectAssumption
<1>6. Objects!TypeOK' /\ Shapes'
  BY <1>1, <1>3, <1>4, <1>5, Typed DEF Objects!Compare, PostSteps
<1>7. Careful(r)
  BY <1>2 DEF Objects!Compare, Careful, StoreInv, Shapes
<1>8. /\ pc \in {"create", "fill", "sync", "remove"} => kind = "local"
      /\ pc = "put" => kind = "rclone"
  BY <1>1, <1>3, Moves DEF Objects!Compare, StoreInv, Objects!TypeOK, OwnKind, PostSteps,
                           Objects!Succeeds, Objects!Refused
<1>9. pc \in {"fill", "sync"} => Writing(r)'
  BY <1>2, <1>3, Moves DEF Objects!Compare, PostSteps
<1>10. \A t \in answered' : t \in answered \/ Kept(t)'
  BY <1>2 DEF Objects!Compare, Kept, Objects!Succeeds, Objects!Refused
<1>11. QED
  BY <1>1, <1>3, <1>6, <1>7, <1>8, <1>9, <1>10, CarefulKeeps DEF StoreInv, PostSteps

\* The open makes a file of its own or finds one.
LEMMA CreateKept ==
    ASSUME Objects!ObjectAssumption, StoreInv, NEW r \in Objects!Posts, Objects!Create(r)
    PROVE  StoreInv'
<1>1. post[r].pc # "none"
  BY DEF Objects!Create
<1>2. post[r].name \in Names /\ post[r].body \in Contents[post[r].name] /\ post[r].body \in Texts
  BY <1>1, Carries
<1>3. PICK pc \in {"compare", "fill"} : Objects!To(r, pc)
  BY DEF Objects!Create, Objects!Succeeds, Objects!Refused
<1>4. store' \in [Names -> Object] /\ \A n \in Names : store'[n].text \in {"nothing", "part"} \cup Contents[n]
  <2>1. [by |-> r, text |-> "part"] \in Object
    BY DEF Object, Texts, Objects!Posts, Objects!ObjectAssumption
  <2>2. CASE Objects!There(post[r].name)
    BY <2>2 DEF Objects!Create, StoreInv, Objects!TypeOK, Shapes
  <2>3. CASE ~Objects!There(post[r].name)
    BY <1>2, <2>1, <2>3 DEF Objects!Create, StoreInv, Objects!TypeOK, Shapes
  <2>4. QED
    BY <2>2, <2>3
<1>5. /\ answered' \subseteq answered \cup {<<post[r].name, post[r].body>>}
      /\ undone' \subseteq undone \cup {post[r].name}
      /\ mishaps' \in 0..MaxStoreFaults
  BY <1>2 DEF Objects!Create, StoreInv, Objects!TypeOK, Objects!Succeeds, Objects!Refused,
              Objects!Fault, Objects!ObjectAssumption
<1>6. Objects!TypeOK' /\ Shapes'
  BY <1>1, <1>3, <1>4, <1>5, Typed DEF Objects!Create, PostSteps
<1>7. Careful(r)
  BY <1>2 DEF Objects!Create, Careful, StoreInv, Shapes, Objects!There, Objects!Nothing
<1>8. /\ pc \in {"create", "fill", "sync", "remove"} => kind = "local"
      /\ pc = "put" => kind = "rclone"
  BY <1>1, <1>3, Moves DEF Objects!Create, StoreInv, Objects!TypeOK, OwnKind, PostSteps,
                           Objects!Succeeds, Objects!Refused
<1>9. pc \in {"fill", "sync"} => Writing(r)'
  BY <1>2, <1>3, Moves DEF Objects!Create, PostSteps, Writing, StoreInv, Shapes
<1>10. \A t \in answered' : t \in answered \/ Kept(t)'
  BY <1>2 DEF Objects!Create, Kept, Objects!Succeeds, Objects!Refused
<1>11. QED
  BY <1>1, <1>3, <1>6, <1>7, <1>8, <1>9, <1>10, CarefulKeeps DEF StoreInv, PostSteps

\* Only its own file, for which nobody has answered, gets its content.
LEMMA FillKept ==
    ASSUME Objects!ObjectAssumption, StoreInv, NEW r \in Objects!Posts, Objects!Fill(r)
    PROVE  StoreInv'
<1>1. post[r].pc # "none"
  BY DEF Objects!Fill
<1>2. post[r].name \in Names /\ post[r].body \in Contents[post[r].name] /\ post[r].body \in Texts
  BY <1>1, Carries
<1>3. PICK pc \in {"sync"} : Objects!To(r, pc)
  BY DEF Objects!Fill, Objects!Succeeds, Objects!Refused
<1>4. store' \in [Names -> Object] /\ \A n \in Names : store'[n].text \in {"nothing", "part"} \cup Contents[n]
  <2>1. /\ store \in [Names -> Object]
        /\ \A n \in Names : store[n].text \in {"nothing", "part"} \cup Contents[n]
    BY DEF StoreInv, Objects!TypeOK, Shapes
  <2>2. \/ store' = store
        \/ store' = [store EXCEPT ![post[r].name].text = post[r].body]
    BY DEF Objects!Fill
  <2>3. QED
    BY <1>2, <2>1, <2>2 DEF Object
<1>5. /\ answered' \subseteq answered \cup {<<post[r].name, post[r].body>>}
      /\ undone' \subseteq undone \cup {post[r].name}
      /\ mishaps' \in 0..MaxStoreFaults
  BY <1>2 DEF Objects!Fill, StoreInv, Objects!TypeOK, Objects!Succeeds, Objects!Refused, Objects!Fault,
              Objects!ObjectAssumption
<1>6. Objects!TypeOK' /\ Shapes'
  BY <1>1, <1>3, <1>4, <1>5, Typed DEF Objects!Fill, PostSteps
<1>7. Careful(r)
  BY <1>2 DEF Objects!Fill, Careful, StoreInv, Shapes, Objects!TypeOK, OwnKind, OwnFile, Writing,
              Objects!Nothing, Object
<1>8. /\ pc \in {"create", "fill", "sync", "remove"} => kind = "local"
      /\ pc = "put" => kind = "rclone"
  BY <1>1, <1>3, Moves
     DEF Objects!Fill, StoreInv, Objects!TypeOK, OwnKind, PostSteps, Objects!Succeeds, Objects!Refused
<1>9. pc \in {"fill", "sync"} => Writing(r)'
  <2>1. /\ post[r].pc = "fill" /\ UNCHANGED undone
        /\ post'[r].pc = "sync" /\ post'[r].name = post[r].name /\ post'[r].body = post[r].body
    BY <1>3, Moves DEF Objects!Fill, PostSteps
  <2>2. CASE post[r].name \in Locks \cup undone
    BY <2>1, <2>2 DEF Writing
  <2>3. CASE post[r].name \notin Locks \cup undone
    <3>1. store[post[r].name] = [by |-> r, text |-> "part"]
      BY <2>1, <2>3 DEF StoreInv, OwnFile, Writing
    <3>2. store' = [store EXCEPT ![post[r].name].text = post[r].body]
      BY <3>1 DEF Objects!Fill
    <3>3. store'[post[r].name] = [by |-> r, text |-> post[r].body]
      BY <1>2, <3>1, <3>2 DEF StoreInv, Shapes
    <3>4. QED
      BY <2>1, <3>3 DEF Writing
  <2>4. QED
    BY <2>2, <2>3
<1>10. \A t \in answered' : t \in answered \/ Kept(t)'
  BY <1>2 DEF Objects!Fill, Kept, Objects!Succeeds, Objects!Refused
<1>11. QED
  BY <1>1, <1>3, <1>6, <1>7, <1>8, <1>9, <1>10, CarefulKeeps DEF StoreInv, PostSteps

\* It answers for its own file.
LEMMA SyncKept ==
    ASSUME Objects!ObjectAssumption, StoreInv, NEW r \in Objects!Posts, Objects!Sync(r)
    PROVE  StoreInv'
<1>1. post[r].pc # "none"
  BY DEF Objects!Sync
<1>2. post[r].name \in Names /\ post[r].body \in Contents[post[r].name] /\ post[r].body \in Texts
  BY <1>1, Carries
<1>3. PICK pc \in {"ok"} : Objects!To(r, pc)
  BY DEF Objects!Sync, Objects!Succeeds, Objects!Refused
<1>4. store' \in [Names -> Object] /\ \A n \in Names : store'[n].text \in {"nothing", "part"} \cup Contents[n]
  BY <1>2 DEF Objects!Sync, StoreInv, Objects!TypeOK, Shapes
<1>5. /\ answered' \subseteq answered \cup {<<post[r].name, post[r].body>>}
      /\ undone' \subseteq undone \cup {post[r].name}
      /\ mishaps' \in 0..MaxStoreFaults
  BY <1>2 DEF Objects!Sync, StoreInv, Objects!TypeOK, Objects!Succeeds, Objects!Refused, Objects!Fault,
              Objects!ObjectAssumption
<1>6. Objects!TypeOK' /\ Shapes'
  BY <1>1, <1>3, <1>4, <1>5, Typed DEF Objects!Sync, PostSteps
<1>7. Careful(r)
  BY <1>2 DEF Objects!Sync, Careful, StoreInv, Shapes
<1>8. /\ pc \in {"create", "fill", "sync", "remove"} => kind = "local"
      /\ pc = "put" => kind = "rclone"
  BY <1>1, <1>3, Moves
     DEF Objects!Sync, StoreInv, Objects!TypeOK, OwnKind, PostSteps, Objects!Succeeds, Objects!Refused
<1>9. pc \in {"fill", "sync"} => Writing(r)'
  BY <1>2, <1>3, Moves DEF Objects!Sync, PostSteps
<1>10. \A t \in answered' : t \in answered \/ Kept(t)'
  <2>1. post[r].pc = "sync" /\ UNCHANGED <<store, undone>>
    BY DEF Objects!Sync
  <2>2. Writing(r)
    BY <2>1 DEF StoreInv, OwnFile
  <2>3. store[post[r].name].text = post[r].body \/ post[r].name \in Locks \cup undone
    BY <2>1, <2>2 DEF Writing
  <2>4. SUFFICES ASSUME NEW t \in answered', t \notin answered
                 PROVE  Kept(t)'
    OBVIOUS
  <2>5. t = <<post[r].name, post[r].body>>
    BY <2>4 DEF Objects!Sync, Objects!Succeeds
  <2>6. QED
    BY <2>1, <2>3, <2>5 DEF Kept
<1>11. QED
  BY <1>1, <1>3, <1>6, <1>7, <1>8, <1>9, <1>10, CarefulKeeps DEF StoreInv, PostSteps

LEMMA WriteFailsKept ==
    ASSUME Objects!ObjectAssumption, StoreInv, NEW r \in Objects!Posts, Objects!WriteFails(r)
    PROVE  StoreInv'
<1>1. post[r].pc # "none"
  BY DEF Objects!WriteFails
<1>2. post[r].name \in Names /\ post[r].body \in Contents[post[r].name] /\ post[r].body \in Texts
  BY <1>1, Carries
<1>3. PICK pc \in {"remove"} : Objects!To(r, pc)
  BY DEF Objects!WriteFails, Objects!Succeeds, Objects!Refused
<1>4. store' \in [Names -> Object] /\ \A n \in Names : store'[n].text \in {"nothing", "part"} \cup Contents[n]
  BY <1>2 DEF Objects!WriteFails, StoreInv, Objects!TypeOK, Shapes
<1>5. /\ answered' \subseteq answered \cup {<<post[r].name, post[r].body>>}
      /\ undone' \subseteq undone \cup {post[r].name}
      /\ mishaps' \in 0..MaxStoreFaults
  BY <1>2 DEF Objects!WriteFails, StoreInv, Objects!TypeOK, Objects!Succeeds, Objects!Refused,
              Objects!Fault, Objects!ObjectAssumption
<1>6. Objects!TypeOK' /\ Shapes'
  BY <1>1, <1>3, <1>4, <1>5, Typed DEF Objects!WriteFails, PostSteps
<1>7. Careful(r)
  BY <1>2 DEF Objects!WriteFails, Careful, StoreInv, Shapes
<1>8. /\ pc \in {"create", "fill", "sync", "remove"} => kind = "local"
      /\ pc = "put" => kind = "rclone"
  BY <1>1, <1>3, Moves DEF Objects!WriteFails, StoreInv, Objects!TypeOK, OwnKind, PostSteps,
                           Objects!Succeeds, Objects!Refused
<1>9. pc \in {"fill", "sync"} => Writing(r)'
  BY <1>2, <1>3, Moves DEF Objects!WriteFails, PostSteps
<1>10. \A t \in answered' : t \in answered \/ Kept(t)'
  BY <1>2 DEF Objects!WriteFails, Kept, Objects!Succeeds, Objects!Refused
<1>11. QED
  BY <1>1, <1>3, <1>6, <1>7, <1>8, <1>9, <1>10, CarefulKeeps DEF StoreInv, PostSteps

\* What it takes away is undone.
LEMMA RemoveKept ==
    ASSUME Objects!ObjectAssumption, StoreInv, NEW r \in Objects!Posts, Objects!Remove(r)
    PROVE  StoreInv'
<1>1. post[r].pc # "none"
  BY DEF Objects!Remove
<1>2. post[r].name \in Names /\ post[r].body \in Contents[post[r].name] /\ post[r].body \in Texts
  BY <1>1, Carries
<1>3. PICK pc \in {"refused"} : Objects!To(r, pc)
  BY DEF Objects!Remove, Objects!Succeeds, Objects!Refused
<1>4. store' \in [Names -> Object] /\ \A n \in Names : store'[n].text \in {"nothing", "part"} \cup Contents[n]
  BY <1>2 DEF Objects!Remove, StoreInv, Objects!TypeOK, Shapes, Object, Objects!Posts, Texts,
              Objects!ObjectAssumption, Objects!Nothing
<1>5. /\ answered' \subseteq answered \cup {<<post[r].name, post[r].body>>}
      /\ undone' \subseteq undone \cup {post[r].name}
      /\ mishaps' \in 0..MaxStoreFaults
  BY <1>2 DEF Objects!Remove, StoreInv, Objects!TypeOK, Objects!Succeeds, Objects!Refused,
              Objects!Fault, Objects!ObjectAssumption
<1>6. Objects!TypeOK' /\ Shapes'
  BY <1>1, <1>3, <1>4, <1>5, Typed DEF Objects!Remove, PostSteps
<1>7. Careful(r)
  BY <1>2 DEF Objects!Remove, Careful, StoreInv, Shapes
<1>8. /\ pc \in {"create", "fill", "sync", "remove"} => kind = "local"
      /\ pc = "put" => kind = "rclone"
  BY <1>1, <1>3, Moves DEF Objects!Remove, StoreInv, Objects!TypeOK, OwnKind, PostSteps,
                           Objects!Succeeds, Objects!Refused
<1>9. pc \in {"fill", "sync"} => Writing(r)'
  BY <1>2, <1>3, Moves DEF Objects!Remove, PostSteps
<1>10. \A t \in answered' : t \in answered \/ Kept(t)'
  BY <1>2 DEF Objects!Remove, Kept, Objects!Succeeds, Objects!Refused
<1>11. QED
  BY <1>1, <1>3, <1>6, <1>7, <1>8, <1>9, <1>10, CarefulKeeps DEF StoreInv, PostSteps

\* A copy over a name that is the hash of its content changes nothing.
LEMMA PutKept ==
    ASSUME Objects!ObjectAssumption, StoreInv, NEW r \in Objects!Posts, Objects!Put(r)
    PROVE  StoreInv'
<1>1. post[r].pc # "none"
  BY DEF Objects!Put
<1>2. post[r].name \in Names /\ post[r].body \in Contents[post[r].name] /\ post[r].body \in Texts
  BY <1>1, Carries
<1>3. PICK pc \in {"ok", "refused"} : Objects!To(r, pc)
  BY DEF Objects!Put, Objects!Succeeds, Objects!Refused
<1>4. store' \in [Names -> Object] /\ \A n \in Names : store'[n].text \in {"nothing", "part"} \cup Contents[n]
  <2>1. [by |-> r, text |-> post[r].body] \in Object
    BY <1>2 DEF Object, Objects!Posts, Objects!ObjectAssumption
  <2>2. CASE store' = [store EXCEPT ![post[r].name] = [by |-> r, text |-> post[r].body]]
    BY <1>2, <2>1, <2>2 DEF StoreInv, Objects!TypeOK, Shapes
  <2>3. CASE UNCHANGED store
    BY <2>3 DEF StoreInv, Objects!TypeOK, Shapes
  <2>4. QED
    BY <2>2, <2>3 DEF Objects!Put
<1>5. /\ answered' \subseteq answered \cup {<<post[r].name, post[r].body>>}
      /\ undone' \subseteq undone \cup {post[r].name}
      /\ mishaps' \in 0..MaxStoreFaults
  BY <1>2 DEF Objects!Put, StoreInv, Objects!TypeOK, Objects!Succeeds, Objects!Refused, Objects!Fault,
              Objects!ObjectAssumption
<1>6. Objects!TypeOK' /\ Shapes'
  BY <1>1, <1>3, <1>4, <1>5, Typed DEF Objects!Put, PostSteps
<1>7. Careful(r)
  BY <1>2 DEF Objects!Put, Careful, StoreInv, Shapes, OwnKind
<1>8. /\ pc \in {"create", "fill", "sync", "remove"} => kind = "local"
      /\ pc = "put" => kind = "rclone"
  BY <1>1, <1>3, Moves
     DEF Objects!Put, StoreInv, Objects!TypeOK, OwnKind, PostSteps, Objects!Succeeds, Objects!Refused
<1>9. pc \in {"fill", "sync"} => Writing(r)'
  BY <1>2, <1>3, Moves DEF Objects!Put, PostSteps
<1>10. \A t \in answered' : t \in answered \/ Kept(t)'
  BY <1>2 DEF Objects!Put, Kept, Objects!Succeeds, Objects!Refused, StoreInv, Shapes, OwnKind
<1>11. QED
  BY <1>1, <1>3, <1>6, <1>7, <1>8, <1>9, <1>10, CarefulKeeps DEF StoreInv, PostSteps

\* A request arrives; it has not written anything.
LEMMA PostKept ==
    ASSUME Objects!ObjectAssumption, StoreInv, NEW r \in Objects!Posts, NEW n \in Names, NEW b \in Contents[n], Objects!Post(r, n, b)
    PROVE  StoreInv'
<1>1. /\ post[r].pc = "none" /\ UNCHANGED <<kind, store, answered, undone, mishaps>>
      /\ post' = [post EXCEPT ![r] = [pc |-> "look", name |-> n, body |-> b]]
  BY DEF Objects!Post
<1>2. [pc |-> "look", name |-> n, body |-> b] \in Request
  BY DEF Request, PostSteps, Texts
<1>3. /\ post' \in [Objects!Posts -> Request]
      /\ post'[r] = [pc |-> "look", name |-> n, body |-> b]
      /\ \A i \in Objects!Posts : i # r => post'[i] = post[i]
  BY <1>1, <1>2 DEF StoreInv, Shapes
<1>4. \A i \in Objects!Posts : /\ post'[i].pc \in PostSteps
                               /\ post'[i].pc # "none" => post'[i].name \in Names /\ post'[i].body \in Contents[post'[i].name]
  <2>1. TAKE i \in Objects!Posts
  <2>2. CASE i = r
    BY <1>3, <2>2 DEF PostSteps
  <2>3. CASE i # r
    BY <1>3, <2>3 DEF StoreInv, Objects!TypeOK, PostSteps
  <2>4. QED
    BY <2>2, <2>3
<1>5. Objects!TypeOK' /\ Shapes'
  BY <1>1, <1>3, <1>4 DEF StoreInv, Objects!TypeOK, Shapes, PostSteps
<1>6. OwnKind'
  BY <1>1, <1>3 DEF StoreInv, OwnKind
<1>7. OwnFile'
  BY <1>1, <1>3 DEF StoreInv, OwnFile, Writing
<1>8. Objects!ObjectsKept'
  BY <1>1 DEF StoreInv, Objects!ObjectsKept
<1>9. QED
  BY <1>5, <1>6, <1>7, <1>8 DEF StoreInv

\* Only locks are deleted.
LEMMA DeleteKept ==
    ASSUME Objects!ObjectAssumption, StoreInv, NEW n \in Names, Objects!Delete(n)
    PROVE  StoreInv'
<1>1. /\ n \in Locks /\ UNCHANGED <<kind, post, answered, undone, mishaps>>
      /\ store' = [store EXCEPT ![n] = Objects!Nothing]
  BY DEF Objects!Delete, Objects!Deletable
<1>2. Objects!Nothing \in Object
  BY DEF Objects!Nothing, Object, Texts, Objects!ObjectAssumption
<1>3. /\ store' \in [Names -> Object] /\ store'[n] = Objects!Nothing
      /\ \A k \in Names : k # n => store'[k] = store[k]
  BY <1>1, <1>2 DEF StoreInv, Shapes
<1>4. \A k \in Names : store'[k].by \in 0..MaxPosts /\ store'[k].text \in {"nothing", "part"} \cup Contents[k]
  BY <1>3 DEF StoreInv, Objects!TypeOK, Objects!Nothing, Objects!ObjectAssumption
<1>5. Objects!TypeOK' /\ Shapes'
  BY <1>1, <1>3, <1>4 DEF StoreInv, Objects!TypeOK, Shapes
<1>6. OwnKind'
  BY <1>1 DEF StoreInv, OwnKind
<1>7. OwnFile'
  <2>1. SUFFICES ASSUME NEW i \in Objects!Posts, post[i].pc \in {"fill", "sync"}
                 PROVE  Writing(i)'
    BY <1>1 DEF OwnFile
  <2>2. Writing(i) /\ post[i].name \in Names
    BY <2>1 DEF StoreInv, OwnFile, Objects!TypeOK
  <2>3. QED
    BY <1>1, <1>3, <2>2 DEF Writing
<1>8. Objects!ObjectsKept'
  BY <1>1, <1>3 DEF StoreInv, Objects!TypeOK, Objects!ObjectsKept
<1>9. QED
  BY <1>5, <1>6, <1>7, <1>8 DEF StoreInv

\* The process ends in the middle of its requests; the store stays.
LEMMA RestartKept ==
    ASSUME Objects!ObjectAssumption, StoreInv, Objects!Restart
    PROVE  StoreInv'
<1>1. /\ UNCHANGED <<kind, store, answered, undone>> /\ mishaps < MaxStoreFaults /\ mishaps' = mishaps + 1
      /\ post' = [r \in Objects!Posts |-> IF post[r].pc = "none" THEN post[r] ELSE [post[r] EXCEPT !.pc = "refused"]]
  BY DEF Objects!Restart, Objects!Fault
<1>2. /\ post' \in [Objects!Posts -> Request]
      /\ \A r \in Objects!Posts : /\ post'[r].name = post[r].name /\ post'[r].body = post[r].body
                                  /\ post'[r].pc = IF post[r].pc = "none" THEN "none" ELSE "refused"
  BY <1>1 DEF StoreInv, Shapes, Request, PostSteps
<1>3. Objects!TypeOK' /\ Shapes'
  BY <1>1, <1>2 DEF StoreInv, Objects!TypeOK, Shapes, Objects!ObjectAssumption
<1>4. OwnKind' /\ OwnFile'
  BY <1>2 DEF OwnKind, OwnFile
<1>5. Objects!ObjectsKept'
  BY <1>1 DEF StoreInv, Objects!ObjectsKept
<1>6. QED
  BY <1>3, <1>4, <1>5 DEF StoreInv

LEMMA StutterKept ==
    ASSUME StoreInv, UNCHANGED Objects!vars
    PROVE  StoreInv'
BY DEF Objects!vars, StoreInv, Objects!TypeOK, Shapes, OwnKind, OwnFile, Writing, Objects!ObjectsKept

-----------------------------------------------------------------------------
\* The types, what every request is about to do to its file and what was
\* answered are kept by every step (write_exclusive and delete_file of both stores).
THEOREM StoreInvariant ==
    ASSUME Objects!ObjectAssumption
    PROVE  Objects!Spec => []StoreInv
<1>1. Objects!Init => StoreInv
  BY InitHolds
<1>2. StoreInv /\ [Objects!Next]_(Objects!vars) => StoreInv'
  <2>1. SUFFICES ASSUME StoreInv, [Objects!Next]_(Objects!vars)
                 PROVE  StoreInv'
    OBVIOUS
  <2>2. CASE \E r \in Objects!Posts : \E n \in Names : \E b \in Contents[n] : Objects!Post(r, n, b)
    BY <2>1, <2>2, PostKept
  <2>3. CASE \E r \in Objects!Posts : Objects!Look(r) \/ Objects!Compare(r) \/ Objects!Put(r)
    BY <2>1, <2>3, LookKept, CompareKept, PutKept
  <2>4. CASE \E r \in Objects!Posts : Objects!Create(r) \/ Objects!Fill(r) \/ Objects!Sync(r) \/ Objects!WriteFails(r) \/ Objects!Remove(r)
    BY <2>1, <2>4, CreateKept, FillKept, SyncKept, WriteFailsKept, RemoveKept
  <2>5. CASE \E n \in Names : Objects!Delete(n)
    BY <2>1, <2>5, DeleteKept
  <2>6. CASE Objects!Restart
    BY <2>1, <2>6, RestartKept
  <2>7. CASE UNCHANGED Objects!vars
    BY <2>1, <2>7, StutterKept
  <2>8. QED
    BY <2>1, <2>2, <2>3, <2>4, <2>5, <2>6, <2>7 DEF Objects!Next
<1>3. QED
  BY <1>1, <1>2, PTL DEF Objects!Spec

\* What the gateway does with objects is what ObjectStore says it does, and
\* the leases are those of WanAdmission.
THEOREM GatewayImplementsParts ==
    PartsSpec => Objects!Spec /\ Spec
<1>1. PartsInit => Objects!Init /\ Init
  BY DEF PartsInit
<1>2. [PartsNext]_<<part, vars, capVars, objectVars>> =>
          [Objects!Next]_(Objects!vars) /\ [Next]_vars
  BY DEF PartsNext, vars, objectVars, Objects!vars
<1>3. QED
  BY <1>1, <1>2, PTL DEF PartsSpec, Objects!Spec, Spec

\* What a client was told is stored stays stored with that content, whoever
\* posts under the same name and wherever the gateway ends (the promise of
\* gw/__init__.py, "Append-only").
THEOREM AnsweredObjectsStay ==
    ASSUME Objects!ObjectAssumption
    PROVE  PartsSpec => []ObjectsKept
<1>1. StoreInv => ObjectsKept
  BY DEF StoreInv, ObjectsKept
<1>2. QED
  BY <1>1, StoreInvariant, GatewayImplementsParts, PTL

=============================================================================
