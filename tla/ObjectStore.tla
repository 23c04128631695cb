----------------------------- MODULE ObjectStore -----------------------------
(***************************************************************************)
(* The gateway's objects (gw/__init__.py handle, gw/store.py): one file or   *)
(* one object of the remote per name of restic's REST protocol.  Requests   *)
(* run in threads of a pool, so those of one name overlap; a client that    *)
(* has given one up sends it again.  An object may be created, never        *)
(* replaced, and only locks may be deleted.                                 *)
(***************************************************************************)
EXTENDS Integers, FiniteSets

CONSTANTS
    Names,          \* names of objects
    Locks,          \* those below locks/
    Contents,       \* what clients post under a name: one content where the
                    \* name is its hash, several for "config"
    MaxPosts,       \* bound: requests
    MaxFaults       \* bound: failed writes, ends of the process

\* Whatever a client posts is told from an empty place and from half a file.
ObjectAssumption ==
    /\ MaxPosts \in Nat /\ MaxFaults \in Nat
    /\ \A n \in Names : Contents[n] \cap {"nothing", "part"} = {}

Posts == 1..MaxPosts
Nothing == [by |-> 0, text |-> "nothing"]
NoPost == [pc |-> "none", name |-> "none", body |-> "none"]

VARIABLES
    kind,       \* store.kind: "local" or "rclone"
    store,      \* the objects; by: the request whose file it is
    post,       \* the requests
    answered,   \* history: <<name, content>> of the requests that succeeded
    undone,     \* history: names a failed write was removed from
    faults

vars == <<kind, store, post, answered, undone, faults>>

Init ==
    /\ kind \in {"local", "rclone"}
    /\ store = [n \in Names |-> Nothing]
    /\ post = [r \in Posts |-> NoPost]
    /\ answered = {} /\ undone = {} /\ faults = 0

Fault == faults < MaxFaults /\ faults' = faults + 1

There(n) == store[n] # Nothing
To(r, pc) == post' = [post EXCEPT ![r].pc = pc]

\* A request that succeeds, or is refused.
Succeeds(r) == To(r, "ok") /\ answered' = answered \cup {<<post[r].name, post[r].body>>}
Refused(r) == To(r, "refused") /\ UNCHANGED answered

\* handle: the credentials were valid and the whole body has arrived.
Post(r, n, b) ==
    /\ post[r].pc = "none" /\ \A i \in Posts : i < r => post[i].pc # "none"
    /\ b \in Contents[n]
    /\ post' = [post EXCEPT ![r] = [pc |-> "look", name |-> n, body |-> b]]
    /\ UNCHANGED <<kind, store, answered, undone, faults>>

\* write_exclusive: whether there is an object of that name.  A listing that
\* rclone could not make shows none.
Look(r) ==
    /\ post[r].pc = "look"
    /\ \/ There(post[r].name) /\ To(r, "compare") /\ UNCHANGED faults
       \/ /\ To(r, IF kind = "local" THEN "create" ELSE "put")
          /\ (~There(post[r].name) /\ UNCHANGED faults) \/ (kind = "rclone" /\ Fault)
    /\ UNCHANGED <<kind, store, answered, undone>>

\* The same content is a success; reading fails, or the lock has gone.
Compare(r) ==
    /\ post[r].pc = "compare"
    /\ \/ /\ IF store[post[r].name].text = post[r].body THEN Succeeds(r) ELSE Refused(r)
          /\ UNCHANGED faults
       \/ Fault /\ Refused(r)
    /\ UNCHANGED <<kind, store, undone>>

\* Mutated form of Create: the file is opened without "x".
Create_Truncates(r) ==
    /\ post[r].pc = "create"
    /\ store' = [store EXCEPT ![post[r].name] = [by |-> r, text |-> "part"]]
    /\ To(r, "fill")
    /\ UNCHANGED <<kind, answered, undone, faults>>

\* LocalStore: the exclusive open finds what another request has created
\* since, or makes an empty file.
Create(r) ==
    LET n == post[r].name IN
    /\ post[r].pc = "create"
    /\ IF There(n) THEN To(r, "compare") /\ UNCHANGED store
       ELSE To(r, "fill") /\ store' = [store EXCEPT ![n] = [by |-> r, text |-> "part"]]
    /\ UNCHANGED <<kind, answered, undone, faults>>

\* The content is written and can be read; a lock may have been deleted.
Fill(r) ==
    LET n == post[r].name IN
    /\ post[r].pc = "fill"
    /\ store' = IF store[n].by = r THEN [store EXCEPT ![n].text = post[r].body] ELSE store
    /\ To(r, "sync")
    /\ UNCHANGED <<kind, answered, undone, faults>>

Sync(r) ==
    /\ post[r].pc = "sync" /\ Succeeds(r)
    /\ UNCHANGED <<kind, store, undone, faults>>

\* The disk is full or fsync fails.
WriteFails(r) ==
    /\ post[r].pc \in {"fill", "sync"} /\ Fault
    /\ To(r, "remove")
    /\ UNCHANGED <<kind, store, answered, undone>>

\* The file of that name is removed, and the request fails.
Remove(r) ==
    LET n == post[r].name IN
    /\ post[r].pc = "remove"
    /\ store' = [store EXCEPT ![n] = Nothing]
    /\ undone' = undone \cup {n}
    /\ Refused(r)
    /\ UNCHANGED <<kind, faults>>

\* RcloneStore: rclone copies over whatever is there, as a whole.
Put(r) ==
    /\ post[r].pc = "put"
    /\ \/ /\ store' = [store EXCEPT ![post[r].name] = [by |-> r, text |-> post[r].body]]
          /\ \/ Succeeds(r) /\ UNCHANGED faults
             \/ Refused(r) /\ Fault
       \/ Refused(r) /\ Fault /\ UNCHANGED store
    /\ UNCHANGED <<kind, undone>>

Deletable(n) == n \in Locks

Delete(n) ==
    /\ There(n) /\ Deletable(n)
    /\ store' = [store EXCEPT ![n] = Nothing]
    /\ UNCHANGED <<kind, post, answered, undone, faults>>

\* The gateway's process ends; what it has written stays as it is.
Restart ==
    /\ Fault
    /\ post' = [r \in Posts |-> IF post[r].pc = "none" THEN post[r] ELSE [post[r] EXCEPT !.pc = "refused"]]
    /\ UNCHANGED <<kind, store, answered, undone>>

Next ==
    \/ \E r \in Posts :
          \/ \E n \in Names : \E b \in Contents[n] : Post(r, n, b)
          \/ Look(r) \/ Compare(r) \/ Create(r) \/ Fill(r) \/ Sync(r) \/ WriteFails(r) \/ Remove(r) \/ Put(r)
    \/ \E n \in Names : Delete(n)
    \/ Restart

Spec == Init /\ [][Next]_vars

-----------------------------------------------------------------------------
(* Properties.                                                             *)

TypeOK ==
    /\ kind \in {"local", "rclone"}
    /\ \A n \in Names : store[n].by \in 0..MaxPosts /\ store[n].text \in {"nothing", "part"} \cup Contents[n]
    /\ \A r \in Posts :
          /\ post[r].pc \in {"none", "look", "compare", "create", "fill", "sync", "remove", "put", "ok", "refused"}
          /\ post[r].pc # "none" => post[r].name \in Names /\ post[r].body \in Contents[post[r].name]
    /\ \A t \in answered : t[1] \in Names /\ t[2] \in Contents[t[1]]
    /\ undone \in SUBSET Names /\ faults \in 0..MaxFaults

\* gw/__init__.py, "Append-only": what a client was told is stored stays
\* stored with that content (store.py write_exclusive), whoever posts under
\* the same name meanwhile.  Excepted is a name another request's write failed
\* under, because that request removes the file by its name, and with rclone a
\* name that is not the hash of its content, which nothing keeps from being
\* copied over.
ObjectsKept ==
    \A t \in answered :
        \/ store[t[1]].text = t[2]
        \/ t[1] \in Locks \cup undone
        \/ kind = "rclone" /\ \E a, b \in Contents[t[1]] : a # b

=============================================================================
