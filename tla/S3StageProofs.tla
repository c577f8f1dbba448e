--------------------------- MODULE S3StageProofs ---------------------------
(***************************************************************************)
(* The stage of the S3 backend, proved for any processes, names, uploads,  *)
(* part size and bounds:                                                   *)
(*                                                                         *)
(*   StageKept     nothing that Append has acknowledged is undone;         *)
(*   ChunksKept    the chunks of a stage that may be committed are there   *)
(*                 and are its bytes;                                      *)
(*   ReceiptTrue   a receipt speaks of bytes that are there.               *)
(*                                                                         *)
(* There is no lock, and a process whose lease has lapsed goes on, as do   *)
(* requests nobody waits for.  The argument has four parts.                *)
(*                                                                         *)
(* 1. A lease is a name nobody has used.  Until the manifest that has it   *)
(*    is saved, it is in one copy or in one request and nowhere else       *)
(*    (UnusedInv, OneInv); so whoever saves it first is the only one       *)
(*    whose ETag has it (OwnerInv), and no other conditional request can   *)
(*    succeed while it is in force.                                        *)
(* 2. A save makes of the manifest it is conditional on one of six things  *)
(*    (Derived).  A request that arrives late still does (EdgeInv): its    *)
(*    sum is the one before it, or one longer, which gives StageKept.      *)
(* 3. A chunk is written under the writer's lease, before any manifest     *)
(*    refers to it, and never again (ChunkInv); so one that is referred to *)
(*    is, if it is there, its part of the sum (PartsInv).  Only the holder *)
(*    of a lease deletes chunks, and those that are referred to only of a  *)
(*    stage that is over or expired (KeepInv).  That the parts put         *)
(*    together are the sum is proved by induction, as a least number       *)
(*    argument over Nat (Induct).                                          *)
(* 4. The upload a manifest names holds nothing but its sum, or nothing    *)
(*    (UploadInv), a blob is the bytes of its digest (BlobInv), and a      *)
(*    manifest becomes committed once there is a reference (PaidInv).      *)
(*                                                                         *)
(* The actions of S3Stage are sorted into kinds first (Kinds): the         *)
(* invariant is kept by each kind of step, by each late request, and by    *)
(* time and other callers.                                                 *)
(***************************************************************************)
EXTENDS S3Stage, SequenceTheorems, WellFoundedInduction, TLAPS

-----------------------------------------------------------------------------
(* Definitions.                                                            *)

\* The requests on their way to the manifest, and the chunks that requests on
\* their way write and delete.
Saves == {q \in net : q.to = "save"}
Deletes == {q \in net : q.to = "delete"}
Writing == {q.key : q \in {q \in net : q.to = "chunk"}}
Cleaning == {q.key : q \in {q \in net : q.to = "clean"}}

\* The chunks that n units need, where chunk i of s ends, its bytes, and those
\* of a last chunk that is short.
Ceil(n) == (n + PartSize - 1) \div PartSize
Cut(s, i) == IF i * PartSize <= Len(s) THEN i * PartSize ELSE Len(s)
Seg(s, i) == SubSeq(s, Cut(s, i - 1) + 1, Cut(s, i))
ShortEnd(s) == IF Len(s) % PartSize # 0 THEN Seg(s, Ceil(Len(s))) ELSE <<>>

\* What a save makes of the manifest t it is conditional on: the lease taken or
\* given back, a freeze, an upload recorded or forgotten, a receipt, an abort, an
\* append.
Relabel(t, n) == n = [t EXCEPT !.lease = n.lease]
Frozen(t, n) == t.lease # None /\ t.state = "active" /\ n = [t EXCEPT !.state = "committing"]
Noted(t, n) == t.lease # None /\ t.state = "committing" /\ n = [t EXCEPT !.upload = n.upload]
Received(t, n) ==
    /\ t.lease # None /\ t.state = "committing"
    /\ n.lease \in {None, t.lease}
    /\ n = [t EXCEPT !.state = "committed", !.lease = n.lease]
Dropped(t, n) ==
    /\ t.lease # None /\ t.state \in {"active", "aborted"}
    /\ n = [t EXCEPT !.state = "aborted", !.lease = None]
Extended(t, n) ==
    /\ t.lease # None /\ t.state = "active" /\ Len(t.sum) < MaxLen
    /\ \E p \in Proc : n = Appended(t, p)
Derived(t, n) ==
    Relabel(t, n) \/ Frozen(t, n) \/ Noted(t, n) \/ Received(t, n) \/ Dropped(t, n) \/ Extended(t, n)

\* Where a process has no copy of the manifest, where its copy is what it has
\* saved, and where it is that of a frozen stage.
Idle == {"idle", "begin", "read", "sweep", "uploads"}
Same == {"chunk", "append", "look", "put", "create", "copy", "complete", "ref", "list",
         "clean", "cleanall", "delete", "finish"}
Committing == {"look", "put", "create", "record", "copy", "forget", "complete", "ref"}

\* The point p is at fits its operation, and whether it has a copy.
FlowOf(p) ==
    /\ (pc[p] = "idle") <=> (op[p] = None)
    /\ (pc[p] = "begin") <=> (op[p] = "Begin")
    /\ op[p] = "Append" => begun
    /\ pc[p] \in {"chunk", "append"} => op[p] = "Append"
    /\ pc[p] \in {"cleanall", "delete", "sweep", "uploads"} => op[p] = "Prune"
    /\ pc[p] = "list" => op[p] \in {"Clean", "Prune"}
    /\ (mf[p] = None) <=> (pc[p] \in Idle \/ (pc[p] = "list" /\ op[p] = "Prune"))
    /\ mf[p] = None => tag[p] = None
    /\ p \in late => mf[p] # None \/ pc[p] = "read"

\* The copy of p fits the point it is at: with the ETag it has, it is about to
\* make of the manifest what that point says.
CopyOf(p) ==
    mf[p] # None =>
        /\ mf[p].lease # None
        /\ pc[p] \in Same => tag[p] = mf[p]
        /\ pc[p] = "lease" => tag[p] # None /\ Relabel(tag[p], mf[p]) /\ tag[p].lease # mf[p].lease
        /\ pc[p] = "freeze" => tag[p] # None /\ Frozen(tag[p], mf[p])
        /\ pc[p] \in {"record", "forget"} => tag[p] # None /\ Noted(tag[p], mf[p])
        /\ pc[p] = "receipt" => tag[p] # None /\ Received(tag[p], mf[p])
        /\ pc[p] = "abort" => tag[p] # None /\ tag[p].lease = mf[p].lease
                              /\ tag[p].state \in {"active", "aborted"}
                              /\ mf[p] = [tag[p] EXCEPT !.state = "aborted"]
        /\ pc[p] = "release" => tag[p] \in {None, mf[p]}
        /\ pc[p] \in {"chunk", "append"} => mf[p].state = "active" /\ Len(mf[p].sum) < MaxLen
        /\ pc[p] \in Committing => mf[p].state = "committing"
        /\ pc[p] = "put" => mf[p].sum = <<>>
        /\ pc[p] \in {"record", "copy", "complete"} => mf[p].upload # None
        /\ pc[p] \in {"list", "cleanall", "delete", "clean"} => mf[p].state # "committing"

\* Every process is where its operation may be, and its copy is what it may be.
FlowInv == \A p \in Proc : FlowOf(p)
CopyInv == \A p \in Proc : CopyOf(p)

\* A request on its way makes one of those things of the manifest it is
\* conditional on; one that renews an active stage aborts or extends it.
EdgeInv ==
    \A q \in Saves :
        /\ q.tag = None => q.next.lease = None
        /\ q.tag # None => Derived(q.tag, q.next)
        /\ q.tag # None /\ q.tag.state = "active" /\ q.renew =>
              Dropped(q.tag, q.next) \/ Extended(q.tag, q.next)

\* Every record has as many chunks as its bytes need, and an upload only once it
\* is frozen.
ShapeOf(r) ==
    /\ Len(r.chunks) = Ceil(Len(r.sum))
    /\ r.upload # None => r.state \in {"committing", "committed"}
ShapeInv == \A r \in Records : ShapeOf(r)

\* A chunk that a record refers to has its part of the bytes, if it is there.
PartsInv ==
    \A r \in Records : \A i \in 1 .. Len(r.chunks) :
        obj[r.chunks[i]] # None => obj[r.chunks[i]] = Seg(r.sum, i)

\* A receipt is true, wherever it is.
PaidInv ==
    \A r \in Records :
        r.state = "committed" /\ r.sum \notin erased => r.sum \in ref /\ blob[r.sum] = r.sum

\* The lease k was made and has never been saved.
NewLease(k) ==
    \/ \E p \in Proc : pc[p] = "lease" /\ mf[p].lease = k
    \/ \E q \in Saves : q.tag # None /\ q.next.lease = k /\ q.tag.lease # k

\* Nothing has the name k, other than the copy or the request it was made for.
Unused(k) ==
    /\ obj[k] = None
    /\ \A p \in Proc : k \notin todo[p]
    /\ \A r \in Records : k \notin Range(r.chunks)
    /\ k \notin Writing \cup Cleaning
    /\ man # None => man.lease # k
    /\ \A p \in Proc : tag[p] # None => tag[p].lease # k
    /\ \A q \in Saves \cup Deletes : q.tag # None => q.tag.lease # k

\* That is so of every lease that has not been saved.
UnusedInv == \A k \in Nonce : NewLease(k) => Unused(k)

\* No two processes have the same lease, and one that has never been saved is
\* in one copy, or in one request.
OneInv ==
    /\ \A p, s \in Proc : mf[p] # None /\ mf[s] # None /\ mf[p].lease = mf[s].lease => p = s
    /\ \A p \in Proc, q \in Saves : pc[p] = "lease" => q.next.lease # mf[p].lease
    /\ \A q1, q2 \in Saves :
          q1.tag # None /\ q1.next.lease # None /\ q1.tag.lease # q1.next.lease
          /\ q2.next.lease = q1.next.lease => q1 = q2
    /\ \A p \in Proc, q \in Saves :
          q.tag # None /\ q.next.lease # None /\ q.tag.lease # q.next.lease /\ mf[p] # None =>
             mf[p].lease # q.next.lease

\* A chunk is written before any record refers to it, and holds the bytes of the
\* append.  A write on its way is of a chunk that no record refers to, and none will:
\* a manifest that refers to a chunk is sent after the write is answered.
ChunkInv ==
    /\ \A p \in Proc : pc[p] \in {"chunk", "append"} =>
          /\ \A r \in Records : mf[p].lease \notin Range(r.chunks)
          /\ mf[p].lease \notin Writing
    /\ \A p \in Proc : pc[p] = "chunk" => obj[mf[p].lease] = None
    /\ \A p \in Proc : pc[p] = "append" /\ obj[mf[p].lease] # None =>
          obj[mf[p].lease] = Append(ShortEnd(mf[p].sum), p)
    /\ \A k \in Writing : \A r \in Records : k \notin Range(r.chunks)
    /\ \A q \in Saves : q.tag # None /\ Extended(q.tag, q.next) => q.tag.lease \notin Writing

\* p has the lease, and it has not lapsed.
Owner(p) == mf[p] # None /\ pc[p] \notin {"lease", "release", "finish"} /\ p \notin late

\* Then the manifest is the one of its ETag, and nobody else's ETag has the lease.
OwnerInv ==
    \A p \in Proc : Owner(p) =>
        /\ man = tag[p] /\ tag[p].lease = mf[p].lease /\ ~lapsed
        /\ \A s \in Proc : s # p /\ tag[s] # None => tag[s].lease # mf[p].lease
        /\ \A q \in Saves \cup Deletes : q.tag # None => q.tag.lease # mf[p].lease

\* The chunk k is there and no request on its way deletes it.
There(k) == obj[k] # None /\ k \notin Cleaning

\* All chunks that the manifest refers to are.
Intact == \A k \in Range(man.chunks) : There(k)

\* They are when the stage is frozen or may be appended to; when a request on its
\* way would extend or freeze it; and when the holder of the lease is about to.  A
\* holder deletes the chunks of an active stage only when it has expired.
KeepParts ==
    /\ man.state = "committing" => Intact
    /\ man.state = "active" /\ ~expired => Intact
    /\ \A q \in Saves : q.tag = man /\ man.state = "active" =>
          /\ Extended(man, q.next) => Intact /\ There(man.lease)
          /\ Frozen(man, q.next) => Intact
    /\ \A p \in Proc : Owner(p) =>
          /\ pc[p] \in {"chunk", "append", "freeze"} => Intact
          /\ pc[p] = "chunk" => mf[p].lease \notin Cleaning
          /\ pc[p] = "append" => There(mf[p].lease)
          /\ pc[p] \in {"cleanall", "delete"} /\ mf[p].state = "active" => expired

\* That is so until PruneStages has deleted the manifest.
KeepInv == ~gone /\ man # None => KeepParts

\* A sweep of chunks without a manifest finds none before that.
SweepInv == \A p \in Proc : pc[p] = "sweep" /\ ~gone => todo[p] = {}

\* Before the first manifest is saved there is nothing, but for requests to save it.
EmptyInv ==
    ~gone /\ man = None =>
        /\ ~begun
        /\ \A p \in Proc : mf[p] = None /\ todo[p] = {}
        /\ \A k \in Nonce : obj[k] = None
        /\ \A q \in net : q.to = "save" /\ q.tag = None /\ q.next.state = "active"
                          /\ q.next.sum = <<>> /\ q.next.chunks = <<>>

\* Nothing is acknowledged before Begin is, and there is one Begin.
FirstInv ==
    /\ ~begun => acked = <<>>
    /\ \A p, s \in Proc : pc[p] = "begin" => ~begun /\ (pc[s] = "begin" => p = s)

\* An upload is of one sum only, and its parts are that sum when it is completed.
UploadInv ==
    /\ \A r, s \in Records : r.upload # None /\ r.upload = s.upload => r.sum = s.sum
    /\ \A p \in Proc : pc[p] = "complete" => mpu[mf[p].upload] \in {None, mf[p].sum}

\* A blob is the bytes of its digest, and one with a reference is there.
BlobInv ==
    /\ \A d \in Bytes : blob[d] \in {None, d}
    /\ \A d \in ref : blob[d] = d
    /\ \A p \in Proc : pc[p] = "ref" => blob[mf[p].sum] = mf[p].sum

\* Nothing that was acknowledged is undone.
SumInv == StageKept

\* The inductive invariant.
IInv ==
    /\ TypeOK /\ FlowInv /\ CopyInv /\ EdgeInv /\ ShapeInv /\ PartsInv /\ PaidInv /\ UnusedInv /\ OneInv
         /\ ChunkInv
    /\ OwnerInv /\ KeepInv /\ SweepInv /\ EmptyInv /\ FirstInv /\ UploadInv /\ BlobInv /\ SumInv

-----------------------------------------------------------------------------
(* Kinds of steps.                                                         *)

\* The first manifest.
FirstManifest ==
    [state |-> "active", sum |-> <<>>, chunks |-> <<>>, lease |-> None, upload |-> None]

\* What is shared, but for the variables a kind of step names.
Rest == <<blob, ref, erased>>

\* The call of p is over, and whatever it had is forgotten.
Quit(p) ==
    /\ mf' = [mf EXCEPT ![p] = None]
    /\ tag' = [tag EXCEPT ![p] = None]
    /\ \E l \in {"idle", "read", "uploads"}, o \in {None, "Clean", "Prune"} :
          /\ op' = [op EXCEPT ![p] = o]
          /\ pc' = [pc EXCEPT ![p] = l]
          /\ (l = "idle") <=> (o = None)
          /\ l = "uploads" => o = "Prune"
          /\ late' \in {late, late \ {p}}
          /\ l # "read" => late' = late \ {p}
    /\ todo' \in {todo, [todo EXCEPT ![p] = {}]}

\* p goes back to release its lease, without the ETag if a save has failed.
Back(p) ==
    /\ mf[p] # None
    /\ pc' = [pc EXCEPT ![p] = "release"]
    /\ \/ tag' = tag /\ pc[p] \in Same
       \/ tag' = [tag EXCEPT ![p] = None] /\ pc[p] \in {"freeze", "record", "forget", "receipt"}
    /\ UNCHANGED <<op, mf, todo, late>>

\* A request fails: one or the other.
Fall(p) == Quit(p) \/ Back(p)

\* p is about to save n.
Sending(p, n, renew) ==
    \/ pc[p] = "begin" /\ n = FirstManifest /\ renew = TRUE
    \/ pc[p] = "lease" /\ n = mf[p] /\ renew = FALSE
    \/ pc[p] \in {"release", "finish"} /\ n = [mf[p] EXCEPT !.lease = None] /\ renew = FALSE
    \/ pc[p] = "append" /\ p \notin late /\ n = Appended(mf[p], p) /\ renew = TRUE
    \/ pc[p] \in {"freeze", "record", "forget"} /\ p \notin late /\ n = mf[p] /\ renew = FALSE
    \/ pc[p] = "receipt" /\ p \notin late /\ renew = TRUE
       /\ n \in {mf[p], [mf[p] EXCEPT !.lease = None]}
    \/ pc[p] = "abort" /\ p \notin late /\ n = [mf[p] EXCEPT !.lease = None]
       /\ renew = (tag[p].state = "active")

\* The request that saves n with the ETag of p.
SaveRequest(p, n, renew) == [to |-> "save", next |-> n, tag |-> tag[p], renew |-> renew]

\* A request fails, or there is none.
Stop(p) ==
    /\ Fall(p)
    /\ UNCHANGED <<man, obj, mpu, lapsed, expired, net, begun, acked, gone, Rest>>

\* A save without an answer.
Lose(p) ==
    /\ \E n \in Manifests, renew \in BOOLEAN :
          Sending(p, n, renew) /\ net' = net \cup {SaveRequest(p, n, renew)}
    /\ Fall(p)
    /\ UNCHANGED <<man, obj, mpu, lapsed, expired, begun, acked, gone, Rest>>

\* A save that gives the lease back.
Keep(p) ==
    /\ pc[p] \in {"begin", "release", "finish", "append", "receipt", "abort"}
    /\ man = tag[p]
    /\ \E n \in Manifests, renew \in BOOLEAN :
          /\ Sending(p, n, renew)
          /\ n.lease = None
          /\ man' = n
          /\ expired' = (expired /\ ~renew)
          /\ acked' = IF pc[p] = "append" THEN n.sum ELSE acked
    /\ lapsed' = FALSE
    /\ begun' = (begun \/ pc[p] = "begin")
    /\ Quit(p)
    /\ UNCHANGED <<obj, mpu, net, gone, Rest>>

\* A save with the lease.
Move(p) ==
    /\ pc[p] \in {"freeze", "record", "forget", "receipt"}
    /\ p \notin late
    /\ man = tag[p]
    /\ man' = mf[p]
    /\ lapsed' = FALSE
    /\ expired' = (expired /\ pc[p] # "receipt")
    /\ tag' = [tag EXCEPT ![p] = mf[p]]
    /\ pc' = [pc EXCEPT ![p] = CASE pc[p] = "freeze" -> "look" [] pc[p] = "record" -> "copy"
                                 [] pc[p] = "forget" -> "release" [] OTHER -> "finish"]
    /\ UNCHANGED <<op, mf, todo, late, obj, mpu, net, begun, acked, gone, Rest>>

\* The save of a lease.
Take(p) ==
    /\ pc[p] = "lease"
    /\ p \notin late
    /\ man = tag[p]
    /\ man' = mf[p]
    /\ lapsed' = FALSE
    /\ tag' = [tag EXCEPT ![p] = mf[p]]
    /\ \E l \in First(op[p], mf[p]) :
          pc' = [pc EXCEPT ![p] = l] /\ mf' = [mf EXCEPT ![p] = Marked(mf[p], l)]
    /\ UNCHANGED <<op, todo, late, obj, mpu, expired, net, begun, acked, gone, Rest>>

\* read.
Acquire(p) ==
    /\ pc[p] = "read" /\ p \notin late
    /\ man # None /\ (man.lease = None \/ lapsed)
    /\ \E k \in FreeNames : mf' = [mf EXCEPT ![p] = [man EXCEPT !.lease = k]]
    /\ tag' = [tag EXCEPT ![p] = man]
    /\ pc' = [pc EXCEPT ![p] = "lease"]
    /\ UNCHANGED <<op, todo, late, man, obj, mpu, lapsed, expired, net, begun, acked, gone, Rest>>

\* A chunk.
NewBytes(p) == Append(IF ShortTail(mf[p]) THEN obj[Last(mf[p].chunks)] ELSE <<>>, p)
Readable(p) == ShortTail(mf[p]) => obj[Last(mf[p].chunks)] # None

\* The chunk is written; the request is lost, and may arrive later.
Write(p) ==
    /\ pc[p] = "chunk" /\ p \notin late /\ Readable(p)
    /\ obj' = [obj EXCEPT ![mf[p].lease] = NewBytes(p)]
    /\ pc' = [pc EXCEPT ![p] = "append"]
    /\ UNCHANGED <<op, mf, tag, todo, late, man, mpu, lapsed, expired, net, begun, acked, gone, Rest>>

WriteLost(p) ==
    /\ pc[p] = "chunk" /\ p \notin late /\ Readable(p)
    /\ net' = net \cup {[to |-> "chunk", key |-> mf[p].lease, bytes |-> NewBytes(p)]}
    /\ Back(p)
    /\ UNCHANGED <<man, obj, mpu, lapsed, expired, begun, acked, gone, Rest>>

\* publish and assemble.
OnTo(p, l) ==
    /\ pc' \in {[pc EXCEPT ![p] = l], [pc EXCEPT ![p] = "release"]}
    /\ UNCHANGED <<op, mf, tag, todo, late, man, obj, lapsed, expired, net, begun, acked, gone>>

\* Look.
Peek(p) ==
    /\ pc[p] = "look" /\ p \notin late
    /\ \E l \in {"receipt", "ref", "put", "create", "copy"} :
          /\ (l = "receipt") <=> (mf[p].sum \in ref)
          /\ l = "ref" => blob[mf[p].sum] # None
          /\ l = "put" => mf[p].sum = <<>>
          /\ l = "copy" => mf[p].upload # None
          /\ mf' = [mf EXCEPT ![p] = Marked(mf[p], l)]
          /\ pc' = [pc EXCEPT ![p] = l]
    /\ erased' = erased \ (ref \cap {mf[p].sum})
    /\ UNCHANGED <<op, tag, todo, late, man, obj, mpu, blob, ref, lapsed, expired, net,
                   begun, acked, gone>>

\* The blob of nothing.
PutEmpty(p) ==
    /\ pc[p] = "put" /\ p \notin late
    /\ blob' = [blob EXCEPT ![mf[p].sum] = <<>>]
    /\ OnTo(p, "ref")
    /\ UNCHANGED <<mpu, ref, erased>>

\* A multipart upload, whether or not the answer comes.
Create(p) ==
    /\ pc[p] = "create" /\ p \notin late
    /\ \E u \in FreeUploads :
          /\ mpu' = [mpu EXCEPT ![u] = <<>>]
          /\ \/ mf' = [mf EXCEPT ![p].upload = u] /\ pc' = [pc EXCEPT ![p] = "record"]
             \/ mf' = mf /\ pc' = [pc EXCEPT ![p] = "release"]
    /\ UNCHANGED <<op, tag, todo, late, man, obj, lapsed, expired, net, begun, acked, gone, Rest>>

\* Every chunk of the copy of p is there.
AllThere(p) == \A k \in Range(mf[p].chunks) : obj[k] # None

\* Every chunk is there and copied to the upload.
Copy(p) ==
    /\ pc[p] = "copy" /\ p \notin late /\ AllThere(p)
    /\ mpu' = [mpu EXCEPT ![mf[p].upload] = Content(mf[p].chunks)]
    /\ OnTo(p, "complete")
    /\ UNCHANGED Rest

\* The upload is forgotten.
Unlink(p) ==
    /\ pc[p] = "copy" /\ p \notin late
    /\ mf' = [mf EXCEPT ![p].upload = None]
    /\ pc' = [pc EXCEPT ![p] = "forget"]
    /\ UNCHANGED <<op, tag, todo, late, man, obj, mpu, lapsed, expired, net, begun, acked, gone, Rest>>

\* The upload becomes the blob.
Complete(p) ==
    /\ pc[p] = "complete" /\ p \notin late /\ mpu[mf[p].upload] # None
    /\ blob' = [blob EXCEPT ![mf[p].sum] = mpu[mf[p].upload]]
    /\ mpu' = [mpu EXCEPT ![mf[p].upload] = None]
    /\ OnTo(p, "ref")
    /\ UNCHANGED <<ref, erased>>

\* The reference is there.
Refer(p) ==
    /\ pc[p] = "ref" /\ p \notin late
    /\ ref' = ref \cup {mf[p].sum}
    /\ erased' = erased \ {mf[p].sum}
    /\ \/ mf' = [mf EXCEPT ![p] = Marked(mf[p], "receipt")] /\ pc' = [pc EXCEPT ![p] = "receipt"]
       \/ mf' = mf /\ pc' = [pc EXCEPT ![p] = "release"]
    /\ UNCHANGED <<op, tag, todo, late, man, obj, mpu, blob, lapsed, expired, net, begun, acked, gone>>

\* cleanTerminal and PruneStages.
Enumerate(p) ==
    /\ pc[p] = "list" /\ p \notin late
    /\ todo' = [todo EXCEPT ![p] = Chunks]
    /\ \/ op[p] = "Clean" /\ pc' = [pc EXCEPT ![p] = "clean"] /\ op' = op
       \/ /\ op[p] = "Prune"
          /\ \E l \in {"sweep", "uploads", "read"}, o \in {"Prune", "PruneCommit"} :
                /\ pc' = [pc EXCEPT ![p] = l] /\ op' = [op EXCEPT ![p] = o]
                /\ l = "sweep" => man = None
                /\ l # "read" => o = "Prune"
    /\ UNCHANGED <<mf, tag, late, man, obj, mpu, lapsed, expired, net, begun, acked, gone, Rest>>

\* Chunks are deleted; a request of several is lost.
Clear(p) ==
    /\ pc[p] \in {"clean", "cleanall"} /\ p \notin late
    /\ \E ks \in Garbage(mf[p], todo[p], pc[p] = "cleanall") : obj' = Without(ks)
    /\ pc' = [pc EXCEPT ![p] = IF pc[p] = "cleanall" THEN "delete" ELSE "release"]
    /\ UNCHANGED <<op, mf, tag, todo, late, man, mpu, lapsed, expired, net, begun, acked, gone, Rest>>

ClearLost(p) ==
    /\ pc[p] \in {"clean", "cleanall"} /\ p \notin late
    /\ \E ks \in Garbage(mf[p], todo[p], pc[p] = "cleanall") : \E k \in ks, some \in SUBSET ks :
          obj' = Without(some) /\ net' = net \cup {[to |-> "clean", key |-> k]}
    /\ Back(p)
    /\ UNCHANGED <<man, mpu, lapsed, expired, begun, acked, gone, Rest>>

\* The manifest is deleted; the request is lost.
Delete(p) ==
    /\ pc[p] = "delete" /\ p \notin late /\ man = tag[p]
    /\ man' = None /\ gone' = TRUE
    /\ Quit(p)
    /\ UNCHANGED <<obj, mpu, lapsed, expired, net, begun, acked, Rest>>

DeleteLost(p) ==
    /\ pc[p] = "delete" /\ p \notin late
    /\ net' = net \cup {[to |-> "delete", tag |-> tag[p]]}
    /\ Back(p)
    /\ UNCHANGED <<man, obj, mpu, lapsed, expired, begun, acked, gone, Rest>>

\* Chunks without a manifest are deleted.
SweepAll(p) ==
    /\ pc[p] = "sweep"
    /\ \/ obj' = Without(todo[p]) /\ net' = net
       \/ \E k \in todo[p] : obj' = Without(todo[p] \ {k})
                             /\ net' = net \cup {[to |-> "clean", key |-> k]}
    /\ Quit(p)
    /\ UNCHANGED <<man, mpu, lapsed, expired, begun, acked, gone, Rest>>

\* Multipart uploads are aborted.
AbortUploads(p) ==
    /\ pc[p] = "uploads"
    /\ mpu' \in [Upload -> Bytes \cup {None}]
    /\ \A u \in Upload : mpu'[u] \in {None, mpu[u]}
    /\ op' = [op EXCEPT ![p] = None] /\ pc' = [pc EXCEPT ![p] = "idle"]
    /\ UNCHANGED <<mf, tag, todo, late, man, obj, lapsed, expired, net, begun, acked, gone, Rest>>

\* A call begins.
Start(p) ==
    /\ pc[p] = "idle"
    /\ \/ begun /\ pc' = [pc EXCEPT ![p] = "read"]
          /\ \E o \in {"Append", "Commit", "Abort"} : op' = [op EXCEPT ![p] = o]
       \/ pc' = [pc EXCEPT ![p] = "list"] /\ op' = [op EXCEPT ![p] = "Prune"]
    /\ UNCHANGED <<mf, tag, todo, late, man, obj, mpu, lapsed, expired, net, begun, acked, gone, Rest>>

\* Requests that arrive late.
LateRest == <<op, pc, mf, tag, todo, late, mpu, begun, acked, Rest>>

\* A save, a delete, one whose condition fails, a chunk and its deletion.
LateSave(q) ==
    /\ q.to = "save" /\ man = q.tag
    /\ man' = q.next /\ lapsed' = FALSE /\ expired' = (expired /\ ~q.renew)
    /\ net' = net \ {q}
    /\ UNCHANGED <<obj, gone, LateRest>>

LateDelete(q) ==
    /\ q.to = "delete" /\ man = q.tag
    /\ man' = None /\ gone' = TRUE
    /\ net' = net \ {q}
    /\ UNCHANGED <<obj, lapsed, expired, LateRest>>

LateNothing(q) ==
    /\ net' = net \ {q}
    /\ UNCHANGED <<man, obj, lapsed, expired, gone, LateRest>>

LateChunk(q) ==
    /\ q.to = "chunk"
    /\ obj' = [obj EXCEPT ![q.key] = IF obj[q.key] = None THEN q.bytes ELSE obj[q.key]]
    /\ net' = net \ {q}
    /\ UNCHANGED <<man, lapsed, expired, gone, LateRest>>

LateClean(q) ==
    /\ q.to = "clean"
    /\ obj' = [obj EXCEPT ![q.key] = None]
    /\ net' = net \ {q}
    /\ UNCHANGED <<man, lapsed, expired, gone, LateRest>>

\* The kinds of steps of a process, of late requests, and the others.
StepKinds(p) ==
    \/ Stop(p) \/ Lose(p) \/ Keep(p) \/ Move(p) \/ Take(p) \/ Acquire(p) \/ Write(p) \/ WriteLost(p)
    \/ Peek(p) \/ PutEmpty(p) \/ Create(p) \/ Copy(p) \/ Unlink(p) \/ Complete(p) \/ Refer(p)
    \/ Enumerate(p) \/ Clear(p) \/ ClearLost(p) \/ Delete(p) \/ DeleteLost(p) \/ SweepAll(p)
    \/ AbortUploads(p) \/ Start(p)
LateKinds(q) == LateSave(q) \/ LateDelete(q) \/ LateNothing(q) \/ LateChunk(q) \/ LateClean(q)
OtherKinds == Lapse \/ Expire \/ OtherAdd \/ OtherErase \/ Reclaim \/ UNCHANGED vars

-----------------------------------------------------------------------------
(* Names, and arithmetic.                                                  *)

\* Constants.
LEMMA PSize == PartSize \in Nat \ {0}
  BY S3StageAssumption

\* None is none of the values.
LEMMA Names ==
  /\ \A o \in Ops : o # None
  /\ \A r \in Manifests : r # None
  /\ \A b \in Bytes : b # None
  /\ \A k \in Nonce : k # None
  /\ \A u \in Upload : u # None
  /\ MaxLen \in Nat
  BY S3StageAssumption

\* Division with remainder.
LEMMA DivMod ==
  ASSUME NEW n \in Nat, NEW d \in Nat \ {0}
  PROVE  /\ n \div d \in Nat /\ n % d \in Nat
         /\ n = d * (n \div d) + (n % d)
         /\ n % d < d
  OBVIOUS

\* Multiples of d that are less than d apart.
LEMMA Gap ==
  ASSUME NEW a \in Int, NEW b \in Int, NEW d \in Nat \ {0}, a * d < b * d + d
  PROVE  a <= b
<1> SUFFICES ASSUME a >= b + 1 PROVE FALSE
  OBVIOUS
<1>1. a * d = b * d + (a - b) * d
  OBVIOUS
<1>2. (a - b - 1) * d >= 0
  OBVIOUS
<1>3. (a - b) * d = (a - b - 1) * d + d
  OBVIOUS
<1> QED BY <1>1, <1>2, <1>3

\* Ceil(n) chunks are enough for n units, and one less are not.
LEMMA CeilBounds ==
  ASSUME NEW n \in Nat
  PROVE  /\ Ceil(n) \in Nat
         /\ n <= Ceil(n) * PartSize
         /\ Ceil(n) * PartSize < n + PartSize
<1> DEFINE m == n + PartSize - 1
<1>1. m \in Nat
  BY PSize
<1>2. /\ m \div PartSize \in Nat /\ m % PartSize \in Nat
      /\ m = PartSize * (m \div PartSize) + (m % PartSize)
      /\ m % PartSize < PartSize
  BY <1>1, DivMod, PSize
<1>3. Ceil(n) = m \div PartSize
  BY DEF Ceil
<1> HIDE DEF m
<1> DEFINE c == m \div PartSize
<1>4. PartSize * c = c * PartSize
  BY <1>2, PSize
<1>5. m = n + PartSize - 1
  BY DEF m
<1> QED BY <1>2, <1>3, <1>4, <1>5, PSize

\* No other number is.
LEMMA CeilUnique ==
  ASSUME NEW n \in Nat, NEW c \in Nat, n <= c * PartSize, c * PartSize < n + PartSize
  PROVE  c = Ceil(n)
<1> DEFINE e == Ceil(n)
<1>1. e \in Nat /\ n <= e * PartSize /\ e * PartSize < n + PartSize
  BY CeilBounds
<1> HIDE DEF e
<1>2. c * PartSize < e * PartSize + PartSize /\ e * PartSize < c * PartSize + PartSize
  BY <1>1, PSize
<1>3. c <= e /\ e <= c
  BY <1>1, <1>2, Gap, PSize
<1> QED BY <1>3, <1>1 DEF e

\* More units need no fewer chunks.
LEMMA CeilMono ==
  ASSUME NEW n \in Nat, NEW m \in Nat, n <= m
  PROVE  Ceil(n) <= Ceil(m)
<1> DEFINE a == Ceil(n)  b == Ceil(m)
<1>1. a \in Nat /\ b \in Nat /\ a * PartSize < n + PartSize /\ m <= b * PartSize
  BY CeilBounds
<1> HIDE DEF a, b
<1>2. a * PartSize < b * PartSize + PartSize
  BY <1>1, PSize
<1>3. a <= b
  BY <1>1, <1>2, Gap, PSize
<1> QED BY <1>3 DEF a, b

\* One more unit: the last chunk, if it is short, has room for it.
LEMMA CeilNext ==
  ASSUME NEW n \in Nat
  PROVE  /\ Ceil(0) = 0
         /\ n % PartSize = 0 => Ceil(n + 1) = Ceil(n) + 1 /\ Ceil(n) * PartSize = n
         /\ n % PartSize # 0 => /\ Ceil(n + 1) = Ceil(n) /\ Ceil(n) > 0
                                /\ n < Ceil(n) * PartSize
<1>0. Ceil(0) = 0
  BY CeilUnique, PSize
<1> DEFINE q == n \div PartSize
<1>1. q \in Nat /\ n = PartSize * q + (n % PartSize) /\ n % PartSize < PartSize /\ n % PartSize \in Nat
  BY DivMod, PSize
<1> HIDE DEF q
<1>2. PartSize * q = q * PartSize /\ (q + 1) * PartSize = q * PartSize + PartSize
     /\ (q + 2) * PartSize = q * PartSize + PartSize + PartSize
     /\ q * PartSize \in Nat
  BY <1>1, PSize
<1>3. CASE n % PartSize = 0
  <2>1. n = q * PartSize
    BY <1>1, <1>2, <1>3, PSize
  <2>2. q = Ceil(n)
    BY <2>1, <1>1, CeilUnique, PSize
  <2>3. n + 1 <= (q + 1) * PartSize /\ (q + 1) * PartSize < n + 1 + PartSize
    BY <2>1, <1>2, PSize
  <2>4. q + 1 = Ceil(n + 1)
    BY <2>3, <1>1, CeilUnique
  <2> QED BY <2>1, <2>2, <2>4, <1>0, <1>3
<1>4. CASE n % PartSize # 0
  <2>1. n < (q + 1) * PartSize /\ n > q * PartSize
    BY <1>1, <1>2, <1>4, PSize
  <2>2. n <= (q + 1) * PartSize /\ (q + 1) * PartSize < n + PartSize
    BY <2>1, <1>2, <1>1, PSize
  <2>3. q + 1 = Ceil(n)
    BY <2>2, <1>1, CeilUnique
  <2>4. n + 1 <= (q + 1) * PartSize /\ (q + 1) * PartSize < n + 1 + PartSize
    BY <2>1, <2>2, <1>2, <1>1, PSize
  <2>5. q + 1 = Ceil(n + 1)
    BY <2>4, <1>1, CeilUnique
  <2> QED BY <2>1, <2>3, <2>5, <1>0, <1>4, <1>1
<1> QED BY <1>3, <1>4

-----------------------------------------------------------------------------
(* Induction, and sequences cut into chunks.                               *)

\* A set of numbers has a least one.
LEMMA Least ==
  ASSUME NEW T \in SUBSET Nat, T # {}
  PROVE \E n \in T : \A m \in T : n <= m
<1> DEFINE R == {ss \in Nat \X Nat : ss[1] < ss[2]}
<1>0. IsWellFoundedOn(R, Nat)
  BY NatLessThanWellFounded DEF OpToRel
<1>2. \A x, y \in Nat : x < y => <<x,y>> \in R
  OBVIOUS
<1> HIDE DEF R
<1>1. PICK x \in T : \A y \in T : ~(<<y, x>> \in R)
  BY WFMin, <1>0
<1>3. \A m \in T : x <= m
  <2> TAKE m \in T
  <2>1. ~(<<m, x>> \in R)
    BY <1>1
  <2>2. ~(m < x)
    BY <2>1, <1>2
  <2> QED BY <2>2
<1>q. QED BY <1>1, <1>3

\* Induction, from that.
LEMMA Induct ==
  ASSUME NEW S, 0 \in S, \A n \in Nat : n \in S => n + 1 \in S
  PROVE \A n \in Nat : n \in S
<1> SUFFICES ASSUME Nat \ S # {} PROVE FALSE
  OBVIOUS
<1>1. PICK n \in Nat \ S : \A m \in Nat \ S : n <= m
  BY Least
<1>2. n # 0 /\ n - 1 \in Nat
  BY <1>1
<1>3. n - 1 \in S
  BY <1>1, <1>2
<1>q. QED BY <1>1, <1>2, <1>3

\* FlattenSeq, one sequence at a time.
LEMMA FlattenStep ==
  ASSUME NEW ss, Len(ss) \in Nat, Len(ss) # 0
  PROVE  \E f : /\ FlattenSeq(ss) = f[Len(ss)]
                /\ \A i \in 1 .. Len(ss) : f[i] = IF i = 1 THEN ss[i] ELSE f[i - 1] \o ss[i]
<1> DEFINE G(f, n) == f = [i \in 1 .. n |-> IF i = 1 THEN ss[i] ELSE f[i-1] \o ss[i]]
           S == {n \in Nat : \E f : G(f, n)}
<1>1. \A n \in Nat : n \in S
  <2>1. 0 \in S
    <3> DEFINE f == [i \in 1 .. 0 |-> 0]
    <3>1. G(f, 0)
      OBVIOUS
    <3> QED BY <3>1
  <2>2. ASSUME NEW n \in Nat, n \in S PROVE n + 1 \in S
    <3>1. PICK f : G(f, n)
      BY <2>2
    <3> DEFINE F(i) == IF i = 1 THEN ss[i] ELSE f[i-1] \o ss[i]
               g == [i \in 1 .. n + 1 |-> F(i)]
    <3>2. \A i \in 1 .. n : g[i] = f[i]
      <4> TAKE i \in 1 .. n
      <4>1. g[i] = F(i)
        OBVIOUS
      <4>2. f[i] = F(i)
        BY <3>1
      <4> QED BY <4>1, <4>2
    <3>3. \A i \in 1 .. n + 1 : F(i) = IF i = 1 THEN ss[i] ELSE g[i-1] \o ss[i]
      <4> TAKE i \in 1 .. n + 1
      <4>1. i # 1 => i - 1 \in 1 .. n
        OBVIOUS
      <4>2. i # 1 => g[i-1] = f[i-1]
        BY <4>1, <3>2
      <4> HIDE DEF g
      <4> QED BY <4>2
    <3>4. \A i \in 1 .. n + 1 : g[i] = IF i = 1 THEN ss[i] ELSE g[i-1] \o ss[i]
      <4> TAKE i \in 1 .. n + 1
      <4>1. g[i] = F(i)
        OBVIOUS
      <4> HIDE DEF F, g
      <4> QED BY <4>1, <3>3
    <3>5. g = [i \in 1 .. n + 1 |-> g[i]]
      OBVIOUS
    <3> HIDE DEF g, F
    <3>6. g = [i \in 1 .. n + 1 |-> IF i = 1 THEN ss[i] ELSE g[i-1] \o ss[i]]
      <4> DEFINE H(i) == IF i = 1 THEN ss[i] ELSE g[i-1] \o ss[i]
      <4>1. \A i \in 1 .. n + 1 : g[i] = H(i)
        BY <3>4
      <4> HIDE DEF H
      <4>2. g = [i \in 1 .. n + 1 |-> H(i)]
        BY <4>1, <3>5, Zenon
      <4> QED BY <4>2, Zenon DEF H
    <3> QED BY <3>6, n + 1 \in Nat
  <2> HIDE DEF S
  <2> QED BY <2>1, <2>2, Induct
<1>2. \E g : G(g, Len(ss))
  BY <1>1
<1> DEFINE c == CHOOSE f : G(f, Len(ss))
<1>4. FlattenSeq(ss) = c[Len(ss)]
  BY Zenon DEF FlattenSeq
<1>5. G(c, Len(ss))
  BY <1>2, Zenon
<1>6. \A i \in 1 .. Len(ss) : c[i] = IF i = 1 THEN ss[i] ELSE c[i - 1] \o ss[i]
  <2> HIDE DEF c
  <2> QED BY <1>5
<1> HIDE DEF c
<1>q. QED BY <1>4, <1>6

\* Where chunks end.
LEMMA CutBounds ==
  ASSUME NEW S, NEW s \in Seq(S), NEW i \in Nat
  PROVE  /\ Cut(s, i) \in 0 .. Len(s) /\ Cut(s, i) <= Cut(s, i + 1)
         /\ Cut(s, 0) = 0 /\ Cut(s, Ceil(Len(s))) = Len(s)
<1>1. i * PartSize \in Nat /\ (i + 1) * PartSize = i * PartSize + PartSize /\ 0 * PartSize = 0
  BY PSize
<1>2. Len(s) \in Nat
  OBVIOUS
<1>3. Ceil(Len(s)) \in Nat /\ Len(s) <= Ceil(Len(s)) * PartSize
  BY <1>2, CeilBounds
<1>4. Ceil(Len(s)) * PartSize \in Nat
  BY <1>3, PSize
<1> QED BY <1>1, <1>2, <1>3, <1>4, PSize DEF Cut

\* The bytes of a chunk, and how many they are.
LEMMA SegType ==
  ASSUME NEW S, NEW s \in Seq(S), NEW i \in Nat \ {0}
  PROVE  Seg(s, i) \in Seq(S) /\ Len(Seg(s, i)) = Cut(s, i) - Cut(s, i - 1)
<1>1. i - 1 \in Nat /\ (i - 1) + 1 = i
  OBVIOUS
<1>2. Cut(s, i) \in 0 .. Len(s) /\ Cut(s, i - 1) \in 0 .. Len(s) /\ Cut(s, i - 1) <= Cut(s, i)
  BY <1>1, CutBounds
<1>3. \A j \in Cut(s, i - 1) + 1 .. Cut(s, i) : s[j] \in S
  BY <1>2
<1> HIDE DEF Cut
<1>4. LET m == Cut(s, i - 1) + 1  n == Cut(s, i)
      IN  SubSeq(s, m, n) \in Seq(S) /\ Len(SubSeq(s, m, n)) = IF m <= n THEN n - m + 1 ELSE 0
  BY <1>2, <1>3, SubSeqProperties
<1> QED BY <1>2, <1>4 DEF Seg

\* The chunks of s put together are s.
LEMMA Pieces ==
  ASSUME NEW S, NEW s \in Seq(S), NEW ss \in Seq(Seq(S)), Len(ss) = Ceil(Len(s)),
         \A i \in 1 .. Len(ss) : ss[i] = Seg(s, i)
  PROVE  FlattenSeq(ss) = s
<1>1. CASE Len(ss) = 0
  <2>1. FlattenSeq(ss) = ss
    BY <1>1 DEF FlattenSeq
  <2>2. Len(s) \in Nat /\ Len(s) <= Ceil(Len(s)) * PartSize /\ Ceil(Len(s)) = 0
    BY <1>1, CeilBounds, Len(s) \in Nat
  <2>3. Len(s) = 0
    BY <2>2, PSize
  <2>4. s = <<>> /\ ss = <<>>
    BY <2>3, <1>1
  <2> QED BY <2>1, <2>4
<1>2. CASE Len(ss) # 0
  <2>1. PICK f : /\ FlattenSeq(ss) = f[Len(ss)]
                 /\ \A i \in 1 .. Len(ss) : f[i] = IF i = 1 THEN ss[i] ELSE f[i - 1] \o ss[i]
    BY <1>2, FlattenStep, Len(ss) \in Nat
  <2> DEFINE T == {n \in Nat : n + 1 \in 1 .. Len(ss) => f[n + 1] = SubSeq(s, 1, Cut(s, n + 1))}
  <2>2. 0 \in T
    <3>1. f[1] = Seg(s, 1)
      BY <2>1, <1>2
    <3>2. Cut(s, 0) = 0
      BY CutBounds
    <3>3. Seg(s, 1) = SubSeq(s, Cut(s, 0) + 1, Cut(s, 1))
      BY 1 - 1 = 0 DEF Seg
    <3> QED BY <3>1, <3>2, <3>3, 0 + 1 = 1
  <2>3. ASSUME NEW n \in Nat, n \in T PROVE n + 1 \in T
    <3> SUFFICES ASSUME n + 2 \in 1 .. Len(ss) PROVE f[n + 2] = SubSeq(s, 1, Cut(s, n + 2))
      OBVIOUS
    <3>1. f[n + 2] = f[n + 1] \o Seg(s, n + 2)
      BY <2>1, n + 2 # 1, (n + 2) - 1 = n + 1, ss[n + 2] = Seg(s, n + 2)
    <3>2. f[n + 1] = SubSeq(s, 1, Cut(s, n + 1))
      BY <2>3
    <3>3. Cut(s, n + 1) \in 0 .. Len(s) /\ Cut(s, n + 2) \in 0 .. Len(s)
          /\ Cut(s, n + 1) <= Cut(s, n + 2)
      BY CutBounds, n + 1 \in Nat, (n + 1) + 1 = n + 2, n + 2 \in Nat
    <3>4. Seg(s, n + 2) = SubSeq(s, Cut(s, n + 1) + 1, Cut(s, n + 2))
      BY (n + 2) - 1 = n + 1 DEF Seg
    <3> DEFINE a == Cut(s, n + 1)  b == Cut(s, n + 2)
    <3> HIDE DEF a, b
    <3>5. a \in 1 - 1 .. Len(s) /\ b \in a .. Len(s) /\ 1 \in 1 .. Len(s) + 1
      BY <3>3 DEF a, b
    <3>6. SubSeq(s, 1, a) \o SubSeq(s, a + 1, b) = SubSeq(s, 1, b)
      BY <3>5, ConcatAdjacentSubSeq
    <3> QED BY <3>1, <3>2, <3>4, <3>6 DEF a, b
  <2>4. \A n \in Nat : n \in T
    <3> HIDE DEF T
    <3> QED BY <2>2, <2>3, Induct
  <2>5. Len(ss) - 1 \in Nat /\ (Len(ss) - 1) + 1 = Len(ss) /\ Len(ss) \in 1 .. Len(ss)
    BY <1>2
  <2>6. f[Len(ss)] = SubSeq(s, 1, Cut(s, Len(ss)))
    BY <2>4, <2>5
  <2>7. Cut(s, Len(ss)) = Len(s)
    BY CutBounds
  <2> QED BY <2>1, <2>6, <2>7, SubSeqFull
<1> QED BY <1>1, <1>2

\* One more unit changes the last chunk, if it is short, or makes a new one.
LEMMA SegAppend ==
  ASSUME NEW S, NEW s \in Seq(S), NEW x \in S
  PROVE  LET t == Append(s, x)  n == Len(s)  c == Ceil(n) IN
         /\ \A i \in 1 .. c : (n % PartSize = 0 \/ i < c) => Seg(t, i) = Seg(s, i)
         /\ n % PartSize # 0 => Seg(t, c) = Append(Seg(s, c), x)
         /\ n % PartSize = 0 => Seg(t, c + 1) = Append(<<>>, x)
<1> DEFINE t == Append(s, x)  n == Len(s)  c == Ceil(n)
<1>0. n \in Nat /\ Len(t) = n + 1 /\ t \in Seq(S) /\ t = s \o <<x>> /\ t[n + 1] = x
     /\ (\A i \in 1 .. n : t[i] = s[i]) /\ <<x>> \in Seq(S)
  BY AppendProperties, AppendIsConcat
<1>1. c \in Nat /\ n <= c * PartSize /\ c * PartSize < n + PartSize /\ c * PartSize \in Nat
  <2>1. c \in Nat /\ n <= c * PartSize /\ c * PartSize < n + PartSize
    BY <1>0, CeilBounds
  <2> HIDE DEF c
  <2> QED BY <2>1, PSize
<1>2. /\ n % PartSize = 0 => c * PartSize = n
      /\ n % PartSize # 0 => c > 0 /\ n < c * PartSize
  BY <1>0, CeilNext
<1> HIDE DEF t, n, c
<1>3. ASSUME NEW i \in 1 .. c PROVE (i - 1) * PartSize \in Nat /\ (i - 1) * PartSize < n
  <2>1. i \in Nat /\ i - 1 \in Nat /\ c - i \in Nat
    BY <1>1
  <2>2. (i - 1) * PartSize = i * PartSize - PartSize /\ i * PartSize \in Nat
        /\ (i - 1) * PartSize \in Nat /\ c * PartSize = i * PartSize + (c - i) * PartSize
        /\ (c - i) * PartSize \in Nat
    BY <2>1, <1>1, PSize
  <2> DEFINE u == i * PartSize  v == (c - i) * PartSize  w == c * PartSize  y == (i - 1) * PartSize
  <2>3. y = u - PartSize /\ u \in Nat /\ y \in Nat /\ w = u + v /\ v \in Nat /\ w < n + PartSize
    BY <2>2, <1>1
  <2> HIDE DEF u, v, w, y
  <2>4. y < n
    BY <2>3, <1>0, PSize
  <2> QED BY <2>3, <2>4 DEF y
<1>4. ASSUME NEW i \in 1 .. c, n % PartSize = 0 \/ i < c PROVE i * PartSize \in Nat /\ i * PartSize <= n
  <2>1. CASE i < c
    <3>1. i + 1 \in 1 .. c /\ (i + 1) - 1 = i
      BY <2>1, <1>1
    <3>2. ((i + 1) - 1) * PartSize \in Nat /\ ((i + 1) - 1) * PartSize < n
      BY <3>1, <1>3
    <3> QED BY <3>1, <3>2, <1>0
  <2>2. CASE n % PartSize = 0 /\ i = c
    BY <2>2, <1>2, <1>1
  <2> QED BY <2>1, <2>2, <1>4, <1>1
<1>5. ASSUME NEW i \in 1 .. c, n % PartSize = 0 \/ i < c PROVE Seg(t, i) = Seg(s, i)
  <2>1. i * PartSize \in Nat /\ i * PartSize <= n /\ (i - 1) * PartSize \in Nat /\ (i - 1) * PartSize < n
    BY <1>3, <1>4, <1>5
  <2> DEFINE a == (i - 1) * PartSize + 1  b == i * PartSize
  <2>2. Seg(t, i) = SubSeq(t, a, b) /\ Seg(s, i) = SubSeq(s, a, b)
    <3>1. /\ Cut(t, i) = i * PartSize /\ Cut(t, i - 1) = (i - 1) * PartSize
          /\ Cut(s, i) = i * PartSize /\ Cut(s, i - 1) = (i - 1) * PartSize
      <4> DEFINE u == i * PartSize  y == (i - 1) * PartSize
      <4>1. u \in Nat /\ u <= n /\ y \in Nat /\ y < n
        BY <2>1
      <4> HIDE DEF u, y
      <4>2. /\ u <= Len(t) /\ u <= Len(s) /\ y <= Len(t) /\ y <= Len(s)
        BY <4>1, <1>0 DEF n
      <4> QED BY <4>2 DEF Cut, u, y
    <3> QED BY <3>1 DEF Seg
  <2>3. b = (i - 1) * PartSize + PartSize
    BY PSize, <1>1
  <2>4. a \in 1 .. n /\ b \in 1 .. n
    <3> DEFINE y == (i - 1) * PartSize  u == i * PartSize
    <3>1. u \in Nat /\ u <= n /\ y \in Nat /\ y < n /\ u = y + PartSize /\ a = y + 1 /\ b = u
      BY <2>1, <2>3
    <3> HIDE DEF y, u, a, b
    <3> QED BY <3>1, <1>0, PSize
  <2> HIDE DEF a, b
  <2>5. SubSeq(s \o <<x>>, a, b) = SubSeq(s, a, b)
    BY <2>4, <1>0, SubSeqOfConcat1 DEF n
  <2> QED BY <2>2, <2>5, <1>0
<1>6. ASSUME n % PartSize # 0 PROVE Seg(t, c) = Append(Seg(s, c), x)
  <2>1. c \in 1 .. c /\ n < c * PartSize
    BY <1>6, <1>2, <1>1
  <2>2. (c - 1) * PartSize \in Nat /\ (c - 1) * PartSize < n
    BY <2>1, <1>3
  <2> DEFINE a == (c - 1) * PartSize + 1
  <2>3. Seg(t, c) = SubSeq(t, a, n + 1) /\ Seg(s, c) = SubSeq(s, a, n)
    <3>1. /\ Cut(t, c) = n + 1 /\ Cut(t, c - 1) = (c - 1) * PartSize
          /\ Cut(s, c) = n /\ Cut(s, c - 1) = (c - 1) * PartSize
      <4> DEFINE u == c * PartSize  y == (c - 1) * PartSize
      <4>1. u \in Nat /\ n < u /\ y \in Nat /\ y < n
        BY <2>1, <2>2, <1>1
      <4> HIDE DEF u, y
      <4>2. /\ (u <= Len(t) => u = n + 1) /\ ~(u <= Len(s)) /\ y <= Len(t) /\ y <= Len(s)
            /\ Len(t) = n + 1 /\ Len(s) = n
        BY <4>1, <1>0 DEF n
      <4> QED BY <4>2 DEF Cut, u, y
    <3> QED BY <3>1 DEF Seg
  <2>4. a \in 1 .. n /\ a \in 1 .. Len(t) /\ n + 1 \in a .. Len(t)
    BY <2>2, <1>0
  <2> HIDE DEF a
  <2>5. SubSeq(t, a, n + 1) = SubSeq(t, a, (n + 1) - 1) \o <<t[n + 1]>>
    BY <2>4, <1>0, SubSeqRecursiveSecond
  <2>6. (n + 1) - 1 = n /\ n \in 1 .. n
    BY <2>4, <1>0
  <2>7. SubSeq(s \o <<x>>, a, n) = SubSeq(s, a, n)
    BY <2>4, <2>6, <1>0, SubSeqOfConcat1 DEF n
  <2>8. SubSeq(s, a, n) \in Seq(S)
    <3>1. \A i \in a .. n : s[i] \in S
      BY <2>4, <1>0 DEF n
    <3> QED BY <3>1, <2>4, <1>0, SubSeqProperties
  <2>9. Append(SubSeq(s, a, n), x) = SubSeq(s, a, n) \o <<x>>
    BY <2>8, AppendIsConcat
  <2> QED BY <2>3, <2>5, <2>6, <2>7, <2>9, <1>0
<1>7. ASSUME n % PartSize = 0 PROVE Seg(t, c + 1) = Append(<<>>, x)
  <2>1. c * PartSize = n /\ (c + 1) * PartSize = n + PartSize /\ (c + 1) - 1 = c
    BY <1>7, <1>2, <1>1, PSize
  <2>2. Cut(t, c) = n /\ Cut(t, c + 1) = n + 1
    BY <2>1, <1>0, PSize DEF Cut
  <2>3. Seg(t, c + 1) = SubSeq(t, n + 1, n + 1)
    BY <2>1, <2>2 DEF Seg
  <2>4. SubSeq(t, n + 1, n + 1) = SubSeq(t, n + 1, (n + 1) - 1) \o <<t[n + 1]>>
    BY <1>0, n + 1 \in 1 .. Len(t), n + 1 \in n + 1 .. Len(t), SubSeqRecursiveSecond
  <2>5. SubSeq(t, n + 1, (n + 1) - 1) = <<>>
    BY <1>0, (n + 1) - 1 < n + 1, SubSeqEmpty
  <2>6. <<>> \o <<x>> = <<x>> /\ Append(<<>>, x) = <<>> \o <<x>>
    BY <1>0, ConcatEmptySeq, AppendIsConcat, <<>> \in Seq(S)
  <2> QED BY <2>3, <2>4, <2>5, <2>6, <1>0
<1> QED BY <1>5, <1>6, <1>7 DEF t, n, c

-----------------------------------------------------------------------------
(* Manifests.                                                              *)

\* Bytes and keys are bounded sequences.
LEMMA BytesSeq == \A b : b \in Bytes <=> b \in Seq(Proc) /\ Len(b) <= MaxLen
<1>1. ASSUME NEW b \in Bytes PROVE b \in Seq(Proc) /\ Len(b) <= MaxLen
  <2>1. PICK n \in 0 .. MaxLen : b \in [1 .. n -> Proc]
    BY DEF Bytes
  <2> QED BY <2>1, Names
<1>2. ASSUME NEW b \in Seq(Proc), Len(b) <= MaxLen PROVE b \in Bytes
  <2>1. Len(b) \in 0 .. MaxLen /\ b \in [1 .. Len(b) -> Proc]
    BY <1>2, Names
  <2> QED BY <2>1 DEF Bytes
<1> QED BY <1>1, <1>2

\* Chunk names too: no more of them than the bytes need.
LEMMA KeysSeq == \A ks : ks \in Keys <=> ks \in Seq(Nonce) /\ Len(ks) <= Ceil(MaxLen)
<1>0. Parts = Ceil(MaxLen) /\ Parts \in Nat
  BY Names, CeilBounds DEF Parts, Ceil
<1>1. ASSUME NEW ks \in Keys PROVE ks \in Seq(Nonce) /\ Len(ks) <= Parts
  <2>1. PICK n \in 0 .. Parts : ks \in [1 .. n -> Nonce]
    BY DEF Keys
  <2> QED BY <2>1, <1>0
<1>2. ASSUME NEW ks \in Seq(Nonce), Len(ks) <= Parts PROVE ks \in Keys
  <2>1. Len(ks) \in 0 .. Parts /\ ks \in [1 .. Len(ks) -> Nonce]
    BY <1>2, <1>0
  <2> QED BY <2>1 DEF Keys
<1> QED BY <1>0, <1>1, <1>2

\* The fields of a manifest have their types.
LEMMA ManifestFields ==
  ASSUME NEW r \in Manifests
  PROVE  /\ r.state \in {"active", "committing", "committed", "aborted"}
         /\ r.sum \in Seq(Proc) /\ Len(r.sum) <= MaxLen /\ r.sum \in Bytes
         /\ r.chunks \in Seq(Nonce) /\ Len(r.chunks) <= Ceil(MaxLen) /\ r.chunks \in Keys
         /\ r.lease \in Nonce \cup {None} /\ r.upload \in Upload \cup {None}
         /\ r # None
  BY BytesSeq, KeysSeq, Names DEF Manifests

\* Manifests with the same fields are the same.
LEMMA ManifestEqual ==
  ASSUME NEW r \in Manifests, NEW s \in Manifests, r.state = s.state, r.sum = s.sum,
         r.chunks = s.chunks, r.lease = s.lease, r.upload = s.upload
  PROVE  r = s
  BY DEF Manifests

\* A manifest with one field changed is one.
LEMMA ManifestWith ==
  ASSUME NEW r \in Manifests
  PROVE  /\ \A b \in Bytes, ks \in Keys, l \in Nonce \cup {None} :
               [r EXCEPT !.sum = b, !.chunks = ks, !.lease = l] \in Manifests
         /\ \A l \in Nonce \cup {None} : [r EXCEPT !.lease = l] \in Manifests
         /\ \A u \in Upload \cup {None} : [r EXCEPT !.upload = u] \in Manifests
         /\ \A st \in {"active", "committing", "committed", "aborted"} :
               [r EXCEPT !.state = st] \in Manifests
  BY DEF Manifests

\* No bytes, no chunks and the first manifest have their types.
LEMMA EmptyIn == <<>> \in Bytes /\ <<>> \in Keys /\ FirstManifest \in Manifests
<1>1. Ceil(MaxLen) \in Nat /\ MaxLen \in Nat
  BY Names, CeilBounds
<1>2. ASSUME NEW e, e = <<>> PROVE e \in Bytes /\ e \in Keys
  <2>1. e \in Seq(Proc) /\ e \in Seq(Nonce) /\ Len(e) = 0
    BY <1>2
  <2>2. Len(e) <= MaxLen /\ Len(e) <= Ceil(MaxLen)
    BY <1>1, <2>1
  <2>3. e \in Bytes
    BY <2>1, <2>2, BytesSeq
  <2>4. e \in Keys
    BY <2>1, <2>2, KeysSeq
  <2> QED BY <2>3, <2>4
<1>3. <<>> \in Bytes /\ <<>> \in Keys
  BY <1>2
<1> QED BY <1>3 DEF FirstManifest, Manifests

\* The range of a sequence.
LEMMA RangeIs ==
  ASSUME NEW S, NEW s \in Seq(S), NEW k
  PROVE  k \in Range(s) <=> \E i \in 1 .. Len(s) : s[i] = k
  BY DEF Range

\* Prefixes, by position.
LEMMA PrefixIs ==
  ASSUME NEW S, NEW s \in Seq(S), NEW t \in Seq(S)
  PROVE  IsPrefix(s, t) <=> Len(s) <= Len(t) /\ \A i \in 1 .. Len(s) : s[i] = t[i]
<1>1. SubSeq(s, 1, Len(s)) = s
  BY SubSeqFull
<1>2. ASSUME Len(s) <= Len(t)
      PROVE  /\ SubSeq(t, 1, Len(s)) \in Seq(S)
             /\ Len(SubSeq(t, 1, Len(s))) = Len(s)
             /\ \A i \in 1 .. Len(s) : SubSeq(t, 1, Len(s))[i] = t[i]
  <2>1. \A i \in 1 .. Len(s) : t[i] \in S
    BY <1>2
  <2>2. 1 \in Int /\ Len(s) \in Int /\ Len(s) \in Nat
    OBVIOUS
  <2>3. /\ SubSeq(t, 1, Len(s)) \in Seq(S)
        /\ Len(SubSeq(t, 1, Len(s))) = IF 1 <= Len(s) THEN Len(s) - 1 + 1 ELSE 0
        /\ \A i \in 1 .. Len(s) - 1 + 1 : SubSeq(t, 1, Len(s))[i] = t[1 + i - 1]
    BY <2>1, <2>2, SubSeqProperties
  <2> QED BY <2>2, <2>3
<1>3. ASSUME Len(s) <= Len(t), s = SubSeq(t, 1, Len(s)) PROVE \A i \in 1 .. Len(s) : s[i] = t[i]
  BY <1>2, <1>3
<1>4. ASSUME Len(s) <= Len(t), \A i \in 1 .. Len(s) : s[i] = t[i] PROVE s = SubSeq(t, 1, Len(s))
  BY <1>2, <1>4, SeqEqual
<1> QED BY <1>1, <1>3, <1>4 DEF IsPrefix

\* They are reflexive and transitive, and appending keeps them.
LEMMA PrefixRules ==
  ASSUME NEW S, NEW s \in Seq(S), NEW t \in Seq(S), NEW u \in Seq(S), NEW x \in S
  PROVE  /\ IsPrefix(s, s)
         /\ IsPrefix(s, t) /\ IsPrefix(t, u) => IsPrefix(s, u)
         /\ IsPrefix(s, t) => IsPrefix(s, Append(t, x))
         /\ IsPrefix(<<>>, s)
<1>1. IsPrefix(s, s)
  BY PrefixIs
<1>2. ASSUME IsPrefix(s, t), IsPrefix(t, u) PROVE IsPrefix(s, u)
  <2>1. Len(s) <= Len(t) /\ \A i \in 1 .. Len(s) : s[i] = t[i]
    BY <1>2, PrefixIs
  <2>2. Len(t) <= Len(u) /\ \A i \in 1 .. Len(t) : t[i] = u[i]
    BY <1>2, PrefixIs
  <2>3. Len(s) <= Len(u) /\ \A i \in 1 .. Len(s) : s[i] = u[i]
    BY <2>1, <2>2
  <2> QED BY <2>3, PrefixIs
<1>3. ASSUME IsPrefix(s, t) PROVE IsPrefix(s, Append(t, x))
  <2>1. Len(s) <= Len(t) /\ \A i \in 1 .. Len(s) : s[i] = t[i]
    BY <1>3, PrefixIs
  <2>2. Append(t, x) \in Seq(S) /\ Len(Append(t, x)) = Len(t) + 1
        /\ \A i \in 1 .. Len(t) : Append(t, x)[i] = t[i]
    BY AppendProperties
  <2>3. Len(s) <= Len(Append(t, x)) /\ \A i \in 1 .. Len(s) : s[i] = Append(t, x)[i]
    BY <2>1, <2>2
  <2> QED BY <2>2, <2>3, PrefixIs
<1>4. IsPrefix(<<>>, s)
  <2>1. ASSUME NEW e, e = <<>> PROVE IsPrefix(e, s)
    <3>1. e \in Seq(S) /\ Len(e) = 0 /\ Len(s) \in Nat
      BY <2>1
    <3>2. Len(e) <= Len(s) /\ \A i \in 1 .. Len(e) : e[i] = s[i]
      BY <3>1
    <3> QED BY <3>1, <3>2, PrefixIs
  <2> QED BY <2>1
<1> QED BY <1>1, <1>2, <1>3, <1>4

\* What Appended makes: one chunk more than those it keeps, named by the lease,
\* with the short end and the new unit.
LEMMA AppendedFields ==
  ASSUME NEW r \in Manifests, NEW p \in Proc, r.lease # None, ShapeOf(r), Len(r.sum) < MaxLen
  PROVE  LET n == Appended(r, p)  m == Len(n.chunks) IN
         /\ n \in Manifests /\ Len(n.chunks) = Ceil(Len(n.sum))
         /\ n.state = r.state /\ n.upload = r.upload /\ n.lease = None
         /\ n.sum = Append(r.sum, p)
         /\ m \in Nat \ {0} /\ n.chunks[m] = r.lease
         /\ Seg(n.sum, m) = Append(ShortEnd(r.sum), p)
         /\ \A i \in 1 .. m - 1 : /\ i \in 1 .. Len(r.chunks) /\ n.chunks[i] = r.chunks[i]
                                  /\ Seg(n.sum, i) = Seg(r.sum, i)
<1> DEFINE n == Appended(r, p)  z == Len(r.sum)  c == Ceil(z)
           base == IF ShortTail(r) THEN Front(r.chunks) ELSE r.chunks
<1>1. /\ r.sum \in Seq(Proc) /\ r.chunks \in Seq(Nonce) /\ z \in Nat /\ z + 1 <= MaxLen
      /\ r.lease \in Nonce /\ Len(r.chunks) = c /\ MaxLen \in Nat
  BY ManifestFields, Names DEF ShapeOf
<1>2. /\ c \in Nat /\ Ceil(z + 1) \in Nat /\ Ceil(z + 1) <= Ceil(MaxLen)
  BY <1>1, CeilBounds, CeilMono, z + 1 \in Nat
<1>3. /\ z % PartSize = 0 => Ceil(z + 1) = c + 1
      /\ z % PartSize # 0 => Ceil(z + 1) = c /\ c > 0
  BY <1>1, CeilNext
<1>4. n.sum = Append(r.sum, p) /\ n.chunks = Append(base, r.lease) /\ n.lease = None
      /\ n.state = r.state /\ n.upload = r.upload
      /\ n = [r EXCEPT !.sum = Append(r.sum, p), !.chunks = Append(base, r.lease), !.lease = None]
  <2>1. n = [r EXCEPT !.sum = Append(r.sum, p), !.chunks = Append(base, r.lease), !.lease = None]
    BY DEF Appended
  <2> HIDE DEF base, n
  <2> QED BY <2>1 DEF Manifests
<1>5. Append(r.sum, p) \in Seq(Proc) /\ Len(Append(r.sum, p)) = z + 1
  BY <1>1, AppendProperties
<1>6. base \in Seq(Nonce) /\ Len(base) + 1 = Ceil(z + 1) /\ Len(base) <= c
      /\ (z % PartSize # 0 => Len(base) < c)
      /\ \A i \in 1 .. Len(base) : base[i] = r.chunks[i]
  <2>1. CASE ShortTail(r)
    <3>1. \A i \in 1 .. c - 1 : r.chunks[i] \in Nonce
      BY <1>1, <1>2
    <3>2. c - 1 \in Nat /\ base = SubSeq(r.chunks, 1, c - 1)
      BY <2>1, <1>1, <1>2, <1>3 DEF ShortTail, Front
    <3>3. /\ SubSeq(r.chunks, 1, c - 1) \in Seq(Nonce)
          /\ Len(SubSeq(r.chunks, 1, c - 1)) = IF 1 <= c - 1 THEN (c - 1) - 1 + 1 ELSE 0
          /\ \A i \in 1 .. (c - 1) - 1 + 1 : SubSeq(r.chunks, 1, c - 1)[i] = r.chunks[1 + i - 1]
      BY <3>1, <3>2, 1 \in Int, c - 1 \in Int, SubSeqProperties
    <3> HIDE DEF base, c, z
    <3> QED BY <3>2, <3>3, <2>1, <1>2, <1>3 DEF ShortTail, z
  <2>2. CASE ~ShortTail(r)
    <3>1. z % PartSize = 0 /\ base = r.chunks
      BY <2>2 DEF ShortTail
    <3> HIDE DEF base, c, z
    <3> QED BY <3>1, <1>1, <1>2, <1>3
  <2> QED BY <2>1, <2>2
<1>7. /\ Append(base, r.lease) \in Seq(Nonce) /\ Len(Append(base, r.lease)) = Len(base) + 1
      /\ \A i \in 1 .. Len(base) : Append(base, r.lease)[i] = base[i]
      /\ Append(base, r.lease)[Len(base) + 1] = r.lease
  BY <1>1, <1>6, AppendProperties
<1>8. Append(r.sum, p) \in Bytes /\ Append(base, r.lease) \in Keys
  BY <1>1, <1>2, <1>5, <1>6, <1>7, BytesSeq, KeysSeq
<1>9. n \in Manifests
  <2> HIDE DEF n, base
  <2>1. [r EXCEPT !.sum = Append(r.sum, p), !.chunks = Append(base, r.lease), !.lease = None]
           \in Manifests
    BY <1>8, ManifestWith
  <2> QED BY <1>4, <2>1
<1> HIDE DEF base
<1>10. /\ \A i \in 1 .. c : (z % PartSize = 0 \/ i < c) => Seg(Append(r.sum, p), i) = Seg(r.sum, i)
       /\ z % PartSize # 0 => Seg(Append(r.sum, p), c) = Append(Seg(r.sum, c), p)
       /\ z % PartSize = 0 => Seg(Append(r.sum, p), c + 1) = Append(<<>>, p)
  BY <1>1, SegAppend
<1>11. Seg(Append(r.sum, p), Ceil(z + 1)) = Append(ShortEnd(r.sum), p)
  BY <1>3, <1>10 DEF ShortEnd
<1>12. \A i \in 1 .. Len(base) : i \in 1 .. c /\ Seg(Append(r.sum, p), i) = Seg(r.sum, i)
  <2> HIDE DEF c, z
  <2> QED BY <1>2, <1>6, <1>10
<1>13. Len(base) \in Nat
  BY <1>6
<1> HIDE DEF n, c, z
<1> DEFINE m == Len(n.chunks)
<1>14. m = Ceil(z + 1) /\ m = Len(base) + 1 /\ m - 1 = Len(base) /\ m \in Nat \ {0}
  BY <1>4, <1>6, <1>7, <1>13
<1>15. Len(n.sum) = z + 1
  BY <1>4, <1>5
<1>16. \A i \in 1 .. m - 1 : /\ i \in 1 .. Len(r.chunks) /\ n.chunks[i] = r.chunks[i]
                             /\ Seg(n.sum, i) = Seg(r.sum, i)
  BY <1>1, <1>4, <1>6, <1>7, <1>12, <1>14
<1>17. n.chunks[m] = r.lease /\ Seg(n.sum, m) = Append(ShortEnd(r.sum), p)
  BY <1>4, <1>7, <1>11, <1>14
<1> QED BY <1>4, <1>9, <1>14, <1>15, <1>16, <1>17 DEF n

-----------------------------------------------------------------------------
(* Types and records.                                                      *)

\* The type invariant in groups.
BucketOK ==
    /\ man \in Manifests \cup {None}
    /\ obj \in [Nonce -> Bytes \cup {None}]
    /\ mpu \in [Upload -> Bytes \cup {None}]
    /\ blob \in [Bytes -> Bytes \cup {None}]
    /\ ref \subseteq Bytes /\ erased \subseteq Bytes
NetOK == net \subseteq Requests
ProcOK ==
    /\ op \in [Proc -> Ops \cup {None}]
    /\ pc \in [Proc -> Labels]
    /\ mf \in [Proc -> Manifests \cup {None}]
    /\ tag \in [Proc -> Manifests \cup {None}]
    /\ todo \in [Proc -> SUBSET Nonce]
    /\ late \subseteq Proc
FlagsOK == {lapsed, expired, begun, gone} \subseteq BOOLEAN /\ acked \in Bytes
CountOK ==
    /\ prot \subseteq Proc
    /\ <<calls, faults, others>> \in (0 .. MaxCalls) \X (0 .. MaxFaults) \X (0 .. MaxOthers)

\* Together they are the type invariant.
LEMMA TypeGroups == TypeOK <=> BucketOK /\ NetOK /\ ProcOK /\ FlagsOK /\ CountOK
  BY DEF TypeOK, BucketOK, NetOK, ProcOK, FlagsOK, CountOK

\* The fields of a request have their types.
LEMMA RequestFields ==
  ASSUME NEW q \in Requests
  PROVE  /\ q.to \in {"save", "delete", "chunk", "clean"}
         /\ q.to = "save" => /\ q.next \in Manifests /\ q.tag \in Manifests \cup {None}
                             /\ q.renew \in BOOLEAN
         /\ q.to = "delete" => q.tag \in Manifests
         /\ q.to = "chunk" => q.key \in Nonce /\ q.bytes \in Bytes
         /\ q.to = "clean" => q.key \in Nonce
  BY DEF Requests

\* The records, place by place.
LEMMA RecordIff ==
  \A r : r \in Records <=>
      /\ r # None
      /\ \/ r = man
         \/ \E p \in Proc : r = mf[p] \/ r = tag[p]
         \/ \E q \in Saves : r = q.next \/ r = q.tag
         \/ \E q \in Deletes : r = q.tag
<1> TAKE r
<1> DEFINE A == UNION {{mf[p], tag[p]} : p \in Proc}
           B == UNION {{q.next, q.tag} : q \in {q \in net : q.to = "save"}}
           C == {q.tag : q \in {q \in net : q.to = "delete"}}
<1>1. r \in Records <=> r # None /\ (r = man \/ r \in A \/ r \in B \/ r \in C)
  <2>1. Records = ({man} \cup A \cup B \cup C) \ {None}
    BY DEF Records
  <2> HIDE DEF A, B, C
  <2> QED BY <2>1
<1>2. r \in A <=> \E p \in Proc : r = mf[p] \/ r = tag[p]
  OBVIOUS
<1>3. r \in B <=> \E q \in Saves : r = q.next \/ r = q.tag
  BY DEF Saves
<1>4. r \in C <=> \E q \in Deletes : r = q.tag
  BY DEF Deletes
<1> HIDE DEF A, B, C
<1> QED BY <1>1, <1>2, <1>3, <1>4

\* Records are manifests.
LEMMA RecordTypes ==
  ASSUME BucketOK, NetOK, ProcOK
  PROVE  Records \subseteq Manifests
<1> SUFFICES ASSUME NEW r \in Records PROVE r \in Manifests
  OBVIOUS
<1>1. /\ r # None
      /\ \/ r = man
         \/ \E p \in Proc : r = mf[p] \/ r = tag[p]
         \/ \E q \in Saves : r = q.next \/ r = q.tag
         \/ \E q \in Deletes : r = q.tag
  BY RecordIff
<1>2. \A q \in Saves : q.next \in Manifests /\ q.tag \in Manifests \cup {None}
  BY RequestFields DEF Saves, NetOK
<1>3. \A q \in Deletes : q.tag \in Manifests
  BY RequestFields DEF Deletes, NetOK
<1> QED BY <1>1, <1>2, <1>3 DEF BucketOK, ProcOK

\* End and Failed, as kinds of steps.
LEMMA EndIsQuit ==
  ASSUME NEW p \in Proc, NEW b, ProcOK, End(p, b)
  PROVE  Quit(p)
<1> DEFINE next ==
          CASE op[p] = "Abort" -> <<"Clean", "read">>
            [] op[p] = "PruneCommit" /\ b -> <<"Prune", "read">>
            [] (op[p] = "PruneCommit" /\ ~b) \/ (op[p] = "Prune" /\ pc[p] # "list") ->
                  <<"Prune", "uploads">>
            [] OTHER -> <<None, "idle">>
<1>1. next \in {<<"Clean", "read">>, <<"Prune", "read">>, <<"Prune", "uploads">>, <<None, "idle">>}
  OBVIOUS
<1>2. /\ op' = [op EXCEPT ![p] = next[1]]
      /\ pc' = [pc EXCEPT ![p] = next[2]]
      /\ mf' = [mf EXCEPT ![p] = None]
      /\ tag' = [tag EXCEPT ![p] = None]
      /\ todo' = [todo EXCEPT ![p] = IF next = <<"Prune", "read">> THEN @ ELSE {}]
      /\ late' = IF next[2] \in {"idle", "uploads"} THEN late \ {p} ELSE late
  BY DEF End
<1> HIDE DEF next
<1>3. todo' \in {todo, [todo EXCEPT ![p] = {}]}
  BY <1>2 DEF ProcOK
<1>4. None # "Clean" /\ None # "Prune"
  BY Names DEF Ops
<1>5. CASE next = <<"Clean", "read">>
  BY <1>2, <1>3, <1>4, <1>5 DEF Quit
<1>6. CASE next = <<"Prune", "read">>
  BY <1>2, <1>3, <1>4, <1>6 DEF Quit
<1>7. CASE next = <<"Prune", "uploads">>
  BY <1>2, <1>3, <1>4, <1>7 DEF Quit
<1>8. CASE next = <<None, "idle">>
  BY <1>2, <1>3, <1>4, <1>8 DEF Quit
<1> QED BY <1>1, <1>5, <1>6, <1>7, <1>8

\* What fails goes back to release the lease, or returns.
LEMMA FailedIsFall ==
  ASSUME NEW p \in Proc, ProcOK, FlowOf(p), Failed(p),
         pc[p] \notin {"idle", "sweep", "uploads"}
  PROVE  Fall(p) /\ (pc[p] \in {"chunk", "put", "create", "copy", "complete", "ref", "clean",
                                "cleanall", "delete"} => Back(p) /\ tag' = tag)
<1> DEFINE quits == \/ pc[p] \in {"begin", "read", "lease", "abort", "release", "finish"}
                    \/ pc[p] = "list" /\ op[p] = "Prune"
                    \/ pc[p] = "receipt" /\ op[p] = "Abort"
<1>1. CASE quits
  <2>1. End(p, pc[p] = "finish")
    BY <1>1 DEF Failed
  <2>2. Quit(p)
    BY <2>1, EndIsQuit
  <2> QED BY <1>1, <2>2 DEF Fall
<1>2. CASE ~quits
  <2>1. /\ pc' = [pc EXCEPT ![p] = "release"]
        /\ tag' = IF pc[p] \in {"freeze", "record", "forget", "receipt"}
                   THEN [tag EXCEPT ![p] = None] ELSE tag
        /\ UNCHANGED <<op, mf, todo, late, prot>>
    BY <1>2 DEF Failed, Goto
  <2>2. mf[p] # None
    BY <1>2 DEF FlowOf, Idle
  <2>3. pc[p] \in {"freeze", "record", "forget", "receipt"} \/ pc[p] \in Same
    BY <1>2 DEF ProcOK, Labels, Same
  <2>4. Back(p)
    BY <2>1, <2>2, <2>3 DEF Back
  <2> QED BY <2>1, <2>4 DEF Fall
<1> QED BY <1>1, <1>2

-----------------------------------------------------------------------------
(* Every step is of one of the kinds.                                      *)

\* What the kinds rest on.
Ground == BucketOK /\ NetOK /\ ProcOK /\ FlagsOK /\ FlowInv /\ CopyInv /\ ShapeInv

\* A process's copy and its ETag are records with their shape.
LEMMA CopyRecords ==
  ASSUME NEW p \in Proc, BucketOK, NetOK, ProcOK, ShapeInv
  PROVE  /\ mf[p] # None => mf[p] \in Manifests /\ mf[p] \in Records /\ ShapeOf(mf[p])
         /\ tag[p] # None => tag[p] \in Manifests /\ tag[p] \in Records /\ ShapeOf(tag[p])
         /\ man # None => man \in Manifests /\ man \in Records /\ ShapeOf(man)
<1>1. /\ mf[p] # None => mf[p] \in Records
      /\ tag[p] # None => tag[p] \in Records
      /\ man # None => man \in Records
  BY RecordIff
<1>2. Records \subseteq Manifests
  BY RecordTypes
<1> QED BY <1>1, <1>2 DEF ShapeInv

\* What is sent is a manifest.
LEMMA SendType ==
  ASSUME Ground, NEW p \in Proc, NEW n, NEW rn, Sending(p, n, rn)
  PROVE  /\ n \in Manifests /\ rn \in BOOLEAN
         /\ pc[p] # "begin" => mf[p] # None
<1>1. FlowOf(p) /\ CopyOf(p) /\ ProcOK
  BY DEF Ground, FlowInv, CopyInv
<1>2. CASE pc[p] = "begin"
  BY <1>2, EmptyIn DEF Sending
<1>3. CASE pc[p] # "begin"
  <2>1. mf[p] # None
    BY <1>1, <1>3 DEF FlowOf, Sending, Idle
  <2>2. mf[p] \in Manifests /\ ShapeOf(mf[p]) /\ mf[p].lease # None
    BY <2>1, <1>1, CopyRecords DEF Ground, CopyOf
  <2>3. [mf[p] EXCEPT !.lease = None] \in Manifests
    BY <2>2, ManifestWith
  <2>4. CASE pc[p] = "append"
    <3>1. Len(mf[p].sum) < MaxLen
      BY <1>1, <2>1, <2>4 DEF CopyOf
    <3>2. Appended(mf[p], p) \in Manifests
      BY <2>2, <3>1, AppendedFields
    <3> QED BY <2>1, <2>4, <3>2 DEF Sending
  <2>5. CASE pc[p] # "append"
    BY <1>3, <2>1, <2>2, <2>3, <2>5 DEF Sending
  <2> QED BY <2>4, <2>5
<1> QED BY <1>2, <1>3

\* A save that fails.
SaveFailed(p, n, rn) ==
    /\ \/ /\ man # tag[p]
          /\ Failed(p)
          /\ UNCHANGED <<man, lapsed, expired, net, faults, begun, acked>>
       \/ /\ NoAnswer([to |-> "save", next |-> n, tag |-> tag[p], renew |-> rn])
          /\ Failed(p)
          /\ UNCHANGED <<man, lapsed, expired, begun, acked>>
    /\ UNCHANGED <<obj, mpu, blob, ref, calls, others, gone, erased>>

\* A save that fails: the condition does not hold, or no answer comes.
LEMMA SaveFailedKinds ==
  ASSUME Ground, NEW p \in Proc, NEW n, NEW rn, Sending(p, n, rn), SaveFailed(p, n, rn)
  PROVE  Stop(p) \/ Lose(p)
<1>1. Failed(p) /\ FlowOf(p) /\ ProcOK /\ pc[p] \notin {"idle", "sweep", "uploads"}
  BY DEF SaveFailed, Ground, FlowInv, Sending
<1>2. Fall(p)
  BY <1>1, FailedIsFall
<1>3. n \in Manifests /\ rn \in BOOLEAN
  BY SendType
<1> QED BY <1>2, <1>3 DEF SaveFailed, Stop, Lose, NoAnswer, SaveRequest, Rest

\* Begin saves the first manifest.
LEMMA BeginKinds ==
  ASSUME Ground, NEW p \in Proc, Begin(p)
  PROVE  Stop(p) \/ Lose(p) \/ Keep(p)
<1>1. Sending(p, FirstManifest, TRUE) /\ FirstManifest.lease = None
  BY DEF Begin, Sending, FirstManifest
<1>2. FirstManifest \in Manifests
  BY EmptyIn
<1>3. \/ SaveFailed(p, FirstManifest, TRUE)
      \/ /\ Store(FirstManifest, tag[p], TRUE)
         /\ End(p, TRUE) /\ begun' = TRUE /\ UNCHANGED <<acked, net, faults>>
         /\ UNCHANGED <<obj, mpu, blob, ref, calls, others, gone, erased>>
  BY DEF Begin, Save, SaveFailed, FirstManifest
<1>4. CASE SaveFailed(p, FirstManifest, TRUE)
  BY <1>1, <1>4, SaveFailedKinds
<1>5. CASE /\ Store(FirstManifest, tag[p], TRUE)
           /\ End(p, TRUE) /\ begun' = TRUE /\ UNCHANGED <<acked, net, faults>>
           /\ UNCHANGED <<obj, mpu, blob, ref, calls, others, gone, erased>>
  <2>1. Quit(p)
    BY <1>5, EndIsQuit DEF Ground
  <2>2. pc[p] = "begin"
    BY DEF Begin
  <2> HIDE DEF FirstManifest
  <2> QED BY <1>1, <1>2, <1>5, <2>1, <2>2 DEF Keep, Store, Rest
<1> QED BY <1>3, <1>4, <1>5

\* Release, PublishAppend, SaveAborted and the receipt of an Abort give the lease
\* back.
LEMMA GiveBackKinds ==
  ASSUME Ground, NEW p \in Proc,
         Release(p) \/ PublishAppend(p) \/ SaveAborted(p) \/ (Receipt(p) /\ op[p] = "Abort")
  PROVE  Stop(p) \/ Lose(p) \/ Keep(p)
<1> DEFINE n == IF pc[p] = "append" THEN Appended(mf[p], p) ELSE [mf[p] EXCEPT !.lease = None]
           rn == IF pc[p] \in {"append", "receipt"} THEN TRUE
                 ELSE IF pc[p] = "abort" THEN tag[p].state = "active" ELSE FALSE
           w == IF pc[p] = "append" THEN TRUE ELSE IF pc[p] \in {"abort", "receipt"} THEN TRUE
                ELSE pc[p] = "finish"
<1>1. Sending(p, n, rn) /\ pc[p] \in {"release", "finish", "append", "receipt", "abort"}
  BY DEF Release, PublishAppend, SaveAborted, Receipt, Sending
<1>2. n \in Manifests /\ rn \in BOOLEAN /\ mf[p] # None
  BY <1>1, SendType
<1>3. n.lease = None
  <2>1. mf[p] \in Manifests
    BY <1>2 DEF Ground, ProcOK
  <2> QED BY <2>1 DEF Appended, Manifests
<1>4. \/ SaveFailed(p, n, rn)
      \/ /\ Store(n, tag[p], rn)
         /\ End(p, w) /\ UNCHANGED <<begun, net, faults>>
         /\ acked' = IF pc[p] = "append" THEN n.sum ELSE acked
         /\ UNCHANGED <<obj, mpu, blob, ref, calls, others, gone, erased>>
  <2>1. CASE Release(p)
    BY <2>1 DEF Release, Save, SaveFailed
  <2>2. CASE PublishAppend(p)
    BY <2>2 DEF PublishAppend, Save, SaveFailed
  <2>3. CASE SaveAborted(p)
    BY <2>3 DEF SaveAborted, Save, SaveFailed
  <2>4. CASE Receipt(p) /\ op[p] = "Abort"
    BY <2>4 DEF Receipt, Save, SaveFailed
  <2> QED BY <2>1, <2>2, <2>3, <2>4
<1> HIDE DEF n, rn, w
<1>5. CASE SaveFailed(p, n, rn)
  BY <1>1, <1>5, SaveFailedKinds
<1>6. CASE /\ Store(n, tag[p], rn)
           /\ End(p, w) /\ UNCHANGED <<begun, net, faults>>
           /\ acked' = IF pc[p] = "append" THEN n.sum ELSE acked
           /\ UNCHANGED <<obj, mpu, blob, ref, calls, others, gone, erased>>
  <2>1. Quit(p)
    BY <1>6, EndIsQuit DEF Ground
  <2>2. begun' = (begun \/ pc[p] = "begin")
    BY <1>1, <1>6 DEF Ground, FlagsOK
  <2> QED BY <1>1, <1>2, <1>3, <1>6, <2>1, <2>2 DEF Keep, Store, Rest
<1> QED BY <1>4, <1>5, <1>6

\* Freeze, RecordUpload, ForgetUpload and the receipt of a Commit keep it.
LEMMA SaveCopyKinds ==
  ASSUME Ground, NEW p \in Proc,
         Freeze(p) \/ RecordUpload(p) \/ ForgetUpload(p) \/ (Receipt(p) /\ op[p] # "Abort")
  PROVE  Stop(p) \/ Lose(p) \/ Move(p)
<1> DEFINE rn == pc[p] = "receipt"
           l == CASE pc[p] = "freeze" -> "look" [] pc[p] = "record" -> "copy"
                  [] pc[p] = "forget" -> "release" [] OTHER -> "finish"
<1>1. Sending(p, mf[p], rn) /\ pc[p] \in {"freeze", "record", "forget", "receipt"} /\ p \notin late
  BY DEF Freeze, RecordUpload, ForgetUpload, Receipt, Sending
<1>2. SaveCopy(p, rn, l)
  BY DEF Freeze, RecordUpload, ForgetUpload, Receipt
<1>3. \/ SaveFailed(p, mf[p], rn)
      \/ /\ Store(mf[p], tag[p], rn)
         /\ tag' = [tag EXCEPT ![p] = mf[p]] /\ pc' = [pc EXCEPT ![p] = l]
         /\ UNCHANGED <<op, mf, todo, late, prot, begun, acked, net, faults>>
         /\ UNCHANGED <<obj, mpu, blob, ref, calls, others, gone, erased>>
  <2> HIDE DEF rn, l
  <2> QED BY <1>2 DEF SaveCopy, Save, SaveFailed, Goto
<1>4. CASE SaveFailed(p, mf[p], rn)
  <2> HIDE DEF rn, l
  <2> QED BY <1>1, <1>4, SaveFailedKinds
<1>5. CASE /\ Store(mf[p], tag[p], rn)
           /\ tag' = [tag EXCEPT ![p] = mf[p]] /\ pc' = [pc EXCEPT ![p] = l]
           /\ UNCHANGED <<op, mf, todo, late, prot, begun, acked, net, faults>>
           /\ UNCHANGED <<obj, mpu, blob, ref, calls, others, gone, erased>>
  BY <1>1, <1>5 DEF Move, Store, Rest
<1> QED BY <1>3, <1>4, <1>5

\* Lease saves it.
LEMMA LeaseKinds ==
  ASSUME Ground, NEW p \in Proc, Lease(p)
  PROVE  Stop(p) \/ Lose(p) \/ Take(p)
<1>1. Sending(p, mf[p], FALSE) /\ pc[p] = "lease" /\ p \notin late
  BY DEF Lease, Sending
<1>2. \/ SaveFailed(p, mf[p], FALSE)
      \/ /\ Store(mf[p], tag[p], FALSE)
         /\ \E l \in First(op[p], mf[p]) :
                /\ tag' = [tag EXCEPT ![p] = mf[p]]
                /\ mf' = [mf EXCEPT ![p] = Marked(mf[p], l)]
                /\ pc' = [pc EXCEPT ![p] = l]
                /\ UNCHANGED <<op, todo, late, begun, acked>>
         /\ UNCHANGED <<net, faults>>
         /\ UNCHANGED <<obj, mpu, blob, ref, calls, others, gone, erased>>
  BY DEF Lease, Save, SaveFailed, Goto
<1>3. CASE SaveFailed(p, mf[p], FALSE)
  BY <1>1, <1>3, SaveFailedKinds
<1>4. CASE ~SaveFailed(p, mf[p], FALSE)
  BY <1>1, <1>2, <1>4 DEF Take, Store, Rest, Ground, FlagsOK
<1> QED BY <1>3, <1>4

\* Read makes it.
LEMMA ReadKinds ==
  ASSUME Ground, NEW p \in Proc, Read(p)
  PROVE  Stop(p) \/ Acquire(p)
<1>1. CASE Taken /\ End(p, FALSE)
  <2>1. Quit(p)
    BY <1>1, EndIsQuit DEF Ground
  <2> QED BY <2>1 DEF Read, Stop, Fall, bucket, env, bounds, history, Rest
<1>2. CASE ~(Taken /\ End(p, FALSE))
  <2> DEFINE k == CHOOSE k \in FreeNames : TRUE
  <2>1. /\ pc[p] = "read" /\ p \notin late /\ ~Taken /\ FreeNames # {}
        /\ mf' = [mf EXCEPT ![p] = [man EXCEPT !.lease = k]]
        /\ tag' = [tag EXCEPT ![p] = man]
        /\ pc' = [pc EXCEPT ![p] = "lease"]
        /\ UNCHANGED <<op, todo, late, prot>>
        /\ UNCHANGED <<bucket, env, bounds, history>>
    BY <1>2 DEF Read, Goto
  <2>2. k \in FreeNames
    BY <2>1
  <2> HIDE DEF k
  <2>3. man # None /\ (man.lease = None \/ lapsed)
    BY <2>1 DEF Taken
  <2> QED BY <2>1, <2>2, <2>3 DEF Acquire, bucket, env, bounds, history, Rest
<1> QED BY <1>1, <1>2

\* PutChunk writes the chunk.
LEMMA PutChunkKinds ==
  ASSUME Ground, NEW p \in Proc, PutChunk(p)
  PROVE  Stop(p) \/ Write(p) \/ WriteLost(p)
<1> DEFINE tail == IF ShortTail(mf[p]) THEN obj[Last(mf[p].chunks)] ELSE <<>>
<1>0. <<>> # None
  BY EmptyIn, Names
<1>1. /\ pc[p] = "chunk" /\ p \notin late
      /\ \/ /\ tail # None
            /\ obj' = [obj EXCEPT ![mf[p].lease] = Append(tail, p)]
            /\ Continue(p, "append")
            /\ UNCHANGED <<net, faults>>
         \/ /\ tail # None
            /\ NoAnswer([to |-> "chunk", key |-> mf[p].lease, bytes |-> Append(tail, p)])
            /\ Failed(p)
            /\ UNCHANGED obj
         \/ /\ tail = None
            /\ Failed(p)
            /\ UNCHANGED <<obj, net, faults>>
      /\ UNCHANGED <<man, mpu, blob, ref, lapsed, expired, calls, others, history>>
  BY DEF PutChunk
<1>2. tail # None => Readable(p)
  BY DEF Readable
<1>3. Append(tail, p) = NewBytes(p)
  BY DEF NewBytes
<1> HIDE DEF tail
<1>4. FlowOf(p) /\ ProcOK
  BY DEF Ground, FlowInv
<1>5. Failed(p) => Back(p) /\ Fall(p)
  BY <1>1, <1>4, FailedIsFall
<1>6. CASE tail # None /\ obj' = [obj EXCEPT ![mf[p].lease] = Append(tail, p)]
           /\ UNCHANGED <<net, faults>> /\ Continue(p, "append")
  BY <1>1, <1>2, <1>3, <1>6 DEF Continue, Goto, Write, Rest, history
<1>7. CASE tail # None /\ NoAnswer([to |-> "chunk", key |-> mf[p].lease, bytes |-> Append(tail, p)])
           /\ Failed(p) /\ UNCHANGED obj
  BY <1>1, <1>2, <1>3, <1>5, <1>7 DEF NoAnswer, WriteLost, Rest, history
<1>8. CASE tail = None
  BY <1>1, <1>5, <1>8 DEF Stop, Rest, history
<1> QED BY <1>1, <1>6, <1>7, <1>8

\* Look.
LEMMA LookKinds ==
  ASSUME Ground, NEW p \in Proc, Look(p)
  PROVE  Peek(p)
<1> DEFINE d == mf[p].sum
           l == CASE d \in ref -> "receipt"
                  [] d \notin ref /\ blob[d] # None -> "ref"
                  [] d \notin ref /\ blob[d] = None /\ d = <<>> -> "put"
                  [] OTHER -> IF mf[p].upload = None THEN "create" ELSE "copy"
<1>1. /\ pc[p] = "look" /\ p \notin late
      /\ mf' = [mf EXCEPT ![p] = Marked(@, l)] /\ pc' = [pc EXCEPT ![p] = l]
      /\ erased' = erased \ (ref \cap {mf[p].sum})
      /\ UNCHANGED <<man, obj, mpu, blob, ref, env, op, tag, todo, late, prot,
                     bounds, begun, acked, gone>>
  BY DEF Look, Goto
<1>2. /\ l \in {"receipt", "ref", "put", "create", "copy"}
      /\ (l = "receipt") <=> (mf[p].sum \in ref)
      /\ l = "ref" => blob[mf[p].sum] # None
      /\ l = "put" => mf[p].sum = <<>>
      /\ l = "copy" => mf[p].upload # None
  OBVIOUS
<1> HIDE DEF l
<1>3. mf' = [mf EXCEPT ![p] = Marked(mf[p], l)]
  BY <1>1
<1> QED BY <1>1, <1>2, <1>3 DEF Peek, env

\* The requests of publish and assemble.
LEMMA RequestKinds ==
  ASSUME Ground, NEW p \in Proc,
         PutBlob(p) \/ CreateUpload(p) \/ CopyParts(p) \/ CompleteUpload(p) \/ PutRef(p)
  PROVE  \/ Stop(p) \/ PutEmpty(p) \/ Create(p) \/ Copy(p) \/ Unlink(p) \/ Complete(p) \/ Refer(p)
<1>1. FlowOf(p) /\ ProcOK
  BY DEF Ground, FlowInv
<1>2. ASSUME pc[p] \in {"put", "create", "copy", "complete", "ref"}, Failed(p)
      PROVE  /\ Fall(p) /\ pc' = [pc EXCEPT ![p] = "release"]
             /\ UNCHANGED <<op, mf, tag, todo, late>>
  <2>1. Back(p) /\ tag' = tag
    BY <1>1, <1>2, FailedIsFall
  <2> QED BY <2>1 DEF Back, Fall
<1>3. CASE PutBlob(p)
  <2>1. /\ pc[p] = "put" /\ p \notin late /\ blob' = [blob EXCEPT ![mf[p].sum] = <<>>]
        /\ Continue(p, "ref") \/ Failed(p)
        /\ UNCHANGED <<man, obj, mpu, ref, env, calls, others, history>>
    BY <1>3 DEF PutBlob, Request
  <2> QED BY <2>1, <1>2 DEF PutEmpty, OnTo, Continue, Goto, env, history
<1>4. CASE CreateUpload(p)
  <2> DEFINE u == CHOOSE u \in FreeUploads : TRUE
  <2>1. /\ pc[p] = "create" /\ p \notin late /\ FreeUploads # {}
        /\ mpu' = [mpu EXCEPT ![u] = <<>>]
        /\ \/ /\ mf' = [mf EXCEPT ![p].upload = u]
              /\ pc' = [pc EXCEPT ![p] = "record"]
              /\ UNCHANGED <<op, tag, todo, late, prot>>
           \/ Failed(p)
        /\ UNCHANGED <<man, obj, blob, ref, env, calls, others, history>>
    BY <1>4 DEF CreateUpload, Request, Goto
  <2>2. u \in FreeUploads
    BY <2>1
  <2> HIDE DEF u
  <2> QED BY <2>1, <2>2, <1>2 DEF Create, env, history, Rest
<1>5. CASE CopyParts(p)
  <2>1. /\ pc[p] = "copy" /\ p \notin late
        /\ \/ /\ AllThere(p)
              /\ mpu' = [mpu EXCEPT ![mf[p].upload] = Content(mf[p].chunks)]
              /\ Continue(p, "complete") \/ Failed(p)
           \/ /\ mf' = [mf EXCEPT ![p].upload = None]
              /\ pc' = [pc EXCEPT ![p] = "forget"]
              /\ UNCHANGED <<mpu, op, tag, todo, late, prot, faults>>
        /\ UNCHANGED <<man, obj, blob, ref, env, calls, others, history>>
    BY <1>5 DEF CopyParts, Request, Goto, AllThere
  <2> QED BY <2>1, <1>2 DEF Copy, Unlink, OnTo, Continue, Goto, env, history, Rest
<1>6. CASE CompleteUpload(p)
  <2>1. /\ pc[p] = "complete" /\ p \notin late
        /\ \/ /\ mpu[mf[p].upload] # None
              /\ blob' = [blob EXCEPT ![mf[p].sum] = mpu[mf[p].upload]]
              /\ mpu' = [mpu EXCEPT ![mf[p].upload] = None]
              /\ Continue(p, "ref") \/ Failed(p)
           \/ Failed(p) /\ UNCHANGED <<blob, mpu, faults>>
        /\ UNCHANGED <<man, obj, ref, env, calls, others, history>>
    BY <1>6 DEF CompleteUpload, Request
  <2> QED BY <2>1, <1>2 DEF Complete, Stop, OnTo, Continue, Goto, env, history, Rest
<1>7. CASE PutRef(p)
  <2>1. /\ pc[p] = "ref" /\ p \notin late
        /\ ref' = ref \cup {mf[p].sum} /\ erased' = erased \ {mf[p].sum}
        /\ \/ /\ mf' = [mf EXCEPT ![p] = Marked(@, "receipt")]
              /\ pc' = [pc EXCEPT ![p] = "receipt"]
              /\ UNCHANGED <<op, tag, todo, late, prot>>
           \/ Failed(p)
        /\ UNCHANGED <<man, obj, mpu, blob, env, calls, others, begun, acked, gone>>
    BY <1>7 DEF PutRef, Request, Goto
  <2>2. [mf EXCEPT ![p] = Marked(@, "receipt")] = [mf EXCEPT ![p] = Marked(mf[p], "receipt")]
    OBVIOUS
  <2> QED BY <2>1, <2>2, <1>2 DEF Refer, env
<1> QED BY <1>3, <1>4, <1>5, <1>6, <1>7

\* Those of cleanTerminal and PruneStages.
LEMMA PruneKinds ==
  ASSUME Ground, NEW p \in Proc,
         List(p) \/ CleanChunks(p) \/ DeleteManifest(p) \/ Sweep(p) \/ PruneUploads(p)
  PROVE  \/ Stop(p) \/ Enumerate(p) \/ Clear(p) \/ ClearLost(p) \/ Delete(p) \/ DeleteLost(p)
         \/ SweepAll(p) \/ AbortUploads(p)
<1>1. FlowOf(p) /\ ProcOK
  BY DEF Ground, FlowInv
<1>2. ASSUME pc[p] \in {"clean", "cleanall", "delete"}, Failed(p)
      PROVE  Back(p) /\ Fall(p)
  BY <1>1, <1>2, FailedIsFall
<1>3. CASE List(p)
  <2>1. /\ pc[p] = "list" /\ p \notin late
        /\ todo' = [todo EXCEPT ![p] = Chunks]
        /\ UNCHANGED <<bucket, env, mf, tag, late, bounds, history>>
    BY <1>3 DEF List
  <2>2. CASE op[p] = "Clean" /\ pc' = [pc EXCEPT ![p] = "clean"] /\ UNCHANGED <<op, prot>>
    BY <2>1, <2>2 DEF Enumerate, bucket, env, history, Rest
  <2>3. CASE op[p] = "Prune" /\ man = None
             /\ (\E l \in {"sweep", "uploads"} : pc' = [pc EXCEPT ![p] = l]) /\ UNCHANGED <<op, prot>>
    <3>1. op' = [op EXCEPT ![p] = "Prune"]
      BY <2>3, <1>1 DEF ProcOK
    <3> QED BY <2>1, <2>3, <3>1 DEF Enumerate, bucket, env, history, Rest
  <2>4. CASE /\ op[p] = "Prune" /\ man # None
             /\ pc' = [pc EXCEPT ![p] = IF Taken THEN "uploads" ELSE "read"]
             /\ op' = [op EXCEPT ![p] = IF man.state = "committing" /\ ~Taken
                                        THEN "PruneCommit" ELSE "Prune"]
    BY <2>1, <2>4 DEF Enumerate, bucket, env, history, Rest
  <2> QED BY <1>3, <2>2, <2>3, <2>4 DEF List, Goto
<1>4. CASE CleanChunks(p)
  <2>1. /\ pc[p] \in {"clean", "cleanall"} /\ p \notin late
        /\ UNCHANGED <<man, mpu, blob, ref, lapsed, expired, calls, others, history>>
    BY <1>4 DEF CleanChunks
  <2>2. PICK ks \in Garbage(mf[p], todo[p], pc[p] = "cleanall") :
          \/ /\ obj' = Without(ks)
             /\ Continue(p, IF pc[p] = "cleanall" THEN "delete" ELSE "release")
             /\ UNCHANGED <<net, faults>>
          \/ \E k \in ks, some \in SUBSET ks :
                /\ k \notin some
                /\ obj' = Without(some)
                /\ NoAnswer([to |-> "clean", key |-> k])
                /\ Failed(p)
    BY <1>4 DEF CleanChunks
  <2>3. CASE /\ obj' = Without(ks)
             /\ Continue(p, IF pc[p] = "cleanall" THEN "delete" ELSE "release")
             /\ UNCHANGED <<net, faults>>
    BY <2>1, <2>2, <2>3 DEF Clear, Continue, Goto, history, Rest
  <2>4. CASE \E k \in ks, some \in SUBSET ks :
                /\ k \notin some
                /\ obj' = Without(some)
                /\ NoAnswer([to |-> "clean", key |-> k])
                /\ Failed(p)
    BY <2>1, <2>2, <2>4, <1>2 DEF ClearLost, NoAnswer, history, Rest
  <2> QED BY <2>2, <2>3, <2>4
<1>5. CASE DeleteManifest(p)
  <2>1. /\ pc[p] = "delete" /\ p \notin late
        /\ UNCHANGED <<obj, mpu, blob, ref, lapsed, expired, calls, others, begun, acked, erased>>
    BY <1>5 DEF DeleteManifest
  <2>2. CASE man = tag[p] /\ man' = None /\ gone' = TRUE /\ End(p, TRUE) /\ UNCHANGED <<net, faults>>
    <3>1. Quit(p)
      BY <2>2, <1>1, EndIsQuit
    <3> QED BY <2>1, <2>2, <3>1 DEF Delete, Rest
  <2>3. CASE /\ man # tag[p]
             /\ IF man = None THEN End(p, TRUE) ELSE Failed(p)
             /\ UNCHANGED <<man, gone, net, faults>>
    <3>1. Fall(p)
      BY <2>1, <2>3, <1>1, <1>2, EndIsQuit DEF Fall
    <3> QED BY <2>1, <2>3, <3>1 DEF Stop, Rest
  <2>4. CASE NoAnswer([to |-> "delete", tag |-> tag[p]]) /\ Failed(p) /\ UNCHANGED <<man, gone>>
    BY <2>1, <2>4, <1>2 DEF DeleteLost, NoAnswer, Rest
  <2> QED BY <1>5, <2>2, <2>3, <2>4 DEF DeleteManifest
<1>6. CASE Sweep(p)
  <2>1. Quit(p)
    BY <1>6, <1>1, EndIsQuit DEF Sweep
  <2> QED BY <1>6, <2>1 DEF Sweep, SweepAll, NoAnswer, history, Rest
<1>7. CASE PruneUploads(p)
  <2>1. PICK old \in SUBSET Upload : mpu' = [u \in Upload |-> IF u \in old THEN None ELSE mpu[u]]
    BY <1>7 DEF PruneUploads
  <2>2. mpu \in [Upload -> Bytes \cup {None}]
    BY DEF Ground, BucketOK
  <2>3. mpu' \in [Upload -> Bytes \cup {None}] /\ \A u \in Upload : mpu'[u] \in {None, mpu[u]}
    BY <2>1, <2>2
  <2> QED BY <1>7, <2>3 DEF PruneUploads, AbortUploads, Goto, env, history, Rest
<1> QED BY <1>3, <1>4, <1>5, <1>6, <1>7

\* A deadline, a refusal and a death.
LEMMA StopKinds ==
  ASSUME Ground, NEW p \in Proc, TimedOut(p) \/ Refused(p) \/ Crash(p)
  PROVE  Stop(p)
<1>1. FlowOf(p) /\ ProcOK
  BY DEF Ground, FlowInv
<1>2. CASE TimedOut(p) \/ Refused(p)
  <2>1. pc[p] \notin {"idle", "sweep", "uploads"} /\ Failed(p)
    BY <1>1, <1>2 DEF TimedOut, Refused, FlowOf, Idle
  <2>2. Fall(p)
    BY <1>1, <2>1, FailedIsFall
  <2> QED BY <1>2, <2>2 DEF Stop, TimedOut, Refused, bucket, env, history, Rest
<1>3. CASE Crash(p)
  <2>1. Quit(p)
    BY <1>3 DEF Crash, Quit
  <2> QED BY <1>3, <2>1 DEF Crash, Stop, Fall, bucket, env, history, Rest
<1> QED BY <1>2, <1>3

\* A call of a client or of the host.
LEMMA StartKinds ==
  ASSUME NEW p \in Proc, Call(p) \/ Maintain(p)
  PROVE  Start(p)
  BY DEF Call, Maintain, Start, Goto, bucket, env, history, Rest

\* A request that arrives late.
LEMMA DeliverKinds ==
  ASSUME Ground, NEW q \in net, Deliver(q)
  PROVE  LateKinds(q)
<1>1. net' = net \ {q} /\ UNCHANGED <<mpu, blob, ref, procs, bounds, begun, acked, erased>>
  BY DEF Deliver
<1>2. UNCHANGED LateRest
  BY <1>1 DEF LateRest, procs, Rest
<1>3. CASE q.to = "save" /\ Store(q.next, q.tag, q.renew) /\ UNCHANGED <<obj, gone>>
  BY <1>1, <1>2, <1>3 DEF LateKinds, LateSave, Store
<1>4. CASE q.to = "delete" /\ man = q.tag /\ man' = None /\ gone' = TRUE
           /\ UNCHANGED <<obj, lapsed, expired>>
  BY <1>1, <1>2, <1>4 DEF LateKinds, LateDelete
<1>5. CASE UNCHANGED <<man, obj, lapsed, expired, gone>>
  BY <1>1, <1>2, <1>5 DEF LateKinds, LateNothing
<1>6. CASE /\ q.to \in {"chunk", "clean"}
           /\ obj' = [obj EXCEPT ![q.key] =
                       IF q.to = "clean" THEN None ELSE IF @ = None THEN q.bytes ELSE @]
           /\ UNCHANGED <<man, lapsed, expired, gone>>
  <2>1. CASE q.to = "chunk"
    BY <1>1, <1>2, <1>6, <2>1 DEF LateKinds, LateChunk
  <2>2. CASE q.to = "clean"
    BY <1>1, <1>2, <1>6, <2>2 DEF LateKinds, LateClean
  <2> QED BY <1>6, <2>1, <2>2
<1> QED BY <1>3, <1>4, <1>5, <1>6 DEF Deliver

\* Every step is of one of the kinds.
LEMMA Kinds ==
  ASSUME Ground, [Next]_vars
  PROVE  (\E p \in Proc : StepKinds(p)) \/ (\E q \in net : LateKinds(q)) \/ OtherKinds
<1>1. ASSUME NEW p \in Proc, Step(p) \/ Call(p) \/ Maintain(p) \/ Refused(p) \/ Crash(p)
      PROVE  StepKinds(p)
  <2>1. CASE Begin(p)
    BY <2>1, BeginKinds DEF StepKinds
  <2>2. CASE Release(p) \/ PublishAppend(p) \/ SaveAborted(p) \/ (Receipt(p) /\ op[p] = "Abort")
    BY <2>2, GiveBackKinds DEF StepKinds
  <2>3. CASE Freeze(p) \/ RecordUpload(p) \/ ForgetUpload(p) \/ (Receipt(p) /\ op[p] # "Abort")
    BY <2>3, SaveCopyKinds DEF StepKinds
  <2>4. CASE Lease(p)
    BY <2>4, LeaseKinds DEF StepKinds
  <2>5. CASE Read(p)
    BY <2>5, ReadKinds DEF StepKinds
  <2>6. CASE PutChunk(p)
    BY <2>6, PutChunkKinds DEF StepKinds
  <2>7. CASE Look(p)
    BY <2>7, LookKinds DEF StepKinds
  <2>8. CASE PutBlob(p) \/ CreateUpload(p) \/ CopyParts(p) \/ CompleteUpload(p) \/ PutRef(p)
    BY <2>8, RequestKinds DEF StepKinds
  <2>9. CASE List(p) \/ CleanChunks(p) \/ DeleteManifest(p) \/ Sweep(p) \/ PruneUploads(p)
    BY <2>9, PruneKinds DEF StepKinds
  <2>10. CASE TimedOut(p) \/ Refused(p) \/ Crash(p)
    BY <2>10, StopKinds DEF StepKinds
  <2>11. CASE Call(p) \/ Maintain(p)
    BY <2>11, StartKinds DEF StepKinds
  <2> QED BY <1>1, <2>1, <2>2, <2>3, <2>4, <2>5, <2>6, <2>7, <2>8, <2>9, <2>10, <2>11 DEF Step
<1>2. ASSUME NEW q \in net, Deliver(q) PROVE LateKinds(q)
  BY <1>2, DeliverKinds
<1> QED BY <1>1, <1>2 DEF Next, OtherKinds

-----------------------------------------------------------------------------
(* The flow of a call, and its copy of the manifest.                       *)

\* Only what belongs to p changes.
Alone(p) ==
    /\ \A s \in Proc : s # p =>
          /\ pc'[s] = pc[s] /\ op'[s] = op[s] /\ mf'[s] = mf[s] /\ tag'[s] = tag[s]
          /\ todo'[s] = todo[s]
          /\ (s \in late') <=> (s \in late)
    /\ p \in late' => p \in late

\* That is so of every step of p.
LEMMA StepAlone ==
  ASSUME ProcOK, NEW p \in Proc, StepKinds(p)
  PROVE  Alone(p)
<1>1. CASE Quit(p)
  BY <1>1 DEF Quit, Alone, ProcOK
<1>2. CASE Back(p)
  BY <1>2 DEF Back, Alone, ProcOK
<1>3. ASSUME NEW l, OnTo(p, l) PROVE Alone(p)
  BY <1>3 DEF OnTo, Alone, ProcOK
<1>4. CASE Move(p) \/ Take(p) \/ Acquire(p) \/ Write(p)
  BY <1>4 DEF Move, Take, Acquire, Write, Alone, ProcOK
<1>5. CASE Peek(p) \/ Create(p) \/ Unlink(p) \/ Refer(p)
  BY <1>5 DEF Peek, Create, Unlink, Refer, Alone, ProcOK
<1>6. CASE Enumerate(p) \/ Clear(p) \/ AbortUploads(p) \/ Start(p)
  BY <1>6 DEF Enumerate, Clear, AbortUploads, Start, Alone, ProcOK
<1> QED BY <1>1, <1>2, <1>3, <1>4, <1>5, <1>6
        DEF StepKinds, Stop, Lose, Keep, WriteLost, PutEmpty, Copy, Complete, ClearLost, Delete,
            DeleteLost, SweepAll, Fall

\* What First lets an operation do.
LEMMA FirstIs ==
  ASSUME NEW r \in Manifests, NEW o \in Ops \ {"Begin"}, NEW l \in First(o, r)
  PROVE  /\ l \in {"chunk", "freeze", "look", "abort", "release", "finish", "list", "clean", "cleanall"}
         /\ l = "chunk" => o = "Append" /\ r.state = "active" /\ ~expired /\ Len(r.sum) < MaxLen
         /\ l = "freeze" => r.state = "active" /\ ~expired
         /\ l = "look" => r.state = "committing"
         /\ l = "abort" => r.state \in {"active", "aborted"}
         /\ l = "list" => o = "Clean" /\ r.state # "committing"
         /\ l = "clean" => r.state # "committing"
         /\ l = "cleanall" => o = "Prune" /\ r.state # "committing" /\ expired
<1>1. /\ r.state \in {"active", "committing", "committed", "aborted"}
      /\ Len(r.sum) \in Nat /\ Len(r.sum) <= MaxLen /\ MaxLen \in Nat
  BY ManifestFields, Names
<1>2. CASE o = "Append"
  <2>1. First(o, r) = IF r.state # "active" \/ expired \/ Full(r) THEN {"release"}
                      ELSE {"chunk", "release"}
    BY <1>2 DEF First
  <2> QED BY <1>1, <1>2, <2>1 DEF Full
<1>3. CASE o \in {"Commit", "PruneCommit"}
  <2>1. First(o, r) =
            CASE r.state = "committing" -> IF o = "Commit" THEN {"look", "release"} ELSE {"look"}
              [] r.state = "aborted" \/ (expired /\ r.state # "committing") -> {"release"}
              [] r.state = "committed" /\ ~expired -> {"finish"}
              [] OTHER -> {"freeze", "release"}
    BY <1>3 DEF First
  <2> QED BY <1>1, <1>3, <2>1
<1>4. CASE o = "Abort"
  <2>1. First(o, r) = CASE r.state = "committing" -> {"look"}
                        [] r.state = "committed" -> {"release"}
                        [] OTHER -> {"abort"}
    BY <1>4 DEF First
  <2> QED BY <1>1, <1>4, <2>1
<1>5. CASE o = "Clean"
  <2>1. First(o, r) = IF r.state \in {"committed", "aborted"} THEN {"list"} ELSE {"release"}
    BY <1>5 DEF First
  <2> QED BY <1>1, <1>5, <2>1
<1>6. CASE o = "Prune"
  <2>1. First(o, r) = IF r.state = "committing" THEN {"release"}
                      ELSE IF expired THEN {"cleanall"} ELSE {"clean"}
    BY <1>6 DEF First
  <2> QED BY <1>1, <1>6, <2>1
<1> QED BY <1>2, <1>3, <1>4, <1>5, <1>6 DEF Ops

\* Marked changes the state, and that for three labels.
LEMMA MarkedIs ==
  ASSUME NEW r \in Manifests, NEW l
  PROVE  /\ Marked(r, l) \in Manifests
         /\ l \notin {"freeze", "receipt", "abort"} => Marked(r, l) = r
         /\ Marked(r, l).sum = r.sum /\ Marked(r, l).chunks = r.chunks
         /\ Marked(r, l).lease = r.lease /\ Marked(r, l).upload = r.upload
         /\ l = "freeze" => Marked(r, l) = [r EXCEPT !.state = "committing"]
         /\ l = "receipt" => Marked(r, l) = [r EXCEPT !.state = "committed"]
         /\ l = "abort" => Marked(r, l) = [r EXCEPT !.state = "aborted"]
         /\ l = "freeze" => Marked(r, l).state = "committing"
         /\ l = "receipt" => Marked(r, l).state = "committed"
         /\ l = "abort" => Marked(r, l).state = "aborted"
<1>1. \A st \in {"active", "committing", "committed", "aborted"} :
          [r EXCEPT !.state = st] \in Manifests
  BY ManifestWith
<1>2. \A st : /\ [r EXCEPT !.state = st].sum = r.sum /\ [r EXCEPT !.state = st].chunks = r.chunks
              /\ [r EXCEPT !.state = st].lease = r.lease /\ [r EXCEPT !.state = st].upload = r.upload
              /\ [r EXCEPT !.state = st].state = st
  BY DEF Manifests
<1>3. CASE l = "freeze"
  BY <1>1, <1>2, <1>3 DEF Marked
<1>4. CASE l = "receipt"
  BY <1>1, <1>2, <1>4 DEF Marked
<1>5. CASE l = "abort"
  BY <1>1, <1>2, <1>5 DEF Marked
<1>6. CASE l \notin {"freeze", "receipt", "abort"}
  BY <1>6 DEF Marked
<1> QED BY <1>3, <1>4, <1>5, <1>6

\* A step of p keeps FlowInv.
LEMMA FlowKept ==
  ASSUME Ground, NEW p \in Proc, StepKinds(p)
  PROVE  FlowInv'
<1>1. Alone(p) /\ FlowOf(p) /\ ProcOK
  BY StepAlone DEF Ground, FlowInv
<1>2. begun => begun'
  BY DEF StepKinds, Stop, Lose, Keep, Move, Take, Acquire, Write, WriteLost, Peek, PutEmpty, Create,
         Copy, Unlink, Complete, Refer, Enumerate, Clear, ClearLost, Delete, DeleteLost, SweepAll,
         AbortUploads, Start, OnTo
<1>3. \A s \in Proc : s # p => FlowOf(s)'
  <2> SUFFICES ASSUME NEW s \in Proc, s # p PROVE FlowOf(s)'
    OBVIOUS
  <2>1. FlowOf(s)
    BY DEF Ground, FlowInv
  <2> QED BY <1>1, <1>2, <2>1 DEF FlowOf, Alone
<1>4. FlowOf(p)'
  <2>0. None \notin Manifests /\ None \notin Ops /\ pc[p] \in Labels /\ op[p] \in Ops \cup {None}
    BY <1>1, Names DEF ProcOK
  <2>1. CASE Quit(p)
    BY <1>1, <2>0, <2>1 DEF Quit, FlowOf, ProcOK, Idle, Ops
  <2>2. CASE Back(p)
    BY <1>1, <1>2, <2>0, <2>2 DEF Back, FlowOf, ProcOK, Idle, Same
  <2>3. ASSUME NEW l \in {"ref", "complete"}, OnTo(p, l), pc[p] \in {"put", "copy", "complete"}
        PROVE FlowOf(p)'
    BY <1>1, <2>0, <2>3 DEF OnTo, FlowOf, ProcOK, Idle
  <2>4. CASE Move(p)
    BY <1>1, <2>0, <2>4 DEF Move, FlowOf, ProcOK, Idle
  <2>5. CASE Take(p)
    <3>1. mf[p] \in Manifests /\ op[p] \in Ops \ {"Begin"}
      BY <1>1, <2>0, <2>5 DEF FlowOf, Idle, Take, ProcOK
    <3>2. PICK l \in First(op[p], mf[p]) :
             pc' = [pc EXCEPT ![p] = l] /\ mf' = [mf EXCEPT ![p] = Marked(mf[p], l)]
      BY <2>5 DEF Take
    <3>3. Marked(mf[p], l) # None
      BY <3>1, <2>0, MarkedIs
    <3>4. /\ l \in {"chunk", "freeze", "look", "abort", "release", "finish", "list", "clean", "cleanall"}
          /\ l = "chunk" => op[p] = "Append"
          /\ l = "list" => op[p] = "Clean"
          /\ l = "cleanall" => op[p] = "Prune"
      BY <3>1, FirstIs
    <3>5. pc'[p] = l /\ mf'[p] # None /\ op'[p] = op[p] /\ begun' = begun
      BY <2>5, <3>2, <3>3, <1>1 DEF Take, ProcOK
    <3> QED BY <1>1, <2>0, <3>1, <3>4, <3>5, <2>5 DEF FlowOf, Idle, Take
  <2>6. CASE Acquire(p)
    <3>1. man \in Manifests /\ \A k \in FreeNames : [man EXCEPT !.lease = k] # None
      <4>1. man \in Manifests
        BY <2>6 DEF Acquire, Ground, BucketOK
      <4>2. \A k \in FreeNames : k \in Nonce
        BY DEF FreeNames
      <4> QED BY <4>1, <4>2, <2>0, ManifestWith
    <3> QED BY <1>1, <2>0, <2>6, <3>1 DEF Acquire, FlowOf, ProcOK, Idle
  <2>7. CASE Write(p)
    BY <1>1, <2>0, <2>7 DEF Write, FlowOf, ProcOK, Idle
  <2>8. CASE Peek(p) \/ Refer(p)
    <3>1. mf[p] \in Manifests /\ mf[p] # None
      BY <1>1, <2>0, <2>8 DEF FlowOf, Idle, Peek, Refer, ProcOK
    <3>2. \A l : Marked(mf[p], l) # None
      BY <3>1, <2>0, MarkedIs
    <3> QED BY <1>1, <2>0, <2>8, <3>1, <3>2 DEF Peek, Refer, FlowOf, ProcOK, Idle
  <2>9. CASE Create(p) \/ Unlink(p)
    <3>1. mf[p] \in Manifests /\ mf[p] # None
      BY <1>1, <2>0, <2>9 DEF FlowOf, Idle, Create, Unlink, ProcOK
    <3>2. \A u \in FreeUploads \cup {None} : [mf[p] EXCEPT !.upload = u] # None
      <4>1. \A u \in FreeUploads : u \in Upload
        BY DEF FreeUploads
      <4>2. \A u \in Upload \cup {None} : [mf[p] EXCEPT !.upload = u] \in Manifests
        BY <3>1, ManifestWith
      <4> QED BY <4>1, <4>2, <2>0
    <3>3. CASE Create(p)
      BY <1>1, <2>0, <3>3, <3>1, <3>2 DEF Create, FlowOf, ProcOK, Idle
    <3>4. CASE Unlink(p)
      BY <1>1, <2>0, <3>4, <3>1, <3>2 DEF Unlink, FlowOf, ProcOK, Idle
    <3> QED BY <2>9, <3>3, <3>4
  <2>10. CASE Enumerate(p)
    BY <1>1, <2>0, <2>10 DEF Enumerate, FlowOf, ProcOK, Idle, Ops
  <2>11. CASE Clear(p)
    BY <1>1, <2>0, <2>11 DEF Clear, FlowOf, ProcOK, Idle
  <2>12. CASE AbortUploads(p)
    BY <1>1, <2>0, <2>12 DEF AbortUploads, FlowOf, ProcOK, Idle, Ops
  <2>13. CASE Start(p)
    BY <1>1, <2>0, <2>13 DEF Start, FlowOf, ProcOK, Idle, Ops
  <2> QED BY <2>1, <2>2, <2>3, <2>4, <2>5, <2>6, <2>7, <2>8, <2>9, <2>10, <2>11, <2>12, <2>13
          DEF StepKinds, Stop, Lose, Keep, WriteLost, PutEmpty, Copy, Complete, ClearLost, Delete,
              DeleteLost, SweepAll, Fall
<1> QED BY <1>3, <1>4 DEF FlowInv

\* A step of p keeps CopyInv.
LEMMA CopyKept ==
  ASSUME Ground, NEW p \in Proc, StepKinds(p)
  PROVE  CopyInv'
<1>1. Alone(p) /\ FlowOf(p) /\ CopyOf(p) /\ ProcOK
  BY StepAlone DEF Ground, FlowInv, CopyInv
<1>3. \A s \in Proc : s # p => CopyOf(s)'
  <2> SUFFICES ASSUME NEW s \in Proc, s # p PROVE CopyOf(s)'
    OBVIOUS
  <2>1. CopyOf(s)
    BY DEF Ground, CopyInv
  <2> QED BY <1>1, <2>1 DEF CopyOf, Alone
<1>4. CopyOf(p)'
  <2>0. mf[p] # None => mf[p] \in Manifests /\ mf[p].lease # None /\ mf[p].lease \in Nonce
    BY <1>1, ManifestFields DEF ProcOK, CopyOf
  <2>1. CASE Quit(p)
    BY <1>1, <2>1 DEF Quit, CopyOf, ProcOK
  <2>2. CASE Back(p)
    <3>1. mf[p] # None /\ mf'[p] = mf[p] /\ pc'[p] = "release" /\ tag'[p] \in {None, mf[p]}
      BY <1>1, <2>2 DEF Back, ProcOK, CopyOf
    <3> QED BY <3>1, <2>0 DEF CopyOf, Same, Committing
  <2>3. ASSUME NEW l \in {"ref", "complete"}, OnTo(p, l), pc[p] \in {"put", "copy", "complete"},
               pc[p] = "copy" \/ l = "ref"
        PROVE CopyOf(p)'
    <3>1. /\ mf'[p] = mf[p] /\ tag'[p] = mf[p] /\ pc'[p] \in {l, "release"} /\ mf[p] # None
          /\ mf[p].state = "committing"
          /\ pc[p] = "copy" => mf[p].upload # None
      BY <1>1, <2>3 DEF OnTo, ProcOK, CopyOf, FlowOf, Idle, Same, Committing
    <3> QED BY <3>1, <2>0, <2>3 DEF CopyOf, Same, Committing
  <2>4. CASE Move(p)
    <3>1. /\ mf[p] # None /\ mf'[p] = mf[p] /\ tag'[p] = mf[p]
          /\ pc'[p] \in {"look", "copy", "release", "finish"}
          /\ pc'[p] = "look" => pc[p] = "freeze"
          /\ pc'[p] = "copy" => pc[p] = "record"
      BY <1>1, <2>4 DEF Move, ProcOK, FlowOf, Idle
    <3>2. pc[p] = "freeze" => mf[p].state = "committing"
      BY <1>1, <3>1, <2>0 DEF CopyOf, Frozen, ProcOK, Manifests
    <3>3. pc[p] = "record" => mf[p].state = "committing" /\ mf[p].upload # None
      BY <1>1, <3>1, <2>0 DEF CopyOf, Committing
    <3> QED BY <3>1, <3>2, <3>3, <2>0 DEF CopyOf, Same, Committing
  <2>5. CASE Take(p)
    <3>1. mf[p] # None /\ op[p] \in Ops \ {"Begin"}
      BY <1>1, <2>5 DEF FlowOf, Idle, Take, ProcOK
    <3>2. PICK l \in First(op[p], mf[p]) :
             pc' = [pc EXCEPT ![p] = l] /\ mf' = [mf EXCEPT ![p] = Marked(mf[p], l)]
      BY <2>5 DEF Take
    <3>3. pc'[p] = l /\ mf'[p] = Marked(mf[p], l) /\ tag'[p] = mf[p]
      BY <2>5, <3>2, <1>1 DEF Take, ProcOK
    <3>4. /\ l \in {"chunk", "freeze", "look", "abort", "release", "finish", "list", "clean", "cleanall"}
          /\ l = "chunk" => mf[p].state = "active" /\ Len(mf[p].sum) < MaxLen
          /\ l = "freeze" => mf[p].state = "active"
          /\ l = "look" => mf[p].state = "committing"
          /\ l = "abort" => mf[p].state \in {"active", "aborted"}
          /\ l \in {"list", "clean", "cleanall"} => mf[p].state # "committing"
      BY <2>0, <3>1, FirstIs
    <3>5. /\ Marked(mf[p], l).lease = mf[p].lease
          /\ l \notin {"freeze", "receipt", "abort"} => Marked(mf[p], l) = mf[p]
          /\ l = "freeze" => Marked(mf[p], l) = [mf[p] EXCEPT !.state = "committing"]
          /\ l = "abort" => Marked(mf[p], l) = [mf[p] EXCEPT !.state = "aborted"]
      BY <2>0, <3>1, MarkedIs
    <3>6. CASE l \notin {"freeze", "abort"}
      BY <3>1, <3>3, <3>4, <3>5, <3>6, <2>0 DEF CopyOf, Same, Committing
    <3>7. CASE l = "freeze"
      BY <3>1, <3>3, <3>4, <3>5, <3>7, <2>0 DEF CopyOf, Same, Committing, Frozen
    <3>8. CASE l = "abort"
      BY <3>1, <3>3, <3>4, <3>5, <3>8, <2>0 DEF CopyOf, Same, Committing
    <3> QED BY <3>6, <3>7, <3>8
  <2>6. CASE Acquire(p)
    <3>1. man \in Manifests
      BY <2>6 DEF Acquire, Ground, BucketOK
    <3>2. PICK k \in FreeNames : mf' = [mf EXCEPT ![p] = [man EXCEPT !.lease = k]]
      BY <2>6 DEF Acquire
    <3>3. k \in Nonce /\ k # None
      BY Names DEF FreeNames
    <3>4. man.lease # k
      <4>1. man \in Records
        BY <3>1, Names, RecordIff
      <4> QED BY <4>1 DEF FreeNames
    <3>5. pc'[p] = "lease" /\ mf'[p] = [man EXCEPT !.lease = k] /\ tag'[p] = man
      BY <2>6, <3>2, <1>1 DEF Acquire, ProcOK
    <3>6. mf'[p].lease = k
      BY <3>5, <3>1 DEF Manifests
    <3>7. Relabel(man, mf'[p])
      BY <3>5, <3>6 DEF Relabel
    <3>8. man # None
      BY <3>1, Names
    <3> QED BY <3>3, <3>4, <3>5, <3>6, <3>7, <3>8 DEF CopyOf, Same, Committing
  <2>7. CASE Write(p)
    <3>1. mf[p] # None /\ mf'[p] = mf[p] /\ tag'[p] = tag[p] /\ pc'[p] = "append" /\ pc[p] = "chunk"
      BY <1>1, <2>7 DEF Write, FlowOf, ProcOK, Idle
    <3> QED BY <1>1, <2>0, <3>1 DEF CopyOf, Same, Committing
  <2>8. CASE (Peek(p) \/ Refer(p)) /\ pc'[p] = "receipt"
    <3>1. /\ mf[p] # None /\ pc[p] \in {"look", "ref"} /\ tag'[p] = tag[p]
          /\ mf'[p] = Marked(mf[p], "receipt")
      BY <1>1, <2>8 DEF FlowOf, Idle, Peek, Refer, ProcOK
    <3>2. tag[p] = mf[p] /\ mf[p].state = "committing"
      BY <1>1, <3>1 DEF CopyOf, Same, Committing
    <3>3. mf'[p] = [mf[p] EXCEPT !.state = "committed"] /\ mf'[p].lease = mf[p].lease
      BY <2>0, <3>1, MarkedIs
    <3>4. Received(tag[p], mf'[p])
      <4>1. [mf[p] EXCEPT !.state = "committed", !.lease = mf[p].lease]
             = [mf[p] EXCEPT !.state = "committed"]
        BY <2>0, <3>1 DEF Manifests
      <4> QED BY <2>0, <3>1, <3>2, <3>3, <4>1 DEF Received
    <3> QED BY <2>0, <2>8, <3>1, <3>2, <3>3, <3>4 DEF CopyOf, Same, Committing
  <2>9. CASE (Peek(p) \/ Refer(p)) /\ pc'[p] # "receipt"
    <3>1. /\ mf[p] # None /\ pc[p] \in {"look", "ref"} /\ tag'[p] = tag[p]
          /\ mf'[p] = mf[p] /\ pc'[p] \in {"ref", "put", "create", "copy", "release"}
          /\ pc'[p] = "copy" => mf[p].upload # None
          /\ pc'[p] = "put" => mf[p].sum = <<>>
      BY <1>1, <2>9, <2>0, MarkedIs DEF FlowOf, Idle, Peek, Refer, ProcOK
    <3>2. tag[p] = mf[p] /\ mf[p].state = "committing"
      BY <1>1, <3>1 DEF CopyOf, Same, Committing
    <3> QED BY <2>0, <3>1, <3>2 DEF CopyOf, Same, Committing
  <2>10. CASE Unlink(p) \/ Create(p)
    <3>1. mf[p] # None /\ tag'[p] = mf[p] /\ mf[p].state = "committing" /\ mf[p] \in Manifests
      BY <1>1, <2>10 DEF FlowOf, Idle, Create, Unlink, ProcOK, CopyOf, Same, Committing
    <3>2. \/ mf'[p] = mf[p] /\ pc'[p] = "release"
          \/ \E u \in Upload \cup {None} :
                /\ mf'[p] = [mf[p] EXCEPT !.upload = u]
                /\ pc'[p] = "forget" \/ (pc'[p] = "record" /\ u # None)
      BY <1>1, <2>10, Names DEF Create, Unlink, FreeUploads, ProcOK
    <3>3. CASE mf'[p] = mf[p] /\ pc'[p] = "release"
      BY <2>0, <3>1, <3>3 DEF CopyOf, Same, Committing
    <3>4. ASSUME NEW u \in Upload \cup {None}, mf'[p] = [mf[p] EXCEPT !.upload = u],
                 pc'[p] = "forget" \/ (pc'[p] = "record" /\ u # None)
          PROVE CopyOf(p)'
      <4>1. /\ mf'[p].upload = u /\ mf'[p].lease = mf[p].lease /\ mf'[p].state = "committing"
            /\ Noted(mf[p], mf'[p])
        BY <2>0, <3>1, <3>4 DEF Manifests, Noted
      <4> QED BY <2>0, <3>1, <3>4, <4>1 DEF CopyOf, Same, Committing
    <3> QED BY <3>2, <3>3, <3>4
  <2>11. CASE Enumerate(p) /\ op[p] = "Clean"
    <3>1. /\ mf[p] # None /\ mf'[p] = mf[p] /\ tag'[p] = mf[p] /\ pc[p] = "list" /\ pc'[p] = "clean"
      BY <1>1, <2>11 DEF Enumerate, FlowOf, ProcOK, Idle, CopyOf, Same
    <3>2. mf[p].state # "committing"
      BY <1>1, <3>1 DEF CopyOf
    <3> QED BY <2>0, <3>1, <3>2 DEF CopyOf, Same, Committing
  <2>12. CASE (Enumerate(p) /\ op[p] = "Prune") \/ AbortUploads(p) \/ Start(p)
    <3>1. mf'[p] = None
      BY <1>1, <2>12 DEF Enumerate, AbortUploads, Start, FlowOf, Idle, ProcOK
    <3> QED BY <3>1 DEF CopyOf
  <2>13. CASE Clear(p)
    <3>1. /\ mf[p] # None /\ mf'[p] = mf[p] /\ tag'[p] = mf[p] /\ mf[p].state # "committing"
          /\ pc'[p] \in {"delete", "release"}
      BY <1>1, <2>13 DEF Clear, FlowOf, ProcOK, Idle, CopyOf, Same
    <3> QED BY <2>0, <3>1 DEF CopyOf, Same, Committing
  <2>14. Enumerate(p) => op[p] \in {"Clean", "Prune"}
    BY DEF Enumerate
  <2> QED BY <2>1, <2>2, <2>3, <2>4, <2>5, <2>6, <2>7, <2>8, <2>9, <2>10, <2>11, <2>12, <2>13, <2>14
          DEF StepKinds, Stop, Lose, Keep, WriteLost, PutEmpty, Copy, Complete, ClearLost, Delete,
              DeleteLost, SweepAll, Fall
<1> QED BY <1>3, <1>4 DEF CopyInv

-----------------------------------------------------------------------------
(* Requests, and where records come from.                                  *)

\* The places a record is to be found.
RecordForm(r) ==
    /\ r # None
    /\ \/ r = man
       \/ \E p \in Proc : r = mf[p] \/ r = tag[p]
       \/ \E q \in Saves : r = q.next \/ r = q.tag
       \/ \E q \in Deletes : r = q.tag

\* Before a step,
LEMMA RecordsNow == \A r : r \in Records <=> RecordForm(r)
  BY RecordIff DEF RecordForm

\* and after it.
LEMMA RecordsNext == \A r : r \in Records' <=> RecordForm(r)'
<1>1. (\A r : r \in Records <=> RecordForm(r))'
  BY RecordsNow, PTL
<1> QED BY <1>1

\* What a save makes, field by field.
LEMMA DerivedFields ==
  ASSUME NEW t \in Manifests, NEW n \in Manifests
  PROVE  /\ Relabel(t, n) => n.state = t.state /\ n.sum = t.sum /\ n.chunks = t.chunks
                             /\ n.upload = t.upload
         /\ Frozen(t, n) => n.state = "committing" /\ n.sum = t.sum /\ n.chunks = t.chunks
                             /\ n.upload = t.upload /\ n.lease = t.lease /\ t.state = "active"
         /\ Noted(t, n) => n.state = "committing" /\ n.sum = t.sum /\ n.chunks = t.chunks
                             /\ n.lease = t.lease /\ t.state = "committing"
         /\ Received(t, n) => n.state = "committed" /\ n.sum = t.sum /\ n.chunks = t.chunks
                             /\ n.upload = t.upload /\ t.state = "committing"
         /\ Dropped(t, n) => n.state = "aborted" /\ n.sum = t.sum /\ n.chunks = t.chunks
                             /\ n.upload = t.upload /\ n.lease = None
                             /\ t.state \in {"active", "aborted"}
         /\ Extended(t, n) => n.state = "active" /\ t.state = "active" /\ n.lease = None
                             /\ t.lease # None /\ n.upload = t.upload /\ n.sum # t.sum
<1>1. Relabel(t, n) => n.state = t.state /\ n.sum = t.sum /\ n.chunks = t.chunks
                             /\ n.upload = t.upload
  BY DEF Relabel, Manifests
<1>2. Frozen(t, n) => n.state = "committing" /\ n.sum = t.sum /\ n.chunks = t.chunks
                             /\ n.upload = t.upload /\ n.lease = t.lease /\ t.state = "active"
  BY DEF Frozen, Manifests
<1>3. Noted(t, n) => n.state = "committing" /\ n.sum = t.sum /\ n.chunks = t.chunks
                             /\ n.lease = t.lease /\ t.state = "committing"
  BY DEF Noted, Manifests
<1>4. Received(t, n) => n.state = "committed" /\ n.sum = t.sum /\ n.chunks = t.chunks
                             /\ n.upload = t.upload /\ t.state = "committing"
  BY DEF Received, Manifests
<1>5. Dropped(t, n) => n.state = "aborted" /\ n.sum = t.sum /\ n.chunks = t.chunks
                             /\ n.upload = t.upload /\ n.lease = None
                             /\ t.state \in {"active", "aborted"}
  BY DEF Dropped, Manifests
<1>6. ASSUME Extended(t, n)
      PROVE  n.state = "active" /\ t.state = "active" /\ n.lease = None
             /\ t.lease # None /\ n.upload = t.upload /\ n.sum # t.sum
  <2>1. PICK p \in Proc : n = Appended(t, p)
    BY <1>6 DEF Extended
  <2>2. n.sum = Append(t.sum, p) /\ n.state = t.state /\ n.lease = None /\ n.upload = t.upload
    BY <2>1 DEF Appended, Manifests
  <2>3. t.sum \in Seq(Proc)
    BY ManifestFields
  <2>4. Len(Append(t.sum, p)) = Len(t.sum) + 1 /\ Len(t.sum) \in Nat
    BY <2>3, AppendProperties
  <2>5. n.sum # t.sum
    BY <2>2, <2>4
  <2> QED BY <1>6, <2>2, <2>5 DEF Extended
<1> QED BY <1>1, <1>2, <1>3, <1>4, <1>5, <1>6

\* What p is about to save, and the manifest it is conditional on.
Sent(p, n, rn) ==
    /\ n \in Manifests /\ rn \in BOOLEAN
    /\ pc[p] # "begin" => mf[p] # None /\ mf[p] \in Manifests /\ n.lease \in {None, mf[p].lease}
    /\ \/ pc[p] = "begin" /\ tag[p] = None /\ n = FirstManifest
       \/ pc[p] = "lease" /\ tag[p] # None /\ Relabel(tag[p], n) /\ n = mf[p] /\ rn = FALSE
          /\ n.lease # tag[p].lease
       \/ pc[p] \in {"release", "finish"} /\ tag[p] \in {None, mf[p]} /\ n.lease = None
          /\ Relabel(mf[p], n) /\ rn = FALSE
       \/ pc[p] = "append" /\ tag[p] = mf[p] /\ Extended(mf[p], n) /\ n = Appended(mf[p], p)
          /\ p \notin late
       \/ pc[p] = "freeze" /\ tag[p] # None /\ Frozen(tag[p], n) /\ n = mf[p] /\ rn = FALSE
          /\ p \notin late
       \/ pc[p] \in {"record", "forget"} /\ tag[p] # None /\ Noted(tag[p], n) /\ n = mf[p]
          /\ p \notin late
       \/ pc[p] = "receipt" /\ tag[p] # None /\ Received(tag[p], n) /\ p \notin late
          /\ n.sum = mf[p].sum /\ n.chunks = mf[p].chunks /\ n.upload = mf[p].upload
          /\ mf[p].state = "committed"
       \/ pc[p] = "abort" /\ tag[p] # None /\ Dropped(tag[p], n) /\ p \notin late

\* That is what it sends.
LEMMA SendingIs ==
  ASSUME Ground, NEW p \in Proc, NEW n, NEW rn, Sending(p, n, rn)
  PROVE  Sent(p, n, rn)
<1>1. /\ n \in Manifests /\ rn \in BOOLEAN
      /\ pc[p] # "begin" => mf[p] # None
  BY SendType
<1>2. FlowOf(p) /\ CopyOf(p) /\ ProcOK
  BY DEF Ground, FlowInv, CopyInv
<1>3. CASE pc[p] = "begin"
  BY <1>1, <1>2, <1>3 DEF Sending, Sent, FlowOf, Idle
<1>4. CASE pc[p] # "begin"
  <2>1. mf[p] # None /\ mf[p] \in Manifests /\ mf[p].lease # None
    BY <1>1, <1>2, <1>4 DEF ProcOK, CopyOf
  <2>2. tag[p] # None => tag[p] \in Manifests
    BY <1>2 DEF ProcOK
  <2>3. [mf[p] EXCEPT !.lease = None].lease = None
    BY <2>1 DEF Manifests
  <2>4. CASE pc[p] = "lease"
    BY <1>1, <1>2, <2>1, <2>4 DEF Sending, Sent, CopyOf
  <2>5. CASE pc[p] \in {"release", "finish"}
    <3>1. tag[p] \in {None, mf[p]}
      BY <1>2, <2>1, <2>5 DEF CopyOf, Same
    <3> QED BY <1>1, <2>1, <2>3, <2>5, <3>1 DEF Sending, Sent, Relabel
  <2>6. CASE pc[p] = "append"
    <3>1. tag[p] = mf[p] /\ mf[p].state = "active" /\ Len(mf[p].sum) < MaxLen
      BY <1>2, <2>1, <2>6 DEF CopyOf, Same
    <3>2. n = Appended(mf[p], p) /\ p \notin late /\ n.lease = None
      BY <2>6, <2>1 DEF Sending, Appended, Manifests
    <3> QED BY <1>1, <2>1, <2>6, <3>1, <3>2 DEF Sent, Extended
  <2>7. CASE pc[p] \in {"freeze", "record", "forget"}
    BY <1>1, <1>2, <2>1, <2>7 DEF Sending, Sent, CopyOf
  <2>8. CASE pc[p] = "receipt"
    <3>1. tag[p] # None /\ Received(tag[p], mf[p]) /\ p \notin late
          /\ n \in {mf[p], [mf[p] EXCEPT !.lease = None]}
      BY <1>2, <2>1, <2>8 DEF CopyOf, Sending
    <3>2. mf[p].state = "committed" /\ mf[p].sum = tag[p].sum /\ mf[p].chunks = tag[p].chunks
          /\ mf[p].upload = tag[p].upload
      BY <2>1, <2>2, <3>1, DerivedFields
    <3>3. n.sum = mf[p].sum /\ n.chunks = mf[p].chunks /\ n.upload = mf[p].upload
          /\ n.lease \in {None, mf[p].lease} /\ n.state = "committed"
      BY <2>1, <3>1, <3>2 DEF Manifests
    <3>4. Received(tag[p], n)
      <4>1. [tag[p] EXCEPT !.state = "committed", !.lease = n.lease] \in Manifests
        BY <2>2, <3>1, <1>1, ManifestFields DEF Manifests
      <4>2. n = [tag[p] EXCEPT !.state = "committed", !.lease = n.lease]
        <5> DEFINE e == [tag[p] EXCEPT !.state = "committed", !.lease = n.lease]
        <5>1. e.state = n.state /\ e.sum = n.sum /\ e.chunks = n.chunks /\ e.lease = n.lease
              /\ e.upload = n.upload
          BY <2>2, <3>1, <3>2, <3>3 DEF Manifests
        <5> HIDE DEF e
        <5>2. e = n
          BY <1>1, <4>1, <5>1, ManifestEqual DEF e
        <5> QED BY <5>2 DEF e
      <4>3. n.lease \in {None, tag[p].lease}
        BY <3>1, <3>3 DEF Received
      <4> QED BY <3>1, <4>2, <4>3 DEF Received
    <3> QED BY <1>1, <2>1, <2>8, <3>1, <3>2, <3>3, <3>4 DEF Sent
  <2>9. CASE pc[p] = "abort"
    <3>1. /\ tag[p] # None /\ tag[p].lease = mf[p].lease /\ tag[p].state \in {"active", "aborted"}
          /\ mf[p] = [tag[p] EXCEPT !.state = "aborted"] /\ p \notin late
          /\ n = [mf[p] EXCEPT !.lease = None]
      BY <1>2, <2>1, <2>9 DEF CopyOf, Sending
    <3>2. n = [tag[p] EXCEPT !.state = "aborted", !.lease = None]
      BY <2>2, <3>1 DEF Manifests
    <3> QED BY <1>1, <2>1, <2>3, <2>9, <3>1, <3>2 DEF Sent, Dropped
  <2> QED BY <1>4, <2>4, <2>5, <2>6, <2>7, <2>8, <2>9 DEF Sending
<1> QED BY <1>3, <1>4

\* Fewer requests keep EdgeInv.
LEMMA EdgeLate ==
  ASSUME NetOK, EdgeInv, net' \subseteq net
  PROVE  EdgeInv'
<1>1. Saves' \subseteq Saves
  BY DEF Saves
<1> QED BY <1>1 DEF EdgeInv

\* A step of p keeps it.
LEMMA EdgeKept ==
  ASSUME Ground, EdgeInv, NEW p \in Proc, StepKinds(p)
  PROVE  EdgeInv'
<1>1. CASE Saves' \subseteq Saves
  BY <1>1 DEF EdgeInv
<1>2. CASE Lose(p)
  <2>1. PICK n \in Manifests, rn \in BOOLEAN :
           Sending(p, n, rn) /\ net' = net \cup {SaveRequest(p, n, rn)}
    BY <1>2 DEF Lose
  <2>2. Sent(p, n, rn)
    BY <2>1, SendingIs
  <2>3. /\ tag[p] = None => n.lease = None
        /\ tag[p] # None => Derived(tag[p], n)
        /\ tag[p] # None /\ tag[p].state = "active" /\ rn => Dropped(tag[p], n) \/ Extended(tag[p], n)
    <3>1. FirstManifest.lease = None
      BY DEF FirstManifest
    <3>2. tag[p] # None => tag[p] \in Manifests
      BY DEF Ground, ProcOK
    <3>3. tag[p] # None => /\ Noted(tag[p], n) => tag[p].state = "committing"
                           /\ Received(tag[p], n) => tag[p].state = "committing"
      BY DEF Noted, Received
    <3> QED BY <2>2, <3>1, <3>3 DEF Sent, Derived
  <2>4. \A q \in Saves' : q \in Saves \/ (q.next = n /\ q.tag = tag[p] /\ q.renew = rn)
    BY <2>1 DEF Saves, SaveRequest
  <2> QED BY <2>3, <2>4 DEF EdgeInv
<1>3. WriteLost(p) \/ ClearLost(p) \/ DeleteLost(p) \/ SweepAll(p) => Saves' \subseteq Saves
  <2>1. ASSUME NEW r, r.to # "save", net' = net \cup {r} PROVE Saves' \subseteq Saves
    BY <2>1 DEF Saves
  <2>2. CASE WriteLost(p)
    BY <2>1, <2>2 DEF WriteLost
  <2>3. CASE ClearLost(p)
    BY <2>1, <2>3 DEF ClearLost
  <2>4. CASE DeleteLost(p)
    BY <2>1, <2>4 DEF DeleteLost
  <2>5. CASE SweepAll(p)
    BY <2>1, <2>5 DEF SweepAll, Saves
  <2> QED BY <2>2, <2>3, <2>4, <2>5
<1>4. net' = net => Saves' \subseteq Saves
  BY DEF Saves
<1>5. StepKinds(p) => net' = net \/ Lose(p) \/ WriteLost(p) \/ ClearLost(p) \/ DeleteLost(p) \/ SweepAll(p)
  BY DEF StepKinds, Stop, Keep, Move, Take, Acquire, Write, Peek, PutEmpty, Create,
         Copy, Unlink, Complete, Refer, Enumerate, Clear, Delete, AbortUploads, Start, OnTo
<1> QED BY <1>1, <1>2, <1>3, <1>4, <1>5

\* What the manifest x that a step of p adds to the records is made of: of a
\* record m, with the same bytes; with a new upload; or longer.
Alike(m, x) == x.sum = m.sum /\ x.chunks = m.chunks
Kin(m, x) ==
    /\ m \in Records /\ Alike(m, x)
    /\ x.upload \in {None, m.upload}
    /\ x.upload # None => x.state \in {"committing", "committed"}
    /\ x.state = "committed" => m.state = "committed" \/ (x.sum \in ref' /\ x.sum \notin erased')
Fresh(p, x) ==
    /\ Create(p) /\ x.upload \in FreeUploads /\ x.state = "committing" /\ Alike(mf[p], x)
    /\ mf[p] \in Records
Longer(p, x) ==
    /\ pc[p] = "append" /\ p \notin late /\ x = Appended(mf[p], p)
    /\ mf[p] \in Records /\ obj' = obj

\* A step adds at most one manifest of these, or the first one.
Grown(p, x) ==
    /\ x \in Manifests \/ x \in Records
    /\ \/ x \in Records
       \/ x = FirstManifest
       \/ \E m \in Records : Kin(m, x)
       \/ Fresh(p, x)
       \/ Longer(p, x)

\* A step that makes at most the manifest x.
LEMMA RecordsWith ==
  ASSUME NEW p \in Proc, NEW x, Alone(p),
         {man', mf'[p], tag'[p]} \subseteq Records \cup {None, x},
         \A q \in Saves' : q \in Saves \/ {q.next, q.tag} \subseteq Records \cup {None, x},
         \A q \in Deletes' : q \in Deletes \/ q.tag \in Records \cup {None, x}
  PROVE  Records' \subseteq Records \cup {x}
<1>1. \A s \in Proc : {mf'[s], tag'[s]} \subseteq Records \cup {None, x}
  BY RecordIff DEF Alone
<1>2. \A q \in Saves' : {q.next, q.tag} \subseteq Records \cup {None, x}
  BY RecordIff
<1>3. \A q \in Deletes' : q.tag \in Records \cup {None, x}
  BY RecordIff
<1> QED BY <1>1, <1>2, <1>3, RecordsNext DEF RecordForm

\* Every step of p does.
LEMMA Grow ==
  ASSUME Ground, NEW p \in Proc, StepKinds(p)
  PROVE  \E x : Grown(p, x) /\ Records' \subseteq Records \cup {x}
<1>1. Alone(p) /\ FlowOf(p) /\ CopyOf(p) /\ ProcOK /\ ShapeInv
  BY StepAlone DEF Ground, FlowInv, CopyInv
<1>2. /\ mf[p] # None => mf[p] \in Records /\ mf[p] \in Manifests /\ ShapeOf(mf[p])
      /\ tag[p] # None => tag[p] \in Records
      /\ man # None => man \in Records /\ man \in Manifests /\ ShapeOf(man)
      /\ {mf[p], tag[p], man} \subseteq Records \cup {None}
  BY CopyRecords DEF Ground
<1>3. ASSUME NEW n, NEW rn, Sending(p, n, rn)
      PROVE  /\ n \in Manifests
             /\ n \in Records \/ n = FirstManifest \/ (\E m \in Records : Kin(m, n))
                \/ (pc[p] = "append" /\ p \notin late /\ n = Appended(mf[p], p))
  <2>1. Sent(p, n, rn)
    BY <1>3, SendingIs
  <2>2. ASSUME mf[p] # None, Relabel(mf[p], n) PROVE Kin(mf[p], n)
    <3>1. n.state = mf[p].state /\ n.sum = mf[p].sum /\ n.chunks = mf[p].chunks
          /\ n.upload = mf[p].upload
      BY <2>1, <2>2, <1>2, DerivedFields DEF Sent
    <3> QED BY <3>1, <2>2, <1>2 DEF Kin, Alike, ShapeOf
  <2>3. ASSUME tag[p] # None, Dropped(tag[p], n) PROVE Kin(tag[p], n)
    <3>1. tag[p] \in Manifests /\ ShapeOf(tag[p])
      BY <2>3, CopyRecords DEF Ground
    <3>2. n.state = "aborted" /\ n.sum = tag[p].sum /\ n.chunks = tag[p].chunks
          /\ n.upload = tag[p].upload /\ tag[p].state \in {"active", "aborted"}
      BY <2>1, <2>3, <3>1, DerivedFields DEF Sent
    <3> QED BY <3>1, <3>2, <2>3, <1>2 DEF Kin, Alike, ShapeOf
  <2>4. ASSUME pc[p] = "receipt" PROVE Kin(mf[p], n)
    <3>1. mf[p] # None /\ n.sum = mf[p].sum /\ n.chunks = mf[p].chunks /\ n.upload = mf[p].upload
          /\ mf[p].state = "committed" /\ tag[p] # None /\ Received(tag[p], n)
      BY <2>1, <2>4 DEF Sent
    <3>2. n.state = "committed"
      BY <2>1, <3>1, <1>1, DerivedFields DEF Sent, ProcOK
    <3> QED BY <3>1, <3>2, <1>2 DEF Kin, Alike
  <2> QED BY <2>1, <2>2, <2>3, <2>4, <1>2 DEF Sent
<1>4. CASE Lose(p)
  <2>1. PICK n \in Manifests, rn \in BOOLEAN :
           Sending(p, n, rn) /\ net' = net \cup {SaveRequest(p, n, rn)}
    BY <1>4 DEF Lose
  <2>2. Grown(p, n)
    <3>1. pc[p] = "append" => mf[p] \in Records
      BY <1>1, <1>2 DEF FlowOf, Idle
    <3> QED BY <2>1, <3>1, <1>3, <1>4 DEF Grown, Longer, Lose
  <2>3. \A q \in Saves' : q \in Saves \/ {q.next, q.tag} \subseteq Records \cup {None, n}
    <3>1. \A q \in Saves' : q \in Saves \/ (q.next = n /\ q.tag = tag[p])
      BY <2>1 DEF Saves, SaveRequest
    <3> QED BY <3>1, <1>2
  <2>4. Deletes' \subseteq Deletes
    BY <2>1 DEF Deletes, SaveRequest
  <2>5. {man', mf'[p], tag'[p]} \subseteq Records \cup {None, n}
    BY <1>1, <1>2, <1>4 DEF Lose, Fall, Quit, Back, ProcOK
  <2>6. Records' \subseteq Records \cup {n}
    BY <1>1, <2>3, <2>4, <2>5, RecordsWith
  <2> QED BY <2>2, <2>6
<1>5. CASE Keep(p)
  <2>1. PICK n \in Manifests, rn \in BOOLEAN : Sending(p, n, rn) /\ man' = n
    BY <1>5 DEF Keep
  <2>2. Grown(p, n)
    <3>1. pc[p] = "append" => mf[p] \in Records
      BY <1>1, <1>2 DEF FlowOf, Idle
    <3> QED BY <2>1, <3>1, <1>3, <1>5 DEF Grown, Longer, Keep
  <2>3. Saves' = Saves /\ Deletes' = Deletes
    BY <1>5 DEF Keep, Saves, Deletes
  <2>4. {man', mf'[p], tag'[p]} \subseteq Records \cup {None, n}
    BY <1>1, <1>2, <1>5, <2>1 DEF Keep, Quit, ProcOK
  <2>5. Records' \subseteq Records \cup {n}
    BY <1>1, <2>3, <2>4, RecordsWith
  <2> QED BY <2>2, <2>5

\* The steps that make a new copy.
<1>6. ASSUME net' = net, man' \in {man, mf[p], None}, tag'[p] \in {None, tag[p], mf[p], man},
             Grown(p, mf'[p]) \/ mf'[p] = None
      PROVE  \E x : Grown(p, x) /\ Records' \subseteq Records \cup {x}
  <2>1. Saves' = Saves /\ Deletes' = Deletes
    BY <1>6 DEF Saves, Deletes
  <2>2. {man', mf'[p], tag'[p]} \subseteq Records \cup {None, mf'[p]}
    BY <1>2, <1>6
  <2>3. Records' \subseteq Records \cup {mf'[p]}
    BY <1>1, <2>1, <2>2, RecordsWith
  <2>4. CASE mf'[p] = None
    <3>1. Records' \subseteq Records
      BY <2>3, <2>4, RecordsNext DEF RecordForm
    <3>2. \A x \in Records : Grown(p, x)
      BY DEF Grown
    <3>3. CASE Records = {}
      BY <3>1, <3>3, EmptyIn DEF Grown
    <3> QED BY <3>1, <3>2, <3>3
  <2> QED BY <1>6, <2>3, <2>4
<1>7. ASSUME NEW m \in Records, NEW x \in Manifests, Kin(m, x) PROVE Grown(p, x)
  BY <1>7 DEF Grown
<1>8. CASE Move(p)
  <2>1. mf[p] # None /\ mf'[p] = mf[p]
    BY <1>1, <1>8 DEF Move, FlowOf, Idle, ProcOK
  <2>2. Grown(p, mf'[p])
    BY <2>1, <1>2 DEF Grown
  <2>3. net' = net /\ man' \in {man, mf[p], None} /\ tag'[p] \in {None, tag[p], mf[p], man}
    BY <1>1, <1>8 DEF Move, ProcOK
  <2> QED BY <1>6, <2>2, <2>3
<1>9. CASE Take(p)
  <2>1. mf[p] # None /\ op[p] \in Ops \ {"Begin"}
    BY <1>1, <1>9 DEF FlowOf, Idle, Take, ProcOK
  <2>2. PICK l \in First(op[p], mf[p]) : mf' = [mf EXCEPT ![p] = Marked(mf[p], l)]
    BY <1>9 DEF Take
  <2>3. mf'[p] = Marked(mf[p], l)
    BY <2>2, <1>1 DEF ProcOK
  <2>4. /\ l # "receipt" /\ (l = "abort" => mf[p].state \in {"active", "aborted"})
        /\ l = "freeze" => mf[p].state = "active"
    BY <1>2, <2>1, FirstIs
  <2>5. Kin(mf[p], mf'[p]) /\ mf'[p] \in Manifests
    BY <1>2, <2>1, <2>3, <2>4, MarkedIs DEF Kin, Alike, ShapeOf
  <2>6. net' = net /\ man' \in {man, mf[p], None} /\ tag'[p] \in {None, tag[p], mf[p], man}
    BY <1>1, <1>9 DEF Take, ProcOK
  <2> QED BY <1>2, <1>6, <1>7, <2>1, <2>5, <2>6
<1>10. CASE Acquire(p)
  <2>1. man # None
    BY <1>10 DEF Acquire
  <2>2. PICK k \in FreeNames : mf' = [mf EXCEPT ![p] = [man EXCEPT !.lease = k]]
    BY <1>10 DEF Acquire
  <2>3. mf'[p] = [man EXCEPT !.lease = k] /\ k \in Nonce
    BY <2>2, <1>1 DEF ProcOK, FreeNames
  <2>4. mf'[p] \in Manifests
    <3>1. \A l \in Nonce \cup {None} : [man EXCEPT !.lease = l] \in Manifests
      BY <1>2, <2>1, ManifestWith
    <3> QED BY <2>3, <3>1
  <2>5. mf'[p].state = man.state /\ mf'[p].sum = man.sum /\ mf'[p].chunks = man.chunks
        /\ mf'[p].upload = man.upload
    BY <1>2, <2>1, <2>3 DEF Manifests
  <2>6. Kin(man, mf'[p])
    BY <1>2, <2>1, <2>5 DEF Kin, Alike, ShapeOf
  <2>7. net' = net /\ man' \in {man, mf[p], None} /\ tag'[p] \in {None, tag[p], mf[p], man}
    BY <1>1, <1>10 DEF Acquire, ProcOK
  <2> QED BY <1>2, <1>6, <1>7, <2>1, <2>4, <2>6, <2>7
<1>11. CASE Peek(p) \/ Refer(p)
  <2>1. mf[p] # None /\ mf[p].state = "committing"
    BY <1>1, <1>11 DEF FlowOf, Idle, Peek, Refer, CopyOf, Committing
  <2>2. /\ net' = net /\ man' \in {man, mf[p], None} /\ tag'[p] \in {None, tag[p], mf[p], man}
        /\ \/ mf'[p] = mf[p]
           \/ /\ mf'[p] = Marked(mf[p], "receipt")
              /\ mf[p].sum \in ref' /\ mf[p].sum \notin erased'
    BY <1>1, <1>2, <1>11, <2>1, MarkedIs DEF Peek, Refer, ProcOK
  <2>3. CASE mf'[p] = mf[p]
    BY <1>2, <1>6, <2>1, <2>2, <2>3 DEF Grown
  <2>4. CASE mf'[p] # mf[p]
    <3>1. Kin(mf[p], mf'[p]) /\ mf'[p] \in Manifests
      BY <1>2, <2>1, <2>2, <2>4, MarkedIs DEF Kin, Alike
    <3> QED BY <1>2, <1>6, <1>7, <2>1, <2>2, <3>1
  <2> QED BY <2>3, <2>4
<1>12. CASE Create(p) \/ Unlink(p)
  <2>1. mf[p] # None /\ mf[p].state = "committing"
    BY <1>1, <1>12 DEF FlowOf, Idle, Create, Unlink, CopyOf, Committing
  <2>2. /\ net' = net /\ man' \in {man, mf[p], None} /\ tag'[p] \in {None, tag[p], mf[p], man}
        /\ \/ mf'[p] = mf[p]
           \/ Unlink(p) /\ mf'[p] = [mf[p] EXCEPT !.upload = None]
           \/ Create(p) /\ \E u \in FreeUploads : mf'[p] = [mf[p] EXCEPT !.upload = u]
    BY <1>1, <1>2, <1>12, <2>1 DEF Create, Unlink, ProcOK
  <2>3. CASE mf'[p] = mf[p]
    BY <1>2, <1>6, <2>1, <2>2, <2>3 DEF Grown
  <2>4. CASE mf'[p] = [mf[p] EXCEPT !.upload = None]
    <3>1. mf'[p] \in Manifests
      <4>1. \A l \in Upload \cup {None} : [mf[p] EXCEPT !.upload = l] \in Manifests
        BY <1>2, <2>1, ManifestWith
      <4> QED BY <2>4, <4>1
    <3>2. Kin(mf[p], mf'[p])
      BY <1>2, <2>1, <2>4 DEF Kin, Alike, Manifests
    <3> QED BY <1>2, <1>6, <1>7, <2>1, <2>2, <3>1, <3>2
  <2>5. ASSUME NEW u \in FreeUploads, Create(p), mf'[p] = [mf[p] EXCEPT !.upload = u]
        PROVE  \E x : Grown(p, x) /\ Records' \subseteq Records \cup {x}
    <3>1. u \in Upload
      BY DEF FreeUploads
    <3>2. mf'[p] \in Manifests
      <4>1. \A l \in Upload \cup {None} : [mf[p] EXCEPT !.upload = l] \in Manifests
        BY <1>2, <2>1, ManifestWith
      <4> QED BY <2>5, <3>1, <4>1
    <3>3. Fresh(p, mf'[p])
      BY <1>2, <2>1, <2>5 DEF Fresh, Alike, Manifests
    <3>4. Grown(p, mf'[p])
      BY <3>2, <3>3 DEF Grown
    <3> QED BY <1>6, <2>2, <3>4
  <2> QED BY <2>2, <2>3, <2>4, <2>5

\* The others make none.
<1>13. ASSUME man' \in {man, None}, mf'[p] \in {mf[p], None}, tag'[p] \in {tag[p], None},
              \A q \in Saves' : q \in Saves, \A q \in Deletes' : q \in Deletes \/ q.tag = tag[p]
       PROVE  \E x : Grown(p, x) /\ Records' \subseteq Records \cup {x}
  <2>1. {man', mf'[p], tag'[p]} \subseteq Records \cup {None, FirstManifest}
    BY <1>2, <1>13
  <2>2. Records' \subseteq Records \cup {FirstManifest}
    BY <1>1, <1>2, <1>13, <2>1, RecordsWith
  <2> QED BY <2>2, EmptyIn DEF Grown
<1>14. ASSUME NEW r, r.to # "save", r.to # "delete", net' = net \cup {r}
       PROVE  Saves' \subseteq Saves /\ Deletes' \subseteq Deletes
  BY <1>14 DEF Saves, Deletes
<1>15. net' = net => Saves' \subseteq Saves /\ Deletes' \subseteq Deletes
  BY DEF Saves, Deletes
<1>16. CASE Stop(p) \/ WriteLost(p) \/ ClearLost(p) \/ Delete(p) \/ SweepAll(p)
  <2>1. man' \in {man, None} /\ mf'[p] \in {mf[p], None} /\ tag'[p] \in {tag[p], None}
    BY <1>1, <1>16 DEF Stop, WriteLost, ClearLost, Delete, SweepAll, Fall, Quit, Back, ProcOK
  <2>2. Saves' \subseteq Saves /\ Deletes' \subseteq Deletes
    <3>1. CASE Stop(p) \/ Delete(p)
      BY <1>15, <3>1 DEF Stop, Delete
    <3>2. CASE WriteLost(p)
      BY <1>14, <3>2 DEF WriteLost
    <3>3. CASE ClearLost(p)
      BY <1>14, <3>3 DEF ClearLost
    <3>4. CASE SweepAll(p)
      BY <1>14, <1>15, <3>4 DEF SweepAll
    <3> QED BY <1>16, <3>1, <3>2, <3>3, <3>4
  <2> QED BY <1>13, <2>1, <2>2
<1>17. CASE DeleteLost(p)
  <2>1. man' \in {man, None} /\ mf'[p] \in {mf[p], None} /\ tag'[p] \in {tag[p], None}
    BY <1>1, <1>17 DEF DeleteLost, Back, ProcOK
  <2>2. Saves' \subseteq Saves /\ \A q \in Deletes' : q \in Deletes \/ q.tag = tag[p]
    BY <1>17 DEF DeleteLost, Saves, Deletes
  <2> QED BY <1>13, <2>1, <2>2
<1>18. CASE Write(p) \/ PutEmpty(p) \/ Copy(p) \/ Complete(p) \/ Enumerate(p) \/ Clear(p)
            \/ AbortUploads(p) \/ Start(p)
  <2>1. man' = man /\ mf' = mf /\ tag' = tag /\ net' = net
    BY <1>18 DEF Write, PutEmpty, Copy, Complete, Enumerate, Clear, AbortUploads, Start, OnTo
  <2> QED BY <1>13, <1>15, <2>1
<1> QED BY <1>4, <1>5, <1>8, <1>9, <1>10, <1>11, <1>12, <1>16, <1>17, <1>18 DEF StepKinds

\* Fewer requests, and a manifest that was a record, make no record.
LEMMA RecordsLate ==
  ASSUME mf' = mf, tag' = tag, net' \subseteq net, man' \in Records \cup {None}
  PROVE  Records' \subseteq Records
<1>1. Saves' \subseteq Saves /\ Deletes' \subseteq Deletes
  BY DEF Saves, Deletes
<1>2. ASSUME NEW r \in Records' PROVE r \in Records
  <2>1. RecordForm(r)'
    BY RecordsNext
  <2>2. \/ r = man' /\ r # None
        \/ \E p \in Proc : r # None /\ (r = mf[p] \/ r = tag[p])
        \/ \E q \in Saves : r # None /\ (r = q.next \/ r = q.tag)
        \/ \E q \in Deletes : r # None /\ r = q.tag
    BY <1>1, <2>1 DEF RecordForm
  <2> QED BY <2>2, RecordsNow DEF RecordForm
<1> QED BY <1>2

\* Nor does a request that arrives late,
LEMMA RecordsDelivered ==
  ASSUME NetOK, NEW q \in net, LateKinds(q)
  PROVE  Records' \subseteq Records /\ net' \subseteq net
<1>1. man' \in {man, None} \/ (q.to = "save" /\ man' = q.next)
  BY DEF LateKinds, LateSave, LateDelete, LateNothing, LateChunk, LateClean, LateRest
<1>2. man \in Records \cup {None}
  BY RecordIff
<1>3. q.to = "save" => q.next \in Records \cup {None}
  BY RecordIff DEF Saves
<1>4. mf' = mf /\ tag' = tag /\ net' \subseteq net
  BY DEF LateKinds, LateSave, LateDelete, LateNothing, LateChunk, LateClean, LateRest
<1> QED BY <1>1, <1>2, <1>3, <1>4, RecordsLate

\* nor do time and other callers.
LEMMA RecordsOthers ==
  ASSUME OtherKinds
  PROVE  /\ Records' = Records
         /\ UNCHANGED <<man, obj, mpu, net, op, pc, mf, tag, todo, begun, acked, gone>>
<1>1. UNCHANGED <<man, obj, mpu, net, op, pc, mf, tag, todo, begun, acked, gone>>
  BY DEF OtherKinds, Lapse, Expire, OtherAdd, OtherErase, Reclaim, vars, bucket, env, procs, bounds,
         history
<1> QED BY <1>1 DEF Records

\* Fewer records keep ShapeInv.
LEMMA ShapeLate ==
  ASSUME ShapeInv, Records' \subseteq Records
  PROVE  ShapeInv'
  BY DEF ShapeInv, ShapeOf

\* A step of p keeps it.
LEMMA ShapeKept ==
  ASSUME Ground, NEW p \in Proc, StepKinds(p)
  PROVE  ShapeInv' /\ Records' \subseteq Manifests
<1>1. PICK x : Grown(p, x) /\ Records' \subseteq Records \cup {x}
  BY Grow
<1>2. Records \subseteq Manifests /\ ShapeInv
  BY RecordTypes DEF Ground
<1>3. x \in Manifests
  BY <1>1, <1>2 DEF Grown
<1>4. ShapeOf(x)
  <2>1. CASE x \in Records
    BY <1>2, <2>1 DEF ShapeInv
  <2>2. CASE x = FirstManifest
    <3>1. Ceil(0) = 0
      BY CeilBounds, CeilUnique, PSize DEF Ceil
    <3>2. x.sum = <<>> /\ x.chunks = <<>> /\ x.upload = None
      BY <2>2 DEF FirstManifest
    <3> QED BY <3>1, <3>2 DEF ShapeOf
  <2>3. CASE \E m \in Records : Kin(m, x)
    BY <1>2, <2>3 DEF ShapeInv, ShapeOf, Kin, Alike
  <2>4. CASE Fresh(p, x)
    BY <1>2, <2>4 DEF ShapeInv, ShapeOf, Fresh, Alike
  <2>5. CASE Longer(p, x)
    <3>1. pc[p] = "append" /\ x = Appended(mf[p], p) /\ mf[p] \in Records
      BY <2>5 DEF Longer
    <3>2. mf[p] # None /\ mf[p] \in Manifests /\ ShapeOf(mf[p])
      BY <1>2, <3>1, Names DEF ShapeInv
    <3>3. mf[p].lease # None /\ Len(mf[p].sum) < MaxLen /\ mf[p].state = "active"
      BY <3>1, <3>2 DEF Ground, CopyInv, CopyOf
    <3>4. Len(x.chunks) = Ceil(Len(x.sum)) /\ x.state = mf[p].state /\ x.upload = mf[p].upload
      BY <3>1, <3>2, <3>3, AppendedFields
    <3> QED BY <3>2, <3>3, <3>4 DEF ShapeOf
  <2> QED BY <1>1, <2>1, <2>2, <2>3, <2>4, <2>5 DEF Grown
<1>5. Records' \subseteq Manifests
  BY <1>1, <1>2, <1>3
<1>6. \A r \in Records' : ShapeOf(r)
  BY <1>1, <1>2, <1>4 DEF ShapeInv
<1>7. \A r \in Records' : ShapeOf(r)'
  BY <1>6 DEF ShapeOf
<1> QED BY <1>5, <1>7 DEF ShapeInv

\* The chunks of a manifest, each its part, are its bytes.
LEMMA ContentIs ==
  ASSUME BucketOK, NEW r \in Manifests, ShapeOf(r),
         \A i \in 1 .. Len(r.chunks) : obj[r.chunks[i]] # None => obj[r.chunks[i]] = Seg(r.sum, i),
         \A k \in Range(r.chunks) : obj[k] # None
  PROVE  Content(r.chunks) = r.sum
<1> DEFINE ss == [i \in 1 .. Len(r.chunks) |-> obj[r.chunks[i]]]
<1>1. r.sum \in Seq(Proc) /\ r.chunks \in Seq(Nonce) /\ Len(r.chunks) = Ceil(Len(r.sum))
      /\ Len(r.chunks) \in Nat
  BY ManifestFields DEF ShapeOf
<1>2. \A i \in 1 .. Len(r.chunks) : obj[r.chunks[i]] # None /\ r.chunks[i] \in Nonce
  BY <1>1, RangeIs
<1>3. \A i \in 1 .. Len(r.chunks) : obj[r.chunks[i]] \in Seq(Proc)
  BY <1>2, BytesSeq DEF BucketOK
<1>4. ss \in Seq(Seq(Proc)) /\ Len(ss) = Ceil(Len(r.sum)) /\ Len(ss) = Len(r.chunks)
  <2>1. ss \in [1 .. Len(r.chunks) -> Seq(Proc)]
    BY <1>3
  <2> HIDE DEF ss
  <2> QED BY <1>1, <2>1
<1>5. \A i \in 1 .. Len(ss) : ss[i] = Seg(r.sum, i)
  <2>1. \A i \in 1 .. Len(r.chunks) : ss[i] = Seg(r.sum, i)
    BY <1>2
  <2> HIDE DEF ss
  <2> QED BY <1>4, <2>1
<1> HIDE DEF ss
<1>6. FlattenSeq(ss) = r.sum
  BY <1>1, <1>4, <1>5, Pieces
<1> QED BY <1>6 DEF Content, ss

\* What p writes: the short end, read back, and the new unit.
LEMMA ChunkBytes ==
  ASSUME Ground, PartsInv, NEW p \in Proc, pc[p] = "chunk", Readable(p)
  PROVE  NewBytes(p) = Append(ShortEnd(mf[p].sum), p) /\ NewBytes(p) \in Bytes
<1> DEFINE r == mf[p]
<1>1. r # None /\ r.lease # None /\ Len(r.sum) < MaxLen
  BY DEF Ground, FlowInv, FlowOf, CopyInv, CopyOf, Idle
<1>2. r \in Manifests /\ r \in Records /\ ShapeOf(r)
  BY <1>1, CopyRecords DEF Ground
<1> HIDE DEF r
<1>3. r.sum \in Seq(Proc) /\ r.chunks \in Seq(Nonce) /\ Len(r.sum) \in Nat /\ MaxLen \in Nat
  BY <1>2, ManifestFields, Names
<1>4. NewBytes(p) = Append(ShortEnd(r.sum), p)
  <2>1. CASE ~ShortTail(r)
    BY <2>1 DEF NewBytes, ShortEnd, ShortTail, r
  <2>2. CASE ShortTail(r)
    <3>1. Len(r.chunks) = Ceil(Len(r.sum)) /\ Ceil(Len(r.sum)) > 0 /\ Len(r.chunks) \in Nat
      BY <1>2, <1>3, <2>2, CeilNext DEF ShapeOf, ShortTail
    <3>2. Last(r.chunks) = r.chunks[Len(r.chunks)] /\ Len(r.chunks) \in 1 .. Len(r.chunks)
      BY <3>1 DEF Last
    <3>3. obj[Last(r.chunks)] # None
      BY <2>2 DEF Readable, r
    <3>4. obj[Last(r.chunks)] = Seg(r.sum, Ceil(Len(r.sum)))
      BY <1>2, <3>1, <3>2, <3>3 DEF PartsInv
    <3> QED BY <2>2, <3>4 DEF NewBytes, ShortEnd, ShortTail, r
  <2> QED BY <2>1, <2>2
<1> DEFINE n == Appended(r, p)
<1>5. n \in Manifests /\ Len(n.chunks) \in Nat \ {0}
      /\ Seg(n.sum, Len(n.chunks)) = Append(ShortEnd(r.sum), p)
  BY <1>1, <1>2, AppendedFields DEF r
<1> HIDE DEF n
<1>6. n.sum \in Seq(Proc) /\ Len(n.sum) <= MaxLen
  BY <1>5, ManifestFields
<1>7. PICK i \in Nat \ {0} : i = Len(n.chunks)
  BY <1>5
<1>8. Seg(n.sum, i) \in Seq(Proc) /\ Len(Seg(n.sum, i)) = Cut(n.sum, i) - Cut(n.sum, i - 1)
  BY <1>6, SegType
<1>9. Cut(n.sum, i) \in 0 .. Len(n.sum) /\ Cut(n.sum, i - 1) \in 0 .. Len(n.sum)
  <2>1. i - 1 \in Nat /\ i \in Nat
    OBVIOUS
  <2> QED BY <1>6, <2>1, CutBounds
<1>10. Len(Seg(n.sum, i)) <= MaxLen
  BY <1>3, <1>6, <1>8, <1>9
<1>11. NewBytes(p) = Seg(n.sum, i)
  BY <1>4, <1>5, <1>7
<1>12. NewBytes(p) \in Bytes
  BY <1>8, <1>10, <1>11, BytesSeq
<1> QED BY <1>4, <1>12 DEF r

-----------------------------------------------------------------------------
(* Chunks, blobs and receipts.                                             *)

\* A step of p deletes chunks, or writes the one of its lease.
LEMMA ObjStep ==
  ASSUME Ground, PartsInv, NEW p \in Proc, StepKinds(p)
  PROVE  /\ obj' \in [Nonce -> Bytes \cup {None}]
         /\ \A k \in Nonce : obj'[k] \in {None, obj[k]} \/ (Write(p) /\ k = mf[p].lease)
<1>1. obj \in [Nonce -> Bytes \cup {None}]
  BY DEF Ground, BucketOK
<1>2. ASSUME NEW ks, obj' = Without(ks)
      PROVE  /\ obj' \in [Nonce -> Bytes \cup {None}]
             /\ \A k \in Nonce : obj'[k] \in {None, obj[k]}
  BY <1>1, <1>2 DEF Without
<1>3. CASE Write(p)
  <2>1. NewBytes(p) \in Bytes
    BY <1>3, ChunkBytes DEF Write
  <2> QED BY <1>1, <1>3, <2>1 DEF Write
<1>4. CASE Clear(p) \/ ClearLost(p) \/ SweepAll(p)
  BY <1>2, <1>4 DEF Clear, ClearLost, SweepAll
<1>5. Write(p) \/ Clear(p) \/ ClearLost(p) \/ SweepAll(p) \/ obj' = obj
  BY DEF StepKinds, Stop, Lose, Keep, Move, Take, Acquire, WriteLost, Peek, PutEmpty, Create,
         Copy, Unlink, Complete, Refer, Enumerate, Delete, DeleteLost, AbortUploads, Start, OnTo
<1> QED BY <1>1, <1>3, <1>4, <1>5

\* A late request deletes one, or writes one that is not there.
LEMMA ObjLate ==
  ASSUME BucketOK, NetOK, NEW q \in net, LateKinds(q)
  PROVE  /\ obj' \in [Nonce -> Bytes \cup {None}]
         /\ \A k \in Nonce : \/ obj'[k] \in {None, obj[k]}
                             \/ q.to = "chunk" /\ k = q.key /\ obj[k] = None
<1>1. obj \in [Nonce -> Bytes \cup {None}]
  BY DEF BucketOK
<1>2. q \in Requests
  BY DEF NetOK
<1>3. CASE LateChunk(q)
  <2>1. q.key \in Nonce /\ q.bytes \in Bytes
    BY <1>2, <1>3, RequestFields DEF LateChunk
  <2> QED BY <1>1, <1>3, <2>1 DEF LateChunk
<1>4. CASE LateClean(q)
  <2>1. q.key \in Nonce
    BY <1>2, <1>4, RequestFields DEF LateClean
  <2> QED BY <1>1, <1>4, <2>1 DEF LateClean
<1>5. LateChunk(q) \/ LateClean(q) \/ obj' = obj
  BY DEF LateKinds, LateSave, LateDelete, LateNothing
<1> QED BY <1>1, <1>3, <1>4, <1>5

\* A step of p keeps PartsInv.
LEMMA PartsKept ==
  ASSUME Ground, PartsInv, ChunkInv, NEW p \in Proc, StepKinds(p)
  PROVE  PartsInv'
<1>1. PICK x : Grown(p, x) /\ Records' \subseteq Records \cup {x}
  BY Grow
<1>2. Records \subseteq Manifests /\ ShapeInv
  BY RecordTypes DEF Ground
<1> SUFFICES ASSUME NEW r \in Records', NEW i \in 1 .. Len(r.chunks), obj'[r.chunks[i]] # None
             PROVE  obj'[r.chunks[i]] = Seg(r.sum, i)
  BY DEF PartsInv
<1>3. ASSUME NEW m \in Records, Alike(m, r) PROVE obj'[r.chunks[i]] = Seg(r.sum, i)
  <2>1. m.chunks \in Seq(Nonce) /\ r.sum = m.sum /\ r.chunks = m.chunks
    BY <1>2, <1>3, ManifestFields DEF Alike
  <2>2. m.chunks[i] \in Nonce /\ m.chunks[i] \in Range(m.chunks)
    BY <2>1, RangeIs
  <2>3. obj'[m.chunks[i]] = obj[m.chunks[i]]
    <3>1. Write(p) => m.chunks[i] # mf[p].lease
      BY <2>2 DEF Write, ChunkInv
    <3> QED BY <2>1, <2>2, <3>1, ObjStep
  <2> QED BY <2>1, <2>3 DEF PartsInv
<1>4. CASE r \in Records
  BY <1>3, <1>4 DEF Alike
<1>5. CASE r = x /\ x = FirstManifest
  BY <1>5 DEF FirstManifest
<1>6. CASE r = x /\ (\E m \in Records : Kin(m, x))
  BY <1>3, <1>6 DEF Kin
<1>7. CASE r = x /\ Fresh(p, x)
  BY <1>3, <1>7 DEF Fresh
<1>8. CASE r = x /\ Longer(p, x)
  <2>1. pc[p] = "append" /\ r = Appended(mf[p], p) /\ mf[p] \in Records /\ obj' = obj
    BY <1>8 DEF Longer
  <2>2. mf[p] # None /\ mf[p] \in Manifests /\ ShapeOf(mf[p])
    BY <1>2, <2>1, Names DEF ShapeInv
  <2>3. mf[p].lease # None /\ Len(mf[p].sum) < MaxLen
    BY <2>1, <2>2 DEF Ground, CopyInv, CopyOf
  <2>4. /\ Len(r.chunks) \in Nat \ {0} /\ r.chunks[Len(r.chunks)] = mf[p].lease
        /\ Seg(r.sum, Len(r.chunks)) = Append(ShortEnd(mf[p].sum), p)
        /\ \A j \in 1 .. Len(r.chunks) - 1 :
              /\ j \in 1 .. Len(mf[p].chunks) /\ r.chunks[j] = mf[p].chunks[j]
              /\ Seg(r.sum, j) = Seg(mf[p].sum, j)
    BY <2>1, <2>2, <2>3, AppendedFields
  <2>5. CASE i = Len(r.chunks)
    BY <2>1, <2>4, <2>5 DEF ChunkInv
  <2>6. CASE i # Len(r.chunks)
    <3>1. i \in 1 .. Len(r.chunks) - 1
      BY <2>4, <2>6
    <3> QED BY <2>1, <2>4, <3>1 DEF PartsInv
  <2> QED BY <2>5, <2>6
<1> QED BY <1>1, <1>4, <1>5, <1>6, <1>7, <1>8 DEF Grown

\* So does a late request.
LEMMA PartsLate ==
  ASSUME BucketOK, NetOK, ProcOK, PartsInv, ChunkInv, NEW q \in net, LateKinds(q)
  PROVE  PartsInv'
<1>1. Records' \subseteq Records /\ Records \subseteq Manifests
  BY RecordsDelivered, RecordTypes
<1> SUFFICES ASSUME NEW r \in Records', NEW i \in 1 .. Len(r.chunks), obj'[r.chunks[i]] # None
             PROVE  obj'[r.chunks[i]] = Seg(r.sum, i)
  BY DEF PartsInv
<1>2. r \in Records /\ r.chunks \in Seq(Nonce)
  BY <1>1, ManifestFields
<1>3. r.chunks[i] \in Nonce /\ r.chunks[i] \in Range(r.chunks)
  BY <1>2, RangeIs
<1>4. q.to = "chunk" => q.key \in Writing
  BY DEF Writing
<1>5. obj'[r.chunks[i]] = obj[r.chunks[i]]
  BY <1>2, <1>3, <1>4, ObjLate DEF ChunkInv
<1> QED BY <1>2, <1>5 DEF PartsInv

\* A step of p keeps BlobInv, and takes no reference.
LEMMA BlobKept ==
  ASSUME Ground, PartsInv, BlobInv, UploadInv, NEW p \in Proc, StepKinds(p)
  PROVE  BlobInv' /\ blob' \in [Bytes -> Bytes \cup {None}] /\ ref' \subseteq Bytes
         /\ erased' \subseteq Bytes
         /\ \A d \in Bytes : (d \in ref => d \in ref')
              /\ (d \notin erased' => d \notin erased \/ d \in ref')
<1>1. Alone(p) /\ FlowOf(p) /\ CopyOf(p) /\ ProcOK /\ BucketOK
  BY StepAlone DEF Ground, FlowInv, CopyInv
<1>2. mf[p] # None => mf[p] \in Manifests /\ mf[p].sum \in Bytes
  BY <1>1, ManifestFields DEF ProcOK
<1>3. CASE UNCHANGED Rest /\ pc'[p] # "ref"
  BY <1>1, <1>3 DEF Rest, BlobInv, Alone, BucketOK
<1>4. CASE PutEmpty(p)
  <2>1. mf[p] # None /\ mf[p].sum = <<>>
    BY <1>1, <1>4 DEF PutEmpty, FlowOf, Idle, CopyOf
  <2>2. /\ blob' = [blob EXCEPT ![mf[p].sum] = mf[p].sum] /\ mf' = mf
        /\ ref' = ref /\ erased' = erased
    BY <1>4, <2>1 DEF PutEmpty, OnTo
  <2> HIDE DEF BlobInv
  <2>3. BlobInv'
    BY <1>1, <1>2, <2>1, <2>2 DEF BlobInv, Alone, BucketOK
  <2> QED BY <1>1, <1>2, <2>1, <2>2, <2>3 DEF BucketOK
<1>5. CASE Complete(p)
  <2>1. mf[p] # None /\ mpu[mf[p].upload] = mf[p].sum
    BY <1>1, <1>5 DEF Complete, FlowOf, Idle, UploadInv
  <2>2. /\ blob' = [blob EXCEPT ![mf[p].sum] = mf[p].sum] /\ mf' = mf
        /\ ref' = ref /\ erased' = erased
    BY <1>5, <2>1 DEF Complete, OnTo
  <2>3. BlobInv'
    BY <1>1, <1>2, <2>1, <2>2 DEF BlobInv, Alone, BucketOK
  <2> QED BY <1>1, <1>2, <2>1, <2>2, <2>3 DEF BucketOK
<1>6. CASE Peek(p)
  <2>1. mf[p] # None
    BY <1>1, <1>6 DEF Peek, FlowOf, Idle
  <2>2. /\ blob' = blob /\ ref' = ref /\ erased' = erased \ (ref \cap {mf[p].sum})
        /\ pc'[p] = "ref" => blob[mf[p].sum] # None /\ mf'[p].sum = mf[p].sum
    BY <1>1, <1>2, <1>6, <2>1, MarkedIs DEF Peek, ProcOK
  <2>3. BlobInv'
    BY <1>1, <1>2, <2>1, <2>2 DEF BlobInv, Alone, BucketOK
  <2> QED BY <1>1, <1>2, <2>1, <2>2, <2>3 DEF BucketOK
<1>7. CASE Refer(p)
  <2>1. mf[p] # None
    BY <1>1, <1>7 DEF Refer, FlowOf, Idle
  <2>2. /\ blob' = blob /\ ref' = ref \cup {mf[p].sum} /\ erased' = erased \ {mf[p].sum}
        /\ pc[p] = "ref" /\ pc'[p] # "ref"
    BY <1>1, <1>7 DEF Refer, ProcOK
  <2>3. BlobInv'
    BY <1>1, <1>2, <2>1, <2>2 DEF BlobInv, Alone, BucketOK
  <2> QED BY <1>1, <1>2, <2>1, <2>2, <2>3 DEF BucketOK
<1>8. CASE Quit(p) /\ UNCHANGED Rest
  BY <1>1, <1>3, <1>8 DEF Quit, ProcOK
<1>9. CASE Back(p) /\ UNCHANGED Rest
  BY <1>1, <1>3, <1>9 DEF Back, ProcOK
<1>10. CASE Take(p)
  <2>1. mf[p] # None /\ op[p] \in Ops \ {"Begin"} /\ UNCHANGED Rest
    BY <1>1, <1>10 DEF FlowOf, Idle, Take, ProcOK
  <2>2. \E l \in First(op[p], mf[p]) : pc'[p] = l
    BY <1>1, <1>10 DEF Take, ProcOK
  <2>3. pc'[p] # "ref"
    BY <1>2, <2>1, <2>2, FirstIs
  <2> QED BY <1>3, <2>1, <2>3
<1>11. CASE Move(p) \/ Acquire(p) \/ Write(p) \/ Create(p) \/ Copy(p) \/ Unlink(p) \/ Enumerate(p)
           \/ Clear(p) \/ AbortUploads(p) \/ Start(p)
  <2>1. UNCHANGED Rest /\ pc'[p] # "ref"
    BY <1>1, <1>11 DEF Move, Acquire, Write, Create, Copy, Unlink, Enumerate, Clear, AbortUploads,
                       Start, OnTo, ProcOK
  <2> QED BY <1>3, <2>1
<1> QED BY <1>4, <1>5, <1>6, <1>7, <1>8, <1>9, <1>10, <1>11
        DEF StepKinds, Stop, Lose, Keep, WriteLost, ClearLost, Delete, DeleteLost, SweepAll, Fall

\* Other callers keep BlobInv, and a reference they take is erased.
LEMMA BlobOthers ==
  ASSUME BucketOK, ProcOK, BlobInv, OtherKinds
  PROVE  /\ BlobInv' /\ blob' \in [Bytes -> Bytes \cup {None}] /\ ref' \subseteq Bytes
         /\ erased' \subseteq Bytes
         /\ \A d \in Bytes : d \in ref => d \in ref' \/ d \in erased'
         /\ \A d \in Bytes : d \in erased => d \in erased'
<1>1. pc' = pc /\ mf' = mf
  BY RecordsOthers
<1>2. CASE UNCHANGED Rest
  BY <1>1, <1>2 DEF Rest, BlobInv, BucketOK
<1>3. CASE OtherAdd
  <2>1. /\ man # None /\ blob' = [blob EXCEPT ![man.sum] = man.sum] /\ ref' = ref \cup {man.sum}
        /\ erased' = erased
    BY <1>3 DEF OtherAdd, history
  <2>2. man.sum \in Bytes
    BY <2>1, ManifestFields DEF BucketOK
  <2>3. BlobInv'
    BY <1>1, <2>1, <2>2 DEF BlobInv, BucketOK
  <2> QED BY <2>1, <2>2, <2>3 DEF BucketOK
<1>4. CASE OtherErase
  <2>1. PICK d \in ref : ref' = ref \ {d} /\ erased' = erased \cup {d}
    BY <1>4 DEF OtherErase
  <2>2. blob' = blob
    BY <1>4 DEF OtherErase
  <2>3. BlobInv'
    BY <1>1, <2>1, <2>2 DEF BlobInv, BucketOK
  <2> QED BY <2>1, <2>2, <2>3 DEF BucketOK
<1>5. CASE Reclaim
  <2>1. PICK d \in Bytes \ ref : /\ \A p \in Proc : pc[p] = "ref" => mf[p].sum # d
                                 /\ blob' = [blob EXCEPT ![d] = None]
    BY <1>5 DEF Reclaim
  <2>2. ref' = ref /\ erased' = erased
    BY <1>5 DEF Reclaim, history
  <2>3. BlobInv'
    BY <1>1, <2>1, <2>2 DEF BlobInv, BucketOK
  <2> QED BY <2>1, <2>2, <2>3 DEF BucketOK
<1>6. CASE Lapse \/ Expire \/ UNCHANGED vars
  BY <1>2, <1>6 DEF Lapse, Expire, vars, bucket, history, Rest
<1> QED BY <1>3, <1>4, <1>5, <1>6 DEF OtherKinds

\* A late request changes no blob.
LEMMA BlobLate ==
  ASSUME BucketOK, BlobInv, NEW q \in net, LateKinds(q)
  PROVE  BlobInv' /\ UNCHANGED Rest
<1>1. UNCHANGED <<Rest, pc, mf>>
  BY DEF LateKinds, LateSave, LateDelete, LateNothing, LateChunk, LateClean, LateRest
<1> QED BY <1>1 DEF BlobInv, Rest

\* A step of p keeps PaidInv.
LEMMA PaidKept ==
  ASSUME Ground, PartsInv, BlobInv, UploadInv, PaidInv, NEW p \in Proc, StepKinds(p)
  PROVE  PaidInv'
<1>1. PICK x : Grown(p, x) /\ Records' \subseteq Records \cup {x}
  BY Grow
<1>2. Records \subseteq Manifests
  BY RecordTypes DEF Ground
<1>3. /\ BlobInv'
      /\ \A d \in Bytes : (d \in ref => d \in ref') /\ (d \notin erased' => d \notin erased \/ d \in ref')
  BY BlobKept
<1> SUFFICES ASSUME NEW r \in Records', r.state = "committed", r.sum \notin erased'
             PROVE  r.sum \in ref'
  BY <1>3 DEF PaidInv, BlobInv
<1>4. ASSUME NEW m \in Records, m.state = "committed", m.sum = r.sum PROVE r.sum \in ref'
  <2>1. m.sum \in Bytes
    BY <1>2, ManifestFields
  <2> QED BY <1>3, <1>4, <2>1 DEF PaidInv
<1>5. CASE r \in Records
  BY <1>4, <1>5
<1>6. CASE r = x /\ x = FirstManifest
  BY <1>6 DEF FirstManifest
<1>7. CASE r = x /\ (\E m \in Records : Kin(m, x))
  BY <1>4, <1>7 DEF Kin, Alike
<1>8. CASE r = x /\ Fresh(p, x)
  BY <1>8 DEF Fresh
<1>9. CASE r = x /\ Longer(p, x)
  <2>1. mf[p] \in Manifests /\ r = Appended(mf[p], p) /\ pc[p] = "append"
    BY <1>2, <1>9 DEF Longer
  <2>2. mf[p].state = "active"
    BY <2>1, Names DEF Ground, CopyInv, CopyOf
  <2> QED BY <2>1, <2>2 DEF Appended, Manifests
<1> QED BY <1>1, <1>5, <1>6, <1>7, <1>8, <1>9 DEF Grown

\* So does a late request,
LEMMA PaidLate ==
  ASSUME BucketOK, NetOK, PaidInv, BlobInv, NEW q \in net, LateKinds(q)
  PROVE  PaidInv'
  BY RecordsDelivered, BlobLate DEF PaidInv, Rest

\* and so do other callers.
LEMMA PaidOthers ==
  ASSUME BucketOK, NetOK, ProcOK, PaidInv, BlobInv, OtherKinds
  PROVE  PaidInv'
<1>1. Records' = Records /\ Records \subseteq Manifests
  BY RecordsOthers, RecordTypes
<1>2. /\ BlobInv'
      /\ \A d \in Bytes : d \in ref => d \in ref' \/ d \in erased'
      /\ \A d \in Bytes : d \in erased => d \in erased'
  BY BlobOthers
<1> SUFFICES ASSUME NEW r \in Records', r.state = "committed", r.sum \notin erased'
             PROVE  r.sum \in ref'
  BY <1>2 DEF PaidInv, BlobInv
<1>3. r.sum \in Bytes /\ r \in Records
  BY <1>1, ManifestFields
<1> QED BY <1>2, <1>3 DEF PaidInv

\* A step of p keeps UploadInv.
LEMMA UploadKept ==
  ASSUME Ground, PartsInv, UploadInv, NEW p \in Proc, StepKinds(p)
  PROVE  UploadInv' /\ mpu' \in [Upload -> Bytes \cup {None}]
<1>1. PICK x : Grown(p, x) /\ Records' \subseteq Records \cup {x}
  BY Grow
<1>2. Records \subseteq Manifests
  BY RecordTypes DEF Ground
<1>3. Alone(p) /\ FlowOf(p) /\ CopyOf(p) /\ ProcOK /\ BucketOK
  BY StepAlone DEF Ground, FlowInv, CopyInv
<1>4. \A r, s \in Records' : r.upload # None /\ r.upload = s.upload => r.sum = s.sum
  <2>1. ASSUME NEW s \in Records, x.upload # None, x.upload = s.upload PROVE x.sum = s.sum
    <3>1. CASE x \in Records
      BY <2>1, <3>1 DEF UploadInv
    <3>2. CASE x = FirstManifest
      BY <2>1, <3>2 DEF FirstManifest
    <3>3. CASE \E m \in Records : Kin(m, x)
      BY <2>1, <3>3 DEF UploadInv, Kin, Alike
    <3>4. CASE Fresh(p, x)
      BY <2>1, <3>4 DEF Fresh, FreeUploads
    <3>5. CASE Longer(p, x)
      <4>1. mf[p] \in Manifests /\ mf[p] \in Records /\ x = Appended(mf[p], p) /\ pc[p] = "append"
        BY <1>2, <3>5 DEF Longer
      <4>2. mf[p].state = "active"
        BY <4>1, Names DEF Ground, CopyInv, CopyOf
      <4>3. mf[p].upload = None
        BY <4>1, <4>2 DEF Ground, ShapeInv, ShapeOf
      <4> QED BY <2>1, <4>1, <4>3 DEF Appended, Manifests
    <3> QED BY <1>1, <3>1, <3>2, <3>3, <3>4, <3>5 DEF Grown
  <2> QED BY <1>1, <2>1 DEF UploadInv
<1>5. mpu \in [Upload -> Bytes \cup {None}]
  BY <1>3 DEF BucketOK
<1>6. \A s \in Proc : mf[s] # None => mf[s] \in Records /\ mf[s] \in Manifests
  BY <1>3, RecordIff DEF ProcOK
<1>7. ASSUME NEW s \in Proc, pc[s] = "complete"
      PROVE  mf[s] # None /\ mf[s].upload \in Upload /\ mpu[mf[s].upload] \in {None, mf[s].sum}
  <2>1. mf[s] # None /\ mf[s].upload # None
    BY <1>7 DEF Ground, FlowInv, FlowOf, Idle, CopyInv, CopyOf
  <2> QED BY <1>6, <1>7, <2>1, ManifestFields DEF UploadInv
<1>8. CASE mpu' = mpu /\ pc'[p] # "complete"
  <2>1. \A s \in Proc : pc'[s] = "complete" => mpu'[mf'[s].upload] \in {None, mf'[s].sum}
    BY <1>3, <1>7, <1>8 DEF Alone
  <2> QED BY <1>4, <1>5, <1>8, <2>1 DEF UploadInv
<1>9. CASE Copy(p)
  <2>1. /\ mf[p] # None /\ mf[p].upload # None /\ AllThere(p) /\ mf' = mf
        /\ mpu' = [mpu EXCEPT ![mf[p].upload] = Content(mf[p].chunks)]
    BY <1>3, <1>9 DEF Copy, OnTo, FlowOf, Idle, CopyOf
  <2>2. mf[p] \in Manifests /\ mf[p] \in Records /\ mf[p].upload \in Upload /\ mf[p].sum \in Bytes
    BY <1>6, <2>1, ManifestFields
  <2>3. Content(mf[p].chunks) = mf[p].sum
    BY <1>3, <2>1, <2>2, ContentIs DEF Ground, ShapeInv, PartsInv, AllThere
  <2>4. mpu' \in [Upload -> Bytes \cup {None}]
    BY <1>5, <2>1, <2>2, <2>3
  <2>5. ASSUME NEW s \in Proc, pc'[s] = "complete"
        PROVE  mpu'[mf'[s].upload] \in {None, mf'[s].sum}
    <3>1. CASE s = p
      BY <1>5, <2>1, <2>2, <2>3, <3>1
    <3>2. CASE s # p
      <4>1. mf[s] # None /\ mf[s].upload \in Upload /\ mpu[mf[s].upload] \in {None, mf[s].sum}
        BY <1>3, <1>7, <2>5, <3>2 DEF Alone
      <4>2. mf[s].upload = mf[p].upload => mf[s].sum = mf[p].sum
        BY <1>6, <2>1, <2>2, <4>1 DEF UploadInv
      <4> QED BY <1>5, <2>1, <2>2, <2>3, <4>1, <4>2
    <3> QED BY <3>1, <3>2
  <2> QED BY <1>4, <2>4, <2>5 DEF UploadInv
<1>10. CASE Complete(p) \/ AbortUploads(p)
  <2>1. /\ mpu' \in [Upload -> Bytes \cup {None}] /\ \A u \in Upload : mpu'[u] \in {None, mpu[u]}
        /\ mf' = mf /\ pc'[p] # "complete"
    BY <1>3, <1>5, <1>10 DEF Complete, AbortUploads, OnTo, ProcOK
  <2>2. \A s \in Proc : pc'[s] = "complete" => mpu'[mf'[s].upload] \in {None, mf'[s].sum}
    BY <1>3, <1>7, <2>1 DEF Alone
  <2> QED BY <1>4, <2>1, <2>2 DEF UploadInv
<1>11. CASE Create(p)
  <2>1. PICK u \in FreeUploads : mpu' = [mpu EXCEPT ![u] = <<>>]
    BY <1>11 DEF Create
  <2>2. u \in Upload /\ \A r \in Records : r.upload # u
    BY DEF FreeUploads
  <2>3. mpu' \in [Upload -> Bytes \cup {None}]
    BY <1>5, <2>1, <2>2, EmptyIn
  <2>4. pc'[p] # "complete"
    BY <1>3, <1>11 DEF Create, ProcOK
  <2>5. ASSUME NEW s \in Proc, pc'[s] = "complete"
        PROVE  mpu'[mf'[s].upload] \in {None, mf'[s].sum}
    <3>1. s # p /\ mf'[s] = mf[s] /\ pc[s] = "complete"
      BY <1>3, <2>4, <2>5 DEF Alone
    <3>2. mf[s] # None /\ mf[s].upload \in Upload /\ mpu[mf[s].upload] \in {None, mf[s].sum}
      BY <1>7, <3>1
    <3>3. mf[s].upload # u
      BY <1>6, <2>2, <3>2
    <3> QED BY <1>5, <2>1, <2>2, <3>1, <3>2, <3>3
  <2> QED BY <1>4, <2>3, <2>5 DEF UploadInv
<1>12. CASE Take(p)
  <2>1. mf[p] # None /\ op[p] \in Ops \ {"Begin"} /\ mpu' = mpu
    BY <1>3, <1>12 DEF FlowOf, Idle, Take, ProcOK
  <2>2. \E l \in First(op[p], mf[p]) : pc'[p] = l
    BY <1>3, <1>12 DEF Take, ProcOK
  <2>3. pc'[p] # "complete"
    BY <1>6, <2>1, <2>2, FirstIs
  <2> QED BY <1>8, <2>1, <2>3
<1>13. CASE mpu' = mpu /\ Quit(p)
  BY <1>3, <1>8, <1>13 DEF Quit, ProcOK
<1>14. CASE mpu' = mpu /\ Back(p)
  BY <1>3, <1>8, <1>14 DEF Back, ProcOK
<1>15. CASE Move(p) \/ Acquire(p) \/ Write(p) \/ Peek(p) \/ PutEmpty(p) \/ Unlink(p) \/ Refer(p)
            \/ Enumerate(p) \/ Clear(p) \/ Start(p)
  <2>1. mpu' = mpu /\ pc'[p] # "complete"
    BY <1>3, <1>15 DEF Move, Acquire, Write, Peek, PutEmpty, Unlink, Refer, Enumerate, Clear, Start,
                       OnTo, ProcOK
  <2> QED BY <1>8, <2>1
<1> QED BY <1>9, <1>10, <1>11, <1>12, <1>13, <1>14, <1>15
        DEF StepKinds, Stop, Lose, Keep, WriteLost, ClearLost, Delete, DeleteLost, SweepAll, Fall

\* Fewer records do.
LEMMA UploadLate ==
  ASSUME UploadInv, Records' \subseteq Records, UNCHANGED <<pc, mf, mpu>>
  PROVE  UploadInv'
  BY DEF UploadInv

-----------------------------------------------------------------------------
(* Types.                                                                  *)

\* The functions on processes stay that.
Domains ==
    /\ pc' = [s \in Proc |-> pc'[s]] /\ op' = [s \in Proc |-> op'[s]]
    /\ mf' = [s \in Proc |-> mf'[s]] /\ tag' = [s \in Proc |-> tag'[s]]
    /\ todo' = [s \in Proc |-> todo'[s]] /\ late' \subseteq Proc

\* A step of p does not change their domains.
LEMMA StepDomains ==
  ASSUME ProcOK, NEW p \in Proc, StepKinds(p)
  PROVE  Domains
<1>1. CASE Quit(p)
  BY <1>1 DEF Quit, Domains, ProcOK
<1>2. CASE Back(p)
  BY <1>2 DEF Back, Domains, ProcOK
<1>3. ASSUME NEW l, OnTo(p, l) PROVE Domains
  BY <1>3 DEF OnTo, Domains, ProcOK
<1>4. CASE Move(p) \/ Take(p) \/ Acquire(p) \/ Write(p)
  BY <1>4 DEF Move, Take, Acquire, Write, Domains, ProcOK
<1>5. CASE Peek(p) \/ Create(p) \/ Unlink(p) \/ Refer(p)
  BY <1>5 DEF Peek, Create, Unlink, Refer, Domains, ProcOK
<1>6. CASE Enumerate(p) \/ Clear(p) \/ AbortUploads(p) \/ Start(p)
  BY <1>6 DEF Enumerate, Clear, AbortUploads, Start, Domains, ProcOK
<1> QED BY <1>1, <1>2, <1>3, <1>4, <1>5, <1>6
        DEF StepKinds, Stop, Lose, Keep, WriteLost, PutEmpty, Copy, Complete, ClearLost, Delete,
            DeleteLost, SweepAll, Fall

\* A step of p keeps the processes' types,
LEMMA ProcKept ==
  ASSUME Ground, NEW p \in Proc, StepKinds(p)
  PROVE  ProcOK'
<1>1. Alone(p) /\ FlowOf(p) /\ ProcOK /\ Domains
  BY StepAlone, StepDomains DEF Ground, FlowInv
<1>2. \A s \in Proc : mf'[s] \in Manifests \cup {None} /\ tag'[s] \in Manifests \cup {None}
  <2>1. Records' \subseteq Manifests
    BY ShapeKept
  <2> QED BY <2>1, RecordsNext DEF RecordForm
<1>3. pc'[p] \in Labels /\ op'[p] \in Ops \cup {None} /\ todo'[p] \subseteq Nonce
  <2>0. pc[p] \in Labels /\ op[p] \in Ops \cup {None} /\ todo[p] \subseteq Nonce /\ Chunks \subseteq Nonce
    BY <1>1 DEF ProcOK, Chunks
  <2>1. CASE Quit(p)
    BY <1>1, <2>0, <2>1 DEF Quit, ProcOK, Labels, Ops
  <2>2. CASE Back(p)
    BY <1>1, <2>0, <2>2 DEF Back, ProcOK, Labels
  <2>3. ASSUME NEW l \in Labels, OnTo(p, l) PROVE pc'[p] \in Labels /\ op'[p] \in Ops \cup {None}
                 /\ todo'[p] \subseteq Nonce
    BY <1>1, <2>0, <2>3 DEF OnTo, ProcOK, Labels
  <2>4. CASE Take(p)
    <3>1. mf[p] # None /\ op[p] \in Ops \ {"Begin"} /\ mf[p] \in Manifests
      BY <1>1, <2>4 DEF FlowOf, Idle, Take, ProcOK
    <3>2. \E l \in First(op[p], mf[p]) : pc'[p] = l
      BY <1>1, <2>4 DEF Take, ProcOK
    <3>3. pc'[p] \in Labels
      BY <3>1, <3>2, FirstIs DEF Labels
    <3> QED BY <2>0, <2>4, <3>3 DEF Take
  <2>5. CASE Move(p) \/ Acquire(p) \/ Write(p) \/ Clear(p)
    BY <1>1, <2>0, <2>5 DEF Move, Acquire, Write, Clear, ProcOK, Labels
  <2>6. CASE Peek(p) \/ Create(p) \/ Unlink(p) \/ Refer(p)
    BY <1>1, <2>0, <2>6 DEF Peek, Create, Unlink, Refer, ProcOK, Labels
  <2>7. CASE Enumerate(p) \/ AbortUploads(p) \/ Start(p)
    <3> HIDE DEF Chunks
    <3> QED BY <1>1, <2>0, <2>7 DEF Enumerate, AbortUploads, Start, ProcOK, Labels, Ops
  <2>8. PutEmpty(p) \/ Copy(p) \/ Complete(p) => OnTo(p, "ref") \/ OnTo(p, "complete")
    BY DEF PutEmpty, Copy, Complete
  <2>9. "ref" \in Labels /\ "complete" \in Labels
    BY DEF Labels
  <2> QED BY <2>1, <2>2, <2>3, <2>4, <2>5, <2>6, <2>7, <2>8, <2>9
          DEF StepKinds, Stop, Lose, Keep, WriteLost, ClearLost, Delete, DeleteLost, SweepAll, Fall
<1>4. \A s \in Proc : pc'[s] \in Labels /\ op'[s] \in Ops \cup {None} /\ todo'[s] \subseteq Nonce
  BY <1>1, <1>3 DEF Alone, ProcOK
<1> QED BY <1>1, <1>2, <1>4 DEF Domains, ProcOK

\* the bucket's,
LEMMA BucketKept ==
  ASSUME Ground, PartsInv, BlobInv, UploadInv, NEW p \in Proc, StepKinds(p)
  PROVE  BucketOK'
<1>1. man' \in Manifests \cup {None}
  <2>1. Records' \subseteq Manifests
    BY ShapeKept
  <2> QED BY <2>1, RecordsNext DEF RecordForm
<1>2. obj' \in [Nonce -> Bytes \cup {None}]
  BY ObjStep
<1>3. mpu' \in [Upload -> Bytes \cup {None}]
  BY UploadKept
<1>4. blob' \in [Bytes -> Bytes \cup {None}] /\ ref' \subseteq Bytes /\ erased' \subseteq Bytes
  BY BlobKept
<1> QED BY <1>1, <1>2, <1>3, <1>4 DEF BucketOK

\* the requests',
LEMMA NetKept ==
  ASSUME Ground, PartsInv, NEW p \in Proc, StepKinds(p)
  PROVE  NetOK'
<1>1. net \subseteq Requests /\ FlowOf(p) /\ CopyOf(p) /\ ProcOK
  BY DEF Ground, NetOK, FlowInv, CopyInv
<1>2. ASSUME NEW r \in Requests, net' = net \cup {r} PROVE NetOK'
  BY <1>1, <1>2 DEF NetOK
<1>3. CASE Lose(p)
  <2>1. PICK n \in Manifests, rn \in BOOLEAN :
           Sending(p, n, rn) /\ net' = net \cup {SaveRequest(p, n, rn)}
    BY <1>3 DEF Lose
  <2>2. SaveRequest(p, n, rn) \in Requests
    BY <1>1 DEF SaveRequest, Requests, ProcOK
  <2> QED BY <1>2, <2>1, <2>2
<1>4. CASE WriteLost(p)
  <2>1. mf[p] # None /\ mf[p].lease \in Nonce
    BY <1>1, <1>4, ManifestFields DEF WriteLost, FlowOf, Idle, CopyOf, ProcOK
  <2>2. NewBytes(p) \in Bytes
    BY <1>4, ChunkBytes DEF WriteLost
  <2>3. [to |-> "chunk", key |-> mf[p].lease, bytes |-> NewBytes(p)] \in Requests
    BY <2>1, <2>2 DEF Requests
  <2> QED BY <1>2, <1>4, <2>3 DEF WriteLost
<1>5. \A k \in Nonce : [to |-> "clean", key |-> k] \in Requests
  BY DEF Requests
<1>6. CASE ClearLost(p)
  <2>1. \A ks \in Garbage(mf[p], todo[p], pc[p] = "cleanall") : ks \subseteq Nonce
    BY <1>1 DEF Garbage, ProcOK
  <2> QED BY <1>2, <1>5, <1>6, <2>1 DEF ClearLost
<1>7. CASE SweepAll(p)
  <2>1. todo[p] \subseteq Nonce
    BY <1>1 DEF ProcOK
  <2> QED BY <1>1, <1>2, <1>5, <1>7, <2>1 DEF SweepAll, NetOK
<1>8. CASE DeleteLost(p)
  <2>1. tag[p] \in Manifests
    BY <1>1, <1>8 DEF DeleteLost, FlowOf, Idle, CopyOf, Same, ProcOK
  <2>2. [to |-> "delete", tag |-> tag[p]] \in Requests
    BY <2>1 DEF Requests
  <2> QED BY <1>2, <1>8, <2>2 DEF DeleteLost
<1>9. net' = net \/ Lose(p) \/ WriteLost(p) \/ ClearLost(p) \/ DeleteLost(p) \/ SweepAll(p)
  BY DEF StepKinds, Stop, Keep, Move, Take, Acquire, Write, Peek, PutEmpty, Create,
         Copy, Unlink, Complete, Refer, Enumerate, Clear, Delete, AbortUploads, Start, OnTo
<1> QED BY <1>1, <1>3, <1>4, <1>6, <1>7, <1>8, <1>9 DEF NetOK

\* and the flags'.
LEMMA FlagsKept ==
  ASSUME Ground, NEW p \in Proc, StepKinds(p)
  PROVE  FlagsOK'
<1>1. {lapsed, expired, begun, gone} \subseteq BOOLEAN /\ acked \in Bytes
  BY DEF Ground, FlagsOK
<1>2. CASE Keep(p)
  <2>1. PICK n \in Manifests, rn \in BOOLEAN :
          /\ expired' = (expired /\ ~rn)
          /\ acked' = IF pc[p] = "append" THEN n.sum ELSE acked
    BY <1>2 DEF Keep
  <2>2. acked' \in Bytes
    BY <1>1, <2>1, ManifestFields
  <2>3. expired' \in BOOLEAN /\ begun' \in BOOLEAN /\ lapsed' \in BOOLEAN /\ gone' \in BOOLEAN
    BY <1>1, <1>2, <2>1 DEF Keep
  <2> QED BY <2>2, <2>3 DEF FlagsOK
<1>3. CASE Move(p) \/ Take(p) \/ Delete(p)
  BY <1>1, <1>3 DEF Move, Take, Delete, FlagsOK
<1>4. Keep(p) \/ Move(p) \/ Take(p) \/ Delete(p) \/ UNCHANGED <<lapsed, expired, begun, gone, acked>>
  BY DEF StepKinds, Stop, Lose, Acquire, Write, WriteLost, Peek, PutEmpty, Create, ClearLost,
         Copy, Unlink, Complete, Refer, Enumerate, Clear, DeleteLost, SweepAll, AbortUploads, Start, OnTo
<1> QED BY <1>1, <1>2, <1>3, <1>4 DEF FlagsOK

-----------------------------------------------------------------------------
(* What a step leaves behind.                                              *)

\* What the copy, the ETag and the listed chunks of p, and the manifest, become.
Locals(p) ==
    /\ mf'[p] # None =>
          \/ mf[p] # None /\ mf'[p].lease = mf[p].lease
          \/ Acquire(p) /\ mf[p] = None /\ mf'[p].lease \in FreeNames
    /\ pc'[p] = "lease" => Acquire(p)
    /\ \/ tag'[p] \in {None, tag[p]}
       \/ (Take(p) \/ Move(p)) /\ tag'[p] = mf[p] /\ mf[p] # None
       \/ Acquire(p) /\ tag'[p] = man
    /\ \/ man' = man
       \/ Delete(p) /\ man' = None
       \/ Keep(p) /\ man' # None /\ man'.lease = None
       \/ (Take(p) \/ Move(p)) /\ man' = mf[p] /\ mf[p] # None
    /\ todo'[p] \subseteq todo[p] \cup Chunks

\* That is so of every step of p.
LEMMA StepLocals ==
  ASSUME Ground, NEW p \in Proc, StepKinds(p)
  PROVE  Locals(p)
<1>1. FlowOf(p) /\ CopyOf(p) /\ ProcOK
  BY DEF Ground, FlowInv, CopyInv
<1>2. mf[p] # None => mf[p] \in Manifests
  BY <1>1 DEF ProcOK
<1>3. CASE Quit(p) /\ man' = man
  BY <1>1, <1>3 DEF Quit, Locals, ProcOK
<1>4. CASE Back(p) /\ man' = man
  BY <1>1, <1>4 DEF Back, Locals, ProcOK
<1>5. ASSUME NEW l \in {"ref", "complete"}, OnTo(p, l) PROVE Locals(p)
  BY <1>1, <1>5 DEF OnTo, Locals, ProcOK
<1>6. CASE Keep(p)
  <2>1. man' # None /\ man'.lease = None
    BY <1>6, Names DEF Keep
  <2>2. Quit(p)
    BY <1>6 DEF Keep
  <2> QED BY <1>1, <1>6, <2>1, <2>2 DEF Quit, Locals, ProcOK
<1>7. CASE Delete(p)
  <2>1. Quit(p) /\ man' = None
    BY <1>7 DEF Delete
  <2> QED BY <1>1, <1>7, <2>1 DEF Quit, Locals, ProcOK
<1>8. CASE Move(p)
  <2>1. mf[p] # None
    BY <1>1, <1>8 DEF Move, FlowOf, Idle
  <2>2. mf'[p] = mf[p] /\ tag'[p] = mf[p] /\ man' = mf[p] /\ todo'[p] = todo[p] /\ pc'[p] # "lease"
    BY <1>1, <1>8 DEF Move, ProcOK
  <2> QED BY <1>8, <2>1, <2>2 DEF Locals
<1>9. CASE Take(p)
  <2>1. mf[p] # None /\ op[p] \in Ops \ {"Begin"}
    BY <1>1, <1>9 DEF FlowOf, Idle, Take, ProcOK
  <2>2. PICK l \in First(op[p], mf[p]) :
             pc' = [pc EXCEPT ![p] = l] /\ mf' = [mf EXCEPT ![p] = Marked(mf[p], l)]
    BY <1>9 DEF Take
  <2>3. mf'[p].lease = mf[p].lease /\ pc'[p] = l /\ l # "lease"
    BY <1>1, <1>2, <2>1, <2>2, MarkedIs, FirstIs DEF ProcOK
  <2>4. tag'[p] = mf[p] /\ man' = mf[p] /\ todo'[p] = todo[p]
    BY <1>1, <1>9 DEF Take, ProcOK
  <2> QED BY <1>9, <2>1, <2>3, <2>4 DEF Locals
<1>10. CASE Acquire(p)
  <2>1. mf[p] = None /\ man \in Manifests
    BY <1>1, <1>10 DEF Acquire, FlowOf, Idle, Ground, BucketOK
  <2>2. PICK k \in FreeNames : mf' = [mf EXCEPT ![p] = [man EXCEPT !.lease = k]]
    BY <1>10 DEF Acquire
  <2>3. mf'[p].lease = k
    BY <1>1, <2>1, <2>2 DEF ProcOK, Manifests
  <2>4. tag'[p] = man /\ man' = man /\ todo'[p] = todo[p]
    BY <1>1, <1>10 DEF Acquire, ProcOK
  <2> QED BY <1>10, <2>1, <2>3, <2>4 DEF Locals
<1>11. CASE Peek(p) \/ Refer(p)
  <2>1. mf[p] # None /\ \A l : Marked(mf[p], l).lease = mf[p].lease
    BY <1>1, <1>2, <1>11, MarkedIs DEF Peek, Refer, FlowOf, Idle
  <2>2. /\ mf'[p] = mf[p] \/ \E l : mf'[p] = Marked(mf[p], l)
        /\ tag'[p] = tag[p] /\ man' = man /\ todo'[p] = todo[p] /\ pc'[p] # "lease"
    BY <1>1, <1>11 DEF Peek, Refer, ProcOK
  <2> QED BY <2>1, <2>2 DEF Locals
<1>12. CASE Create(p) \/ Unlink(p)
  <2>1. mf[p] # None /\ \A u : [mf[p] EXCEPT !.upload = u].lease = mf[p].lease
    BY <1>1, <1>2, <1>12 DEF Create, Unlink, FlowOf, Idle, Manifests
  <2>2. /\ mf'[p] = mf[p] \/ \E u : mf'[p] = [mf[p] EXCEPT !.upload = u]
        /\ tag'[p] = tag[p] /\ man' = man /\ todo'[p] = todo[p] /\ pc'[p] # "lease"
    BY <1>1, <1>12 DEF Create, Unlink, ProcOK
  <2> QED BY <2>1, <2>2 DEF Locals
<1>13. CASE Write(p) \/ Enumerate(p) \/ Clear(p) \/ AbortUploads(p) \/ Start(p)
  <2>1. /\ mf'[p] = mf[p] /\ tag'[p] = tag[p] /\ man' = man /\ pc'[p] # "lease"
        /\ todo'[p] \subseteq todo[p] \cup Chunks
    BY <1>1, <1>13 DEF Write, Enumerate, Clear, AbortUploads, Start, ProcOK
  <2> QED BY <2>1 DEF Locals
<1> QED BY <1>3, <1>4, <1>5, <1>6, <1>7, <1>8, <1>9, <1>10, <1>11, <1>12, <1>13
        DEF StepKinds, Stop, Lose, WriteLost, PutEmpty, Copy, Complete, ClearLost,
            DeleteLost, SweepAll, Fall

\* The requests a step of p leaves behind.
Posted(p, q) ==
    \/ Lose(p) /\ q.to = "save" /\ q.tag = tag[p] /\ Sent(p, q.next, q.renew)
    \/ DeleteLost(p) /\ q.to = "delete" /\ q.tag = tag[p]
    \/ WriteLost(p) /\ q.to = "chunk" /\ q.key = mf[p].lease
    \/ (ClearLost(p) \/ SweepAll(p)) /\ q.to = "clean" /\ q.key \in todo[p]

\* It leaves no other.
LEMMA NetStep ==
  ASSUME Ground, NEW p \in Proc, StepKinds(p)
  PROVE  \A q \in net' : q \in net \/ Posted(p, q)
<1>1. CASE Lose(p)
  <2>1. PICK n \in Manifests, rn \in BOOLEAN :
           Sending(p, n, rn) /\ net' = net \cup {SaveRequest(p, n, rn)}
    BY <1>1 DEF Lose
  <2>2. Sent(p, n, rn)
    BY <2>1, SendingIs
  <2>3. /\ SaveRequest(p, n, rn).to = "save" /\ SaveRequest(p, n, rn).tag = tag[p]
        /\ SaveRequest(p, n, rn).next = n /\ SaveRequest(p, n, rn).renew = rn
    BY DEF SaveRequest
  <2>4. Posted(p, SaveRequest(p, n, rn))
    BY <1>1, <2>2, <2>3 DEF Posted
  <2> QED BY <2>1, <2>4
<1>2. CASE DeleteLost(p)
  BY <1>2 DEF DeleteLost, Posted
<1>3. CASE WriteLost(p)
  BY <1>3 DEF WriteLost, Posted
<1>4. CASE ClearLost(p)
  <2>1. \A ks \in Garbage(mf[p], todo[p], pc[p] = "cleanall") : ks \subseteq todo[p]
    BY DEF Garbage
  <2>2. PICK k \in todo[p] : net' = net \cup {[to |-> "clean", key |-> k]}
    BY <1>4, <2>1 DEF ClearLost
  <2> QED BY <1>4, <2>2 DEF Posted
<1>5. CASE SweepAll(p)
  <2>1. net' = net \/ \E k \in todo[p] : net' = net \cup {[to |-> "clean", key |-> k]}
    BY <1>5 DEF SweepAll
  <2> QED BY <1>5, <2>1 DEF Posted
<1>6. net' = net \/ Lose(p) \/ WriteLost(p) \/ ClearLost(p) \/ DeleteLost(p) \/ SweepAll(p)
  BY DEF StepKinds, Stop, Keep, Move, Take, Acquire, Write, Peek, PutEmpty, Create,
         Copy, Unlink, Complete, Refer, Enumerate, Clear, Delete, AbortUploads, Start, OnTo
<1> QED BY <1>1, <1>2, <1>3, <1>4, <1>5, <1>6

\* A free name is to be found nowhere.
LEMMA FreeIs ==
  ASSUME NEW k \in FreeNames
  PROVE  /\ k \in Nonce /\ obj[k] = None /\ \A p \in Proc : k \notin todo[p]
         /\ \A r \in Records : r.lease # k /\ k \notin Range(r.chunks)
         /\ k \notin Writing \cup Cleaning
<1>1. k \in Nonce /\ obj[k] = None
  BY DEF FreeNames
<1>2. \A p \in Proc : k \notin todo[p]
  BY DEF FreeNames
<1>3. \A r \in Records : r.lease # k /\ k \notin Range(r.chunks)
  BY DEF FreeNames
<1>4. k \notin Writing \cup Cleaning
  BY DEF FreeNames, Writing, Cleaning
<1> QED BY <1>1, <1>2, <1>3, <1>4

\* The chunks that records refer to after a step of p were referred to before, or
\* are the one of an append.
LEMMA ChunkSteps ==
  ASSUME Ground, NEW p \in Proc, StepKinds(p), NEW k, NEW r \in Records', k \in Range(r.chunks)
  PROVE  \/ \E m \in Records : k \in Range(m.chunks)
         \/ pc[p] = "append" /\ p \notin late /\ k = mf[p].lease
<1>1. PICK x : Grown(p, x) /\ Records' \subseteq Records \cup {x}
  BY Grow
<1>2. Records \subseteq Manifests /\ ShapeInv
  BY RecordTypes DEF Ground
<1>3. CASE \E m \in Records : Alike(m, r)
  BY <1>3 DEF Alike
<1>4. CASE r = FirstManifest
  <2>1. Range(<<>>) = {}
    BY DEF Range
  <2> QED BY <1>4, <2>1 DEF FirstManifest
<1>5. CASE Longer(p, r)
  <2>1. pc[p] = "append" /\ p \notin late /\ r = Appended(mf[p], p) /\ mf[p] \in Records
    BY <1>5 DEF Longer
  <2>2. mf[p] # None /\ mf[p] \in Manifests /\ ShapeOf(mf[p])
    BY <1>2, <2>1, Names DEF ShapeInv
  <2>3. mf[p].lease # None /\ Len(mf[p].sum) < MaxLen
    BY <2>1, <2>2 DEF Ground, CopyInv, CopyOf
  <2>4. /\ Len(r.chunks) \in Nat \ {0} /\ r.chunks[Len(r.chunks)] = mf[p].lease /\ r \in Manifests
        /\ \A j \in 1 .. Len(r.chunks) - 1 :
              j \in 1 .. Len(mf[p].chunks) /\ r.chunks[j] = mf[p].chunks[j]
    BY <2>1, <2>2, <2>3, AppendedFields
  <2>5. r.chunks \in Seq(Nonce) /\ mf[p].chunks \in Seq(Nonce)
    BY <2>2, <2>4, ManifestFields
  <2>6. PICK i \in 1 .. Len(r.chunks) : r.chunks[i] = k
    BY <2>5, RangeIs
  <2>7. CASE i = Len(r.chunks)
    BY <2>1, <2>4, <2>6, <2>7
  <2>8. CASE i # Len(r.chunks)
    <3>1. i \in 1 .. Len(r.chunks) - 1
      BY <2>4, <2>8
    <3>2. k \in Range(mf[p].chunks)
      BY <2>4, <2>5, <2>6, <3>1, RangeIs
    <3> QED BY <2>1, <3>2
  <2> QED BY <2>7, <2>8
<1> QED BY <1>1, <1>3, <1>4, <1>5 DEF Grown, Kin, Fresh, Alike

-----------------------------------------------------------------------------
(* Names are used once.                                                    *)

\* A save that changes the lease to another is the save of a lease.
LEMMA SentLease ==
  ASSUME Ground, NEW p \in Proc, NEW n, NEW rn, Sent(p, n, rn), tag[p] # None,
         n.lease # None, n.lease # tag[p].lease
  PROVE  pc[p] = "lease" /\ n = mf[p]
<1>1. tag[p] \in Manifests /\ n \in Manifests
  BY DEF Ground, ProcOK, Sent
<1>2. /\ Frozen(tag[p], n) => n.lease = tag[p].lease
      /\ Noted(tag[p], n) => n.lease = tag[p].lease
      /\ Dropped(tag[p], n) => n.lease = None
      /\ Extended(tag[p], n) => n.lease = None
  BY <1>1, DerivedFields
<1>3. Received(tag[p], n) => n.lease \in {None, tag[p].lease}
  BY DEF Received
<1>4. n # FirstManifest
  BY DEF FirstManifest
<1> QED BY <1>2, <1>3, <1>4 DEF Sent

\* A lease that has never been saved after a step was so before, or is free.
LEMMA NewLeaseSteps ==
  ASSUME Ground, NEW p \in Proc, StepKinds(p), NEW k \in Nonce, NewLease(k)'
  PROVE  NewLease(k) \/ (Acquire(p) /\ k = mf'[p].lease /\ k \in FreeNames)
<1>1. Alone(p) /\ Locals(p) /\ ProcOK
  BY StepAlone, StepLocals DEF Ground
<1>2. ASSUME NEW s \in Proc, pc'[s] = "lease", mf'[s].lease = k
      PROVE  NewLease(k) \/ (Acquire(p) /\ k = mf'[p].lease /\ k \in FreeNames)
  <2>1. CASE s # p
    BY <1>1, <1>2, <2>1 DEF Alone, NewLease
  <2>2. CASE s = p
    <3>1. Acquire(p) /\ pc[p] = "read"
      BY <1>1, <1>2, <2>2 DEF Locals, Acquire
    <3>2. mf[p] = None
      BY <3>1 DEF Ground, FlowInv, FlowOf, Idle
    <3>3. FlowInv'
      BY FlowKept
    <3>4. mf'[p] # None
      BY <1>2, <2>2, <3>3 DEF FlowInv, FlowOf, Idle
    <3> QED BY <1>1, <1>2, <2>2, <3>1, <3>2, <3>4 DEF Locals
  <2> QED BY <2>1, <2>2
<1>3. ASSUME NEW q \in Saves', q.tag # None, q.next.lease = k, q.tag.lease # k
      PROVE  NewLease(k)
  <2>1. CASE q \in Saves
    BY <1>3, <2>1 DEF NewLease
  <2>2. CASE q \notin Saves
    <3>1. q.to = "save" /\ q \in net' /\ q \notin net
      BY <2>2 DEF Saves
    <3>2. q.tag = tag[p] /\ Sent(p, q.next, q.renew)
      BY <3>1, NetStep DEF Posted
    <3>3. tag[p] \in Manifests /\ q.next \in Manifests /\ k # None
      BY <1>1, <1>3, <3>2, Names DEF ProcOK, Sent
    <3>4. pc[p] = "lease" /\ q.next = mf[p]
      BY <1>3, <3>2, <3>3, SentLease
    <3> QED BY <1>3, <3>4 DEF NewLease
  <2> QED BY <2>1, <2>2
<1> QED BY <1>2, <1>3 DEF NewLease

\* A lease that is saved is no longer one of these.
LEMMA LeaseTaken ==
  ASSUME Ground, UnusedInv, OneInv, NEW p \in Proc, StepKinds(p), NEW k \in Nonce, NewLease(k),
         NewLease(k)', Take(p) \/ Move(p)
  PROVE  mf[p].lease # k
<1>1. Alone(p) /\ Locals(p) /\ ProcOK /\ FlowOf(p) /\ CopyOf(p)
  BY StepAlone, StepLocals DEF Ground, FlowInv, CopyInv
<1>2. CASE Take(p)
  <2>1. pc[p] = "lease" /\ net' = net /\ mf[p] # None
    BY <1>1, <1>2 DEF Take, FlowOf, Idle
  <2>2. pc'[p] # "lease"
    BY <1>1, <2>1 DEF Locals, Acquire
  <2>3. CASE \E s \in Proc : pc'[s] = "lease" /\ mf'[s].lease = k
    <3>1. PICK s \in Proc : s # p /\ pc[s] = "lease" /\ mf[s].lease = k
      BY <1>1, <2>2, <2>3 DEF Alone
    <3>2. mf[s] # None
      BY <3>1 DEF Ground, FlowInv, FlowOf, Idle
    <3> QED BY <2>1, <3>1, <3>2 DEF OneInv
  <2>4. CASE \E q \in Saves : q.next.lease = k
    BY <2>1, <2>4 DEF OneInv
  <2>5. Saves' = Saves
    BY <2>1 DEF Saves
  <2> QED BY <2>3, <2>4, <2>5 DEF NewLease
<1>3. CASE Move(p)
  <2>1. mf[p] # None /\ tag[p] # None /\ tag[p].lease = mf[p].lease
    <3>1. /\ mf[p] # None /\ tag[p] # None
          /\ Frozen(tag[p], mf[p]) \/ Noted(tag[p], mf[p]) \/ Received(tag[p], mf[p])
          /\ mf[p].lease # None
      BY <1>1, <1>3 DEF Move, FlowOf, Idle, CopyOf
    <3>2. mf[p] \in Manifests /\ tag[p] \in Manifests
      BY <1>1, <3>1 DEF ProcOK
    <3> QED BY <3>1, <3>2, DerivedFields DEF Received
  <2> QED BY <2>1 DEF UnusedInv, Unused
<1> QED BY <1>2, <1>3

\* A step of p keeps UnusedInv.
LEMMA UnusedKept ==
  ASSUME Ground, PartsInv, UnusedInv, OneInv, NEW p \in Proc, StepKinds(p)
  PROVE  UnusedInv'
<1> SUFFICES ASSUME NEW k \in Nonce, NewLease(k)' PROVE Unused(k)'
  BY DEF UnusedInv
<1>1. Alone(p) /\ Locals(p) /\ ProcOK /\ FlowOf(p) /\ CopyOf(p) /\ BucketOK
  BY StepAlone, StepLocals DEF Ground, FlowInv, CopyInv
<1>2. CASE NewLease(k)
  <2>1. Unused(k)
    BY <1>2 DEF UnusedInv
  <2>2. mf[p] # None /\ pc[p] \in {"chunk", "append"} => mf[p].lease # k
    <3>1. mf[p] # None /\ pc[p] \in {"chunk", "append"} => tag[p] = mf[p]
      BY <1>1 DEF CopyOf, Same
    <3> QED BY <2>1, <3>1 DEF Unused
  <2>3. pc[p] \in {"chunk", "append"} => mf[p] # None
    BY <1>1 DEF FlowOf, Idle
  <2>4. obj'[k] = None
    BY <2>1, <2>2, <2>3, ObjStep DEF Unused, Write
  <2>5. \A s \in Proc : k \notin todo'[s]
    BY <1>1, <2>1 DEF Alone, Locals, Unused, Chunks
  <2>6. \A r \in Records' : k \notin Range(r.chunks)
    BY <2>1, <2>2, <2>3, ChunkSteps DEF Unused
  <2>7. \A q \in net' : q.to \in {"chunk", "clean"} => q.key # k
    <3>1. \A q \in net : q.to \in {"chunk", "clean"} => q.key # k
      BY <2>1 DEF Unused, Writing, Cleaning
    <3> QED BY <2>1, <2>2, <2>3, <3>1, NetStep DEF Posted, WriteLost, Unused
  <2>8. Take(p) \/ Move(p) => mf[p].lease # k
    BY <1>2, LeaseTaken
  <2>9. man' # None => man'.lease # k
    BY <1>1, <2>1, <2>8, Names DEF Locals, Unused
  <2>10. \A s \in Proc : tag'[s] # None => tag'[s].lease # k
    BY <1>1, <2>1, <2>8 DEF Locals, Alone, Unused
  <2>11. \A q \in Saves' \cup Deletes' : q.tag # None => q.tag.lease # k
    <3>1. \A q \in Saves' \cup Deletes' : q \in Saves \cup Deletes \/ q.tag = tag[p]
      BY NetStep DEF Posted, Saves, Deletes
    <3> QED BY <2>1, <3>1 DEF Unused
  <2>12. k \notin (Writing \cup Cleaning)'
    BY <2>7 DEF Writing, Cleaning
  <2> QED BY <2>4, <2>5, <2>6, <2>9, <2>10, <2>11, <2>12 DEF Unused
<1>3. CASE Acquire(p) /\ k = mf'[p].lease /\ k \in FreeNames
  <2>1. /\ obj[k] = None /\ \A s \in Proc : k \notin todo[s]
        /\ \A r \in Records : r.lease # k /\ k \notin Range(r.chunks)
        /\ k \notin Writing \cup Cleaning
    BY <1>3, FreeIs
  <2>2. obj' = obj /\ todo' = todo /\ net' = net /\ man' = man /\ tag'[p] = man /\ man # None
        /\ pc[p] = "read"
    BY <1>1, <1>3 DEF Acquire, ProcOK
  <2>3. \A r \in Records' : k \notin Range(r.chunks)
    BY <2>1, <2>2, ChunkSteps
  <2>4. \A r : r \in Records <=> RecordForm(r)
    BY RecordsNow
  <2>5. man.lease # k /\ (\A s \in Proc : tag[s] # None => tag[s].lease # k)
        /\ (\A q \in Saves \cup Deletes : q.tag # None => q.tag.lease # k)
    BY <2>1, <2>2, <2>4 DEF RecordForm
  <2>6. Saves' = Saves /\ Deletes' = Deletes /\ Writing' = Writing /\ Cleaning' = Cleaning
    BY <2>2 DEF Saves, Deletes, Writing, Cleaning
  <2>7. \A s \in Proc : tag'[s] # None => tag'[s].lease # k
    BY <1>1, <2>2, <2>5 DEF Alone
  <2> QED BY <2>1, <2>2, <2>3, <2>5, <2>6, <2>7 DEF Unused
<1> QED BY <1>2, <1>3, NewLeaseSteps

\* A step of p keeps OneInv.
LEMMA OneKept ==
  ASSUME Ground, UnusedInv, OneInv, NEW p \in Proc, StepKinds(p)
  PROVE  OneInv'
<1>1. Alone(p) /\ Locals(p) /\ ProcOK
  BY StepAlone, StepLocals DEF Ground
<1>2. \A s \in Proc : mf[s] # None => mf[s] \in Records
  BY RecordIff
<1>3. \A q \in Saves : q.next \in Records
  BY RecordIff, Names, RequestFields DEF Ground, NetOK, Saves
<1>4. \A s, t \in Proc : mf'[s] # None /\ mf'[t] # None /\ mf'[s].lease = mf'[t].lease => s = t
  <2>1. ASSUME NEW s \in Proc, s # p, mf'[s] # None, mf'[p] # None, mf'[s].lease = mf'[p].lease
        PROVE  FALSE
    <3>1. mf[s] # None /\ mf'[s] = mf[s]
      BY <1>1, <2>1 DEF Alone
    <3>2. CASE mf[p] # None /\ mf'[p].lease = mf[p].lease
      BY <2>1, <3>1, <3>2 DEF OneInv
    <3>3. CASE mf'[p].lease \in FreeNames
      BY <1>2, <2>1, <3>1, <3>3, FreeIs
    <3> QED BY <1>1, <2>1, <3>2, <3>3 DEF Locals
  <2> QED BY <1>1, <2>1 DEF Alone, OneInv
<1>5. \A q \in Saves' : q \in Saves \/ (Lose(p) /\ q.tag = tag[p] /\ Sent(p, q.next, q.renew))
  BY NetStep DEF Posted, Saves
<1>6. Lose(p) => pc'[p] # "lease"
  BY <1>1 DEF Lose, Locals, Acquire, Sending
<1>7. ASSUME NEW q \in Saves', q \notin Saves
      PROVE  /\ q.next.lease # None => mf[p] # None /\ q.next.lease = mf[p].lease
             /\ q.tag # None /\ q.next.lease # None /\ q.tag.lease # q.next.lease =>
                   pc[p] = "lease" /\ mf'[p] = None
  <2>1. Lose(p) /\ q.tag = tag[p] /\ Sent(p, q.next, q.renew)
    BY <1>5, <1>7
  <2>2. tag[p] # None => tag[p] \in Manifests
    BY <1>1 DEF ProcOK
  <2>3. q.tag # None /\ q.next.lease # None /\ q.tag.lease # q.next.lease => pc[p] = "lease"
    BY <2>1, <2>2, SentLease
  <2>4. pc[p] = "lease" => mf'[p] = None
    BY <1>1, <2>1 DEF Lose, Fall, Back, Quit, Same, ProcOK
  <2>5. q.next.lease # None => mf[p] # None /\ q.next.lease = mf[p].lease
    BY <2>1 DEF Sent, FirstManifest
  <2> QED BY <2>3, <2>4, <2>5
<1>8. ASSUME NEW s \in Proc, NEW q \in Saves', pc'[s] = "lease" PROVE q.next.lease # mf'[s].lease
  <2>1. mf'[s] # None
    BY <1>8, FlowKept DEF FlowInv, FlowOf, Idle
  <2>2. CASE s # p
    <3>1. pc[s] = "lease" /\ mf'[s] = mf[s] /\ mf[s] # None /\ mf[s].lease # None
      BY <1>1, <1>8, <2>1, <2>2 DEF Alone, Ground, CopyInv, CopyOf
    <3> QED BY <1>7, <2>2, <3>1 DEF OneInv
  <2>3. CASE s = p
    <3>1. Acquire(p) /\ net' = net /\ mf[p] = None
      BY <1>1, <1>8, <2>3 DEF Locals, Acquire, Ground, FlowInv, FlowOf, Idle
    <3>2. mf'[p].lease \in FreeNames /\ Saves' = Saves
      BY <1>1, <2>1, <2>3, <3>1 DEF Locals, Saves
    <3> QED BY <1>3, <2>3, <3>2, FreeIs
  <2> QED BY <2>2, <2>3
<1>9. ASSUME NEW q1 \in Saves', NEW q2 \in Saves', q1.tag # None, q1.next.lease # None,
             q1.tag.lease # q1.next.lease, q2.next.lease = q1.next.lease
      PROVE  q1 = q2
  <2>1. CASE q1 \in Saves /\ q2 \in Saves
    BY <1>9, <2>1 DEF OneInv
  <2>2. CASE q1 \notin Saves /\ q2 \in Saves
    BY <1>7, <1>9, <2>2 DEF OneInv
  <2>3. CASE q1 \in Saves /\ q2 \notin Saves
    BY <1>7, <1>9, <2>3 DEF OneInv
  <2>4. CASE q1 \notin Saves /\ q2 \notin Saves
    <3>1. q1 \in net' /\ q1 \notin net /\ q2 \in net' /\ q2 \notin net /\ Lose(p)
      BY <1>5, <2>4 DEF Saves
    <3>2. \E r : net' = net \cup {r}
      BY <3>1 DEF Lose
    <3> QED BY <3>1, <3>2
  <2> QED BY <2>1, <2>2, <2>3, <2>4
<1>10. ASSUME NEW s \in Proc, NEW q \in Saves', q.tag # None, q.next.lease # None,
              q.tag.lease # q.next.lease, mf'[s] # None
       PROVE  mf'[s].lease # q.next.lease
  <2>1. CASE q \in Saves
    <3>1. CASE s # p
      BY <1>1, <1>10, <2>1, <3>1 DEF Alone, OneInv
    <3>2. CASE s = p /\ mf[p] # None /\ mf'[p].lease = mf[p].lease
      BY <1>10, <2>1, <3>2 DEF OneInv
    <3>3. CASE s = p /\ mf'[p].lease \in FreeNames
      BY <1>3, <2>1, <3>3, FreeIs
    <3> QED BY <1>1, <1>10, <3>1, <3>2, <3>3 DEF Locals
  <2>2. CASE q \notin Saves
    <3>1. s # p /\ mf'[s] = mf[s] /\ mf[p] # None /\ q.next.lease = mf[p].lease
      BY <1>1, <1>7, <1>10, <2>2 DEF Alone
    <3> QED BY <1>10, <3>1 DEF OneInv
  <2> QED BY <2>1, <2>2
<1> QED BY <1>4, <1>8, <1>9, <1>10 DEF OneInv

\* Only an append sends a longer manifest, and only a freeze a frozen one.
LEMMA SentIs ==
  ASSUME Ground, NEW p \in Proc, NEW n, NEW rn, Sent(p, n, rn), tag[p] # None
  PROVE  /\ Extended(tag[p], n) => pc[p] = "append" /\ p \notin late /\ tag[p] = mf[p]
         /\ Frozen(tag[p], n) => pc[p] = "freeze" /\ p \notin late
<1>1. tag[p] \in Manifests /\ n \in Manifests
  BY DEF Ground, ProcOK, Sent
<1>2. /\ Relabel(tag[p], n) => n.state = tag[p].state /\ n.sum = tag[p].sum
      /\ Frozen(tag[p], n) => n.state = "committing" /\ n.sum = tag[p].sum /\ tag[p].state = "active"
      /\ Noted(tag[p], n) => tag[p].state = "committing"
      /\ Received(tag[p], n) => tag[p].state = "committing"
      /\ Dropped(tag[p], n) => n.state = "aborted"
      /\ Extended(tag[p], n) => n.state = "active" /\ n.sum # tag[p].sum /\ tag[p].state = "active"
  BY <1>1, DerivedFields
<1> QED BY <1>2 DEF Sent

\* How p comes to write a chunk, to refer to it, to freeze and to delete.
LEMMA ChunkLabels ==
  ASSUME Ground, NEW p \in Proc, StepKinds(p)
  PROVE  /\ pc'[p] \in {"chunk", "freeze", "cleanall"} => Take(p)
         /\ pc'[p] = "append" => Write(p)
         /\ pc'[p] = "delete" => Clear(p) /\ pc[p] = "cleanall"
<1> DEFINE Some == {"chunk", "append", "freeze", "cleanall", "delete"}
<1>1. ProcOK /\ FlowOf(p)
  BY DEF Ground, FlowInv
<1>2. Quit(p) => pc'[p] \notin Some
  BY <1>1 DEF Quit, ProcOK
<1>3. Back(p) => pc'[p] \notin Some
  BY <1>1 DEF Back, ProcOK
<1>4. \A l \in {"ref", "complete"} : OnTo(p, l) => pc'[p] \notin Some
  BY <1>1 DEF OnTo, ProcOK
<1>5. Move(p) \/ Acquire(p) \/ Peek(p) \/ Create(p) \/ Unlink(p) \/ Refer(p) =>
        pc'[p] \notin Some
  BY <1>1 DEF Move, Acquire, Peek, Create, Unlink, Refer, ProcOK
<1>6. Enumerate(p) \/ AbortUploads(p) \/ Start(p) => pc'[p] \notin Some
  BY <1>1 DEF Enumerate, AbortUploads, Start, ProcOK
<1>7. Write(p) => pc'[p] = "append"
  BY <1>1 DEF Write, ProcOK
<1>8. Clear(p) => pc'[p] = "release" \/ (pc'[p] = "delete" /\ pc[p] = "cleanall")
  BY <1>1 DEF Clear, ProcOK
<1>9. Take(p) => pc'[p] \notin {"append", "delete"}
  <2> SUFFICES ASSUME Take(p) PROVE pc'[p] \notin {"append", "delete"}
    OBVIOUS
  <2>1. op[p] \in Ops \ {"Begin"} /\ mf[p] # None /\ mf[p] \in Manifests
    BY <1>1 DEF Take, FlowOf, Idle, ProcOK
  <2>2. PICK l \in First(op[p], mf[p]) : pc' = [pc EXCEPT ![p] = l]
    BY DEF Take
  <2> QED BY <1>1, <2>1, <2>2, FirstIs DEF ProcOK
<1> QED BY <1>2, <1>3, <1>4, <1>5, <1>6, <1>7, <1>8, <1>9
        DEF StepKinds, Stop, Lose, Keep, WriteLost, PutEmpty, Copy, Complete, ClearLost,
            Delete, DeleteLost, SweepAll, Fall

\* A step of p keeps ChunkInv.
LEMMA ChunkKept ==
  ASSUME Ground, PartsInv, UnusedInv, OneInv, ChunkInv, OwnerInv, NEW p \in Proc, StepKinds(p)
  PROVE  ChunkInv'
<1>1. Alone(p) /\ Locals(p) /\ ProcOK /\ FlowOf(p) /\ CopyOf(p)
  BY StepAlone, StepLocals DEF Ground, FlowInv, CopyInv
<1>2. \A s \in Proc : pc[s] \in {"lease", "chunk", "append"} => mf[s] # None /\ mf[s].lease \in Nonce
  <2>1. \A s \in Proc : pc[s] \in {"lease", "chunk", "append"} => mf[s] # None
    BY DEF Ground, FlowInv, FlowOf, Idle
  <2>2. \A s \in Proc : mf[s] # None => mf[s].lease # None /\ mf[s].lease \in Nonce \cup {None}
    BY <1>1, ManifestFields DEF Ground, CopyInv, CopyOf, ProcOK
  <2> QED BY <2>1, <2>2
<1>3. \A k \in Writing' : k \in Writing \/ (WriteLost(p) /\ k = mf[p].lease)
  BY NetStep DEF Posted, Writing
<1>4. \A r \in Records' : \A k \in Range(r.chunks) :
        (\E m \in Records : k \in Range(m.chunks)) \/ (pc[p] = "append" /\ k = mf[p].lease)
  BY ChunkSteps
<1>5. ASSUME Take(p)
      PROVE  /\ obj' = obj /\ Writing' = Writing /\ mf'[p] # None /\ mf'[p].lease = mf[p].lease
             /\ Unused(mf[p].lease) /\ pc[p] = "lease"
  <2>1. NewLease(mf[p].lease) /\ mf[p].lease \in Nonce /\ pc[p] = "lease"
    BY <1>2, <1>5 DEF Take, NewLease
  <2>2. mf'[p] # None
    <3>1. \E l : mf'[p] = Marked(mf[p], l)
      BY <1>1, <1>5 DEF Take, ProcOK
    <3>2. mf[p] \in Manifests
      BY <1>1, <1>2, <2>1 DEF ProcOK
    <3> QED BY <3>1, <3>2, MarkedIs, Names
  <2>3. mf'[p].lease = mf[p].lease
    BY <1>1, <2>1, <2>2 DEF Locals, Acquire
  <2> QED BY <1>5, <2>1, <2>2, <2>3 DEF Take, UnusedInv, Writing
<1>6. ASSUME Write(p)
      PROVE  /\ Writing' = Writing /\ mf'[p] = mf[p] /\ pc[p] = "chunk"
             /\ obj'[mf[p].lease] = Append(ShortEnd(mf[p].sum), p)
  <2>1. obj' = [obj EXCEPT ![mf[p].lease] = NewBytes(p)] /\ pc[p] = "chunk" /\ Readable(p)
        /\ net' = net /\ mf' = mf
    BY <1>6 DEF Write
  <2>2. mf[p].lease \in Nonce /\ obj \in [Nonce -> Bytes \cup {None}]
    BY <1>2, <2>1 DEF Ground, BucketOK
  <2> QED BY <2>1, <2>2, ChunkBytes DEF Writing
<1>7. ASSUME NEW s \in Proc, s # p, pc'[s] \in {"chunk", "append"}
      PROVE  /\ pc[s] = pc'[s] /\ mf'[s] = mf[s] /\ mf[s].lease \in Nonce
             /\ pc[p] \in {"chunk", "append"} => mf[p].lease # mf[s].lease
  BY <1>1, <1>2, <1>7 DEF Alone, OneInv
<1>8. ASSUME NEW s \in Proc, pc'[s] \in {"chunk", "append"}
      PROVE  /\ \A r \in Records' : mf'[s].lease \notin Range(r.chunks)
             /\ mf'[s].lease \notin Writing'
  <2>1. CASE s # p
    BY <1>3, <1>4, <1>7, <1>8, <2>1 DEF ChunkInv, WriteLost
  <2>2. CASE s = p /\ Take(p)
    BY <1>4, <1>5, <2>2 DEF Unused
  <2>3. CASE s = p /\ Write(p)
    BY <1>4, <1>6, <2>3 DEF ChunkInv
  <2> QED BY <1>8, <2>1, <2>2, <2>3, ChunkLabels
<1>9. ASSUME NEW s \in Proc, pc'[s] = "chunk" PROVE obj'[mf'[s].lease] = None
  <2>1. CASE s # p
    <3>1. obj[mf[s].lease] = None /\ ~(Write(p) /\ mf[s].lease = mf[p].lease)
      BY <1>7, <1>9, <2>1 DEF ChunkInv, Write
    <3> QED BY <1>7, <1>9, <2>1, <3>1, ObjStep
  <2>2. CASE s = p
    BY <1>5, <1>9, <2>2, ChunkLabels DEF Unused
  <2> QED BY <2>1, <2>2
<1>10. ASSUME NEW s \in Proc, pc'[s] = "append", obj'[mf'[s].lease] # None
       PROVE  obj'[mf'[s].lease] = Append(ShortEnd(mf'[s].sum), s)
  <2>1. CASE s # p
    <3>1. ~(Write(p) /\ mf[s].lease = mf[p].lease)
      BY <1>7, <1>10, <2>1 DEF Write
    <3>2. obj'[mf[s].lease] = obj[mf[s].lease]
      BY <1>7, <1>10, <2>1, <3>1, ObjStep
    <3> QED BY <1>7, <1>10, <2>1, <3>2 DEF ChunkInv
  <2>2. CASE s = p
    BY <1>6, <1>10, <2>2, ChunkLabels
  <2> QED BY <2>1, <2>2
<1>11. ASSUME NEW k \in Writing', NEW r \in Records' PROVE k \notin Range(r.chunks)
  <2>1. CASE k \in Writing
    BY <1>4, <2>1 DEF ChunkInv
  <2>2. CASE WriteLost(p) /\ k = mf[p].lease
    BY <1>4, <2>2 DEF ChunkInv, WriteLost
  <2> QED BY <1>3, <2>1, <2>2
<1>12. ASSUME NEW q \in Saves', q.tag # None, Extended(q.tag, q.next)
       PROVE  q.tag.lease \notin Writing'
  <2>1. CASE q \in Saves
    <3>1. WriteLost(p) => Owner(p)
      BY <1>2 DEF WriteLost, Owner
    <3> QED BY <1>3, <1>12, <2>1, <3>1 DEF ChunkInv, OwnerInv
  <2>2. CASE q \notin Saves
    <3>1. Lose(p) /\ q.tag = tag[p] /\ Sent(p, q.next, q.renew)
      BY <2>2, NetStep DEF Posted, Saves
    <3>2. pc[p] = "append" /\ tag[p] = mf[p]
      BY <1>12, <3>1, SentIs
    <3>3. mf[p].lease \notin Writing
      BY <3>2 DEF ChunkInv
    <3> QED BY <1>3, <3>1, <3>2, <3>3 DEF WriteLost
  <2> QED BY <2>1, <2>2
<1> QED BY <1>8, <1>9, <1>10, <1>11, <1>12 DEF ChunkInv

-----------------------------------------------------------------------------
(* The holder of a lease.                                                  *)

\* The holder of a lease has the ETag of the manifest it has saved.
LEMMA OwnerTag ==
  ASSUME ProcOK, FlowInv, CopyInv, NEW p \in Proc, Owner(p)
  PROVE  /\ tag[p] # None /\ tag[p] \in Manifests /\ mf[p] \in Manifests
         /\ mf[p].lease # None
<1>1. mf[p] # None /\ pc[p] \notin {"lease", "release", "finish"} /\ pc[p] \in Labels /\ FlowOf(p)
        /\ CopyOf(p)
  BY DEF Owner, ProcOK, FlowInv, CopyInv
<1>2. pc[p] \in Same \cup {"freeze", "record", "forget", "receipt", "abort"}
  BY <1>1 DEF FlowOf, Idle, Same, Labels
<1>3. tag[p] # None
  BY <1>1, <1>2 DEF CopyOf
<1> QED BY <1>1, <1>3 DEF CopyOf, ProcOK

\* A step of a process that is the holder of a lease after it.
LEMMA OwnerSteps ==
  ASSUME Ground, NEW p \in Proc, StepKinds(p), Owner(p)'
  PROVE  \/ Take(p)
         \/ /\ Owner(p) /\ net' = net /\ mf'[p].lease = mf[p].lease
            /\ \/ man' = man /\ tag'[p] = tag[p] /\ lapsed' = lapsed
               \/ Move(p) /\ pc[p] \in {"freeze", "record"}
<1>1. Alone(p) /\ Locals(p) /\ ProcOK /\ FlowOf(p) /\ CopyOf(p)
  BY StepAlone, StepLocals DEF Ground, FlowInv, CopyInv
<1>2. mf'[p] # None /\ pc'[p] \notin {"lease", "release", "finish"} /\ p \notin late'
  BY DEF Owner
<1>3. ~Quit(p) /\ ~Back(p)
  BY <1>1, <1>2 DEF Quit, Back, ProcOK
<1>4. mf[p] # None => mf'[p].lease = mf[p].lease
  BY <1>1, <1>2 DEF Locals
<1>5. CASE Move(p)
  <2>1. mf[p] # None
    BY <1>1, <1>5 DEF Move, FlowOf, Idle
  <2>2. pc[p] \in {"freeze", "record"} /\ net' = net /\ p \notin late
    BY <1>1, <1>2, <1>5 DEF Move, ProcOK
  <2> QED BY <1>4, <1>5, <2>1, <2>2 DEF Owner
<1>6. CASE Write(p) \/ Unlink(p) \/ Create(p) \/ Clear(p)
  <2>1. /\ pc[p] \in {"chunk", "copy", "create", "clean", "cleanall"} /\ p \notin late
        /\ net' = net /\ man' = man /\ tag'[p] = tag[p] /\ lapsed' = lapsed
    BY <1>6 DEF Write, Unlink, Create, Clear
  <2>2. mf[p] # None
    BY <1>1, <2>1 DEF FlowOf, Idle
  <2> QED BY <1>4, <2>1, <2>2 DEF Owner
<1>7. CASE Peek(p) \/ Refer(p)
  <2>1. /\ pc[p] \in {"look", "ref"} /\ p \notin late
        /\ net' = net /\ man' = man /\ tag'[p] = tag[p] /\ lapsed' = lapsed
    BY <1>7 DEF Peek, Refer
  <2>2. mf[p] # None
    BY <1>1, <2>1 DEF FlowOf, Idle
  <2> QED BY <1>4, <2>1, <2>2 DEF Owner
<1>8. CASE PutEmpty(p) \/ Copy(p) \/ Complete(p)
  <2>1. /\ pc[p] \in {"put", "copy", "complete"} /\ p \notin late
        /\ net' = net /\ man' = man /\ tag'[p] = tag[p] /\ lapsed' = lapsed
    BY <1>8 DEF PutEmpty, Copy, Complete, OnTo
  <2>2. mf[p] # None
    BY <1>1, <2>1 DEF FlowOf, Idle
  <2> QED BY <1>4, <2>1, <2>2 DEF Owner
<1>9. CASE Enumerate(p)
  <2>1. /\ pc[p] = "list" /\ p \notin late /\ mf' = mf
        /\ net' = net /\ man' = man /\ tag'[p] = tag[p] /\ lapsed' = lapsed
    BY <1>9 DEF Enumerate
  <2> QED BY <1>2, <2>1 DEF Owner
<1>10. ~Acquire(p) /\ ~AbortUploads(p) /\ ~Start(p)
  <2>1. Acquire(p) => pc'[p] = "lease"
    BY <1>1 DEF Acquire, ProcOK
  <2>2. AbortUploads(p) \/ Start(p) => mf' = mf /\ pc[p] \in Idle
    BY DEF AbortUploads, Start, Idle
  <2> QED BY <1>1, <1>2, <2>1, <2>2 DEF FlowOf
<1> QED BY <1>3, <1>5, <1>6, <1>7, <1>8, <1>9, <1>10
        DEF StepKinds, Stop, Lose, Keep, WriteLost, ClearLost,
            Delete, DeleteLost, SweepAll, Fall

\* A step of p keeps OwnerInv.
LEMMA OwnerKept ==
  ASSUME Ground, UnusedInv, OneInv, OwnerInv, NEW p \in Proc, StepKinds(p)
  PROVE  OwnerInv'
<1>1. Alone(p) /\ Locals(p) /\ ProcOK /\ FlowOf(p) /\ CopyOf(p)
  BY StepAlone, StepLocals DEF Ground, FlowInv, CopyInv
<1>2. \A q \in Saves' \cup Deletes' : q \in Saves \cup Deletes \/ (net' # net /\ q.tag = tag[p])
  BY NetStep DEF Posted, Saves, Deletes
<1>3. lapsed' = lapsed \/ lapsed' = FALSE
  BY DEF StepKinds, Stop, Lose, Keep, Move, Take, Acquire, Write, WriteLost, Peek, PutEmpty, Create,
         Copy, Unlink, Complete, Refer, Enumerate, Clear, ClearLost, Delete, DeleteLost, SweepAll,
         AbortUploads, Start, OnTo
<1>4. ASSUME NEW s \in Proc, s # p, Owner(s)'
      PROVE  /\ man' = tag'[s] /\ tag'[s].lease = mf'[s].lease /\ ~lapsed'
             /\ \A t \in Proc : t # s /\ tag'[t] # None => tag'[t].lease # mf'[s].lease
             /\ \A q \in Saves' \cup Deletes' : q.tag # None => q.tag.lease # mf'[s].lease
  <2>1. Owner(s) /\ mf'[s] = mf[s] /\ tag'[s] = tag[s]
    BY <1>1, <1>4 DEF Alone, Owner
  <2>2. tag[s] # None /\ mf[s].lease # None /\ mf[s] # None
    BY <2>1, OwnerTag DEF Ground, Owner
  <2>3. /\ man = tag[s] /\ tag[s].lease = mf[s].lease /\ ~lapsed
        /\ \A t \in Proc : t # s /\ tag[t] # None => tag[t].lease # mf[s].lease
        /\ \A q \in Saves \cup Deletes : q.tag # None => q.tag.lease # mf[s].lease
    BY <2>1 DEF OwnerInv
  <2>4. man # tag[p] /\ ~Acquire(p)
    BY <1>4, <2>2, <2>3 DEF Acquire
  <2>5. man' = man
    BY <1>1, <2>4 DEF Locals, Delete, Keep, Take, Move
  <2>6. tag'[p] # None => tag'[p].lease # mf[s].lease
    BY <1>1, <1>4, <2>2, <2>3, <2>4 DEF Locals, OneInv
  <2>7. \A t \in Proc : t # s /\ tag'[t] # None => tag'[t].lease # mf[s].lease
    BY <1>1, <2>3, <2>6 DEF Alone
  <2>8. \A q \in Saves' \cup Deletes' : q.tag # None => q.tag.lease # mf[s].lease
    BY <1>2, <1>4, <2>3
  <2> QED BY <1>3, <2>1, <2>3, <2>5, <2>7, <2>8
<1>5. ASSUME Owner(p)'
      PROVE  /\ man' = tag'[p] /\ tag'[p].lease = mf'[p].lease /\ ~lapsed'
             /\ \A t \in Proc : t # p /\ tag'[t] # None => tag'[t].lease # mf'[p].lease
             /\ \A q \in Saves' \cup Deletes' : q.tag # None => q.tag.lease # mf'[p].lease
  <2>1. CASE Take(p)
    <3>1. /\ pc[p] = "lease" /\ man' = mf[p] /\ lapsed' = FALSE /\ net' = net
          /\ tag'[p] = mf[p]
      BY <1>1, <2>1 DEF Take, ProcOK
    <3>2. mf[p] # None
      BY <1>1, <3>1 DEF FlowOf, Idle
    <3>3. mf[p].lease \in Nonce /\ mf'[p].lease = mf[p].lease
      BY <1>1, <1>5, <3>2, ManifestFields DEF CopyOf, ProcOK, Locals, Owner
    <3>4. Unused(mf[p].lease)
      BY <3>1, <3>3 DEF UnusedInv, NewLease
    <3> QED BY <1>1, <1>2, <3>1, <3>3, <3>4 DEF Alone, Unused
  <2>2. ASSUME Owner(p), net' = net, mf'[p].lease = mf[p].lease
        PROVE  /\ \A t \in Proc : t # p /\ tag'[t] # None => tag'[t].lease # mf'[p].lease
               /\ \A q \in Saves' \cup Deletes' : q.tag # None => q.tag.lease # mf'[p].lease
    BY <1>1, <1>2, <2>2 DEF Alone, OwnerInv
  <2>3. CASE Owner(p) /\ mf'[p].lease = mf[p].lease /\ net' = net /\ Move(p)
    BY <1>1, <2>2, <2>3 DEF Move, ProcOK
  <2>4. CASE Owner(p) /\ mf'[p].lease = mf[p].lease /\ net' = net
             /\ man' = man /\ tag'[p] = tag[p] /\ lapsed' = lapsed
    BY <2>2, <2>4 DEF OwnerInv
  <2> QED BY <1>5, <2>1, <2>3, <2>4, OwnerSteps
<1> QED BY <1>4, <1>5 DEF OwnerInv

-----------------------------------------------------------------------------
(* Chunks are kept.                                                        *)

\* A step that deletes no chunk leaves every one of them there.
LEMMA ThereKept ==
  ASSUME Ground, PartsInv, SweepInv, ~gone, NEW p \in Proc, StepKinds(p), ~Clear(p), ~ClearLost(p)
  PROVE  /\ Cleaning' \subseteq Cleaning
         /\ \A k \in Nonce : There(k) => There(k)'
<1>1. SweepAll(p) => todo[p] = {}
  BY DEF SweepInv, SweepAll
<1>2. Cleaning' \subseteq Cleaning
  BY <1>1, NetStep DEF Posted, Cleaning
<1>3. ASSUME NEW k \in Nonce, obj[k] # None PROVE obj'[k] # None
  <2>1. obj \in [Nonce -> Bytes \cup {None}]
    BY DEF Ground, BucketOK
  <2>2. CASE SweepAll(p)
    <3>1. obj' = Without({})
      BY <1>1, <2>2 DEF SweepAll
    <3> QED BY <1>3, <3>1 DEF Without
  <2>3. CASE Write(p)
    <3>1. obj' = [obj EXCEPT ![mf[p].lease] = NewBytes(p)] /\ NewBytes(p) # None
      BY <2>3, ChunkBytes, Names DEF Write
    <3> QED BY <1>3, <2>1, <3>1
  <2>4. obj' = obj \/ SweepAll(p) \/ Write(p)
    BY DEF StepKinds, Stop, Lose, Keep, Move, Take, Acquire, WriteLost, Peek, PutEmpty, Create,
           Copy, Unlink, Complete, Refer, Enumerate, Delete, DeleteLost, AbortUploads, Start, OnTo
  <2> QED BY <1>3, <2>2, <2>3, <2>4
<1> QED BY <1>2, <1>3 DEF There

\* A manifest has at most one holder of its lease.
LEMMA OneOwner ==
  ASSUME ProcOK, FlowInv, CopyInv, OwnerInv, NEW p \in Proc, Owner(p)
  PROVE  /\ man = tag[p] /\ man # None /\ man.lease = mf[p].lease /\ man.lease # None
         /\ \A s \in Proc : Owner(s) => s = p
         /\ \A q \in Saves \cup Deletes : q.tag # man
<1>1. \A s \in Proc : Owner(s) => tag[s] # None /\ mf[s].lease # None /\ man = tag[s]
                                  /\ tag[s].lease = mf[s].lease
  BY OwnerTag DEF OwnerInv
<1> QED BY <1>1 DEF OwnerInv

\* A step that deletes chunks keeps KeepParts.
LEMMA KeepClear ==
  ASSUME Ground, PartsInv, OwnerInv, KeepParts, NEW p \in Proc, StepKinds(p), Clear(p) \/ ClearLost(p)
  PROVE  KeepParts'
<1>1. Alone(p) /\ ProcOK /\ FlowOf(p) /\ CopyOf(p)
  BY StepAlone DEF Ground, FlowInv, CopyInv
<1>2. /\ pc[p] \in {"clean", "cleanall"} /\ p \notin late /\ man' = man /\ mf' = mf /\ tag' = tag
      /\ expired' = expired
      /\ pc'[p] = "release" \/ (pc[p] = "cleanall" /\ pc'[p] = "delete")
  <2>1. Clear(p) => pc'[p] = "release" \/ (pc[p] = "cleanall" /\ pc'[p] = "delete")
    BY <1>1 DEF Clear, ProcOK
  <2>2. ClearLost(p) => Back(p)
    BY DEF ClearLost
  <2>3. Back(p) => pc'[p] = "release"
    BY <1>1 DEF Back, ProcOK
  <2>4. Back(p) /\ pc[p] \in {"clean", "cleanall"} => mf' = mf /\ tag' = tag
    BY DEF Back
  <2> QED BY <2>1, <2>2, <2>3, <2>4 DEF Clear, ClearLost
<1>3. mf[p] # None /\ Owner(p)
  BY <1>1, <1>2 DEF FlowOf, Idle, Owner
<1>4. man = mf[p] /\ man.state # "committing"
  BY <1>1, <1>2, <1>3, OneOwner DEF CopyOf, Same, Ground
<1>5. Saves' = Saves
  <2>1. net' = net \/ \E k : net' = net \cup {[to |-> "clean", key |-> k]}
    BY DEF Clear, ClearLost
  <2> QED BY <2>1 DEF Saves
<1>6. \A s \in Proc : Owner(s)' => s = p
  BY <1>1, <1>3, OneOwner DEF Alone, Owner, Ground
<1>7. \A q \in Saves' : q.tag # man'
  BY <1>2, <1>3, <1>5, OneOwner DEF Ground
<1>8. ASSUME man.state = "active", ~expired PROVE Intact'
  <2>1. pc[p] = "clean"
    BY <1>2, <1>3, <1>4, <1>8 DEF KeepParts
  <2>2. Garbage(mf[p], todo[p], pc[p] = "cleanall") = {{}, todo[p] \ Range(man.chunks)}
    BY <1>4, <1>8, <2>1 DEF Garbage
  <2>3. PICK ks : /\ ks \cap Range(man.chunks) = {}
                  /\ obj' = Without(ks)
                  /\ Cleaning' \subseteq Cleaning \cup (todo[p] \ Range(man.chunks))
    <3>1. CASE Clear(p)
      BY <2>2, <3>1 DEF Clear, Cleaning
    <3>2. CASE ClearLost(p)
      <4>1. PICK ks \in {{}, todo[p] \ Range(man.chunks)} : \E k \in ks, some \in SUBSET ks :
               obj' = Without(some) /\ net' = net \cup {[to |-> "clean", key |-> k]}
        BY <2>2, <3>2 DEF ClearLost
      <4>2. PICK k \in ks, some \in SUBSET ks :
               obj' = Without(some) /\ net' = net \cup {[to |-> "clean", key |-> k]}
        BY <4>1
      <4>3. Cleaning' \subseteq Cleaning \cup {k}
        BY <4>2 DEF Cleaning
      <4>4. ks \subseteq todo[p] \ Range(man.chunks)
        BY <4>1
      <4> QED BY <4>2, <4>3, <4>4
    <3> QED BY <3>1, <3>2
  <2>4. Intact /\ Range(man.chunks) \subseteq Nonce
    <3>1. man.chunks \in Seq(Nonce)
      BY <1>3, <1>4, OwnerTag, ManifestFields DEF Ground
    <3> QED BY <1>8, <3>1, RangeIs DEF KeepParts
  <2>5. \A k \in Range(man.chunks) : obj'[k] = obj[k]
    BY <2>3, <2>4 DEF Without
  <2>6. \A k \in Range(man.chunks) : There(k)
    BY <2>4 DEF Intact
  <2> QED BY <1>2, <2>3, <2>5, <2>6 DEF Intact, There
<1>9. Owner(p)' /\ pc'[p] \in {"cleanall", "delete"} /\ mf'[p].state = "active" => expired'
  BY <1>2, <1>3 DEF KeepParts
<1> QED BY <1>2, <1>4, <1>6, <1>7, <1>8, <1>9 DEF KeepParts

\* The manifest of a holder has a lease.
LEMMA LeaseOfOwner ==
  ProcOK /\ FlowInv /\ CopyInv /\ OwnerInv =>
      \A s \in Proc : Owner(s) => man # None /\ man.lease # None
BY OneOwner

\* A step that leaves the manifest as it is keeps KeepParts.
LEMMA KeepSame ==
  ASSUME Ground, PartsInv, SweepInv, OwnerInv, KeepParts, ~gone, man # None,
         NEW p \in Proc, StepKinds(p), ~Clear(p), ~ClearLost(p),
         ~Keep(p), ~Move(p), ~Take(p), ~Delete(p)
  PROVE  KeepParts'
<1>1. Alone(p) /\ ProcOK /\ FlowOf(p) /\ CopyOf(p)
  BY StepAlone DEF Ground, FlowInv, CopyInv
<1>2. man' = man /\ expired' = expired
  BY DEF StepKinds, Stop, Lose, Acquire, Write, WriteLost, Peek, PutEmpty, Create, Copy, Unlink,
         Complete, Refer, Enumerate, DeleteLost, SweepAll, AbortUploads, Start, OnTo
<1>3. Cleaning' \subseteq Cleaning /\ \A k \in Nonce : There(k) => There(k)'
  BY ThereKept
<1>4. Range(man.chunks) \subseteq Nonce /\ man \in Manifests
  <2>1. man \in Manifests
    BY DEF Ground, BucketOK
  <2> QED BY <2>1, ManifestFields, RangeIs
<1>5. Intact => Intact'
  BY <1>2, <1>3, <1>4 DEF Intact
<1>6. ASSUME NEW q \in Saves', q.tag = man, man.state = "active"
      PROVE  /\ Extended(man, q.next) => Intact' /\ There(man.lease)'
             /\ Frozen(man, q.next) => Intact'
  <2>1. Extended(man, q.next) => man.lease \in Nonce
    BY <1>4, ManifestFields DEF Extended
  <2>2. CASE q \in Saves
    BY <1>2, <1>3, <1>5, <1>6, <2>1, <2>2 DEF KeepParts
  <2>3. CASE q \notin Saves
    <3>1. q.tag = tag[p] /\ Sent(p, q.next, q.renew)
      BY <2>3, NetStep DEF Posted, Saves
    <3>2. Extended(man, q.next) => pc[p] = "append" /\ p \notin late /\ man = mf[p]
      BY <1>6, <3>1, SentIs
    <3>3. Frozen(man, q.next) => pc[p] = "freeze" /\ p \notin late
      BY <1>6, <3>1, SentIs
    <3>4. pc[p] \in {"append", "freeze"} /\ p \notin late => Owner(p)
      BY <1>1 DEF FlowOf, Idle, Owner
    <3> QED BY <1>2, <1>3, <1>5, <2>1, <3>2, <3>3, <3>4 DEF KeepParts
  <2> QED BY <2>2, <2>3
<1>7. ASSUME NEW s \in Proc, s # p, Owner(s)'
      PROVE  /\ pc'[s] \in {"chunk", "append", "freeze"} => Intact'
             /\ pc'[s] = "chunk" => mf'[s].lease \notin Cleaning'
             /\ pc'[s] = "append" => There(mf[s].lease)'
             /\ pc'[s] \in {"cleanall", "delete"} /\ mf'[s].state = "active" => expired'
  <2>1. Owner(s) /\ mf'[s] = mf[s] /\ pc'[s] = pc[s]
    BY <1>1, <1>7 DEF Alone, Owner
  <2>2. mf[s].lease \in Nonce
    BY <2>1, OwnerTag, ManifestFields DEF Ground
  <2>3. There(mf[s].lease) => There(mf[s].lease)'
    BY <1>3, <2>1, <2>2
  <2>4. pc[s] \in {"chunk", "append", "freeze"} => Intact
    BY <2>1 DEF KeepParts
  <2>5. pc[s] = "chunk" => mf[s].lease \notin Cleaning
    BY <2>1 DEF KeepParts
  <2>6. pc[s] = "append" => There(mf[s].lease)
    BY <2>1 DEF KeepParts
  <2>7. pc[s] \in {"cleanall", "delete"} /\ mf[s].state = "active" => expired
    BY <2>1 DEF KeepParts
  <2> QED BY <1>2, <1>3, <1>5, <2>1, <2>3, <2>4, <2>5, <2>6, <2>7
<1>8. ASSUME Owner(p)'
      PROVE  /\ pc'[p] \in {"chunk", "append", "freeze"} => Intact' /\ pc'[p] = "append"
             /\ pc'[p] = "append" => There(mf[p].lease)'
             /\ pc'[p] \notin {"cleanall", "delete"}
  <2>1. Write(p) \/ pc'[p] \notin {"chunk", "append", "freeze", "cleanall", "delete"}
    BY ChunkLabels
  <2>2. ASSUME Write(p) PROVE Intact' /\ There(mf[p].lease)' /\ pc'[p] = "append"
    <3>1. /\ pc[p] = "chunk" /\ mf' = mf /\ Readable(p) /\ p \notin late
          /\ obj' = [obj EXCEPT ![mf[p].lease] = NewBytes(p)]
      BY <2>2 DEF Write
    <3>2. Owner(p)
      BY <1>1, <3>1 DEF FlowOf, Idle, Owner
    <3>3. mf[p].lease \in Nonce /\ obj \in [Nonce -> Bytes \cup {None}]
      BY <3>2, OwnerTag, ManifestFields DEF Ground, BucketOK
    <3>4. obj'[mf[p].lease] # None
      BY <3>1, <3>3, ChunkBytes, Names
    <3>5. mf[p].lease \notin Cleaning' /\ Intact
      BY <1>3, <3>1, <3>2 DEF KeepParts
    <3>6. pc'[p] = "append"
      BY <1>1, <2>2 DEF Write, ProcOK
    <3>7. There(mf[p].lease)'
      BY <3>1, <3>4, <3>5 DEF There
    <3> QED BY <1>5, <3>5, <3>6, <3>7
  <2> QED BY <2>1, <2>2
<1>9. man.state = "committing" => Intact'
  BY <1>5 DEF KeepParts
<1>10. man.state = "active" /\ ~expired => Intact'
  BY <1>5 DEF KeepParts
<1>11. \A q \in Saves' : q.tag = man' /\ man'.state = "active" =>
          /\ Extended(man', q.next) => Intact' /\ There(man.lease)'
          /\ Frozen(man', q.next) => Intact'
  BY <1>2, <1>6
<1>12. \A s \in Proc : Owner(s)' =>
          /\ pc'[s] \in {"chunk", "append", "freeze"} => Intact'
          /\ pc'[s] = "chunk" => mf'[s].lease \notin Cleaning'
          /\ pc'[s] = "append" => There(mf[s].lease)'
          /\ pc'[s] \in {"cleanall", "delete"} /\ mf'[s].state = "active" => expired'
  BY <1>7, <1>8
<1> QED BY <1>2, <1>9, <1>10, <1>11, <1>12 DEF KeepParts

\* So does a save that gives the lease back,
LEMMA KeepBack ==
  ASSUME Ground, PartsInv, SweepInv, UnusedInv, OneInv, OwnerInv, KeepParts, ~gone, man # None,
         NEW p \in Proc, StepKinds(p), Keep(p)
  PROVE  KeepParts'
<1>1. ProcOK /\ FlowOf(p) /\ CopyOf(p) /\ man \in Manifests
  BY DEF Ground, FlowInv, CopyInv, BucketOK
<1>2. PICK n \in Manifests, rn \in BOOLEAN :
        Sending(p, n, rn) /\ n.lease = None /\ man' = n /\ expired' = (expired /\ ~rn)
  BY DEF Keep
<1>3. Sent(p, n, rn)
  BY <1>2, SendingIs
<1>4. /\ pc[p] \in {"begin", "release", "finish", "append", "receipt", "abort"} /\ man = tag[p]
      /\ net' = net /\ obj' = obj
  BY DEF Keep
<1>5. \A s \in Proc : ~Owner(s)'
  <2>1. ProcOK' /\ FlowInv' /\ CopyInv' /\ OwnerInv'
    BY ProcKept, FlowKept, CopyKept, OwnerKept
  <2>2. (ProcOK /\ FlowInv /\ CopyInv /\ OwnerInv =>
          \A s \in Proc : Owner(s) => man # None /\ man.lease # None)'
    BY LeaseOfOwner, PTL
  <2> QED BY <1>2, <2>1, <2>2
<1>6. \A q \in Saves' : q.tag = man' => ~Extended(man', q.next) /\ ~Frozen(man', q.next)
  BY <1>2 DEF Extended, Frozen
<1>7. \A k : There(k)' <=> There(k)
  BY <1>4 DEF There, Cleaning
<1>8. CASE pc[p] \in {"release", "finish"}
  <2>1. tag[p] = mf[p] /\ Relabel(mf[p], n) /\ rn = FALSE
    BY <1>3, <1>4, <1>8 DEF Sent
  <2>2. n.state = man.state /\ n.chunks = man.chunks /\ expired' = expired
    BY <1>1, <1>2, <1>4, <2>1, DerivedFields DEF FlagsOK, Ground
  <2>3. Intact => Intact'
    BY <1>2, <1>7, <2>2 DEF Intact
  <2> QED BY <1>2, <1>5, <1>6, <2>2, <2>3 DEF KeepParts
<1>9. CASE pc[p] = "append"
  <2>1. tag[p] = mf[p] /\ Extended(mf[p], n) /\ n = Appended(mf[p], p) /\ p \notin late
    BY <1>3, <1>9 DEF Sent
  <2>2. n.state = "active"
    BY <1>1, <1>2, <1>4, <2>1, DerivedFields
  <2>3. Owner(p)
    BY <1>1, <1>9, <2>1 DEF FlowOf, Idle, Owner
  <2>4. Intact /\ There(mf[p].lease)
    BY <1>9, <2>3 DEF KeepParts
  <2>5. ShapeOf(mf[p]) /\ mf[p] \in Manifests /\ mf[p].lease # None /\ Len(mf[p].sum) < MaxLen
    BY <1>1, <1>4, <1>9, <2>1, CopyRecords DEF Ground, CopyOf, Extended
  <2>6. \A k \in Range(n.chunks) : k \in Range(mf[p].chunks) \/ k = mf[p].lease
    <3>1. /\ Len(n.chunks) \in Nat \ {0} /\ n.chunks[Len(n.chunks)] = mf[p].lease
          /\ \A j \in 1 .. Len(n.chunks) - 1 :
                j \in 1 .. Len(mf[p].chunks) /\ n.chunks[j] = mf[p].chunks[j]
      BY <2>1, <2>5, AppendedFields
    <3>2. n.chunks \in Seq(Nonce) /\ mf[p].chunks \in Seq(Nonce)
      BY <2>5, ManifestFields
    <3> SUFFICES ASSUME NEW i \in 1 .. Len(n.chunks), i # Len(n.chunks)
                 PROVE  n.chunks[i] \in Range(mf[p].chunks)
      BY <3>1, <3>2, RangeIs
    <3>3. i \in 1 .. Len(n.chunks) - 1
      BY <3>1
    <3> QED BY <3>1, <3>2, <3>3, RangeIs
  <2>7. Intact'
    BY <1>2, <1>4, <1>7, <2>1, <2>4, <2>6 DEF Intact
  <2> QED BY <1>2, <1>5, <1>6, <2>2, <2>7 DEF KeepParts
<1>10. CASE pc[p] \in {"receipt", "abort"}
  <2>1. Received(tag[p], n) \/ Dropped(tag[p], n)
    BY <1>3, <1>10 DEF Sent
  <2>2. n.state \in {"committed", "aborted"}
    BY <1>1, <1>2, <1>4, <2>1, DerivedFields
  <2> QED BY <1>2, <1>5, <1>6, <2>2 DEF KeepParts
<1>11. pc[p] # "begin"
  BY <1>1, <1>4 DEF FlowOf, Idle
<1> QED BY <1>4, <1>8, <1>9, <1>10, <1>11

\* Only a delete is final.
LEMMA GoneStays ==
  ASSUME NEW p \in Proc, StepKinds(p), ~gone'
  PROVE  ~gone /\ ~Delete(p)
<1>1. ~Delete(p)
  BY DEF Delete
<1>2. gone' = gone
  BY <1>1 DEF StepKinds, Stop, Lose, Keep, Move, Take, Acquire, Write, WriteLost, Peek, PutEmpty,
              Create, Copy, Unlink, Complete, Refer, Enumerate, Clear, ClearLost, DeleteLost,
              SweepAll, AbortUploads, Start, OnTo
<1> QED BY <1>1, <1>2

\* Only a save that gives the lease back is acknowledged.
LEMMA OnlyKeep ==
  ASSUME NEW p \in Proc, StepKinds(p), ~Keep(p)
  PROVE  begun' = begun /\ acked' = acked
BY DEF StepKinds, Stop, Lose, Move, Take, Acquire, Write, WriteLost, Peek, PutEmpty, Create,
       Copy, Unlink, Complete, Refer, Enumerate, Clear, ClearLost, Delete, DeleteLost, SweepAll,
       AbortUploads, Start, OnTo

\* a save of the holder's copy,
LEMMA KeepMove ==
  ASSUME Ground, OwnerInv, KeepParts, NEW p \in Proc, StepKinds(p), Move(p)
  PROVE  KeepParts'
<1>1. Alone(p) /\ ProcOK /\ FlowOf(p) /\ CopyOf(p)
  BY StepAlone DEF Ground, FlowInv, CopyInv
<1>2. /\ pc[p] \in {"freeze", "record", "forget", "receipt"} /\ p \notin late /\ man = tag[p]
      /\ man' = mf[p] /\ net' = net /\ obj' = obj
      /\ pc'[p] \in {"look", "copy", "release", "finish"}
  BY <1>1 DEF Move, ProcOK
<1>3. mf[p] # None /\ Owner(p)
  BY <1>1, <1>2 DEF FlowOf, Idle, Owner
<1>4. tag[p] \in Manifests /\ mf[p] \in Manifests
  BY <1>3, OwnerTag DEF Ground
<1>5. /\ man'.chunks = man.chunks /\ man'.state # "active"
      /\ man'.state = "committing" => pc[p] = "freeze" \/ man.state = "committing"
  BY <1>1, <1>2, <1>3, <1>4, DerivedFields DEF CopyOf
<1>6. \A k : There(k)' <=> There(k)
  BY <1>2 DEF There, Cleaning
<1>7. man'.state = "committing" => Intact'
  BY <1>2, <1>3, <1>5, <1>6 DEF KeepParts, Intact
<1>8. \A s \in Proc : Owner(s)' => s = p
  BY <1>1, <1>3, OneOwner DEF Alone, Owner, Ground
<1> QED BY <1>2, <1>5, <1>7, <1>8 DEF KeepParts

\* and the save of a lease.
LEMMA KeepTake ==
  ASSUME Ground, UnusedInv, OneInv, OwnerInv, KeepParts, NEW p \in Proc, StepKinds(p), Take(p)
  PROVE  KeepParts'
<1>1. Alone(p) /\ ProcOK /\ FlowOf(p) /\ CopyOf(p)
  BY StepAlone DEF Ground, FlowInv, CopyInv
<1>2. /\ pc[p] = "lease" /\ p \notin late /\ man = tag[p]
      /\ man' = mf[p] /\ net' = net /\ obj' = obj /\ expired' = expired
  BY DEF Take
<1>3. mf[p] # None /\ tag[p] # None /\ mf[p].lease # None /\ Relabel(tag[p], mf[p])
  BY <1>1, <1>2 DEF FlowOf, Idle, CopyOf
<1>4. tag[p] \in Manifests /\ mf[p] \in Manifests /\ op[p] \in Ops \ {"Begin"} /\ mf[p].lease \in Nonce
  BY <1>1, <1>2, <1>3, ManifestFields DEF ProcOK, FlowOf
<1>5. man'.chunks = man.chunks /\ man'.state = man.state
  BY <1>2, <1>3, <1>4, DerivedFields
<1>6. \A k : There(k)' <=> There(k)
  BY <1>2 DEF There, Cleaning
<1>7. Intact => Intact'
  BY <1>5, <1>6 DEF Intact
<1>8. Unused(mf[p].lease)
  BY <1>2, <1>4 DEF UnusedInv, NewLease
<1>9. \A q \in Saves' : q.tag # man'
  <2>1. Saves' = Saves
    BY <1>2 DEF Saves
  <2> QED BY <1>2, <1>3, <1>8, <2>1 DEF Unused
<1>10. \A s \in Proc : Owner(s)' => s = p
  <2> SUFFICES ASSUME NEW s \in Proc, s # p, Owner(s)' PROVE FALSE
    OBVIOUS
  <2>1. Owner(s) /\ mf[s] # None
    BY <1>1 DEF Alone, Owner
  <2>2. tag[s] # None /\ tag[s] = tag[p]
    BY <1>2, <2>1, OneOwner DEF Ground
  <2> QED BY <1>3, <2>1, <2>2 DEF OwnerInv
<1>11. PICK l \in First(op[p], mf[p]) :
          pc' = [pc EXCEPT ![p] = l] /\ mf' = [mf EXCEPT ![p] = Marked(mf[p], l)]
  BY DEF Take
<1>12. pc'[p] = l /\ mf'[p].lease = mf[p].lease
  BY <1>1, <1>4, <1>11, MarkedIs DEF ProcOK
<1>13. /\ l \notin {"append", "delete"}
       /\ l \in {"chunk", "freeze"} => mf[p].state = "active" /\ ~expired
       /\ l = "cleanall" => expired
  BY <1>4, FirstIs
<1>14. l \in {"chunk", "freeze"} => Intact'
  BY <1>2, <1>5, <1>7, <1>13 DEF KeepParts
<1>15. mf'[p].lease \notin Cleaning'
  BY <1>2, <1>8, <1>12 DEF Unused, Cleaning
<1>16. man'.state = "committing" => Intact'
  BY <1>5, <1>7 DEF KeepParts
<1>17. man'.state = "active" /\ ~expired' => Intact'
  BY <1>2, <1>5, <1>7 DEF KeepParts
<1> QED BY <1>2, <1>9, <1>10, <1>12, <1>13, <1>14, <1>15, <1>16, <1>17 DEF KeepParts

\* Begin's save makes KeepParts true.
LEMMA KeepFirst ==
  ASSUME Ground, EmptyInv, ~gone, man = None, NEW p \in Proc, StepKinds(p), man' # None
  PROVE  KeepParts' /\ Keep(p) /\ pc[p] = "begin" /\ man' = FirstManifest
<1>1. Alone(p) /\ Locals(p) /\ ProcOK
  BY StepAlone, StepLocals DEF Ground
<1>2. \A s \in Proc : mf[s] = None
  BY DEF EmptyInv
<1>3. Keep(p)
  BY <1>1, <1>2 DEF Locals
<1>4. pc[p] = "begin"
  <2>1. pc[p] \in Idle \/ pc[p] = "list"
    BY <1>2 DEF Ground, FlowInv, FlowOf
  <2> QED BY <1>3, <2>1 DEF Keep, Idle
<1>5. man' = FirstManifest /\ net' = net /\ obj' = obj
  BY <1>3, <1>4 DEF Keep, Sending
<1>6. man'.chunks = <<>>
  BY <1>5 DEF FirstManifest
<1>7. Range(man'.chunks) = {}
  <2>1. \A e : e = <<>> => Range(e) = {}
    BY DEF Range
  <2> QED BY <1>6, <2>1
<1>8. Intact'
  BY <1>7 DEF Intact
<1>9. \A s \in Proc : ~Owner(s)'
  <2>1. mf'[p] = None
    BY <1>1, <1>3 DEF Keep, Quit, ProcOK
  <2> QED BY <1>1, <1>2, <2>1 DEF Alone, Owner
<1>10. \A q \in Saves' : q.tag = None
  BY <1>5 DEF EmptyInv, Saves
<1> QED BY <1>3, <1>4, <1>5, <1>8, <1>9, <1>10, Names DEF KeepParts

\* A step of p keeps KeepInv.
LEMMA KeepKept ==
  ASSUME Ground, PartsInv, SweepInv, EmptyInv, UnusedInv, OneInv, OwnerInv, KeepInv,
         NEW p \in Proc, StepKinds(p)
  PROVE  KeepInv'
<1> SUFFICES ASSUME ~gone', man' # None PROVE KeepParts'
  BY DEF KeepInv, KeepParts
<1>1. ~gone /\ ~Delete(p)
  BY GoneStays
<1>2. CASE man = None
  BY <1>1, <1>2, KeepFirst
<1>3. CASE man # None
  <2>1. KeepParts
    BY <1>1, <1>3 DEF KeepInv, KeepParts
  <2> QED BY <1>1, <1>3, <2>1, KeepClear, KeepSame, KeepBack, KeepMove, KeepTake
<1> QED BY <1>2, <1>3

-----------------------------------------------------------------------------
(* Before the first manifest, and what is acknowledged.                    *)

\* A step of p keeps SweepInv,
LEMMA SweepKept ==
  ASSUME Ground, SweepInv, EmptyInv, NEW p \in Proc, StepKinds(p)
  PROVE  SweepInv'
<1>1. Alone(p) /\ ProcOK
  BY StepAlone DEF Ground
<1>2. ~gone' => ~gone
  BY GoneStays
<1>3. pc'[p] = "sweep" => Enumerate(p) /\ man = None
  <2>1. Quit(p) \/ Back(p) => pc'[p] # "sweep"
    BY <1>1 DEF Quit, Back, ProcOK
  <2>2. \A l \in {"ref", "complete"} : OnTo(p, l) => pc'[p] # "sweep"
    BY <1>1 DEF OnTo, ProcOK
  <2>3. Move(p) \/ Acquire(p) \/ Write(p) \/ Peek(p) \/ Create(p) \/ Unlink(p) \/ Refer(p)
        \/ Clear(p) \/ AbortUploads(p) \/ Start(p) => pc'[p] # "sweep"
    BY <1>1 DEF Move, Acquire, Write, Peek, Create, Unlink, Refer, Clear, AbortUploads, Start,
       ProcOK
  <2>4. Take(p) => pc'[p] # "sweep"
    <3> SUFFICES ASSUME Take(p) PROVE pc'[p] # "sweep"
      OBVIOUS
    <3>1. op[p] \in Ops \ {"Begin"} /\ mf[p] # None /\ mf[p] \in Manifests
      BY <1>1 DEF Take, FlowInv, FlowOf, Idle, ProcOK, Ground
    <3>2. PICK l \in First(op[p], mf[p]) : pc' = [pc EXCEPT ![p] = l]
      BY DEF Take
    <3> QED BY <1>1, <3>1, <3>2, FirstIs DEF ProcOK
  <2>5. Enumerate(p) /\ pc'[p] = "sweep" => man = None
    BY <1>1 DEF Enumerate, ProcOK
  <2> QED BY <2>1, <2>2, <2>3, <2>4, <2>5
          DEF StepKinds, Stop, Lose, Keep, WriteLost, PutEmpty, Copy, Complete, ClearLost,
              Delete, DeleteLost, SweepAll, Fall
<1>4. ~gone /\ man = None => Chunks = {}
  BY DEF EmptyInv, Chunks
<1>5. Enumerate(p) => todo'[p] = Chunks
  BY <1>1 DEF Enumerate, ProcOK
<1> QED BY <1>1, <1>2, <1>3, <1>4, <1>5 DEF SweepInv, Alone

\* EmptyInv
LEMMA EmptyKept ==
  ASSUME Ground, PartsInv, EmptyInv, NEW p \in Proc, StepKinds(p)
  PROVE  EmptyInv'
<1> SUFFICES ASSUME ~gone', man' = None
             PROVE  /\ ~begun'
                    /\ \A s \in Proc : mf'[s] = None /\ todo'[s] = {}
                    /\ \A k \in Nonce : obj'[k] = None
                    /\ \A q \in net' : q.to = "save" /\ q.tag = None /\ q.next.state = "active"
                                       /\ q.next.sum = <<>> /\ q.next.chunks = <<>>
  BY DEF EmptyInv
<1>1. Alone(p) /\ Locals(p) /\ ProcOK /\ FlowOf(p)
  BY StepAlone, StepLocals DEF Ground, FlowInv
<1>2. ~gone /\ ~Delete(p)
  BY GoneStays
<1>3. ~Keep(p)
  BY Names DEF Keep
<1>4. man = None
  BY <1>1, <1>2, <1>3 DEF Locals
<1>5. /\ ~begun
      /\ \A s \in Proc : mf[s] = None /\ todo[s] = {}
      /\ \A k \in Nonce : obj[k] = None
      /\ \A q \in net : q.to = "save" /\ q.tag = None /\ q.next.state = "active"
                        /\ q.next.sum = <<>> /\ q.next.chunks = <<>>
  BY <1>2, <1>4 DEF EmptyInv
<1>6. begun' = begun
  BY <1>3, OnlyKeep
<1>7. mf'[p] = None
  BY <1>1, <1>4, <1>5 DEF Locals, Acquire
<1>8. todo'[p] = {}
  BY <1>1, <1>5 DEF Locals, Chunks
<1>9. pc[p] \in Idle \cup {"list"} /\ tag[p] = None
  BY <1>1, <1>5 DEF FlowOf
<1>10. \A k \in Nonce : obj'[k] = None
  BY <1>5, <1>9, ObjStep DEF Write, Idle
<1>11. ASSUME NEW q \in net', q \notin net
       PROVE  q.to = "save" /\ q.tag = None /\ q.next.state = "active"
              /\ q.next.sum = <<>> /\ q.next.chunks = <<>>
  <2>1. Posted(p, q)
    BY <1>11, NetStep
  <2>2. Lose(p) /\ q.to = "save" /\ q.tag = tag[p] /\ Sent(p, q.next, q.renew)
    BY <1>5, <1>9, <2>1 DEF Posted, DeleteLost, WriteLost, ClearLost, Idle
  <2>3. q.next = FirstManifest
    BY <1>5, <2>2 DEF Sent
  <2> QED BY <1>9, <2>2, <2>3 DEF FirstManifest
<1> QED BY <1>1, <1>5, <1>6, <1>7, <1>8, <1>10, <1>11 DEF Alone

\* and FirstInv.
LEMMA FirstKept ==
  ASSUME Ground, FirstInv, NEW p \in Proc, StepKinds(p)
  PROVE  FirstInv'
<1>1. Alone(p) /\ ProcOK /\ FlowOf(p)
  BY StepAlone DEF Ground, FlowInv
<1>2. CASE Keep(p)
  <2>1. pc[p] = "append" => begun
    BY <1>1 DEF FlowOf
  <2>2. begun' = (begun \/ pc[p] = "begin") /\ (pc[p] # "append" => acked' = acked)
    BY <1>2 DEF Keep
  <2>3. ~begun' => acked' = <<>>
    BY <2>1, <2>2 DEF FirstInv
  <2>4. pc'[p] # "begin"
    BY <1>1, <1>2 DEF Keep, Quit, ProcOK
  <2>5. \A s, t \in Proc : pc'[s] = "begin" => ~begun' /\ (pc'[t] = "begin" => s = t)
    BY <1>1, <2>2, <2>4 DEF Alone, FirstInv
  <2> QED BY <2>3, <2>5 DEF FirstInv
<1>3. CASE ~Keep(p)
  <2>1. begun' = begun /\ acked' = acked
    BY <1>3, OnlyKeep
  <2>2. pc'[p] # "begin"
    <3>1. Quit(p) \/ Back(p) => pc'[p] # "begin"
      BY <1>1 DEF Quit, Back, ProcOK
    <3>2. \A l \in {"ref", "complete"} : OnTo(p, l) => pc'[p] # "begin"
      BY <1>1 DEF OnTo, ProcOK
    <3>3. Move(p) \/ Acquire(p) \/ Write(p) \/ Peek(p) \/ Create(p) \/ Unlink(p) \/ Refer(p)
          \/ Enumerate(p) \/ Clear(p) \/ AbortUploads(p) \/ Start(p) => pc'[p] # "begin"
      BY <1>1 DEF Move, Acquire, Write, Peek, Create, Unlink, Refer, Enumerate, Clear,
                  AbortUploads, Start, ProcOK
    <3>4. Take(p) => pc'[p] # "begin"
      <4> SUFFICES ASSUME Take(p) PROVE pc'[p] # "begin"
        OBVIOUS
      <4>1. op[p] \in Ops \ {"Begin"} /\ mf[p] # None /\ mf[p] \in Manifests
        BY <1>1 DEF Take, FlowOf, Idle, ProcOK
      <4>2. PICK l \in First(op[p], mf[p]) : pc' = [pc EXCEPT ![p] = l]
        BY DEF Take
      <4> QED BY <1>1, <4>1, <4>2, FirstIs DEF ProcOK
    <3> QED BY <3>1, <3>2, <3>3, <3>4
            DEF StepKinds, Stop, Lose, Keep, WriteLost, PutEmpty, Copy, Complete, ClearLost,
                Delete, DeleteLost, SweepAll, Fall
  <2> QED BY <1>1, <2>1, <2>2 DEF Alone, FirstInv
<1> QED BY <1>2, <1>3

\* What is acknowledged stays.
LEMMA SumKept ==
  ASSUME Ground, FirstInv, SumInv, NEW p \in Proc, StepKinds(p)
  PROVE  SumInv'
<1> SUFFICES ASSUME begun', ~gone' PROVE man' # None /\ IsPrefix(acked', man'.sum)
  BY DEF SumInv, StageKept
<1>1. ProcOK /\ FlowOf(p) /\ CopyOf(p) /\ Locals(p)
  BY StepLocals DEF Ground, FlowInv, CopyInv
<1>2. ~gone /\ ~Delete(p)
  BY GoneStays
<1>3. ASSUME begun PROVE man # None /\ IsPrefix(acked, man.sum) /\ man \in Manifests
  BY <1>2, <1>3 DEF SumInv, StageKept, Ground, BucketOK
<1>4. CASE Keep(p)
  <2>1. PICK n \in Manifests, rn \in BOOLEAN :
          /\ Sending(p, n, rn) /\ man' = n
          /\ acked' = IF pc[p] = "append" THEN n.sum ELSE acked
    BY <1>4 DEF Keep
  <2>2. Sent(p, n, rn) /\ man = tag[p]
    BY <1>4, <2>1, SendingIs DEF Keep
  <2>3. /\ pc[p] \in {"begin", "release", "finish", "append", "receipt", "abort"}
        /\ begun' = (begun \/ pc[p] = "begin")
    BY <1>4 DEF Keep
  <2>4. n.sum \in Seq(Proc) /\ n # None
    BY ManifestFields
  <2>5. CASE pc[p] = "append"
    BY <2>1, <2>4, <2>5, PrefixRules
  <2>6. CASE pc[p] = "begin"
    <3>1. acked' = <<>> /\ man' = FirstManifest
      BY <2>1, <2>2, <2>6 DEF FirstInv, Sent
    <3>2. IsPrefix(<<>>, n.sum)
      BY <2>4, PrefixRules
    <3> QED BY <2>1, <2>4, <3>1, <3>2
  <2>7. CASE pc[p] \in {"release", "finish", "receipt", "abort"}
    <3>1. begun
      BY <2>3, <2>7
    <3>2. tag[p] # None /\ tag[p] \in Manifests
      BY <1>3, <2>2, <3>1
    <3>3. Relabel(tag[p], n) \/ Received(tag[p], n) \/ Dropped(tag[p], n)
      BY <2>2, <2>7, <3>2 DEF Sent
    <3>4. n.sum = man.sum
      BY <2>2, <3>2, <3>3, DerivedFields
    <3> QED BY <1>3, <2>1, <2>4, <2>7, <3>1, <3>4
  <2> QED BY <2>3, <2>5, <2>6, <2>7
<1>5. CASE ~Keep(p)
  <2>1. begun' = begun /\ acked' = acked
    BY <1>5, OnlyKeep
  <2>2. CASE Take(p) \/ Move(p)
    <3>1. /\ mf[p] # None /\ man = tag[p] /\ man' = mf[p]
          /\ pc[p] \in {"lease", "freeze", "record", "forget", "receipt"}
      BY <1>1, <2>2 DEF Take, Move, FlowOf, Idle
    <3>2. /\ mf[p] \in Manifests /\ tag[p] \in Manifests
          /\ Relabel(tag[p], mf[p]) \/ Frozen(tag[p], mf[p]) \/ Noted(tag[p], mf[p])
             \/ Received(tag[p], mf[p])
      BY <1>1, <3>1 DEF CopyOf, ProcOK
    <3>3. mf[p].sum = tag[p].sum
      BY <3>2, DerivedFields
    <3> QED BY <1>3, <2>1, <3>1, <3>3
  <2>3. CASE ~Take(p) /\ ~Move(p)
    <3>1. man' = man
      BY <1>1, <1>2, <1>5, <2>3 DEF Locals
    <3> QED BY <1>3, <2>1, <3>1
  <2> QED BY <2>2, <2>3
<1> QED BY <1>4, <1>5

-----------------------------------------------------------------------------
(* Requests that arrive late.                                              *)

\* What a late request leaves alone.
LEMMA LateFacts ==
  ASSUME NetOK, NEW q \in net, LateKinds(q)
  PROVE  /\ UNCHANGED <<op, pc, mf, tag, todo, late, mpu, begun, acked>>
         /\ net' = net \ {q}
         /\ Saves' = Saves \ {q} /\ Deletes' = Deletes \ {q}
         /\ Writing' \subseteq Writing /\ Cleaning' \subseteq Cleaning
         /\ Records' \subseteq Records
         /\ \/ man' = man /\ lapsed' = lapsed /\ expired' = expired /\ gone' = gone
            \/ LateSave(q) /\ q \in Saves
            \/ LateDelete(q) /\ q \in Deletes
<1>1. net' = net \ {q} /\ UNCHANGED <<op, pc, mf, tag, todo, late, mpu, begun, acked>>
  BY DEF LateKinds, LateSave, LateDelete, LateNothing, LateChunk, LateClean, LateRest
<1>2. Saves' = Saves \ {q} /\ Deletes' = Deletes \ {q}
  BY <1>1 DEF Saves, Deletes
<1>3. Writing' \subseteq Writing /\ Cleaning' \subseteq Cleaning
  BY <1>1 DEF Writing, Cleaning
<1>4. \/ man' = man /\ lapsed' = lapsed /\ expired' = expired /\ gone' = gone
      \/ LateSave(q) /\ q \in Saves
      \/ LateDelete(q) /\ q \in Deletes
  BY DEF LateKinds, LateSave, LateDelete, LateNothing, LateChunk, LateClean, Saves, Deletes
<1> QED BY <1>1, <1>2, <1>3, <1>4, RecordsDelivered

\* It keeps the types,
LEMMA TypesLate ==
  ASSUME BucketOK, NetOK, ProcOK, FlagsOK, NEW q \in net, LateKinds(q)
  PROVE  BucketOK' /\ NetOK' /\ ProcOK' /\ FlagsOK'
<1>1. /\ UNCHANGED <<op, pc, mf, tag, todo, late, mpu, begun, acked>>
      /\ net' = net \ {q}
      /\ \/ man' = man /\ lapsed' = lapsed /\ expired' = expired /\ gone' = gone
         \/ LateSave(q) /\ q \in Saves
         \/ LateDelete(q) /\ q \in Deletes
  BY LateFacts
<1>2. NetOK' /\ ProcOK'
  BY <1>1 DEF NetOK, ProcOK
<1>3. man' \in Manifests \cup {None}
  <2>1. q.to = "save" => q.next \in Manifests
    BY RequestFields DEF NetOK
  <2> QED BY <1>1, <2>1 DEF BucketOK, LateSave, LateDelete
<1>4. UNCHANGED <<blob, ref, erased>>
  BY DEF LateKinds, LateSave, LateDelete, LateNothing, LateChunk, LateClean, LateRest, Rest
<1>5. BucketOK'
  BY <1>1, <1>3, <1>4, ObjLate DEF BucketOK
<1>6. lapsed' \in BOOLEAN /\ expired' \in BOOLEAN /\ gone' \in BOOLEAN
  <2>1. CASE man' = man /\ lapsed' = lapsed /\ expired' = expired /\ gone' = gone
    BY <2>1 DEF FlagsOK
  <2>2. CASE LateSave(q)
    BY <2>2 DEF FlagsOK, LateSave
  <2>3. CASE LateDelete(q)
    BY <2>3 DEF FlagsOK, LateDelete
  <2> QED BY <1>1, <2>1, <2>2, <2>3
<1>7. FlagsOK'
  BY <1>1, <1>6 DEF FlagsOK
<1> QED BY <1>2, <1>5, <1>7

\* what is about processes and requests,
LEMMA LocalLate ==
  ASSUME NetOK, FlowInv, CopyInv, EdgeInv, ShapeInv, FirstInv, OneInv, NEW q \in net, LateKinds(q)
  PROVE  FlowInv' /\ CopyInv' /\ EdgeInv' /\ ShapeInv' /\ FirstInv' /\ OneInv'
<1>1. /\ UNCHANGED <<op, pc, mf, tag, todo, late, mpu, begun, acked>>
      /\ net' = net \ {q} /\ Saves' = Saves \ {q} /\ Records' \subseteq Records
  BY LateFacts
<1>2. FlowInv'
  BY <1>1 DEF FlowInv, FlowOf
<1>3. CopyInv'
  BY <1>1 DEF CopyInv, CopyOf
<1>4. EdgeInv' /\ ShapeInv'
  BY <1>1, EdgeLate, ShapeLate
<1>5. FirstInv'
  BY <1>1 DEF FirstInv
<1>6. OneInv'
  BY <1>1 DEF OneInv
<1> QED BY <1>2, <1>3, <1>4, <1>5, <1>6

\* UnusedInv,
LEMMA UnusedLate ==
  ASSUME BucketOK, NetOK, EdgeInv, UnusedInv, OneInv, NEW q \in net, LateKinds(q)
  PROVE  UnusedInv'
<1> SUFFICES ASSUME NEW k \in Nonce, NewLease(k)' PROVE Unused(k)'
  BY DEF UnusedInv
<1>1. /\ UNCHANGED <<op, pc, mf, tag, todo, late, mpu, begun, acked>>
      /\ Saves' = Saves \ {q} /\ Deletes' = Deletes \ {q}
      /\ Writing' \subseteq Writing /\ Cleaning' \subseteq Cleaning
      /\ Records' \subseteq Records
      /\ \/ man' = man
         \/ LateSave(q) /\ q \in Saves
         \/ LateDelete(q) /\ q \in Deletes
  BY LateFacts
<1>2. NewLease(k)
  BY <1>1 DEF NewLease
<1>3. Unused(k)
  BY <1>2 DEF UnusedInv
<1>4. obj'[k] = None
  <2>1. q.to = "chunk" => q.key # k
    BY <1>3 DEF Unused, Writing
  <2> QED BY <1>3, <2>1, ObjLate DEF Unused
<1>5. LateSave(q) /\ q \in Saves => q.next.lease # k
  <2> SUFFICES ASSUME q \in Saves, q.next.lease = k PROVE FALSE
    OBVIOUS
  <2>1. q.tag # None
    BY Names DEF EdgeInv
  <2>2. q.tag.lease # k
    BY <1>3, <2>1 DEF Unused
  <2>3. CASE \E p \in Proc : pc[p] = "lease" /\ mf[p].lease = k
    BY <2>3 DEF OneInv
  <2>4. CASE \E q2 \in Saves \ {q} : q2.next.lease = k
    BY <2>1, <2>2, <2>4, Names DEF OneInv
  <2> QED BY <1>1, <2>3, <2>4 DEF NewLease
<1>6. man' # None => man'.lease # k
  BY <1>1, <1>3, <1>5 DEF LateSave, LateDelete, Unused
<1> QED BY <1>1, <1>3, <1>4, <1>6 DEF Unused

\* ChunkInv
LEMMA ChunkLate ==
  ASSUME BucketOK, NetOK, ProcOK, FlowInv, CopyInv, ChunkInv, NEW q \in net, LateKinds(q)
  PROVE  ChunkInv'
<1>1. /\ UNCHANGED <<op, pc, mf, tag, todo, late, mpu, begun, acked>>
      /\ Saves' = Saves \ {q} /\ Writing' \subseteq Writing /\ Records' \subseteq Records
  BY LateFacts
<1>2. \A p \in Proc : pc[p] \in {"chunk", "append"} => mf[p].lease \in Nonce
  <2>1. \A p \in Proc : pc[p] \in {"chunk", "append"} => mf[p] # None
    BY DEF FlowInv, FlowOf, Idle
  <2> QED BY <2>1, ManifestFields DEF CopyInv, CopyOf, ProcOK
<1>3. \A p \in Proc : pc[p] \in {"chunk", "append"} =>
        obj'[mf[p].lease] = obj[mf[p].lease] \/ obj'[mf[p].lease] = None
  <2>1. q.to = "chunk" => q.key \in Writing
    BY DEF Writing
  <2>2. \A p \in Proc : pc[p] \in {"chunk", "append"} => mf[p].lease \notin Writing
    BY DEF ChunkInv
  <2> QED BY <1>2, <2>1, <2>2, ObjLate
<1>4. \A p \in Proc : pc[p] = "chunk" => obj'[mf[p].lease] = None
  BY <1>3 DEF ChunkInv
<1>5. \A p \in Proc : pc[p] = "append" /\ obj'[mf[p].lease] # None =>
        obj'[mf[p].lease] = Append(ShortEnd(mf[p].sum), p)
  BY <1>3 DEF ChunkInv
<1> QED BY <1>1, <1>4, <1>5 DEF ChunkInv

\* and OwnerInv: it changes no manifest whose lease is in force.
LEMMA OwnerLate ==
  ASSUME NetOK, ProcOK, FlowInv, CopyInv, OwnerInv, NEW q \in net, LateKinds(q)
  PROVE  /\ OwnerInv'
         /\ \A p \in Proc : Owner(p)' <=> Owner(p)
         /\ (\E p \in Proc : Owner(p)) => ~LateSave(q) /\ ~LateDelete(q)
<1>1. /\ UNCHANGED <<op, pc, mf, tag, todo, late, mpu, begun, acked>>
      /\ Saves' = Saves \ {q} /\ Deletes' = Deletes \ {q}
      /\ \/ man' = man /\ lapsed' = lapsed
         \/ LateSave(q) /\ q \in Saves
         \/ LateDelete(q) /\ q \in Deletes
  BY LateFacts
<1>2. \A p \in Proc : Owner(p)' <=> Owner(p)
  BY <1>1 DEF Owner
<1>3. (\E p \in Proc : Owner(p)) => ~LateSave(q) /\ ~LateDelete(q)
  <2>1. LateSave(q) \/ LateDelete(q) => q \in Saves \cup Deletes /\ q.tag = man
    BY DEF LateSave, LateDelete, Saves, Deletes
  <2> QED BY <2>1, OneOwner
<1> QED BY <1>1, <1>2, <1>3 DEF OwnerInv

\* A longer manifest refers to chunks of the shorter one, and to one more.
LEMMA AppendedChunks ==
  ASSUME NEW r \in Manifests, ShapeOf(r), r.lease # None, Len(r.sum) < MaxLen, NEW p \in Proc,
         NEW k \in Range(Appended(r, p).chunks)
  PROVE  k \in Range(r.chunks) \/ k = r.lease
<1> DEFINE n == Appended(r, p)
<1>1. /\ n \in Manifests /\ Len(n.chunks) \in Nat \ {0} /\ n.chunks[Len(n.chunks)] = r.lease
      /\ \A j \in 1 .. Len(n.chunks) - 1 :
            j \in 1 .. Len(r.chunks) /\ n.chunks[j] = r.chunks[j]
  BY AppendedFields
<1>2. n.chunks \in Seq(Nonce) /\ r.chunks \in Seq(Nonce)
  BY <1>1, ManifestFields
<1> HIDE DEF n
<1>3. PICK i \in 1 .. Len(n.chunks) : n.chunks[i] = k
  BY <1>2, RangeIs DEF n
<1>4. CASE i # Len(n.chunks)
  <2>1. i \in 1 .. Len(n.chunks) - 1
    BY <1>1, <1>4
  <2> QED BY <1>1, <1>2, <1>3, <2>1, RangeIs
<1> QED BY <1>1, <1>3, <1>4

\* A save that arrives late keeps KeepParts.
LEMMA KeepLateSave ==
  ASSUME BucketOK, NetOK, ProcOK, FlagsOK, FlowInv, CopyInv, EdgeInv, ShapeInv, UnusedInv, OwnerInv,
         KeepParts, man # None, NEW q \in net, LateSave(q)
  PROVE  KeepParts'
<1> DEFINE n == q.next
<1>1. /\ q \in Saves /\ q.tag = man /\ man' = n /\ expired' = (expired /\ ~q.renew)
      /\ obj' = obj /\ net' = net \ {q} /\ LateKinds(q)
  BY DEF LateSave, Saves, LateKinds
<1>2. \A p \in Proc : ~Owner(p)'
  BY <1>1, OwnerLate DEF LateKinds
<1>3. n \in Manifests /\ man \in Manifests /\ q.renew \in BOOLEAN
  BY <1>1, RequestFields DEF NetOK, BucketOK, Saves
<1>4. Derived(man, n) /\ (man.state = "active" /\ q.renew => Dropped(man, n) \/ Extended(man, n))
  BY <1>1 DEF EdgeInv
<1>5. \A k : There(k) => There(k)'
  BY <1>1 DEF There, Cleaning
<1>6. n.chunks = man.chunks /\ Intact => Intact'
  BY <1>1, <1>5 DEF Intact
<1>7. man.state = "committing" => Intact
  BY DEF KeepParts
<1>8. man.state = "active" /\ ~expired => Intact
  BY DEF KeepParts
<1>9. man.state = "active" => /\ Extended(man, n) => Intact /\ There(man.lease)
                              /\ Frozen(man, n) => Intact
  BY <1>1 DEF KeepParts
<1>10. Saves' \subseteq Saves
  BY <1>1 DEF Saves
<1>11. CASE Relabel(man, n)
  <2>1. n.state = man.state /\ n.chunks = man.chunks /\ n.sum = man.sum /\ n.upload = man.upload
    BY <1>3, <1>11, DerivedFields
  <2>2. ~Dropped(man, n) \/ n.state = "aborted"
    BY <1>3, DerivedFields
  <2>3. ~Extended(man, n)
    BY <1>3, <2>1, DerivedFields
  <2>4. n.state = "active" => expired' = expired
    BY <1>1, <1>3, <1>4, <2>1, <2>2, <2>3 DEF FlagsOK
  <2>5. n.state = "committing" => Intact'
    BY <1>6, <1>7, <2>1
  <2>6. n.state = "active" /\ ~expired' => Intact'
    BY <1>6, <1>8, <2>1, <2>4
  <2>7. ASSUME NEW q2 \in Saves', q2.tag = n, n.state = "active"
        PROVE  /\ Extended(n, q2.next) => Intact' /\ There(man.lease)'
               /\ Frozen(n, q2.next) => Intact'
    <3>1. CASE n.lease = None
      BY <3>1 DEF Extended, Frozen
    <3>2. CASE n.lease # None /\ n.lease # man.lease
      <4>1. NewLease(n.lease) /\ n.lease \in Nonce
        BY <1>1, <1>3, <3>2, Names, ManifestFields DEF NewLease
      <4>2. Unused(n.lease)
        BY <4>1 DEF UnusedInv
      <4> QED BY <1>3, <1>10, <2>7, <4>2, Names DEF Unused
    <3>3. CASE n.lease = man.lease
      <4>1. n = man
        BY <1>3, <2>1, <3>3, ManifestEqual
      <4>2. q2 \in Saves /\ q2.tag = man /\ man.state = "active"
        BY <1>10, <2>7, <4>1
      <4>3. /\ Extended(man, q2.next) => Intact /\ There(man.lease)
            /\ Frozen(man, q2.next) => Intact
        BY <4>2 DEF KeepParts
      <4> QED BY <1>1, <1>5, <1>6, <2>1, <4>1, <4>3
    <3> QED BY <3>1, <3>2, <3>3
  <2> HIDE DEF n
  <2> QED BY <1>1, <1>2, <2>5, <2>6, <2>7 DEF KeepParts
<1>12. CASE n.state # "active" /\ ~Relabel(man, n)
  <2>1. n.state = "committing" => Intact'
    <3>1. Frozen(man, n) \/ Noted(man, n) \/ Received(man, n) \/ Dropped(man, n) \/ Extended(man, n)
      BY <1>4, <1>12 DEF Derived
    <3>2. n.state = "committing" => Frozen(man, n) \/ Noted(man, n)
      BY <1>3, <3>1, DerivedFields
    <3>3. Frozen(man, n) \/ Noted(man, n) => n.chunks = man.chunks /\ man.state # "aborted"
      BY <1>3, DerivedFields
    <3>4. Noted(man, n) => man.state = "committing"
      BY DEF Noted
    <3>5. Frozen(man, n) => man.state = "active"
      BY DEF Frozen
    <3> QED BY <1>6, <1>7, <1>9, <3>2, <3>3, <3>4, <3>5
  <2> HIDE DEF n
  <2> QED BY <1>1, <1>2, <1>12, <2>1 DEF KeepParts
<1>13. CASE n.state = "active" /\ ~Relabel(man, n)
  <2>1. Extended(man, n)
    BY <1>3, <1>4, <1>13, DerivedFields DEF Derived
  <2>2. PICK p \in Proc : n = Appended(man, p)
    BY <2>1 DEF Extended
  <2>3. Intact /\ There(man.lease) /\ man.lease # None /\ Len(man.sum) < MaxLen /\ n.lease = None
    BY <1>3, <1>9, <2>1, DerivedFields DEF Extended
  <2>4. ShapeOf(man)
    BY CopyRecords, RecordIff DEF ShapeInv
  <2>5. \A k \in Range(n.chunks) : k \in Range(man.chunks) \/ k = man.lease
    BY <1>3, <2>2, <2>3, <2>4, AppendedChunks
  <2>6. Intact'
    BY <1>1, <1>5, <2>3, <2>5 DEF Intact
  <2>7. \A x : ~Extended(n, x) /\ ~Frozen(n, x)
    BY <2>3 DEF Extended, Frozen
  <2> HIDE DEF n
  <2> QED BY <1>1, <1>2, <1>13, <2>6, <2>7 DEF KeepParts
<1> QED BY <1>11, <1>12, <1>13

\* A late request deletes only what was about to be.
LEMMA ThereLate ==
  ASSUME BucketOK, NetOK, NEW q \in net, LateKinds(q), NEW k \in Nonce, There(k)
  PROVE  There(k)'
<1>1. Cleaning' \subseteq Cleaning
  BY LateFacts
<1>2. obj'[k] # None
  <2>1. CASE LateClean(q)
    <3>1. q.key # k
      BY <2>1 DEF LateClean, There, Cleaning
    <3> QED BY <2>1, <3>1 DEF LateClean, There, BucketOK
  <2>2. CASE LateChunk(q)
    BY <2>2 DEF LateChunk, There, BucketOK
  <2>3. CASE ~LateClean(q) /\ ~LateChunk(q)
    BY <2>3 DEF LateKinds, LateSave, LateDelete, LateNothing, There
  <2> QED BY <2>1, <2>2, <2>3
<1> QED BY <1>1, <1>2 DEF There

\* A late request keeps KeepInv.
LEMMA KeepLate ==
  ASSUME BucketOK, NetOK, ProcOK, FlagsOK, FlowInv, CopyInv, EdgeInv, ShapeInv, UnusedInv, OwnerInv,
         EmptyInv, KeepInv, NEW q \in net, LateKinds(q)
  PROVE  KeepInv'
<1> SUFFICES ASSUME ~gone', man' # None PROVE KeepParts'
  BY DEF KeepInv, KeepParts
<1>1. /\ UNCHANGED <<op, pc, mf, tag, todo, late, mpu, begun, acked>>
      /\ Saves' = Saves \ {q} /\ Cleaning' \subseteq Cleaning
      /\ \/ man' = man /\ lapsed' = lapsed /\ expired' = expired /\ gone' = gone
         \/ LateSave(q) /\ q \in Saves
         \/ LateDelete(q) /\ q \in Deletes
  BY LateFacts
<1>2. ~LateDelete(q)
  BY DEF LateDelete
<1>3. CASE LateSave(q) /\ man # None
  <2>1. ~gone
    BY <1>3 DEF LateSave
  <2>2. KeepParts
    BY <1>3, <2>1 DEF KeepInv, KeepParts
  <2> QED BY <1>3, <2>2, KeepLateSave
<1>4. CASE LateSave(q) /\ man = None
  <2>1. ~gone /\ man' = q.next /\ q \in Saves
    BY <1>4 DEF LateSave, Saves
  <2>2. q.next.chunks = <<>> /\ \A q2 \in Saves : q2.tag = None
    BY <1>4, <2>1 DEF EmptyInv, Saves
  <2>3. \A p \in Proc : ~Owner(p)'
    BY <1>1, <1>4, <2>1 DEF EmptyInv, Owner
  <2>4. Intact'
    <3>1. \A e : e = <<>> => Range(e) = {}
      BY DEF Range
    <3> QED BY <2>1, <2>2, <3>1 DEF Intact
  <2> QED BY <1>1, <2>2, <2>3, <2>4 DEF KeepParts
<1>5. CASE man' = man /\ lapsed' = lapsed /\ expired' = expired /\ gone' = gone
  <2>1. KeepParts
    BY <1>5 DEF KeepInv, KeepParts
  <2>2. man \in Manifests /\ Range(man.chunks) \subseteq Nonce
    <3>1. man \in Manifests
      BY <1>5 DEF BucketOK
    <3> QED BY <3>1, ManifestFields, RangeIs
  <2>3. \A k \in Nonce : There(k) => There(k)'
    BY ThereLate
  <2>4. Intact => Intact'
    BY <1>5, <2>2, <2>3 DEF Intact
  <2>5. \A p \in Proc : Owner(p)' <=> Owner(p)
    BY <1>1 DEF Owner
  <2>6. \A p \in Proc : Owner(p) => mf[p].lease \in Nonce
    BY OwnerTag, ManifestFields
  <2>7. \A p \in Proc : Owner(p) /\ There(mf[p].lease) => There(mf[p].lease)'
    BY <1>1, <2>3, <2>6
  <2>8. man.lease # None /\ There(man.lease) => There(man.lease)'
    BY <1>5, <2>2, <2>3, ManifestFields
  <2>9. /\ man.state = "committing" => Intact'
        /\ man.state = "active" /\ ~expired => Intact'
    BY <2>1, <2>4 DEF KeepParts
  <2>10. ASSUME NEW q2 \in Saves', q2.tag = man, man.state = "active"
         PROVE  /\ Extended(man, q2.next) => Intact' /\ There(man.lease)'
                /\ Frozen(man, q2.next) => Intact'
    BY <1>1, <2>1, <2>4, <2>8, <2>10 DEF KeepParts, Extended
  <2>11. ASSUME NEW p \in Proc, Owner(p)
         PROVE  /\ pc[p] \in {"chunk", "append", "freeze"} => Intact'
                /\ pc[p] = "chunk" => mf[p].lease \notin Cleaning'
                /\ pc[p] = "append" => There(mf[p].lease)'
                /\ pc[p] \in {"cleanall", "delete"} /\ mf[p].state = "active" => expired
    BY <1>1, <2>1, <2>4, <2>7, <2>11 DEF KeepParts
  <2> QED BY <1>1, <1>5, <2>5, <2>9, <2>10, <2>11 DEF KeepParts
<1> QED BY <1>1, <1>2, <1>3, <1>4, <1>5

\* It keeps what is acknowledged, and what is so before the first manifest.
LEMMA StageLate ==
  ASSUME BucketOK, NetOK, EdgeInv, ShapeInv, SweepInv, EmptyInv, SumInv, FlagsOK,
         NEW q \in net, LateKinds(q)
  PROVE  SweepInv' /\ EmptyInv' /\ SumInv'
<1>1. /\ UNCHANGED <<op, pc, mf, tag, todo, late, mpu, begun, acked>>
      /\ net' = net \ {q}
      /\ \/ man' = man /\ lapsed' = lapsed /\ expired' = expired /\ gone' = gone
         \/ LateSave(q) /\ q \in Saves
         \/ LateDelete(q) /\ q \in Deletes
  BY LateFacts
<1>2. ~gone' => ~gone /\ ~LateDelete(q)
  BY <1>1 DEF LateSave, LateDelete
<1>3. SweepInv'
  BY <1>1, <1>2 DEF SweepInv
<1>4. LateSave(q) => man' # None /\ man' = q.next /\ q.next \in Manifests /\ q.tag = man /\ q \in Saves
  BY RequestFields, Names DEF LateSave, NetOK, Saves
<1>5. EmptyInv'
  <2> SUFFICES ASSUME ~gone', man' = None PROVE EmptyInv'
    BY DEF EmptyInv
  <2>1. ~gone /\ man = None
    BY <1>1, <1>2, <1>4
  <2>2. q.to # "chunk"
    BY <2>1 DEF EmptyInv
  <2>3. \A k \in Nonce : obj'[k] = None
    BY <2>1, <2>2, ObjLate DEF EmptyInv
  <2> QED BY <1>1, <2>1, <2>3 DEF EmptyInv
<1>6. SumInv'
  <2> SUFFICES ASSUME begun', ~gone' PROVE man' # None /\ IsPrefix(acked', man'.sum)
    BY DEF SumInv, StageKept
  <2>1. man # None /\ IsPrefix(acked, man.sum) /\ acked' = acked /\ man \in Manifests
    BY <1>1, <1>2 DEF SumInv, StageKept, BucketOK
  <2>2. CASE LateSave(q)
    <3>1. Derived(man, q.next)
      BY <1>4, <2>1, <2>2 DEF EdgeInv
    <3>2. CASE q.next.sum = man.sum
      BY <1>4, <2>1, <2>2, <3>2
    <3>3. CASE Extended(man, q.next)
      <4>1. PICK p \in Proc : q.next = Appended(man, p)
        BY <3>3 DEF Extended
      <4>2. ShapeOf(man)
        BY <2>1, RecordIff DEF ShapeInv
      <4>3. q.next.sum = Append(man.sum, p)
        BY <2>1, <3>3, <4>1, <4>2, AppendedFields DEF Extended
      <4>4. acked \in Seq(Proc) /\ man.sum \in Seq(Proc)
        BY <2>1, ManifestFields, BytesSeq DEF FlagsOK
      <4>5. IsPrefix(acked, Append(man.sum, p))
        BY <2>1, <4>4, PrefixRules
      <4> QED BY <1>4, <2>1, <2>2, <4>3, <4>5
    <3> QED BY <1>4, <2>1, <2>2, <3>1, <3>2, <3>3, DerivedFields DEF Derived
  <2>3. CASE man' = man
    BY <2>1, <2>3
  <2> QED BY <1>1, <1>2, <2>2, <2>3
<1> QED BY <1>3, <1>5, <1>6

-----------------------------------------------------------------------------
(* Time, other callers and the bounds.                                     *)

\* What time and other callers leave alone.
LEMMA TimePasses ==
  ASSUME OtherKinds
  PROVE  /\ Records' = Records
         /\ UNCHANGED <<man, obj, mpu, net, op, pc, mf, tag, todo, begun, acked, gone>>
         /\ Saves' = Saves /\ Deletes' = Deletes /\ Writing' = Writing /\ Cleaning' = Cleaning
         /\ late \subseteq late' /\ (expired => expired')
         /\ Lapse \/ (late' = late /\ lapsed' = lapsed)
         /\ expired' = expired \/ expired' = TRUE
<1>1. /\ Records' = Records
      /\ UNCHANGED <<man, obj, mpu, net, op, pc, mf, tag, todo, begun, acked, gone>>
  BY RecordsOthers
<1>2. Saves' = Saves /\ Deletes' = Deletes /\ Writing' = Writing /\ Cleaning' = Cleaning
  BY <1>1 DEF Saves, Deletes, Writing, Cleaning
<1>3. late \subseteq late'
  BY DEF OtherKinds, Lapse, Expire, OtherAdd, OtherErase, Reclaim, vars, env, procs
<1>4. Lapse \/ (late' = late /\ lapsed' = lapsed)
  BY DEF OtherKinds, Expire, OtherAdd, OtherErase, Reclaim, vars, env, procs
<1>5. expired' = expired \/ expired' = TRUE
  BY DEF OtherKinds, Lapse, Expire, OtherAdd, OtherErase, Reclaim, vars, env, procs
<1> QED BY <1>1, <1>2, <1>3, <1>4, <1>5

\* They keep the types,
LEMMA TypesOthers ==
  ASSUME BucketOK, NetOK, ProcOK, FlagsOK, BlobInv, OtherKinds
  PROVE  BucketOK' /\ NetOK' /\ ProcOK' /\ FlagsOK'
<1>1. /\ UNCHANGED <<man, obj, mpu, net, op, pc, mf, tag, todo, begun, acked, gone>>
      /\ Lapse \/ (late' = late /\ lapsed' = lapsed)
      /\ expired' = expired \/ expired' = TRUE
  BY TimePasses
<1>2. BucketOK' /\ NetOK'
  BY <1>1, BlobOthers DEF BucketOK, NetOK
<1>3. late' \subseteq Proc
  BY <1>1 DEF ProcOK, Lapse
<1>4. ProcOK'
  BY <1>1, <1>3 DEF ProcOK
<1>5. lapsed' \in BOOLEAN /\ expired' \in BOOLEAN
  BY <1>1 DEF FlagsOK, Lapse
<1>6. FlagsOK'
  BY <1>1, <1>5 DEF FlagsOK
<1> QED BY <1>2, <1>4, <1>6

\* what is about processes, requests and chunks,
LEMMA LocalOthers ==
  ASSUME FlowInv, CopyInv, EdgeInv, ShapeInv, PartsInv, UnusedInv, OneInv, ChunkInv, UploadInv,
         SweepInv, EmptyInv, FirstInv, SumInv, OtherKinds
  PROVE  /\ FlowInv' /\ CopyInv' /\ EdgeInv' /\ ShapeInv' /\ PartsInv' /\ UnusedInv' /\ OneInv'
         /\ ChunkInv' /\ UploadInv' /\ SweepInv' /\ EmptyInv' /\ FirstInv' /\ SumInv'
<1>1. /\ Records' = Records
      /\ UNCHANGED <<man, obj, mpu, net, op, pc, mf, tag, todo, begun, acked, gone>>
      /\ Saves' = Saves /\ Deletes' = Deletes /\ Writing' = Writing /\ Cleaning' = Cleaning
      /\ Lapse \/ late' = late
  BY TimePasses
<1>2. FlowInv'
  <2>1. \A p \in Proc : p \in late' => p \in late \/ mf[p] # None
    BY <1>1 DEF Lapse
  <2> QED BY <1>1, <2>1 DEF FlowInv, FlowOf
<1>3. CopyInv'
  BY <1>1 DEF CopyInv, CopyOf
<1>4. EdgeInv' /\ ShapeInv' /\ PartsInv'
  BY <1>1 DEF EdgeInv, ShapeInv, PartsInv
<1>5. UnusedInv'
  BY <1>1 DEF UnusedInv, Unused, NewLease
<1>6. OneInv' /\ UploadInv'
  BY <1>1 DEF OneInv, UploadInv
<1>7. ChunkInv'
  BY <1>1 DEF ChunkInv
<1>8. SweepInv' /\ EmptyInv' /\ FirstInv'
  BY <1>1 DEF SweepInv, EmptyInv, FirstInv
<1>9. SumInv'
  BY <1>1 DEF SumInv, StageKept
<1> QED BY <1>2, <1>3, <1>4, <1>5, <1>6, <1>7, <1>8, <1>9

\* and what is about the holder of a lease: one that lapses has none any more.
LEMMA KeepOthers ==
  ASSUME ProcOK, FlowInv, CopyInv, OwnerInv, KeepInv, OtherKinds
  PROVE  OwnerInv' /\ KeepInv'
<1>1. /\ UNCHANGED <<man, obj, mpu, net, op, pc, mf, tag, todo, begun, acked, gone>>
      /\ Saves' = Saves /\ Deletes' = Deletes /\ Cleaning' = Cleaning
      /\ late \subseteq late' /\ (expired => expired')
      /\ Lapse \/ (late' = late /\ lapsed' = lapsed)
  BY TimePasses
<1>2. \A p \in Proc : Owner(p)' => Owner(p)
  BY <1>1 DEF Owner
<1>3. \A p \in Proc : Lapse => ~Owner(p)'
  BY <1>2, OneOwner DEF Lapse, Owner
<1>4. OwnerInv'
  BY <1>1, <1>2, <1>3 DEF OwnerInv
<1>5. (\A k : There(k)' <=> There(k)) /\ (Intact' <=> Intact)
  BY <1>1 DEF There, Intact
<1>6. KeepInv'
  <2> SUFFICES ASSUME ~gone', man' # None PROVE KeepParts'
    BY DEF KeepInv, KeepParts
  <2>1. KeepParts
    BY <1>1 DEF KeepInv, KeepParts
  <2>2. /\ man.state = "committing" => Intact
        /\ man.state = "active" /\ ~expired' => Intact
    BY <1>1, <2>1 DEF KeepParts
  <2>3. \A q \in Saves : q.tag = man /\ man.state = "active" =>
          /\ Extended(man, q.next) => Intact /\ There(man.lease)
          /\ Frozen(man, q.next) => Intact
    BY <2>1 DEF KeepParts
  <2>4. \A p \in Proc : Owner(p)' =>
          /\ pc[p] \in {"chunk", "append", "freeze"} => Intact
          /\ pc[p] = "chunk" => mf[p].lease \notin Cleaning
          /\ pc[p] = "append" => There(mf[p].lease)
          /\ pc[p] \in {"cleanall", "delete"} /\ mf[p].state = "active" => expired'
    BY <1>1, <1>2, <2>1 DEF KeepParts
  <2>5. /\ There(man.lease)' <=> There(man.lease)
        /\ \A p \in Proc : There(mf[p].lease)' <=> There(mf[p].lease)
    BY <1>1 DEF There
  <2> QED BY <1>1, <1>5, <2>2, <2>3, <2>4, <2>5 DEF KeepParts
<1> QED BY <1>4, <1>6

\* Every step keeps the bounds.
LEMMA CountKept ==
  ASSUME CountOK, [Next]_vars
  PROVE  CountOK'
<1>1. prot \subseteq Proc /\ calls \in 0 .. MaxCalls /\ faults \in 0 .. MaxFaults
        /\ others \in 0 .. MaxOthers
      /\ MaxCalls \in Nat /\ MaxFaults \in Nat /\ MaxOthers \in Nat
  BY S3StageAssumption DEF CountOK
<1> DEFINE Within == /\ prot' \subseteq Proc
                     /\ calls' = calls \/ (calls < MaxCalls /\ calls' = calls + 1)
                     /\ faults' = faults \/ (faults < MaxFaults /\ faults' = faults + 1)
                     /\ others' = others \/ (others < MaxOthers /\ others' = others + 1)
<1>2. ASSUME NEW p \in Proc, NEW b, End(p, b) PROVE prot' = prot
  BY <1>2 DEF End
<1>3. ASSUME NEW p \in Proc, Failed(p) PROVE prot' = prot
  BY <1>2, <1>3 DEF Failed
<1>4. ASSUME NEW p \in Proc, NEW l, Continue(p, l) PROVE prot' = prot
  BY <1>4 DEF Continue
<1>5. ASSUME NEW p \in Proc, Begin(p) PROVE Within
  BY <1>1, <1>2, <1>3, <1>5 DEF Begin, Save, NoAnswer
<1>6. ASSUME NEW p \in Proc, Release(p) PROVE Within
  BY <1>1, <1>2, <1>3, <1>6 DEF Release, Save, NoAnswer
<1>7. ASSUME NEW p \in Proc, PublishAppend(p) PROVE Within
  BY <1>1, <1>2, <1>3, <1>7 DEF PublishAppend, Save, NoAnswer
<1>8. ASSUME NEW p \in Proc, SaveAborted(p) PROVE Within
  BY <1>1, <1>2, <1>3, <1>8 DEF SaveAborted, Save, NoAnswer
<1>9. ASSUME NEW p \in Proc, Receipt(p) PROVE Within
  BY <1>1, <1>2, <1>3, <1>9 DEF Receipt, SaveCopy, Save, NoAnswer
<1>10. ASSUME NEW p \in Proc, Freeze(p) \/ RecordUpload(p) \/ ForgetUpload(p) PROVE Within
  BY <1>1, <1>3, <1>10 DEF Freeze, RecordUpload, ForgetUpload, SaveCopy, Save, NoAnswer
<1>11. ASSUME NEW p \in Proc, Lease(p) PROVE Within
  BY <1>1, <1>3, <1>11 DEF Lease, Save, NoAnswer
<1>12. ASSUME NEW p \in Proc, Read(p) \/ Look(p) PROVE Within
  BY <1>1, <1>2, <1>12 DEF Read, Look, bounds
<1>13. ASSUME NEW p \in Proc, PutChunk(p) PROVE Within
  BY <1>1, <1>3, <1>4, <1>13 DEF PutChunk, NoAnswer
<1>14. ASSUME NEW p \in Proc,
              PutBlob(p) \/ CreateUpload(p) \/ CopyParts(p) \/ CompleteUpload(p) \/ PutRef(p)
       PROVE  Within
  BY <1>1, <1>3, <1>4, <1>14 DEF PutBlob, CreateUpload, CopyParts, CompleteUpload, PutRef, Request
<1>15. ASSUME NEW p \in Proc, List(p) \/ PruneUploads(p) PROVE Within
  BY <1>1, <1>15 DEF List, PruneUploads, bounds
<1>16. ASSUME NEW p \in Proc, CleanChunks(p) PROVE Within
  BY <1>1, <1>3, <1>4, <1>16 DEF CleanChunks, NoAnswer
<1>17. ASSUME NEW p \in Proc, DeleteManifest(p) PROVE Within
  BY <1>1, <1>2, <1>3, <1>17 DEF DeleteManifest, NoAnswer
<1>18. ASSUME NEW p \in Proc, Sweep(p) PROVE Within
  BY <1>1, <1>2, <1>18 DEF Sweep, NoAnswer
<1>19. ASSUME NEW p \in Proc, TimedOut(p) \/ Refused(p) \/ Crash(p) PROVE Within
  BY <1>1, <1>3, <1>19 DEF TimedOut, Refused, Crash, bounds
<1>20. ASSUME NEW p \in Proc, Call(p) \/ Maintain(p) PROVE Within
  BY <1>1, <1>20 DEF Call, Maintain, bounds
<1>21. ASSUME NEW q \in net, Deliver(q) PROVE Within
  BY <1>1, <1>21 DEF Deliver, bounds, procs
<1>22. ASSUME Lapse \/ Expire \/ OtherAdd \/ OtherErase \/ Reclaim \/ UNCHANGED vars PROVE Within
  BY <1>1, <1>22 DEF Lapse, Expire, OtherAdd, OtherErase, Reclaim, vars, bounds, procs
<1> HIDE DEF Within
<1>23. Within
  BY <1>5, <1>6, <1>7, <1>8, <1>9, <1>10, <1>11, <1>12, <1>13, <1>14, <1>15, <1>16, <1>17, <1>18,
     <1>19, <1>20, <1>21, <1>22 DEF Next, Step
<1>24. /\ prot' \subseteq Proc
       /\ calls' \in 0 .. MaxCalls /\ faults' \in 0 .. MaxFaults /\ others' \in 0 .. MaxOthers
  BY <1>1, <1>23 DEF Within
<1> QED BY <1>24 DEF CountOK

-----------------------------------------------------------------------------
(* The invariant, and the theorems.                                        *)

\* The invariant is true at first.
LEMMA InitInv == Init => IInv
<1> SUFFICES ASSUME Init PROVE IInv
  OBVIOUS
<1>1. /\ man = None /\ obj = [k \in Nonce |-> None] /\ mpu = [u \in Upload |-> None]
      /\ blob = [d \in Bytes |-> None] /\ ref = {} /\ erased = {}
      /\ lapsed = FALSE /\ expired = FALSE /\ net = {}
      /\ mf = [p \in Proc |-> None] /\ tag = [p \in Proc |-> None]
      /\ todo = [p \in Proc |-> {}] /\ late = {} /\ prot = {}
      /\ calls = 0 /\ faults = 0 /\ others = 0
      /\ begun = FALSE /\ acked = <<>> /\ gone = FALSE
  BY DEF Init
<1>2. PICK a \in Proc : /\ op = [q \in Proc |-> IF q = a THEN "Begin" ELSE None]
                        /\ pc = [q \in Proc |-> IF q = a THEN "begin" ELSE "idle"]
  BY DEF Init
<1>3. /\ \A p \in Proc : mf[p] = None /\ tag[p] = None /\ todo[p] = {} /\ pc[p] \in {"begin", "idle"}
      /\ \A p \in Proc : p # a => pc[p] = "idle" /\ op[p] = None
      /\ pc[a] = "begin" /\ op[a] = "Begin" /\ "Begin" # None
  BY <1>1, <1>2, Names DEF Ops
<1>4. Saves = {} /\ Deletes = {} /\ Writing = {} /\ Cleaning = {}
  BY <1>1 DEF Saves, Deletes, Writing, Cleaning
<1>5. Records = {}
  BY <1>1, <1>3, <1>4, RecordIff
<1>6. TypeOK
  <2>1. BucketOK
    BY <1>1 DEF BucketOK
  <2>2. NetOK /\ FlagsOK
    BY <1>1, EmptyIn DEF NetOK, FlagsOK
  <2>3. ProcOK
    BY <1>1, <1>2 DEF ProcOK, Ops, Labels
  <2>4. CountOK
    BY <1>1, S3StageAssumption DEF CountOK
  <2> QED BY <2>1, <2>2, <2>3, <2>4, TypeGroups
<1>7. FlowInv
  <2> SUFFICES ASSUME NEW p \in Proc PROVE FlowOf(p)
    BY DEF FlowInv
  <2>1. CASE p = a
    BY <1>1, <1>3, <2>1 DEF FlowOf, Idle
  <2>2. CASE p # a
    BY <1>1, <1>3, <2>2, Names DEF FlowOf, Idle, Ops
  <2> QED BY <2>1, <2>2
<1>8. CopyInv
  BY <1>3 DEF CopyInv, CopyOf
<1>9. EdgeInv /\ ShapeInv /\ PartsInv /\ PaidInv
  BY <1>4, <1>5 DEF EdgeInv, ShapeInv, PartsInv, PaidInv
<1>10. UnusedInv /\ OneInv
  BY <1>3, <1>4 DEF UnusedInv, NewLease, OneInv
<1>11. ChunkInv /\ OwnerInv
  BY <1>3, <1>4 DEF ChunkInv, OwnerInv, Owner
<1>12. KeepInv /\ SweepInv
  BY <1>1, <1>3 DEF KeepInv, SweepInv
<1>13. EmptyInv /\ FirstInv
  BY <1>1, <1>3 DEF EmptyInv, FirstInv
<1>14. UploadInv /\ BlobInv
  BY <1>1, <1>3, <1>5 DEF UploadInv, BlobInv
<1>15. SumInv
  BY <1>1 DEF SumInv, StageKept
<1> QED BY <1>6, <1>7, <1>8, <1>9, <1>10, <1>11, <1>12, <1>13, <1>14, <1>15 DEF IInv

\* A step of a process keeps it,
LEMMA StepInv ==
  ASSUME IInv, NEW p \in Proc, StepKinds(p), CountOK'
  PROVE  IInv'
<1>1. /\ Ground /\ EdgeInv /\ PartsInv /\ PaidInv /\ UnusedInv /\ OneInv /\ ChunkInv /\ OwnerInv
      /\ KeepInv /\ SweepInv /\ EmptyInv /\ FirstInv /\ UploadInv /\ BlobInv /\ SumInv
  BY TypeGroups DEF IInv, Ground
<1>2. BucketOK' /\ NetOK' /\ ProcOK' /\ FlagsOK'
  BY <1>1, BucketKept, NetKept, ProcKept, FlagsKept
<1>3. TypeOK'
  <2>1. (TypeOK <=> BucketOK /\ NetOK /\ ProcOK /\ FlagsOK /\ CountOK)'
    BY TypeGroups, PTL
  <2> QED BY <1>2, <2>1
<1>4. FlowInv' /\ CopyInv' /\ EdgeInv' /\ ShapeInv'
  BY <1>1, FlowKept, CopyKept, EdgeKept, ShapeKept
<1>5. PartsInv' /\ PaidInv' /\ UploadInv' /\ BlobInv'
  BY <1>1, PartsKept, PaidKept, UploadKept, BlobKept
<1>6. UnusedInv' /\ OneInv' /\ ChunkInv' /\ OwnerInv'
  BY <1>1, UnusedKept, OneKept, ChunkKept, OwnerKept
<1>7. KeepInv' /\ SweepInv' /\ EmptyInv' /\ FirstInv' /\ SumInv'
  BY <1>1, KeepKept, SweepKept, EmptyKept, FirstKept, SumKept
<1> QED BY <1>3, <1>4, <1>5, <1>6, <1>7 DEF IInv

\* a late request does,
LEMMA LateInv ==
  ASSUME IInv, NEW q \in net, LateKinds(q), CountOK'
  PROVE  IInv'
<1>1. /\ BucketOK /\ NetOK /\ ProcOK /\ FlagsOK /\ FlowInv /\ CopyInv /\ ShapeInv /\ EdgeInv
      /\ PartsInv /\ PaidInv /\ UnusedInv /\ OneInv /\ ChunkInv /\ OwnerInv
      /\ KeepInv /\ SweepInv /\ EmptyInv /\ FirstInv /\ UploadInv /\ BlobInv /\ SumInv
  BY TypeGroups DEF IInv
<1>2. BucketOK' /\ NetOK' /\ ProcOK' /\ FlagsOK'
  BY <1>1, TypesLate
<1>3. TypeOK'
  <2>1. (TypeOK <=> BucketOK /\ NetOK /\ ProcOK /\ FlagsOK /\ CountOK)'
    BY TypeGroups, PTL
  <2> QED BY <1>2, <2>1
<1>4. FlowInv' /\ CopyInv' /\ EdgeInv' /\ ShapeInv' /\ FirstInv' /\ OneInv'
  BY <1>1, LocalLate
<1>5. PartsInv' /\ PaidInv' /\ BlobInv'
  BY <1>1, PartsLate, PaidLate, BlobLate
<1>6. UploadInv'
  BY <1>1, LateFacts, UploadLate
<1>7. UnusedInv' /\ ChunkInv' /\ OwnerInv'
  BY <1>1, UnusedLate, ChunkLate, OwnerLate
<1>8. KeepInv'
  BY <1>1, KeepLate
<1>9. SweepInv' /\ EmptyInv' /\ SumInv'
  BY <1>1, StageLate
<1> QED BY <1>3, <1>4, <1>5, <1>6, <1>7, <1>8, <1>9 DEF IInv

\* and so do time and other callers.
LEMMA OthersInv ==
  ASSUME IInv, OtherKinds, CountOK'
  PROVE  IInv'
<1>1. /\ BucketOK /\ NetOK /\ ProcOK /\ FlagsOK /\ FlowInv /\ CopyInv /\ ShapeInv /\ EdgeInv
      /\ PartsInv /\ PaidInv /\ UnusedInv /\ OneInv /\ ChunkInv /\ OwnerInv
      /\ KeepInv /\ SweepInv /\ EmptyInv /\ FirstInv /\ UploadInv /\ BlobInv /\ SumInv
  BY TypeGroups DEF IInv
<1>2. BucketOK' /\ NetOK' /\ ProcOK' /\ FlagsOK'
  BY <1>1, TypesOthers
<1>3. TypeOK'
  <2>1. (TypeOK <=> BucketOK /\ NetOK /\ ProcOK /\ FlagsOK /\ CountOK)'
    BY TypeGroups, PTL
  <2> QED BY <1>2, <2>1
<1>4. /\ FlowInv' /\ CopyInv' /\ EdgeInv' /\ ShapeInv' /\ PartsInv' /\ UnusedInv' /\ OneInv'
      /\ ChunkInv' /\ UploadInv' /\ SweepInv' /\ EmptyInv' /\ FirstInv' /\ SumInv'
  BY <1>1, LocalOthers
<1>5. OwnerInv' /\ KeepInv'
  BY <1>1, KeepOthers
<1>6. PaidInv' /\ BlobInv'
  BY <1>1, PaidOthers, BlobOthers
<1> QED BY <1>3, <1>4, <1>5, <1>6 DEF IInv

\* IInv is an invariant of the stage.
THEOREM S3StageInvariant == Spec => []IInv
<1>1. IInv /\ [Next]_vars => IInv'
  <2> SUFFICES ASSUME IInv, [Next]_vars PROVE IInv'
    OBVIOUS
  <2>1. Ground /\ CountOK
    BY TypeGroups DEF IInv, Ground
  <2>2. CountOK'
    BY <2>1, CountKept
  <2>3. (\E p \in Proc : StepKinds(p)) \/ (\E q \in net : LateKinds(q)) \/ OtherKinds
    BY <2>1, Kinds
  <2> QED BY <2>2, <2>3, StepInv, LateInv, OthersInv
<1> QED BY InitInv, <1>1, PTL DEF Spec

\* The variables have their types.
THEOREM TypeCorrect == Spec => []TypeOK
<1>1. IInv => TypeOK
  BY DEF IInv
<1> QED BY <1>1, S3StageInvariant, PTL

\* A stage is there, with all that Append (s3.go) has acknowledged, until
\* PruneStages deletes it, whatever leases lapse and whatever saves come late.
THEOREM StageKeptCorrect == Spec => []StageKept
<1>1. IInv => StageKept
  BY DEF IInv, SumInv
<1> QED BY <1>1, S3StageInvariant, PTL

\* The chunks of a stage that may still be committed are there, and put together
\* they are the bytes its hash is of, whatever cleanChunks and lost requests delete.
THEOREM ChunksKeptCorrect == Spec => []ChunksKept
<1>1. IInv => ChunksKept
  <2> SUFFICES ASSUME IInv, man # None, ~gone,
                      man.state = "committing" \/ (man.state = "active" /\ ~expired)
               PROVE  /\ \A k \in Range(man.chunks) : obj[k] # None
                      /\ Content(man.chunks) = man.sum
    BY DEF ChunksKept
  <2>1. BucketOK /\ NetOK /\ ProcOK /\ ShapeInv /\ PartsInv /\ KeepInv
    BY TypeGroups DEF IInv
  <2>2. Intact
    BY <2>1 DEF KeepInv, KeepParts
  <2>3. \A k \in Range(man.chunks) : obj[k] # None
    BY <2>2 DEF Intact, There
  <2>4. man \in Manifests /\ man \in Records /\ ShapeOf(man)
    BY <2>1, RecordIff DEF BucketOK, ShapeInv
  <2>5. \A i \in 1 .. Len(man.chunks) : obj[man.chunks[i]] # None => obj[man.chunks[i]] = Seg(man.sum, i)
    BY <2>1, <2>4 DEF PartsInv
  <2> QED BY <2>1, <2>3, <2>4, <2>5, ContentIs
<1> QED BY <1>1, S3StageInvariant, PTL

\* A committed manifest speaks of a reference and of bytes that are there, unless
\* they were erased.
THEOREM ReceiptTrueCorrect == Spec => []ReceiptTrue
<1>1. IInv => ReceiptTrue
  <2>1. IInv => PaidInv
    BY DEF IInv
  <2>2. man # None => man \in Records
    BY RecordIff
  <2> QED BY <2>1, <2>2 DEF ReceiptTrue, PaidInv
<1> QED BY <1>1, S3StageInvariant, PTL
=============================================================================
