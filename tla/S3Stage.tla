------------------------------ MODULE S3Stage ------------------------------
(***************************************************************************)
(* Staged uploads of the S3 backend (s3.go 1217-2080): one stage.          *)
(*                                                                         *)
(*   stages/<ns>/<id>/manifest            the record, changed only by      *)
(*                                        conditional requests             *)
(*   stages/<ns>/<id>/chunks/<lease>/<i>  the bytes, one object for each   *)
(*                                        part, never overwritten          *)
(*   blob/<digest>, ref/<digest>/<ns>     what a commit makes              *)
(*                                                                         *)
(* An operation takes a lease by putting a random name in the manifest.    *)
(* No lock protects anything: a lease lapses while its holder goes on, and *)
(* a request whose answer does not come may be carried out later.  A       *)
(* manifest's ETag is a function of its bytes, so If-Match compares the    *)
(* manifest with the one that was read or saved, and If-None-Match "*"     *)
(* asks that there is none.                                                *)
(***************************************************************************)
EXTENDS Naturals, SequencesExt

CONSTANTS
    Proc,        \* processes working on the stage
    Hosts,       \* those in which the host runs PruneStages
    None,        \* nothing there
    MaxLen,      \* bound: units of a stage
    PartSize,    \* units of a chunk
    Nonce,       \* bound: names of leases, and so of chunks, in use at a time
    Upload,      \* bound: multipart uploads in progress at a time
    MaxCalls,    \* bound: operations of clients
    MaxFaults,   \* bound: deaths, requests without an answer and operations that
                 \* take too long, together
    MaxOthers    \* bound: Adds and Erases of other callers

VARIABLES
    \* the bucket
    man,       \* the manifest, or None
    obj,       \* obj[k]: the bytes of chunk k, or None
    mpu,       \* mpu[u]: the bytes copied to multipart upload u, or None
    blob,      \* blob[d]: the bytes at blob/<digest of d>, or None
    ref,       \* the bytes whose digest the namespace has a reference of
    \* time, and the network
    lapsed,    \* the manifest's LeaseUntil is past
    expired,   \* its ExpiresAt is
    net,       \* requests whose answer nobody waits for any more
    \* the processes
    op,        \* op[p]: the operation p is in, or None
    pc,        \* pc[p]: the request it makes next
    mf,        \* mf[p]: its copy of the manifest
    tag,       \* tag[p]: the manifest its ETag is of; None for an empty ETag
    todo,      \* todo[p]: the chunks it has listed, or is about to delete
    late,      \* processes whose context is past its deadline
    prot,      \* PruneStages that have met the stage committing
    \* bounds and history
    calls, faults, others,
    begun,     \* Begin has returned the id
    acked,     \* the bytes Append has acknowledged
    gone,      \* PruneStages has deleted the manifest
    erased     \* those whose reference was erased since the stage found or made it

bucket == <<man, obj, mpu, blob, ref>>
env == <<lapsed, expired, net>>
procs == <<op, pc, mf, tag, todo, late, prot>>
bounds == <<calls, faults, others>>
history == <<begun, acked, gone, erased>>
vars == <<bucket, env, procs, bounds, history>>

\* Bytes are a sequence of units.  What an Append of process p brings is p.
Bytes == UNION {[1 .. n -> Proc] : n \in 0 .. MaxLen}
Parts == (MaxLen + PartSize - 1) \div PartSize
Keys == UNION {[1 .. n -> Nonce] : n \in 0 .. Parts}
Manifests ==
    [state : {"active", "committing", "committed", "aborted"},
     sum : Bytes, chunks : Keys, lease : Nonce \cup {None}, upload : Upload \cup {None}]

\* Requests on their way: to the manifest and for a chunk.
Requests ==
    [to : {"save"}, next : Manifests, tag : Manifests \cup {None}, renew : BOOLEAN]
    \cup [to : {"delete"}, tag : Manifests]
    \cup [to : {"chunk"}, key : Nonce, bytes : Bytes]
    \cup [to : {"clean"}, key : Nonce]

\* Clean is Abort's cleanTerminal, and PruneCommit the Commit PruneStages calls.
Ops == {"Begin", "Append", "Commit", "Abort", "Clean", "Prune", "PruneCommit"}

ASSUME S3StageAssumption ==
    /\ None \notin Proc \cup Nonce \cup Upload \cup Bytes \cup Manifests \cup Ops
    /\ Hosts \subseteq Proc
    /\ PartSize \in Nat \ {0}
    /\ {MaxLen, MaxCalls, MaxFaults, MaxOthers} \subseteq Nat

Labels ==
    {"idle", "begin", "read", "lease", "chunk", "append", "freeze", "look", "put",
     "create", "record", "copy", "forget", "complete", "ref", "receipt", "abort",
     "list", "clean", "cleanall", "delete", "sweep", "uploads", "release", "finish"}

\* The variables have their types.
TypeOK ==
    /\ man \in Manifests \cup {None}
    /\ obj \in [Nonce -> Bytes \cup {None}]
    /\ mpu \in [Upload -> Bytes \cup {None}]
    /\ blob \in [Bytes -> Bytes \cup {None}]
    /\ ref \subseteq Bytes /\ erased \subseteq Bytes
    /\ {lapsed, expired, begun, gone} \subseteq BOOLEAN
    /\ net \subseteq Requests
    /\ op \in [Proc -> Ops \cup {None}]
    /\ pc \in [Proc -> Labels]
    /\ mf \in [Proc -> Manifests \cup {None}]
    /\ tag \in [Proc -> Manifests \cup {None}]
    /\ todo \in [Proc -> SUBSET Nonce]
    /\ late \subseteq Proc /\ prot \subseteq Proc
    /\ acked \in Bytes
    /\ <<calls, faults, others>> \in (0 .. MaxCalls) \X (0 .. MaxFaults) \X (0 .. MaxOthers)

\* A client has called Begin.
Init ==
    /\ man = None /\ obj = [k \in Nonce |-> None] /\ mpu = [u \in Upload |-> None]
    /\ blob = [d \in Bytes |-> None] /\ ref = {}
    /\ lapsed = FALSE /\ expired = FALSE /\ net = {}
    /\ \E p \in Proc \ Hosts :
          /\ op = [q \in Proc |-> IF q = p THEN "Begin" ELSE None]
          /\ pc = [q \in Proc |-> IF q = p THEN "begin" ELSE "idle"]
    /\ mf = [p \in Proc |-> None] /\ tag = [p \in Proc |-> None]
    /\ todo = [p \in Proc |-> {}] /\ late = {} /\ prot = {}
    /\ calls = 0 /\ faults = 0 /\ others = 0
    /\ begun = FALSE /\ acked = <<>> /\ gone = FALSE /\ erased = {}

-----------------------------------------------------------------------------
(* Names, and the flow of a call.                                          *)

\* The manifests that are, or that a condition or a copy may make, to be found.
Records ==
    ({man} \cup (UNION {{mf[p], tag[p]} : p \in Proc})
     \cup (UNION {{q.next, q.tag} : q \in {q \in net : q.to = "save"}})
     \cup {q.tag : q \in {q \in net : q.to = "delete"}}) \ {None}

\* A random name is none that is to be found anywhere.
FreeNames ==
    Nonce \ ({k \in Nonce : obj[k] # None} \cup (UNION {todo[p] : p \in Proc})
             \cup (UNION {{r.lease} \cup Range(r.chunks) : r \in Records})
             \cup {q.key : q \in {q \in net : q.to \in {"chunk", "clean"}}})

\* So is the id of a new upload.  One that nobody refers to is never used again,
\* and its id stands for any number of such uploads.
FreeUploads == Upload \ {r.upload : r \in Records}

Goto(p, l) == pc' = [pc EXCEPT ![p] = l]
Continue(p, l) == Goto(p, l) /\ UNCHANGED <<op, mf, tag, todo, late, prot>>

\* The call is over: Abort goes on to cleanTerminal, and PruneStages to
\* pruneStageUploads, or from its Commit, if that has succeeded, to the rest.
End(p, success) ==
    LET next ==
          CASE op[p] = "Abort" -> <<"Clean", "read">>
            [] op[p] = "PruneCommit" /\ success -> <<"Prune", "read">>
            [] (op[p] = "PruneCommit" /\ ~success) \/ (op[p] = "Prune" /\ pc[p] # "list") ->
                  <<"Prune", "uploads">>
            [] OTHER -> <<None, "idle">>
    IN
    /\ op' = [op EXCEPT ![p] = next[1]]
    /\ pc' = [pc EXCEPT ![p] = next[2]]
    /\ mf' = [mf EXCEPT ![p] = None]
    /\ tag' = [tag EXCEPT ![p] = None]
    /\ todo' = [todo EXCEPT ![p] = IF next = <<"Prune", "read">> THEN @ ELSE {}]
    /\ late' = IF next[2] \in {"idle", "uploads"} THEN late \ {p} ELSE late
    /\ UNCHANGED prot

\* A request fails.  An operation without the lease returns, and so does one that
\* was about to give it back; others go on to release it -- with an empty ETag if
\* a save has failed, for etag, err = s.save(...) overwrites the one it had.
Failed(p) ==
    IF \/ pc[p] \in {"begin", "read", "lease", "abort", "release", "finish"}
       \/ pc[p] = "list" /\ op[p] = "Prune"
       \/ pc[p] = "receipt" /\ op[p] = "Abort"
    THEN End(p, pc[p] = "finish")
    ELSE /\ Goto(p, "release")
         /\ tag' = IF pc[p] \in {"freeze", "record", "forget", "receipt"}
                   THEN [tag EXCEPT ![p] = None] ELSE tag
         /\ UNCHANGED <<op, mf, todo, late, prot>>

-----------------------------------------------------------------------------
(* save: a conditional PUT of the manifest.                                *)

\* Faulty: the condition is not looked at.
FaultyStore(next, t, renew) ==
    /\ man' = next
    /\ lapsed' = FALSE
    /\ expired' = (expired /\ ~renew)

\* The condition holds and the manifest is replaced.  renew: with a new ExpiresAt.
Store(next, t, renew) ==
    /\ man = t
    /\ man' = next
    /\ lapsed' = FALSE
    /\ expired' = (expired /\ ~renew)

NoAnswer(q) ==
    /\ faults < MaxFaults
    /\ faults' = faults + 1
    /\ net' = net \cup {q}

\* Process p saves next; then what ok says happens.
Save(p, next, renew, ok) ==
    /\ \/ /\ Store(next, tag[p], renew)
          /\ ok
          /\ UNCHANGED <<net, faults>>
       \/ /\ man # tag[p]
          /\ Failed(p)
          /\ UNCHANGED <<man, lapsed, expired, net, faults, begun, acked>>
       \/ /\ NoAnswer([to |-> "save", next |-> next, tag |-> tag[p], renew |-> renew])
          /\ Failed(p)
          /\ UNCHANGED <<man, lapsed, expired, begun, acked>>
    /\ UNCHANGED <<obj, mpu, blob, ref, calls, others, gone, erased>>

\* A save of the process's copy: it has the new ETag and goes on.
SaveCopy(p, renew, l) ==
    Save(p, mf[p], renew,
         /\ tag' = [tag EXCEPT ![p] = mf[p]]
         /\ Goto(p, l)
         /\ UNCHANGED <<op, mf, todo, late, prot, begun, acked>>)

Begin(p) ==
    /\ pc[p] = "begin"
    /\ Save(p, [state |-> "active", sum |-> <<>>, chunks |-> <<>>, lease |-> None,
                upload |-> None], TRUE,
            End(p, TRUE) /\ begun' = TRUE /\ UNCHANGED acked)

\* The deferred release.  That of Append and of Commit has a context of its own.
Release(p) ==
    /\ pc[p] \in {"release", "finish"}
    /\ p \in late => op[p] \in {"Append", "Commit", "PruneCommit"}
    /\ Save(p, [mf[p] EXCEPT !.lease = None], FALSE,
            End(p, pc[p] = "finish") /\ UNCHANGED <<begun, acked>>)

-----------------------------------------------------------------------------
(* acquire.                                                                *)

\* There is no manifest, or one with a lease in force.
Taken == man = None \/ (man # None /\ man.lease # None /\ ~lapsed)

\* read, and a new lease unless another is in force.
Read(p) ==
    /\ pc[p] = "read"
    /\ p \notin late
    /\ \/ Taken /\ End(p, FALSE)
       \/ /\ ~Taken
          /\ FreeNames # {}
          /\ mf' = [mf EXCEPT ![p] = [man EXCEPT !.lease = CHOOSE k \in FreeNames : TRUE]]
          /\ tag' = [tag EXCEPT ![p] = man]
          /\ Goto(p, "lease")
          /\ UNCHANGED <<op, todo, late, prot>>
    /\ UNCHANGED <<bucket, env, bounds, history>>

Full(r) == Len(r.sum) = MaxLen

\* What an operation may do with the manifest it has a lease on.  An Append may
\* come with another offset and a Commit with another digest or other labels:
\* then they go on to release it.
First(o, r) ==
    CASE o = "Append" ->
            IF r.state # "active" \/ expired \/ Full(r) THEN {"release"} ELSE {"chunk", "release"}
      [] o \in {"Commit", "PruneCommit"} ->
            CASE r.state = "committing" -> IF o = "Commit" THEN {"look", "release"} ELSE {"look"}
              [] r.state = "aborted" \/ (expired /\ r.state # "committing") -> {"release"}
              [] r.state = "committed" /\ ~expired -> {"finish"}
              [] OTHER -> {"freeze", "release"}
      [] o = "Abort" ->
            CASE r.state = "committing" -> {"look"}
              [] r.state = "committed" -> {"release"}
              [] OTHER -> {"abort"}
      [] o = "Clean" -> IF r.state \in {"committed", "aborted"} THEN {"list"} ELSE {"release"}
      [] o = "Prune" ->
            CASE r.state = "committing" -> {"release"}
              [] expired /\ r.state # "committing" -> {"cleanall"}
              [] OTHER -> {"clean"}

\* The state an operation writes in its copy before it saves it.
Marked(r, l) ==
    CASE l = "freeze" -> [r EXCEPT !.state = "committing"]
      [] l = "receipt" -> [r EXCEPT !.state = "committed"]
      [] l = "abort" -> [r EXCEPT !.state = "aborted"]
      [] OTHER -> r

\* The lease is saved.
Lease(p) ==
    /\ pc[p] = "lease"
    /\ p \notin late
    /\ Save(p, mf[p], FALSE,
            \E l \in First(op[p], mf[p]) :
                /\ tag' = [tag EXCEPT ![p] = mf[p]]
                /\ mf' = [mf EXCEPT ![p] = Marked(@, l)]
                /\ Goto(p, l)
                /\ prot' = IF op[p] = "Prune" /\ mf[p].state = "committing"
                           THEN prot \cup {p} ELSE prot
                /\ UNCHANGED <<op, todo, late, begun, acked>>)

-----------------------------------------------------------------------------
(* Append.                                                                 *)

ShortTail(r) == Len(r.sum) % PartSize # 0

\* Faulty: the short last chunk is kept as well.
FaultyAppended(r, p) ==
    [r EXCEPT !.sum = Append(@, p), !.chunks = Append(@, r.lease), !.lease = None]

\* The manifest after an Append of p: a short last chunk is read back and
\* written again, with the new bytes behind it, under the new lease.
Appended(r, p) ==
    [r EXCEPT !.sum = Append(@, p),
              !.chunks = Append(IF ShortTail(r) THEN Front(@) ELSE @, r.lease),
              !.lease = None]

\* The last chunk is read, if it is short, and the new one uploaded.
PutChunk(p) ==
    /\ pc[p] = "chunk"
    /\ p \notin late
    /\ LET tail == IF ShortTail(mf[p]) THEN obj[Last(mf[p].chunks)] ELSE <<>> IN
       \/ /\ tail # None
          /\ obj' = [obj EXCEPT ![mf[p].lease] = Append(tail, p)]
          /\ Continue(p, "append")
          /\ UNCHANGED <<net, faults>>
       \/ /\ tail # None
          /\ NoAnswer([to |-> "chunk", key |-> mf[p].lease, bytes |-> Append(tail, p)])
          /\ Failed(p)
          /\ UNCHANGED obj
       \/ /\ tail = None
          /\ Failed(p)
          /\ UNCHANGED <<obj, net, faults>>
    /\ UNCHANGED <<man, mpu, blob, ref, lapsed, expired, calls, others, history>>

\* release(&next): the manifest that refers to it also gives the lease back.
PublishAppend(p) ==
    /\ pc[p] = "append"
    /\ p \notin late
    /\ LET next == Appended(mf[p], p) IN
       Save(p, next, TRUE, End(p, TRUE) /\ acked' = next.sum /\ UNCHANGED begun)

-----------------------------------------------------------------------------
(* Commit, publish and assemble.                                           *)

\* Commit freezes what it publishes.
Freeze(p) ==
    /\ pc[p] = "freeze"
    /\ p \notin late
    /\ SaveCopy(p, FALSE, "look")

\* Faulty: an upload that was recorded is taken for one that was completed.
FaultyLook(p) ==
    /\ pc[p] = "look"
    /\ p \notin late
    /\ LET d == mf[p].sum
           l == CASE d \in ref -> "receipt"
                  [] d \notin ref /\ (blob[d] # None \/ mf[p].upload # None) -> "ref"
                  [] d \notin ref /\ blob[d] = None /\ d = <<>> -> "put"
                  [] OTHER -> "create"
       IN mf' = [mf EXCEPT ![p] = Marked(@, l)] /\ Goto(p, l)
    /\ erased' = erased \ (ref \cap {mf[p].sum})
    /\ UNCHANGED <<man, obj, mpu, blob, ref, env, op, tag, todo, late, prot,
                   bounds, begun, acked, gone>>

\* A reference that is there is the result.  A blob that is there needs none of
\* the chunks; an empty one is put; others are assembled.
Look(p) ==
    /\ pc[p] = "look"
    /\ p \notin late
    /\ LET d == mf[p].sum
           l == CASE d \in ref -> "receipt"
                  [] d \notin ref /\ blob[d] # None -> "ref"
                  [] d \notin ref /\ blob[d] = None /\ d = <<>> -> "put"
                  [] OTHER -> IF mf[p].upload = None THEN "create" ELSE "copy"
       IN mf' = [mf EXCEPT ![p] = Marked(@, l)] /\ Goto(p, l)
    /\ erased' = erased \ (ref \cap {mf[p].sum})
    /\ UNCHANGED <<man, obj, mpu, blob, ref, env, op, tag, todo, late, prot,
                   bounds, begun, acked, gone>>

\* A request whose effect takes place.  Its answer may still be lost.
Request(p, effect, ok) ==
    /\ effect
    /\ \/ ok /\ UNCHANGED faults
       \/ /\ faults < MaxFaults
          /\ faults' = faults + 1
          /\ Failed(p)

\* putBlob, of nothing.
PutBlob(p) ==
    /\ pc[p] = "put"
    /\ p \notin late
    /\ Request(p, blob' = [blob EXCEPT ![mf[p].sum] = <<>>], Continue(p, "ref"))
    /\ UNCHANGED <<man, obj, mpu, ref, env, calls, others, history>>

\* A multipart upload is created, and its id saved before it is used.
CreateUpload(p) ==
    /\ pc[p] = "create"
    /\ p \notin late
    /\ FreeUploads # {}
    /\ LET u == CHOOSE u \in FreeUploads : TRUE IN
       Request(p, mpu' = [mpu EXCEPT ![u] = <<>>],
               /\ mf' = [mf EXCEPT ![p].upload = u]
               /\ Goto(p, "record")
               /\ UNCHANGED <<op, tag, todo, late, prot>>)
    /\ UNCHANGED <<man, obj, blob, ref, env, calls, others, history>>

RecordUpload(p) ==
    /\ pc[p] = "record"
    /\ p \notin late
    /\ SaveCopy(p, FALSE, "copy")

Content(ks) == FlattenSeq([i \in 1 .. Len(ks) |-> obj[ks[i]]])

\* Faulty: 404 is an error like any other.
FaultyCopyParts(p) ==
    /\ pc[p] = "copy"
    /\ p \notin late
    /\ LET u == mf[p].upload
           there == mpu[u] # None /\ \A k \in Range(mf[p].chunks) : obj[k] # None
       IN
       \/ /\ there
          /\ Request(p, mpu' = [mpu EXCEPT ![u] = Content(mf[p].chunks)],
                     Continue(p, "complete"))
       \/ ~there /\ Failed(p) /\ UNCHANGED <<mpu, faults>>
    /\ UNCHANGED <<man, obj, blob, ref, env, calls, others, history>>

\* Every chunk is copied to the upload.  404, of the upload or of a chunk:
\* the upload is forgotten.
CopyParts(p) ==
    /\ pc[p] = "copy"
    /\ p \notin late
    /\ LET u == mf[p].upload
           there == mpu[u] # None /\ \A k \in Range(mf[p].chunks) : obj[k] # None
       IN
       \/ /\ there
          /\ Request(p, mpu' = [mpu EXCEPT ![u] = Content(mf[p].chunks)],
                     Continue(p, "complete"))
       \/ /\ ~there
          /\ mf' = [mf EXCEPT ![p].upload = None]
          /\ Goto(p, "forget")
          /\ UNCHANGED <<mpu, op, tag, todo, late, prot, faults>>
    /\ UNCHANGED <<man, obj, blob, ref, env, calls, others, history>>

\* That is saved, and Commit returns ErrStageConflict.
ForgetUpload(p) ==
    /\ pc[p] = "forget"
    /\ p \notin late
    /\ SaveCopy(p, FALSE, "release")

\* The upload is completed, if it is still there.
CompleteUpload(p) ==
    /\ pc[p] = "complete"
    /\ p \notin late
    /\ LET u == mf[p].upload IN
       \/ /\ mpu[u] # None
          /\ Request(p, /\ blob' = [blob EXCEPT ![mf[p].sum] = mpu[u]]
                        /\ mpu' = [mpu EXCEPT ![u] = None],
                     Continue(p, "ref"))
       \/ /\ mpu[u] = None
          /\ Failed(p)
          /\ UNCHANGED <<blob, mpu, faults>>
    /\ UNCHANGED <<man, obj, ref, env, calls, others, history>>

\* The reference is put unless there is one, which is a success too.
PutRef(p) ==
    /\ pc[p] = "ref"
    /\ p \notin late
    /\ Request(p, ref' = ref \cup {mf[p].sum} /\ erased' = erased \ {mf[p].sum},
               /\ mf' = [mf EXCEPT ![p] = Marked(@, "receipt")]
               /\ Goto(p, "receipt")
               /\ UNCHANGED <<op, tag, todo, late, prot>>)
    /\ UNCHANGED <<man, obj, mpu, blob, env, calls, others, begun, acked, gone>>

\* The receipt is saved.  Abort gives the lease back with it.
Receipt(p) ==
    /\ pc[p] = "receipt"
    /\ p \notin late
    /\ \/ op[p] # "Abort" /\ SaveCopy(p, TRUE, "finish")
       \/ /\ op[p] = "Abort"
          /\ Save(p, [mf[p] EXCEPT !.lease = None], TRUE,
                  End(p, TRUE) /\ UNCHANGED <<begun, acked>>)

-----------------------------------------------------------------------------
(* Abort, cleanTerminal and PruneStages.                                   *)

SaveAborted(p) ==
    /\ pc[p] = "abort"
    /\ p \notin late
    /\ Save(p, [mf[p] EXCEPT !.lease = None], tag[p].state = "active",
            End(p, TRUE) /\ UNCHANGED <<begun, acked>>)

Chunks == {k \in Nonce : obj[k] # None}

\* PruneStages lists the stage's objects and reads its manifest: it skips one
\* with a lease in force and finishes a commit first.  Without a manifest the
\* chunks go, once they are old enough.  cleanTerminal lists with its lease.
List(p) ==
    /\ pc[p] = "list"
    /\ p \notin late
    /\ todo' = [todo EXCEPT ![p] = Chunks]
    /\ \/ /\ op[p] = "Clean"
          /\ Goto(p, "clean")
          /\ UNCHANGED <<op, prot>>
       \/ /\ op[p] = "Prune"
          /\ man = None
          /\ \E l \in {"sweep", "uploads"} : Goto(p, l)
          /\ UNCHANGED <<op, prot>>
       \/ /\ op[p] = "Prune"
          /\ man # None
          /\ Goto(p, IF Taken THEN "uploads" ELSE "read")
          /\ op' = [op EXCEPT ![p] = IF man.state = "committing" /\ ~Taken
                                     THEN "PruneCommit" ELSE "Prune"]
          /\ prot' = IF man.state = "committing" THEN prot \cup {p} ELSE prot
    /\ UNCHANGED <<bucket, env, mf, tag, late, bounds, history>>

\* Faulty: chunks that are old are deleted though the manifest refers to them.
FaultyGarbage(r, listed, all) ==
    IF all \/ r.state \in {"committed", "aborted"} THEN {listed} ELSE {{}, listed}

\* The chunks cleanChunks deletes: all that were listed when the stage is over,
\* and otherwise those that are not referred to, if they are old.
Garbage(r, listed, all) ==
    IF all \/ r.state \in {"committed", "aborted"} THEN {listed}
    ELSE {{}, listed \ Range(r.chunks)}

Without(ks) == [k \in Nonce |-> IF k \in ks THEN None ELSE obj[k]]

\* It deletes them one by one, and stops at a request that fails.
CleanChunks(p) ==
    /\ pc[p] \in {"clean", "cleanall"}
    /\ p \notin late
    /\ \E ks \in Garbage(mf[p], todo[p], pc[p] = "cleanall") :
          \/ /\ obj' = Without(ks)
             /\ Continue(p, IF pc[p] = "cleanall" THEN "delete" ELSE "release")
             /\ UNCHANGED <<net, faults>>
          \/ \E k \in ks, some \in SUBSET ks :
                /\ k \notin some
                /\ obj' = Without(some)
                /\ NoAnswer([to |-> "clean", key |-> k])
                /\ Failed(p)
    /\ UNCHANGED <<man, mpu, blob, ref, lapsed, expired, calls, others, history>>

\* The manifest of an expired stage is deleted, if it is still the same one.
DeleteManifest(p) ==
    /\ pc[p] = "delete"
    /\ p \notin late
    /\ \/ /\ man = tag[p]
          /\ man' = None
          /\ gone' = TRUE
          /\ End(p, TRUE)
          /\ UNCHANGED <<net, faults>>
       \/ /\ man # tag[p]
          /\ IF man = None THEN End(p, TRUE) ELSE Failed(p)
          /\ UNCHANGED <<man, gone, net, faults>>
       \/ /\ NoAnswer([to |-> "delete", tag |-> tag[p]])
          /\ Failed(p)
          /\ UNCHANGED <<man, gone>>
    /\ UNCHANGED <<obj, mpu, blob, ref, lapsed, expired, calls, others,
                   begun, acked, erased>>

\* Chunks without a manifest are deleted; one request that fails stops nothing.
Sweep(p) ==
    /\ pc[p] = "sweep"
    /\ \/ obj' = Without(todo[p]) /\ UNCHANGED <<net, faults>>
       \/ \E k \in todo[p] :
             /\ obj' = Without(todo[p] \ {k})
             /\ NoAnswer([to |-> "clean", key |-> k])
    /\ End(p, TRUE)
    /\ UNCHANGED <<man, mpu, blob, ref, lapsed, expired, calls, others, history>>

\* pruneStageUploads aborts the multipart uploads older than TTL +
\* OperationTimeout, unless it has met the stage committing.  Any may be.
PruneUploads(p) ==
    /\ pc[p] = "uploads"
    /\ \E old \in IF p \in prot THEN {{}} ELSE SUBSET Upload :
          mpu' = [u \in Upload |-> IF u \in old THEN None ELSE mpu[u]]
    /\ op' = [op EXCEPT ![p] = None]
    /\ Goto(p, "idle")
    /\ prot' = prot \ {p}
    /\ UNCHANGED <<man, obj, blob, ref, env, mf, tag, todo, late, bounds, history>>

-----------------------------------------------------------------------------
(* Calls, faults, time and other callers.                                  *)

Call(p) ==
    /\ pc[p] = "idle"
    /\ p \notin Hosts
    /\ begun
    /\ calls < MaxCalls
    /\ calls' = calls + 1
    /\ \E o \in {"Append", "Commit", "Abort"} : op' = [op EXCEPT ![p] = o]
    /\ Goto(p, "read")
    /\ UNCHANGED <<bucket, env, mf, tag, todo, late, prot, faults, others, history>>

Maintain(p) ==
    /\ pc[p] = "idle"
    /\ p \in Hosts
    /\ op' = [op EXCEPT ![p] = "Prune"]
    /\ Goto(p, "list")
    /\ UNCHANGED <<bucket, env, mf, tag, todo, late, prot, bounds, history>>

\* The context is past its deadline: no request is made with it.
TimedOut(p) ==
    /\ p \in late
    /\ pc[p] \in {"release", "finish"} => op[p] \notin {"Append", "Commit", "PruneCommit"}
    /\ Failed(p)
    /\ UNCHANGED <<bucket, env, bounds, history>>

\* A request is refused, or its answer does not come and it never arrives.
Refused(p) ==
    /\ pc[p] \notin {"idle", "sweep", "uploads"}
    /\ faults < MaxFaults
    /\ faults' = faults + 1
    /\ Failed(p)
    /\ UNCHANGED <<bucket, env, calls, others, history>>

\* The process dies.
Crash(p) ==
    /\ pc[p] # "idle"
    /\ faults < MaxFaults
    /\ faults' = faults + 1
    /\ op' = [op EXCEPT ![p] = None] /\ pc' = [pc EXCEPT ![p] = "idle"]
    /\ mf' = [mf EXCEPT ![p] = None] /\ tag' = [tag EXCEPT ![p] = None]
    /\ todo' = [todo EXCEPT ![p] = {}]
    /\ late' = late \ {p} /\ prot' = prot \ {p}
    /\ UNCHANGED <<bucket, env, calls, others, history>>

\* A request nobody waits for is carried out after all, if its condition holds.
Deliver(q) ==
    /\ net' = net \ {q}
    /\ \/ /\ q.to = "save"
          /\ Store(q.next, q.tag, q.renew)
          /\ UNCHANGED <<obj, gone>>
       \/ /\ q.to = "delete" /\ man = q.tag
          /\ man' = None /\ gone' = TRUE
          /\ UNCHANGED <<obj, lapsed, expired>>
       \/ /\ q.to \in {"save", "delete"} /\ man # q.tag
          /\ UNCHANGED <<man, obj, lapsed, expired, gone>>
       \/ /\ q.to \in {"chunk", "clean"}
          /\ obj' = [obj EXCEPT ![q.key] =
                       IF q.to = "clean" THEN None ELSE IF @ = None THEN q.bytes ELSE @]
          /\ UNCHANGED <<man, lapsed, expired, gone>>
    /\ UNCHANGED <<mpu, blob, ref, procs, bounds, begun, acked, erased>>

\* OperationTimeout passes: a lease lapses, and the context of its holder, which
\* is older, is past its deadline.  That of a holder that is still at work counts
\* as a fault.
Lapse ==
    LET holders == {p \in Proc : mf[p] # None /\ mf[p].lease = man.lease} IN
    /\ man # None
    /\ man.lease # None /\ ~lapsed
    /\ lapsed' = TRUE
    /\ late' = late \cup holders
    /\ \/ holders = {} /\ UNCHANGED faults
       \/ holders # {} /\ faults < MaxFaults /\ faults' = faults + 1
    /\ UNCHANGED <<bucket, expired, net, op, pc, mf, tag, todo, prot, calls, others, history>>

Expire ==
    /\ man # None /\ ~expired
    /\ expired' = TRUE
    /\ UNCHANGED <<bucket, lapsed, net, procs, bounds, history>>

\* Another caller adds the bytes the stage commits.
OtherAdd ==
    /\ others < MaxOthers
    /\ others' = others + 1
    /\ man # None /\ man.state \in {"committing", "committed"} /\ man.sum \notin ref
    /\ blob' = [blob EXCEPT ![man.sum] = man.sum]
    /\ ref' = ref \cup {man.sum}
    /\ UNCHANGED <<man, obj, mpu, env, procs, calls, faults, history>>

OtherErase ==
    /\ others < MaxOthers
    /\ others' = others + 1
    /\ \E d \in ref : ref' = ref \ {d} /\ erased' = erased \cup {d}
    /\ UNCHANGED <<man, obj, mpu, blob, env, procs, calls, faults, begun, acked, gone>>

\* Reclaim takes a blob without a reference; its grace is longer than a commit
\* needs from finding or making the blob to the reference (S3Store).
Reclaim ==
    /\ \E d \in Bytes \ ref :
          /\ blob[d] # None
          /\ \A p \in Proc : pc[p] = "ref" => mf[p].sum # d
          /\ blob' = [blob EXCEPT ![d] = None]
    /\ UNCHANGED <<man, obj, mpu, ref, env, procs, bounds, history>>

Step(p) ==
    \/ Begin(p) \/ Read(p) \/ Lease(p) \/ Release(p)
    \/ PutChunk(p) \/ PublishAppend(p)
    \/ Freeze(p) \/ Look(p) \/ PutBlob(p) \/ CreateUpload(p) \/ RecordUpload(p)
    \/ CopyParts(p) \/ ForgetUpload(p) \/ CompleteUpload(p) \/ PutRef(p) \/ Receipt(p)
    \/ SaveAborted(p) \/ List(p) \/ CleanChunks(p) \/ DeleteManifest(p)
    \/ Sweep(p) \/ PruneUploads(p) \/ TimedOut(p)

Next ==
    \/ \E p \in Proc : Step(p) \/ Call(p) \/ Maintain(p) \/ Refused(p) \/ Crash(p)
    \/ \E q \in net : Deliver(q)
    \/ Lapse \/ Expire \/ OtherAdd \/ OtherErase \/ Reclaim

Spec == Init /\ [][Next]_vars

\* Processes run, the host calls PruneStages again and again, and leases lapse.
FairSpec ==
    /\ Spec
    /\ \A p \in Proc : WF_vars(Step(p))
    /\ \A p \in Hosts : WF_vars(Maintain(p))
    /\ WF_vars(Lapse)

-----------------------------------------------------------------------------
(* Properties.                                                             *)

\* A stage is there, with all that Append has acknowledged, until PruneStages
\* deletes it: a writer whose lease has lapsed, or whose request comes late,
\* undoes nothing.
StageKept == begun /\ ~gone => man # None /\ IsPrefix(acked, man.sum)

\* The chunks of a stage that may still be committed are there, and are the
\* bytes its hash is of, whatever cleanChunks has deleted.  (Not those of a stage
\* that PruneStages has deleted and a release with an empty ETag brought back.)
ChunksKept ==
    man # None /\ ~gone /\ (man.state = "committing" \/ (man.state = "active" /\ ~expired)) =>
        /\ \A k \in Range(man.chunks) : obj[k] # None
        /\ Content(man.chunks) = man.sum

\* A receipt is true: the reference and all of the bytes are there unless they
\* were erased.
ReceiptTrue ==
    man # None /\ man.state = "committed" /\ man.sum \notin erased =>
        man.sum \in ref /\ blob[man.sum] = man.sum

\* A frozen commit is published and an expired stage deleted, by whichever
\* PruneStages can, whatever died, lapsed or was aborted on the way.
StagesFinish == []<>(man = None \/ (man.state # "committing" /\ ~expired) \/ gone)
=============================================================================
