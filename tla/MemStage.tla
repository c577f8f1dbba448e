----------------------------- MODULE MemStage -----------------------------
(***************************************************************************)
(* The staged uploads of the in-memory backend (mem.go, with the record of *)
(* store.go), composed with MemStore, whose publish a Commit calls.        *)
(*                                                                         *)
(* MemStores.stages maps an id to an entry with a lock, a record and the   *)
(* bytes.  There is one stage at a time here, of namespace Owner; chunk i  *)
(* of the blob is the number i, and callers name its digest when they      *)
(* Commit.  Time is the record's expiry alone: it may come at any moment   *)
(* until it is put off.                                                    *)
(***************************************************************************)
EXTENDS MemStore, Sequences

CONSTANTS
    Owner,     \* the namespace the stage was begun in
    Chunks     \* bound: chunks of the blob

ASSUME StageAssumption ==
    /\ Owner \in Namespace
    /\ Chunks \in Nat
    /\ "Add" \in Ops

VARIABLES
    staged,    \* the entry is in the map
    state,     \* record.State
    data,      \* the bytes appended
    expired,   \* record.ExpiresAt has passed
    lock,      \* the goroutine in the entry's lock, or None
    sop,       \* sop[p]: the operation p has the lock for, or None
    spc,       \* spc[p]: where it is
    off        \* off[p]: the offset its Append was given

entry == <<staged, state, data, expired, lock>>
stageVars == <<entry, sop, spc, off>>
allVars == <<vars, stageVars>>

StageOps == {"Append", "Commit", "Abort"}
StageStates == {"active", "committing", "committed", "aborted"}
StageLabels ==
    {"idle", "acquire", "append", "complete", "publish", "stat", "receipt", "prune"}

\* The variables, MemStore's too, have their types, and only who holds the lock is
\* past acquire.
StageTypeOK ==
    /\ TypeOK
    /\ staged \in BOOLEAN /\ expired \in BOOLEAN
    /\ state \in StageStates
    /\ data \in Seq(1 .. Chunks)
    /\ lock \in Proc \cup {None}
    /\ sop \in [Proc -> StageOps \cup {"Prune", None}]
    /\ spc \in [Proc -> StageLabels]
    /\ off \in [Proc -> 0 .. Chunks]
    /\ \A p \in Proc : (spc[p] \notin {"idle", "acquire"}) <=> lock = p

StageInit ==
    /\ Init
    /\ staged = FALSE /\ expired = FALSE
    /\ state = "active"
    /\ data = <<>>
    /\ lock = None
    /\ sop = [p \in Proc |-> None]
    /\ spc = [p \in Proc |-> "idle"]
    /\ off = [p \in Proc |-> 0]

-----------------------------------------------------------------------------
At(p, l) == spc' = [spc EXCEPT ![p] = l]

\* Faulty: the lock is kept.
StageReturnLocked(p) ==
    /\ At(p, "idle")
    /\ sop' = [sop EXCEPT ![p] = None]
    /\ off' = [off EXCEPT ![p] = 0]
    /\ UNCHANGED lock

\* The operation returns, with the result the comment of the step gives, and
\* releases the lock if it has it.
StageReturn(p) ==
    /\ At(p, "idle")
    /\ sop' = [sop EXCEPT ![p] = None]
    /\ off' = [off EXCEPT ![p] = 0]
    /\ lock' = IF lock = p THEN None ELSE lock

\* p has the lock, for operation o, which Append makes at offset n.
Hold(p, o, n, l) ==
    /\ At(p, l)
    /\ lock' = p
    /\ sop' = [sop EXCEPT ![p] = o]
    /\ off' = [off EXCEPT ![p] = n]

\* The record is kept for another TTL, or retention.
Renew == expired' = FALSE

\* newStageRecord: no bytes, and their hash.
NewRecord == state' = "active" /\ data' = <<>> /\ Renew

\* A new record with a new id: nobody works on the last one any more.
Begin(p) ==
    /\ pc[p] = "idle" /\ ~staged
    /\ \A q \in Proc : spc[q] = "idle"
    /\ staged' = TRUE
    /\ NewRecord
    /\ UNCHANGED <<vars, lock, sop, spc, off>>

\* An operation finds the entry in the map.
Find(p) ==
    /\ pc[p] = "idle" /\ spc[p] = "idle"
    /\ staged
    /\ At(p, "acquire")
    /\ UNCHANGED <<vars, entry, sop, off>>

\* Faulty: the entry is not looked for again under its lock.
AcquiredUnchecked(o) == o = "Abort" \/ state = "committing" \/ ~expired

\* What acquire looks at under the lock: the entry must still be in the map,
\* and not have expired, but for an Abort or a commit to recover.
Acquired(o) == staged /\ (o = "Abort" \/ state = "committing" \/ ~expired)

\* An operation other than PruneStages has the lock.
Acquire(p, o) == spc[p] = "acquire" /\ lock = None /\ Acquired(o)

\* acquire fails: ErrNotExist or ErrStageExpired.
Refused(p) ==
    /\ spc[p] = "acquire" /\ lock = None
    /\ \E o \in StageOps : ~Acquired(o)
    /\ StageReturn(p)
    /\ UNCHANGED <<vars, staged, state, data, expired>>

\* Faulty: the offset is not compared.
AppendAnywhere(p, n) ==
    /\ Acquire(p, "Append")
    /\ IF state = "active" THEN Hold(p, "Append", n, "append") ELSE StageReturn(p)
    /\ UNCHANGED <<vars, staged, state, data, expired>>

\* Append at n: ErrStageClosed, ErrOffsetMismatch, or it reads what it is given.
AppendBegin(p, n) ==
    /\ Acquire(p, "Append")
    /\ IF state = "active" /\ n = Len(data) THEN Hold(p, "Append", n, "append")
       ELSE StageReturn(p)
    /\ UNCHANGED <<vars, staged, state, data, expired>>

\* All of it is there, and becomes part of the stage.
AppendAll(p) ==
    /\ spc[p] = "append"
    /\ \E n \in 0 .. Chunks - off[p] : data' = data \o [i \in 1 .. n |-> off[p] + i]
    /\ Renew
    /\ StageReturn(p)
    /\ UNCHANGED <<vars, staged, state>>

\* The digest a Commit is given is that of the bytes appended.
prepareCommit == Len(data) = Chunks

\* Commit: ErrStageClosed; prepareCommit's ErrDigestMismatch; the result that
\* was recorded; ErrStageConflict, if a commit with other labels has begun; or
\* the commit is frozen, or resumed, and completed.
Commit(p) ==
    /\ Acquire(p, "Commit")
    /\ \/ state # "active" /\ StageReturn(p) /\ UNCHANGED state
       \/ state = "active" /\ ~prepareCommit /\ StageReturn(p) /\ UNCHANGED state
       \/ /\ state = "committing" \/ (state = "active" /\ prepareCommit)
          /\ state' = "committing"
          /\ Hold(p, "Commit", 0, "complete")
    /\ UNCHANGED <<vars, staged, data, expired>>

\* Faulty: a commit in progress is given up.
AbortAlways(p) ==
    /\ Acquire(p, "Abort")
    /\ IF state \in {"committed", "aborted"} THEN UNCHANGED <<state, data, expired>>
       ELSE state' = "aborted" /\ data' = <<>> /\ Renew
    /\ StageReturn(p)
    /\ UNCHANGED <<vars, staged>>

\* Abort: nothing if the stage is closed, and a commit in progress is completed.
Abort(p) ==
    /\ Acquire(p, "Abort")
    /\ \/ /\ state \in {"committed", "aborted"}
          /\ StageReturn(p) /\ UNCHANGED <<state, data, expired>>
       \/ /\ state = "committing"
          /\ Hold(p, "Abort", 0, "complete") /\ UNCHANGED <<state, data, expired>>
       \/ /\ state = "active"
          /\ state' = "aborted"
          /\ data' = <<>>
          /\ Renew
          /\ StageReturn(p)
    /\ UNCHANGED <<vars, staged>>

\* PruneStages skips an entry that is locked, or that has gone.
PruneBegin(p) ==
    /\ spc[p] = "acquire"
    /\ IF lock # None \/ ~staged THEN StageReturn(p)
       ELSE Hold(p, "Prune", 0, IF state = "committing" THEN "complete" ELSE "prune")
    /\ UNCHANGED <<vars, staged, state, data, expired>>

\* An expired entry is deleted.
Prune(p) ==
    /\ spc[p] = "prune"
    /\ IF expired THEN staged' = FALSE /\ data' = <<>> ELSE UNCHANGED <<staged, data>>
    /\ StageReturn(p)
    /\ UNCHANGED <<vars, state, expired>>

-----------------------------------------------------------------------------
(* complete *)

\* publish, which is the part of Add that follows the hashing.
Complete(p) ==
    /\ spc[p] = "complete" /\ pc[p] = "idle"
    /\ call' = [call EXCEPT ![p] = [op |-> "Add", ns |-> Owner, from |-> Owner]]
    /\ Goto(p, "store")
    /\ At(p, "publish")
    /\ UNCHANGED <<heap, res, b_, same, entry, sop, off>>

\* publish returns to complete: with nil, or with ErrAlreadyExists.
Published(p) ==
    /\ IF spc[p] = "publish" /\ pc'[p] = "idle"
       THEN At(p, IF res[p] = "ok" THEN "receipt" ELSE "stat")
       ELSE UNCHANGED spc
    /\ UNCHANGED <<entry, sop, off>>

\* The blob that exists is success, if it still does.
StatExisting(p) ==
    /\ spc[p] = "stat"
    /\ IF es[Owner] # None THEN Hold(p, sop[p], 0, "receipt") ELSE StageReturn(p)
    /\ UNCHANGED <<vars, staged, state, data, expired>>

\* The result is recorded.  PruneStages looks at the expiry again.
Receipt(p) ==
    /\ spc[p] = "receipt"
    /\ state' = "committed"
    /\ data' = <<>>
    /\ Renew
    /\ IF sop[p] = "Prune" THEN Hold(p, "Prune", 0, "prune") ELSE StageReturn(p)
    /\ UNCHANGED <<vars, staged>>

\* The context is done while p waits for the lock, reads, or is about to
\* publish; or what it reads ends in an error.
StageFail(p) ==
    /\ spc[p] \in {"acquire", "append", "complete", "stat"}
    /\ StageReturn(p)
    /\ UNCHANGED <<vars, staged, state, data, expired>>

Expire ==
    /\ staged /\ ~expired
    /\ expired' = TRUE
    /\ UNCHANGED <<vars, staged, state, data, lock, sop, spc, off>>

-----------------------------------------------------------------------------
Staging(p) ==
    \/ Begin(p) \/ Find(p) \/ Refused(p)
    \/ (\E n \in 0 .. Chunks : AppendBegin(p, n)) \/ AppendAll(p)
    \/ Commit(p) \/ Abort(p) \/ PruneBegin(p) \/ Prune(p) \/ Complete(p) \/ StatExisting(p)
    \/ Receipt(p) \/ StageFail(p)

StoreCall(p) == spc[p] = "idle" /\ Call(p) /\ UNCHANGED stageVars
StoreRunning(p) == Running(p) /\ Published(p)

StageNext ==
    \/ \E p \in Proc : Staging(p) \/ StoreCall(p) \/ StoreRunning(p)
    \/ Expire

StageSpec == StageInit /\ [][StageNext]_allVars

-----------------------------------------------------------------------------
(* Properties *)

\* A stage holds the blob's first chunks, each once, whoever appends, retries
\* or fails; and a commit is of all of them.
StageWhole ==
    /\ \A i \in DOMAIN data : data[i] = i
    /\ state = "committing" => Len(data) = Chunks

\* A commit that has begun is never undone, nor is its stage removed before it
\* is complete, though every caller fails and the stage expires.
CommitsStand ==
    [][state = "committing" => state' \in {"committing", "committed"} /\ staged']_allVars

\* A stage that was pruned under a caller that had found it is not changed.
PrunedFinal == [][~staged => UNCHANGED <<state, data>> \/ staged']_allVars
=============================================================================
