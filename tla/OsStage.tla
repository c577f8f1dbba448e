------------------------------ MODULE OsStage ------------------------------
(***************************************************************************)
(* Staged uploads of the filesystem backend (os.go 1095-1958): one stage,  *)
(* in uploads/<id>/, and the one digest it commits.                        *)
(*                                                                         *)
(*   lock          a flock every operation works under                     *)
(*   blob          the bytes, appended in place                            *)
(*   manifest      the record: state, offset, hash of the bytes before it  *)
(*   publish/      the entry a commit prepares                             *)
(*                                                                         *)
(* A step ends where a crash leaves something else on disk, or where       *)
(* another process sees it.  A process may die, a system call may fail,    *)
(* and the power may go: what was not synced may then be as it was at any  *)
(* time since it last was.  Unlike OsStore, which has one action for each  *)
(* system call, an Add, an Erase and a tryCleanup of other callers are one *)
(* step each here: the first and the last hold the digest's lock.          *)
(***************************************************************************)
EXTENDS Naturals, SequencesExt

CONSTANTS
    Proc,        \* processes working on the stage
    None,        \* nothing there, nobody
    Chunk,       \* what one Append may bring
    MaxLen,      \* bound: chunks of a stage
    Hosts,       \* those in which the host runs PruneStages
    MaxCalls,    \* bound: operations of clients
    MaxFaults,   \* bound: deaths, failing calls and power losses together
    MaxOthers    \* bound: Adds and Erases of other callers

VARIABLES
    \* uploads/<id>
    up,        \* its directory: what is there, as a record
    older,     \* earlier contents that a power loss may bring back
    rooted,    \* its name in uploads/ is synced
    data,      \* the bytes of the inode created as uploads/<id>/blob
    synced,    \* how many of them are synced
    expired,   \* the record is past its ExpiresAt
    aged,      \* the directory was last modified TTL + OperationTimeout ago
    \* the digest
    share,     \* whose inode is at share/<digest>: "mine", "theirs" or None
    entry,     \* whose is at repo/<ns>/<digest>/blob
    orphan,    \* repo/<ns>/<digest> is there without a blob
    solid,     \* the entry is synced
    dlock,     \* the holder of the digest's lock, or None
    sum,       \* the bytes the digest is of: those of the first Commit, or None
    \* the processes
    op,        \* op[p]: the operation p is in, or None
    pc,        \* pc[p]: where it is
    fl,        \* fl[p]: the lock file p has open, or None
    holds,     \* the processes that hold the flock of the file they have open
    rec,       \* rec[p]: the record p has read, or is about to write
    late,      \* the processes whose context is past its OperationTimeout
    \* bounds and history
    calls, faults, others,
    begun,     \* Begin has returned the id
    acked,     \* the bytes Append has acknowledged
    done,      \* a receipt has been synced
    erased,    \* the entry was erased since the stage found or made it
    pruned     \* a PruneStages has found the stage expired

upload == <<up, older, rooted, data, synced, expired, aged>>
digest == <<share, entry, orphan, solid, dlock, sum>>
procs == <<op, pc, fl, holds, rec, late>>
bounds == <<calls, faults, others>>
history == <<begun, acked, done, erased, pruned>>
vars == <<upload, digest, procs, bounds, history>>

States == {"active", "committing", "committed", "aborted"}

\* Bytes are a sequence of chunks; a record's hash stands for those it covers.
Bytes == UNION {[1 .. n -> Chunk] : n \in 0 .. MaxLen}
Records == [state : States, sum : Bytes]
Whose == {"mine", "theirs"}

\* A directory: the lock file (its second one is of pruneOrphanStage's making),
\* the blob, the manifest and what publish/blob links.
Dirs ==
    [dir : {TRUE}, lock : {None, 1, 2}, blob : BOOLEAN,
     man : Records \cup {None}, pub : Whose \cup {None}]
NoDir == [dir |-> FALSE, lock |-> None, blob |-> FALSE, man |-> None, pub |-> None]

Ops == {"Begin", "Stat", "Append", "Commit", "Abort", "Prune"}

ASSUME OsStageAssumption ==
    /\ None \notin Proc \cup Nat \cup Ops \cup Whose \cup Records \cup Bytes
    /\ Hosts \subseteq Proc
    /\ {MaxLen, MaxCalls, MaxFaults, MaxOthers} \subseteq Nat

Labels ==
    {"idle", "mkdir", "lockfile", "blobfile", "open", "wait", "tail", "write",
     "datasync", "rollback", "rename", "sync", "rootsync", "dlock", "publish",
     "share", "move", "entrysync", "rmblob", "lastsync", "clean", "orphan",
     "orphanlock", "rm"}

\* The variables have their types; the holder of the digest's lock holds the
\* stage's, and two processes never hold the same flock.
TypeOK ==
    /\ up \in Dirs \cup {NoDir}
    /\ older \subseteq Dirs \cup {NoDir}
    /\ {rooted, expired, aged, orphan, solid, begun, done, erased, pruned}
         \subseteq BOOLEAN
    /\ data \in Bytes
    /\ synced \in 0 .. Len(data)
    /\ {share, entry} \subseteq Whose \cup {None}
    /\ dlock \in Proc \cup {None}
    /\ sum \in Bytes \cup {None}
    /\ op \in [Proc -> Ops \cup {None}]
    /\ pc \in [Proc -> Labels]
    /\ fl \in [Proc -> {None, 1, 2}]
    /\ holds \subseteq Proc /\ late \subseteq Proc
    /\ rec \in [Proc -> Records \cup {None}]
    /\ calls \in 0 .. MaxCalls
    /\ faults \in 0 .. MaxFaults
    /\ others \in 0 .. MaxOthers
    /\ acked \in Bytes
    /\ dlock # None => dlock \in holds
    /\ \A p, q \in holds : fl[p] = fl[q] => p = q

\* A client has called Begin: it is the only one with this random id.
Init ==
    /\ up = NoDir /\ older = {} /\ rooted = FALSE
    /\ data = <<>> /\ synced = 0
    /\ expired = FALSE /\ aged = FALSE
    /\ share = None /\ entry = None /\ orphan = FALSE /\ solid = FALSE
    /\ dlock = None /\ sum = None
    /\ \E p \in Proc \ Hosts :
          /\ op = [q \in Proc |-> IF q = p THEN "Begin" ELSE None]
          /\ pc = [q \in Proc |-> IF q = p THEN "mkdir" ELSE "idle"]
    /\ fl = [p \in Proc |-> None]
    /\ holds = {} /\ late = {}
    /\ rec = [p \in Proc |-> None]
    /\ calls = 0 /\ faults = 0 /\ others = 0
    /\ begun = FALSE /\ acked = <<>> /\ done = FALSE /\ erased = FALSE
    /\ pruned = FALSE

-----------------------------------------------------------------------------
(* The directory, and the end of a call.                                   *)

Goto(p, l) == pc' = [pc EXCEPT ![p] = l]
Continue(p, l) == Goto(p, l) /\ UNCHANGED <<op, fl, holds, rec, late>>

\* The directory becomes d, which is not synced.
Change(d) ==
    /\ up' = d
    /\ older' = older \cup {up}
    /\ aged' = FALSE

\* osStageSyncDir of the directory.
SyncDir == older' = {} /\ UNCHANGED <<up, aged>>

Same == UNCHANGED <<up, older, aged>>

\* The call returns: locked.close(), and recoverCommit's unlock before it.
Leave(p) ==
    /\ pc' = [pc EXCEPT ![p] = "idle"]
    /\ op' = [op EXCEPT ![p] = None]
    /\ fl' = [fl EXCEPT ![p] = None]
    /\ rec' = [rec EXCEPT ![p] = None]
    /\ holds' = holds \ {p}
    /\ late' = late \ {p}
    /\ dlock' = IF dlock = p THEN None ELSE dlock

\* The call returns, and nothing else is changed.
Return(p) ==
    /\ Leave(p)
    /\ UNCHANGED <<upload, share, entry, orphan, solid, sum, bounds, history>>

\* A Begin that fails unlocks, and then removes the directory.
GiveUp(p) ==
    /\ Goto(p, "rm")
    /\ fl' = [fl EXCEPT ![p] = None]
    /\ holds' = holds \ {p}
    /\ UNCHANGED <<upload, digest, op, rec, late, bounds, history>>

\* recoverCommit returns an error: its deferred RemoveAll(publish).
Withdraw(p) ==
    /\ Leave(p)
    /\ IF up.pub # None THEN Change([up EXCEPT !.pub = None]) ELSE Same
    /\ UNCHANGED <<rooted, data, synced, expired, share, entry, orphan, solid, sum,
                   bounds, history>>

-----------------------------------------------------------------------------
(* Begin.                                                                  *)

BeginMkdir(p) ==
    /\ pc[p] = "mkdir"
    /\ up' = [NoDir EXCEPT !.dir = TRUE]
    /\ Continue(p, "lockfile")
    /\ UNCHANGED <<older, rooted, data, synced, expired, aged, digest, bounds, history>>

\* The lock file and the blob, each with O_EXCL: a pruneOrphanStage may have
\* made the one, or removed the directory.
BeginFile(p) ==
    /\ pc[p] \in {"lockfile", "blobfile"}
    /\ \/ /\ up.dir /\ pc[p] = "lockfile" /\ up.lock = None
          /\ Change([up EXCEPT !.lock = 1])
          /\ Continue(p, "blobfile")
          /\ UNCHANGED <<rooted, data, synced, expired, digest, bounds, history>>
       \/ /\ up.dir /\ pc[p] = "blobfile"
          /\ Change([up EXCEPT !.blob = TRUE])
          /\ Continue(p, "open")
          /\ UNCHANGED <<rooted, data, synced, expired, digest, bounds, history>>
       \/ /\ ~up.dir \/ (pc[p] = "lockfile" /\ up.lock # None)
          /\ GiveUp(p)

-----------------------------------------------------------------------------
(* openOsStage: the lock, and the record under it.                         *)

\* The directory and the lock file are looked for.  PruneStages goes on to
\* pruneOrphanStage when one is missing.
Open(p) ==
    /\ pc[p] = "open"
    /\ \/ /\ up.dir /\ up.lock # None
          /\ fl' = [fl EXCEPT ![p] = up.lock]
          /\ Goto(p, "wait")
          /\ UNCHANGED <<upload, digest, op, holds, rec, late, bounds, history>>
       \/ /\ ~up.dir \/ up.lock = None
          /\ \/ op[p] = "Begin" /\ GiveUp(p)
             \/ op[p] = "Prune" /\ Continue(p, "orphan")
                /\ UNCHANGED <<upload, digest, bounds, history>>
             \/ op[p] \notin {"Begin", "Prune"} /\ Return(p)

\* Faulty: the flock that TryLock reports as taken is taken for one's own.
FaultyUnlocked(l) == TRUE

\* Nobody holds the flock of lock file l.
Unlocked(l) == \A q \in holds : fl[q] # l

\* checkExpiry fails.
Expired(r) == r.state # "committing" /\ expired

\* PruneStages removes an expired stage and tidies another.
Tidy(r) == IF expired THEN "rm" ELSE IF r.state = "active" THEN "tail" ELSE "clean"

\* Where an operation goes with the record it read, or "idle" to return.  Commit
\* refuses bytes that are not the digest's; a full stage gets no more.
First(o, r) ==
    IF r = None THEN "idle"
    ELSE CASE o \in {"Stat", "Append", "Commit"} ->
                IF \/ Expired(r)
                   \/ r.state \in {"aborted", "committed"}
                   \/ o = "Append" /\ (r.state # "active" \/ Len(r.sum) = MaxLen)
                   \/ o = "Commit" /\ sum \notin {None, r.sum}
                THEN "idle" ELSE "tail"
           [] o = "Abort" ->
                CASE r.state = "committing" -> "tail"
                  [] r.state = "active" -> "rename"
                  [] OTHER -> "rmblob"
           [] o = "Prune" -> IF r.state = "committing" THEN "tail" ELSE Tidy(r)

\* The flock is acquired and the manifest read; Begin writes its first.  An
\* Append may come with another offset, a Commit with another digest or other
\* labels, and be refused.
Acquire(p) ==
    /\ pc[p] = "wait"
    /\ p \notin late
    /\ Unlocked(fl[p])
    /\ \/ /\ op[p] = "Begin"
          /\ rec' = [rec EXCEPT ![p] = [state |-> "active", sum |-> <<>>]]
          /\ Goto(p, "rename")
          /\ holds' = holds \cup {p}
          /\ UNCHANGED <<upload, digest, op, fl, late, bounds, history>>
       \/ /\ op[p] \in {"Stat", "Append", "Commit", "Abort"}
          /\ First(op[p], up.man) = "idle" \/ op[p] \in {"Append", "Commit"}
          /\ Return(p)
       \/ /\ op[p] = "Prune" /\ up.man = None
          /\ Goto(p, "orphan")
          /\ fl' = [fl EXCEPT ![p] = None]
          /\ UNCHANGED <<upload, digest, op, holds, rec, late, bounds, history>>
       \/ /\ op[p] # "Begin" /\ up.man # None
          /\ First(op[p], up.man) # "idle"
          /\ rec' = [rec EXCEPT ![p] =
                       IF First(op[p], up.man) = "rename"
                       THEN [up.man EXCEPT !.state = "aborted"] ELSE up.man]
          /\ Goto(p, First(op[p], up.man))
          /\ holds' = holds \cup {p}
          /\ UNCHANGED <<upload, digest, op, fl, late, bounds, history>>

\* TryLock fails: PruneStages skips a stage in use.
Skip(p) ==
    /\ pc[p] = "wait"
    /\ op[p] = "Prune"
    /\ ~Unlocked(fl[p])
    /\ Return(p)

\* nlink of uploads/<id>/blob.
Alone == "mine" \notin {up.pub, share, entry}

\* Faulty: an inode that was published and whose record a power loss has made
\* active again is written to.
FaultyBadTail(r) ==
    \/ ~up.blob
    \/ Len(data) < Len(r.sum)

\* recoverTail refuses what it finds.
BadTail(r) ==
    \/ ~up.blob
    \/ r.state = "active" /\ ~Alone
    \/ Len(data) < Len(r.sum)

\* recoverTail: bytes behind the record's offset are cut off and the file synced.
\* What follows: Append writes; Commit freezes its record; a frozen one is
\* published by whoever meets it.
RecoverTail(p) ==
    /\ pc[p] = "tail"
    /\ p \notin late
    /\ \/ BadTail(rec[p]) /\ Return(p)
       \/ /\ ~BadTail(rec[p])
          /\ data' = SubSeq(data, 1, Len(rec[p].sum))
          /\ synced' = IF data' = data THEN synced ELSE Len(data')
          /\ \/ op[p] = "Stat" /\ Leave(p) /\ UNCHANGED sum
             \/ op[p] = "Append" /\ Continue(p, "write") /\ UNCHANGED <<dlock, sum>>
             \/ /\ rec[p].state = "committing" /\ op[p] # "Stat"
                /\ Continue(p, "dlock") /\ UNCHANGED <<dlock, sum>>
             \/ /\ op[p] = "Commit" /\ rec[p].state = "active"
                /\ rec' = [rec EXCEPT ![p].state = "committing"]
                /\ sum' = rec[p].sum
                /\ Goto(p, "rename") /\ UNCHANGED <<dlock, fl, holds, op, late>>
             \/ /\ op[p] = "Prune" /\ rec[p].state = "active"
                /\ Continue(p, "clean") /\ UNCHANGED <<dlock, sum>>
          /\ UNCHANGED <<up, older, rooted, expired, aged, share, entry, orphan, solid,
                         bounds, history>>

-----------------------------------------------------------------------------
(* Append and osStageWriteRecord.                                          *)

\* io.Copy to the end of the file: the input, or a beginning of it, which is a
\* chunk too.
AppendWrite(p) ==
    /\ pc[p] = "write"
    /\ \E c \in Chunk : data' = Append(data, c)
    /\ Continue(p, "datasync")
    /\ UNCHANGED <<up, older, rooted, synced, expired, aged, digest, bounds, history>>

\* file.Sync, before the record that counts the bytes.
AppendSync(p) ==
    /\ pc[p] = "datasync"
    /\ synced' = Len(data)
    /\ rec' = [rec EXCEPT ![p].sum = data]
    /\ Goto(p, "rename")
    /\ UNCHANGED <<up, older, rooted, data, expired, aged, digest, op, fl, holds, late,
                   bounds, history>>

\* Append's rollback: the file is cut back to the offset before the call.
Rollback(p) ==
    /\ pc[p] = "rollback"
    /\ Leave(p)
    /\ data' = SubSeq(data, 1, Len(up.man.sum))
    /\ synced' = Len(data')
    /\ UNCHANGED <<up, older, rooted, expired, aged, share, entry, orphan, solid, sum,
                   bounds, history>>

\* osStageWriteRecord renames manifest.next, which is whole and synced.  Every
\* record but a committing one carries a new ExpiresAt.
WriteRecord(p) ==
    /\ pc[p] = "rename"
    /\ p \notin late
    /\ up.dir
    /\ Change([up EXCEPT !.man = rec[p]])
    /\ expired' = (expired /\ rec[p].state = "committing")
    /\ Continue(p, "sync")
    /\ UNCHANGED <<rooted, data, synced, digest, bounds, history>>

\* It syncs the directory, and the operation goes on or returns.
RecordSynced(p) ==
    /\ pc[p] = "sync"
    /\ SyncDir
    /\ \/ op[p] = "Begin" /\ Continue(p, "rootsync") /\ UNCHANGED <<dlock, acked, done>>
       \/ /\ op[p] = "Append"
          /\ acked' = rec[p].sum
          /\ Leave(p)
          /\ UNCHANGED done
       \/ rec[p].state = "committing" /\ Continue(p, "dlock") /\ UNCHANGED <<dlock, acked, done>>
       \/ /\ rec[p].state \in {"committed", "aborted"}
          /\ done' = (done \/ rec[p].state = "committed")
          /\ Continue(p, "rmblob") /\ UNCHANGED <<dlock, acked>>
    /\ UNCHANGED <<rooted, data, synced, expired, share, entry, orphan, solid, sum, bounds,
                   begun, erased, pruned>>

\* uploads/ is synced: Begin returns the id; PruneStages has removed a stage.
RootSync(p) ==
    /\ pc[p] = "rootsync"
    /\ rooted' = TRUE
    /\ older' = IF op[p] = "Prune" THEN {} ELSE older
    /\ begun' = (begun \/ op[p] = "Begin")
    /\ Leave(p)
    /\ UNCHANGED <<up, data, synced, expired, aged, share, entry, orphan, solid, sum, bounds,
                   acked, done, erased, pruned>>

-----------------------------------------------------------------------------
(* recoverCommit, for Commit, Abort and PruneStages.                       *)

\* lockBlob: the lock of Add and Link.  An entry that is there is the result;
\* otherwise one is published.
LockDigest(p) ==
    /\ pc[p] = "dlock"
    /\ p \notin late
    /\ dlock = None
    /\ dlock' = p
    /\ Continue(p, IF entry # None THEN "entrysync" ELSE "publish")
    /\ erased' = (erased /\ entry = None)
    /\ UNCHANGED <<upload, share, entry, orphan, solid, sum, bounds,
                   begun, acked, done, pruned>>

\* publish/ is made anew, with a link of share/ or, if there is none, of the
\* stage's blob.
Prepare(p) ==
    /\ pc[p] = "publish"
    /\ Change([up EXCEPT !.pub = IF share # None THEN share ELSE "mine"])
    /\ Continue(p, IF share # None THEN "move" ELSE "share")
    /\ UNCHANGED <<rooted, data, synced, expired, digest, bounds, history>>

\* The stage's blob is linked to share/.
LinkShare(p) ==
    /\ pc[p] = "share"
    /\ share' = "mine"
    /\ Continue(p, "move")
    /\ UNCHANGED <<upload, entry, orphan, solid, sum, dlock, bounds, history>>

\* What an Erase has left of the entry's directory is removed, and publish/
\* renamed to it.
Publish(p) ==
    /\ pc[p] = "move"
    /\ p \notin late
    /\ entry' = up.pub
    /\ orphan' = FALSE /\ solid' = FALSE
    /\ erased' = FALSE
    /\ Change([up EXCEPT !.pub = None])
    /\ Continue(p, "entrysync")
    /\ UNCHANGED <<rooted, data, synced, expired, share, dlock, sum, bounds,
                   begun, acked, done, pruned>>

\* Faulty: the receipt is written for an entry that is not synced.
FaultySyncEntry(p) ==
    /\ pc[p] = "entrysync"
    /\ rec' = [rec EXCEPT ![p].state = "committed"]
    /\ Goto(p, "rename")
    /\ UNCHANGED <<upload, digest, op, fl, holds, late, bounds, history>>

\* The entry's files and directories are synced, if an Erase has left them.
SyncEntry(p) ==
    /\ pc[p] = "entrysync"
    /\ \/ /\ entry # None
          /\ solid' = TRUE
          /\ rec' = [rec EXCEPT ![p].state = "committed"]
          /\ Goto(p, "rename")
          /\ UNCHANGED <<upload, share, entry, orphan, sum, dlock, op, fl, holds, late,
                         bounds, history>>
       \/ entry = None /\ Withdraw(p)

\* The stage's own link of the blob goes once its receipt, or the record that it
\* was aborted, is synced.
RemoveBlob(p) ==
    /\ pc[p] = "rmblob"
    /\ IF up.blob THEN Change([up EXCEPT !.blob = FALSE]) ELSE Same
    /\ Continue(p, "lastsync")
    /\ UNCHANGED <<rooted, data, synced, expired, digest, bounds, history>>

\* The directory is synced once more.  PruneStages goes on with a stage it has
\* recovered; the others return.
LastSync(p) ==
    /\ pc[p] = "lastsync"
    /\ IF up.dir THEN SyncDir ELSE Same
    /\ IF op[p] = "Prune" /\ dlock = p
       THEN dlock' = None /\ Continue(p, Tidy(rec[p])) ELSE Leave(p)
    /\ UNCHANGED <<rooted, data, synced, expired, share, entry, orphan, solid, sum, bounds, history>>

-----------------------------------------------------------------------------
(* PruneStages.                                                            *)

\* What an interrupted commit, or one that has ended, left behind.
PruneClean(p) ==
    /\ pc[p] = "clean"
    /\ LET d == [up EXCEPT !.pub = None, !.blob = @ /\ rec[p].state = "active"] IN
       IF d # up THEN Change(d) ELSE Same
    /\ Continue(p, "lastsync")
    /\ UNCHANGED <<rooted, data, synced, expired, digest, bounds, history>>

\* Faulty: a directory that a Begin has just made is old enough.
HastyPruneOrphan(p) ==
    /\ pc[p] = "orphan"
    /\ \/ /\ up.dir /\ up.man = None
          /\ IF up.lock = None THEN Change([up EXCEPT !.lock = 2]) ELSE Same
          /\ fl' = [fl EXCEPT ![p] = up'.lock]
          /\ Goto(p, "orphanlock")
          /\ UNCHANGED <<rooted, data, synced, expired, digest, op, holds, rec, late,
                         bounds, history>>
       \/ ~(up.dir /\ up.man = None) /\ Return(p)

\* Faulty: a directory without a lock file is left alone.
ShyPruneOrphan(p) ==
    /\ pc[p] = "orphan"
    /\ \/ /\ up.dir /\ aged /\ up.man = None /\ up.lock # None
          /\ fl' = [fl EXCEPT ![p] = up.lock]
          /\ Goto(p, "orphanlock")
          /\ UNCHANGED <<upload, digest, op, holds, rec, late, bounds, history>>
       \/ ~(up.dir /\ aged /\ up.man = None /\ up.lock # None) /\ Return(p)

\* pruneOrphanStage, of a directory without a manifest or a lock file: if it is
\* old enough and has no manifest, the lock file is made should it be missing.
PruneOrphan(p) ==
    /\ pc[p] = "orphan"
    /\ \/ /\ up.dir /\ aged /\ up.man = None
          /\ IF up.lock = None THEN Change([up EXCEPT !.lock = 2]) ELSE Same
          /\ fl' = [fl EXCEPT ![p] = up'.lock]
          /\ Goto(p, "orphanlock")
          /\ UNCHANGED <<rooted, data, synced, expired, digest, op, holds, rec, late,
                         bounds, history>>
       \/ ~(up.dir /\ aged /\ up.man = None) /\ Return(p)

\* With the lock, and still no manifest, the directory is removed.
PruneOrphanLock(p) ==
    /\ pc[p] = "orphanlock"
    /\ \/ /\ Unlocked(fl[p]) /\ up.dir /\ up.man = None
          /\ holds' = holds \cup {p}
          /\ Goto(p, "rm")
          /\ UNCHANGED <<upload, digest, op, fl, rec, late, bounds, history>>
       \/ ~(Unlocked(fl[p]) /\ up.dir /\ up.man = None) /\ Return(p)

\* os.RemoveAll of uploads/<id>: its names in the order of a listing, and then
\* the directory.
RemoveAll(p) ==
    /\ pc[p] = "rm"
    /\ \/ up.lock # None /\ Change([up EXCEPT !.lock = None]) /\ Continue(p, "rm")
       \/ up.blob /\ Change([up EXCEPT !.blob = FALSE]) /\ Continue(p, "rm")
       \/ up.man # None /\ Change([up EXCEPT !.man = None]) /\ Continue(p, "rm")
       \/ up.pub # None /\ Change([up EXCEPT !.pub = None]) /\ Continue(p, "rm")
       \/ /\ [up EXCEPT !.dir = FALSE] = NoDir
          /\ IF up.dir THEN Change(NoDir) ELSE Same
          /\ IF op[p] = "Prune" THEN Continue(p, "rootsync") /\ UNCHANGED dlock ELSE Leave(p)
    /\ [up EXCEPT !.dir = FALSE] # NoDir => UNCHANGED dlock
    /\ pruned' = (pruned \/ (op[p] = "Prune" /\ expired))
    /\ UNCHANGED <<rooted, data, synced, expired, share, entry, orphan, solid, sum, bounds,
                   begun, acked, done, erased>>

-----------------------------------------------------------------------------
(* Calls, faults, time and other callers.                                  *)

\* A client that has the id.
Call(p) ==
    /\ pc[p] = "idle"
    /\ p \notin Hosts
    /\ begun
    /\ calls < MaxCalls
    /\ calls' = calls + 1
    /\ \E o \in {"Stat", "Append", "Commit", "Abort"} : op' = [op EXCEPT ![p] = o]
    /\ Goto(p, "open")
    /\ UNCHANGED <<upload, digest, fl, holds, rec, late, faults, others, history>>

\* PruneStages finds the directory: it needs no id.
Maintain(p) ==
    /\ pc[p] = "idle"
    /\ p \in Hosts
    /\ op' = [op EXCEPT ![p] = "Prune"]
    /\ Goto(p, "open")
    /\ UNCHANGED <<upload, digest, fl, holds, rec, late, bounds, history>>

\* The call fails: Begin removes its directory, Append cuts its bytes off, and
\* recoverCommit removes publish/.
Failed(p) ==
    /\ \/ /\ op[p] = "Begin" /\ pc[p] \notin {"mkdir", "rm"}
          /\ Goto(p, "rm")
          /\ fl' = [fl EXCEPT ![p] = None]
          /\ holds' = holds \ {p}
          /\ UNCHANGED <<dlock, op, rec, late>> /\ Same
       \/ /\ op[p] = "Append" /\ pc[p] \in {"write", "datasync", "rename"}
          /\ Continue(p, "rollback")
          /\ UNCHANGED dlock /\ Same
       \/ /\ ~(op[p] = "Begin" /\ pc[p] \notin {"mkdir", "rm"})
          /\ ~(op[p] = "Append" /\ pc[p] \in {"write", "datasync", "rename"})
          /\ Leave(p)
          /\ IF up.pub # None /\ dlock = p THEN Change([up EXCEPT !.pub = None]) ELSE Same
    /\ UNCHANGED <<rooted, data, synced, expired, share, entry, orphan, solid, sum,
                   calls, others, history>>

\* A system call fails, or the caller cancels its context.
Fail(p) ==
    /\ faults < MaxFaults
    /\ faults' = faults + 1
    /\ pc[p] \notin {"idle"}
    /\ Failed(p)

\* The context is past its deadline where it is looked at.
TimedOut(p) ==
    /\ p \in late
    /\ pc[p] \in {"wait", "tail", "dlock", "move", "rename"}
    /\ Failed(p)
    /\ UNCHANGED faults

\* The process dies; the kernel closes its files.
Crash(p) ==
    /\ faults < MaxFaults
    /\ faults' = faults + 1
    /\ pc[p] # "idle"
    /\ Leave(p)
    /\ UNCHANGED <<upload, share, entry, orphan, solid, sum, calls, others, history>>

\* The power goes.  A directory is as it was at some time since it was last
\* synced, a file has at least its synced bytes, an entry may be lost that was
\* not synced.  Links in share/ and erasures are taken to last.
PowerLoss ==
    /\ faults < MaxFaults
    /\ faults' = faults + 1
    /\ up' \in older \cup {up} \cup (IF rooted THEN {} ELSE {NoDir})
    /\ older' = {}
    /\ \E n \in synced .. Len(data) : data' = SubSeq(data, 1, n)
    /\ entry' \in IF solid THEN {entry} ELSE {entry, None}
    /\ solid' = (solid /\ entry' # None)
    /\ op' = [p \in Proc |-> None] /\ pc' = [p \in Proc |-> "idle"]
    /\ fl' = [p \in Proc |-> None] /\ rec' = [p \in Proc |-> None]
    /\ holds' = {} /\ dlock' = None /\ late' = {}
    /\ UNCHANGED <<rooted, synced, expired, aged, share, orphan, sum, calls, others, history>>

Expire ==
    /\ up.man # None /\ ~expired
    /\ expired' = TRUE
    /\ UNCHANGED <<up, older, rooted, data, synced, aged, digest, procs, bounds, history>>

\* TTL + OperationTimeout pass, which nobody minds where there is a manifest: no
\* context of a call in progress lives as long, and no RemoveAll takes as long.
Age ==
    /\ up.dir /\ up.man = None /\ ~aged
    /\ \A p \in Proc : pc[p] # "rm"
    /\ aged' = TRUE
    /\ late' = {p \in Proc : pc[p] # "idle"}
    /\ UNCHANGED <<up, older, rooted, data, synced, expired, digest,
                   op, pc, fl, holds, rec, bounds, history>>

\* An Add by another caller links share/, or its own copy.
OtherAdd ==
    /\ others < MaxOthers
    /\ others' = others + 1
    /\ dlock = None /\ entry = None
    /\ entry' = IF share # None THEN share ELSE "theirs"
    /\ share' = entry'
    /\ orphan' = FALSE /\ solid' = FALSE
    /\ UNCHANGED <<upload, dlock, sum, procs, calls, faults, history>>

\* An Erase takes no lock.
OtherErase ==
    /\ others < MaxOthers
    /\ others' = others + 1
    /\ entry # None
    /\ entry' = None
    /\ orphan' = TRUE /\ solid' = FALSE
    /\ erased' = TRUE
    /\ UNCHANGED <<upload, share, dlock, sum, procs, calls, faults, begun, acked, done, pruned>>

OtherEraseEnd ==
    /\ orphan
    /\ orphan' = FALSE
    /\ UNCHANGED <<upload, share, entry, solid, sum, dlock, procs, bounds, history>>

\* tryCleanup or Reclaim: share/ goes when its link is the only one.
OtherCleanup ==
    /\ dlock = None /\ share # None
    /\ share \notin {entry, up.pub}
    /\ ~(share = "mine" /\ up.blob)
    /\ share' = None
    /\ UNCHANGED <<upload, entry, orphan, solid, sum, dlock, procs, bounds, history>>

Step(p) ==
    \/ BeginMkdir(p) \/ BeginFile(p) \/ Open(p) \/ Acquire(p) \/ Skip(p)
    \/ RecoverTail(p) \/ AppendWrite(p) \/ AppendSync(p) \/ Rollback(p)
    \/ WriteRecord(p) \/ RecordSynced(p) \/ RootSync(p)
    \/ LockDigest(p) \/ Prepare(p) \/ LinkShare(p) \/ Publish(p) \/ SyncEntry(p)
    \/ RemoveBlob(p) \/ LastSync(p) \/ PruneClean(p) \/ PruneOrphan(p) \/ PruneOrphanLock(p)
    \/ RemoveAll(p) \/ TimedOut(p)

Next ==
    \/ \E p \in Proc : Call(p) \/ Maintain(p) \/ Step(p) \/ Fail(p) \/ Crash(p)
    \/ PowerLoss \/ Expire \/ Age
    \/ OtherAdd \/ OtherErase \/ OtherEraseEnd \/ OtherCleanup

Spec == Init /\ [][Next]_vars

\* Processes run, the host calls PruneStages again and again, and time passes.
FairSpec ==
    /\ Spec
    /\ \A p \in Proc : WF_vars(Step(p))
    /\ \A p \in Hosts : WF_vars(Maintain(p))
    /\ WF_vars(Age)

-----------------------------------------------------------------------------
(* Properties.                                                             *)

\* The records a power loss may leave, the present one included.
Survivors == {d.man : d \in older \cup {up}} \ {None}

\* What Append acknowledged is never lost: whatever record the disk comes back
\* with covers it until the stage is removed, and the bytes a record covers are
\* synced in the file for as long as they are needed.
AckedKept ==
    /\ \A m \in Survivors : IsPrefix(acked, m.sum)
    /\ \A d \in older \cup {up} :
          d.man # None /\ d.man.state \in {"active", "committing"} /\ d.blob
          => synced >= Len(d.man.sum) /\ IsPrefix(d.man.sum, data)

\* A stage whose Begin has returned is there, whole, until a PruneStages finds it
\* expired: no prune takes a directory that a slow Begin is still making.
BegunKept ==
    begun /\ ~pruned =>
        \A d \in older \cup {up} :
            /\ d.lock # None /\ d.man # None
            /\ d.man.state \in {"active", "committing"} => d.blob

\* Neither Append's nor Begin's word is taken back by an interruption.
StageKept == AckedKept /\ BegunKept

\* What the stage has published is all of the bytes its record froze, and stays
\* so: no Append, rollback or recovery touches an inode that share/ or an entry
\* links.
PublishedWhole == "mine" \in {share, entry, up.pub} => data = sum

\* A receipt is true and final: where a power loss may leave one, the entry is
\* synced unless it was erased, and once a caller may know of it no older record
\* comes back to publish the blob again.
ReceiptStands ==
    /\ (\E m \in Survivors : m.state = "committed") /\ ~erased => entry # None /\ solid
    /\ done => \A m \in Survivors : m.state = "committed"

Finished ==
    \/ ~up.dir
    \/ up.man # None /\ up.man.state # "committing" /\ ~expired
    \/ up.man # None /\ up.lock = None

\* PruneStages finishes what was interrupted: a frozen commit is published, an
\* expired stage and a directory without a record are removed -- unless a
\* RemoveAll that stopped halfway has left a manifest without its lock file.
StagesFinish == []<>Finished
=============================================================================
