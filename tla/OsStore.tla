------------------------------ MODULE OsStore ------------------------------
(***************************************************************************)
(* The filesystem backend (os.go, nlink*.go, and OsStores.Reclaim of       *)
(* reclaim.go) for one digest:                                             *)
(*                                                                         *)
(*   share/<digest>                 the one shared inode                   *)
(*   repo/<ns>/<digest>/blob        a hard link to it, per namespace       *)
(*   repo/<ns>/<digest>/labels                                             *)
(*   stage/<temp>/{blob,source}     what a publisher prepares              *)
(*   locks/<digest>                 a flock                                *)
(*                                                                         *)
(* Every step is one system call that other processes can see, with the    *)
(* private work around it (temporary files, hashing, labels of the staged  *)
(* directory) folded in.  A publisher holds the lock; Erase removes the    *)
(* entry without it; Label and Open never take it.                         *)
(***************************************************************************)
EXTENDS FiniteSets, Naturals

CONSTANTS
    Proc,          \* goroutines or processes sharing the root
    Namespace,     \* namespaces under the root
    Inode,         \* bound: inodes alive at one time
    None,          \* no inode, no process, no result
    Ops,           \* the operations callers make
    Verify,        \* AdoptOptions.Verify
    NlinkKnown,    \* nlink_linux.go (TRUE) or nlink.go (FALSE)
    Attempts,      \* moveStageToRepo's bound on its retries: 5 in the code
    MayFail,       \* system calls may fail and contexts be cancelled
    MayCrash       \* processes may die

ASSUME OsAssumption ==
    /\ None \notin Proc \cup Inode
    /\ None \notin {"ok", "exists", "notexist", "mismatch", "error"}
    /\ Ops \subseteq {"Add", "Adopt", "Link", "Erase", "Label", "Open", "Reclaim"}
    /\ Attempts \in Nat \ {0}
    /\ {Verify, NlinkKnown, MayFail, MayCrash} \subseteq BOOLEAN

VARIABLES
    \* the filesystem
    share,     \* the inode at share/<digest>, or None
    dir,       \* dir[n]: repo/<n>/<digest> exists
    blob,      \* blob[n]: the inode at repo/<n>/<digest>/blob, or None
    labels,    \* labels[n]: repo/<n>/<digest>/labels exists
    stage,     \* stage[p]: the inode at p's stage/<temp>/blob, or None
    pin,       \* pin[p]: the inode at p's stage/<temp>/source, or None
    leaked,    \* inodes linked from stage directories of dead processes
    src,       \* the inode at the path Adopt is given, or None
    bad,       \* inodes that do not hold the digest's bytes, or not all of them
    lock,      \* the holder of locks/<digest>, or None
    \* the processes
    call,      \* call[p]: the call p is making
    pc,        \* pc[p]: where it is
    res,       \* res[p]: what it will return, or None
    names,     \* names[p]: entries RemoveAll has listed and not yet unlinked
    fd,        \* fd[p]: RemoveAll's directory handle is the directory now there
    tries      \* tries[p]: renames moveStageToRepo has seen fail

entry == <<dir, blob, labels>>
temps == <<stage, pin, leaked>>
rmvars == <<names, fd>>
disk == <<share, entry, temps, src, bad>>
vars == <<disk, lock, call, pc, res, rmvars, tries>>

Publishing == {"Add", "Adopt", "Link"}

Locked ==      \* between lockBlob and unlock, whatever the operation
    {"recheck", "linkstat", "linkdup", "linkpin", "adoptpin", "adoptverify",
     "statshare", "linkshare", "copy", "copying", "linktoshare", "move",
     "movestat", "nlinkagain", "remove", "unwind"}

Removing == {"rm", "rmopen", "rmnames", "rmdir"}   \* inside os.RemoveAll

Unlocked ==
    {"idle", "check", "lock", "nlink", "cleanlock", "labelstat", "labelmove",
     "openstat", "openfile", "ret"}

Results == {"ok", "exists", "notexist", "mismatch", "error"}

Calls == [op : Ops, ns : Namespace, from : Namespace]
NoCall == [op |-> None, ns |-> None, from |-> None]

\* The variables have their types, and a process is idle when it makes no call.
TypeOK ==
    /\ share \in Inode \cup {None}
    /\ dir \in [Namespace -> BOOLEAN]
    /\ blob \in [Namespace -> Inode \cup {None}]
    /\ labels \in [Namespace -> BOOLEAN]
    /\ stage \in [Proc -> Inode \cup {None}]
    /\ pin \in [Proc -> Inode \cup {None}]
    /\ leaked \in SUBSET Inode
    /\ src \in Inode \cup {None}
    /\ bad \in SUBSET Inode
    /\ lock \in Proc \cup {None}
    /\ call \in [Proc -> Calls \cup {NoCall}]
    /\ pc \in [Proc -> Locked \cup Removing \cup Unlocked]
    /\ res \in [Proc -> Results \cup {None}]
    /\ names \in [Proc -> SUBSET {"blob", "labels"}]
    /\ fd \in [Proc -> BOOLEAN]
    /\ tries \in [Proc -> 0 .. Attempts]
    /\ \A p \in Proc : pc[p] # "idle" => call[p] \in Calls

Init ==
    /\ share = None
    /\ dir = [n \in Namespace |-> FALSE]
    /\ blob = [n \in Namespace |-> None]
    /\ labels = [n \in Namespace |-> FALSE]
    /\ stage = [p \in Proc |-> None]
    /\ pin = [p \in Proc |-> None]
    /\ leaked = {}
    /\ src = None
    /\ bad = {}
    /\ lock = None
    /\ call = [p \in Proc |-> NoCall]
    /\ pc = [p \in Proc |-> "idle"]
    /\ res = [p \in Proc |-> None]
    /\ names = [p \in Proc |-> {}]
    /\ fd = [p \in Proc |-> FALSE]
    /\ tries = [p \in Proc |-> 0]

-----------------------------------------------------------------------------
(* The filesystem and the lock.                                            *)

Goto(p, l) == pc' = [pc EXCEPT ![p] = l]

\* The call's result is r and its next step is at l.
Answer(p, r, l) == Goto(p, l) /\ res' = [res EXCEPT ![p] = r]

\* Faulty: existence decided by the directory.
checkDupByDir(n) == dir[n]

\* checkDup: os.Stat of the entry's blob.
checkDup(n) == blob[n] # None

\* Something other than share/ links inode i.
OtherLink(i) ==
    \/ \E n \in Namespace : blob[n] = i
    \/ \E p \in Proc : i \in {stage[p], pin[p]}
    \/ i \in leaked
    \/ src = i

\* nlink(share) > 1; elsewhere than on Linux it is always 1.
nlinkMany == NlinkKnown /\ share # None /\ OtherLink(share)

\* nlink(share) fails: it stats the file, on Linux.
nlinkErr == NlinkKnown /\ share = None

Free(i) == i # share /\ ~OtherLink(i)

\* os.Remove or unlinkat(AT_REMOVEDIR) of repo/<n>/<digest>: handles that
\* RemoveAll calls hold on it no longer lead to what is at the path.
rmdir(n) ==
    /\ dir' = [dir EXCEPT ![n] = FALSE]
    /\ fd' = [q \in Proc |-> fd[q] /\ call[q].ns # n]

Empty(n) == blob[n] = None /\ ~labels[n]

\* flock.TryLock, polled by tryLockContext.
Acquire(p) == lock = None /\ lock' = p

-----------------------------------------------------------------------------
(* Calls and returns.                                                      *)

First(o) ==
    CASE o \in {"Add", "Adopt"} -> "check"
      [] o = "Link" -> "lock"
      [] o = "Erase" -> "rm"
      [] o = "Label" -> "labelstat"
      [] o = "Open" -> "openstat"
      [] o = "Reclaim" -> "nlink"

\* A call.  Reclaim acts on a file its walk of share/ found and whose age
\* exceeds the grace, which any file's may; elsewhere than on Linux it is
\* refused.
Call(p) ==
    /\ pc[p] = "idle"
    /\ \E c \in Calls :
          /\ c.op = "Reclaim" => NlinkKnown /\ share # None
          /\ c.op # "Link" => c.from = c.ns
          /\ call' = [call EXCEPT ![p] = c]
          /\ Goto(p, First(c.op))
    /\ UNCHANGED <<disk, lock, res, rmvars, tries>>

\* The call is over.
Finish(p) ==
    /\ Goto(p, "idle")
    /\ call' = [call EXCEPT ![p] = NoCall]
    /\ res' = [res EXCEPT ![p] = None]
    /\ tries' = [tries EXCEPT ![p] = 0]

\* A call that does not hold the lock returns.
Return(p) ==
    /\ pc[p] = "ret"
    /\ Finish(p)
    /\ UNCHANGED <<disk, lock, rmvars>>

\* A call that holds it removes its stage, unlocks and returns.
Unwind(p) ==
    /\ pc[p] = "unwind"
    /\ stage' = [stage EXCEPT ![p] = None]
    /\ pin' = [pin EXCEPT ![p] = None]
    /\ lock' = None
    /\ Finish(p)
    /\ UNCHANGED <<share, entry, leaked, src, bad, rmvars>>

-----------------------------------------------------------------------------
(* Add, Fill's Commit and Adopt, up to the staged directory.               *)

\* checkDup before the lock.  Add hashes what it reads around this check and
\* refuses content that is not the digest it was given; Adopt first refuses a
\* path with no regular file.
Check(p) ==
    /\ pc[p] = "check"
    /\ IF call[p].op = "Adopt" /\ src = None THEN Answer(p, "error", "ret")
       ELSE IF checkDup(call[p].ns) THEN Answer(p, "exists", "ret")
       ELSE \/ Goto(p, "lock") /\ UNCHANGED res
            \/ call[p].op = "Add" /\ Answer(p, "mismatch", "ret")
    /\ UNCHANGED <<disk, lock, call, rmvars, tries>>

\* lockBlob.
Lock(p) ==
    /\ pc[p] = "lock"
    /\ Acquire(p)
    /\ Goto(p, IF call[p].op = "Link" THEN "linkstat" ELSE "recheck")
    /\ UNCHANGED <<disk, call, res, rmvars, tries>>

\* Faulty: no second check under the lock.
RecheckSkipped(p) ==
    /\ pc[p] = "recheck"
    /\ Goto(p, IF call[p].op = "Adopt" THEN "adoptpin" ELSE "statshare")
    /\ UNCHANGED <<disk, lock, call, res, rmvars, tries>>

\* checkDup under the lock.
Recheck(p) ==
    /\ pc[p] = "recheck"
    /\ IF checkDup(call[p].ns) THEN Answer(p, "exists", "unwind")
       ELSE /\ Goto(p, IF call[p].op = "Adopt" THEN "adoptpin" ELSE "statshare")
            /\ UNCHANGED res
    /\ UNCHANGED <<disk, lock, call, rmvars, tries>>

\* Adopt links the file it was given into its stage before reading it.
AdoptPin(p) ==
    /\ pc[p] = "adoptpin"
    /\ IF src = None THEN Answer(p, "error", "unwind") /\ UNCHANGED pin
       ELSE /\ pin' = [pin EXCEPT ![p] = src]
            /\ Goto(p, IF Verify THEN "adoptverify" ELSE "statshare")
            /\ UNCHANGED res
    /\ UNCHANGED <<share, entry, stage, leaked, src, bad, lock, call, rmvars, tries>>

\* Faulty: the path is hashed, not the link that was staged from it.
AdoptVerifyPath(p) ==
    /\ pc[p] = "adoptverify"
    /\ IF src \in bad THEN Answer(p, "mismatch", "unwind")
       ELSE Goto(p, "statshare") /\ UNCHANGED res
    /\ UNCHANGED <<disk, lock, call, rmvars, tries>>

\* osAdoptVerify hashes the staged link.
AdoptVerify(p) ==
    /\ pc[p] = "adoptverify"
    /\ IF pin[p] \in bad THEN Answer(p, "mismatch", "unwind")
       ELSE Goto(p, "statshare") /\ UNCHANGED res
    /\ UNCHANGED <<disk, lock, call, rmvars, tries>>

\* os.Stat of share/<digest>.  Without one, Adopt stages the file it pinned.
StatShare(p) ==
    /\ pc[p] = "statshare"
    /\ IF share # None THEN Goto(p, "linkshare") /\ UNCHANGED <<stage, pin>>
       ELSE IF call[p].op = "Adopt"
       THEN /\ stage' = [stage EXCEPT ![p] = pin[p]]
            /\ pin' = [pin EXCEPT ![p] = None]
            /\ Goto(p, "linktoshare")
       ELSE Goto(p, "copy") /\ UNCHANGED <<stage, pin>>
    /\ UNCHANGED <<share, entry, leaked, src, bad, lock, call, res, rmvars, tries>>

\* os.Link of share/<digest> into the stage; Adopt then drops its pin.
LinkShare(p) ==
    /\ pc[p] = "linkshare"
    /\ IF share = None THEN Answer(p, "error", "unwind") /\ UNCHANGED <<stage, pin>>
       ELSE /\ stage' = [stage EXCEPT ![p] = share]
            /\ pin' = [pin EXCEPT ![p] = None]
            /\ Goto(p, "move")
            /\ UNCHANGED res
    /\ UNCHANGED <<share, entry, leaked, src, bad, lock, call, rmvars, tries>>

\* The staged blob is created, and then filled.
Copy(p) ==
    /\ pc[p] = "copy"
    /\ \E i \in Inode :
          /\ Free(i)
          /\ stage' = [stage EXCEPT ![p] = i]
          /\ bad' = bad \cup {i}
    /\ Goto(p, "copying")
    /\ UNCHANGED <<share, entry, pin, leaked, src, lock, call, res, rmvars, tries>>

CopyDone(p) ==
    /\ pc[p] = "copying"
    /\ bad' = bad \ {stage[p]}
    /\ Goto(p, "linktoshare")
    /\ UNCHANGED <<share, entry, temps, src, lock, call, res, rmvars, tries>>

\* os.Link of the staged blob to share/<digest>.
LinkToShare(p) ==
    /\ pc[p] = "linktoshare"
    /\ IF share = None
       THEN share' = stage[p] /\ Goto(p, "move") /\ UNCHANGED res
       ELSE Answer(p, "error", "unwind") /\ UNCHANGED share
    /\ UNCHANGED <<entry, temps, src, bad, lock, call, rmvars, tries>>

-----------------------------------------------------------------------------
(* Link, up to the staged directory.                                       *)

\* source.Stat.
LinkStat(p) ==
    /\ pc[p] = "linkstat"
    /\ IF checkDup(call[p].from) THEN Goto(p, "linkdup") /\ UNCHANGED res
       ELSE Answer(p, "notexist", "unwind")
    /\ UNCHANGED <<disk, lock, call, rmvars, tries>>

\* Faulty: the duplicate is reported without unlocking.
LinkDupKeepsLock(p) ==
    /\ pc[p] = "linkdup"
    /\ IF checkDup(call[p].ns) THEN Answer(p, "exists", "ret")
       ELSE Goto(p, "linkpin") /\ UNCHANGED res
    /\ UNCHANGED <<disk, lock, call, rmvars, tries>>

\* checkDup of the destination.
LinkDup(p) ==
    /\ pc[p] = "linkdup"
    /\ IF checkDup(call[p].ns) THEN Answer(p, "exists", "unwind")
       ELSE Goto(p, "linkpin") /\ UNCHANGED res
    /\ UNCHANGED <<disk, lock, call, rmvars, tries>>

\* os.Link of the source's blob into the stage.
LinkPin(p) ==
    /\ pc[p] = "linkpin"
    /\ IF blob[call[p].from] = None
       THEN Answer(p, "notexist", "unwind") /\ UNCHANGED stage
       ELSE /\ stage' = [stage EXCEPT ![p] = blob[call[p].from]]
            /\ Goto(p, "move")
            /\ UNCHANGED res
    /\ UNCHANGED <<share, entry, pin, leaked, src, bad, lock, call, rmvars, tries>>

-----------------------------------------------------------------------------
(* moveStageToRepo and os.RemoveAll.                                       *)

\* os.Rename of the staged directory: it refuses an existing one.
Rename(p) ==
    /\ pc[p] = "move"
    /\ LET n == call[p].ns IN
       IF dir[n]
       THEN /\ Goto(p, "movestat")
            /\ UNCHANGED <<entry, stage, res>>
       ELSE /\ dir' = [dir EXCEPT ![n] = TRUE]
            /\ blob' = [blob EXCEPT ![n] = stage[p]]
            /\ labels' = [labels EXCEPT ![n] = TRUE]
            /\ stage' = [stage EXCEPT ![p] = None]
            /\ Answer(p, "ok", "unwind")
    /\ UNCHANGED <<share, pin, leaked, src, bad, lock, call, rmvars, tries>>

\* os.Stat of the directory that was in the way.
MoveStat(p) ==
    /\ pc[p] = "movestat"
    /\ IF dir[call[p].ns]
       THEN /\ Goto(p, "rm")
            /\ tries' = [tries EXCEPT ![p] = @ + 1]
            /\ UNCHANGED res
       ELSE Answer(p, "error", "unwind") /\ UNCHANGED tries
    /\ UNCHANGED <<disk, lock, call, rmvars>>

\* RemoveAll returned nil.  An Erase has its result and goes on to
\* tryCleanup; a publisher renames again, unless it has no attempt left.
RemoveAllDone(p) ==
    IF call[p].op = "Erase" THEN Answer(p, "ok", "nlink")
    ELSE IF tries[p] < Attempts THEN Goto(p, "move") /\ UNCHANGED res
    ELSE Answer(p, "error", "unwind")

\* RemoveAll returned an error.
RemoveAllFailed(p) ==
    Answer(p, "error", IF call[p].op = "Erase" THEN "ret" ELSE "unwind")

\* os.Remove of the path: enough when there is nothing or nothing in it.
RmTry(p) ==
    /\ pc[p] = "rm"
    /\ LET n == call[p].ns IN
       IF ~dir[n] THEN RemoveAllDone(p) /\ UNCHANGED <<dir, fd>>
       ELSE IF Empty(n) THEN RemoveAllDone(p) /\ rmdir(n)
       ELSE Goto(p, "rmopen") /\ UNCHANGED <<dir, fd, res>>
    /\ UNCHANGED <<share, blob, labels, temps, src, bad, lock, call, names, tries>>

\* The directory is opened and listed.
RmOpen(p) ==
    /\ pc[p] = "rmopen"
    /\ LET n == call[p].ns IN
       IF ~dir[n] THEN RemoveAllDone(p) /\ UNCHANGED rmvars
       ELSE /\ fd' = [fd EXCEPT ![p] = TRUE]
            /\ names' = [names EXCEPT ![p] =
                           {x \in {"blob", "labels"} :
                              IF x = "blob" THEN blob[n] # None ELSE labels[n]}]
            /\ Goto(p, IF names'[p] = {} THEN "rmdir" ELSE "rmnames")
            /\ UNCHANGED res
    /\ UNCHANGED <<disk, lock, call, tries>>

\* One listed name is unlinked through the handle, in the order of the
\* listing, which is the filesystem's.
RmUnlink(p) ==
    /\ pc[p] = "rmnames"
    /\ \E x \in names[p] :
          /\ names' = [names EXCEPT ![p] = @ \ {x}]
          /\ blob' = IF fd[p] /\ x = "blob"
                     THEN [blob EXCEPT ![call[p].ns] = None] ELSE blob
          /\ labels' = IF fd[p] /\ x = "labels"
                       THEN [labels EXCEPT ![call[p].ns] = FALSE] ELSE labels
    /\ Goto(p, IF names'[p] = {} THEN "rmdir" ELSE "rmnames")
    /\ UNCHANGED <<share, dir, temps, src, bad, lock, call, res, fd, tries>>

\* Faulty: a directory that is not empty is tried again without a bound.
RmDirRetry(p) ==
    /\ pc[p] = "rmdir"
    /\ LET n == call[p].ns IN
       IF ~dir[n] THEN RemoveAllDone(p) /\ fd' = [fd EXCEPT ![p] = FALSE] /\ UNCHANGED dir
       ELSE IF Empty(n) THEN RemoveAllDone(p) /\ rmdir(n)
       ELSE Goto(p, "rm") /\ fd' = [fd EXCEPT ![p] = FALSE] /\ UNCHANGED <<dir, res>>
    /\ UNCHANGED <<share, blob, labels, temps, src, bad, lock, call, names, tries>>

\* unlinkat(AT_REMOVEDIR) of the path.
RmDir(p) ==
    /\ pc[p] = "rmdir"
    /\ LET n == call[p].ns IN
       IF ~dir[n] THEN RemoveAllDone(p) /\ fd' = [fd EXCEPT ![p] = FALSE] /\ UNCHANGED dir
       ELSE IF Empty(n) THEN RemoveAllDone(p) /\ rmdir(n)
       ELSE RemoveAllFailed(p) /\ fd' = [fd EXCEPT ![p] = FALSE] /\ UNCHANGED dir
    /\ UNCHANGED <<share, blob, labels, temps, src, bad, lock, call, names, tries>>

-----------------------------------------------------------------------------
(* tryCleanup, after Erase and in Reclaim.                                 *)

Nlink(p) ==
    /\ pc[p] = "nlink"
    /\ Goto(p, IF nlinkErr \/ nlinkMany THEN "ret" ELSE "cleanlock")
    /\ UNCHANGED <<disk, lock, call, res, rmvars, tries>>

CleanLock(p) ==
    /\ pc[p] = "cleanlock"
    /\ Acquire(p)
    /\ Goto(p, "nlinkagain")
    /\ UNCHANGED <<disk, call, res, rmvars, tries>>

\* Faulty: the link count read before the lock is trusted.
NlinkTrusted(p) ==
    /\ pc[p] = "nlinkagain"
    /\ Goto(p, "remove")
    /\ UNCHANGED <<disk, lock, call, res, rmvars, tries>>

NlinkAgain(p) ==
    /\ pc[p] = "nlinkagain"
    /\ Goto(p, IF nlinkErr \/ nlinkMany THEN "unwind" ELSE "remove")
    /\ UNCHANGED <<disk, lock, call, res, rmvars, tries>>

\* os.Remove of share/<digest>.
RemoveShare(p) ==
    /\ pc[p] = "remove"
    /\ share' = None
    /\ Goto(p, "unwind")
    /\ UNCHANGED <<entry, temps, src, bad, lock, call, res, rmvars, tries>>

-----------------------------------------------------------------------------
(* Label and Open.                                                         *)

LabelStat(p) ==
    /\ pc[p] = "labelstat"
    /\ IF checkDup(call[p].ns) THEN Goto(p, "labelmove") /\ UNCHANGED res
       ELSE Answer(p, "notexist", "ret")
    /\ UNCHANGED <<disk, lock, call, rmvars, tries>>

\* os.Rename of the new labels file into the entry's directory.
LabelMove(p) ==
    /\ pc[p] = "labelmove"
    /\ LET n == call[p].ns IN
       IF dir[n] THEN labels' = [labels EXCEPT ![n] = TRUE] /\ Answer(p, "ok", "ret")
       ELSE Answer(p, "notexist", "ret") /\ UNCHANGED labels
    /\ UNCHANGED <<share, dir, blob, temps, src, bad, lock, call, rmvars, tries>>

OpenStat(p) ==
    /\ pc[p] = "openstat"
    /\ IF checkDup(call[p].ns) THEN Goto(p, "openfile") /\ UNCHANGED res
       ELSE Answer(p, "notexist", "ret")
    /\ UNCHANGED <<disk, lock, call, rmvars, tries>>

OpenFile(p) ==
    /\ pc[p] = "openfile"
    /\ Answer(p, IF blob[call[p].ns] = None THEN "notexist" ELSE "ok", "ret")
    /\ UNCHANGED <<disk, lock, call, rmvars, tries>>

-----------------------------------------------------------------------------
(* Faults and the environment.                                             *)

\* A system call fails, or the context is done: before the entry is moved,
\* the call undoes what it staged; waiting to clean up, it gives up.
Fail(p) ==
    /\ MayFail
    /\ \/ pc[p] \in {"lock", "labelmove", "openfile"} /\ Answer(p, "error", "ret")
       \/ pc[p] = "rmopen" /\ RemoveAllFailed(p)
       \/ pc[p] = "cleanlock" /\ Goto(p, "ret") /\ UNCHANGED res
       \/ pc[p] \in {"recheck", "linkpin", "adoptverify", "linkshare", "copying", "move"}
          /\ Answer(p, "error", "unwind")
    /\ UNCHANGED <<disk, lock, call, rmvars, tries>>

\* The inodes linked from the process's stage directory.
Staged(p) == {stage[p], pin[p]} \ {None}

\* The process dies: the kernel releases its flock, and its stage directory
\* stays, which nothing in the package visits again.
Crash(p) ==
    /\ MayCrash
    /\ pc[p] # "idle"
    /\ Finish(p)
    /\ lock' = IF lock = p THEN None ELSE lock
    /\ leaked' = leaked \cup Staged(p)
    /\ stage' = [stage EXCEPT ![p] = None]
    /\ pin' = [pin EXCEPT ![p] = None]
    /\ names' = [names EXCEPT ![p] = {}]
    /\ fd' = [fd EXCEPT ![p] = FALSE]
    /\ UNCHANGED <<share, entry, src, bad>>

\* The owner of the path given to Adopt writes or removes the file there.
SourceAppears ==
    /\ "Adopt" \in Ops
    /\ src = None
    /\ \E i \in Inode :
          /\ Free(i)
          /\ src' = i
          /\ \/ bad' = bad \ {i}
             \/ bad' = bad \cup {i}
    /\ UNCHANGED <<share, entry, temps, lock, call, pc, res, rmvars, tries>>

SourceGoes ==
    /\ src # None
    /\ src' = None
    /\ UNCHANGED <<share, entry, temps, bad, lock, call, pc, res, rmvars, tries>>

-----------------------------------------------------------------------------
Publish(p) ==
    \/ Check(p) \/ Lock(p) \/ Recheck(p) \/ AdoptPin(p) \/ AdoptVerify(p)
    \/ StatShare(p) \/ LinkShare(p) \/ Copy(p) \/ CopyDone(p) \/ LinkToShare(p)
    \/ LinkStat(p) \/ LinkDup(p) \/ LinkPin(p) \/ Rename(p) \/ MoveStat(p)

RemoveAll(p) == RmTry(p) \/ RmOpen(p) \/ RmUnlink(p) \/ RmDir(p)

tryCleanup(p) == Nlink(p) \/ CleanLock(p) \/ NlinkAgain(p) \/ RemoveShare(p)

Step(p) ==
    \/ Publish(p) \/ RemoveAll(p) \/ tryCleanup(p)
    \/ LabelStat(p) \/ LabelMove(p) \/ OpenStat(p) \/ OpenFile(p)
    \/ Return(p) \/ Unwind(p)

Next ==
    \/ \E p \in Proc : Call(p) \/ Step(p) \/ Fail(p) \/ Crash(p)
    \/ SourceAppears
    \/ SourceGoes

Spec == Init /\ [][Next]_vars

\* Every process keeps running: a system call it can make is made.
FairSpec == Spec /\ \A p \in Proc : WF_vars(Step(p))

-----------------------------------------------------------------------------
(* Properties.                                                             *)

HoldsLock(p) ==
    \/ pc[p] \in Locked
    \/ pc[p] \in Removing /\ call[p].op \in Publishing

\* A call is between lockBlob and unlock exactly while its process owns the
\* flock, crashes and failures included: lockBlob and its deferred unlock.
LockOwned == \A p \in Proc : HoldsLock(p) <=> lock = p

\* On Linux the store keeps one inode for the digest: every entry is a hard
\* link of share/.  tryCleanup never takes share/ from under an entry, not
\* even one that is still staged, so no later Add makes a second copy.
OneInode == NlinkKnown => \A n \in Namespace : blob[n] # None => blob[n] = share

\* What publish found when it stated share/ is still so when it links from or
\* to it: neither os.Link can fail.
ShareStable ==
    \A p \in Proc :
       /\ pc[p] = "linkshare" => share # None
       /\ pc[p] \in {"copy", "copying", "linktoshare"} => share = None

\* Every entry, and share/, holds all of the digest's bytes, provided Adopt
\* verifies what it is given.
RightContent ==
    Verify => /\ share \notin bad
              /\ \A n \in Namespace : blob[n] \notin bad

\* moveStageToRepo needs at most two renames: once its RemoveAll succeeded,
\* the directory is not back for the next one.
RenamesTwice == \A p \in Proc : tries[p] <= 1

\* An entry's blob goes only by an Erase of its namespace -- never by the
\* RemoveAll of a publisher clearing a leftover directory -- and is never
\* replaced by another inode.
OnlyEraseRemoves ==
    [][\A n \in Namespace :
         blob[n] # None =>
            \/ blob'[n] = blob[n]
            \/ /\ blob'[n] = None
               /\ \E p \in Proc : call[p].op = "Erase" /\ call[p].ns = n /\ names'[p] # names[p]]_vars

\* Whoever takes the digest's lock gives it back.
LockReleased == \A p \in Proc : lock = p ~> lock # p

\* A call that is not waiting for the lock returns, or comes to wait for it.
CallsProgress ==
    \A p \in Proc : pc[p] # "idle" ~> pc[p] \in {"idle", "lock", "cleanlock"}

-----------------------------------------------------------------------------
(* OsStore implements BlobStore.                                           *)

Removed(p) ==    \* the entry this Erase met is gone
    pc[p] \in {"rmnames", "rmdir"} /\ (fd[p] => blob[call[p].ns] = None)

AbsPhase(p) ==
    IF res[p] # None THEN res[p]
    ELSE IF call[p].op = "Erase" /\ Removed(p) THEN "ok"
    ELSE IF \/ call[p].op = "Link" /\ pc[p] \notin {"lock", "linkstat"}
            \/ call[p].op = "Label" /\ pc[p] = "labelmove"
    THEN "pinned"
    ELSE "run"

AbsCall(p) ==
    IF pc[p] = "idle" \/ call[p].op = "Reclaim" THEN [op |-> "none"]
    ELSE [op |-> IF call[p].op = "Adopt" THEN "Add" ELSE call[p].op,
          ns |-> call[p].ns, from |-> call[p].from, phase |-> AbsPhase(p)]

Abs == INSTANCE BlobStore WITH
          present <- {n \in Namespace : blob[n] # None},
          call <- [p \in Proc |-> AbsCall(p)]

\* Callers see what BlobStore promises: each result agrees with the
\* namespaces at one moment of its call.
ImplementsBlobStore == Abs!Spec
=============================================================================
