--------------------------- MODULE OsStageProofs ---------------------------
(***************************************************************************)
(* A stage keeps what Begin and Append have said, what it has published    *)
(* and its receipt: for every number of processes, chunks, calls, faults   *)
(* and other callers, with deaths, failing calls, timeouts, PruneStages    *)
(* and power losses anywhere.                                              *)
(*                                                                         *)
(* Until Begin has returned there is nothing but an empty stage (Early),   *)
(* and a Begin that is in time has the directory for itself (Fresh): so    *)
(* the stage it returns is whole and synced (Begins).  From then on a      *)
(* manifest is there whenever somebody works on the stage, hence no second *)
(* lock file (TwoInv): two holders of the flock would hold the same file,  *)
(* and who works on the stage does so alone (Exclusive).  What he knows is *)
(* WorkInv.  What a power loss may bring back is stated of every earlier   *)
(* directory (DirInv), and those are behind the present one (OrderInv): an *)
(* active record has only shorter ones behind it, a frozen one no receipt. *)
(* A power loss makes one of them the present directory, a sync leaves the *)
(* present one alone, and every other step adds one in order (Later).      *)
(***************************************************************************)
EXTENDS OsStage, SequenceTheorems, TLAPS

\* Where a call works on the stage under its lock.
WorkPcs ==
    {"tail", "write", "datasync", "rollback", "rename", "sync", "dlock", "publish",
     "share", "move", "entrysync", "rmblob", "lastsync", "clean"}

\* Where recoverCommit holds the digest's lock and has no receipt yet, and where it
\* may still hold it.
CommitPcs == {"publish", "share", "move", "entrysync"}
DigestPcs == CommitPcs \cup {"rename", "sync", "rmblob", "lastsync"}

\* The first record of a stage.
R0 == [state |-> "active", sum |-> <<>>]

\* Where an operation can be.
BeginPcs == {"mkdir", "lockfile", "blobfile", "open", "wait", "rename", "sync", "rootsync", "rm"}
AppendPcs == {"open", "wait", "tail", "write", "datasync", "rollback", "rename", "sync"}
RecoverPcs == CommitPcs \cup {"open", "wait", "tail", "rename", "sync", "dlock", "rmblob", "lastsync"}
PrunePcs == RecoverPcs \cup {"clean", "orphan", "orphanlock", "rm", "rootsync"}

\* Operation o can be at l.
Place(o, l) ==
    /\ o = None => l = "idle"
    /\ o = "Begin" => l \in BeginPcs
    /\ o = "Stat" => l \in {"open", "wait", "tail"}
    /\ o = "Append" => l \in AppendPcs
    /\ o \in {"Commit", "Abort"} => l \in RecoverPcs
    /\ o = "Prune" => l \in PrunePcs

\* Where it holds the lock of the stage.
Locked(o, l) == l \in WorkPcs \cup {"rootsync"} \/ (l = "rm" /\ o = "Prune")

\* Which locks a call has where it is.
CtlInv(p) ==
    /\ Place(op[p], pc[p])
    /\ p \in holds <=> Locked(op[p], pc[p])
    /\ fl[p] # None <=> Locked(op[p], pc[p]) \/ pc[p] \in {"wait", "orphanlock"}
    /\ dlock = p => pc[p] \in DigestPcs
    /\ pc[p] \in CommitPcs => dlock = p

\* Before Begin has returned there is nothing but an empty stage, and nobody but
\* Begin and PruneStages works on it.
Early ==
    /\ data = <<>> /\ synced = 0 /\ sum = None /\ acked = <<>> /\ ~done /\ dlock = None
    /\ share # "mine" /\ entry # "mine"
    /\ \A d \in older \cup {up} : d.pub = None /\ d.man \in {None, R0}
    /\ \A p \in Proc :
          /\ op[p] \in {None, "Begin", "Prune"} /\ rec[p] \in {None, R0}
          /\ op[p] = "Prune" => pc[p] \notin CommitPcs \cup {"rename", "sync", "dlock", "rmblob"}
          /\ op[p] = "Prune" /\ pc[p] \in WorkPcs => rec[p] = R0
    /\ \A p, q \in Proc : op[p] = "Begin" /\ op[q] = "Begin" => p = q

\* A Begin that is in time has the directory for itself, and what it has made is
\* there.
Fresh(p) ==
    /\ ~begun
    /\ p \in late => pc[p] \notin {"mkdir", "sync", "rootsync"}
    /\ pc[p] \in {"rename", "sync"} => rec[p] = R0
    /\ p \notin late /\ pc[p] # "rm" =>
        /\ ~aged /\ up.lock # 2
        /\ \A q \in Proc : pc[q] \notin {"orphanlock", "rm"} /\ fl[q] # 2 /\ (q # p => q \notin holds)
        /\ up.dir <=> pc[p] # "mkdir"
        /\ pc[p] = "mkdir" => older = {}
        /\ pc[p] \in {"blobfile", "open", "wait", "rename", "sync", "rootsync"} => up.lock = 1
        /\ pc[p] \in {"open", "wait", "rename", "sync", "rootsync"} => up.blob
        /\ up.man = IF pc[p] \in {"sync", "rootsync"} THEN R0 ELSE None
        /\ pc[p] = "rootsync" => older = {}

\* The second lock file is there only without a record.
TwoInv == up.lock = 2 \/ (\E q \in Proc : fl[q] = 2) => up.man = None

\* Once Begin has returned.
Begun ==
    begun =>
        /\ rooted
        /\ \A p \in Proc : op[p] # "Begin"
        /\ ~pruned => \A p \in Proc : pc[p] # "orphanlock" /\ (pc[p] = "rm" => expired)

\* What p knows of the record it works with.
RecInv(p) ==
    /\ up.man # None /\ fl[p] = 1 /\ rec[p] # None
    /\ pc[p] \notin {"rename", "rollback"} => rec[p] = up.man
    /\ pc[p] = "tail" => up.man.state \in {"active", "committing"}
    /\ pc[p] \in CommitPcs \cup {"dlock"} => up.man.state = "committing"
    /\ pc[p] = "rmblob" => up.man.state \in {"committed", "aborted"}
    /\ pc[p] \in {"sync", "rmblob", "lastsync"} /\ dlock = p => up.man.state = "committed"
    /\ pc[p] = "rename" => (rec[p].state = "committed" <=> dlock = p)
    /\ pc[p] = "clean" => up.man.state # "committing"

\* Append: the bytes of the record, those it adds, and no link but the stage's.
AppendInv(p) ==
    op[p] = "Append" =>
        /\ pc[p] \in {"tail", "write", "datasync"} => Len(rec[p].sum) < MaxLen
        /\ up.man.state = "active"
        /\ pc[p] \in {"write", "datasync", "rollback", "rename"} => up.blob /\ Alone
        /\ pc[p] = "write" => data = rec[p].sum
        /\ pc[p] = "rename" => rec[p] = [state |-> "active", sum |-> data] /\ synced = Len(data)

\* The record a Commit, an Abort or PruneStages is about to write.
NextInv(p) ==
    pc[p] = "rename" /\ op[p] # "Append" =>
        /\ rec[p].sum = up.man.sum
        /\ rec[p].state \in {"committing", "aborted", "committed"}
        /\ up.man.state = IF rec[p].state = "committed" THEN "committing" ELSE "active"
        /\ rec[p].state = "committing" => sum = rec[p].sum /\ data = sum /\ synced = Len(data)
        /\ rec[p].state = "committed" => erased \/ (entry # None /\ solid)

\* What p knows where it works on the stage.
WorkInv(p) == RecInv(p) /\ AppendInv(p) /\ NextInv(p)

\* The blob is what was frozen, and on disk.
Frozen == data = sum /\ synced = Len(data)

\* What any directory that a power loss may leave holds.
DirInv(d) ==
    /\ d.lock = 2 => d.man = None
    /\ d.pub = "mine" => Frozen
    /\ begun /\ ~pruned => d.lock # None /\ d.man # None
    /\ d.man # None =>
        /\ IsPrefix(acked, d.man.sum)
        /\ d.man.state = "active" => d.pub = None
        /\ d.man.state \in {"active", "committing"} /\ d.blob =>
             synced >= Len(d.man.sum) /\ IsPrefix(d.man.sum, data)
        /\ d.man.state \in {"active", "committing"} /\ begun /\ ~pruned => d.blob
        /\ d.man.state \in {"committing", "committed"} => d.man.sum = sum /\ Frozen
        /\ d.man.state = "committed" /\ ~erased => entry # None /\ solid
        /\ done => d.man.state = "committed"

\* An older directory is behind the present one.
OrderInv(d) ==
    up.man # None =>
        /\ up.man.state = "active" => d.pub # "mine"
        /\ up.man.state = "active" /\ d.man # None =>
             d.man.state = "active" /\ IsPrefix(d.man.sum, up.man.sum)
        /\ up.man.state = "committing" /\ d.man # None => d.man.state # "committed"

\* So is what share/ or the entry links.
LinkInv == "mine" \in {share, entry} => Frozen

\* The inductive invariant.
OsInv ==
    /\ TypeOK
    /\ \A p \in Proc : CtlInv(p)
    /\ ~begun => Early
    /\ \A p \in Proc : op[p] = "Begin" => Fresh(p)
    /\ TwoInv /\ Begun /\ LinkInv
    /\ \A p \in Proc : begun /\ pc[p] \in WorkPcs => WorkInv(p)
    /\ \A d \in older \cup {up} : DirInv(d)
    /\ \A d \in older : OrderInv(d)

-----------------------------------------------------------------------------
(* Bytes.                                                                  *)

\* The bytes of a stage are a sequence of at most MaxLen chunks.
LEMMA BytesSeq ==
    ASSUME NEW s
    PROVE  s \in Bytes <=> s \in Seq(Chunk) /\ Len(s) <= MaxLen
<1>0. MaxLen \in Nat
  BY OsStageAssumption
<1>1. ASSUME s \in Bytes PROVE s \in Seq(Chunk) /\ Len(s) <= MaxLen
  <2>1. PICK n \in 0 .. MaxLen : s \in [1 .. n -> Chunk]
    BY <1>1 DEF Bytes
  <2>2. n \in Nat /\ n <= MaxLen
    BY <1>0, <2>1
  <2>3. s \in Seq(Chunk)
    BY <2>1, <2>2, SeqDef
  <2>4. Len(s) = n
    BY <2>1, <2>2, <2>3, LenProperties
  <2> QED BY <2>2, <2>3, <2>4
<1>2. ASSUME s \in Seq(Chunk), Len(s) <= MaxLen PROVE s \in Bytes
  <2>1. Len(s) \in Nat /\ s \in [1 .. Len(s) -> Chunk]
    BY <1>2, LenProperties
  <2>2. Len(s) \in 0 .. MaxLen
    BY <1>0, <1>2, <2>1
  <2> QED BY <2>1, <2>2 DEF Bytes
<1> QED BY <1>1, <1>2

\* A prefix, element by element.
LEMMA PrefixDef ==
    ASSUME NEW s \in Bytes, NEW t \in Bytes
    PROVE  IsPrefix(s, t) <=> Len(s) <= Len(t) /\ \A i \in 1 .. Len(s) : s[i] = t[i]
<1>1. s \in Seq(Chunk) /\ t \in Seq(Chunk) /\ Len(s) \in Nat /\ Len(t) \in Nat
  BY BytesSeq, LenProperties
<1>2. SubSeq(s, 1, Len(s)) = s
  BY <1>1, SubSeqFull
<1>3. CASE ~(Len(s) <= Len(t))
  BY <1>3 DEF IsPrefix
<1>4. CASE Len(s) <= Len(t)
  <2> DEFINE u == SubSeq(t, 1, Len(s))
  <2>1. u \in Seq(Chunk) /\ Len(u) = Len(s) /\ \A i \in 1 .. Len(s) : u[i] = t[i]
    <3>1. 1 \in 1 .. Len(t) + 1 /\ Len(s) \in 0 .. Len(t)
      BY <1>1, <1>4
    <3>2. /\ u \in Seq(Chunk) /\ Len(u) = IF 1 <= Len(s) THEN Len(s) - 1 + 1 ELSE 0
          /\ \A i \in 1 .. Len(s) - 1 + 1 : u[i] = t[1 + i - 1]
      BY <1>1, <3>1, SubSeqProperties
    <3>3. Len(s) - 1 + 1 = Len(s) /\ \A i \in 1 .. Len(s) : 1 + i - 1 = i
      BY <1>1
    <3> HIDE DEF u
    <3> QED BY <1>1, <3>2, <3>3
  <2> HIDE DEF u
  <2>2. s = u <=> \A i \in 1 .. Len(s) : s[i] = t[i]
    BY <1>1, <2>1, SeqEqual
  <2>3. IsPrefix(s, t) <=> s = u
    BY <1>2, <1>4 DEF IsPrefix, u
  <2> QED BY <1>4, <2>2, <2>3
<1> QED BY <1>3, <1>4

\* Nothing is a prefix of everything, bytes are of themselves, and so on.
LEMMA PrefixFacts ==
    /\ <<>> \in Bytes /\ Len(<<>>) = 0
    /\ \A s \in Bytes : Len(s) \in Nat /\ Len(s) <= MaxLen /\ IsPrefix(<<>>, s) /\ IsPrefix(s, s)
    /\ \A s, t, u \in Bytes : IsPrefix(s, t) /\ IsPrefix(t, u) => IsPrefix(s, u)
    /\ \A s, t \in Bytes : IsPrefix(s, t) => Len(s) <= Len(t)
<1>1. <<>> \in Bytes /\ Len(<<>>) = 0
  <2>1. <<>> \in Seq(Chunk) /\ Len(<<>>) = 0
    BY EmptySeq
  <2>2. Len(<<>>) <= MaxLen
    BY <2>1, OsStageAssumption
  <2> QED BY <2>1, <2>2, BytesSeq
<1>2. ASSUME NEW s \in Bytes PROVE Len(s) \in Nat /\ Len(s) <= MaxLen
  BY BytesSeq, LenProperties
<1>3. ASSUME NEW s \in Bytes PROVE IsPrefix(<<>>, s) /\ IsPrefix(s, s)
  <2>1. IsPrefix(s, s)
    BY <1>2, PrefixDef
  <2>2. IsPrefix(<<>>, s)
    BY <1>1, <1>2, PrefixDef
  <2> QED BY <2>1, <2>2
<1>4. ASSUME NEW s \in Bytes, NEW t \in Bytes, NEW u \in Bytes, IsPrefix(s, t), IsPrefix(t, u)
      PROVE  IsPrefix(s, u)
  <2>1. Len(s) \in Nat /\ Len(t) \in Nat /\ Len(u) \in Nat
    BY <1>2
  <2>2. Len(s) <= Len(t) /\ \A i \in 1 .. Len(s) : s[i] = t[i]
    BY <1>4, PrefixDef
  <2>3. Len(t) <= Len(u) /\ \A i \in 1 .. Len(t) : t[i] = u[i]
    BY <1>4, PrefixDef
  <2>4. Len(s) <= Len(u) /\ \A i \in 1 .. Len(s) : s[i] = u[i]
    BY <2>1, <2>2, <2>3
  <2> QED BY <2>4, PrefixDef
<1>5. ASSUME NEW s \in Bytes, NEW t \in Bytes, IsPrefix(s, t) PROVE Len(s) <= Len(t)
  BY <1>5 DEF IsPrefix
<1> QED BY <1>1, <1>2, <1>3, <1>4, <1>5

\* A file cut back to a prefix is that prefix; one cut behind it still starts with it.
LEMMA Cut ==
    ASSUME NEW t \in Bytes, NEW k \in 0 .. Len(t)
    PROVE  /\ SubSeq(t, 1, k) \in Bytes /\ Len(SubSeq(t, 1, k)) = k
           /\ k = Len(t) => SubSeq(t, 1, k) = t
           /\ \A s \in Bytes : IsPrefix(s, t) /\ Len(s) <= k => IsPrefix(s, SubSeq(t, 1, k))
           /\ \A s \in Bytes : IsPrefix(s, t) /\ Len(s) = k => SubSeq(t, 1, k) = s
<1>1. t \in Seq(Chunk) /\ Len(t) \in Nat /\ Len(t) <= MaxLen /\ k \in Nat /\ MaxLen \in Nat
  BY BytesSeq, LenProperties, OsStageAssumption
<1> DEFINE u == SubSeq(t, 1, k)
<1>2. u \in Seq(Chunk) /\ Len(u) = k /\ \A i \in 1 .. k : u[i] = t[i]
  <2>1. 1 \in 1 .. Len(t) + 1 /\ k \in 0 .. Len(t)
    BY <1>1
  <2>2. /\ u \in Seq(Chunk) /\ Len(u) = IF 1 <= k THEN k - 1 + 1 ELSE 0
        /\ \A i \in 1 .. k - 1 + 1 : u[i] = t[1 + i - 1]
    BY <1>1, <2>1, SubSeqProperties
  <2>3. k - 1 + 1 = k /\ \A i \in 1 .. k : 1 + i - 1 = i
    BY <1>1
  <2> HIDE DEF u
  <2> QED BY <1>1, <2>2, <2>3
<1>3. k = Len(t) => u = t
  BY <1>1, SubSeqFull
<1> HIDE DEF u
<1>4. u \in Bytes
  <2>1. k <= MaxLen
    BY <1>1
  <2> QED BY <1>2, <2>1, BytesSeq
<1>5. ASSUME NEW s \in Bytes, IsPrefix(s, t), Len(s) <= k PROVE IsPrefix(s, u) /\ (Len(s) = k => u = s)
  <2>1. s \in Seq(Chunk) /\ Len(s) \in Nat
    BY BytesSeq, LenProperties
  <2>2. \A i \in 1 .. Len(s) : s[i] = t[i]
    BY <1>5, PrefixDef
  <2>3. \A i \in 1 .. Len(s) : s[i] = u[i]
    BY <1>1, <1>2, <1>5, <2>1, <2>2
  <2>4. IsPrefix(s, u)
    BY <1>2, <1>4, <1>5, <2>3, PrefixDef
  <2>5. Len(s) = k => u = s
    BY <1>2, <2>1, <2>3, SeqEqual
  <2> QED BY <2>4, <2>5
<1>6. \A s \in Bytes : Len(s) = k => Len(s) <= k
  BY <1>1
<1> QED BY <1>2, <1>3, <1>4, <1>5, <1>6 DEF u

\* What is appended to bytes that are not full starts with them.
LEMMA Appended ==
    ASSUME NEW t \in Bytes, NEW c \in Chunk, Len(t) < MaxLen
    PROVE  /\ Append(t, c) \in Bytes /\ Len(Append(t, c)) = Len(t) + 1
           /\ \A s \in Bytes : IsPrefix(s, t) => IsPrefix(s, Append(t, c))
<1>1. t \in Seq(Chunk) /\ Len(t) \in Nat /\ MaxLen \in Nat
  BY BytesSeq, LenProperties, OsStageAssumption
<1> DEFINE u == Append(t, c)
<1>2. u \in Seq(Chunk) /\ Len(u) = Len(t) + 1 /\ \A i \in 1 .. Len(t) : u[i] = t[i]
  BY <1>1, AppendProperties
<1> HIDE DEF u
<1>3. u \in Bytes
  BY <1>1, <1>2, BytesSeq
<1>4. IsPrefix(t, u)
  BY <1>1, <1>2, <1>3, PrefixDef
<1> QED BY <1>2, <1>3, <1>4, PrefixFacts DEF u

-----------------------------------------------------------------------------
(* Directories and types.                                                  *)

\* What the constants and names are not.
LEMMA Names ==
    /\ None \notin Proc /\ None # 1 /\ None # 2
    /\ None \notin Ops /\ None \notin Whose /\ None \notin Records /\ None \notin Bytes
    /\ MaxLen \in Nat
    /\ R0 \in Records /\ R0 # None /\ R0.state = "active" /\ R0.sum = <<>>
<1>1. /\ None \notin Proc /\ None # 1 /\ None # 2
      /\ None \notin Ops /\ None \notin Whose /\ None \notin Records /\ None \notin Bytes
      /\ MaxLen \in Nat
  BY OsStageAssumption
<1>2. R0 \in Records
  BY PrefixFacts DEF R0, Records, States
<1> QED BY <1>1, <1>2 DEF R0

\* A directory, by its fields.
LEMMA Fields ==
    /\ \A d \in Dirs \cup {NoDir} :
          /\ d.dir \in BOOLEAN /\ d.lock \in {None, 1, 2} /\ d.blob \in BOOLEAN
          /\ d.man \in Records \cup {None} /\ d.pub \in Whose \cup {None}
          /\ d \in Dirs <=> d.dir
    /\ NoDir.lock = None /\ ~NoDir.blob /\ NoDir.man = None /\ NoDir.pub = None /\ ~NoDir.dir
    /\ \A m \in Records : m.state \in States /\ m.sum \in Bytes
<1>1. NoDir.lock = None /\ NoDir.blob = FALSE /\ NoDir.man = None /\ NoDir.pub = None /\ NoDir.dir = FALSE
  BY DEF NoDir
<1>2. ASSUME NEW d \in Dirs
      PROVE  /\ d.dir = TRUE /\ d.lock \in {None, 1, 2} /\ d.blob \in BOOLEAN
             /\ d.man \in Records \cup {None} /\ d.pub \in Whose \cup {None}
  BY DEF Dirs
<1>3. ASSUME NEW m \in Records PROVE m.state \in States /\ m.sum \in Bytes
  BY DEF Records
<1>4. NoDir \notin Dirs
  BY <1>1, <1>2
<1> QED BY <1>1, <1>2, <1>3, <1>4

\* A directory with one name changed.
LEMMA Edits ==
    ASSUME NEW d \in Dirs
    PROVE  /\ \A l \in {None, 1, 2} : LET e == [d EXCEPT !.lock = l] IN
                e \in Dirs /\ e.lock = l /\ e.blob = d.blob /\ e.man = d.man /\ e.pub = d.pub
           /\ \A b \in BOOLEAN : LET e == [d EXCEPT !.blob = b] IN
                e \in Dirs /\ e.lock = d.lock /\ e.blob = b /\ e.man = d.man /\ e.pub = d.pub
           /\ \A m \in Records \cup {None} : LET e == [d EXCEPT !.man = m] IN
                e \in Dirs /\ e.lock = d.lock /\ e.blob = d.blob /\ e.man = m /\ e.pub = d.pub
           /\ \A w \in Whose \cup {None} : LET e == [d EXCEPT !.pub = w] IN
                e \in Dirs /\ e.lock = d.lock /\ e.blob = d.blob /\ e.man = d.man /\ e.pub = w
  BY DEF Dirs

\* The types, in groups.
DirTy == up \in Dirs \cup {NoDir} /\ older \subseteq Dirs \cup {NoDir}
FlagTy == {rooted, expired, aged, orphan, solid, begun, done, erased, pruned} \subseteq BOOLEAN
ByteTy == data \in Bytes /\ synced \in 0 .. Len(data) /\ sum \in Bytes \cup {None} /\ acked \in Bytes
DigestTy == {share, entry} \subseteq Whose \cup {None} /\ dlock \in Proc \cup {None}
ProcTy ==
    /\ op \in [Proc -> Ops \cup {None}] /\ pc \in [Proc -> Labels] /\ fl \in [Proc -> {None, 1, 2}]
    /\ holds \subseteq Proc /\ late \subseteq Proc /\ rec \in [Proc -> Records \cup {None}]
BoundTy == calls \in 0 .. MaxCalls /\ faults \in 0 .. MaxFaults /\ others \in 0 .. MaxOthers
HoldTy == (dlock # None => dlock \in holds) /\ \A p, q \in holds : fl[p] = fl[q] => p = q

\* The type invariant is the conjunction of the groups.
LEMMA TypeGroups ==
    TypeOK <=> DirTy /\ FlagTy /\ ByteTy /\ DigestTy /\ ProcTy /\ BoundTy /\ HoldTy
  BY DEF TypeOK, DirTy, FlagTy, ByteTy, DigestTy, ProcTy, BoundTy, HoldTy

-----------------------------------------------------------------------------
(* The steps of a process, one by one.                                     *)

\* What a step leaves alone that only moves a process.
still == <<upload, share, entry, orphan, solid, sum, history>>

\* The call returns or its process dies; a Begin gives up; recoverCommit withdraws
\* publish/; an Append is undone.
Returns(p) == pc[p] # "idle" /\ Leave(p) /\ UNCHANGED still
Abandons(p) ==
    /\ op[p] = "Begin" /\ pc[p] \notin {"mkdir", "rm"}
    /\ Goto(p, "rm") /\ fl' = [fl EXCEPT ![p] = None] /\ holds' = holds \ {p}
    /\ UNCHANGED <<still, dlock, op, rec, late>>
Withdraws(p) ==
    /\ dlock = p /\ up.pub # None
    /\ Leave(p) /\ Change([up EXCEPT !.pub = None])
    /\ UNCHANGED <<rooted, data, synced, expired, share, entry, orphan, solid, sum, history>>
Undoes(p) ==
    /\ op[p] = "Append" /\ pc[p] \in {"write", "datasync", "rename"}
    /\ Continue(p, "rollback") /\ UNCHANGED <<still, dlock>>

\* A call begins, and looks for the directory and its lock file.
Calls(p) ==
    /\ pc[p] = "idle" /\ Goto(p, "open")
    /\ \E o \in Ops \ {"Begin"} : (begun \/ o = "Prune") /\ op' = [op EXCEPT ![p] = o]
    /\ UNCHANGED <<still, dlock, fl, holds, rec, late>>
Opens(p) ==
    /\ pc[p] = "open" /\ up.dir /\ up.lock # None
    /\ fl' = [fl EXCEPT ![p] = up.lock] /\ Goto(p, "wait")
    /\ UNCHANGED <<still, dlock, op, holds, rec, late>>
Orphans(p) ==
    /\ op[p] = "Prune" /\ pc[p] \in {"open", "wait"} /\ Goto(p, "orphan")
    /\ fl' = IF pc[p] = "open" THEN fl ELSE [fl EXCEPT ![p] = None]
    /\ UNCHANGED <<still, dlock, op, holds, rec, late>>

\* The files of Begin.
MakesLock(p) ==
    /\ up.dir /\ pc[p] = "lockfile" /\ up.lock = None
    /\ Change([up EXCEPT !.lock = 1]) /\ Continue(p, "blobfile")
    /\ UNCHANGED <<rooted, data, synced, expired, digest, history>>
MakesBlob(p) ==
    /\ up.dir /\ pc[p] = "blobfile"
    /\ Change([up EXCEPT !.blob = TRUE]) /\ Continue(p, "open")
    /\ UNCHANGED <<rooted, data, synced, expired, digest, history>>

\* The lock is acquired, by Begin and by a call that works on what it finds.
Starts(p) ==
    /\ pc[p] = "wait" /\ p \notin late /\ Unlocked(fl[p]) /\ op[p] = "Begin"
    /\ rec' = [rec EXCEPT ![p] = R0] /\ Goto(p, "rename") /\ holds' = holds \cup {p}
    /\ UNCHANGED <<still, dlock, op, fl, late>>
Enters(p) ==
    /\ pc[p] = "wait" /\ Unlocked(fl[p]) /\ op[p] # "Begin" /\ up.man # None
    /\ First(op[p], up.man) # "idle"
    /\ rec' = [rec EXCEPT ![p] = IF First(op[p], up.man) = "rename"
                                 THEN [up.man EXCEPT !.state = "aborted"] ELSE up.man]
    /\ Goto(p, First(op[p], up.man)) /\ holds' = holds \cup {p}
    /\ UNCHANGED <<still, dlock, op, fl, late>>

\* The tail is cut off, and the call goes on or freezes the record.
Cuts(p) ==
    /\ pc[p] = "tail" /\ ~BadTail(rec[p])
    /\ data' = SubSeq(data, 1, Len(rec[p].sum))
    /\ synced' = IF data' = data THEN synced ELSE Len(data')
    /\ UNCHANGED <<up, older, rooted, expired, aged, share, entry, orphan, solid, history>>
CutsOnly(p) == Cuts(p) /\ op[p] = "Stat" /\ Leave(p) /\ UNCHANGED sum
CutsOn(p) ==
    /\ Cuts(p) /\ UNCHANGED <<dlock, sum>>
    /\ \/ op[p] = "Append" /\ Continue(p, "write")
       \/ rec[p].state = "committing" /\ op[p] # "Stat" /\ Continue(p, "dlock")
       \/ op[p] = "Prune" /\ rec[p].state = "active" /\ Continue(p, "clean")
Freezes(p) ==
    /\ Cuts(p) /\ op[p] = "Commit" /\ rec[p].state = "active"
    /\ rec' = [rec EXCEPT ![p].state = "committing"] /\ sum' = rec[p].sum
    /\ Goto(p, "rename") /\ UNCHANGED <<dlock, fl, holds, op, late>>

\* A record is synced.
Synced(p) ==
    /\ pc[p] = "sync" /\ SyncDir
    /\ UNCHANGED <<rooted, data, synced, expired, share, entry, orphan, solid, sum, begun, erased, pruned>>
SyncedAppend(p) == Synced(p) /\ op[p] = "Append" /\ acked' = rec[p].sum /\ Leave(p) /\ UNCHANGED done
SyncedOn(p) ==
    /\ Synced(p) /\ UNCHANGED <<dlock, acked>>
    /\ \/ op[p] = "Begin" /\ Continue(p, "rootsync") /\ UNCHANGED done
       \/ rec[p].state = "committing" /\ Continue(p, "dlock") /\ UNCHANGED done
       \/ /\ rec[p].state \in {"committed", "aborted"} /\ Continue(p, "rmblob")
          /\ done' = (done \/ rec[p].state = "committed")

\* The entry is synced and the receipt prepared.
Receipts(p) ==
    /\ pc[p] = "entrysync" /\ entry # None /\ solid' = TRUE
    /\ rec' = [rec EXCEPT ![p].state = "committed"] /\ Goto(p, "rename")
    /\ UNCHANGED <<upload, share, entry, orphan, sum, dlock, op, fl, holds, late, history>>

\* pruneOrphanStage takes a lock file, and its lock.
Takes(p) ==
    /\ pc[p] = "orphan" /\ up.dir /\ aged /\ up.man = None
    /\ IF up.lock = None THEN Change([up EXCEPT !.lock = 2]) ELSE Same
    /\ fl' = [fl EXCEPT ![p] = up'.lock] /\ Goto(p, "orphanlock")
    /\ UNCHANGED <<rooted, data, synced, expired, digest, op, holds, rec, late, history>>
Holds(p) ==
    /\ pc[p] = "orphanlock" /\ Unlocked(fl[p]) /\ up.dir /\ up.man = None
    /\ holds' = holds \cup {p} /\ Goto(p, "rm")
    /\ UNCHANGED <<still, dlock, op, fl, rec, late>>

\* RemoveAll removes a name, or the directory.
Removes(p) ==
    /\ pc[p] = "rm" /\ Continue(p, "rm") /\ UNCHANGED dlock
    /\ \/ up.lock # None /\ Change([up EXCEPT !.lock = None])
       \/ up.blob /\ Change([up EXCEPT !.blob = FALSE])
       \/ up.man # None /\ Change([up EXCEPT !.man = None])
       \/ up.pub # None /\ Change([up EXCEPT !.pub = None])
    /\ pruned' = (pruned \/ (op[p] = "Prune" /\ expired))
    /\ UNCHANGED <<rooted, data, synced, expired, share, entry, orphan, solid, sum, begun, acked, done, erased>>
RemovesLast(p) ==
    /\ pc[p] = "rm" /\ (IF up.dir THEN Change(NoDir) ELSE Same)
    /\ IF op[p] = "Prune" THEN Continue(p, "rootsync") /\ UNCHANGED dlock ELSE Leave(p)
    /\ pruned' = (pruned \/ (op[p] = "Prune" /\ expired))
    /\ UNCHANGED <<rooted, data, synced, expired, share, entry, orphan, solid, sum, begun, acked, done, erased>>

\* The steps outside the lock or that only leave it, and those under it.
Moving(p) ==
    \/ Returns(p) \/ Abandons(p) \/ Undoes(p) \/ Calls(p) \/ Opens(p) \/ Orphans(p)
    \/ Starts(p) \/ Enters(p) \/ Holds(p)
Making(p) ==
    \/ BeginMkdir(p) \/ MakesLock(p) \/ MakesBlob(p) \/ RootSync(p) \/ Takes(p)
    \/ Removes(p) \/ RemovesLast(p)
Filing(p) ==
    \/ CutsOnly(p) \/ CutsOn(p) \/ Freezes(p) \/ AppendWrite(p) \/ AppendSync(p) \/ Rollback(p)
    \/ WriteRecord(p) \/ SyncedAppend(p) \/ SyncedOn(p) \/ RemoveBlob(p) \/ LastSync(p) \/ PruneClean(p)
Publishing(p) == Withdraws(p) \/ LockDigest(p) \/ Prepare(p) \/ LinkShare(p) \/ Publish(p) \/ Receipts(p)

\* A step of process p, and one of nobody's in particular.
ProcStep(p) == Call(p) \/ Maintain(p) \/ Step(p) \/ Fail(p) \/ Crash(p)
WorldStep ==
    PowerLoss \/ Expire \/ Age \/ OtherAdd \/ OtherErase \/ OtherEraseEnd \/ OtherCleanup

\* The bounds hold.
LEMMA Bounds ==
    ASSUME TypeOK, [Next]_vars
    PROVE  BoundTy'
<1> USE DEF BoundTy, upload, digest, procs, bounds, history
<1>0. BoundTy /\ {MaxCalls, MaxFaults, MaxOthers} \subseteq Nat
  BY TypeGroups, OsStageAssumption
<1>1. CASE UNCHANGED bounds
  BY <1>0, <1>1
<1>2. ASSUME NEW p \in Proc, Step(p) PROVE UNCHANGED bounds
  BY <1>2 DEF Step, BeginMkdir, BeginFile, Open, Acquire, Skip, RecoverTail, AppendWrite,
     AppendSync,
     Rollback, WriteRecord, RecordSynced, RootSync, LockDigest, Prepare, LinkShare, Publish, SyncEntry,
     RemoveBlob, LastSync, PruneClean, PruneOrphan, PruneOrphanLock, RemoveAll, TimedOut, Failed,
     Return, GiveUp, Withdraw
<1>3. ASSUME NEW p \in Proc, Call(p) \/ Maintain(p) \/ Fail(p) \/ Crash(p) PROVE BoundTy'
  BY <1>0, <1>3 DEF Call, Maintain, Fail, Crash, Failed
<1>4. ASSUME WorldStep PROVE BoundTy'
  BY <1>0, <1>4 DEF WorldStep, PowerLoss, Expire, Age, OtherAdd, OtherErase, OtherEraseEnd,
     OtherCleanup
<1>5. CASE UNCHANGED vars
  BY <1>1, <1>5 DEF vars
<1> QED BY <1>1, <1>2, <1>3, <1>4, <1>5 DEF Next, WorldStep

\* Every step of a process is one of these.
LEMMA Cases ==
    ASSUME OsInv, NEW p \in Proc, ProcStep(p)
    PROVE  Moving(p) \/ Making(p) \/ Filing(p) \/ Publishing(p)
<1> USE DEF upload, digest, procs, bounds, history, still
<1>0. CtlInv(p) /\ ProcTy /\ DirTy /\ DigestTy
  BY TypeGroups DEF OsInv
<1>r. Return(p) /\ pc[p] # "idle" => Returns(p)
  BY DEF Return, Returns
<1>g. GiveUp(p) /\ op[p] = "Begin" /\ pc[p] \notin {"mkdir", "rm"} => Abandons(p)
  BY DEF GiveUp, Abandons
<1>b. pc[p] \in {"lockfile", "blobfile"} => op[p] = "Begin"
  BY <1>0, Names DEF CtlInv, Place, ProcTy, Ops, AppendPcs, RecoverPcs, PrunePcs, CommitPcs
<1>d. pc[p] = "entrysync" => dlock = p
  BY <1>0 DEF CtlInv, CommitPcs
<1>f. Failed(p) /\ pc[p] # "idle" => Moving(p) \/ Publishing(p)
  <2> SUFFICES ASSUME Failed(p), pc[p] # "idle" PROVE Moving(p) \/ Publishing(p)
    OBVIOUS
  <2>1. Abandons(p) \/ Undoes(p) \/ Returns(p) \/ Withdraws(p)
    BY DEF Failed, Abandons, Undoes, Returns, Withdraws, Same
  <2> QED BY <2>1 DEF Moving, Publishing
<1>1. CASE Call(p) \/ Maintain(p)
  <2>1. Calls(p)
    BY <1>1 DEF Call, Maintain, Calls, Ops
  <2> QED BY <2>1 DEF Moving
<1>2. CASE Fail(p) \/ TimedOut(p)
  BY <1>2, <1>f DEF Fail, TimedOut
<1>3. CASE Crash(p)
  <2>1. Returns(p)
    BY <1>3 DEF Crash, Returns
  <2> QED BY <2>1 DEF Moving
<1>4. CASE BeginFile(p)
  <2>1. MakesLock(p) \/ MakesBlob(p) \/ GiveUp(p)
    BY <1>4 DEF BeginFile, MakesLock, MakesBlob
  <2>2. GiveUp(p) => Abandons(p)
    BY <1>4, <1>g, <1>b DEF BeginFile
  <2> QED BY <2>1, <2>2 DEF Moving, Making
<1>5. CASE Open(p)
  <2>1. pc[p] = "open"
    BY <1>5 DEF Open
  <2>2. Opens(p) \/ (op[p] = "Begin" /\ GiveUp(p)) \/ Return(p) \/ Orphans(p)
    BY <1>5 DEF Open, Opens, Orphans, Continue
  <2> QED BY <1>r, <1>g, <2>1, <2>2 DEF Moving
<1>6. CASE Acquire(p) \/ Skip(p)
  <2>1. pc[p] = "wait"
    BY <1>6 DEF Acquire, Skip
  <2>2. Starts(p) \/ Return(p) \/ Orphans(p) \/ Enters(p)
    BY <1>6 DEF Acquire, Skip, Starts, Orphans, Enters, R0
  <2> QED BY <1>r, <2>1, <2>2 DEF Moving
<1>7. CASE RecoverTail(p)
  <2>1. pc[p] = "tail"
    BY <1>7 DEF RecoverTail
  <2>2. Return(p) \/ CutsOnly(p) \/ CutsOn(p) \/ Freezes(p)
    BY <1>7 DEF RecoverTail, CutsOnly, CutsOn, Freezes, Cuts
  <2> QED BY <1>r, <2>1, <2>2 DEF Moving, Filing
<1>8. CASE RecordSynced(p)
  <2>1. SyncedAppend(p) \/ SyncedOn(p)
    BY <1>8 DEF RecordSynced, SyncedAppend, SyncedOn, Synced
  <2> QED BY <2>1 DEF Filing
<1>9. CASE SyncEntry(p)
  <2>1. Receipts(p) \/ Withdraw(p)
    BY <1>9 DEF SyncEntry, Receipts
  <2>2. pc[p] = "entrysync" /\ dlock = p
    BY <1>9, <1>d DEF SyncEntry
  <2>3. Withdraw(p) => Withdraws(p) \/ Returns(p)
    BY <2>2 DEF Withdraw, Withdraws, Returns, Same
  <2> QED BY <2>1, <2>3 DEF Moving, Publishing
<1>10. CASE PruneOrphan(p) \/ PruneOrphanLock(p)
  <2>1. Takes(p) \/ Holds(p) \/ Return(p)
    BY <1>10 DEF PruneOrphan, PruneOrphanLock, Takes, Holds
  <2>2. pc[p] # "idle"
    BY <1>10 DEF PruneOrphan, PruneOrphanLock
  <2> QED BY <1>r, <2>1, <2>2 DEF Moving, Making
<1>11. CASE RemoveAll(p)
  <2>1. CASE [up EXCEPT !.dir = FALSE] = NoDir
    <3>1. up.lock = None /\ ~up.blob /\ up.man = None /\ up.pub = None
      BY <1>0, <2>1 DEF DirTy, Dirs, NoDir
    <3> QED BY <1>11, <2>1, <3>1 DEF RemoveAll, RemovesLast, Making
  <2>2. CASE [up EXCEPT !.dir = FALSE] # NoDir
    BY <1>11, <2>2 DEF RemoveAll, Removes, Making
  <2> QED BY <2>1, <2>2
<1>12. CASE BeginMkdir(p) \/ RootSync(p)
  BY <1>12 DEF Making
<1>13. CASE AppendWrite(p) \/ AppendSync(p) \/ Rollback(p) \/ WriteRecord(p) \/ RemoveBlob(p)
              \/ LastSync(p) \/ PruneClean(p)
  BY <1>13 DEF Filing
<1>14. CASE LockDigest(p) \/ Prepare(p) \/ LinkShare(p) \/ Publish(p)
  BY <1>14 DEF Publishing
<1> QED BY <1>1, <1>2, <1>3, <1>4, <1>5, <1>6, <1>7, <1>8, <1>9, <1>10, <1>11, <1>12, <1>13, <1>14
           DEF ProcStep, Step

-----------------------------------------------------------------------------
(* What a step of a process is.                                            *)

\* A process that works on the stage holds its lock and a record.
LEMMA Working ==
    ASSUME OsInv, NEW p \in Proc, pc[p] \in WorkPcs
    PROVE  /\ p \in holds /\ rec[p] \in Records /\ op[p] # None
           /\ begun => WorkInv(p)
           /\ ~begun => rec[p] = R0
           /\ ~begun => (op[p] = "Prune" /\ pc[p] \in {"tail", "clean", "lastsync"})
                \/ (op[p] = "Begin" /\ pc[p] \in {"rename", "sync"})
<1>0. TypeOK /\ ProcTy /\ CtlInv(p) /\ (begun => WorkInv(p)) /\ (~begun => Early)
        /\ (op[p] = "Begin" => Fresh(p))
  BY TypeGroups DEF OsInv
<1>1. p \in holds /\ op[p] # None
  BY <1>0 DEF CtlInv, Place, Locked, WorkPcs
<1>2. ASSUME ~begun
      PROVE  /\ rec[p] = R0
             /\ (op[p] = "Prune" /\ pc[p] \in {"tail", "clean", "lastsync"})
                  \/ (op[p] = "Begin" /\ pc[p] \in {"rename", "sync"})
  <2>1. op[p] \in {"Begin", "Prune"}
    BY <1>0, <1>1, <1>2 DEF Early
  <2>2. CASE op[p] = "Prune"
    <3>1. pc[p] \in PrunePcs \ (CommitPcs \cup {"rename", "sync", "dlock", "rmblob"}) /\ rec[p] = R0
      BY <1>0, <1>2, <2>2 DEF Early, CtlInv, Place
    <3> QED BY <2>2, <3>1 DEF PrunePcs, RecoverPcs, CommitPcs, WorkPcs
  <2>3. CASE op[p] = "Begin"
    <3>1. pc[p] \in {"rename", "sync"}
      BY <1>0, <2>3 DEF CtlInv, Place, BeginPcs, WorkPcs
    <3> QED BY <1>0, <2>3, <3>1 DEF Fresh
  <2> QED BY <2>1, <2>2, <2>3
<1>3. rec[p] \in Records
  BY <1>0, <1>2, Names DEF ProcTy, WorkInv, RecInv
<1> QED BY <1>0, <1>1, <1>2, <1>3

\* Where Acquire sends a call with the record it finds.
Entered(o, m, l) ==
    /\ l \in {"tail", "rename", "rmblob", "rm", "clean"}
    /\ l = "tail" => m.state \in {"active", "committing"}
         /\ (o = "Append" => m.state = "active" /\ Len(m.sum) < MaxLen)
    /\ l = "rename" => o = "Abort" /\ m.state = "active"
    /\ l = "rmblob" => o = "Abort" /\ m.state \in {"committed", "aborted"}
    /\ l = "rm" => o = "Prune" /\ expired
    /\ l = "clean" => o = "Prune" /\ m.state \in {"committed", "aborted"}

\* First sends it there.
LEMMA EnterFacts ==
    ASSUME NEW o \in Ops \ {"Begin"}, NEW m \in Records, First(o, m) # "idle"
    PROVE  Entered(o, m, First(o, m))
<1>0. m # None /\ m.state \in States /\ m.sum \in Bytes /\ Len(m.sum) \in Nat /\ Len(m.sum) <= MaxLen
        /\ MaxLen \in Nat
  BY Names, Fields, PrefixFacts
<1>1. CASE o \in {"Stat", "Append", "Commit"}
  <2>1. First(o, m) =
            IF \/ Expired(m) \/ m.state \in {"aborted", "committed"}
               \/ o = "Append" /\ (m.state # "active" \/ Len(m.sum) = MaxLen)
               \/ o = "Commit" /\ sum \notin {None, m.sum}
            THEN "idle" ELSE "tail"
    BY <1>0, <1>1 DEF First
  <2> QED BY <1>0, <1>1, <2>1 DEF Entered, States
<1>2. CASE o = "Abort"
  <2>1. First(o, m) = IF m.state = "committing" THEN "tail" ELSE IF m.state = "active" THEN "rename" ELSE "rmblob"
    BY <1>0, <1>2 DEF First, States
  <2> QED BY <1>0, <1>2, <2>1 DEF Entered, States
<1>3. CASE o = "Prune"
  <2>1. First(o, m) = IF m.state = "committing" THEN "tail" ELSE Tidy(m)
    BY <1>0, <1>3 DEF First
  <2> QED BY <1>0, <1>3, <2>1 DEF Entered, States, Tidy
<1> QED BY <1>1, <1>2, <1>3 DEF Ops

\* The other processes are left alone.
OnlyMe(p) ==
    \A q \in Proc \ {p} :
        /\ op'[q] = op[q] /\ pc'[q] = pc[q] /\ fl'[q] = fl[q] /\ rec'[q] = rec[q]
        /\ (q \in holds' <=> q \in holds) /\ (q \in late' <=> q \in late) /\ (dlock' = q <=> dlock = q)

\* A call that returns has nothing left.
LEMMA Leaves ==
    ASSUME TypeOK, NEW p \in Proc, Leave(p)
    PROVE  /\ ProcTy' /\ HoldTy' /\ OnlyMe(p) /\ dlock' \in Proc \cup {None}
           /\ pc'[p] = "idle" /\ op'[p] = None /\ fl'[p] = None /\ rec'[p] = None
           /\ p \notin holds' /\ p \notin late' /\ dlock' # p
<1>0. ProcTy /\ HoldTy /\ DigestTy
  BY TypeGroups
<1>1. ProcTy'
  BY <1>0 DEF Leave, ProcTy, Labels
<1>2. /\ pc'[p] = "idle" /\ op'[p] = None /\ fl'[p] = None /\ rec'[p] = None
      /\ p \notin holds' /\ p \notin late' /\ dlock' # p /\ dlock' \in Proc \cup {None}
  BY <1>0, Names DEF Leave, ProcTy, DigestTy
<1>3. OnlyMe(p)
  BY <1>0, Names DEF Leave, ProcTy, OnlyMe
<1>4. HoldTy'
  <2>1. dlock' # None => dlock' \in holds'
    BY <1>0 DEF Leave, HoldTy
  <2>2. \A a, b \in holds' : fl'[a] = fl'[b] => a = b
    BY <1>0 DEF Leave, HoldTy, ProcTy
  <2> QED BY <2>1, <2>2 DEF HoldTy
<1> QED BY <1>1, <1>2, <1>3, <1>4

\* One that goes on has what it had, but for the record.
LEMMA Continues ==
    ASSUME TypeOK, NEW p \in Proc, NEW l \in Labels, pc' = [pc EXCEPT ![p] = l],
           UNCHANGED <<op, fl, holds, late>>, rec' \in [Proc -> Records \cup {None}],
           \A q \in Proc \ {p} : rec'[q] = rec[q]
    PROVE  /\ ProcTy' /\ pc'[p] = l
           /\ dlock' = dlock => OnlyMe(p) /\ HoldTy'
<1>0. ProcTy /\ HoldTy
  BY TypeGroups
<1>1. ProcTy' /\ pc'[p] = l
  BY <1>0 DEF ProcTy
<1>2. dlock' = dlock => OnlyMe(p) /\ HoldTy'
  BY <1>0 DEF ProcTy, OnlyMe, HoldTy
<1> QED BY <1>1, <1>2

-----------------------------------------------------------------------------
(* Where the processes are.                                                *)

\* What a step of process p does to the processes.
Kept(p) == OnlyMe(p) /\ ProcTy' /\ HoldTy' /\ CtlInv(p)'

\* A call that returns is nowhere.
LEMMA LeavesKept ==
    ASSUME OsInv, NEW p \in Proc, Leave(p)
    PROVE  Kept(p)
<1>1. TypeOK
  BY DEF OsInv
<1>2. CtlInv(p)'
  BY <1>1, Leaves, Names DEF CtlInv, Place, Locked, Ops, WorkPcs, CommitPcs
<1> QED BY <1>1, <1>2, Leaves DEF Kept

\* A call goes from one place to another, with the locks it has.
LEMMA Advance ==
    ASSUME OsInv, NEW p \in Proc, NEW l \in Labels, pc' = [pc EXCEPT ![p] = l],
           UNCHANGED <<op, fl, holds, late, dlock>>, rec' \in [Proc -> Records \cup {None}],
           \A q \in Proc \ {p} : rec'[q] = rec[q],
           Place(op[p], l), Locked(op[p], l) <=> Locked(op[p], pc[p]),
           l \in {"wait", "orphanlock"} <=> pc[p] \in {"wait", "orphanlock"},
           dlock = p => l \in DigestPcs, l \in CommitPcs => dlock = p
    PROVE  Kept(p)
<1>1. TypeOK /\ ProcTy /\ CtlInv(p)
  BY TypeGroups DEF OsInv
<1>2. ProcTy' /\ pc'[p] = l /\ OnlyMe(p) /\ HoldTy'
  BY <1>1, Continues
<1>3. CtlInv(p)'
  BY <1>1, <1>2 DEF CtlInv
<1> QED BY <1>2, <1>3 DEF Kept

\* A process takes the lock of the file it has open.
LEMMA Locks ==
    ASSUME OsInv, NEW p \in Proc, NEW l \in Labels, pc' = [pc EXCEPT ![p] = l],
           holds' = holds \cup {p}, Unlocked(fl[p]), pc[p] \in {"wait", "orphanlock"},
           UNCHANGED <<op, fl, late, dlock>>, rec' \in [Proc -> Records \cup {None}],
           \A q \in Proc \ {p} : rec'[q] = rec[q],
           Place(op[p], l), Locked(op[p], l), l \notin CommitPcs
    PROVE  Kept(p)
<1>0. ProcTy /\ HoldTy /\ CtlInv(p) /\ l \notin {"wait", "orphanlock"}
  BY TypeGroups DEF OsInv, Locked, WorkPcs
<1>1. ProcTy' /\ pc'[p] = l
  BY <1>0 DEF ProcTy
<1>2. OnlyMe(p)
  BY <1>0 DEF ProcTy, OnlyMe
<1>3. HoldTy'
  BY <1>0 DEF ProcTy, HoldTy, Unlocked
<1>4. CtlInv(p)'
  <2>1. dlock # p
    BY <1>0 DEF CtlInv, DigestPcs, CommitPcs
  <2>2. fl[p] # None
    BY <1>0 DEF CtlInv
  <2> QED BY <1>0, <1>1, <2>1, <2>2 DEF CtlInv
<1> QED BY <1>1, <1>2, <1>3, <1>4 DEF Kept

\* Every step of a process leaves the others where they are, and itself where it can be.
LEMMA KeepsPlaces ==
    ASSUME OsInv, NEW p \in Proc, ProcStep(p)
    PROVE  Kept(p)
<1> USE DEF upload, digest, procs, bounds, history, still, Continue, Goto
<1>0. TypeOK /\ ProcTy /\ HoldTy /\ DigestTy /\ DirTy /\ CtlInv(p)
  BY TypeGroups DEF OsInv
<1>s. rec \in [Proc -> Records \cup {None}]
  BY <1>0 DEF ProcTy
<1>o. op[p] \in Ops \cup {None} /\ pc[p] \in Labels
  BY <1>0 DEF ProcTy
<1>w. pc[p] \in WorkPcs => /\ p \in holds /\ rec[p] \in Records /\ op[p] # None
                           /\ begun => WorkInv(p)
                           /\ ~begun => rec[p] = R0
  BY Working
<1> USE DEF Place, Locked, BeginPcs, AppendPcs, RecoverPcs, PrunePcs, WorkPcs, CommitPcs, DigestPcs,
    Labels, Ops
<1>1. CASE Returns(p) \/ Withdraws(p) \/ CutsOnly(p) \/ Rollback(p) \/ SyncedAppend(p) \/ RootSync(p)
  <2>1. Leave(p)
    BY <1>1 DEF Returns, Withdraws, CutsOnly, Rollback, SyncedAppend, RootSync
  <2> QED BY <2>1, LeavesKept
<1>2. CASE Abandons(p)
  <2>1. dlock # p
    <3>1. Fresh(p)
      BY <1>2 DEF OsInv, Abandons
    <3>2. dlock = None
      BY <3>1 DEF OsInv, Fresh, Early
    <3> QED BY <3>2, Names
  <2>2. ProcTy' /\ pc'[p] = "rm" /\ fl'[p] = None /\ p \notin holds' /\ op'[p] = "Begin"
    BY <1>0, <1>2 DEF Abandons, ProcTy
  <2>3. OnlyMe(p)
    BY <1>0, <1>2 DEF Abandons, ProcTy, OnlyMe
  <2>4. HoldTy'
    BY <1>0, <1>2, <2>1 DEF Abandons, ProcTy, HoldTy
  <2>5. CtlInv(p)'
    BY <1>2, <2>1, <2>2, Names DEF Abandons, CtlInv
  <2> QED BY <2>2, <2>3, <2>4, <2>5 DEF Kept
<1>b. begun => op[p] # "Begin"
  BY DEF OsInv, Begun
<1>3. CASE Undoes(p)
  <2>1. pc' = [pc EXCEPT ![p] = "rollback"] /\ UNCHANGED <<op, fl, holds, late, rec, dlock>>
    BY <1>3 DEF Undoes
  <2>2. op[p] = "Append" /\ pc[p] \in {"write", "datasync", "rename"}
    BY <1>3 DEF Undoes
  <2>3. dlock # p
    <3>1. CASE pc[p] # "rename"
      BY <1>0, <2>2, <3>1 DEF CtlInv
    <3>2. CASE pc[p] = "rename"
      <4>1. begun
        BY <2>2, Names DEF OsInv, Early
      <4>2. RecInv(p) /\ AppendInv(p)
        BY <1>w, <3>2, <4>1 DEF WorkInv
      <4>3. rec[p].state = "active"
        BY <2>2, <3>2, <4>2 DEF AppendInv
      <4> QED BY <3>2, <4>2, <4>3 DEF RecInv
    <3> QED BY <3>1, <3>2
  <2>4. /\ Place(op[p], "rollback") /\ (Locked(op[p], "rollback") <=> Locked(op[p], pc[p]))
        /\ pc[p] \notin {"wait", "orphanlock"}
    BY <2>2, Names
  <2> QED BY <1>s, <2>1, <2>3, <2>4, Advance
<1>4. CASE BeginMkdir(p)
  <2>1. pc' = [pc EXCEPT ![p] = "lockfile"] /\ UNCHANGED <<op, fl, holds, late, rec, dlock>>
    BY <1>4 DEF BeginMkdir
  <2>2. /\ Place(op[p], "lockfile") /\ (Locked(op[p], "lockfile") <=> Locked(op[p], pc[p]))
        /\ pc[p] \notin {"wait", "orphanlock"}
        /\ dlock = p => "lockfile" \in DigestPcs
        /\ "lockfile" \in CommitPcs => dlock = p
    BY <1>0, <1>o, <1>4 DEF BeginMkdir, CtlInv
  <2> QED BY <1>s, <2>1, <2>2, Advance
<1>5. CASE MakesLock(p)
  <2>1. pc' = [pc EXCEPT ![p] = "blobfile"] /\ UNCHANGED <<op, fl, holds, late, rec, dlock>>
    BY <1>5 DEF MakesLock
  <2>2. /\ Place(op[p], "blobfile") /\ (Locked(op[p], "blobfile") <=> Locked(op[p], pc[p]))
        /\ pc[p] \notin {"wait", "orphanlock"}
        /\ dlock = p => "blobfile" \in DigestPcs
        /\ "blobfile" \in CommitPcs => dlock = p
    BY <1>0, <1>o, <1>5 DEF MakesLock, CtlInv
  <2> QED BY <1>s, <2>1, <2>2, Advance
<1>6. CASE MakesBlob(p)
  <2>1. pc' = [pc EXCEPT ![p] = "open"] /\ UNCHANGED <<op, fl, holds, late, rec, dlock>>
    BY <1>6 DEF MakesBlob
  <2>2. /\ Place(op[p], "open") /\ (Locked(op[p], "open") <=> Locked(op[p], pc[p]))
        /\ pc[p] \notin {"wait", "orphanlock"}
        /\ dlock = p => "open" \in DigestPcs
        /\ "open" \in CommitPcs => dlock = p
    BY <1>0, <1>o, <1>6 DEF MakesBlob, CtlInv
  <2> QED BY <1>s, <2>1, <2>2, Advance
<1>7. CASE CutsOn(p)
  <2>1. PICK l \in {"write", "dlock", "clean"} : pc' = [pc EXCEPT ![p] = l]
               /\ UNCHANGED <<op, fl, holds, late, rec, dlock>>
    BY <1>7 DEF CutsOn, Cuts, WorkInv, RecInv, AppendInv
  <2>2. pc'[p] = l
    BY <1>0, <2>1 DEF ProcTy
  <2>3. /\ Place(op[p], l) /\ (Locked(op[p], l) <=> Locked(op[p], pc[p]))
        /\ pc[p] \notin {"wait", "orphanlock"}
        /\ dlock = p => l \in DigestPcs
        /\ l \in CommitPcs => dlock = p
    BY <1>0, <1>o, <1>7, <2>1, <2>2, <1>w, Names DEF CutsOn, CtlInv, ProcTy, Cuts, WorkInv,
       RecInv, AppendInv
  <2> QED BY <1>s, <2>1, <2>3, Advance
<1>8. CASE AppendWrite(p)
  <2>1. pc' = [pc EXCEPT ![p] = "datasync"] /\ UNCHANGED <<op, fl, holds, late, rec, dlock>>
    BY <1>8 DEF AppendWrite
  <2>2. /\ Place(op[p], "datasync") /\ (Locked(op[p], "datasync") <=> Locked(op[p], pc[p]))
        /\ pc[p] \notin {"wait", "orphanlock"}
        /\ dlock = p => "datasync" \in DigestPcs
        /\ "datasync" \in CommitPcs => dlock = p
    BY <1>0, <1>o, <1>8 DEF AppendWrite, CtlInv
  <2> QED BY <1>s, <2>1, <2>2, Advance
<1>9. CASE WriteRecord(p)
  <2>1. pc' = [pc EXCEPT ![p] = "sync"] /\ UNCHANGED <<op, fl, holds, late, rec, dlock>>
    BY <1>9 DEF WriteRecord
  <2>2. /\ Place(op[p], "sync") /\ (Locked(op[p], "sync") <=> Locked(op[p], pc[p]))
        /\ pc[p] \notin {"wait", "orphanlock"}
        /\ dlock = p => "sync" \in DigestPcs
        /\ "sync" \in CommitPcs => dlock = p
    BY <1>0, <1>o, <1>9 DEF WriteRecord, CtlInv
  <2> QED BY <1>s, <2>1, <2>2, Advance
<1>10. CASE SyncedOn(p)
  <2>1. PICK l \in {"rootsync", "dlock", "rmblob"} : pc' = [pc EXCEPT ![p] = l]
               /\ UNCHANGED <<op, fl, holds, late, rec, dlock>>
    BY <1>10 DEF SyncedOn, Synced, WorkInv, RecInv, AppendInv
  <2>2. pc'[p] = l
    BY <1>0, <2>1 DEF ProcTy
  <2>3. /\ Place(op[p], l) /\ (Locked(op[p], l) <=> Locked(op[p], pc[p]))
        /\ pc[p] \notin {"wait", "orphanlock"}
        /\ dlock = p => l \in DigestPcs
        /\ l \in CommitPcs => dlock = p
    <3>1. pc[p] = "sync" /\ rec[p] \in Records /\ op[p] # None
      BY <1>10, <1>w DEF SyncedOn, Synced
    <3>2. CASE op[p] = "Begin"
      <4>1. Fresh(p)
        BY <3>2 DEF OsInv
      <4>2. rec[p].state = "active" /\ dlock = None
        BY <3>1, <4>1, Names DEF OsInv, Fresh, Early
      <4>3. l = "rootsync"
        BY <1>0, <1>10, <2>1, <2>2, <4>2 DEF SyncedOn, ProcTy
      <4> QED BY <3>1, <3>2, <4>2, <4>3, Names
    <3>3. CASE op[p] # "Begin"
      <4>1. begun
        BY <3>1, <3>3 DEF OsInv, Early
      <4>2. RecInv(p) /\ AppendInv(p)
        BY <1>w, <3>1, <4>1 DEF WorkInv
      <4>3. \/ rec[p].state = "committing" /\ l = "dlock"
            \/ rec[p].state \in {"committed", "aborted"} /\ l = "rmblob"
        BY <1>0, <1>10, <2>1, <2>2, <3>3 DEF SyncedOn, ProcTy
      <4>4. op[p] \notin {"Stat", "Append"}
        BY <1>0, <3>1, <4>2, <4>3 DEF CtlInv, RecInv, AppendInv
      <4>5. l = "dlock" => dlock # p
        BY <3>1, <4>2, <4>3 DEF RecInv
      <4>6. op[p] \in {"Commit", "Abort", "Prune"}
        BY <1>o, <3>1, <3>3, <4>4
      <4> QED BY <3>1, <4>3, <4>5, <4>6
    <3> QED BY <3>2, <3>3
  <2> QED BY <1>s, <2>1, <2>3, Advance
<1>11. CASE RemoveBlob(p)
  <2>1. pc' = [pc EXCEPT ![p] = "lastsync"] /\ UNCHANGED <<op, fl, holds, late, rec, dlock>>
    BY <1>11 DEF RemoveBlob
  <2>2. /\ Place(op[p], "lastsync") /\ (Locked(op[p], "lastsync") <=> Locked(op[p], pc[p]))
        /\ pc[p] \notin {"wait", "orphanlock"}
        /\ dlock = p => "lastsync" \in DigestPcs
        /\ "lastsync" \in CommitPcs => dlock = p
    BY <1>0, <1>o, <1>11 DEF RemoveBlob, CtlInv
  <2> QED BY <1>s, <2>1, <2>2, Advance
<1>12. CASE PruneClean(p)
  <2>1. pc' = [pc EXCEPT ![p] = "lastsync"] /\ UNCHANGED <<op, fl, holds, late, rec, dlock>>
    BY <1>12 DEF PruneClean
  <2>2. /\ Place(op[p], "lastsync") /\ (Locked(op[p], "lastsync") <=> Locked(op[p], pc[p]))
        /\ pc[p] \notin {"wait", "orphanlock"}
        /\ dlock = p => "lastsync" \in DigestPcs
        /\ "lastsync" \in CommitPcs => dlock = p
    BY <1>0, <1>o, <1>12 DEF PruneClean, CtlInv
  <2> QED BY <1>s, <2>1, <2>2, Advance
<1>13. CASE Prepare(p)
  <2>1. PICK l \in {"move", "share"} : pc' = [pc EXCEPT ![p] = l]
               /\ UNCHANGED <<op, fl, holds, late, rec, dlock>>
    BY <1>13 DEF Prepare
  <2>2. pc'[p] = l
    BY <1>0, <2>1 DEF ProcTy
  <2>3. /\ Place(op[p], l) /\ (Locked(op[p], l) <=> Locked(op[p], pc[p]))
        /\ pc[p] \notin {"wait", "orphanlock"}
        /\ dlock = p => l \in DigestPcs
        /\ l \in CommitPcs => dlock = p
    BY <1>0, <1>o, <1>13, <2>1, <2>2 DEF Prepare, CtlInv, ProcTy
  <2> QED BY <1>s, <2>1, <2>3, Advance
<1>14. CASE LinkShare(p)
  <2>1. pc' = [pc EXCEPT ![p] = "move"] /\ UNCHANGED <<op, fl, holds, late, rec, dlock>>
    BY <1>14 DEF LinkShare
  <2>2. /\ Place(op[p], "move") /\ (Locked(op[p], "move") <=> Locked(op[p], pc[p]))
        /\ pc[p] \notin {"wait", "orphanlock"}
        /\ dlock = p => "move" \in DigestPcs
        /\ "move" \in CommitPcs => dlock = p
    BY <1>0, <1>o, <1>14 DEF LinkShare, CtlInv
  <2> QED BY <1>s, <2>1, <2>2, Advance
<1>15. CASE Publish(p)
  <2>1. pc' = [pc EXCEPT ![p] = "entrysync"] /\ UNCHANGED <<op, fl, holds, late, rec, dlock>>
    BY <1>15 DEF Publish
  <2>2. /\ Place(op[p], "entrysync") /\ (Locked(op[p], "entrysync") <=> Locked(op[p], pc[p]))
        /\ pc[p] \notin {"wait", "orphanlock"}
        /\ dlock = p => "entrysync" \in DigestPcs
        /\ "entrysync" \in CommitPcs => dlock = p
    BY <1>0, <1>o, <1>15 DEF Publish, CtlInv
  <2> QED BY <1>s, <2>1, <2>2, Advance
<1>16. CASE Removes(p)
  <2>1. pc' = [pc EXCEPT ![p] = "rm"] /\ UNCHANGED <<op, fl, holds, late, rec, dlock>>
    BY <1>16 DEF Removes
  <2>2. /\ Place(op[p], "rm") /\ (Locked(op[p], "rm") <=> Locked(op[p], pc[p]))
        /\ pc[p] \notin {"wait", "orphanlock"}
        /\ dlock = p => "rm" \in DigestPcs
        /\ "rm" \in CommitPcs => dlock = p
    BY <1>0, <1>o, <1>16 DEF Removes, CtlInv
  <2> QED BY <1>s, <2>1, <2>2, Advance
<1>17. CASE Freezes(p) \/ AppendSync(p) \/ Receipts(p)
  <2>1. pc' = [pc EXCEPT ![p] = "rename"] /\ UNCHANGED <<op, fl, holds, late, dlock>>
    BY <1>17 DEF Freezes, AppendSync, Receipts
  <2>2. rec[p] \in Records /\ data \in Bytes
    BY <1>17, <1>w, TypeGroups, <1>0 DEF Freezes, Cuts, AppendSync, Receipts, ByteTy
  <2>3. PICK m \in Records : rec' = [rec EXCEPT ![p] = m]
    <3>1. /\ [rec[p] EXCEPT !.state = "committing"] \in Records
            /\ [rec[p] EXCEPT !.state = "committed"] \in Records
          /\ [rec[p] EXCEPT !.sum = data] \in Records
      BY <2>2 DEF Records, States
    <3>2. \/ rec' = [rec EXCEPT ![p] = [rec[p] EXCEPT !.state = "committing"]]
          \/ rec' = [rec EXCEPT ![p] = [rec[p] EXCEPT !.state = "committed"]]
          \/ rec' = [rec EXCEPT ![p] = [rec[p] EXCEPT !.sum = data]]
      BY <1>17, <1>s DEF Freezes, AppendSync, Receipts
    <3> QED BY <3>1, <3>2
  <2>4. rec' \in [Proc -> Records \cup {None}] /\ \A q \in Proc \ {p} : rec'[q] = rec[q]
    BY <1>s, <2>3
  <2>5. /\ Place(op[p], "rename") /\ (Locked(op[p], "rename") <=> Locked(op[p], pc[p]))
        /\ pc[p] \notin {"wait", "orphanlock"}
    BY <1>0, <1>o, <1>17 DEF Freezes, Cuts, AppendSync, Receipts, CtlInv
  <2> QED BY <2>1, <2>4, <2>5, Advance
<1>18. CASE LastSync(p)
  <2>1. CASE op[p] = "Prune" /\ dlock = p
    <3>1. /\ pc' = [pc EXCEPT ![p] = Tidy(rec[p])] /\ UNCHANGED <<op, fl, holds, late, rec>>
            /\ dlock' = None
          /\ Tidy(rec[p]) \in {"rm", "tail", "clean"} /\ pc[p] = "lastsync"
      BY <1>18, <2>1 DEF LastSync, Tidy
    <3>2. ProcTy' /\ pc'[p] \in {"rm", "tail", "clean"}
      BY <1>0, <3>1 DEF ProcTy
    <3>3. OnlyMe(p)
      BY <1>0, <2>1, <3>1, Names DEF ProcTy, OnlyMe
    <3>4. HoldTy'
      BY <1>0, <3>1 DEF HoldTy
    <3>5. CtlInv(p)'
      BY <1>0, <2>1, <3>1, <3>2, Names DEF CtlInv
    <3> QED BY <3>2, <3>3, <3>4, <3>5 DEF Kept
  <2>2. CASE ~(op[p] = "Prune" /\ dlock = p)
    <3>1. Leave(p)
      BY <1>18, <2>2 DEF LastSync
    <3> QED BY <3>1, LeavesKept
  <2> QED BY <2>1, <2>2
<1>19. CASE RemovesLast(p)
  <2>1. CASE op[p] = "Prune"
    <3>1. pc' = [pc EXCEPT ![p] = "rootsync"] /\ UNCHANGED <<op, fl, holds, late, rec, dlock>>
            /\ pc[p] = "rm"
      BY <1>19, <2>1 DEF RemovesLast
    <3>2. dlock # p
      BY <1>0, <3>1 DEF CtlInv
    <3> QED BY <1>s, <2>1, <3>1, <3>2, Advance, Names
  <2>2. CASE op[p] # "Prune"
    <3>1. Leave(p)
      BY <1>19, <2>2 DEF RemovesLast
    <3> QED BY <3>1, LeavesKept
  <2> QED BY <2>1, <2>2
<1>20. CASE LockDigest(p)
  <2>1. /\ \E l \in {"entrysync", "publish"} : pc' = [pc EXCEPT ![p] = l]
        /\ UNCHANGED <<op, fl, holds, late, rec>> /\ dlock = None /\ dlock' = p /\ pc[p] = "dlock"
    BY <1>20 DEF LockDigest
  <2>2. ProcTy' /\ pc'[p] \in {"entrysync", "publish"}
    BY <1>0, <2>1 DEF ProcTy
  <2>3. OnlyMe(p)
    BY <1>0, <2>1, Names DEF ProcTy, OnlyMe
  <2>4. HoldTy'
    BY <1>0, <1>w, <2>1 DEF HoldTy
  <2>5. CtlInv(p)'
    BY <1>0, <1>o, <2>1, <2>2 DEF CtlInv
  <2> QED BY <2>2, <2>3, <2>4, <2>5 DEF Kept
<1>21. CASE Calls(p)
  <2>1. /\ pc' = [pc EXCEPT ![p] = "open"] /\ (\E o \in Ops \ {"Begin"} : op' = [op EXCEPT ![p] = o])
        /\ UNCHANGED <<fl, holds, late, rec, dlock>> /\ pc[p] = "idle"
    BY <1>21 DEF Calls
  <2>2. ProcTy' /\ pc'[p] = "open" /\ op'[p] \in Ops \ {"Begin"}
    BY <1>0, <2>1 DEF ProcTy
  <2>3. OnlyMe(p)
    BY <1>0, <2>1 DEF ProcTy, OnlyMe
  <2>4. HoldTy'
    BY <1>0, <2>1 DEF HoldTy
  <2>5. CtlInv(p)'
    BY <1>0, <2>1, <2>2, Names DEF CtlInv
  <2> QED BY <2>2, <2>3, <2>4, <2>5 DEF Kept
<1>22. CASE Opens(p) \/ Orphans(p) \/ Takes(p)
  <2>1. PICK l \in {"wait", "orphan", "orphanlock"}, x \in {None, 1, 2} :
            /\ pc' = [pc EXCEPT ![p] = l] /\ fl' = [fl EXCEPT ![p] = x]
            /\ l # "wait" => op[p] = "Prune"
            /\ x # None <=> l # "orphan"
    <3>1. CASE Opens(p)
      <4>1. up.lock \in {1, 2}
        BY <1>0, <3>1, Fields DEF Opens, DirTy
      <4> QED BY <3>1, <4>1, Names DEF Opens
    <3>2. CASE Orphans(p)
      <4>1. pc[p] = "open" => fl[p] = None
        BY <1>0 DEF CtlInv
      <4>2. fl' = [fl EXCEPT ![p] = None]
        BY <1>0, <3>2, <4>1 DEF Orphans, ProcTy
      <4> QED BY <3>2, <4>2 DEF Orphans
    <3>3. CASE Takes(p)
      <4>1. op[p] = "Prune"
        BY <1>0, <1>o, <3>3 DEF Takes, CtlInv
      <4>2. up \in Dirs /\ up'.lock \in {1, 2}
        <5>1. up \in Dirs
          BY <1>0, <3>3, Fields DEF Takes, DirTy
        <5>2. up.lock # None => up'.lock = up.lock
          BY <3>3 DEF Takes, Same
        <5>3. up.lock = None => up'.lock = 2
          <6>1. ASSUME up.lock = None PROVE up' = [up EXCEPT !.lock = 2]
            BY <3>3, <6>1 DEF Takes, Change
          <6>2. [up EXCEPT !.lock = 2].lock = 2
            BY <5>1, Edits
          <6> QED BY <6>1, <6>2
        <5> QED BY <5>1, <5>2, <5>3, Fields
      <4> QED BY <3>3, <4>1, <4>2, Names DEF Takes
    <3> QED BY <1>22, <3>1, <3>2, <3>3
  <2>2. UNCHANGED <<op, holds, late, rec, dlock>> /\ pc[p] \in {"open", "wait", "orphan"}
    BY <1>22 DEF Opens, Orphans, Takes
  <2>3. ProcTy' /\ pc'[p] = l /\ fl'[p] = x
    BY <1>0, <2>1, <2>2 DEF ProcTy
  <2>4. OnlyMe(p)
    BY <1>0, <2>1, <2>2 DEF ProcTy, OnlyMe
  <2>5. p \notin holds /\ dlock # p
    BY <1>0, <2>2 DEF CtlInv
  <2>6. HoldTy'
    BY <1>0, <2>1, <2>2, <2>5 DEF ProcTy, HoldTy
  <2>7. Place(op[p], l)
    BY <1>0, <1>o, <1>22, <2>1, <2>3 DEF Opens, Orphans, Takes, CtlInv, ProcTy
  <2>8. CtlInv(p)'
    BY <2>1, <2>2, <2>3, <2>5, <2>7 DEF CtlInv
  <2> QED BY <2>3, <2>4, <2>6, <2>8 DEF Kept
<1>23. CASE Starts(p)
  <2>1. rec' \in [Proc -> Records \cup {None}] /\ \A q \in Proc \ {p} : rec'[q] = rec[q]
    BY <1>s, <1>23, Names DEF Starts
  <2>2. /\ pc' = [pc EXCEPT ![p] = "rename"] /\ holds' = holds \cup {p} /\ Unlocked(fl[p]) /\ pc[p] = "wait"
        /\ UNCHANGED <<op, fl, late, dlock>>
    BY <1>23 DEF Starts
  <2>3. Place(op[p], "rename") /\ Locked(op[p], "rename") /\ "rename" \notin CommitPcs
    BY <1>23, Names DEF Starts
  <2> QED BY <2>1, <2>2, <2>3, Locks
<1>24. CASE Enters(p)
  <2> DEFINE l == First(op[p], up.man)
  <2>1. op[p] \in Ops \ {"Begin"} /\ up.man \in Records
    <3>1. op[p] # None
      BY <1>0, <1>24 DEF Enters, CtlInv
    <3>2. up.man \in Records
      BY <1>0, <1>24, Fields DEF Enters, DirTy
    <3> QED BY <1>o, <1>24, <3>1, <3>2 DEF Enters
  <2>2. Entered(op[p], up.man, l)
    BY <1>24, <2>1, EnterFacts DEF Enters
  <2>3. [up.man EXCEPT !.state = "aborted"] \in Records
    BY <2>1 DEF Records, States
  <2>4. rec' \in [Proc -> Records \cup {None}] /\ \A q \in Proc \ {p} : rec'[q] = rec[q]
    BY <1>s, <1>24, <2>1, <2>3 DEF Enters
  <2>5. pc' = [pc EXCEPT ![p] = l] /\ holds' = holds \cup {p} /\ Unlocked(fl[p]) /\ pc[p] = "wait"
          /\ UNCHANGED <<op, fl, late, dlock>>
    BY <1>24 DEF Enters
  <2> HIDE DEF l
  <2>6. l \in Labels /\ Place(op[p], l) /\ Locked(op[p], l) /\ l \notin CommitPcs
    BY <1>0, <2>1, <2>2, <2>5, Names DEF Entered, CtlInv
  <2> QED BY <2>4, <2>5, <2>6, Locks
<1>25. CASE Holds(p)
  <2>1. op[p] = "Prune"
    BY <1>0, <1>o, <1>25 DEF Holds, CtlInv
  <2>2. /\ pc' = [pc EXCEPT ![p] = "rm"] /\ holds' = holds \cup {p} /\ Unlocked(fl[p])
          /\ pc[p] = "orphanlock"
        /\ UNCHANGED <<op, fl, late, rec, dlock>>
    BY <1>25 DEF Holds
  <2>3. Place(op[p], "rm") /\ Locked(op[p], "rm") /\ "rm" \notin CommitPcs
    BY <2>1, Names
  <2> QED BY <1>s, <2>2, <2>3, Locks
<1> QED BY Cases, <1>1, <1>2, <1>3, <1>4, <1>5, <1>6, <1>7, <1>8, <1>9, <1>10, <1>11, <1>12,
           <1>13, <1>14, <1>15, <1>16, <1>17, <1>18, <1>19, <1>20, <1>21, <1>22, <1>23, <1>24,
           <1>25 DEF Moving, Making, Filing, Publishing

-----------------------------------------------------------------------------
(* The directory.                                                          *)

\* The step leaves a directory with these names, and the one before it for a power loss.
Puts(l, b, m, w) ==
    /\ up' \in Dirs /\ up'.lock = l /\ up'.blob = b /\ up'.man = m /\ up'.pub = w
    /\ older' = older \cup {up}

\* The directory stays as it is, synced or not.
Stays == up' = up /\ older' \subseteq older

\* It loses a name at most.
Loses ==
    /\ up' \in Dirs \cup {NoDir} /\ older' \subseteq older \cup {up}
    /\ up'.lock \in {up.lock, None} /\ up'.blob \in {up.blob, FALSE}
    /\ up'.man \in {up.man, None} /\ up'.pub \in {up.pub, None}

\* A directory with names in it is there.
LEMMA Present ==
    ASSUME DirTy, up.dir \/ up.lock # None \/ up.blob \/ up.man # None \/ up.pub # None
    PROVE  up \in Dirs
  BY Fields DEF DirTy

\* What becomes of a directory that is changed.
LEMMA Changes ==
    ASSUME DirTy, up \in Dirs
    PROVE  /\ \A l \in {None, 1, 2} : Change([up EXCEPT !.lock = l]) => Puts(l, up.blob, up.man, up.pub)
           /\ \A b \in BOOLEAN : Change([up EXCEPT !.blob = b]) => Puts(up.lock, b, up.man, up.pub)
           /\ \A m \in Records \cup {None} : Change([up EXCEPT !.man = m]) =>
                Puts(up.lock, up.blob, m, up.pub)
           /\ \A w \in Whose \cup {None} : Change([up EXCEPT !.pub = w]) =>
                Puts(up.lock, up.blob, up.man, w)
<1>1. ASSUME NEW l \in {None, 1, 2}, Change([up EXCEPT !.lock = l]) PROVE Puts(l, up.blob, up.man, up.pub)
  <2> DEFINE e == [up EXCEPT !.lock = l]
  <2>1. e \in Dirs /\ e.lock = l /\ e.blob = up.blob /\ e.man = up.man /\ e.pub = up.pub
    BY DEF Dirs
  <2>2. up' = e /\ older' = older \cup {up}
    BY <1>1 DEF Change
  <2> HIDE DEF e
  <2> QED BY <2>1, <2>2 DEF Puts
<1>2. ASSUME NEW b \in BOOLEAN, Change([up EXCEPT !.blob = b]) PROVE Puts(up.lock, b, up.man, up.pub)
  <2> DEFINE e == [up EXCEPT !.blob = b]
  <2>1. e \in Dirs /\ e.lock = up.lock /\ e.blob = b /\ e.man = up.man /\ e.pub = up.pub
    BY DEF Dirs
  <2>2. up' = e /\ older' = older \cup {up}
    BY <1>2 DEF Change
  <2> HIDE DEF e
  <2> QED BY <2>1, <2>2 DEF Puts
<1>3. ASSUME NEW m \in Records \cup {None}, Change([up EXCEPT !.man = m])
      PROVE Puts(up.lock, up.blob, m, up.pub)
  <2> DEFINE e == [up EXCEPT !.man = m]
  <2>1. e \in Dirs /\ e.lock = up.lock /\ e.blob = up.blob /\ e.man = m /\ e.pub = up.pub
    BY DEF Dirs
  <2>2. up' = e /\ older' = older \cup {up}
    BY <1>3 DEF Change
  <2> HIDE DEF e
  <2> QED BY <2>1, <2>2 DEF Puts
<1>4. ASSUME NEW w \in Whose \cup {None}, Change([up EXCEPT !.pub = w])
      PROVE Puts(up.lock, up.blob, up.man, w)
  <2> DEFINE e == [up EXCEPT !.pub = w]
  <2>1. e \in Dirs /\ e.lock = up.lock /\ e.blob = up.blob /\ e.man = up.man /\ e.pub = w
    BY DEF Dirs
  <2>2. up' = e /\ older' = older \cup {up}
    BY <1>4 DEF Change
  <2> HIDE DEF e
  <2> QED BY <2>1, <2>2 DEF Puts
<1> QED BY <1>1, <1>2, <1>3, <1>4

\* A directory that is put together is one.
LEMMA PutTy ==
    ASSUME DirTy
    PROVE  /\ \A l, b, m, w : Puts(l, b, m, w) => DirTy'
           /\ Stays => DirTy'
           /\ Loses => DirTy'
<1>1. ASSUME NEW l, NEW b, NEW m, NEW w, Puts(l, b, m, w) PROVE DirTy'
  BY <1>1 DEF DirTy, Puts
<1>2. ASSUME Stays PROVE DirTy'
  BY <1>2 DEF DirTy, Stays
<1>3. ASSUME Loses PROVE DirTy'
  BY <1>3 DEF DirTy, Loses
<1> QED BY <1>1, <1>2, <1>3

\* RemoveAll takes names away.
LEMMA Removal ==
    ASSUME OsInv, NEW p \in Proc, Removes(p) \/ RemovesLast(p)
    PROVE  Loses
<1>0. DirTy
  BY TypeGroups DEF OsInv
<1>f. up.lock \in {None, 1, 2} /\ up.blob \in BOOLEAN /\ up.man \in Records \cup {None}
        /\ up.pub \in Whose \cup {None} /\ up.dir \in BOOLEAN
  BY <1>0, Fields DEF DirTy
<1>s. Same => Loses
  BY <1>0 DEF Same, Loses, DirTy
<1>1. ASSUME up.lock # None, Change([up EXCEPT !.lock = None]) PROVE Loses
  <2>1. up \in Dirs
    BY <1>0, <1>1, Present
  <2>2. Puts(None, up.blob, up.man, up.pub)
    BY <1>0, <1>1, <2>1, Changes
  <2> QED BY <2>2 DEF Puts, Loses
<1>2. ASSUME up.blob, Change([up EXCEPT !.blob = FALSE]) PROVE Loses
  <2>1. up \in Dirs
    BY <1>0, <1>2, Present
  <2>2. Puts(up.lock, FALSE, up.man, up.pub)
    BY <1>0, <1>2, <2>1, Changes
  <2> QED BY <2>2 DEF Puts, Loses
<1>3. ASSUME up.man # None, Change([up EXCEPT !.man = None]) PROVE Loses
  <2>1. up \in Dirs
    BY <1>0, <1>3, Present
  <2>2. Puts(up.lock, up.blob, None, up.pub)
    BY <1>0, <1>3, <2>1, Changes
  <2> QED BY <2>2 DEF Puts, Loses
<1>4. ASSUME up.pub # None, Change([up EXCEPT !.pub = None]) PROVE Loses
  <2>1. up \in Dirs
    BY <1>0, <1>4, Present
  <2>2. Puts(up.lock, up.blob, up.man, None)
    BY <1>0, <1>4, <2>1, Changes
  <2> QED BY <2>2 DEF Puts, Loses
<1>5. ASSUME Change(NoDir) PROVE Loses
  BY <1>5, Fields DEF Change, Loses
<1> QED BY <1>s, <1>1, <1>2, <1>3, <1>4, <1>5 DEF Removes, RemovesLast

\* What a step does to the directory.
LEMMA DirSteps ==
    ASSUME OsInv, NEW p \in Proc
    PROVE  /\ MakesLock(p) => Puts(1, up.blob, up.man, up.pub)
           /\ MakesBlob(p) => Puts(up.lock, TRUE, up.man, up.pub)
           /\ Takes(p) => (up.lock # None /\ up' = up /\ older' = older)
                \/ (up.lock = None /\ Puts(2, up.blob, None, up.pub))
           /\ WriteRecord(p) => Puts(up.lock, up.blob, rec[p], up.pub)
           /\ RemoveBlob(p) => Stays \/ Puts(up.lock, FALSE, up.man, up.pub)
           /\ Withdraws(p) => Puts(up.lock, up.blob, up.man, None)
<1>0. DirTy
  BY TypeGroups DEF OsInv
<1>1. ASSUME MakesLock(p) PROVE Puts(1, up.blob, up.man, up.pub)
  <2>1. up \in Dirs /\ Change([up EXCEPT !.lock = 1])
    BY <1>0, <1>1, Present DEF MakesLock
  <2> QED BY <1>0, <2>1, Changes
<1>2. ASSUME MakesBlob(p) PROVE Puts(up.lock, TRUE, up.man, up.pub)
  <2>1. up \in Dirs /\ Change([up EXCEPT !.blob = TRUE])
    BY <1>0, <1>2, Present DEF MakesBlob
  <2> QED BY <1>0, <2>1, Changes
<1>3. ASSUME Takes(p) PROVE (up.lock # None /\ up' = up /\ older' = older)
               \/ (up.lock = None /\ Puts(2, up.blob, None, up.pub))
  <2>1. up \in Dirs /\ up.man = None
    BY <1>0, <1>3, Present DEF Takes
  <2>2. CASE up.lock = None
    <3>1. Change([up EXCEPT !.lock = 2])
      BY <1>3, <2>2 DEF Takes
    <3>2. Puts(2, up.blob, up.man, up.pub)
      BY <1>0, <2>1, <3>1, Changes
    <3> QED BY <2>1, <2>2, <3>2
  <2>3. CASE up.lock # None
    BY <1>3, <2>3 DEF Takes, Same
  <2> QED BY <2>2, <2>3
<1>4. ASSUME WriteRecord(p) PROVE Puts(up.lock, up.blob, rec[p], up.pub)
  <2>1. up \in Dirs /\ Change([up EXCEPT !.man = rec[p]])
    BY <1>0, <1>4, Present DEF WriteRecord
  <2>2. rec[p] \in Records
    BY <1>4, Working DEF WriteRecord, WorkPcs
  <2> QED BY <1>0, <2>1, <2>2, Changes
<1>5. ASSUME RemoveBlob(p) PROVE Stays \/ Puts(up.lock, FALSE, up.man, up.pub)
  <2>1. CASE up.blob
    <3>1. up \in Dirs /\ Change([up EXCEPT !.blob = FALSE])
      BY <1>0, <1>5, <2>1, Present DEF RemoveBlob
    <3> QED BY <1>0, <3>1, Changes
  <2>2. CASE ~up.blob
    BY <1>5, <2>2 DEF RemoveBlob, Same, Stays
  <2> QED BY <2>1, <2>2
<1>6. ASSUME Withdraws(p) PROVE Puts(up.lock, up.blob, up.man, None)
  <2>1. up \in Dirs /\ Change([up EXCEPT !.pub = None])
    BY <1>0, <1>6, Present DEF Withdraws
  <2> QED BY <1>0, <2>1, Changes
<1> QED BY <1>1, <1>2, <1>3, <1>4, <1>5, <1>6

\* What the steps of a commit, and PruneStages' tidying, do to it.
LEMMA CommitDirSteps ==
    ASSUME OsInv, begun, NEW p \in Proc
    PROVE  /\ Prepare(p) => \E w \in Whose : Puts(up.lock, up.blob, up.man, w)
                /\ (w = "mine" <=> share \in {None, "mine"})
           /\ Publish(p) => Puts(up.lock, up.blob, up.man, None)
<1>0. DirTy /\ DigestTy
  BY TypeGroups DEF OsInv
<1>1. ASSUME Prepare(p) PROVE \E w \in Whose : Puts(up.lock, up.blob, up.man, w)
               /\ (w = "mine" <=> share \in {None, "mine"})
  <2>1. RecInv(p)
    BY <1>1, Working DEF Prepare, WorkPcs, WorkInv
  <2>2. up \in Dirs
    BY <1>0, <2>1, Present DEF RecInv
  <2> DEFINE w == IF share # None THEN share ELSE "mine"
  <2>3. w \in Whose /\ (w = "mine" <=> share \in {None, "mine"})
    BY <1>0, Names DEF DigestTy, Whose
  <2>4. Change([up EXCEPT !.pub = w])
    BY <1>1 DEF Prepare
  <2> HIDE DEF w
  <2>5. Puts(up.lock, up.blob, up.man, w)
    BY <1>0, <2>2, <2>3, <2>4, Changes
  <2> QED BY <2>3, <2>5
<1>2. ASSUME Publish(p) PROVE Puts(up.lock, up.blob, up.man, None)
  <2>1. RecInv(p)
    BY <1>2, Working DEF Publish, WorkPcs, WorkInv
  <2>2. up \in Dirs /\ Change([up EXCEPT !.pub = None])
    BY <1>0, <1>2, <2>1, Present DEF RecInv, Publish
  <2> QED BY <1>0, <2>2, Changes
<1> QED BY <1>1, <1>2

\* PruneStages keeps the blob of an active stage only.
LEMMA CleanStep ==
    ASSUME OsInv, NEW p \in Proc, PruneClean(p)
    PROVE  Stays \/ \E b \in BOOLEAN : Puts(up.lock, b, up.man, None)
             /\ (rec[p].state = "active" => b = up.blob) /\ (b => up.blob)
<1>0. DirTy
  BY TypeGroups DEF OsInv
<1> DEFINE b == up.blob /\ rec[p].state = "active"
           d == [up EXCEPT !.pub = None, !.blob = @ /\ rec[p].state = "active"]
<1>1. CASE d = up
  BY <1>1 DEF PruneClean, Same, Stays
<1>2. CASE d # up
  <2>1. Change(d)
    BY <1>2 DEF PruneClean
  <2>2. up \in Dirs
    <3>1. CASE up = NoDir
      <4>1. [NoDir EXCEPT !.pub = None, !.blob = @ /\ rec[p].state = "active"] = NoDir
        <5> DEFINE a == rec[p].state = "active"
        <5>1. NoDir \in [dir : {FALSE}, lock : {None}, blob : {FALSE}, man : {None}, pub : {None}]
          BY DEF NoDir
        <5>2. [NoDir EXCEPT !.pub = NoDir.pub, !.blob = NoDir.blob] = NoDir
          BY <5>1
        <5>3. NoDir.pub = None /\ NoDir.blob = (FALSE /\ a) /\ NoDir.blob = (NoDir.blob /\ a)
          BY DEF NoDir
        <5> HIDE DEF a
        <5>4. [NoDir EXCEPT !.pub = None, !.blob = @ /\ a] = [NoDir EXCEPT !.pub = None, !.blob = NoDir.blob /\ a]
          BY <5>1
        <5> QED BY <5>2, <5>3, <5>4, Zenon DEF a
      <4> QED BY <1>2, <3>1, <4>1
    <3> QED BY <1>0, <3>1 DEF DirTy
  <2>3. /\ d \in Dirs /\ d.lock = up.lock /\ d.blob = b /\ d.man = up.man /\ d.pub = None
    BY <2>2 DEF Dirs
  <2>4. b \in BOOLEAN /\ (rec[p].state = "active" => b = up.blob) /\ (b => up.blob)
    BY <1>0, Fields DEF DirTy
  <2> HIDE DEF d, b
  <2>5. Puts(up.lock, b, up.man, None)
    BY <2>1, <2>3 DEF Change, Puts
  <2> QED BY <2>4, <2>5
<1> QED BY <1>1, <1>2

-----------------------------------------------------------------------------
(* Before Begin has returned.                                              *)

\* Where PruneStages can be then.
EarlyPcs == {"open", "wait", "tail", "clean", "lastsync", "orphan", "orphanlock", "rm", "rootsync"}

\* The bytes and links then.
Empty ==
    /\ data = <<>> /\ synced = 0 /\ sum = None /\ acked = <<>> /\ ~done /\ dlock = None
    /\ share # "mine" /\ entry # "mine"

\* What is known of a process then.
LEMMA EarlyWho ==
    ASSUME OsInv, ~begun, NEW p \in Proc
    PROVE  /\ Empty /\ CtlInv(p) /\ ProcTy /\ DirTy
           /\ op[p] \in {None, "Begin", "Prune"}
           /\ op[p] = None => pc[p] = "idle"
           /\ op[p] = "Prune" => pc[p] \in EarlyPcs
           /\ op[p] = "Begin" => pc[p] \in BeginPcs /\ Fresh(p)
           /\ rec[p] \in {None, R0} /\ (pc[p] \in WorkPcs => rec[p] = R0)
           /\ pc[p] \in WorkPcs => (op[p] = "Prune" /\ pc[p] \in {"tail", "clean", "lastsync"})
                \/ (op[p] = "Begin" /\ pc[p] \in {"rename", "sync"})
<1>1. Early /\ CtlInv(p) /\ ProcTy /\ DirTy /\ (op[p] = "Begin" => Fresh(p))
  BY TypeGroups DEF OsInv
<1>2. Empty /\ op[p] \in {None, "Begin", "Prune"} /\ rec[p] \in {None, R0}
  BY <1>1 DEF Early, Empty
<1>3. op[p] = "Begin" => pc[p] \in BeginPcs
  BY <1>1 DEF CtlInv, Place
<1>4. op[p] = "Prune" => pc[p] \in EarlyPcs
  <2>1. op[p] = "Prune" => pc[p] \in PrunePcs
          /\ pc[p] \notin CommitPcs \cup {"rename", "sync", "dlock", "rmblob"}
    BY <1>1 DEF CtlInv, Place, Early
  <2> QED BY <2>1 DEF EarlyPcs, PrunePcs, RecoverPcs, CommitPcs
<1>5. op[p] = None => pc[p] = "idle"
  BY <1>1 DEF CtlInv, Place
<1> QED BY <1>1, <1>2, <1>3, <1>4, <1>5, Working

\* The steps there are then.
EarlyBegin(p) ==
    /\ op[p] = "Begin"
    /\ \/ Returns(p) \/ Abandons(p) \/ Opens(p) \/ BeginMkdir(p) \/ MakesLock(p) \/ MakesBlob(p)
            \/ Starts(p)
       \/ WriteRecord(p) \/ SyncedOn(p) \/ RootSync(p) \/ Removes(p) \/ RemovesLast(p)
EarlyPrune(p) ==
    /\ op[p] = "Prune"
    /\ \/ Returns(p) \/ Opens(p) \/ Orphans(p) \/ Enters(p) \/ Holds(p) \/ Takes(p) \/ CutsOn(p)
            \/ LastSync(p)
       \/ PruneClean(p) \/ RootSync(p) \/ Removes(p) \/ RemovesLast(p)

\* Before Begin has returned there are no others.
LEMMA EarlyCases ==
    ASSUME OsInv, ~begun, NEW p \in Proc, ProcStep(p)
    PROVE  EarlyBegin(p) \/ EarlyPrune(p) \/ Calls(p)
<1>1. /\ op[p] \in {None, "Begin", "Prune"}
      /\ op[p] = None => pc[p] = "idle"
      /\ op[p] = "Prune" => pc[p] \in EarlyPcs
      /\ op[p] = "Begin" => pc[p] \in BeginPcs
      /\ dlock = None
  BY EarlyWho DEF Empty
<1> USE DEF EarlyPcs, BeginPcs
<1>2. CASE Moving(p)
  BY <1>1, <1>2 DEF Moving, Returns, Abandons, Undoes, Calls, Opens, Orphans, Starts, Enters,
     Holds, EarlyBegin, EarlyPrune
<1>3. CASE Making(p)
  <2>1. pc[p] # "idle"
    BY <1>3 DEF Making, BeginMkdir, MakesLock, MakesBlob, RootSync, Takes, Removes, RemovesLast
  <2>2. BeginMkdir(p) \/ MakesLock(p) \/ MakesBlob(p) => op[p] = "Begin"
    BY <1>1 DEF BeginMkdir, MakesLock, MakesBlob
  <2>3. Takes(p) => op[p] = "Prune"
    BY <1>1 DEF Takes
  <2> QED BY <1>1, <1>3, <2>1, <2>2, <2>3 DEF Making, EarlyBegin, EarlyPrune
<1>4. CASE Filing(p)
  <2>1. ~CutsOnly(p) /\ ~Freezes(p) /\ ~AppendWrite(p) /\ ~AppendSync(p) /\ ~Rollback(p)
          /\ ~SyncedAppend(p) /\ ~RemoveBlob(p)
    BY <1>1 DEF CutsOnly, Cuts, Freezes, AppendWrite, AppendSync, Rollback, SyncedAppend, Synced,
       RemoveBlob
  <2>2. WriteRecord(p) \/ SyncedOn(p) => op[p] = "Begin"
    BY <1>1 DEF WriteRecord, SyncedOn, Synced
  <2>3. CutsOn(p) \/ LastSync(p) \/ PruneClean(p) => op[p] = "Prune"
    BY <1>1 DEF CutsOn, Cuts, LastSync, PruneClean
  <2> QED BY <1>4, <2>1, <2>2, <2>3 DEF Filing, EarlyBegin, EarlyPrune
<1>5. CASE Publishing(p)
  BY <1>1, <1>5, Names DEF Publishing, Withdraws, LockDigest, Prepare, LinkShare, Publish, Receipts
<1> QED BY Cases, <1>2, <1>3, <1>4, <1>5

\* What a step leaves of them.
EarlyAct(p) ==
    /\ Empty' /\ rec'[p] \in {None, R0}
    /\ op'[p] \in {None, op[p], "Prune"}
    /\ op'[p] = "Prune" => pc'[p] \in EarlyPcs /\ (pc'[p] \in WorkPcs => rec'[p] = R0)

\* The bytes stay empty, and nobody else comes.
LEMMA EarlyProc ==
    ASSUME OsInv, ~begun, NEW p \in Proc, ProcStep(p)
    PROVE  EarlyAct(p)
<1> USE DEF upload, digest, procs, bounds, history, still, Continue, Goto
<1>0. /\ Empty /\ ProcTy
      /\ op[p] \in {None, "Begin", "Prune"}
      /\ op[p] = None => pc[p] = "idle"
      /\ op[p] = "Prune" => pc[p] \in EarlyPcs
      /\ rec[p] \in {None, R0} /\ (pc[p] \in WorkPcs => rec[p] = R0)
  BY EarlyWho
<1>n. dlock # p /\ R0.state = "active" /\ R0.sum = <<>> /\ Len(<<>>) = 0
  BY <1>0, Names, PrefixFacts DEF Empty
<1>l. Leave(p) => dlock' = None /\ rec'[p] = None /\ op'[p] = None
  BY <1>0, <1>n DEF Leave, ProcTy, Empty
<1>e. UNCHANGED <<data, synced, sum, acked, done, share, entry, dlock>> => Empty'
  BY <1>0 DEF Empty
<1>d. UNCHANGED <<data, synced, sum, acked, done, share, entry>> /\ Leave(p) => EarlyAct(p)
  BY <1>0, <1>l, Names DEF Empty, EarlyAct, Ops
<1>1. CASE Calls(p)
  BY <1>0, <1>1, <1>e DEF Calls, EarlyAct, ProcTy, EarlyPcs, WorkPcs
<1>2. CASE EarlyBegin(p)
  <2>0. op[p] = "Begin"
    BY <1>2 DEF EarlyBegin
  <2>1. CASE Returns(p) \/ RootSync(p)
    BY <1>d, <2>1 DEF Returns, RootSync
  <2>2. CASE Abandons(p) \/ Opens(p) \/ BeginMkdir(p) \/ MakesLock(p) \/ MakesBlob(p) \/ WriteRecord(p)
               \/ Removes(p)
    <3>1. UNCHANGED <<op, rec, data, synced, sum, acked, done, share, entry, dlock>>
      BY <2>2 DEF Abandons, Opens, BeginMkdir, MakesLock, MakesBlob, WriteRecord, Removes
    <3> QED BY <1>0, <1>e, <2>0, <3>1 DEF EarlyAct
  <2>3. CASE Starts(p)
    <3>1. UNCHANGED <<op, data, synced, sum, acked, done, share, entry, dlock>> /\ rec'[p] = R0
      BY <1>0, <2>3 DEF Starts, ProcTy
    <3> QED BY <1>0, <1>e, <2>0, <3>1 DEF EarlyAct
  <2>4. CASE SyncedOn(p)
    <3>1. rec[p] = R0
      BY <1>0, <2>4 DEF SyncedOn, Synced, WorkPcs
    <3>2. UNCHANGED <<op, rec, data, synced, sum, acked, done, share, entry, dlock>>
      BY <1>n, <2>4, <3>1 DEF SyncedOn, Synced
    <3> QED BY <1>0, <1>e, <2>0, <3>2 DEF EarlyAct
  <2>5. CASE RemovesLast(p)
    BY <1>d, <2>0, <2>5 DEF RemovesLast
  <2> QED BY <1>2, <2>1, <2>2, <2>3, <2>4, <2>5 DEF EarlyBegin
<1>3. CASE EarlyPrune(p)
  <2>0. op[p] = "Prune"
    BY <1>3 DEF EarlyPrune
  <2>1. CASE Returns(p) \/ RootSync(p)
    BY <1>d, <2>1 DEF Returns, RootSync
  <2>2. CASE Opens(p) \/ Orphans(p) \/ Holds(p) \/ Takes(p) \/ Removes(p) \/ RemovesLast(p) \/ PruneClean(p)
    <3>1. UNCHANGED <<op, rec, data, synced, sum, acked, done, share, entry, dlock>>
      BY <2>0, <2>2 DEF Opens, Orphans, Holds, Takes, Removes, RemovesLast, PruneClean
    <3>2. pc'[p] \in {"wait", "orphan", "orphanlock", "rm", "rootsync"}
            \/ (pc'[p] = "lastsync" /\ rec[p] = R0)
      BY <1>0, <2>0, <2>2 DEF Opens, Orphans, Holds, Takes, Removes, RemovesLast, PruneClean,
         ProcTy, WorkPcs
    <3> QED BY <1>0, <1>e, <2>0, <3>1, <3>2 DEF EarlyAct, EarlyPcs, WorkPcs
  <2>3. CASE Enters(p)
    <3>1. up.man = R0
      BY <2>3 DEF Enters, OsInv, Early
    <3>2. Entered("Prune", R0, First("Prune", R0))
      BY <2>0, <2>3, <3>1, EnterFacts, Names DEF Enters, Ops
    <3>3. First("Prune", R0) \in {"tail", "rm"}
      BY <1>n, <3>2 DEF Entered
    <3>4. UNCHANGED <<op, data, synced, sum, acked, done, share, entry, dlock>> /\ rec'[p] = R0
            /\ pc'[p] \in {"tail", "rm"}
      BY <1>0, <2>0, <2>3, <3>1, <3>3 DEF Enters, ProcTy
    <3> QED BY <1>e, <2>0, <3>4 DEF EarlyAct, EarlyPcs
  <2>4. CASE CutsOn(p)
    <3>1. pc[p] = "tail" /\ rec[p] = R0
      BY <1>0, <2>4 DEF CutsOn, Cuts, WorkPcs
    <3>2. data = <<>> /\ SubSeq(<<>>, 1, 0) = <<>>
      BY <1>0, Cut, PrefixFacts DEF Empty
    <3>3. data' = data /\ synced' = synced
      BY <1>n, <2>4, <3>1, <3>2 DEF CutsOn, Cuts
    <3>4. UNCHANGED <<op, rec, sum, acked, done, share, entry, dlock>> /\ pc'[p] = "clean"
      BY <1>0, <1>n, <2>0, <2>4, <3>1 DEF CutsOn, Cuts, ProcTy
    <3> QED BY <1>0, <1>e, <2>0, <3>1, <3>3, <3>4 DEF EarlyAct, EarlyPcs
  <2>5. CASE LastSync(p)
    BY <1>d, <1>n, <2>5 DEF LastSync
  <2> QED BY <1>3, <2>1, <2>2, <2>3, <2>4, <2>5 DEF EarlyPrune
<1> QED BY EarlyCases, <1>1, <1>2, <1>3

\* What a step leaves of the directory.
EarlyDir ==
    /\ DirTy' /\ older' \subseteq older \cup {up}
    /\ up'.pub = None /\ up'.man \in {None, R0} /\ (up'.lock = 2 => up'.man = None)

\* It stays empty.
LEMMA EarlyDirs ==
    ASSUME OsInv, ~begun, NEW p \in Proc, ProcStep(p)
    PROVE  EarlyDir /\ TwoInv'
<1> USE DEF upload, digest, procs, bounds, history, still, Continue, Goto
<1>0. ProcTy /\ DirTy /\ CtlInv(p)
  BY EarlyWho
<1>a. up.pub = None /\ up.man \in {None, R0} /\ (up.lock = 2 => up.man = None) /\ TwoInv
  BY DEF OsInv, Early, DirInv
<1>f. up.lock \in {None, 1, 2} /\ fl[p] \in {None, 1, 2}
  BY <1>0, Fields DEF DirTy, ProcTy
<1>k. OnlyMe(p)
  BY KeepsPlaces DEF Kept
<1>q. ASSUME fl'[p] \in {None, fl[p], up.lock}, up'.lock \in {None, 1, up.lock},
             up.man = None => up'.man = None
      PROVE TwoInv'
  <2>1. ASSUME up'.lock = 2 \/ \E q \in Proc : fl'[q] = 2 PROVE up.man = None
    <3>1. up.lock = 2 \/ \E q \in Proc : fl[q] = 2
      BY <1>q, <1>k, <2>1, Names DEF OnlyMe
    <3> QED BY <1>a, <3>1 DEF TwoInv
  <2> QED BY <1>q, <2>1 DEF TwoInv
<1>s. ASSUME Stays, fl'[p] \in {None, fl[p], up.lock} PROVE EarlyDir /\ TwoInv'
  BY <1>0, <1>a, <1>q, <1>s, PutTy DEF Stays, EarlyDir
<1>r. ASSUME Loses, fl'[p] \in {None, fl[p]} PROVE EarlyDir /\ TwoInv'
  <2>1. EarlyDir
    BY <1>0, <1>a, <1>r, PutTy, Names DEF Loses, EarlyDir
  <2>2. TwoInv'
    BY <1>q, <1>r DEF Loses
  <2> QED BY <2>1, <2>2
<1>l. Leave(p) => fl'[p] = None
  BY <1>0 DEF Leave, ProcTy
<1>1. CASE Calls(p) \/ Returns(p) \/ Abandons(p) \/ Opens(p) \/ Starts(p) \/ Orphans(p) \/ Enters(p)
             \/ Holds(p)
  <2>1. Stays
    BY <1>1 DEF Calls, Returns, Abandons, Opens, Starts, Orphans, Enters, Holds, Stays
  <2>2. fl'[p] \in {None, fl[p], up.lock}
    BY <1>0, <1>l, <1>1 DEF Calls, Returns, Abandons, Opens, Starts, Orphans, Enters, Holds, ProcTy
  <2> QED BY <1>s, <2>1, <2>2
<1>2. CASE RootSync(p) \/ SyncedOn(p) \/ CutsOn(p) \/ LastSync(p)
  <2>1. Stays
    BY <1>2 DEF RootSync, SyncedOn, Synced, SyncDir, CutsOn, Cuts, LastSync, Same, Stays
  <2>2. fl'[p] \in {None, fl[p]}
    BY <1>0, <1>l, <1>2 DEF RootSync, SyncedOn, CutsOn, LastSync, ProcTy
  <2> QED BY <1>s, <2>1, <2>2
<1>3. CASE Removes(p) \/ RemovesLast(p)
  <2>1. Loses
    BY <1>3, Removal
  <2>2. fl'[p] \in {None, fl[p]}
    BY <1>0, <1>l, <1>3 DEF Removes, RemovesLast, ProcTy
  <2> QED BY <1>r, <2>1, <2>2
<1>4. CASE BeginMkdir(p)
  <2>1. [NoDir EXCEPT !.dir = TRUE] \in Dirs
    BY DEF NoDir, Dirs
  <2>2. up' \in Dirs /\ up'.lock = None /\ up'.man = None /\ up'.pub = None /\ older' = older /\ fl' = fl
    BY <1>4, <2>1 DEF BeginMkdir, NoDir
  <2>3. EarlyDir
    BY <1>0, <2>2 DEF EarlyDir, DirTy
  <2>4. TwoInv'
    BY <2>2 DEF TwoInv
  <2> QED BY <2>3, <2>4
<1>5. CASE MakesLock(p) \/ MakesBlob(p)
  <2>1. Puts(1, up.blob, up.man, up.pub) \/ Puts(up.lock, TRUE, up.man, up.pub)
    BY <1>5, DirSteps
  <2>2. fl' = fl
    BY <1>5 DEF MakesLock, MakesBlob
  <2>3. DirTy' /\ up'.lock \in {1, up.lock} /\ up'.man = up.man /\ up'.pub = up.pub
          /\ older' = older \cup {up}
    BY <1>0, <2>1, PutTy DEF Puts
  <2>4. EarlyDir
    BY <1>a, <2>3 DEF EarlyDir
  <2>5. TwoInv'
    BY <1>q, <2>2, <2>3
  <2> QED BY <2>4, <2>5
<1>6. CASE Takes(p)
  <2>1. (up.lock # None /\ up' = up /\ older' = older) \/ (up.lock = None /\ Puts(2, up.blob, None, up.pub))
    BY <1>6, DirSteps
  <2>2. up.man = None
    BY <1>6 DEF Takes
  <2>3. DirTy' /\ up'.man = None /\ up'.pub = None /\ older' \subseteq older \cup {up}
    BY <1>0, <1>a, <2>1, <2>2, PutTy DEF Puts, Stays
  <2> QED BY <2>3 DEF EarlyDir, TwoInv
<1>7. CASE WriteRecord(p) /\ op[p] = "Begin"
  <2>1. Puts(up.lock, up.blob, rec[p], up.pub)
    BY <1>7, DirSteps
  <2>2. pc[p] = "rename" /\ p \notin late /\ fl' = fl
    BY <1>7 DEF WriteRecord
  <2>3. rec[p] = R0 /\ up.lock # 2 /\ \A q \in Proc : fl[q] # 2
    BY <1>7, <2>2, EarlyWho DEF Fresh
  <2>4. EarlyDir
    BY <1>0, <1>a, <2>1, <2>3, PutTy DEF EarlyDir, Puts
  <2>5. TwoInv'
    BY <2>1, <2>2, <2>3 DEF TwoInv, Puts
  <2> QED BY <2>4, <2>5
<1>8. CASE PruneClean(p)
  <2>1. Stays \/ \E b \in BOOLEAN : Puts(up.lock, b, up.man, None)
    BY <1>8, CleanStep
  <2>2. fl' = fl
    BY <1>8 DEF PruneClean
  <2>3. CASE Stays
    BY <1>s, <2>2, <2>3
  <2>4. CASE \E b \in BOOLEAN : Puts(up.lock, b, up.man, None)
    <3>1. EarlyDir
      BY <1>0, <1>a, <2>4, PutTy DEF EarlyDir, Puts
    <3>2. TwoInv'
      BY <1>q, <2>2, <2>4 DEF Puts
    <3> QED BY <3>1, <3>2
  <2> QED BY <2>1, <2>3, <2>4
<1> QED BY EarlyCases, <1>1, <1>2, <1>3, <1>4, <1>5, <1>6, <1>7, <1>8 DEF EarlyBegin, EarlyPrune

\* The first record is all there is in the directory.
Mine(b) ==
    /\ ~aged /\ up.lock # 2
    /\ \A q \in Proc : pc[q] \notin {"orphanlock", "rm"} /\ fl[q] # 2 /\ (q # b => q \notin holds)
    /\ up.dir <=> pc[b] # "mkdir"
    /\ pc[b] = "mkdir" => older = {}
    /\ pc[b] \in {"blobfile", "open", "wait", "rename", "sync", "rootsync"} => up.lock = 1
    /\ pc[b] \in {"open", "wait", "rename", "sync", "rootsync"} => up.blob
    /\ up.man = IF pc[b] \in {"sync", "rootsync"} THEN R0 ELSE None
    /\ pc[b] = "rootsync" => older = {}

\* PruneStages leaves a Begin in time alone.
LEMMA FreshOther ==
    ASSUME OsInv, ~begun, NEW p \in Proc, ProcStep(p), NEW b \in Proc, b # p, op[b] = "Begin", ~begun'
    PROVE  Fresh(b)'
<1> USE DEF upload, digest, procs, bounds, history, still, Continue, Goto
<1>0. Fresh(b) /\ CtlInv(b) /\ ProcTy /\ CtlInv(p) /\ DirTy
  BY EarlyWho
<1>1. OnlyMe(p)
  BY KeepsPlaces DEF Kept
<1>2. op[p] # "Begin"
  BY DEF OsInv, Early
<1>3. op'[b] = op[b] /\ pc'[b] = pc[b] /\ fl'[b] = fl[b] /\ rec'[b] = rec[b]
        /\ (b \in holds' <=> b \in holds) /\ (b \in late' <=> b \in late)
  BY <1>1 DEF OnlyMe
<1>4. CASE b \in late \/ pc[b] = "rm"
  BY <1>0, <1>3, <1>4 DEF Fresh
<1>5. CASE b \notin late /\ pc[b] # "rm"
  <2>1. Mine(b)
    BY <1>0, <1>5 DEF Fresh, Mine
  <2>2. p \notin holds /\ ~aged /\ pc[p] \notin {"orphanlock", "rm"} /\ fl[p] # 2
    BY <2>1 DEF Mine
  <2>3. ~Locked(op[p], pc[p])
    BY <1>0, <2>2 DEF CtlInv
  <2>4. ~Enters(p)
    <3> SUFFICES ASSUME Enters(p) PROVE FALSE
      OBVIOUS
    <3>1. up.man # None /\ pc[p] = "wait" /\ Unlocked(fl[p])
      BY DEF Enters
    <3>2. pc[b] \in {"sync", "rootsync"}
      BY <2>1, <3>1 DEF Mine
    <3>3. b \in holds /\ fl[b] = 1
      BY <1>0, <2>1, <3>2, Names DEF CtlInv, Locked, WorkPcs, Mine, ProcTy
    <3>4. fl[p] = 1
      BY <1>0, <2>2, <3>1 DEF CtlInv, ProcTy
    <3> QED BY <3>1, <3>3, <3>4 DEF Unlocked
  <2>5. Returns(p) \/ Opens(p) \/ Orphans(p) \/ Calls(p)
    <3>1. EarlyPrune(p) \/ Calls(p)
      BY <1>2, EarlyCases DEF EarlyBegin
    <3>2. ~Holds(p) /\ ~Takes(p) /\ ~Removes(p) /\ ~RemovesLast(p)
      BY <2>2 DEF Holds, Takes, Removes, RemovesLast
    <3>3. ~CutsOn(p) /\ ~LastSync(p) /\ ~PruneClean(p) /\ ~RootSync(p)
      BY <2>3 DEF Locked, WorkPcs, CutsOn, Cuts, LastSync, PruneClean, RootSync
    <3> QED BY <2>4, <3>1, <3>2, <3>3 DEF EarlyPrune
  <2>6. UNCHANGED <<up, older, aged>> /\ p \notin holds'
    BY <2>2, <2>5 DEF Returns, Leave, Opens, Orphans, Calls
  <2>7. pc'[p] \in {"idle", "wait", "orphan", "open"} /\ fl'[p] \in {None, fl[p], up.lock}
    BY <1>0, <2>5 DEF Returns, Leave, Opens, Orphans, Calls, ProcTy
  <2>8. \A q \in Proc : pc'[q] \notin {"orphanlock", "rm"} /\ fl'[q] # 2 /\ (q # b => q \notin holds')
    BY <1>1, <2>1, <2>2, <2>6, <2>7, Names DEF Mine, OnlyMe
  <2>9. Mine(b)'
    BY <1>3, <2>1, <2>6, <2>8 DEF Mine
  <2> QED BY <1>0, <1>3, <2>9 DEF Fresh, Mine
<1> QED BY <1>4, <1>5

\* A Begin keeps what it has made.
LEMMA FreshOwn ==
    ASSUME OsInv, ~begun, NEW p \in Proc, ProcStep(p), op[p] = "Begin", op'[p] = "Begin", ~begun'
    PROVE  Fresh(p)'
<1> USE DEF upload, digest, procs, bounds, history, still, Continue, Goto
<1>0. Fresh(p) /\ CtlInv(p) /\ ProcTy /\ DirTy /\ pc[p] \in BeginPcs
  BY EarlyWho
<1>1. OnlyMe(p) /\ EarlyBegin(p)
  BY <1>0, KeepsPlaces, EarlyCases DEF Kept, Calls, EarlyPrune, BeginPcs
<1>2. ~Leave(p)
  BY <1>0, Names DEF Leave, ProcTy, Ops
<1>3. p \notin late /\ pc[p] # "rm" => Mine(p)
  BY <1>0 DEF Fresh, Mine
<1>m. ASSUME late' = late \/ p \in late', p \in late' => pc'[p] \notin {"mkdir", "sync", "rootsync"},
             pc'[p] \in {"rename", "sync"} => rec'[p] = R0, p \notin late' /\ pc'[p] # "rm" => Mine(p)'
      PROVE  Fresh(p)'
  BY <1>m DEF Fresh, Mine
<1>o. ASSUME Mine(p), pc'[p] \notin {"orphanlock", "rm"}, fl'[p] \in {None, 1, fl[p]}
      PROVE  \A q \in Proc : pc'[q] \notin {"orphanlock", "rm"} /\ fl'[q] # 2 /\ (q # p => q \notin holds')
  BY <1>1, <1>o, Names DEF Mine, OnlyMe
<1>4. CASE Abandons(p) \/ Removes(p)
  <2>1. pc'[p] = "rm" /\ late' = late
    BY <1>0, <1>4 DEF Abandons, Removes, ProcTy
  <2> QED BY <1>m, <2>1
<1>5. CASE Opens(p)
  <2>1. pc[p] = "open" /\ pc'[p] = "wait" /\ fl'[p] = up.lock /\ UNCHANGED <<up, older, aged, late, rec>>
    BY <1>0, <1>5 DEF Opens, ProcTy
  <2>2. ASSUME Mine(p) PROVE Mine(p)'
    <3>1. up.lock = 1
      BY <2>1, <2>2 DEF Mine
    <3> QED BY <1>o, <2>1, <2>2, <3>1 DEF Mine
  <2> QED BY <1>3, <1>m, <2>1, <2>2
<1>6. CASE BeginMkdir(p)
  <2>1. pc[p] = "mkdir" /\ pc'[p] = "lockfile" /\ UNCHANGED <<older, aged, late, rec, fl>>
          /\ up' = [NoDir EXCEPT !.dir = TRUE]
    BY <1>0, <1>6 DEF BeginMkdir, ProcTy
  <2>2. up'.dir /\ up'.lock = None /\ up'.man = None
    BY <2>1 DEF NoDir
  <2>3. ASSUME Mine(p) PROVE Mine(p)'
    BY <1>o, <2>1, <2>2, <2>3, Names DEF Mine
  <2> QED BY <1>3, <1>m, <2>1, <2>3
<1>7. CASE MakesLock(p)
  <2>1. pc[p] = "lockfile" /\ pc'[p] = "blobfile" /\ UNCHANGED <<late, rec, fl>> /\ aged' = FALSE
    BY <1>0, <1>7 DEF MakesLock, Change, ProcTy
  <2>2. up' \in Dirs /\ up'.lock = 1 /\ up'.man = up.man
    BY <1>7, DirSteps DEF Puts
  <2>3. ASSUME Mine(p) PROVE Mine(p)'
    BY <1>o, <2>1, <2>2, <2>3, Fields DEF Mine
  <2> QED BY <1>3, <1>m, <2>1, <2>3
<1>8. CASE MakesBlob(p)
  <2>1. pc[p] = "blobfile" /\ pc'[p] = "open" /\ UNCHANGED <<late, rec, fl>> /\ aged' = FALSE
    BY <1>0, <1>8 DEF MakesBlob, Change, ProcTy
  <2>2. up' \in Dirs /\ up'.lock = up.lock /\ up'.blob = TRUE /\ up'.man = up.man
    BY <1>8, DirSteps DEF Puts
  <2>3. ASSUME Mine(p) PROVE Mine(p)'
    BY <1>o, <2>1, <2>2, <2>3, Fields DEF Mine
  <2> QED BY <1>3, <1>m, <2>1, <2>3
<1>9. CASE Starts(p)
  <2>1. pc[p] = "wait" /\ pc'[p] = "rename" /\ UNCHANGED <<up, older, aged, late, fl>> /\ rec'[p] = R0
    BY <1>0, <1>9 DEF Starts, ProcTy
  <2>2. ASSUME Mine(p) PROVE Mine(p)'
    BY <1>o, <2>1, <2>2 DEF Mine
  <2> QED BY <1>3, <1>m, <2>1, <2>2
<1>10. CASE WriteRecord(p)
  <2>1. pc[p] = "rename" /\ pc'[p] = "sync" /\ UNCHANGED <<late, rec, fl>> /\ aged' = FALSE /\ p \notin late
    BY <1>0, <1>10 DEF WriteRecord, Change, ProcTy
  <2>2. rec[p] = R0
    BY <1>0, <2>1 DEF Fresh
  <2>3. up' \in Dirs /\ up'.lock = up.lock /\ up'.blob = up.blob /\ up'.man = R0
    BY <1>10, <2>2, DirSteps DEF Puts
  <2>4. Mine(p)
    BY <1>3, <2>1
  <2>5. Mine(p)'
    BY <1>o, <2>1, <2>3, <2>4, Fields DEF Mine
  <2> QED BY <1>m, <2>1, <2>2, <2>5
<1>11. CASE SyncedOn(p)
  <2>1. pc[p] = "sync" /\ UNCHANGED <<late, rec, fl, up, aged>> /\ older' = {}
    BY <1>11 DEF SyncedOn, Synced, SyncDir
  <2>2. rec[p] = R0 /\ p \notin late
    BY <1>0, <2>1 DEF Fresh
  <2>3. pc'[p] = "rootsync"
    BY <1>0, <1>11, <2>2, Names DEF SyncedOn, ProcTy
  <2>4. Mine(p)
    BY <1>3, <2>1, <2>2
  <2>5. Mine(p)'
    BY <1>o, <2>1, <2>3, <2>4 DEF Mine
  <2> QED BY <1>m, <2>1, <2>2, <2>3, <2>5
<1>12. ~Returns(p) /\ ~RootSync(p) /\ ~RemovesLast(p)
  BY <1>2 DEF Returns, RootSync, RemovesLast
<1> QED BY <1>1, <1>4, <1>5, <1>6, <1>7, <1>8, <1>9, <1>10, <1>11, <1>12 DEF EarlyBegin

\* The places of the others stay as they are.
LEMMA Elsewhere ==
    ASSUME OsInv, NEW p \in Proc, Kept(p)
    PROVE  \A q \in Proc : CtlInv(q)'
<1>1. ASSUME NEW q \in Proc \ {p} PROVE CtlInv(q)'
  <2>1. CtlInv(q)
    BY DEF OsInv
  <2> QED BY <2>1 DEF Kept, OnlyMe, CtlInv
<1> QED BY <1>1 DEF Kept

\* The second lock file comes without a record.
Lone == \A d \in older \cup {up} : d.lock = 2 => d.man = None

\* What the directories of a stage hold.
Orderly == (\A d \in older \cup {up} : DirInv(d)) /\ (\A d \in older : OrderInv(d)) /\ LinkInv

\* An empty stage is in order.
LEMMA EmptyOrder ==
    Early /\ ~begun /\ Lone => Orderly
<1> SUFFICES ASSUME Early, ~begun, Lone, NEW d \in older \cup {up} PROVE DirInv(d) /\ OrderInv(d) /\ LinkInv
  BY DEF Orderly
<1>0. /\ data = <<>> /\ synced = 0 /\ acked = <<>> /\ ~done /\ share # "mine" /\ entry # "mine"
      /\ d.pub = None /\ d.man \in {None, R0} /\ up.man \in {None, R0}
  BY DEF Early
<1>1. IsPrefix(<<>>, <<>>) /\ Len(<<>>) = 0 /\ R0.state = "active" /\ R0.sum = <<>> /\ None # "mine"
  BY PrefixFacts, Names DEF Whose
<1>2. DirInv(d)
  BY <1>0, <1>1 DEF DirInv, Lone
<1>3. OrderInv(d) /\ LinkInv
  BY <1>0, <1>1 DEF OrderInv, LinkInv
<1> QED BY <1>2, <1>3

\* The types of bytes and links before Begin has returned.
LEMMA EmptyTy ==
    Empty => ByteTy
  BY PrefixFacts DEF Empty, ByteTy

\* The flags stay flags.
LEMMA KeepsFlags ==
    ASSUME OsInv, NEW p \in Proc, ProcStep(p)
    PROVE  FlagTy'
<1> USE DEF upload, digest, procs, bounds, history, still
<1>0. FlagTy
  BY TypeGroups DEF OsInv
<1>1. /\ rooted \in BOOLEAN /\ expired \in BOOLEAN /\ aged \in BOOLEAN /\ orphan \in BOOLEAN
        /\ solid \in BOOLEAN
      /\ begun \in BOOLEAN /\ done \in BOOLEAN /\ erased \in BOOLEAN /\ pruned \in BOOLEAN
  BY <1>0 DEF FlagTy
<1> USE <1>1 DEF FlagTy, Change, Same, SyncDir
<1>2. CASE Moving(p)
  BY <1>2 DEF Moving, Returns, Abandons, Undoes, Calls, Opens, Orphans, Starts, Enters, Holds
<1>3. CASE BeginMkdir(p) \/ MakesLock(p) \/ MakesBlob(p) \/ RootSync(p) \/ Takes(p)
  BY <1>3 DEF BeginMkdir, MakesLock, MakesBlob, RootSync, Takes
<1>4. CASE Removes(p) \/ RemovesLast(p)
  BY <1>4 DEF Removes, RemovesLast
<1>5. CASE CutsOnly(p) \/ CutsOn(p) \/ Freezes(p) \/ AppendWrite(p) \/ AppendSync(p) \/ Rollback(p)
  BY <1>5 DEF CutsOnly, CutsOn, Freezes, Cuts, AppendWrite, AppendSync, Rollback
<1>6. CASE WriteRecord(p) \/ SyncedAppend(p) \/ SyncedOn(p) \/ RemoveBlob(p) \/ LastSync(p) \/ PruneClean(p)
  BY <1>6 DEF WriteRecord, SyncedAppend, SyncedOn, Synced, RemoveBlob, LastSync, PruneClean
<1>7. CASE Publishing(p)
  BY <1>7 DEF Publishing, Withdraws, LockDigest, Prepare, LinkShare, Publish, Receipts
<1> QED BY Cases, <1>2, <1>3, <1>4, <1>5, <1>6, <1>7 DEF Making, Filing

\* Until Begin returns, every step keeps the invariant.
LEMMA EarlyNext ==
    ASSUME OsInv, ~begun, NEW p \in Proc, ProcStep(p), BoundTy', ~begun'
    PROVE  OsInv'
<1>1. Kept(p) /\ FlagTy' /\ EarlyAct(p) /\ EarlyDir /\ TwoInv'
  BY KeepsPlaces, KeepsFlags, EarlyProc, EarlyDirs
<1>2. Early /\ DigestTy /\ TypeOK
  BY TypeGroups DEF OsInv
<1>3. OnlyMe(p) /\ Empty' /\ ByteTy'
  BY <1>1, EmptyTy, PTL DEF Kept, EarlyAct
<1>4. DigestTy'
  <2>1. {share', entry'} \subseteq Whose \cup {None}
    <3> USE DEF upload, digest, procs, bounds, history, still
    <3>1. UNCHANGED <<share, entry>>
      BY EarlyCases DEF EarlyBegin, EarlyPrune, Returns, Abandons, Opens, BeginMkdir, MakesLock,
         MakesBlob, Starts,
         WriteRecord, SyncedOn, Synced, RootSync, Removes, RemovesLast, Orphans, Enters, Holds, Takes,
         CutsOn, Cuts,
         LastSync, PruneClean, Calls
    <3> QED BY <1>2, <3>1 DEF DigestTy
  <2> QED BY <1>3, <2>1 DEF DigestTy, Empty
<1>5. TypeOK'
  <2>1. DirTy' /\ ProcTy' /\ HoldTy'
    BY <1>1 DEF EarlyDir, Kept
  <2>2. (DirTy /\ FlagTy /\ ByteTy /\ DigestTy /\ ProcTy /\ BoundTy /\ HoldTy)' => TypeOK'
    BY TypeGroups, PTL
  <2> QED BY <1>1, <1>3, <1>4, <2>1, <2>2
<1>6. Early'
  <2>1. \A d \in older' \cup {up'} : d.pub = None /\ d.man \in {None, R0}
    BY <1>1, <1>2 DEF EarlyDir, Early
  <2>2. ASSUME NEW q \in Proc
        PROVE  /\ op'[q] \in {None, "Begin", "Prune"} /\ rec'[q] \in {None, R0}
               /\ op'[q] = "Prune" => pc'[q] \notin CommitPcs \cup {"rename", "sync", "dlock", "rmblob"}
               /\ op'[q] = "Prune" /\ pc'[q] \in WorkPcs => rec'[q] = R0
               /\ op'[q] = "Begin" => op[q] = "Begin"
    <3>1. CASE q = p
      <4>1. op[p] \in {None, "Begin", "Prune"}
        BY <1>2 DEF Early
      <4> QED BY <1>1, <3>1, <4>1, Names DEF EarlyAct, EarlyPcs, CommitPcs, Ops
    <3>2. CASE q # p
      BY <1>2, <1>3, <3>2 DEF OnlyMe, Early
    <3> QED BY <3>1, <3>2
  <2>3. \A q, r \in Proc : op'[q] = "Begin" /\ op'[r] = "Begin" => q = r
    BY <1>2, <2>2 DEF Early
  <2> QED BY <1>3, <2>1, <2>2, <2>3 DEF Early, Empty
<1>7. ASSUME NEW b \in Proc, op'[b] = "Begin" PROVE Fresh(b)'
  <2>1. op[b] = "Begin"
    <3>1. b = p => op[b] \in {None, "Begin", "Prune"}
      BY <1>2 DEF Early
    <3> QED BY <1>1, <1>3, <1>7, <3>1, Names DEF OnlyMe, EarlyAct, Ops
  <2> QED BY <1>7, <2>1, FreshOwn, FreshOther
<1>8. Lone'
  BY <1>1 DEF EarlyDir, OsInv, DirInv, Lone
<1>9. Orderly'
  BY <1>6, <1>8, EmptyOrder, PTL
<1>10. \A q \in Proc : CtlInv(q)'
  BY <1>1, Elsewhere
<1> QED BY <1>1, <1>5, <1>6, <1>7, <1>9, <1>10 DEF OsInv, Begun, Orderly

\* Begin returns with the stage on disk, and nobody at work on it.
LEMMA Begins ==
    ASSUME OsInv, ~begun, NEW p \in Proc, ProcStep(p), BoundTy', begun'
    PROVE  OsInv'
<1> USE DEF upload, digest, procs, bounds, history, still
<1>1. RootSync(p) /\ op[p] = "Begin"
  <2>1. begun' = begun \/ (RootSync(p) /\ op[p] = "Begin")
    BY EarlyCases DEF EarlyBegin, EarlyPrune, Returns, Abandons, Opens, BeginMkdir, MakesLock,
       MakesBlob, Starts,
       WriteRecord, SyncedOn, Synced, RootSync, Removes, RemovesLast, Orphans, Enters, Holds, Takes,
       CutsOn, Cuts,
       LastSync, PruneClean, Calls
  <2> QED BY <2>1
<1>2. pc[p] = "rootsync" /\ rooted' = TRUE /\ older' = older /\ UNCHANGED <<up, share, entry>> /\ Leave(p)
  BY <1>1, Names DEF RootSync, Ops
<1>3. Fresh(p) /\ Early /\ DigestTy
  BY <1>1, TypeGroups DEF OsInv
<1>4. Mine(p)
  BY <1>2, <1>3 DEF Fresh, Mine
<1>5. up.lock = 1 /\ up.blob /\ up.man = R0 /\ up.pub = None /\ older = {}
  BY <1>2, <1>3, <1>4 DEF Mine, Early
<1>6. Kept(p) /\ FlagTy' /\ Empty' /\ DirTy' /\ TwoInv'
  BY KeepsPlaces, KeepsFlags, EarlyProc, EarlyDirs DEF EarlyAct, EarlyDir
<1>7. pc'[p] = "idle" /\ op'[p] = None /\ OnlyMe(p)
  BY <1>2, <1>6, Leaves DEF Kept, OsInv
<1>8. TypeOK'
  <2>1. ByteTy'
    BY <1>6, EmptyTy, PTL
  <2>2. DigestTy'
    BY <1>2, <1>3, <1>6 DEF DigestTy, Empty
  <2>3. (DirTy /\ FlagTy /\ ByteTy /\ DigestTy /\ ProcTy /\ BoundTy /\ HoldTy)' => TypeOK'
    BY TypeGroups, PTL
  <2> QED BY <1>6, <2>1, <2>2, <2>3 DEF Kept
<1>9. ASSUME NEW q \in Proc PROVE op'[q] # "Begin" /\ pc'[q] \notin WorkPcs \cup {"orphanlock", "rm"}
  <2>1. CASE q = p
    BY <1>7, <2>1, Names DEF Ops, WorkPcs
  <2>2. CASE q # p
    <3>1. op'[q] = op[q] /\ pc'[q] = pc[q] /\ q \notin holds /\ pc[q] \notin {"orphanlock", "rm"}
      BY <1>4, <1>7, <2>2 DEF OnlyMe, Mine
    <3>2. op[q] # "Begin"
      BY <1>1, <1>3, <2>2 DEF Early
    <3>3. pc[q] \notin WorkPcs
      BY <3>1 DEF OsInv, CtlInv, Locked
    <3> QED BY <3>1, <3>2, <3>3
  <2> QED BY <2>1, <2>2
<1>10. Begun'
  BY <1>2, <1>9 DEF Begun
<1>11. DirInv(up)'
  <2>1. IsPrefix(<<>>, <<>>) /\ Len(<<>>) = 0 /\ R0.state = "active" /\ R0.sum = <<>> /\ None # "mine"
          /\ None # 1 /\ R0 # None
    BY PrefixFacts, Names DEF Whose
  <2>2. up'.lock = 1 /\ up'.blob /\ up'.man = R0 /\ up'.pub = None
    BY <1>2, <1>5
  <2> QED BY <1>6, <2>1, <2>2 DEF DirInv, Empty
<1>12. LinkInv'
  BY <1>6 DEF Empty, LinkInv
<1>13. \A q \in Proc : CtlInv(q)'
  BY <1>6, Elsewhere
<1>14. older' = {}
  BY <1>2, <1>5
<1> QED BY <1>6, <1>8, <1>9, <1>10, <1>11, <1>12, <1>13, <1>14 DEF OsInv
-----------------------------------------------------------------------------
(* Once it has returned: who is alone at work, and what the others see.    *)

\* Who works on the stage has its lock for himself.
LEMMA Exclusive ==
    ASSUME OsInv, begun, NEW p \in Proc, pc[p] \in WorkPcs, NEW q \in holds
    PROVE  q = p
<1>1. p \in holds /\ RecInv(p)
  BY Working DEF WorkInv
<1>2. TwoInv /\ ProcTy /\ HoldTy /\ CtlInv(q) /\ q \in Proc
  BY TypeGroups DEF OsInv, ProcTy
<1>3. fl[q] # None /\ fl[q] # 2
  BY <1>1, <1>2 DEF CtlInv, RecInv, TwoInv
<1>4. fl[q] = 1 /\ fl[p] = 1
  BY <1>1, <1>2, <1>3 DEF RecInv, ProcTy
<1> QED BY <1>1, <1>2, <1>4 DEF HoldTy

\* A call that works on the stage after Begin has returned.
LEMMA AtWork ==
    ASSUME OsInv, begun, NEW p \in Proc, pc[p] \in WorkPcs
    PROVE  /\ RecInv(p) /\ AppendInv(p) /\ NextInv(p) /\ CtlInv(p) /\ p \in holds
           /\ rec[p] \in Records /\ up.man \in Records /\ up \in Dirs /\ DirInv(up)
           /\ op[p] \in {"Stat", "Append", "Commit", "Abort", "Prune"}
           /\ \A q \in Proc \ {p} : pc[q] \notin WorkPcs /\ q \notin holds
                /\ (op[q] = "Prune" => pc[q] # "rm")
<1>1. p \in holds /\ rec[p] \in Records /\ RecInv(p) /\ AppendInv(p) /\ NextInv(p) /\ op[p] # None
  BY Working DEF WorkInv
<1>2. DirTy /\ ProcTy /\ DirInv(up) /\ CtlInv(p) /\ op[p] # "Begin"
  BY TypeGroups DEF OsInv, Begun
<1>3. up.man \in Records /\ up \in Dirs
  BY <1>1, <1>2, Fields, Present DEF RecInv, DirTy
<1>4. op[p] \in {"Stat", "Append", "Commit", "Abort", "Prune"}
  BY <1>1, <1>2 DEF ProcTy, Ops
<1>5. ASSUME NEW q \in Proc \ {p} PROVE pc[q] \notin WorkPcs /\ q \notin holds
               /\ (op[q] = "Prune" => pc[q] # "rm")
  <2>1. q \notin holds
    BY Exclusive
  <2> QED BY <2>1 DEF OsInv, CtlInv, Locked
<1> QED BY <1>1, <1>2, <1>3, <1>4, <1>5

\* What the invariant says after Begin has returned, of a step that keeps the processes
\* in their places.
Later ==
    /\ DirTy /\ ByteTy /\ DigestTy /\ TwoInv /\ Orderly
    /\ ~pruned => \A p \in Proc : pc[p] # "orphanlock" /\ (pc[p] = "rm" => expired)
    /\ \A p \in Proc : pc[p] \in WorkPcs => WorkInv(p)

\* That is enough.
LEMMA LaterNext ==
    ASSUME OsInv, begun, NEW p \in Proc, ProcStep(p), BoundTy', Later'
    PROVE  OsInv'
<1> USE DEF upload, digest, procs, bounds, history, still
<1>1. Kept(p) /\ FlagTy' /\ Begun /\ FlagTy
  BY KeepsPlaces, KeepsFlags, TypeGroups DEF OsInv
<1>2. begun' /\ rooted'
  <2>1. begun /\ rooted
    BY <1>1 DEF Begun
  <2>2. CASE Moving(p)
    BY <2>1, <2>2 DEF Moving, Returns, Abandons, Undoes, Calls, Opens, Orphans, Starts, Enters,
       Holds
  <2>3. CASE Making(p)
    BY <2>1, <2>3 DEF Making, BeginMkdir, MakesLock, MakesBlob, RootSync, Takes, Removes,
       RemovesLast
  <2>4. CASE Filing(p)
    BY <2>1, <2>4 DEF Filing, CutsOnly, CutsOn, Freezes, Cuts, AppendWrite, AppendSync, Rollback,
       WriteRecord,
       SyncedAppend, SyncedOn, Synced, RemoveBlob, LastSync, PruneClean
  <2>5. CASE Publishing(p)
    BY <2>1, <2>5 DEF Publishing, Withdraws, LockDigest, Prepare, LinkShare, Publish, Receipts
  <2> QED BY Cases, <2>2, <2>3, <2>4, <2>5
<1>3. \A q \in Proc : op'[q] # "Begin"
  <2>1. op[p] # "Begin" /\ op[p] \in Ops \cup {None}
    BY <1>1, TypeGroups DEF Begun, OsInv, ProcTy
  <2>2. op'[p] # "Begin"
    <3>1. op' = op \/ op'[p] = None \/ Calls(p)
      <4>l. Leave(p) => op'[p] = None
        BY TypeGroups DEF Leave, OsInv, ProcTy
      <4>1. CASE Moving(p)
        BY <4>l, <4>1 DEF Moving, Returns, Abandons, Undoes, Opens, Orphans, Starts, Enters,
           Holds, Continue
      <4>2. CASE Making(p)
        BY <4>l, <4>2 DEF Making, BeginMkdir, MakesLock, MakesBlob, RootSync, Takes, Removes,
           RemovesLast, Continue
      <4>3. CASE Filing(p)
        BY <4>l, <4>3 DEF Filing, CutsOnly, CutsOn, Freezes, Cuts, AppendWrite, AppendSync,
           Rollback, WriteRecord,
           SyncedAppend, SyncedOn, Synced, RemoveBlob, LastSync, PruneClean, Continue
      <4>4. CASE Publishing(p)
        BY <4>l, <4>4 DEF Publishing, Withdraws, LockDigest, Prepare, LinkShare, Publish,
           Receipts, Continue
      <4> QED BY Cases, <4>1, <4>2, <4>3, <4>4
    <3>2. Calls(p) => op'[p] # "Begin"
      BY TypeGroups DEF Calls, OsInv, ProcTy
    <3> QED BY <2>1, <3>1, <3>2, Names DEF Ops
  <2> QED BY <1>1, <2>2 DEF Kept, OnlyMe, Begun
<1>4. TypeOK'
  <2>1. (DirTy /\ FlagTy /\ ByteTy /\ DigestTy /\ ProcTy /\ BoundTy /\ HoldTy)' => TypeOK'
    BY TypeGroups, PTL
  <2> QED BY <1>1, <2>1 DEF Kept, Later
<1>5. \A q \in Proc : CtlInv(q)'
  BY <1>1, Elsewhere
<1>6. Begun'
  BY <1>2, <1>3 DEF Begun, Later
<1> QED BY <1>2, <1>3, <1>4, <1>5, <1>6 DEF OsInv, Later, Orderly

\* A directory stays in order when the bytes do, and the entry for those that have a
\* receipt.
LEMMA DirKeeps ==
    ASSUME NEW d, DirInv(d), UNCHANGED <<data, synced, sum, acked, done, begun>>, pruned => pruned',
           d.man # None /\ d.man.state = "committed" /\ ~erased' => entry' # None /\ solid'
    PROVE  DirInv(d)'
  BY DEF DirInv, Frozen

\* What a process knows stays true when nothing it knows of changes.
LEMMA WorkFrame ==
    ASSUME NEW p \in Proc, OnlyMe(p), UNCHANGED <<up, data, synced, sum, share, entry, solid, erased>>,
           NEW q \in Proc \ {p}, WorkInv(q)
    PROVE  WorkInv(q)'
<1>0. op'[q] = op[q] /\ pc'[q] = pc[q] /\ fl'[q] = fl[q] /\ rec'[q] = rec[q] /\ (dlock' = q <=> dlock = q)
  BY DEF OnlyMe
<1>1. RecInv(q)'
  BY <1>0 DEF WorkInv, RecInv
<1>2. AppendInv(q)'
  BY <1>0 DEF WorkInv, AppendInv, Alone
<1>3. NextInv(q)'
  BY <1>0 DEF WorkInv, NextInv
<1> QED BY <1>1, <1>2, <1>3 DEF WorkInv

\* A step that changes nothing of the stage or the digest.
LEMMA QuietStep ==
    ASSUME OsInv, begun, NEW p \in Proc, Kept(p), DirTy', ByteTy', DigestTy',
           up' = up, older' \subseteq older, fl'[p] \in {None, fl[p], up.lock},
           UNCHANGED <<data, synced, sum, acked, done, begun, share, entry, solid, erased, pruned, expired>>,
           ~pruned => pc'[p] # "orphanlock" /\ (pc'[p] = "rm" => expired),
           pc'[p] \in WorkPcs => WorkInv(p)'
    PROVE  Later'
<1>0. OnlyMe(p) /\ TwoInv /\ Begun /\ Orderly
  BY DEF Kept, OsInv, Orderly
<1>1. TwoInv'
  <2>1. ASSUME up'.lock = 2 \/ \E q \in Proc : fl'[q] = 2 PROVE up.lock = 2 \/ \E q \in Proc : fl[q] = 2
    BY <1>0, <2>1, Names DEF OnlyMe
  <2> QED BY <1>0, <2>1 DEF TwoInv
<1>2. Orderly'
  <2>1. ASSUME NEW d \in older \cup {up} PROVE DirInv(d)'
    <3>1. DirInv(d)
      BY <1>0 DEF Orderly
    <3> QED BY <3>1, DirKeeps DEF DirInv
  <2>2. \A d \in older' : OrderInv(d)'
    BY <1>0 DEF Orderly, OrderInv
  <2>3. LinkInv'
    BY <1>0 DEF Orderly, LinkInv, Frozen
  <2> QED BY <2>1, <2>2, <2>3 DEF Orderly
<1>3. ~pruned' => \A q \in Proc : pc'[q] # "orphanlock" /\ (pc'[q] = "rm" => expired')
  BY <1>0 DEF Begun, OnlyMe
<1>4. ASSUME NEW q \in Proc, pc'[q] \in WorkPcs PROVE WorkInv(q)'
  <2>1. CASE q = p
    BY <1>4, <2>1
  <2>2. CASE q # p
    <3>1. WorkInv(q)
      BY <1>0, <1>4, <2>2 DEF OnlyMe, OsInv
    <3> QED BY <1>0, <2>2, <3>1, WorkFrame
  <2> QED BY <2>1, <2>2
<1> QED BY <1>1, <1>2, <1>3, <1>4 DEF Later

\* A step of who works on the stage.
LEMMA WorkStep ==
    ASSUME OsInv, begun, NEW p \in Proc, Kept(p), pc[p] \in WorkPcs, DirTy', ByteTy', DigestTy', Orderly',
           up'.lock = up.lock, fl'[p] \in {None, fl[p]}, pruned' = pruned,
           pc'[p] # "orphanlock", pc'[p] = "rm" => expired',
           pc'[p] \in WorkPcs => WorkInv(p)'
    PROVE  Later'
<1>0. OnlyMe(p) /\ TwoInv /\ Begun
  BY DEF Kept, OsInv
<1>1. RecInv(p) /\ \A q \in Proc \ {p} : pc[q] \notin WorkPcs /\ (op[q] = "Prune" => pc[q] # "rm")
  BY AtWork
<1>2. up.lock # 2 /\ \A q \in Proc : fl[q] # 2
  BY <1>0, <1>1 DEF TwoInv, RecInv
<1>3. TwoInv'
  BY <1>0, <1>2, Names DEF TwoInv, OnlyMe
<1>4. ASSUME NEW q \in Proc \ {p} PROVE pc[q] # "rm"
  <2>1. CtlInv(q) /\ ProcTy /\ op[q] # "Begin"
    BY <1>0, TypeGroups DEF OsInv, Begun
  <2>2. pc[q] = "rm" => op[q] = "Prune"
    BY <2>1 DEF CtlInv, Place, ProcTy, Ops, AppendPcs, RecoverPcs, CommitPcs
  <2> QED BY <1>1, <2>2
<1>5. ~pruned' => \A q \in Proc : pc'[q] # "orphanlock" /\ (pc'[q] = "rm" => expired')
  BY <1>0, <1>4 DEF Begun, OnlyMe
<1>6. ASSUME NEW q \in Proc, pc'[q] \in WorkPcs PROVE WorkInv(q)'
  BY <1>0, <1>1, <1>6 DEF OnlyMe
<1> QED BY <1>3, <1>5, <1>6 DEF Later

\* While a stage is active its bytes may change behind the record, as nothing links them.
LEMMA ActiveOrder ==
    ASSUME OsInv, begun, ByteTy', up' = up, older' \subseteq older, up.man # None,
           up.man.state = "active", Alone, up.blob,
           UNCHANGED <<acked, done, begun, share, entry, solid, erased, pruned>>,
           synced' >= Len(up.man.sum), IsPrefix(up.man.sum, data')
    PROVE  Orderly'
<1>0. DirTy /\ (\A d \in older \cup {up} : DirInv(d)) /\ (\A d \in older : OrderInv(d))
  BY TypeGroups DEF OsInv
<1>1. up.man \in Records /\ up.man.sum \in Bytes /\ data' \in Bytes /\ synced' \in Nat
  BY <1>0, Fields, PrefixFacts DEF DirTy, ByteTy
<1>2. ASSUME NEW d \in older \cup {up} PROVE DirInv(d)' /\ OrderInv(d)'
  <2>0. DirInv(d) /\ d.man \in Records \cup {None}
    BY <1>0, Fields DEF DirTy
  <2>1. d.pub # "mine" /\ (d.man # None => d.man.state = "active" /\ IsPrefix(d.man.sum, up.man.sum))
    <3>1. CASE d = up
      BY <1>1, <3>1, PrefixFacts DEF Alone
    <3>2. CASE d \in older
      BY <1>0, <3>2 DEF OrderInv
    <3> QED BY <3>1, <3>2
  <2>2. d.man # None => synced' >= Len(d.man.sum) /\ IsPrefix(d.man.sum, data')
    <3> SUFFICES ASSUME d.man # None PROVE synced' >= Len(d.man.sum) /\ IsPrefix(d.man.sum, data')
      OBVIOUS
    <3>1. d.man.sum \in Bytes /\ IsPrefix(d.man.sum, up.man.sum)
      BY <2>0, <2>1, Fields
    <3>2. Len(d.man.sum) <= Len(up.man.sum) /\ Len(d.man.sum) \in Nat /\ Len(up.man.sum) \in Nat
            /\ IsPrefix(d.man.sum, data')
      BY <1>1, <3>1, PrefixFacts
    <3> QED BY <1>1, <3>2
  <2>3. DirInv(d)'
    BY <2>0, <2>1, <2>2 DEF DirInv
  <2>4. OrderInv(d)'
    BY <2>1 DEF OrderInv
  <2> QED BY <2>3, <2>4
<1>3. LinkInv'
  BY DEF LinkInv, Alone
<1> QED BY <1>2, <1>3 DEF Orderly

\* What the directory holds next is in order, and those before it stay so.
LEMMA PutOrder ==
    ASSUME OsInv, begun, NEW l, NEW b, NEW m, NEW w, Puts(l, b, m, w), DirInv(up)', LinkInv', up.man # None,
           UNCHANGED <<data, synced, sum, acked, done, begun>>, pruned => pruned',
           \A d \in older \cup {up} : d.man # None /\ d.man.state = "committed"
                 /\ ~erased' => entry' # None /\ solid',
           \A d \in older \cup {up} : OrderInv(d)'
    PROVE  Orderly'
<1>1. ASSUME NEW d \in older \cup {up} PROVE DirInv(d)'
  <2>1. DirInv(d)
    BY DEF OsInv
  <2> QED BY <2>1, DirKeeps
<1> QED BY <1>1 DEF Orderly, Puts

\* An unchanged record is as far as the ones before it.
LEMMA SameRecord ==
    ASSUME OsInv, up.man # None => up'.man = up.man \/ up'.man = None, up.man = None => up'.man = None
    PROVE  \A d \in older \cup {up} : OrderInv(d)'
<1>0. DirTy /\ DirInv(up)
  BY TypeGroups DEF OsInv
<1>1. ASSUME NEW d \in older PROVE OrderInv(d)'
  BY DEF OsInv, OrderInv
<1>2. ASSUME NEW d, d = up PROVE OrderInv(d)'
  <2>1. up.man # None => up.man \in Records /\ up.man.sum \in Bytes
    BY <1>0, Fields DEF DirTy
  <2>2. up.man # None => IsPrefix(up.man.sum, up.man.sum)
    BY <2>1, PrefixFacts
  <2> QED BY <1>0, <1>2, <2>2, Names DEF OrderInv, DirInv, Whose
<1> QED BY <1>1, <1>2

-----------------------------------------------------------------------------
(* Steps outside the lock, and those that come to it or leave it.          *)

\* The bytes, the links and the directory of a step that leaves them alone.
LEMMA SameTy ==
    ASSUME OsInv, UNCHANGED <<up, data, synced, sum, acked, share, entry>>, older' \subseteq older,
           dlock' \in Proc \cup {None}
    PROVE  DirTy' /\ ByteTy' /\ DigestTy'
<1>1. DirTy /\ ByteTy /\ DigestTy
  BY TypeGroups DEF OsInv
<1> QED BY <1>1 DEF DirTy, ByteTy, DigestTy

\* The holder of the digest's lock is a process.
LEMMA HolderTy ==
    ASSUME OsInv, NEW p \in Proc, ProcStep(p)
    PROVE  dlock' \in Proc \cup {None}
<1> USE DEF upload, digest, procs, bounds, history, still
<1>1. dlock \in Proc \cup {None}
  BY TypeGroups DEF OsInv, DigestTy
<1>2. dlock' \in {dlock, None, p}
  <2>1. CASE Moving(p)
    BY <2>1 DEF Moving, Returns, Abandons, Undoes, Calls, Opens, Orphans, Starts, Enters, Holds,
       Leave
  <2>2. CASE Making(p)
    BY <2>2 DEF Making, BeginMkdir, MakesLock, MakesBlob, RootSync, Takes, Removes, RemovesLast,
       Leave
  <2>3. CASE Filing(p)
    BY <2>3 DEF Filing, CutsOnly, CutsOn, Freezes, Cuts, AppendWrite, AppendSync, Rollback,
       WriteRecord,
       SyncedAppend, SyncedOn, Synced, RemoveBlob, LastSync, PruneClean, Leave
  <2>4. CASE Publishing(p)
    BY <2>4 DEF Publishing, Withdraws, LockDigest, Prepare, LinkShare, Publish, Receipts, Leave
  <2> QED BY Cases, <2>1, <2>2, <2>3, <2>4
<1> QED BY <1>1, <1>2

\* Calls come, wait, look and go; what one that gets the lock knows.
LEMMA LaterMoving ==
    ASSUME OsInv, begun, NEW p \in Proc, ProcStep(p), Moving(p)
    PROVE  Later'
<1> USE DEF upload, digest, procs, bounds, history, still, Continue, Goto
<1>0. Kept(p) /\ ProcTy /\ CtlInv(p) /\ DirTy /\ Begun /\ TwoInv /\ DirInv(up)
  BY KeepsPlaces, TypeGroups DEF OsInv
<1>1. UNCHANGED <<up, older, data, synced, sum, acked, done, begun, share, entry, solid, erased, pruned, expired>>
  BY DEF Moving, Returns, Abandons, Undoes, Calls, Opens, Orphans, Starts, Enters, Holds
<1>2. DirTy' /\ ByteTy' /\ DigestTy'
  BY <1>1, SameTy, HolderTy
<1>3. ~Abandons(p) /\ ~Starts(p)
  BY <1>0 DEF Begun, Abandons, Starts
<1>4. fl'[p] \in {None, fl[p], up.lock}
  BY <1>0, <1>3 DEF Moving, Returns, Leave, Undoes, Calls, Opens, Orphans, Enters, Holds, ProcTy
<1>q. ASSUME ~pruned => pc'[p] # "orphanlock" /\ (pc'[p] = "rm" => expired),
             pc'[p] \in WorkPcs => WorkInv(p)' PROVE Later'
  BY <1>0, <1>1, <1>2, <1>4, <1>q, QuietStep
<1>5. CASE Returns(p) \/ Calls(p) \/ Opens(p) \/ Orphans(p)
  <2>1. pc'[p] \in {"idle", "open", "wait", "orphan"}
    BY <1>0, <1>5 DEF Returns, Leave, Calls, Opens, Orphans, ProcTy
  <2> QED BY <1>q, <2>1 DEF WorkPcs
<1>6. CASE Holds(p)
  <2>1. pruned
    BY <1>0, <1>6 DEF Holds, Begun
  <2>2. pc'[p] = "rm"
    BY <1>0, <1>6 DEF Holds, ProcTy
  <2> QED BY <1>q, <2>1, <2>2 DEF WorkPcs
<1>7. CASE Undoes(p)
  <2>1. op[p] = "Append" /\ pc[p] \in {"write", "datasync", "rename"}
          /\ UNCHANGED <<op, fl, rec, dlock>> /\ pc'[p] = "rollback"
    BY <1>0, <1>7 DEF Undoes, ProcTy
  <2>2. RecInv(p) /\ AppendInv(p)
    BY <2>1, AtWork DEF WorkPcs
  <2>3. RecInv(p)'
    BY <1>1, <2>1, <2>2 DEF RecInv, CommitPcs
  <2>4. AppendInv(p)' /\ NextInv(p)'
    BY <1>1, <2>1, <2>2 DEF AppendInv, NextInv, Alone
  <2> QED BY <1>q, <2>1, <2>3, <2>4 DEF WorkInv
<1>8. CASE Enters(p)
  <2> DEFINE l == First(op[p], up.man)
  <2>0. up.man # None /\ pc[p] = "wait" /\ l # "idle"
    BY <1>8 DEF Enters
  <2>1. op[p] \in Ops \ {"Begin"} /\ up.man \in Records
    <3>1. op[p] # None
      BY <1>0, <2>0 DEF CtlInv, Place
    <3> QED BY <1>0, <2>0, <3>1, Fields DEF ProcTy, DirTy, Begun
  <2>2. Entered(op[p], up.man, l)
    BY <2>0, <2>1, EnterFacts
  <2>3. pc'[p] = l /\ rec'[p] = (IF l = "rename" THEN [up.man EXCEPT !.state = "aborted"] ELSE up.man)
          /\ UNCHANGED <<op, fl, dlock>>
    BY <1>0, <1>8 DEF Enters, ProcTy
  <2> HIDE DEF l
  <2>4. fl[p] = 1
    BY <1>0, <2>0 DEF CtlInv, ProcTy, TwoInv
  <2>5. dlock # p
    BY <1>0, <2>0 DEF CtlInv, DigestPcs, CommitPcs
  <2>6. up.man.state \in States /\ up.man.sum \in Bytes
    BY <2>1, Fields
  <2>r. l = "rename" => rec'[p].state = "aborted" /\ rec'[p].sum = up.man.sum /\ rec'[p] # None
    <3>1. [up.man EXCEPT !.state = "aborted"] \in Records
            /\ [up.man EXCEPT !.state = "aborted"].state = "aborted"
          /\ [up.man EXCEPT !.state = "aborted"].sum = up.man.sum
      BY <2>1 DEF Records, States
    <3> QED BY <2>3, <3>1, Names
  <2>7. RecInv(p)'
    BY <1>1, <2>0, <2>2, <2>3, <2>4, <2>5, <2>r DEF RecInv, Entered, CommitPcs
  <2>8. AppendInv(p)'
    BY <1>1, <2>2, <2>3 DEF AppendInv, Entered
  <2>9. NextInv(p)'
    BY <1>1, <2>2, <2>3, <2>r DEF NextInv, Entered
  <2>10. pc'[p] # "orphanlock" /\ (pc'[p] = "rm" => expired)
    BY <2>2, <2>3 DEF Entered
  <2> QED BY <1>q, <2>7, <2>8, <2>9, <2>10 DEF WorkInv
<1> QED BY <1>3, <1>5, <1>6, <1>7, <1>8 DEF Moving

\* pruneOrphanStage and RemoveAll come only when the stage is expired.
LEMMA LaterMaking ==
    ASSUME OsInv, begun, NEW p \in Proc, ProcStep(p), Making(p)
    PROVE  Later'
<1> USE DEF upload, digest, procs, bounds, history, still, Continue, Goto
<1>0. Kept(p) /\ ProcTy /\ CtlInv(p) /\ DirTy /\ ByteTy /\ DigestTy /\ Begun /\ TwoInv /\ DirInv(up)
        /\ LinkInv /\ FlagTy
  BY KeepsPlaces, TypeGroups DEF OsInv
<1>k. OnlyMe(p)
  BY <1>0 DEF Kept
<1>b. pc[p] \notin {"mkdir", "lockfile", "blobfile"} /\ (pc[p] \in {"rm", "orphan"} => op[p] = "Prune")
  BY <1>0, Names DEF CtlInv, Place, Begun, ProcTy, Ops, AppendPcs, RecoverPcs, PrunePcs, CommitPcs
<1>1. ~BeginMkdir(p) /\ ~MakesLock(p) /\ ~MakesBlob(p)
  BY <1>b DEF BeginMkdir, MakesLock, MakesBlob
<1>2. CASE RootSync(p)
  <2>1. UNCHANGED <<up, data, synced, sum, acked, done, share, entry, solid, erased, pruned, expired>>
          /\ older' \subseteq older /\ begun' = begun
    BY <1>0, <1>2 DEF RootSync, FlagTy
  <2>2. pc'[p] = "idle" /\ fl'[p] = None
    BY <1>0, <1>2 DEF RootSync, Leave, ProcTy
  <2>3. DirTy' /\ ByteTy' /\ DigestTy'
    BY <2>1, SameTy, HolderTy
  <2>4. pc'[p] \notin WorkPcs
    BY <2>2 DEF WorkPcs
  <2> QED BY <1>0, <2>1, <2>2, <2>3, <2>4, QuietStep
<1>g. ASSUME UNCHANGED <<data, synced, sum, acked, done, begun, share, entry, solid, erased, dlock>>,
             DirTy', DirInv(up)', older' \subseteq older \cup {up}, \A d \in older \cup {up} : OrderInv(d)',
             pruned', \A q \in Proc : pc'[q] \notin WorkPcs, TwoInv'
      PROVE  Later'
  <2>1. ASSUME NEW d \in older \cup {up} PROVE DirInv(d)'
    <3>1. DirInv(d)
      BY DEF OsInv
    <3> QED BY <1>g, <3>1, DirKeeps DEF DirInv
  <2>2. ByteTy' /\ DigestTy'
    BY <1>0, <1>g DEF ByteTy, DigestTy
  <2>3. LinkInv'
    BY <1>0, <1>g DEF LinkInv, Frozen
  <2>4. Orderly'
    BY <1>g, <2>1, <2>3 DEF Orderly
  <2> QED BY <1>g, <2>2, <2>4 DEF Later
<1>3. CASE Takes(p)
  <2>1. up.man = None /\ pc[p] = "orphan"
    BY <1>3 DEF Takes
  <2>2. pruned
    BY <1>0, <2>1 DEF DirInv
  <2>3. (up.lock # None /\ up' = up /\ older' = older) \/ (up.lock = None /\ Puts(2, up.blob, None, up.pub))
    BY <1>3, DirSteps
  <2>4. UNCHANGED <<data, synced, sum, acked, done, begun, share, entry, solid, erased, dlock, pruned>>
          /\ pc'[p] = "orphanlock"
    BY <1>0, <1>3 DEF Takes, ProcTy
  <2>5. DirTy' /\ up'.man = None /\ up'.pub = up.pub /\ older' \subseteq older \cup {up}
    BY <1>0, <2>1, <2>3, PutTy DEF Puts, Stays
  <2>6. DirInv(up)'
    BY <1>0, <2>2, <2>4, <2>5 DEF DirInv, Frozen
  <2>7. \A d \in older \cup {up} : OrderInv(d)'
    BY <2>5 DEF OrderInv
  <2>8. TwoInv'
    BY <2>5 DEF TwoInv
  <2>9. \A q \in Proc : pc'[q] \notin WorkPcs
    <3>1. \A q \in Proc : pc[q] \notin WorkPcs
      BY <2>1, AtWork DEF RecInv
    <3> QED BY <1>k, <2>4, <3>1 DEF OnlyMe, WorkPcs
  <2> QED BY <1>g, <2>2, <2>4, <2>5, <2>6, <2>7, <2>8, <2>9
<1>4. CASE Removes(p) \/ RemovesLast(p)
  <2>1. Loses
    BY <1>4, Removal
  <2>2. pc[p] = "rm" /\ op[p] = "Prune" /\ p \in holds
    BY <1>0, <1>b, <1>4 DEF Removes, RemovesLast, CtlInv, Locked
  <2>3. UNCHANGED <<data, synced, sum, acked, done, begun, share, entry, solid, erased, dlock>> /\ fl' = fl
    BY <1>4, <2>2 DEF Removes, RemovesLast
  <2>4. pc'[p] \in {"rm", "rootsync"} /\ pruned'
    <3>1. pruned \/ expired
      BY <1>0, <2>2 DEF Begun
    <3> QED BY <1>0, <1>4, <2>2, <3>1 DEF Removes, RemovesLast, ProcTy
  <2>5. DirTy'
    BY <1>0, <2>1, PutTy
  <2>6. DirInv(up)'
    <3>1. /\ up'.lock = 2 => up'.man = None
          /\ up'.pub = "mine" => Frozen'
      BY <1>0, <2>1, <2>3, Names DEF Loses, DirInv, Frozen, Whose
    <3>2. up'.man # None => up'.man = up.man /\ (up'.pub = up.pub \/ up'.pub = None)
            /\ (up'.blob => up.blob)
      BY <2>1 DEF Loses
    <3> QED BY <1>0, <2>3, <2>4, <3>1, <3>2 DEF DirInv, Frozen
  <2>7. \A d \in older \cup {up} : OrderInv(d)'
    BY <2>1, SameRecord DEF Loses
  <2>8. TwoInv'
    <3>1. ASSUME up'.lock = 2 \/ \E q \in Proc : fl'[q] = 2 PROVE up.lock = 2 \/ \E q \in Proc : fl[q] = 2
      BY <2>1, <2>3, <3>1, Names DEF Loses
    <3> QED BY <1>0, <2>1, <3>1 DEF Loses, TwoInv
  <2>9. \A q \in Proc : pc'[q] \notin WorkPcs
    <3>1. \A q \in Proc : pc[q] \notin WorkPcs
      BY <2>2, Exclusive DEF WorkPcs
    <3> QED BY <1>k, <2>4, <3>1 DEF OnlyMe, WorkPcs
  <2>10. older' \subseteq older \cup {up}
    BY <2>1 DEF Loses
  <2> QED BY <1>g, <2>3, <2>4, <2>5, <2>6, <2>7, <2>8, <2>9, <2>10
<1> QED BY <1>1, <1>2, <1>3, <1>4 DEF Making

-----------------------------------------------------------------------------
(* The bytes.                                                              *)

\* Directories stay in order when nothing else changes.
LEMMA SameOrder ==
    ASSUME OsInv, up' = up, older' \subseteq older,
           UNCHANGED <<data, synced, sum, acked, done, begun, share, entry, solid, erased, pruned>>
    PROVE  Orderly'
<1>1. ASSUME NEW d \in older \cup {up} PROVE DirInv(d)'
  <2>1. DirInv(d)
    BY DEF OsInv
  <2> QED BY <2>1, DirKeeps DEF DirInv
<1>2. \A d \in older' : OrderInv(d)'
  BY DEF OsInv, OrderInv
<1>3. LinkInv'
  BY DEF OsInv, LinkInv, Frozen
<1> QED BY <1>1, <1>2, <1>3 DEF Orderly

\* A record of which one field is changed.
LEMMA RecordEdits ==
    ASSUME NEW r \in Records
    PROVE  /\ \A s \in States : LET e == [r EXCEPT !.state = s] IN e \in Records /\ e.state = s
                /\ e.sum = r.sum
           /\ \A s \in Bytes : LET e == [r EXCEPT !.sum = s] IN e = [state |-> r.state, sum |-> s]
                /\ e \in Records
  BY DEF Records

\* recoverTail leaves the bytes of the record, synced; those of a frozen one as they are.
LEMMA Trims ==
    ASSUME OsInv, begun, NEW p \in Proc, Cuts(p)
    PROVE  /\ rec[p] = up.man /\ up.man.state \in {"active", "committing"} /\ up.blob
           /\ data' = up.man.sum /\ synced' = Len(data') /\ data' \in Bytes /\ synced' \in 0 .. Len(data')
           /\ up.man.state = "active" => Alone
           /\ up.man.state = "committing" => data' = data /\ synced' = synced /\ Frozen
<1>0. pc[p] = "tail" /\ ~BadTail(rec[p]) /\ data' = SubSeq(data, 1, Len(rec[p].sum))
        /\ synced' = IF data' = data THEN synced ELSE Len(data')
  BY DEF Cuts
<1>1. RecInv(p) /\ DirInv(up) /\ up.man \in Records /\ ByteTy
  BY <1>0, AtWork, TypeGroups DEF WorkPcs, OsInv
<1>2. rec[p] = up.man /\ up.man.state \in {"active", "committing"} /\ up.man # None
  BY <1>0, <1>1 DEF RecInv
<1>3. up.blob /\ (up.man.state = "active" => Alone)
  BY <1>0, <1>2 DEF BadTail
<1>4. synced >= Len(up.man.sum) /\ IsPrefix(up.man.sum, data) /\ up.man.sum \in Bytes
  BY <1>1, <1>2, <1>3, Fields DEF DirInv
<1>5. data \in Bytes /\ synced \in 0 .. Len(data) /\ Len(data) \in Nat /\ Len(up.man.sum) \in Nat
  BY <1>1, <1>4, PrefixFacts DEF ByteTy
<1>6. Len(up.man.sum) \in 0 .. Len(data)
  BY <1>4, <1>5
<1>7. data' = up.man.sum
  BY <1>0, <1>2, <1>4, <1>5, <1>6, Cut
<1>8. synced' = Len(data') /\ synced' \in 0 .. Len(data')
  <2>1. CASE data' = data
    BY <1>0, <1>4, <1>5, <1>7, <2>1
  <2>2. CASE data' # data
    BY <1>0, <1>5, <1>7, <2>2
  <2> QED BY <2>1, <2>2
<1>9. up.man.state = "committing" => data' = data /\ synced' = synced /\ Frozen
  BY <1>0, <1>1, <1>2, <1>7 DEF DirInv, Frozen
<1> QED BY <1>2, <1>3, <1>4, <1>7, <1>8, <1>9

\* Steps that change the bytes.
LEMMA LaterCuts ==
    ASSUME OsInv, begun, NEW p \in Proc, ProcStep(p), CutsOnly(p) \/ CutsOn(p) \/ Freezes(p)
    PROVE  Later'
<1> USE DEF upload, digest, procs, bounds, history, still, Continue, Goto
<1>0. Cuts(p) /\ pc[p] = "tail" /\ Kept(p) /\ ProcTy /\ DirTy /\ ByteTy /\ DigestTy
  BY KeepsPlaces, TypeGroups DEF OsInv, CutsOnly, CutsOn, Freezes, Cuts
<1>1. UNCHANGED <<up, older, expired, share, entry, solid, acked, done, begun, erased, pruned>>
  BY <1>0 DEF Cuts
<1>2. /\ rec[p] = up.man /\ up.man.state \in {"active", "committing"} /\ up.blob
      /\ data' = up.man.sum /\ synced' = Len(data') /\ data' \in Bytes /\ synced' \in 0 .. Len(data')
      /\ up.man.state = "active" => Alone
      /\ up.man.state = "committing" => data' = data /\ synced' = synced /\ Frozen
  BY <1>0, Trims
<1>3. RecInv(p) /\ AppendInv(p) /\ CtlInv(p) /\ up.man \in Records
  BY <1>0, AtWork DEF WorkPcs
<1>4. sum' \in {sum, up.man.sum} /\ up.man.sum \in Bytes /\ (up.man.state = "committing" => sum' = sum)
  BY <1>2, <1>3, Fields DEF CutsOnly, CutsOn, Freezes
<1>5. DirTy' /\ ByteTy' /\ DigestTy'
  <2>1. DirTy' /\ ByteTy'
    BY <1>0, <1>1, <1>2, <1>4 DEF DirTy, ByteTy
  <2>2. DigestTy'
    BY <1>0, <1>1, HolderTy DEF DigestTy
  <2> QED BY <2>1, <2>2
<1>6. Orderly'
  <2>1. CASE up.man.state = "active"
    <3>1. up.man # None /\ IsPrefix(up.man.sum, data') /\ synced' >= Len(up.man.sum)
      BY <1>2, <1>3, <1>4, PrefixFacts DEF RecInv
    <3> QED BY <1>1, <1>2, <1>5, <2>1, <3>1, ActiveOrder
  <2>2. CASE up.man.state = "committing"
    BY <1>1, <1>2, <1>4, <2>2, SameOrder
  <2> QED BY <1>2, <2>1, <2>2
<1>7. dlock # p
  BY <1>0, <1>3 DEF CtlInv, DigestPcs, CommitPcs
<1>w. ASSUME fl'[p] \in {None, fl[p]}, pc'[p] \notin {"orphanlock", "rm"},
             pc'[p] \in WorkPcs => WorkInv(p)' PROVE Later'
  BY <1>0, <1>1, <1>5, <1>6, <1>w, WorkStep DEF WorkPcs
<1>8. CASE CutsOnly(p)
  <2>1. pc'[p] = "idle" /\ fl'[p] = None
    BY <1>0, <1>8 DEF CutsOnly, Leave, ProcTy
  <2> QED BY <1>w, <2>1 DEF WorkPcs
<1>9. CASE CutsOn(p)
  <2>1. UNCHANGED <<op, fl, rec, dlock>> /\ pc'[p] \in {"write", "dlock", "clean"}
    BY <1>0, <1>9 DEF CutsOn, ProcTy
  <2>2. /\ pc'[p] = "write" => op[p] = "Append"
        /\ pc'[p] = "dlock" => up.man.state = "committing"
        /\ pc'[p] = "clean" => up.man.state = "active" /\ op[p] = "Prune"
    BY <1>0, <1>2, <1>9 DEF CutsOn, ProcTy
  <2>3. RecInv(p)'
    BY <1>1, <1>2, <1>3, <2>1, <2>2 DEF RecInv, CommitPcs
  <2>4. AppendInv(p)'
    BY <1>0, <1>1, <1>2, <1>3, <2>1, <2>2 DEF AppendInv, Alone
  <2>5. NextInv(p)'
    BY <2>1 DEF NextInv
  <2> QED BY <1>w, <2>1, <2>3, <2>4, <2>5 DEF WorkInv
<1>10. CASE Freezes(p)
  <2>1. op[p] = "Commit" /\ rec[p].state = "active" /\ UNCHANGED <<op, fl, dlock>> /\ pc'[p] = "rename"
          /\ sum' = rec[p].sum
    BY <1>0, <1>10 DEF Freezes, ProcTy
  <2>2. rec'[p] = [rec[p] EXCEPT !.state = "committing"]
    BY <1>0, <1>10 DEF Freezes, ProcTy
  <2>3. rec'[p] \in Records /\ rec'[p].state = "committing" /\ rec'[p].sum = up.man.sum
    BY <1>2, <1>3, <2>2 DEF Records, States
  <2>4. RecInv(p)'
    BY <1>1, <1>3, <1>7, <2>1, <2>3, Names DEF RecInv, CommitPcs
  <2>5. AppendInv(p)'
    BY <2>1 DEF AppendInv
  <2>6. NextInv(p)'
    BY <1>1, <1>2, <2>1, <2>3 DEF NextInv
  <2> QED BY <1>w, <2>1, <2>4, <2>5, <2>6 DEF WorkInv
<1> QED BY <1>8, <1>9, <1>10

\* Append writes behind the record, syncs, or cuts off what it wrote.
LEMMA LaterBytes ==
    ASSUME OsInv, begun, NEW p \in Proc, ProcStep(p), AppendWrite(p) \/ AppendSync(p) \/ Rollback(p)
    PROVE  Later'
<1> USE DEF upload, digest, procs, bounds, history, still, Continue, Goto
<1>0. pc[p] \in {"write", "datasync", "rollback"} /\ Kept(p) /\ ProcTy /\ DirTy /\ ByteTy /\ DigestTy
  BY KeepsPlaces, TypeGroups DEF OsInv, AppendWrite, AppendSync, Rollback
<1>1. UNCHANGED <<up, older, expired, share, entry, solid, acked, done, begun, erased, pruned, sum>>
  BY DEF AppendWrite, AppendSync, Rollback
<1>2. RecInv(p) /\ AppendInv(p) /\ CtlInv(p) /\ up.man \in Records /\ DirInv(up) /\ rec[p] \in Records
  BY <1>0, AtWork DEF WorkPcs
<1>3. op[p] = "Append" /\ dlock # p
  BY <1>0, <1>2, Names DEF CtlInv, Place, ProcTy, Ops, RecoverPcs, PrunePcs, CommitPcs, BeginPcs,
     DigestPcs
<1>4. up.man # None /\ up.man.state = "active" /\ up.blob /\ Alone /\ up.man.sum \in Bytes
  BY <1>0, <1>2, <1>3, Fields DEF AppendInv, RecInv
<1>5. synced >= Len(up.man.sum) /\ IsPrefix(up.man.sum, data)
  BY <1>2, <1>4 DEF DirInv
<1>6. /\ data \in Bytes /\ synced \in 0 .. Len(data) /\ Len(data) \in Nat /\ Len(up.man.sum) \in Nat
      /\ sum \in Bytes \cup {None} /\ acked \in Bytes /\ MaxLen \in Nat
  BY <1>0, <1>4, PrefixFacts, Names DEF ByteTy
<1>o. ASSUME data' \in Bytes, synced' \in 0 .. Len(data'), synced' >= Len(up.man.sum),
             IsPrefix(up.man.sum, data'),
             fl'[p] \in {None, fl[p]}, pc'[p] \notin {"orphanlock", "rm"}, pc'[p] \in WorkPcs => WorkInv(p)'
      PROVE  Later'
  <2>1. DirTy' /\ ByteTy' /\ DigestTy'
    <3>1. DirTy' /\ ByteTy'
      BY <1>0, <1>1, <1>6, <1>o DEF DirTy, ByteTy
    <3>2. DigestTy'
      BY <1>0, <1>1, HolderTy DEF DigestTy
    <3> QED BY <3>1, <3>2
  <2>2. Orderly'
    BY <1>1, <1>4, <1>o, <2>1, ActiveOrder
  <2> QED BY <1>0, <1>1, <1>o, <2>1, <2>2, WorkStep DEF WorkPcs
<1>7. CASE AppendWrite(p)
  <2>1. pc[p] = "write" /\ pc'[p] = "datasync" /\ UNCHANGED <<op, fl, rec, dlock, synced>>
    BY <1>0, <1>7 DEF AppendWrite, ProcTy
  <2>2. PICK c \in Chunk : data' = Append(data, c)
    BY <1>7 DEF AppendWrite
  <2>3. data = rec[p].sum /\ Len(data) < MaxLen
    BY <1>2, <1>3, <2>1 DEF AppendInv
  <2>4. data' \in Bytes /\ Len(data') = Len(data) + 1 /\ IsPrefix(up.man.sum, data')
    BY <1>4, <1>5, <1>6, <2>2, <2>3, Appended
  <2>5. synced' \in 0 .. Len(data') /\ synced' >= Len(up.man.sum)
    BY <1>5, <1>6, <2>1, <2>4
  <2>6. RecInv(p)'
    BY <1>1, <1>2, <2>1 DEF RecInv, CommitPcs
  <2>7. AppendInv(p)' /\ NextInv(p)'
    BY <1>1, <1>2, <1>3, <1>4, <2>1 DEF AppendInv, NextInv, Alone
  <2> QED BY <1>o, <2>1, <2>4, <2>5, <2>6, <2>7 DEF WorkInv
<1>8. CASE AppendSync(p)
  <2>1. pc[p] = "datasync" /\ pc'[p] = "rename" /\ UNCHANGED <<op, fl, dlock, data>> /\ synced' = Len(data)
    BY <1>0, <1>8 DEF AppendSync, ProcTy
  <2>2. rec'[p] = [rec[p] EXCEPT !.sum = data]
    BY <1>0, <1>8 DEF AppendSync, ProcTy
  <2>3. rec[p] = up.man
    BY <1>2, <2>1 DEF RecInv
  <2>4. rec'[p] \in Records /\ rec'[p] = [state |-> "active", sum |-> data]
    BY <1>2, <1>4, <1>6, <2>2, <2>3, RecordEdits
  <2>5. synced' \in 0 .. Len(data') /\ synced' >= Len(up.man.sum)
    BY <1>5, <1>6, <2>1
  <2>6. RecInv(p)'
    BY <1>1, <1>2, <1>3, <2>1, <2>4, Names DEF RecInv, CommitPcs
  <2>7. AppendInv(p)' /\ NextInv(p)'
    BY <1>1, <1>2, <1>3, <1>4, <2>1, <2>4 DEF AppendInv, NextInv, Alone
  <2> QED BY <1>o, <1>5, <1>6, <2>1, <2>5, <2>6, <2>7 DEF WorkInv
<1>9. CASE Rollback(p)
  <2>1. pc'[p] = "idle" /\ fl'[p] = None /\ data' = SubSeq(data, 1, Len(up.man.sum)) /\ synced' = Len(data')
    BY <1>0, <1>9 DEF Rollback, Leave, ProcTy
  <2>2. Len(up.man.sum) \in 0 .. Len(data)
    BY <1>5, <1>6
  <2>3. data' = up.man.sum
    BY <1>4, <1>5, <1>6, <2>1, <2>2, Cut
  <2>4. IsPrefix(up.man.sum, up.man.sum) /\ synced' \in 0 .. Len(data') /\ synced' >= Len(up.man.sum)
          /\ data' \in Bytes
    <3>1. IsPrefix(up.man.sum, up.man.sum)
      BY <1>4, PrefixFacts
    <3>2. data' \in Bytes /\ Len(data') = Len(up.man.sum) /\ synced' = Len(up.man.sum)
      BY <1>4, <2>1, <2>3
    <3>3. synced' \in 0 .. Len(data') /\ synced' >= Len(up.man.sum)
      BY <1>6, <3>2
    <3> QED BY <3>1, <3>2, <3>3
  <2> QED BY <1>o, <2>1, <2>3, <2>4 DEF WorkPcs
<1> QED BY <1>7, <1>8, <1>9

-----------------------------------------------------------------------------
(* The record and the directory.                                           *)

\* The record that is written is next in order.
LEMMA NextRecord ==
    ASSUME OsInv, begun, NEW p \in Proc, WriteRecord(p)
    PROVE  Orderly' /\ DirTy'
<1> USE DEF upload, digest, procs, bounds, history, still
<1>0. pc[p] = "rename" /\ UNCHANGED <<data, synced, sum, acked, done, begun, share, entry, solid, erased, pruned>>
  BY DEF WriteRecord
<1>1. RecInv(p) /\ AppendInv(p) /\ NextInv(p) /\ up.man \in Records /\ up \in Dirs /\ DirInv(up)
        /\ rec[p] \in Records
  BY <1>0, AtWork DEF WorkPcs
<1>2. Puts(up.lock, up.blob, rec[p], up.pub) /\ DirTy /\ ByteTy /\ LinkInv
  BY DirSteps, TypeGroups DEF OsInv
<1>3. up.man # None /\ up.man.sum \in Bytes /\ up.man.state \in States /\ rec[p].sum \in Bytes
        /\ acked \in Bytes /\ data \in Bytes
  BY <1>1, <1>2, Fields DEF RecInv, ByteTy
<1>4. LinkInv'
  BY <1>0, <1>2 DEF LinkInv, Frozen
<1>5. DirTy'
  BY <1>2, PutTy
<1>c. \A d \in older \cup {up} : d.man # None /\ d.man.state = "committed" /\ ~erased' => entry' # None
        /\ solid'
  BY <1>0 DEF OsInv, DirInv
<1>p. ASSUME DirInv(up)', \A d \in older \cup {up} : OrderInv(d)' PROVE Orderly'
  BY <1>0, <1>2, <1>3, <1>4, <1>c, <1>p, PutOrder
<1>u. up'.lock = up.lock /\ up'.blob = up.blob /\ up'.man = rec[p] /\ up'.pub = up.pub
  BY <1>2 DEF Puts
<1>a. IsPrefix(acked, up.man.sum) /\ (up.lock = 2 => up.man = None) /\ (up.pub = "mine" => Frozen)
        /\ (~pruned => up.lock # None)
  BY <1>1, <1>3, begun DEF DirInv
<1>b. \A d \in older \cup {up} : d.man \in Records \cup {None} /\ (d.man # None => d.man.sum \in Bytes)
  BY <1>2, Fields DEF DirTy
<1>o. up.man.state = "active" => \A d \in older \cup {up} : d.pub # "mine"
        /\ (d.man # None => d.man.state = "active" /\ IsPrefix(d.man.sum, up.man.sum))
  <2> SUFFICES ASSUME up.man.state = "active", NEW d \in older \cup {up}
               PROVE  d.pub # "mine" /\ (d.man # None => d.man.state = "active"
                        /\ IsPrefix(d.man.sum, up.man.sum))
    OBVIOUS
  <2>1. CASE d = up
    BY <1>1, <1>3, <2>1, PrefixFacts, Names DEF DirInv, Whose
  <2>2. CASE d \in older
    BY <1>3, <2>2 DEF OsInv, OrderInv
  <2> QED BY <2>1, <2>2
<1>6. CASE op[p] = "Append"
  <2>1. rec[p] = [state |-> "active", sum |-> data] /\ synced = Len(data) /\ up.man.state = "active"
          /\ up.blob
    BY <1>0, <1>1, <1>6 DEF AppendInv
  <2>2. IsPrefix(up.man.sum, data) /\ up.pub = None /\ (done => FALSE)
    BY <1>1, <1>3, <2>1 DEF DirInv
  <2>3. IsPrefix(acked, data) /\ IsPrefix(data, data) /\ Len(data) \in Nat
    BY <1>3, <1>a, <2>2, PrefixFacts
  <2>4. rec[p].state = "active" /\ rec[p].sum = data /\ rec[p] # None
    BY <1>1, <2>1, Names
  <2>5. DirInv(up)'
    BY <1>0, <1>u, <1>a, <1>1, <2>1, <2>2, <2>3, <2>4, Names DEF DirInv, RecInv, TwoInv, Whose
  <2>6. \A d \in older \cup {up} : OrderInv(d)'
    <3>1. \A d \in older \cup {up} : d.man # None => IsPrefix(d.man.sum, data)
      BY <1>3, <1>b, <1>o, <2>1, <2>2, PrefixFacts
    <3> QED BY <1>u, <1>o, <2>1, <2>4, <3>1 DEF OrderInv
  <2> QED BY <1>5, <1>p, <2>5, <2>6
<1>7. CASE op[p] # "Append"
  <2>1. /\ rec[p].sum = up.man.sum
        /\ rec[p].state \in {"committing", "aborted", "committed"}
        /\ up.man.state = IF rec[p].state = "committed" THEN "committing" ELSE "active"
        /\ rec[p].state = "committing" => sum = rec[p].sum /\ data = sum /\ synced = Len(data)
        /\ rec[p].state = "committed" => erased \/ (entry # None /\ solid)
    BY <1>0, <1>1, <1>7 DEF NextInv
  <2>2. rec[p].state = "committed" => sum = rec[p].sum /\ Frozen
    BY <1>1, <1>3, <2>1 DEF DirInv
  <2>3. ~done
    BY <1>1, <1>3, <2>1 DEF DirInv
  <2>4. (~pruned => up.blob)
    BY <1>1, <1>3, <2>1, begun DEF DirInv
  <2>5. (synced >= Len(rec[p].sum) /\ IsPrefix(rec[p].sum, data)) \/ rec[p].state # "committing"
    <3>1. rec[p].state = "committing" => synced = Len(rec[p].sum) /\ data = rec[p].sum
      BY <2>1
    <3>2. IsPrefix(rec[p].sum, rec[p].sum) /\ Len(rec[p].sum) \in Nat
      BY <1>3, PrefixFacts
    <3> QED BY <3>1, <3>2
  <2>6. DirInv(up)'
    <3>1. rec[p] # None
      BY <1>1, Names
    <3>2. up'.lock # 2
      BY <1>3, <1>u, <1>a
    <3> QED BY <1>0, <1>u, <1>a, <2>1, <2>2, <2>3, <2>4, <2>5, <3>1, <3>2 DEF DirInv, Frozen
  <2>7. \A d \in older \cup {up} : OrderInv(d)'
    BY <1>u, <1>o, <2>1 DEF OrderInv
  <2> QED BY <1>5, <1>p, <2>6, <2>7
<1> QED BY <1>6, <1>7

\* The record is renamed into place.
LEMMA LaterWrites ==
    ASSUME OsInv, begun, NEW p \in Proc, ProcStep(p), WriteRecord(p)
    PROVE  Later'
<1> USE DEF upload, digest, procs, bounds, history, still, Continue, Goto
<1>0. Kept(p) /\ ProcTy /\ ByteTy /\ DigestTy /\ CtlInv(p)
  BY KeepsPlaces, TypeGroups DEF OsInv
<1>1. /\ pc[p] = "rename" /\ pc'[p] = "sync" /\ UNCHANGED <<op, fl, rec, dlock>>
      /\ UNCHANGED <<data, synced, sum, acked, done, begun, share, entry, solid, erased, pruned>>
  BY <1>0 DEF WriteRecord, ProcTy
<1>2. Puts(up.lock, up.blob, rec[p], up.pub) /\ Orderly' /\ DirTy'
  BY DirSteps, NextRecord
<1>3. RecInv(p) /\ AppendInv(p) /\ NextInv(p) /\ rec[p] \in Records
  BY <1>1, AtWork DEF WorkPcs
<1>4. ByteTy' /\ DigestTy'
  BY <1>0, <1>1 DEF ByteTy, DigestTy
<1>u. up'.lock = up.lock /\ up'.man = rec[p]
  BY <1>2 DEF Puts
<1>5. RecInv(p)'
  BY <1>1, <1>3, <1>u, Names DEF RecInv, CommitPcs
<1>6. AppendInv(p)'
  BY <1>1, <1>3, <1>u DEF AppendInv
<1>7. NextInv(p)'
  BY <1>1 DEF NextInv
<1> QED BY <1>0, <1>1, <1>2, <1>4, <1>u, <1>5, <1>6, <1>7, WorkStep DEF WorkPcs, WorkInv

\* The record is synced: nothing older comes back.
LEMMA LaterSyncs ==
    ASSUME OsInv, begun, NEW p \in Proc, ProcStep(p), SyncedAppend(p) \/ SyncedOn(p)
    PROVE  Later'
<1> USE DEF upload, digest, procs, bounds, history, still, Continue, Goto
<1>0. Kept(p) /\ ProcTy /\ ByteTy /\ DigestTy /\ CtlInv(p) /\ DirTy /\ LinkInv /\ FlagTy
  BY KeepsPlaces, TypeGroups DEF OsInv
<1>1. /\ pc[p] = "sync" /\ up' = up /\ older' = {}
      /\ UNCHANGED <<data, synced, sum, begun, share, entry, solid, erased, pruned, expired>>
  BY DEF SyncedAppend, SyncedOn, Synced, SyncDir
<1>2. RecInv(p) /\ AppendInv(p) /\ rec[p] = up.man /\ up.man \in Records /\ DirInv(up)
        /\ up.man.sum \in Bytes /\ up.man # None /\ op[p] # "Begin"
  BY <1>1, AtWork, Fields DEF WorkPcs, RecInv
<1>3. DirTy' /\ DigestTy'
  BY <1>0, <1>1, HolderTy DEF DirTy, DigestTy
<1>4. LinkInv'
  BY <1>0, <1>1 DEF LinkInv, Frozen
<1>5. CASE SyncedAppend(p)
  <2>1. op[p] = "Append" /\ acked' = up.man.sum /\ done' = done /\ pc'[p] = "idle" /\ fl'[p] = None
    BY <1>0, <1>2, <1>5 DEF SyncedAppend, Leave, ProcTy
  <2>2. up.man.state = "active" /\ IsPrefix(up.man.sum, up.man.sum)
    BY <1>2, <2>1, PrefixFacts DEF AppendInv
  <2>3. DirInv(up)'
    BY <1>1, <1>2, <2>1, <2>2 DEF DirInv, Frozen
  <2>4. ByteTy'
    BY <1>0, <1>1, <1>2, <2>1 DEF ByteTy
  <2>5. Orderly'
    BY <1>1, <1>4, <2>3 DEF Orderly
  <2> QED BY <1>0, <1>1, <1>3, <2>1, <2>4, <2>5, WorkStep DEF WorkPcs
<1>6. CASE SyncedOn(p)
  <2>1. UNCHANGED <<op, fl, rec, dlock, acked>> /\ pc'[p] \in {"dlock", "rmblob"}
    BY <1>0, <1>2, <1>6 DEF SyncedOn, ProcTy
  <2>2. /\ pc'[p] = "dlock" => up.man.state = "committing" /\ done' = done
        /\ pc'[p] = "rmblob" => up.man.state \in {"committed", "aborted"}
             /\ done' = (done \/ up.man.state = "committed")
    BY <1>0, <1>2, <1>6 DEF SyncedOn, ProcTy
  <2>3. DirInv(up)'
    <3>1. done' => up.man.state = "committed"
      <4>1. done => up.man.state = "committed"
        BY <1>2 DEF DirInv
      <4>2. done \in BOOLEAN
        BY <1>0 DEF FlagTy
      <4> QED BY <2>1, <2>2, <4>1, <4>2
    <3>2. ASSUME NEW d, d = up PROVE DirInv(d)'
      <4>1. DirInv(d)
        BY <1>2, <3>2
      <4> QED BY <1>1, <2>1, <3>1, <3>2, <4>1 DEF DirInv, Frozen
    <3> QED BY <1>1, <3>2
  <2>4. ByteTy'
    BY <1>0, <1>1, <2>1 DEF ByteTy
  <2>5. Orderly'
    BY <1>1, <1>4, <2>3 DEF Orderly
  <2>6. RecInv(p)'
    BY <1>1, <1>2, <2>1, <2>2 DEF RecInv, CommitPcs
  <2>7. AppendInv(p)' /\ NextInv(p)'
    BY <1>1, <1>2, <2>1, <2>2 DEF AppendInv, NextInv
  <2> QED BY <1>0, <1>1, <1>3, <2>1, <2>4, <2>5, <2>6, <2>7, WorkStep DEF WorkPcs, WorkInv
<1> QED BY <1>5, <1>6

\* The blob of an ended commit and publish/ are removed, and the directory synced.
LEMMA LaterTidies ==
    ASSUME OsInv, begun, NEW p \in Proc, ProcStep(p), RemoveBlob(p) \/ LastSync(p) \/ PruneClean(p)
    PROVE  Later'
<1> USE DEF upload, digest, procs, bounds, history, still, Continue, Goto
<1>0. Kept(p) /\ ProcTy /\ ByteTy /\ DigestTy /\ CtlInv(p) /\ DirTy /\ LinkInv
  BY KeepsPlaces, TypeGroups DEF OsInv
<1>1. /\ pc[p] \in {"rmblob", "lastsync", "clean"}
      /\ UNCHANGED <<data, synced, sum, acked, done, begun, share, entry, solid, erased, pruned, expired>>
  BY DEF RemoveBlob, LastSync, PruneClean
<1>2. /\ RecInv(p) /\ AppendInv(p) /\ rec[p] = up.man /\ up.man \in Records /\ DirInv(up) /\ up.man # None
      /\ op[p] # "Append" /\ up.man.state \in States
  <2>1. RecInv(p) /\ AppendInv(p) /\ up.man \in Records /\ DirInv(up) /\ CtlInv(p)
    BY <1>1, AtWork DEF WorkPcs
  <2>2. rec[p] = up.man /\ up.man # None
    BY <1>1, <2>1 DEF RecInv
  <2>3. op[p] # "Append"
    BY <1>1, <2>1 DEF CtlInv, Place, AppendPcs
  <2> QED BY <2>1, <2>2, <2>3, Fields
<1>3. ByteTy' /\ DigestTy'
  BY <1>0, <1>1, HolderTy DEF ByteTy, DigestTy
<1>4. LinkInv'
  BY <1>0, <1>1 DEF LinkInv, Frozen
<1>c. \A d \in older \cup {up} : d.man # None /\ d.man.state = "committed" /\ ~erased' => entry' # None
        /\ solid'
  BY <1>1 DEF OsInv, DirInv
\* The directory stays, or loses its blob or its publish/.
<1>t. ASSUME NEW b \in BOOLEAN, NEW w \in {None, up.pub}, Puts(up.lock, b, up.man, w),
             b => up.blob, up.man.state \in {"active", "committing"} => b = up.blob
      PROVE  Orderly' /\ DirTy' /\ up'.lock = up.lock /\ up'.man = up.man
  <2>1. up'.lock = up.lock /\ up'.blob = b /\ up'.man = up.man /\ up'.pub = w
    BY <1>t DEF Puts
  <2>2. DirInv(up)'
    <3>1. w = "mine" => up.pub = "mine"
      BY <1>t, Names DEF Whose
    <3>2. up.pub = None => w = None
      BY <1>t
    <3> QED BY <1>1, <1>2, <1>t, <2>1, <3>1, <3>2 DEF DirInv, Frozen
  <2>3. \A d \in older \cup {up} : OrderInv(d)'
    BY <2>1, SameRecord
  <2>4. Orderly'
    BY <1>1, <1>2, <1>4, <1>c, <1>t, <2>2, <2>3, PutOrder
  <2> QED BY <1>0, <1>t, <2>1, <2>4, PutTy
<1>s. ASSUME Stays PROVE Orderly' /\ DirTy' /\ up'.lock = up.lock /\ up'.man = up.man
  BY <1>0, <1>1, <1>s, SameOrder, PutTy DEF Stays
<1>w. ASSUME Orderly' /\ DirTy' /\ up'.lock = up.lock, fl'[p] \in {None, fl[p]}, pc'[p] # "orphanlock",
             pc'[p] = "rm" => expired,
             pc'[p] \in WorkPcs => WorkInv(p)'
      PROVE  Later'
  <2>1. pc[p] \in WorkPcs
    BY <1>1 DEF WorkPcs
  <2> QED BY <1>0, <1>1, <1>3, <1>w, <2>1, WorkStep
<1>5. CASE RemoveBlob(p)
  <2>1. pc[p] = "rmblob" /\ pc'[p] = "lastsync" /\ UNCHANGED <<op, fl, rec, dlock>>
    BY <1>0, <1>5 DEF RemoveBlob, ProcTy
  <2>2. up.man.state \in {"committed", "aborted"}
    BY <1>2, <2>1 DEF RecInv
  <2>3. Orderly' /\ DirTy' /\ up'.lock = up.lock /\ up'.man = up.man
    <3>1. Stays \/ Puts(up.lock, FALSE, up.man, up.pub)
      BY <1>5, DirSteps
    <3> QED BY <1>s, <1>t, <2>2, <3>1
  <2>4. RecInv(p)'
    BY <1>2, <2>1, <2>3 DEF RecInv, CommitPcs
  <2>5. AppendInv(p)' /\ NextInv(p)'
    BY <1>2, <2>1 DEF AppendInv, NextInv
  <2> QED BY <1>w, <2>1, <2>3, <2>4, <2>5 DEF WorkInv
<1>6. CASE PruneClean(p)
  <2>1. pc[p] = "clean" /\ pc'[p] = "lastsync" /\ UNCHANGED <<op, fl, rec, dlock>>
    BY <1>0, <1>6 DEF PruneClean, ProcTy
  <2>2. up.man.state # "committing" /\ dlock # p
    BY <1>0, <1>2, <2>1 DEF RecInv, CtlInv, DigestPcs, CommitPcs
  <2>3. Orderly' /\ DirTy' /\ up'.lock = up.lock /\ up'.man = up.man
    <3>1. Stays \/ \E b \in BOOLEAN : Puts(up.lock, b, up.man, None)
            /\ (rec[p].state = "active" => b = up.blob) /\ (b => up.blob)
      BY <1>6, CleanStep
    <3> QED BY <1>s, <1>t, <1>2, <2>2, <3>1
  <2>4. RecInv(p)'
    BY <1>2, <2>1, <2>2, <2>3 DEF RecInv, CommitPcs
  <2>5. AppendInv(p)' /\ NextInv(p)'
    BY <1>2, <2>1 DEF AppendInv, NextInv
  <2> QED BY <1>w, <2>1, <2>3, <2>4, <2>5 DEF WorkInv
<1>7. CASE LastSync(p)
  <2>0. pc[p] = "lastsync"
    BY <1>7 DEF LastSync
  <2>1. Stays
    BY <1>7 DEF LastSync, SyncDir, Same, Stays
  <2>2. Orderly' /\ DirTy' /\ up'.lock = up.lock /\ up'.man = up.man
    BY <1>s, <2>1
  <2>3. CASE ~(op[p] = "Prune" /\ dlock = p)
    <3>1. pc'[p] = "idle" /\ fl'[p] = None
      BY <1>0, <1>7, <2>3 DEF LastSync, Leave, ProcTy
    <3> QED BY <1>w, <2>2, <3>1 DEF WorkPcs
  <2>4. CASE op[p] = "Prune" /\ dlock = p
    <3>1. up.man.state = "committed"
      BY <1>2, <2>0, <2>4 DEF RecInv
    <3>2. pc'[p] = Tidy(rec[p]) /\ UNCHANGED <<op, fl, rec>> /\ dlock' = None
      BY <1>0, <1>7, <2>4 DEF LastSync, ProcTy
    <3>3. pc'[p] \in {"rm", "clean"} /\ (pc'[p] = "rm" => expired)
      BY <1>2, <3>1, <3>2 DEF Tidy
    <3>4. dlock' # p
      BY <3>2, Names
    <3>5. RecInv(p)'
      BY <1>2, <2>0, <2>2, <3>1, <3>2, <3>3, <3>4 DEF RecInv, CommitPcs
    <3>6. AppendInv(p)' /\ NextInv(p)'
      BY <1>2, <3>2, <3>3 DEF AppendInv, NextInv
    <3> QED BY <1>w, <2>2, <3>2, <3>3, <3>5, <3>6 DEF WorkInv
  <2> QED BY <2>3, <2>4
<1> QED BY <1>5, <1>6, <1>7

-----------------------------------------------------------------------------
(* recoverCommit.                                                          *)

\* A call that publishes works with a frozen record, before any receipt.
LEMMA Committing ==
    ASSUME OsInv, begun, NEW p \in Proc, pc[p] \in CommitPcs \cup {"dlock"}
    PROVE  /\ RecInv(p) /\ rec[p] = up.man /\ up.man \in Records /\ up.man # None /\ DirInv(up)
           /\ up.man.state = "committing" /\ Frozen /\ op[p] # "Append" /\ pc[p] \in WorkPcs
           /\ \A d \in older \cup {up} : d.man # None => d.man.state # "committed"
<1>1. pc[p] \in WorkPcs
  BY DEF WorkPcs, CommitPcs
<1>2. RecInv(p) /\ up.man \in Records /\ DirInv(up) /\ CtlInv(p)
  BY <1>1, AtWork
<1>3. rec[p] = up.man /\ up.man # None /\ up.man.state = "committing"
  BY <1>2 DEF RecInv, CommitPcs
<1>4. Frozen
  BY <1>2, <1>3 DEF DirInv
<1>5. op[p] # "Append"
  BY <1>2 DEF CtlInv, Place, AppendPcs, CommitPcs
<1>6. ASSUME NEW d \in older \cup {up}, d.man # None PROVE d.man.state # "committed"
  <2>1. CASE d = up
    BY <1>3, <2>1
  <2>2. CASE d \in older
    BY <1>3, <1>6, <2>2 DEF OsInv, OrderInv
  <2> QED BY <2>1, <2>2
<1> QED BY <1>1, <1>2, <1>3, <1>4, <1>5, <1>6

\* The digest's lock, publish/, share/, the entry and the receipt.
LEMMA LaterPublishing ==
    ASSUME OsInv, begun, NEW p \in Proc, ProcStep(p), Publishing(p)
    PROVE  Later'
<1> USE DEF upload, digest, procs, bounds, history, still, Continue, Goto
<1>0. Kept(p) /\ ProcTy /\ ByteTy /\ DigestTy /\ CtlInv(p) /\ DirTy /\ LinkInv
  BY KeepsPlaces, TypeGroups DEF OsInv
<1>1. UNCHANGED <<data, synced, sum, acked, done, begun, pruned, expired>>
  BY DEF Publishing, Withdraws, LockDigest, Prepare, LinkShare, Publish, Receipts
<1>2. ByteTy'
  BY <1>0, <1>1 DEF ByteTy
<1>w. ASSUME Orderly', DirTy', DigestTy', up'.lock = up.lock, pc[p] \in WorkPcs, fl'[p] \in {None, fl[p]},
             pc'[p] \notin {"orphanlock", "rm"}, pc'[p] \in WorkPcs => WorkInv(p)'
      PROVE  Later'
  BY <1>0, <1>1, <1>2, <1>w, WorkStep
<1>3. CASE Withdraws(p)
  <2>1. dlock = p /\ pc'[p] = "idle" /\ fl'[p] = None /\ UNCHANGED <<share, entry, solid, erased>>
    BY <1>0, <1>3 DEF Withdraws, Leave, ProcTy
  <2>2. pc[p] \in WorkPcs
    BY <1>0, <2>1 DEF CtlInv, DigestPcs, CommitPcs, WorkPcs
  <2>3. up.man # None /\ DirInv(up)
    BY <2>2, AtWork DEF RecInv
  <2>4. Puts(up.lock, up.blob, up.man, None)
    BY <1>3, DirSteps
  <2>u. up'.lock = up.lock /\ up'.blob = up.blob /\ up'.man = up.man /\ up'.pub = None
    BY <2>4 DEF Puts
  <2>5. DirInv(up)'
    <3>1. None # "mine"
      BY Names DEF Whose
    <3> QED BY <1>1, <2>1, <2>3, <2>u, <3>1 DEF DirInv, Frozen
  <2>6. \A d \in older \cup {up} : OrderInv(d)'
    BY <2>u, SameRecord
  <2>7. LinkInv'
    BY <1>0, <1>1, <2>1 DEF LinkInv, Frozen
  <2>8. \A d \in older \cup {up} : d.man # None /\ d.man.state = "committed"
          /\ ~erased' => entry' # None /\ solid'
    BY <2>1 DEF OsInv, DirInv
  <2>9. Orderly'
    BY <1>1, <2>3, <2>4, <2>5, <2>6, <2>7, <2>8, PutOrder
  <2>10. DirTy' /\ DigestTy'
    BY <1>0, <2>1, <2>4, PutTy, HolderTy DEF DigestTy
  <2> QED BY <1>w, <2>1, <2>2, <2>u, <2>9, <2>10 DEF WorkPcs
\* The others: nothing has a receipt, and the bytes are frozen.
<1>o. ASSUME pc[p] \in CommitPcs \cup {"dlock"}, {share', entry'} \subseteq Whose \cup {None},
             \/ up' = up /\ older' = older
             \/ \E w \in Whose \cup {None} : Puts(up.lock, up.blob, up.man, w)
      PROVE  Orderly' /\ DirTy' /\ DigestTy' /\ up'.lock = up.lock /\ up'.man = up.man
  <2>1. /\ up.man # None /\ DirInv(up) /\ up.man.state = "committing" /\ Frozen
        /\ \A d \in older \cup {up} : d.man # None => d.man.state # "committed"
    BY <1>o, Committing
  <2>2. LinkInv'
    BY <1>1, <2>1 DEF LinkInv, Frozen
  <2>3. DigestTy'
    BY <1>o, HolderTy DEF DigestTy
  <2>4. ASSUME NEW d \in older \cup {up} PROVE DirInv(d)'
    <3>1. DirInv(d)
      BY DEF OsInv
    <3> QED BY <1>1, <2>1, <3>1, DirKeeps
  <2>5. CASE up' = up /\ older' = older
    <3>1. \A d \in older' : OrderInv(d)'
      BY <2>5 DEF OsInv, OrderInv
    <3>2. DirTy'
      BY <1>0, <2>5 DEF DirTy
    <3> QED BY <2>2, <2>3, <2>4, <2>5, <3>1, <3>2 DEF Orderly
  <2>6. CASE \E w \in Whose \cup {None} : Puts(up.lock, up.blob, up.man, w)
    <3>1. PICK w \in Whose \cup {None} : Puts(up.lock, up.blob, up.man, w)
      BY <2>6
    <3>u. up'.lock = up.lock /\ up'.blob = up.blob /\ up'.man = up.man /\ up'.pub = w
            /\ older' = older \cup {up}
      BY <3>1 DEF Puts
    <3>2. DirInv(up)'
      BY <1>1, <2>1, <3>u DEF DirInv, Frozen
    <3>3. \A d \in older \cup {up} : OrderInv(d)'
      BY <3>u, SameRecord
    <3>4. DirTy'
      BY <1>0, <3>1, PutTy
    <3> QED BY <2>2, <2>3, <2>4, <3>u, <3>2, <3>3, <3>4 DEF Orderly
  <2> QED BY <1>o, <2>5, <2>6
<1>c. ASSUME pc[p] \in CommitPcs \cup {"dlock"}, UNCHANGED <<op, fl, rec>>, pc'[p] \in CommitPcs,
             up'.man = up.man
      PROVE  WorkInv(p)' /\ pc'[p] \notin {"orphanlock", "rm"}
  <2>1. RecInv(p) /\ rec[p] = up.man /\ up.man.state = "committing" /\ op[p] # "Append"
    BY <1>c, Committing
  <2>2. RecInv(p)'
    BY <1>c, <2>1 DEF RecInv, CommitPcs
  <2>3. AppendInv(p)' /\ NextInv(p)' /\ pc'[p] \notin {"orphanlock", "rm"}
    BY <1>c, <2>1 DEF AppendInv, NextInv, CommitPcs
  <2> QED BY <2>2, <2>3 DEF WorkInv
<1>4. CASE LockDigest(p) \/ Prepare(p) \/ LinkShare(p) \/ Publish(p)
  <2>1. pc[p] \in CommitPcs \cup {"dlock"} /\ UNCHANGED <<op, fl, rec>> /\ pc'[p] \in CommitPcs
    BY <1>0, <1>4 DEF LockDigest, Prepare, LinkShare, Publish, CommitPcs, ProcTy
  <2>2. up \in Dirs /\ up.pub \in Whose \cup {None} /\ pc[p] \in WorkPcs
    <3>1. pc[p] \in WorkPcs
      BY <2>1, Committing
    <3> QED BY <1>0, <3>1, AtWork, Fields DEF DirTy
  <2>3. {share', entry'} \subseteq Whose \cup {None}
    BY <1>0, <1>4, <2>2 DEF LockDigest, Prepare, LinkShare, Publish, DigestTy, Whose
  <2>4. \/ up' = up /\ older' = older
        \/ \E w \in Whose \cup {None} : Puts(up.lock, up.blob, up.man, w)
    <3>1. CASE LockDigest(p) \/ LinkShare(p)
      BY <3>1 DEF LockDigest, LinkShare
    <3>2. CASE Prepare(p) \/ Publish(p)
      BY <3>2, CommitDirSteps
    <3> QED BY <1>4, <3>1, <3>2
  <2>5. Orderly' /\ DirTy' /\ DigestTy' /\ up'.lock = up.lock /\ up'.man = up.man
    BY <1>o, <2>1, <2>3, <2>4
  <2>6. WorkInv(p)' /\ pc'[p] \notin {"orphanlock", "rm"}
    BY <1>c, <2>1, <2>5
  <2> QED BY <1>w, <2>1, <2>2, <2>5, <2>6
<1>5. CASE Receipts(p)
  <2>1. /\ pc[p] = "entrysync" /\ pc'[p] = "rename"
          /\ UNCHANGED <<op, fl, dlock, up, older, share, entry>> /\ entry # None /\ solid'
        /\ rec'[p] = [rec[p] EXCEPT !.state = "committed"]
    BY <1>0, <1>5 DEF Receipts, ProcTy
  <2>2. pc[p] \in CommitPcs /\ dlock = p
    BY <1>0, <2>1 DEF CtlInv, CommitPcs
  <2>3. RecInv(p) /\ rec[p] = up.man /\ up.man \in Records /\ up.man.state = "committing"
          /\ op[p] # "Append" /\ pc[p] \in WorkPcs
    BY <2>2, Committing
  <2>4. {share', entry'} \subseteq Whose \cup {None}
    BY <1>0, <2>1 DEF DigestTy
  <2>5. Orderly' /\ DirTy' /\ DigestTy'
    BY <1>o, <2>1, <2>2, <2>4
  <2>6. rec'[p] \in Records /\ rec'[p].state = "committed" /\ rec'[p].sum = up.man.sum
    BY <2>1, <2>3 DEF Records, States
  <2>7. RecInv(p)'
    BY <2>1, <2>2, <2>3, <2>6, Names DEF RecInv, CommitPcs
  <2>8. AppendInv(p)'
    BY <2>1, <2>3 DEF AppendInv
  <2>9. NextInv(p)'
    BY <2>1, <2>3, <2>6 DEF NextInv
  <2> QED BY <1>w, <2>1, <2>3, <2>5, <2>7, <2>8, <2>9 DEF WorkInv
<1> QED BY <1>3, <1>4, <1>5 DEF Publishing

\* A step of a process keeps the invariant.
LEMMA ProcNext ==
    ASSUME OsInv, NEW p \in Proc, ProcStep(p), BoundTy'
    PROVE  OsInv'
<1>1. CASE ~begun /\ ~begun'
  BY <1>1, EarlyNext
<1>2. CASE ~begun /\ begun'
  BY <1>2, Begins
<1>3. CASE begun
  <2>1. Later'
    BY <1>3, Cases, LaterMoving, LaterMaking, LaterCuts, LaterBytes, LaterWrites, LaterSyncs,
       LaterTidies, LaterPublishing DEF Filing
  <2> QED BY <1>3, <2>1, LaterNext
<1> QED BY <1>1, <1>2, <1>3

-----------------------------------------------------------------------------
(* Time, other callers and the power.                                      *)

\* Where neither the stage nor a process moves, the links may change as long as none of
\* the stage's comes up and a receipt stays true.
LEMMA Bystanders ==
    ASSUME OsInv, FlagTy', BoundTy', late' \subseteq Proc,
           {share', entry'} \subseteq Whose \cup {None}, expired => expired',
           UNCHANGED <<up, older, rooted, data, synced, sum, dlock, op, pc, fl, holds, rec, begun, acked, done, pruned>>,
           "mine" \in {share', entry'} => "mine" \in {share, entry},
           erased \/ (entry # None /\ solid) => erased' \/ (entry' # None /\ solid'),
           \A p \in Proc : op[p] = "Begin" => Fresh(p)'
    PROVE  OsInv'
<1>1. TypeOK'
  <2>1. DirTy' /\ ByteTy' /\ DigestTy' /\ ProcTy' /\ HoldTy'
    <3>1. DirTy /\ ByteTy /\ DigestTy /\ ProcTy /\ HoldTy
      BY TypeGroups DEF OsInv
    <3>2. DirTy' /\ ByteTy' /\ DigestTy'
      BY <3>1 DEF DirTy, ByteTy, DigestTy
    <3>3. ProcTy' /\ HoldTy'
      BY <3>1 DEF ProcTy, HoldTy
    <3> QED BY <3>2, <3>3
  <2>2. (DirTy /\ FlagTy /\ ByteTy /\ DigestTy /\ ProcTy /\ BoundTy /\ HoldTy)' => TypeOK'
    BY TypeGroups, PTL
  <2> QED BY <2>1, <2>2
<1>2. \A p \in Proc : CtlInv(p)'
  BY DEF OsInv, CtlInv
<1>3. ~begun' => Early'
  BY DEF OsInv, Early
<1>4. TwoInv' /\ Begun' /\ LinkInv'
  BY DEF OsInv, TwoInv, Begun, LinkInv, Frozen
<1>5. ASSUME NEW p \in Proc, begun', pc'[p] \in WorkPcs PROVE WorkInv(p)'
  <2>0. RecInv(p) /\ AppendInv(p) /\ NextInv(p)
    BY <1>5 DEF OsInv, WorkInv
  <2>1. RecInv(p)'
    BY <2>0 DEF RecInv
  <2>2. AppendInv(p)'
    BY <2>0 DEF AppendInv, Alone
  <2>3. NextInv(p)'
    BY <2>0 DEF NextInv
  <2> QED BY <2>1, <2>2, <2>3 DEF WorkInv
<1>6. ASSUME NEW d \in older \cup {up} PROVE DirInv(d)'
  <2>1. DirInv(d)
    BY DEF OsInv
  <2>2. d.man # None /\ d.man.state = "committed" /\ ~erased' => entry' # None /\ solid'
    BY <2>1 DEF DirInv
  <2> QED BY <2>1, <2>2, DirKeeps
<1>7. \A d \in older' : OrderInv(d)'
  BY DEF OsInv, OrderInv
<1> QED BY <1>1, <1>2, <1>3, <1>4, <1>5, <1>6, <1>7 DEF OsInv

\* A stage expires, a directory ages, and other callers add, erase and clean up.
LEMMA OthersNext ==
    ASSUME OsInv, BoundTy',
           Expire \/ Age \/ OtherAdd \/ OtherErase \/ OtherEraseEnd \/ OtherCleanup \/ UNCHANGED vars
    PROVE  OsInv'
<1> USE DEF upload, digest, procs, bounds, history, vars
<1>0. FlagTy /\ DigestTy /\ ProcTy
  BY TypeGroups DEF OsInv
<1>1. /\ UNCHANGED <<up, older, rooted, data, synced, sum, dlock, op, pc, fl, holds, rec, begun, acked, done, pruned>>
      /\ expired => expired'
  BY DEF Expire, Age, OtherAdd, OtherErase, OtherEraseEnd, OtherCleanup
<1>2. FlagTy' /\ late' \subseteq Proc
  <2>1. /\ rooted \in BOOLEAN /\ expired \in BOOLEAN /\ aged \in BOOLEAN /\ orphan \in BOOLEAN
          /\ solid \in BOOLEAN
        /\ begun \in BOOLEAN /\ done \in BOOLEAN /\ erased \in BOOLEAN /\ pruned \in BOOLEAN
    BY <1>0 DEF FlagTy
  <2>2. FlagTy'
    BY <2>1 DEF FlagTy, Expire, Age, OtherAdd, OtherErase, OtherEraseEnd, OtherCleanup
  <2>3. late' \subseteq Proc
    BY <1>0 DEF ProcTy, Expire, Age, OtherAdd, OtherErase, OtherEraseEnd, OtherCleanup
  <2> QED BY <2>2, <2>3
<1>3. /\ {share', entry'} \subseteq Whose \cup {None}
      /\ "mine" \in {share', entry'} => "mine" \in {share, entry}
      /\ erased \/ (entry # None /\ solid) => erased' \/ (entry' # None /\ solid')
  <2>1. CASE UNCHANGED <<share, entry, solid, erased>>
    BY <1>0, <2>1 DEF DigestTy
  <2>2. CASE OtherAdd
    BY <1>0, <2>2, Names DEF OtherAdd, DigestTy, Whose
  <2>3. CASE OtherErase
    BY <1>0, <2>3, Names DEF OtherErase, DigestTy, Whose
  <2>4. CASE OtherCleanup
    BY <1>0, <2>4, Names DEF OtherCleanup, DigestTy, Whose
  <2>5. CASE Expire \/ Age \/ OtherEraseEnd \/ UNCHANGED vars
    BY <2>1, <2>5 DEF Expire, Age, OtherEraseEnd
  <2> QED BY <2>2, <2>3, <2>4, <2>5
<1>4. ASSUME NEW p \in Proc, op[p] = "Begin" PROVE Fresh(p)'
  <2>0. Fresh(p) /\ CtlInv(p)
    BY <1>4 DEF OsInv
  <2>1. CASE Age
    <3>1. up.dir /\ up.man = None /\ pc[p] # "rm" /\ late' = {q \in Proc : pc[q] # "idle"}
      BY <2>1 DEF Age
    <3>2. p \in late'
      BY <1>4, <2>0, <3>1 DEF CtlInv, Place, BeginPcs
    <3>3. pc[p] \notin {"mkdir", "sync", "rootsync"}
      <4>1. CASE p \in late
        BY <2>0, <4>1 DEF Fresh
      <4>2. CASE p \notin late
        BY <2>0, <3>1, <4>2, Names DEF Fresh
      <4> QED BY <4>1, <4>2
    <3> QED BY <1>1, <2>0, <3>2, <3>3 DEF Fresh
  <2>2. CASE ~Age
    <3>1. UNCHANGED <<late, aged>>
      BY <2>2 DEF Expire, OtherAdd, OtherErase, OtherEraseEnd, OtherCleanup
    <3> QED BY <1>1, <2>0, <3>1 DEF Fresh
  <2> QED BY <2>1, <2>2
<1> QED BY <1>1, <1>2, <1>3, <1>4, Bystanders

\* Everything is idle, and the directory is one of those that a power loss may leave.
LEMMA PowerFacts ==
    ASSUME OsInv, PowerLoss
    PROVE  /\ older' = {} /\ UNCHANGED <<rooted, synced, sum, share, begun, acked, done, erased, pruned, expired>>
           /\ up' \in older \cup {up} \/ (~begun /\ up' = NoDir)
           /\ data' \in Bytes /\ synced \in 0 .. Len(data')
           /\ synced = Len(data) => data' = data
           /\ \A s \in Bytes : IsPrefix(s, data) /\ synced >= Len(s) => IsPrefix(s, data')
           /\ entry' \in {entry, None} /\ (solid => entry' = entry) /\ solid' \in BOOLEAN
           /\ solid /\ entry # None => solid'
           /\ dlock' = None /\ holds' = {} /\ late' = {}
           /\ \A p \in Proc : op'[p] = None /\ pc'[p] = "idle" /\ fl'[p] = None /\ rec'[p] = None
           /\ ProcTy' /\ HoldTy'
<1> USE DEF upload, digest, procs, bounds, history
<1>1. /\ older' = {} /\ UNCHANGED <<rooted, synced, sum, share, begun, acked, done, erased, pruned, expired>>
      /\ dlock' = None /\ holds' = {} /\ late' = {}
  BY DEF PowerLoss
<1>2. up' \in older \cup {up} \/ (~begun /\ up' = NoDir)
  <2>1. begun => rooted
    BY DEF OsInv, Begun
  <2> QED BY <2>1 DEF PowerLoss
<1>3. /\ data' \in Bytes /\ synced \in 0 .. Len(data')
      /\ synced = Len(data) => data' = data
      /\ \A s \in Bytes : IsPrefix(s, data) /\ synced >= Len(s) => IsPrefix(s, data')
  <2>1. PICK n \in synced .. Len(data) : data' = SubSeq(data, 1, n)
    BY DEF PowerLoss
  <2>2. data \in Bytes /\ synced \in 0 .. Len(data) /\ Len(data) \in Nat
    BY TypeGroups, PrefixFacts DEF OsInv, ByteTy
  <2>3. n \in 0 .. Len(data) /\ synced <= n /\ synced \in Nat
    BY <2>1, <2>2
  <2>4. /\ data' \in Bytes /\ Len(data') = n /\ (n = Len(data) => data' = data)
        /\ \A s \in Bytes : IsPrefix(s, data) /\ Len(s) <= n => IsPrefix(s, data')
    BY <2>1, <2>2, <2>3, Cut
  <2>5. synced \in 0 .. Len(data') /\ (synced = Len(data) => n = Len(data))
    BY <2>2, <2>3, <2>4
  <2>6. \A s \in Bytes : Len(s) \in Nat /\ (synced >= Len(s) => Len(s) <= n)
    BY <2>3, PrefixFacts
  <2> QED BY <2>4, <2>5, <2>6
<1>4. entry' \in {entry, None} /\ (solid => entry' = entry) /\ solid' \in BOOLEAN
        /\ (solid /\ entry # None => solid')
  BY DEF PowerLoss
<1>5. \A p \in Proc : op'[p] = None /\ pc'[p] = "idle" /\ fl'[p] = None /\ rec'[p] = None
  BY DEF PowerLoss
<1>6. ProcTy' /\ HoldTy'
  BY DEF PowerLoss, ProcTy, HoldTy, Labels
<1> QED BY <1>1, <1>2, <1>3, <1>4, <1>5, <1>6

\* After a power loss.
LEMMA PowerNext ==
    ASSUME OsInv, BoundTy', PowerLoss
    PROVE  OsInv'
<1>0. /\ older' = {} /\ UNCHANGED <<rooted, synced, sum, share, begun, acked, done, erased, pruned, expired>>
      /\ up' \in older \cup {up} \/ (~begun /\ up' = NoDir)
      /\ data' \in Bytes /\ synced \in 0 .. Len(data')
      /\ synced = Len(data) => data' = data
      /\ \A s \in Bytes : IsPrefix(s, data) /\ synced >= Len(s) => IsPrefix(s, data')
      /\ entry' \in {entry, None} /\ (solid => entry' = entry) /\ solid' \in BOOLEAN
      /\ solid /\ entry # None => solid'
      /\ dlock' = None /\ holds' = {} /\ late' = {}
      /\ \A p \in Proc : op'[p] = None /\ pc'[p] = "idle" /\ fl'[p] = None /\ rec'[p] = None
      /\ ProcTy' /\ HoldTy'
  BY PowerFacts
<1>t. DirTy /\ ByteTy /\ DigestTy /\ FlagTy /\ LinkInv
  BY TypeGroups DEF OsInv
<1>1. TypeOK'
  <2>1. DirTy' /\ ByteTy' /\ DigestTy'
    BY <1>0, <1>t DEF DirTy, ByteTy, DigestTy
  <2>2. FlagTy'
    <3>1. UNCHANGED <<aged, orphan>>
      BY DEF PowerLoss
    <3> QED BY <1>0, <1>t, <3>1 DEF FlagTy
  <2>3. (DirTy /\ FlagTy /\ ByteTy /\ DigestTy /\ ProcTy /\ BoundTy /\ HoldTy)' => TypeOK'
    BY TypeGroups, PTL
  <2> QED BY <1>0, <2>1, <2>2, <2>3
<1>2. ASSUME NEW p \in Proc PROVE CtlInv(p)' /\ op'[p] # "Begin" /\ pc'[p] \notin WorkPcs
  <2>1. op'[p] = None /\ pc'[p] = "idle" /\ fl'[p] = None /\ p \notin holds' /\ dlock' # p
          /\ None \notin Ops
    BY <1>0, Names
  <2> QED BY <2>1 DEF CtlInv, Place, Locked, WorkPcs, CommitPcs, Ops
<1>3. Lone'
  <2>1. \A d \in older \cup {up} : d.lock = 2 => d.man = None
    BY DEF OsInv, DirInv
  <2> QED BY <1>0, <2>1, Fields, Names DEF Lone
<1>4. TwoInv'
  BY <1>0, <1>3, Names DEF TwoInv, Lone
<1>5. ASSUME Frozen PROVE Frozen'
  BY <1>0, <1>5 DEF Frozen
<1>6. CASE ~begun
  <2>1. Early /\ (\A d \in older \cup {up} : d.pub = None /\ d.man \in {None, R0})
    BY <1>6 DEF OsInv, Early
  <2>2. data' = <<>>
    BY <1>0, <2>1, PrefixFacts DEF Early
  <2>3. up'.pub = None /\ up'.man \in {None, R0}
    BY <1>0, <2>1, Fields
  <2>4. entry' # "mine"
    BY <1>0, <2>1, Names DEF Early, Whose
  <2>5. Early'
    <3>1. \A p \in Proc :
            /\ op'[p] \in {None, "Begin", "Prune"} /\ rec'[p] \in {None, R0}
            /\ op'[p] # "Prune" /\ op'[p] # "Begin"
      BY <1>0, Names DEF Ops
    <3> QED BY <1>0, <2>1, <2>2, <2>3, <2>4, <3>1 DEF Early
  <2>6. ~begun'
    BY <1>0, <1>6
  <2>7. Orderly'
    BY <1>3, <2>5, <2>6, EmptyOrder, PTL
  <2> QED BY <1>1, <1>2, <1>4, <2>5, <2>6, <2>7 DEF OsInv, Begun, Orderly
<1>7. CASE begun
  <2>1. rooted' /\ begun' /\ Begun'
    <3>1. rooted' /\ begun'
      BY <1>0, <1>7 DEF OsInv, Begun
    <3>2. \A p \in Proc : op'[p] # "Begin" /\ pc'[p] \notin {"orphanlock", "rm"}
      BY <1>0, <1>2
    <3> QED BY <3>1, <3>2 DEF Begun
  <2>2. ASSUME NEW d \in older \cup {up} PROVE DirInv(d)'
    <3>1. DirInv(d) /\ d.man \in Records \cup {None}
      BY <1>t, Fields DEF OsInv, DirTy
    <3>2. d.man # None => d.man.sum \in Bytes
      BY <3>1, Fields
    <3>3. d.man # None /\ d.man.state \in {"active", "committing"}
            /\ d.blob => synced' >= Len(d.man.sum) /\ IsPrefix(d.man.sum, data')
      BY <1>0, <3>1, <3>2 DEF DirInv
    <3>4. d.man # None /\ d.man.state = "committed" /\ ~erased => entry' # None /\ solid'
      BY <1>0, <3>1 DEF DirInv
    <3> QED BY <1>0, <1>5, <3>1, <3>3, <3>4 DEF DirInv
  <2>3. LinkInv'
    BY <1>0, <1>t, <1>5, Names DEF LinkInv, Whose
  <2>4. DirInv(up)'
    <3>1. up' \in older \cup {up}
      BY <1>0, <1>7
    <3>2. PICK d \in older \cup {up} : up' = d
      BY <3>1
    <3>3. DirInv(d)'
      BY <2>2
    <3> QED BY <3>2, <3>3 DEF DirInv
  <2> QED BY <1>0, <1>1, <1>2, <1>4, <2>1, <2>3, <2>4 DEF OsInv
<1> QED BY <1>6, <1>7

-----------------------------------------------------------------------------
(* The theorems.                                                           *)

\* The stage Begin has just been called for.
LEMMA InitOs ==
    Init => OsInv
<1> SUFFICES ASSUME Init PROVE OsInv
  OBVIOUS
<1>0. PICK b \in Proc \ Hosts :
        /\ op = [q \in Proc |-> IF q = b THEN "Begin" ELSE None]
        /\ pc = [q \in Proc |-> IF q = b THEN "mkdir" ELSE "idle"]
  BY DEF Init
<1>1. /\ up = NoDir /\ older = {} /\ data = <<>> /\ synced = 0 /\ sum = None /\ acked = <<>> /\ dlock = None
      /\ share = None /\ entry = None /\ ~done /\ ~begun /\ ~aged /\ holds = {} /\ late = {}
      /\ \A q \in Proc : fl[q] = None /\ rec[q] = None
  BY DEF Init
<1>2. \A q \in Proc : (q = b /\ op[q] = "Begin" /\ pc[q] = "mkdir")
        \/ (q # b /\ op[q] = None /\ pc[q] = "idle")
  BY <1>0
<1>3. TypeOK
  <2>1. DirTy /\ FlagTy /\ ByteTy /\ DigestTy
    <3>1. DirTy /\ DigestTy
      BY <1>1 DEF DirTy, DigestTy
    <3>2. FlagTy
      BY DEF Init, FlagTy
    <3>3. ByteTy
      <4>1. Empty
        BY <1>1, Names DEF Empty, Whose
      <4> QED BY <4>1, EmptyTy
    <3> QED BY <3>1, <3>2, <3>3
  <2>2. ProcTy /\ HoldTy
    <3>1. op \in [Proc -> Ops \cup {None}] /\ pc \in [Proc -> Labels]
      BY <1>0 DEF Ops, Labels
    <3> QED BY <1>1, <3>1 DEF Init, ProcTy, HoldTy
  <2>3. BoundTy
    BY OsStageAssumption DEF Init, BoundTy
  <2> QED BY <2>1, <2>2, <2>3, TypeGroups
<1>4. up.lock = None /\ up.man = None /\ up.pub = None /\ ~up.dir
  BY <1>1, Fields
<1>5. ASSUME NEW p \in Proc PROVE CtlInv(p) /\ pc[p] \notin WorkPcs /\ (op[p] = "Begin" => Fresh(p))
  <2>1. dlock # p
    BY <1>1, Names
  <2>2. CtlInv(p) /\ pc[p] \notin WorkPcs
    BY <1>1, <1>2, <2>1, Names DEF CtlInv, Place, Locked, WorkPcs, BeginPcs, CommitPcs, Ops
  <2>3. op[p] = "Begin" => Fresh(p)
    BY <1>1, <1>2, <1>4, Names DEF Fresh, Ops
  <2> QED BY <2>2, <2>3
<1>6. Early
  <2>1. \A p \in Proc : op[p] \in {None, "Begin"} /\ op[p] # "Prune" /\ rec[p] = None
    BY <1>1, <1>2, Names DEF Ops
  <2>2. \A p, q \in Proc : op[p] = "Begin" /\ op[q] = "Begin" => p = q
    BY <1>2, Names DEF Ops
  <2>3. None # "mine"
    BY Names DEF Whose
  <2> QED BY <1>1, <1>4, <2>1, <2>2, <2>3 DEF Early
<1>7. Orderly
  <2>1. Lone
    BY <1>1, <1>4, Names DEF Lone
  <2> QED BY <1>1, <1>6, <2>1, EmptyOrder
<1>8. TwoInv /\ Begun
  BY <1>1, <1>4 DEF TwoInv, Begun
<1> QED BY <1>1, <1>3, <1>5, <1>6, <1>7, <1>8 DEF OsInv, Orderly

\* Every step keeps the invariant.
LEMMA NextOs ==
    OsInv /\ [Next]_vars => OsInv'
<1> SUFFICES ASSUME OsInv, [Next]_vars PROVE OsInv'
  OBVIOUS
<1>0. BoundTy'
  BY Bounds DEF OsInv
<1>1. ASSUME NEW p \in Proc, Call(p) \/ Maintain(p) \/ Step(p) \/ Fail(p) \/ Crash(p) PROVE OsInv'
  BY <1>0, <1>1, ProcNext DEF ProcStep
<1>2. CASE PowerLoss
  BY <1>0, <1>2, PowerNext
<1>3. CASE Expire \/ Age \/ OtherAdd \/ OtherErase \/ OtherEraseEnd \/ OtherCleanup \/ UNCHANGED vars
  BY <1>0, <1>3, OthersNext
<1> QED BY <1>1, <1>2, <1>3 DEF Next

\* The inductive invariant holds in every state of os.go's staged uploads, whatever dies,
\* fails, expires or loses power.
THEOREM OsInvariant ==
    Spec => []OsInv
<1> QED BY InitOs, NextOs, PTL DEF Spec

\* Two processes never hold the flock of the same lock file, and the digest's lock is held
\* by one that holds the stage's.
THEOREM TypeCorrect ==
    Spec => []TypeOK
<1>1. OsInv => TypeOK
  BY DEF OsInv
<1> QED BY <1>1, OsInvariant, PTL

\* Neither what Append has acknowledged nor what Begin has returned is taken back by a
\* death, a failing call, a PruneStages or a power loss (Append, Begin, recoverTail and
\* pruneOrphanStage in os.go).
THEOREM StageKeptCorrect ==
    Spec => []StageKept
<1>1. OsInv => StageKept
  <2> SUFFICES ASSUME OsInv PROVE StageKept
    OBVIOUS
  <2>1. ASSUME NEW d \in older \cup {up} PROVE DirInv(d)
    BY DEF OsInv
  <2>2. AckedKept
    BY <2>1 DEF AckedKept, Survivors, DirInv
  <2>3. BegunKept
    BY <2>1 DEF BegunKept, DirInv
  <2> QED BY <2>2, <2>3 DEF StageKept
<1> QED BY <1>1, OsInvariant, PTL

\* No Append, rollback or recovery touches the bytes once share/, an entry or publish/
\* links them (recoverTail's link count and recoverCommit in os.go).
THEOREM PublishedWholeCorrect ==
    Spec => []PublishedWhole
<1>1. OsInv => PublishedWhole
  <2> SUFFICES ASSUME OsInv PROVE PublishedWhole
    OBVIOUS
  <2>1. LinkInv /\ DirInv(up)
    BY DEF OsInv
  <2> QED BY <2>1 DEF LinkInv, DirInv, Frozen, PublishedWhole
<1> QED BY <1>1, OsInvariant, PTL

\* A receipt that a power loss may leave is of an entry that is synced, unless it was
\* erased, and one that a caller may know of is never followed by an older record
\* (recoverCommit and osStageWriteRecord in os.go).
THEOREM ReceiptStandsCorrect ==
    Spec => []ReceiptStands
<1>1. OsInv => ReceiptStands
  <2> SUFFICES ASSUME OsInv PROVE ReceiptStands
    OBVIOUS
  <2>1. ASSUME NEW d \in older \cup {up} PROVE DirInv(d)
    BY DEF OsInv
  <2> QED BY <2>1 DEF ReceiptStands, Survivors, DirInv
<1> QED BY <1>1, OsInvariant, PTL
=============================================================================
