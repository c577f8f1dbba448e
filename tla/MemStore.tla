------------------------------ MODULE MemStore ------------------------------
(***************************************************************************)
(* The in-memory backend (mem.go) for one digest: MemStores.bs maps the    *)
(* digest to one memBlob with a mutex and a reference count, and each      *)
(* MemStore.es maps it to a memEntry pointing at a memBlob.  Both are      *)
(* sync.Maps, so a step is one operation on a map, or what is done in one  *)
(* critical section of a blob's mutex between two such operations.         *)
(*                                                                         *)
(* An entry is the blob it points at.  Its identity matters to Link only,  *)
(* which compares the entry it finds with the one it loaded; same[p] is    *)
(* what that comparison yields.                                            *)
(***************************************************************************)
EXTENDS FiniteSets, Naturals

CONSTANTS
    Proc,        \* goroutines
    Namespace,   \* MemStores of the pool
    Blob,        \* bound: memBlobs alive at one time
    None,        \* nil
    Ops,         \* the operations callers make
    UintMod      \* refs is a uint: arithmetic is modulo 2^64 in the code

ASSUME MemAssumption ==
    /\ None \notin Proc \cup Blob
    /\ None \notin {"ok", "exists", "notexist", "mismatch", "error"}
    /\ Ops \subseteq {"Add", "Link", "Erase", "Label", "Open"}
    /\ IsFiniteSet(Namespace) /\ IsFiniteSet(Proc)
    /\ UintMod \in Nat
    /\ Cardinality(Namespace) + Cardinality(Proc) < UintMod

VARIABLES
    bs,      \* the blob the pool has for the digest, or None
    mu,      \* mu[b]: the goroutine that holds b's mutex, or None
    refs,    \* refs[b]: b's reference count
    es,      \* es[n]: the blob the entry of namespace n points at, or None
    call,    \* call[p]: the call p is making
    pc,      \* pc[p]: where it is
    res,     \* res[p]: what it will return, or None
    b_,      \* b_[p]: the blob p works on, or None
    same     \* same[p]: the source holds the entry Link loaded from it

heap == <<bs, mu, refs, es>>
vars == <<heap, call, pc, res, b_, same>>

Calls == [op : Ops, ns : Namespace, from : Namespace]
NoCall == [op |-> None, ns |-> None, from |-> None]
Results == {"ok", "exists", "notexist", "mismatch", "error"}

Labels ==
    {"idle", "check", "store", "lockblob", "enter", "inc", "erase", "dec", "delete",
     "linkload", "linklock", "linkrecheck", "linkdup", "linkenter", "labelload",
     "labelstore", "open", "unlock", "ret"}

Working ==    \* publish, Link and Erase with a blob in hand
    {"lockblob", "enter", "inc", "dec", "delete", "linklock", "linkrecheck",
     "linkdup", "linkenter", "unlock"}

\* The variables have their types.
TypeOK ==
    /\ bs \in Blob \cup {None}
    /\ mu \in [Blob -> Proc \cup {None}]
    /\ refs \in [Blob -> 0 .. UintMod - 1]
    /\ es \in [Namespace -> Blob \cup {None}]
    /\ call \in [Proc -> Calls \cup {NoCall}]
    /\ pc \in [Proc -> Labels]
    /\ res \in [Proc -> Results \cup {None}]
    /\ b_ \in [Proc -> Blob \cup {None}]
    /\ same \in [Proc -> BOOLEAN]
    /\ \A p \in Proc : pc[p] # "idle" => call[p] \in Calls
    /\ \A p \in Proc : pc[p] \in Working => b_[p] \in Blob

Init ==
    /\ bs = None
    /\ mu = [b \in Blob |-> None]
    /\ refs = [b \in Blob |-> 0]
    /\ es = [n \in Namespace |-> None]
    /\ call = [p \in Proc |-> NoCall]
    /\ pc = [p \in Proc |-> "idle"]
    /\ res = [p \in Proc |-> None]
    /\ b_ = [p \in Proc |-> None]
    /\ same = [p \in Proc |-> FALSE]

-----------------------------------------------------------------------------
Goto(p, l) == pc' = [pc EXCEPT ![p] = l]
Answer(p, r, l) == Goto(p, l) /\ res' = [res EXCEPT ![p] = r]

\* Nothing reaches the blob any more: it can be allocated.  Which of those is
\* immaterial.
FreeBlob(b) ==
    /\ bs # b
    /\ \A p \in Proc : b_[p] # b
    /\ \A n \in Namespace : es[n] # b

NewBlob == CHOOSE b \in Blob : FreeBlob(b)

First(o) ==
    CASE o = "Add" -> "check"
      [] o = "Link" -> "linkload"
      [] o = "Erase" -> "erase"
      [] o = "Label" -> "labelload"
      [] o = "Open" -> "open"

Call(p) ==
    /\ pc[p] = "idle"
    /\ \E c \in Calls :
          /\ c.op # "Link" => c.from = c.ns
          /\ call' = [call EXCEPT ![p] = c]
          /\ Goto(p, First(c.op))
    /\ UNCHANGED <<heap, res, b_, same>>

Finish(p) ==
    /\ Goto(p, "idle")
    /\ call' = [call EXCEPT ![p] = NoCall]
    /\ res' = [res EXCEPT ![p] = None]
    /\ b_' = [b_ EXCEPT ![p] = None]
    /\ same' = [same EXCEPT ![p] = FALSE]

Return(p) ==
    /\ pc[p] = "ret"
    /\ Finish(p)
    /\ UNCHANGED heap

\* The deferred b.mu.Unlock of publish and Link, and the return.
Unlock(p) ==
    /\ pc[p] = "unlock"
    /\ mu' = [mu EXCEPT ![b_[p]] = None]
    /\ Finish(p)
    /\ UNCHANGED <<bs, refs, es>>

-----------------------------------------------------------------------------
(* Add, and publish for Add, Fill's Commit and a stage's Commit.           *)

\* Add of a digest it was given looks first; every Add hashes what it reads,
\* which may fail.
Check(p) ==
    /\ pc[p] = "check"
    /\ \/ es[call[p].ns] # None /\ Answer(p, "exists", "ret")
       \/ Goto(p, "store") /\ UNCHANGED res
       \/ es[call[p].ns] = None /\ Answer(p, "mismatch", "ret")
       \/ Answer(p, "error", "ret")
    /\ UNCHANGED <<heap, call, b_, same>>

\* bs.LoadOrStore of a new blob, whose mutex is held before it is stored.
Store(p) ==
    /\ pc[p] = "store"
    /\ IF bs = None
       THEN /\ \E b \in Blob : FreeBlob(b)
            /\ bs' = NewBlob
            /\ mu' = [mu EXCEPT ![NewBlob] = p]
            /\ refs' = [refs EXCEPT ![NewBlob] = 0]
            /\ b_' = [b_ EXCEPT ![p] = NewBlob]
            /\ Goto(p, "enter")
       ELSE /\ b_' = [b_ EXCEPT ![p] = bs]
            /\ Goto(p, "lockblob")
            /\ UNCHANGED <<bs, mu, refs>>
    /\ UNCHANGED <<es, call, res, same>>

\* The blob found is locked; one that is being deleted is unlocked again and
\* publish starts over.
LockBlob(p) ==
    /\ pc[p] = "lockblob"
    /\ mu[b_[p]] = None
    /\ IF refs[b_[p]] = 0
       THEN Goto(p, "store") /\ b_' = [b_ EXCEPT ![p] = None] /\ UNCHANGED mu
       ELSE Goto(p, "enter") /\ mu' = [mu EXCEPT ![b_[p]] = p] /\ UNCHANGED b_
    /\ UNCHANGED <<bs, refs, es, call, res, same>>

\* Faulty: es.Store, which overwrites an entry.
StoreEntry(p) ==
    Answer(p, "ok", "inc") /\ es' = [es EXCEPT ![call[p].ns] = b_[p]]

\* es.LoadOrStore of a new entry for the blob, by publish and by Link.
LoadOrStore(p) ==
    LET n == call[p].ns IN
    IF es[n] # None
    THEN Answer(p, "exists", "unlock") /\ UNCHANGED es
    ELSE Answer(p, "ok", "inc") /\ es' = [es EXCEPT ![n] = b_[p]]

Enter(p) ==
    /\ pc[p] = "enter"
    /\ LoadOrStore(p)
    /\ UNCHANGED <<bs, mu, refs, call, b_, same>>

\* b.refs++.
Inc(p) ==
    /\ pc[p] = "inc"
    /\ refs' = [refs EXCEPT ![b_[p]] = (@ + 1) % UintMod]
    /\ Goto(p, "unlock")
    /\ UNCHANGED <<bs, mu, es, call, res, b_, same>>

-----------------------------------------------------------------------------
(* Erase.                                                                  *)

\* es.LoadAndDelete.
Erase(p) ==
    /\ pc[p] = "erase"
    /\ LET n == call[p].ns IN
       IF es[n] = None
       THEN Answer(p, "ok", "ret") /\ UNCHANGED <<es, b_, same>>
       ELSE /\ es' = [es EXCEPT ![n] = None]
            /\ same' = [q \in Proc |-> same[q] /\ call[q].from # n]
            /\ b_' = [b_ EXCEPT ![p] = es[n]]
            /\ Answer(p, "ok", "dec")
    /\ UNCHANGED <<bs, mu, refs, call>>

\* The count goes down under the mutex, which is kept when it reaches zero.
Dec(p) ==
    /\ pc[p] = "dec"
    /\ mu[b_[p]] = None
    /\ refs' = [refs EXCEPT ![b_[p]] = (@ + UintMod - 1) % UintMod]
    /\ IF refs'[b_[p]] > 0
       THEN Goto(p, "ret") /\ UNCHANGED mu
       ELSE Goto(p, "delete") /\ mu' = [mu EXCEPT ![b_[p]] = p]
    /\ UNCHANGED <<bs, es, call, res, b_, same>>

\* Faulty: the last reference goes and the pool keeps the blob.
DeleteForgotten(p) ==
    /\ pc[p] = "delete"
    /\ mu' = [mu EXCEPT ![b_[p]] = None]
    /\ Goto(p, "ret")
    /\ UNCHANGED <<bs, refs, es, call, res, b_, same>>

\* bs.Delete of the digest, whatever blob it maps to, and unlock.
Delete(p) ==
    /\ pc[p] = "delete"
    /\ bs' = None
    /\ mu' = [mu EXCEPT ![b_[p]] = None]
    /\ Goto(p, "ret")
    /\ UNCHANGED <<refs, es, call, res, b_, same>>

-----------------------------------------------------------------------------
(* Link.                                                                   *)

\* source.es.Load, unless the context is done already.
LinkLoad(p) ==
    /\ pc[p] = "linkload"
    /\ LET e == es[call[p].from] IN
       \/ e = None /\ Answer(p, "notexist", "ret") /\ UNCHANGED <<b_, same>>
       \/ /\ e # None
          /\ same' = [same EXCEPT ![p] = TRUE]
          /\ b_' = [b_ EXCEPT ![p] = e]
          /\ Goto(p, "linklock")
          /\ UNCHANGED res
       \/ Answer(p, "error", "ret") /\ UNCHANGED <<b_, same>>
    /\ UNCHANGED <<heap, call>>

LinkLock(p) ==
    /\ pc[p] = "linklock"
    /\ mu[b_[p]] = None
    /\ mu' = [mu EXCEPT ![b_[p]] = p]
    /\ Goto(p, "linkrecheck")
    /\ UNCHANGED <<bs, refs, es, call, res, b_, same>>

\* Faulty: the source entry is not looked at again under the mutex.
LinkUnchecked(p) ==
    /\ pc[p] = "linkrecheck"
    /\ Goto(p, "linkdup")
    /\ UNCHANGED <<heap, call, res, b_, same>>

\* The source must still be the entry that was loaded.
LinkRecheck(p) ==
    /\ pc[p] = "linkrecheck"
    /\ IF same[p] THEN Goto(p, "linkdup") /\ UNCHANGED res
       ELSE Answer(p, "notexist", "unlock")
    /\ UNCHANGED <<heap, call, b_, same>>

LinkDup(p) ==
    /\ pc[p] = "linkdup"
    /\ IF es[call[p].ns] # None THEN Answer(p, "exists", "unlock")
       ELSE Goto(p, "linkenter") /\ UNCHANGED res
    /\ UNCHANGED <<heap, call, b_, same>>

\* The entry is stored, unless the context is done.
LinkEnter(p) ==
    /\ pc[p] = "linkenter"
    /\ \/ LoadOrStore(p)
       \/ Answer(p, "error", "unlock") /\ UNCHANGED es
    /\ UNCHANGED <<bs, mu, refs, call, b_, same>>

-----------------------------------------------------------------------------
(* Label and Open.                                                         *)

LabelLoad(p) ==
    /\ pc[p] = "labelload"
    /\ IF es[call[p].ns] = None THEN Answer(p, "notexist", "ret")
       ELSE Goto(p, "labelstore") /\ UNCHANGED res
    /\ UNCHANGED <<heap, call, b_, same>>

\* The labels go to the entry that was loaded, in the map or not.
LabelStore(p) ==
    /\ pc[p] = "labelstore"
    /\ Answer(p, "ok", "ret")
    /\ UNCHANGED <<heap, call, b_, same>>

Open(p) ==
    /\ pc[p] = "open"
    /\ Answer(p, IF es[call[p].ns] = None THEN "notexist" ELSE "ok", "ret")
    /\ UNCHANGED <<heap, call, b_, same>>

-----------------------------------------------------------------------------
Running(p) ==
    \/ Check(p) \/ Store(p) \/ LockBlob(p) \/ Enter(p) \/ Inc(p)
    \/ Erase(p) \/ Dec(p) \/ Delete(p)
    \/ LinkLoad(p) \/ LinkLock(p) \/ LinkRecheck(p) \/ LinkDup(p) \/ LinkEnter(p)
    \/ LabelLoad(p) \/ LabelStore(p) \/ Open(p) \/ Unlock(p) \/ Return(p)

Next == \E p \in Proc : Call(p) \/ Running(p)

Spec == Init /\ [][Next]_vars

-----------------------------------------------------------------------------
(* Properties.                                                             *)

\* The reference count of a blob is exactly the entries that point at it, and
\* those an Erase has taken out and not yet counted down, less the one that a
\* publish or a Link has stored and not yet counted, at every interleaving of
\* the three.  So refs, a uint, never wraps.
RefsExact ==
    \A b \in Blob :
       refs[b] + Cardinality({p \in Proc : pc[p] = "inc" /\ b_[p] = b})
         = Cardinality({n \in Namespace : es[n] = b})
             + Cardinality({p \in Proc : pc[p] = "dec" /\ b_[p] = b})

\* Every entry of every namespace points at the blob the pool has for the
\* digest: bs.Delete, which deletes by key, never takes a blob in use, and
\* there is one copy of the bytes.
OneBlob == \A n \in Namespace : es[n] # None => es[n] = bs

\* A blob in the pool that nobody has locked is referenced.  Otherwise every
\* publish of the digest would find it, see a count of zero, and retry for ever.
NoDeadBlob == bs # None => mu[bs] # None \/ refs[bs] > 0

-----------------------------------------------------------------------------
(* MemStore implements BlobStore.                                          *)

\* A Link whose source entry has been erased since it was loaded will find so.
SourceLost(p) ==
    /\ call[p].op = "Link"
    /\ pc[p] \in {"linklock", "linkrecheck"}
    /\ ~same[p]

AbsPhase(p) ==
    IF res[p] # None THEN res[p]
    ELSE IF SourceLost(p) THEN "notexist"
    ELSE IF pc[p] \in {"linkdup", "linkenter", "labelstore"} THEN "pinned"
    ELSE "run"

AbsCall(p) ==
    IF pc[p] = "idle" THEN [op |-> "none"]
    ELSE [op |-> call[p].op, ns |-> call[p].ns, from |-> call[p].from,
          phase |-> AbsPhase(p)]

Abs == INSTANCE BlobStore WITH
          present <- {n \in Namespace : es[n] # None},
          call <- [p \in Proc |-> AbsCall(p)]

\* Callers see what BlobStore promises: the same as of the filesystem store.
ImplementsBlobStore == Abs!Spec
=============================================================================
